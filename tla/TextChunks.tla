------------------------------ MODULE TextChunks ------------------------------
(***************************************************************************)
(* chunk_text (embeddings.py): a text is cut into chunks of whole          *)
(* sentences for the knowledge base, each beginning with the tail of the   *)
(* one before.  A step is one turn of the loop.  A sentence is its length, *)
(* a chunk the range of its sentences, with the length of the tail and its *)
(* own.  The tail is stripped, so it may be shorter than the overlap.      *)
(***************************************************************************)
EXTENDS Naturals, Sequences

CONSTANTS
    ChunkSize,  \* _CHUNK_SIZE
    Overlap,    \* _OVERLAP
    Texts       \* the texts to cut, as the sequence of their sentences' lengths

ASSUME SizesAssumption == ChunkSize \in Nat /\ Overlap \in 1..ChunkSize
ASSUME TextsAssumption == \A text \in Texts : text \in Seq(Nat \ {0})

VARIABLES
    text,     \* the text being cut
    next,     \* the sentence the loop is at
    chunks,   \* the chunks so far
    current,  \* the one being filled
    done

textVars == <<text, next, chunks, current, done>>

\* Sentences first..last after a tail of `carried` characters; none if first > last.
Chunk(carried, first, last, size) ==
    [carried |-> carried, first |-> first, last |-> last, size |-> size]

TextInit ==
    /\ text \in Texts
    /\ next = 1
    /\ chunks = <<>>
    /\ current = Chunk(0, 1, 0, 0)
    /\ done = FALSE

-----------------------------------------------------------------------------
(* Plausible mistakes, each a wrong version of the definition it is named  *)
(* after.                                                                  *)

\* The new chunk begins without the sentence that did not fit.
NextChunkDrops(n, tail) == Chunk(tail, next + 1, next, tail)

\* The overlap is not counted when the next sentence is tried.
FitsIgnoringTail(n) == current.size - current.carried + n + 1 <= ChunkSize

-----------------------------------------------------------------------------

Fits(n) == current.size + n + 1 <= ChunkSize

Extended(n) == Chunk(current.carried, current.first, next,
                     IF current.size = 0 THEN n ELSE current.size + 1 + n)

NextChunk(n, tail) == Chunk(tail, next, next, tail + 1 + n)

\* The last characters of a chunk, stripped.
Tails(size) == {tail \in 1..Overlap : tail <= size}

\* One turn: the sentence is appended to the chunk, begins the next one, or is a
\* chunk of its own, whose tail then begins the next one.
Sentence ==
    LET n == text[next] IN
    /\ next <= Len(text)
    /\ next' = next + 1
    /\ \/ /\ Fits(n)
          /\ current' = Extended(n) /\ UNCHANGED chunks
       \/ /\ ~Fits(n) /\ current.size > 0
          /\ chunks' = Append(chunks, current)
          /\ \E tail \in Tails(current.size) : current' = NextChunk(n, tail)
       \/ /\ ~Fits(n) /\ current.size = 0
          /\ chunks' = Append(chunks, Chunk(0, next, next, n))
          /\ \E tail \in Tails(n) : current' = Chunk(tail, next + 1, next, tail)
    /\ UNCHANGED <<text, done>>

\* The rest; of a text without a sentence, the text.
Finish ==
    /\ next > Len(text) /\ ~done
    /\ done' = TRUE
    /\ chunks' = IF current.size > 0 \/ chunks = <<>> THEN Append(chunks, current) ELSE chunks
    /\ UNCHANGED <<text, next, current>>

TextNext == Sentence \/ Finish

TextSpec == TextInit /\ [][TextNext]_textVars

-----------------------------------------------------------------------------
(* Properties                                                              *)

\* No sentence is lost, stored twice, or out of order: the chunks' ranges follow
\* one another, and in the end they reach the last sentence.
ChunksKeepText ==
    /\ \A k \in 1..Len(chunks) :
          chunks[k].first = IF k = 1 THEN 1 ELSE chunks[k-1].last + 1
    /\ done => chunks[Len(chunks)].last = Len(text)

\* A chunk is larger than ChunkSize only if it is one sentence, which with the
\* tail before it, and a space, is too long.  A chunk without a sentence of its
\* own repeats the tail of a first one that is.
ChunksFit ==
    \A k \in 1..Len(chunks) :
        LET c == chunks[k] IN
        /\ c.size > ChunkSize => c.first = c.last /\ c.size <= Overlap + 1 + text[c.first]
        /\ c.first > c.last /\ c.size > 0 => k = 2 /\ chunks[1].size + 1 > ChunkSize
=============================================================================
