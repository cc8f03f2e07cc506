------------------------------ MODULE ToolsProofs ------------------------------
(***************************************************************************)
(* Proofs about the tools.  TextChunks: whatever the text and the sizes,   *)
(* no sentence is lost between chunks, and a chunk is too large only for   *)
(* one sentence.  AlertPublisher and PortfolioReco: whatever the funds,    *)
(* the investors and the notes, the alert is posted whole and in order,    *)
(* and the filter's report is safe.                                        *)
(***************************************************************************)
EXTENDS PortfolioReco, TextChunks, FiniteSetTheorems, SequenceTheorems, WellFoundedInduction, TLAPS

ChunkType == [carried : Nat, first : Nat, last : Nat, size : Nat]

TypeOK ==
    /\ text \in Seq(Nat \ {0})
    /\ next \in 1..(Len(text) + 1)
    /\ chunks \in Seq(ChunkType)
    /\ current \in ChunkType
    /\ done \in BOOLEAN

\* c is the k-th chunk, complete or not, after those of cs.
ChunkOK(c, k, cs) ==
    /\ c.first = IF k = 1 THEN 1 ELSE cs[k-1].last + 1
    /\ c.first <= c.last + 1
    /\ c.size > ChunkSize => c.first = c.last /\ c.size <= Overlap + 1 + text[c.first]
    /\ c.first > c.last /\ c.size > 0 => k = 2 /\ cs[1].size + 1 > ChunkSize

ChunksOK(cs) == \A k \in 1..Len(cs) : ChunkOK(cs[k], k, cs)

\* The chunk being filled comes next and ends before the sentence the loop is at.
\* It is empty only before the first sentence.
CurrentOK ==
    /\ ChunkOK(current, Len(chunks) + 1, chunks)
    /\ current.last = next - 1
    /\ current.size = 0 => chunks = <<>> /\ next = 1

IInv ==
    /\ TypeOK
    /\ ChunksOK(chunks)
    /\ ~done => CurrentOK
    /\ done => /\ next = Len(text) + 1
               /\ chunks # <<>> /\ chunks[Len(chunks)].last = Len(text)

-----------------------------------------------------------------------------

LEMMA InitIInv == TextInit => IInv
<1>. SUFFICES ASSUME TextInit PROVE IInv
    OBVIOUS
<1>. USE DEF TextInit
<1>1. TypeOK
    <2>1. text \in Seq(Nat \ {0}) /\ Len(text) \in Nat
        BY TextsAssumption
    <2>2. current \in ChunkType
        BY DEF ChunkType, Chunk
    <2>3. chunks \in Seq(ChunkType)
        OBVIOUS
    <2>4. next \in 1..(Len(text) + 1)
        BY <2>1
    <2>. QED  BY <2>1, <2>2, <2>3, <2>4 DEF TypeOK
<1>2. CurrentOK
    BY SizesAssumption DEF CurrentOK, ChunkOK, Chunk
<1>. QED  BY <1>1, <1>2 DEF IInv, ChunksOK

\* What is appended to correct chunks: the next one, if it is correct.
LEMMA Appended ==
    ASSUME NEW cs \in Seq(ChunkType), ChunksOK(cs),
           NEW c \in ChunkType, ChunkOK(c, Len(cs) + 1, cs)
    PROVE  /\ Append(cs, c) \in Seq(ChunkType) /\ Len(Append(cs, c)) = Len(cs) + 1
           /\ Append(cs, c)[Len(cs) + 1] = c
           /\ cs # <<>> => Append(cs, c)[1] = cs[1]
           /\ ChunksOK(Append(cs, c))
<1>. DEFINE n == Len(cs)
            more == Append(cs, c)
<1>1. /\ more \in Seq(ChunkType) /\ Len(more) = n + 1 /\ more[n + 1] = c /\ n \in Nat
      /\ \A k \in 1..n : more[k] = cs[k]
    OBVIOUS
<1>. HIDE DEF more
<1>2. ASSUME NEW k \in 1..n PROVE ChunkOK(more[k], k, more)
    <2>1. more[k] = cs[k] /\ more[1] = cs[1] /\ (k # 1 => more[k-1] = cs[k-1])
        BY <1>1
    <2>2. ChunkOK(cs[k], k, cs)
        BY DEF ChunksOK
    <2>. QED  BY <2>1, <2>2 DEF ChunkOK
<1>3. ChunkOK(more[n + 1], n + 1, more)
    <2>1. n # 0 => more[1] = cs[1] /\ more[n] = cs[n]
        BY <1>1
    <2>. QED  BY <1>1, <2>1 DEF ChunkOK
<1>4. ChunksOK(more)
    <2>1. \A k \in 1..(n + 1) : k \in 1..n \/ k = n + 1
        BY <1>1
    <2>. QED  BY <1>1, <1>2, <1>3, <2>1 DEF ChunksOK
<1>5. cs # <<>> => more[1] = cs[1]
    <2>1. cs # <<>> => n # 0
        OBVIOUS
    <2>. QED  BY <1>1, <2>1
<1>. QED  BY <1>1, <1>4, <1>5 DEF more

LEMMA SentenceStep ==
    ASSUME IInv, ~done, Sentence
    PROVE  IInv'
<1>. DEFINE n == text[next]
<1>. USE SizesAssumption DEF IInv
<1>1. /\ next \in 1..Len(text) /\ Len(text) \in Nat /\ n \in Nat \ {0}
      /\ next' = next + 1 /\ text' = text /\ done' = done
    BY DEF Sentence, TypeOK
<1>2. /\ current \in ChunkType /\ chunks \in Seq(ChunkType) /\ Len(chunks) \in Nat
      /\ current.first \in Nat /\ current.last \in Nat /\ current.size \in Nat
      /\ current.carried \in Nat
    BY DEF TypeOK, ChunkType
<1>3. current.last = next - 1 /\ ChunkOK(current, Len(chunks) + 1, chunks)
    BY DEF CurrentOK
<1>4. next' \in 1..(Len(text') + 1) /\ text' \in Seq(Nat \ {0}) /\ done' \in BOOLEAN
    BY <1>1 DEF TypeOK
<1>. SUFFICES /\ chunks' \in Seq(ChunkType) /\ ChunksOK(chunks')
              /\ current' \in ChunkType /\ ChunkOK(current', Len(chunks') + 1, chunks')
              /\ current'.last = next /\ current'.size > 0
    BY <1>1, <1>4 DEF TypeOK, CurrentOK, ChunksOK, ChunkOK
<1>5. CASE Fits(n) /\ current' = Extended(n) /\ UNCHANGED chunks
    <2>1. /\ current'.first = current.first /\ current'.last = next
          /\ current'.size = IF current.size = 0 THEN n ELSE current.size + 1 + n
          /\ current' \in ChunkType
        BY <1>1, <1>2, <1>5 DEF Extended, Chunk, ChunkType
    <2>2. current'.size <= ChunkSize /\ current'.size > 0
        <3>1. n <= ChunkSize /\ (current.size # 0 => current.size + 1 + n <= ChunkSize)
            BY <1>1, <1>2, <1>5 DEF Fits
        <3>. HIDE DEF n
        <3>. QED  BY <1>1, <1>2, <2>1, <3>1
    <2>3. ChunkOK(current', Len(chunks) + 1, chunks)
        BY <1>1, <1>2, <1>3, <2>1, <2>2 DEF ChunkOK
    <2>. QED  BY <1>2, <1>5, <2>1, <2>2, <2>3
<1>6. CASE /\ current.size > 0 /\ chunks' = Append(chunks, current)
           /\ \E tail \in Tails(current.size) : current' = NextChunk(n, tail)
    <2>1. PICK tail \in 1..Overlap : current' = Chunk(tail, next, next, tail + 1 + n)
        BY <1>6 DEF Tails, NextChunk
    <2>2. /\ chunks' \in Seq(ChunkType) /\ Len(chunks') = Len(chunks) + 1
          /\ chunks'[Len(chunks) + 1] = current /\ ChunksOK(chunks')
        BY <1>2, <1>3, <1>6, Appended
    <2>3. /\ current' \in ChunkType /\ current'.first = next /\ current'.last = next
          /\ current'.size = tail + 1 + n
        BY <1>1, <2>1 DEF Chunk, ChunkType
    <2>4. ChunkOK(current', Len(chunks') + 1, chunks')
        BY <1>1, <1>2, <1>3, <2>2, <2>3 DEF ChunkOK
    <2>. QED  BY <1>1, <2>2, <2>3, <2>4
<1>7. CASE /\ ~Fits(n) /\ current.size = 0
           /\ chunks' = Append(chunks, Chunk(0, next, next, n))
           /\ \E tail \in Tails(n) : current' = Chunk(tail, next + 1, next, tail)
    <2>. DEFINE whole == Chunk(0, next, next, n)
    <2>1. chunks = <<>> /\ next = 1
        BY <1>7 DEF CurrentOK
    <2>2. whole \in ChunkType /\ whole.first = next /\ whole.last = next /\ whole.size = n
        BY <1>1 DEF Chunk, ChunkType
    <2>3. ChunkOK(whole, Len(chunks) + 1, chunks)
        BY <1>1, <2>1, <2>2 DEF ChunkOK
    <2>4. /\ chunks' \in Seq(ChunkType) /\ Len(chunks') = 1 /\ chunks'[1] = whole
          /\ ChunksOK(chunks')
        <3>1. chunks' = Append(chunks, whole) /\ Len(chunks) = 0
            BY <1>7, <2>1
        <3>. HIDE DEF whole
        <3>2. /\ Append(chunks, whole) \in Seq(ChunkType)
              /\ Len(Append(chunks, whole)) = Len(chunks) + 1
              /\ Append(chunks, whole)[Len(chunks) + 1] = whole
              /\ ChunksOK(Append(chunks, whole))
            BY <1>2, <2>2, <2>3, Appended
        <3>. QED  BY <3>1, <3>2
    <2>5. PICK tail \in 1..Overlap : current' = Chunk(tail, next + 1, next, tail)
        BY <1>7 DEF Tails
    <2>6. /\ current' \in ChunkType /\ current'.first = next + 1 /\ current'.last = next
          /\ current'.size = tail
        BY <1>1, <2>5 DEF Chunk, ChunkType
    <2>7. n + 1 > ChunkSize
        BY <1>1, <1>2, <1>7 DEF Fits
    <2>8. ChunkOK(current', 2, chunks')
        BY <1>1, <2>2, <2>4, <2>6, <2>7 DEF ChunkOK
    <2>. QED  BY <1>1, <2>4, <2>6, <2>8
<1>. QED  BY <1>1, <1>2, <1>5, <1>6, <1>7 DEF Sentence

LEMMA FinishStep ==
    ASSUME IInv, Finish
    PROVE  IInv'
<1>. USE DEF IInv
<1>1. /\ ~done /\ done' = TRUE /\ UNCHANGED <<text, next, current>>
      /\ next = Len(text) + 1
      /\ chunks' = IF current.size > 0 \/ chunks = <<>> THEN Append(chunks, current) ELSE chunks
    BY DEF Finish, TypeOK
<1>2. /\ chunks' = Append(chunks, current)
      /\ chunks \in Seq(ChunkType) /\ current \in ChunkType /\ Len(text) \in Nat
    BY <1>1 DEF CurrentOK, TypeOK, ChunkType
<1>3. ChunkOK(current, Len(chunks) + 1, chunks) /\ current.last = Len(text)
    BY <1>1, <1>2 DEF CurrentOK
<1>4. /\ chunks' \in Seq(ChunkType) /\ Len(chunks') = Len(chunks) + 1
      /\ chunks'[Len(chunks) + 1] = current /\ ChunksOK(chunks')
    BY <1>2, <1>3, Appended
<1>5. chunks' # <<>>
    BY <1>2, <1>4
<1>. QED  BY <1>1, <1>3, <1>4, <1>5 DEF TypeOK, ChunksOK, ChunkOK

LEMMA Invariance == TextSpec => []IInv
<1>1. IInv /\ [TextNext]_textVars => IInv'
    <2>1. ASSUME IInv, UNCHANGED textVars PROVE IInv'
        BY <2>1 DEF textVars, IInv, TypeOK, ChunksOK, ChunkOK, CurrentOK
    <2>2. ASSUME IInv, Sentence, done PROVE IInv'
        BY <2>2 DEF IInv, TypeOK, Sentence
    <2>. QED  BY <2>1, <2>2, SentenceStep, FinishStep DEF TextNext
<1>. QED  BY InitIInv, <1>1, PTL DEF TextSpec

-----------------------------------------------------------------------------
(* The theorems                                                            *)

\* For any text and sizes: chunk_text loses no sentence, stores none twice and
\* keeps their order; when it returns, the chunks reach the last one.
THEOREM TextIsKept == TextSpec => []ChunksKeepText
<1>1. IInv => ChunksKeepText
    BY DEF IInv, ChunksOK, ChunkOK, ChunksKeepText
<1>. QED  BY <1>1, Invariance, PTL

\* For any text and sizes: a chunk is larger than _CHUNK_SIZE only if it is one
\* sentence, by no more than the tail and a space, and only the second chunk can
\* be a mere tail.
THEOREM SizesAreBounded == TextSpec => []ChunksFit
<1>1. IInv => ChunksFit
    BY DEF IInv, ChunksOK, ChunkOK, ChunksFit
<1>. QED  BY <1>1, Invariance, PTL

-----------------------------------------------------------------------------
(* Least elements, and counting up to a number                             *)

\* A nonempty set of natural numbers has a least element.
LEMMA LeastNat ==
  ASSUME NEW T \in SUBSET Nat, T # {}
  PROVE  \E x \in T : \A y \in T : x <= y
<1> DEFINE R == OpToRel(<, Nat)
<1>1. \E x \in T : \A y \in T : ~ (<<y, x>> \in R)
  <2>1. IsWellFoundedOn(R, Nat) BY NatLessThanWellFounded
  <2> HIDE DEF R
  <2> QED BY <2>1, WFMin
<1>2. \A x, y \in T : y < x => <<y, x>> \in R
  BY DEF OpToRel
<1> HIDE DEF R
<1>3. PICK x \in T : \A y \in T : ~ (<<y, x>> \in R)
  BY <1>1
<1>4. \A y \in T : ~(y < x)
  BY <1>2, <1>3
<1> QED BY <1>4

\* What holds of 0 and passes from each number to the next one holds up to n.
LEMMA UpTo ==
  ASSUME NEW n \in Nat, NEW P, 0 \in P, \A i \in 1..n : i - 1 \in P => i \in P
  PROVE  \A i \in 0..n : i \in P
<1> DEFINE Bad == {i \in 0..n : i \notin P}
<1>1. SUFFICES ASSUME Bad # {} PROVE FALSE
  OBVIOUS
<1>2. Bad \in SUBSET Nat OBVIOUS
<1>3. PICK x \in Bad : \A y \in Bad : x <= y
  <2> HIDE DEF Bad
  <2> QED BY <1>1, <1>2, LeastNat
<1>4. x \in 1..n BY <1>3
<1>5. x - 1 \in 0..n /\ ~(x <= x - 1) BY <1>4
<1>6. x - 1 \in P BY <1>3, <1>5
<1> QED BY <1>3, <1>4, <1>6

-----------------------------------------------------------------------------
(* The messages of an alert                                                *)

MessageType == [first : Nat, last : Nat]

\* A message of paragraphs of the text that exceeds the limit is one paragraph.
MessageOK(m) ==
    /\ m.first \in 1..Len(blocks) /\ m.last \in 1..Len(blocks)
    /\ Length(m.first, m.last) > MaxChars => m.first = m.last

\* Messages that are correct and follow one another from a paragraph on.
Follow(ms, first) ==
    /\ ms \in Seq(MessageType)
    /\ \A k \in 1..Len(ms) :
          MessageOK(ms[k]) /\ ms[k].first = IF k = 1 THEN first ELSE ms[k-1].last + 1

\* The last paragraph of the messages.
End(ms) == IF ms = <<>> THEN 0 ELSE ms[Len(ms)].last

\* The k-th value of the recursion of Chunked.
Grown(f, k) ==
    IF k = 1 THEN <<Message(1, 1)>>
    ELSE IF Joins(Last(f[k-1]), k)
         THEN Append(Front(f[k-1]), Message(Last(f[k-1]).first, k))
         ELSE Append(f[k-1], Message(k, k))

IsChunks(f, n) == f = [k \in 1..n |-> Grown(f, k)]

LEMMA ChunksExist ==
    ASSUME NEW n \in Nat
    PROVE  \E f : IsChunks(f, n)
<1>. DEFINE P == {m \in 0..n : \E f : IsChunks(f, m)}
<1>1. 0 \in P
    <2>1. IsChunks([k \in 1..0 |-> 0], 0)
        BY DEF IsChunks
    <2>. QED  BY <2>1
<1>2. ASSUME NEW m \in 1..n, m - 1 \in P PROVE m \in P
    <2>1. PICK f : IsChunks(f, m - 1)
        BY <1>2
    <2>. DEFINE g == [k \in 1..m |-> IF k = m THEN Grown(f, m) ELSE f[k]]
    <2>2. ASSUME NEW k \in 1..m PROVE g[k] = Grown(g, k)
        <3>1. k # 1 => k - 1 \in 1..m /\ k - 1 # m
            OBVIOUS
        <3>2. k # 1 => g[k-1] = f[k-1]
            BY <3>1
        <3>. HIDE DEF g
        <3>3. Grown(g, k) = Grown(f, k)
            BY <3>2 DEF Grown
        <3>4. k # m => k \in 1..(m - 1)
            OBVIOUS
        <3>5. k # m => f[k] = Grown(f, k)
            BY <2>1, <3>4 DEF IsChunks
        <3>6. g[k] = IF k = m THEN Grown(f, m) ELSE f[k]
            BY DEF g
        <3>. QED  BY <3>3, <3>5, <3>6
    <2>3. g = [k \in 1..m |-> g[k]]
        OBVIOUS
    <2>. HIDE DEF g
    <2>4. IsChunks(g, m)
        BY <2>2, <2>3, Zenon DEF IsChunks
    <2>. QED  BY <2>4
<1>. HIDE DEF P
<1>3. \A i \in 0..n : i \in P
    BY <1>1, <1>2, UpTo
<1>. QED  BY <1>3 DEF P

\* Messages that follow one another, with one more.
LEMMA FollowAppend ==
    ASSUME NEW first \in Nat, NEW ms, Follow(ms, first),
           NEW m \in MessageType, MessageOK(m),
           m.first = IF ms = <<>> THEN first ELSE End(ms) + 1
    PROVE  Follow(Append(ms, m), first) /\ End(Append(ms, m)) = m.last
           /\ Append(ms, m) # <<>>
<1>. DEFINE n == Len(ms)
            more == Append(ms, m)
<1>1. /\ more \in Seq(MessageType) /\ Len(more) = n + 1 /\ more[n + 1] = m /\ n \in Nat
      /\ \A k \in 1..n : more[k] = ms[k]
      /\ ms = <<>> <=> n = 0
    BY DEF Follow
<1>. HIDE DEF more
<1>2. more # <<>> /\ End(more) = m.last
    BY <1>1 DEF End
<1>3. ASSUME NEW k \in 1..(n + 1)
      PROVE  MessageOK(more[k]) /\ more[k].first = IF k = 1 THEN first ELSE more[k-1].last + 1
    <2>1. CASE k = n + 1
        <3>1. n # 0 => n \in 1..n /\ more[n] = ms[n] /\ End(ms) = ms[n].last
            BY <1>1 DEF End
        <3>. QED  BY <1>1, <2>1, <3>1
    <2>2. CASE k # n + 1
        <3>1. k \in 1..n /\ more[k] = ms[k] /\ (k # 1 => more[k-1] = ms[k-1])
            BY <1>1, <2>2
        <3>. QED  BY <3>1 DEF Follow
    <2>. QED  BY <2>1, <2>2
<1>4. Follow(more, first)
    BY <1>1, <1>3 DEF Follow
<1>. QED  BY <1>2, <1>4 DEF more

\* All but the last message.
LEMMA FollowFront ==
    ASSUME NEW first \in Nat, NEW ms, Follow(ms, first), ms # <<>>
    PROVE  /\ Follow(Front(ms), first)
           /\ Last(ms) \in MessageType /\ MessageOK(Last(ms)) /\ Last(ms).last = End(ms)
           /\ Last(ms).first = IF Front(ms) = <<>> THEN first ELSE End(Front(ms)) + 1
<1>. DEFINE n == Len(ms)
            fewer == Front(ms)
<1>1. /\ ms \in Seq(MessageType) /\ n \in Nat \ {0} /\ n - 1 \in Nat
      /\ \A k \in 1..n : ms[k] \in MessageType
    BY DEF Follow
<1>2. /\ fewer \in Seq(MessageType) /\ Len(fewer) = n - 1
      /\ \A k \in 1..(n - 1) : fewer[k] = ms[k]
    <2>1. fewer = SubSeq(ms, 1, n - 1)
        BY DEF Front
    <2>2. \A k \in 1..(n - 1) : ms[k] \in MessageType
        BY <1>1
    <2>. HIDE DEF fewer
    <2>3. /\ fewer \in Seq(MessageType)
          /\ Len(fewer) = IF 1 <= n - 1 THEN (n - 1) - 1 + 1 ELSE 0
          /\ \A k \in 1..((n - 1) - 1 + 1) : fewer[k] = ms[1 + k - 1]
        <3>1. 1 \in Int /\ n - 1 \in Int
            BY <1>1
        <3>. QED  BY <2>1, <2>2, <3>1, SubSeqProperties
    <2>4. Len(fewer) = n - 1
        <3>. HIDE DEF n
        <3>. QED  BY <1>1, <2>3
    <2>5. \A k \in 1..(n - 1) : k \in 1..((n - 1) - 1 + 1) /\ 1 + k - 1 = k
        BY <1>1
    <2>. QED  BY <2>3, <2>4, <2>5
<1>3. fewer = <<>> <=> n = 1
    BY <1>1, <1>2
<1>. HIDE DEF fewer
<1>4. Last(ms) = ms[n] /\ n \in 1..n /\ End(ms) = ms[n].last
    BY <1>1 DEF Last, End
<1>5. MessageOK(ms[n]) /\ ms[n].first = IF n = 1 THEN first ELSE ms[n-1].last + 1
    BY <1>4 DEF Follow
<1>6. n # 1 => n - 1 \in 1..(n - 1) /\ End(fewer) = ms[n-1].last
    BY <1>1, <1>2, <1>3 DEF End
<1>7. ASSUME NEW k \in 1..(n - 1)
      PROVE  MessageOK(fewer[k]) /\ fewer[k].first = IF k = 1 THEN first ELSE fewer[k-1].last + 1
    <2>1. k \in 1..n /\ (k # 1 => k - 1 \in 1..(n - 1))
        BY <1>1
    <2>. QED  BY <1>2, <2>1 DEF Follow
<1>8. Follow(fewer, first)
    BY <1>2, <1>7 DEF Follow
<1>. QED  BY <1>1, <1>3, <1>4, <1>5, <1>6, <1>8 DEF fewer

\* All but the first message.
LEMMA FollowTail ==
    ASSUME NEW first \in Nat, NEW ms, Follow(ms, first), ms # <<>>
    PROVE  /\ Head(ms) \in MessageType /\ MessageOK(Head(ms)) /\ Head(ms).first = first
           /\ Follow(Tail(ms), Head(ms).last + 1)
           /\ End(ms) = IF Tail(ms) = <<>> THEN Head(ms).last ELSE End(Tail(ms))
<1>. DEFINE n == Len(ms)
            fewer == Tail(ms)
<1>1. /\ ms \in Seq(MessageType) /\ n \in Nat \ {0} /\ n - 1 \in Nat
      /\ \A k \in 1..n : ms[k] \in MessageType
    BY DEF Follow
<1>2. /\ fewer \in Seq(MessageType) /\ Len(fewer) = n - 1
      /\ \A k \in 1..(n - 1) : fewer[k] = ms[k + 1]
    BY <1>1
<1>3. fewer = <<>> <=> n = 1
    BY <1>1, <1>2
<1>4. Head(ms) = ms[1] /\ 1 \in 1..n
    BY <1>1
<1>. HIDE DEF fewer
<1>5. MessageOK(ms[1]) /\ ms[1].first = first
    BY <1>4 DEF Follow
<1>6. ASSUME NEW k \in 1..(n - 1)
      PROVE  /\ MessageOK(fewer[k])
             /\ fewer[k].first = IF k = 1 THEN ms[1].last + 1 ELSE fewer[k-1].last + 1
    <2>1. k + 1 \in 1..n /\ k + 1 # 1 /\ (k + 1) - 1 = k /\ (k # 1 => k - 1 \in 1..(n - 1))
        BY <1>1
    <2>2. MessageOK(ms[k + 1]) /\ ms[k + 1].first = ms[k].last + 1
        BY <2>1 DEF Follow
    <2>3. k # 1 => fewer[k-1] = ms[k]
        <3>1. ASSUME k # 1 PROVE fewer[k-1] = ms[(k - 1) + 1]
            BY <1>2, <2>1, <3>1
        <3>. QED  BY <3>1
    <2>. QED  BY <1>2, <2>2, <2>3
<1>7. Follow(fewer, ms[1].last + 1)
    BY <1>2, <1>6 DEF Follow
<1>8. End(ms) = IF fewer = <<>> THEN ms[1].last ELSE End(fewer)
    <2>1. n # 1 => fewer[n - 1] = ms[(n - 1) + 1]
        BY <1>1, <1>2
    <2>. QED  BY <1>1, <1>2, <1>3, <2>1 DEF End
<1>. QED  BY <1>1, <1>4, <1>5, <1>7, <1>8 DEF fewer

\* _chunk_message cuts the whole text, between paragraphs.
LEMMA ChunkedOK ==
    ASSUME blocks \in Seq(Nat), blocks # <<>>
    PROVE  Follow(Chunked, 1) /\ Chunked # <<>> /\ End(Chunked) = Len(blocks)
<1>. DEFINE n == Len(blocks)
<1>1. n \in Nat \ {0} /\ \A k \in 1..n : blocks[k] \in Nat
    OBVIOUS
<1>2. Follow(<<>>, 1)
    BY DEF Follow
<1>3. ASSUME NEW k \in 1..n PROVE Start(k) \in Nat
    <2>1. k # 1 => k - 1 \in 1..n
        BY <1>1
    <2>. QED  BY <1>1, <2>1 DEF Start
<1>4. ASSUME NEW i \in 1..n, NEW j \in 1..n, i = j \/ Length(i, j) <= MaxChars
      PROVE  Message(i, j) \in MessageType /\ MessageOK(Message(i, j))
             /\ Message(i, j).first = i /\ Message(i, j).last = j
    <2>1. Message(i, j) \in MessageType /\ Message(i, j).first = i /\ Message(i, j).last = j
        BY DEF Message, MessageType
    <2>2. Length(i, j) \in Int
        BY <1>1, <1>3 DEF Length
    <2>3. Length(i, j) <= MaxChars => ~(Length(i, j) > MaxChars)
        BY <2>2, AlertAssumption
    <2>. QED  BY <1>4, <2>1, <2>3 DEF MessageOK
<1>5. CASE Length(1, n) <= MaxChars
    <2>1. Chunked = <<Message(1, n)>>
        BY <1>5 DEF Chunked
    <2>2. 1 \in 1..n /\ n \in 1..n
        BY <1>1
    <2>3. Message(1, n) \in MessageType /\ MessageOK(Message(1, n))
          /\ Message(1, n).first = 1 /\ Message(1, n).last = n
        BY <1>4, <1>5, <2>2
    <2>4. Chunked = Append(<<>>, Message(1, n))
        BY <2>1
    <2>5. Message(1, n).first = IF <<>> = <<>> THEN 1 ELSE End(<<>>) + 1
        BY <2>3
    <2>6. /\ Follow(Append(<<>>, Message(1, n)), 1)
          /\ End(Append(<<>>, Message(1, n))) = Message(1, n).last
          /\ Append(<<>>, Message(1, n)) # <<>>
        BY <1>2, <2>3, <2>5, FollowAppend
    <2>. QED  BY <2>3, <2>4, <2>6
<1>6. CASE ~(Length(1, n) <= MaxChars)
    <2>. DEFINE f == CHOOSE g : IsChunks(g, n)
    <2>1. IsChunks(f, n)
        BY <1>1, ChunksExist
    <2>2. Chunked = f[n]
        BY <1>6 DEF Chunked, IsChunks, Grown
    <2>. HIDE DEF f
    <2>3. \A k \in 1..n : f[k] = Grown(f, k)
        BY <2>1 DEF IsChunks
    <2>. DEFINE Cut(k) == Follow(f[k], 1) /\ f[k] # <<>> /\ End(f[k]) = k
                P == {k \in 0..n : k = 0 \/ Cut(k)}
    <2>4. ASSUME NEW k \in 1..n, k - 1 \in P PROVE Cut(k)
        <3>1. Message(k, k) \in MessageType /\ MessageOK(Message(k, k))
              /\ Message(k, k).first = k /\ Message(k, k).last = k
            BY <1>4
        <3>2. CASE k = 1
            <4>1. f[k] = Append(<<>>, Message(k, k))
                BY <2>3, <3>2 DEF Grown
            <4>2. Message(k, k).first = IF <<>> = <<>> THEN 1 ELSE End(<<>>) + 1
                BY <3>1, <3>2
            <4>3. /\ Follow(Append(<<>>, Message(k, k)), 1)
                  /\ End(Append(<<>>, Message(k, k))) = Message(k, k).last
                  /\ Append(<<>>, Message(k, k)) # <<>>
                BY <1>2, <3>1, <4>2, FollowAppend
            <4>. QED  BY <3>1, <4>1, <4>3
        <3>3. CASE k # 1
            <4>. DEFINE ms == f[k-1]
            <4>1. Follow(ms, 1) /\ ms # <<>> /\ End(ms) = k - 1
                BY <2>4, <3>3
            <4>2. f[k] = IF Joins(Last(ms), k)
                         THEN Append(Front(ms), Message(Last(ms).first, k))
                         ELSE Append(ms, Message(k, k))
                BY <2>3, <3>3 DEF Grown
            <4>. HIDE DEF ms
            <4>3. CASE ~Joins(Last(ms), k)
                <5>1. f[k] = Append(ms, Message(k, k))
                    BY <4>2, <4>3
                <5>2. Message(k, k).first = End(ms) + 1
                    BY <3>1, <4>1
                <5>3. /\ Follow(Append(ms, Message(k, k)), 1)
                      /\ End(Append(ms, Message(k, k))) = Message(k, k).last
                      /\ Append(ms, Message(k, k)) # <<>>
                    BY <3>1, <4>1, <5>2, FollowAppend
                <5>. QED  BY <3>1, <5>1, <5>3
            <4>4. CASE Joins(Last(ms), k)
                <5>. DEFINE i == Last(ms).first
                <5>1. /\ Follow(Front(ms), 1) /\ MessageOK(Last(ms))
                      /\ i = IF Front(ms) = <<>> THEN 1 ELSE End(Front(ms)) + 1
                    BY <4>1, FollowFront
                <5>2. i \in 1..n
                    BY <5>1 DEF MessageOK
                <5>3. Length(i, k) \in Int /\ Length(i, k) + 2 <= MaxChars
                    BY <1>1, <1>3, <4>4, <5>2 DEF Length, Joins
                <5>4. Length(i, k) <= MaxChars
                    BY <5>3, AlertAssumption
                <5>5. Message(i, k) \in MessageType /\ MessageOK(Message(i, k))
                      /\ Message(i, k).first = i /\ Message(i, k).last = k
                    BY <1>4, <5>2, <5>4
                <5>6. f[k] = Append(Front(ms), Message(i, k))
                    BY <4>2, <4>4
                <5>. HIDE DEF i
                <5>7. /\ Follow(Append(Front(ms), Message(i, k)), 1)
                      /\ End(Append(Front(ms), Message(i, k))) = Message(i, k).last
                      /\ Append(Front(ms), Message(i, k)) # <<>>
                    BY <5>1, <5>5, FollowAppend
                <5>. QED  BY <5>5, <5>6, <5>7
            <4>. QED  BY <4>3, <4>4
        <3>. QED  BY <3>2, <3>3
    <2>5. 0 \in P /\ \A k \in 1..n : k - 1 \in P => k \in P
        BY <1>1, <2>4
    <2>6. \A k \in 0..n : k \in P
        <3>. HIDE DEF P
        <3>. QED  BY <1>1, <2>5, UpTo
    <2>. QED  BY <1>1, <2>2, <2>6
<1>. QED  BY <1>5, <1>6

-----------------------------------------------------------------------------
(* An alert                                                                *)

\* An attempt posts the messages from the first paragraph on; while it is posting,
\* those it holds go on from there to the last one.
AlertInv ==
    /\ blocks \in Seq(Nat)
    /\ posted \in Seq(Seq(MessageType))
    /\ \A a \in 1..Len(posted) : Follow(posted[a], 1)
    /\ result = "posting" =>
          /\ posted # <<>> /\ messages # <<>>
          /\ Follow(messages, End(posted[Len(posted)]) + 1)
          /\ End(messages) = Len(blocks)
    /\ result = "posted" =>
          /\ posted # <<>> /\ posted[Len(posted)] # <<>>
          /\ End(posted[Len(posted)]) = Len(blocks)

\* Whether messages follow one another depends on the text, which does not change.
LEMMA PostedFollow ==
    ASSUME blocks' = blocks, NEW a, Follow(posted'[a], 1)
    PROVE  Follow(posted[a], 1)'
BY DEF Follow, MessageOK, Length, Start

LEMMA MessagesFollow ==
    ASSUME blocks' = blocks, Follow(messages', End(posted'[Len(posted')]) + 1)
    PROVE  Follow(messages, End(posted[Len(posted)]) + 1)'
BY DEF Follow, MessageOK, Length, Start, End

LEMMA AlertInvSafe == AlertInv => AlertIsWhole
<1>. SUFFICES ASSUME AlertInv PROVE AlertIsWhole
    OBVIOUS
<1>. USE DEF AlertInv
<1>1. ASSUME NEW a \in DOMAIN posted, NEW k \in DOMAIN posted[a]
      PROVE  /\ posted[a][k].first = IF k = 1 THEN 1 ELSE posted[a][k-1].last + 1
             /\ Length(posted[a][k].first, posted[a][k].last) > MaxChars
                   => posted[a][k].first = posted[a][k].last
    <2>. DEFINE ms == posted[a]
    <2>1. a \in 1..Len(posted) /\ posted \in Seq(Seq(MessageType))
        OBVIOUS
    <2>2. Follow(ms, 1)
        BY <2>1
    <2>. HIDE DEF ms
    <2>3. k \in 1..Len(ms)
        <3>1. ms \in Seq(MessageType) /\ k \in DOMAIN ms
            BY <2>2 DEF Follow, ms
        <3>. QED  BY <3>1, LenProperties
    <2>4. MessageOK(ms[k]) /\ ms[k].first = IF k = 1 THEN 1 ELSE ms[k-1].last + 1
        BY <2>2, <2>3 DEF Follow
    <2>. QED  BY <2>4 DEF MessageOK, ms
<1>2. result = "posted" => Last(Last(posted)).last = Len(blocks)
    BY DEF Last, End
<1>. QED  BY <1>1, <1>2 DEF AlertIsWhole

LEMMA AlertSame == AlertInv /\ UNCHANGED alertVars => AlertInv'
    BY DEF AlertInv, alertVars, Follow, MessageOK, Length, Start, End

LEMMA PublishKeeps ==
    ASSUME AlertInv, Publish
    PROVE  AlertInv'
<1>. DEFINE n == Len(posted)
<1>1. /\ blocks' = blocks /\ blocks # <<>> /\ blocks \in Seq(Nat)
      /\ posted' = Append(posted, <<>>) /\ posted \in Seq(Seq(MessageType))
      /\ \/ messages' = Chunked /\ result' = "posting"
         \/ result' = "not sent"
    BY DEF AlertInv, Publish
<1>2. /\ posted' \in Seq(Seq(MessageType)) /\ n \in Nat /\ Len(posted') = n + 1
      /\ posted'[n + 1] = <<>> /\ \A a \in 1..n : posted'[a] = posted[a]
      /\ posted' # <<>>
    <2>1. <<>> \in Seq(MessageType)
        OBVIOUS
    <2>. DEFINE S == Seq(MessageType)
    <2>2. posted \in Seq(S) /\ <<>> \in S
        BY <1>1, <2>1
    <2>. HIDE DEF S
    <2>3. /\ Append(posted, <<>>) \in Seq(S) /\ n \in Nat
          /\ Len(Append(posted, <<>>)) = n + 1
          /\ Append(posted, <<>>)[n + 1] = <<>>
          /\ \A a \in 1..n : Append(posted, <<>>)[a] = posted[a]
        BY <2>2
    <2>4. Append(posted, <<>>) # <<>>
        BY <2>3
    <2>. QED  BY <1>1, <2>3, <2>4 DEF S
<1>4. \A a \in 1..Len(posted') : Follow(posted[a], 1)'
    <2>1. Follow(<<>>, 1)
        BY DEF Follow
    <2>2. ASSUME NEW a \in 1..Len(posted') PROVE Follow(posted'[a], 1)
        <3>1. a = n + 1 \/ a \in 1..n
            BY <1>2
        <3>. QED  BY <1>2, <2>1, <3>1 DEF AlertInv
    <2>. QED  BY <1>1, <2>2, PostedFollow
<1>5. result' = "posting" =>
         /\ messages' # <<>>
         /\ Follow(messages, End(posted[Len(posted)]) + 1)'
         /\ End(messages') = Len(blocks')
    <2>. SUFFICES ASSUME result' = "posting"
                  PROVE  /\ messages' # <<>>
                         /\ Follow(messages, End(posted[Len(posted)]) + 1)'
                         /\ End(messages') = Len(blocks')
        OBVIOUS
    <2>1. messages' = Chunked
        BY <1>1
    <2>2. Follow(messages', 1) /\ messages' # <<>> /\ End(messages') = Len(blocks)
        BY <1>1, <2>1, ChunkedOK
    <2>3. End(posted'[Len(posted')]) + 1 = 1
        BY <1>2 DEF End
    <2>4. Follow(messages, End(posted[Len(posted)]) + 1)'
        <3>1. Follow(messages', End(posted'[Len(posted')]) + 1)
            BY <2>2, <2>3
        <3>. QED  BY <1>1, <3>1, MessagesFollow
    <2>. QED  BY <1>1, <2>2, <2>4
<1>6. result' # "posted"
    BY <1>1
<1>. QED  BY <1>1, <1>2, <1>4, <1>5, <1>6 DEF AlertInv

LEMMA PostKeeps ==
    ASSUME AlertInv, Post
    PROVE  AlertInv'
<1>. DEFINE n == Len(posted)
            sent == posted[n]
            m == Head(messages)
<1>1. /\ blocks' = blocks /\ blocks \in Seq(Nat) /\ posted \in Seq(Seq(MessageType))
      /\ posted # <<>> /\ messages # <<>> /\ End(messages) = Len(blocks)
      /\ Follow(messages, End(sent) + 1)
    BY DEF AlertInv, Post
<1>2. n \in 1..n /\ n \in Nat /\ sent \in Seq(MessageType) /\ Follow(sent, 1)
      /\ \A a \in 1..n : Follow(posted[a], 1)
    BY <1>1 DEF AlertInv
<1>3. CASE posted' = posted /\ result' = "failed"
    <2>1. \A a \in 1..Len(posted') : Follow(posted[a], 1)'
        <3>1. ASSUME NEW a \in 1..Len(posted') PROVE Follow(posted'[a], 1)
            BY <1>2, <1>3
        <3>. QED  BY <1>1, <3>1, PostedFollow
    <2>. QED  BY <1>1, <1>3, <2>1 DEF AlertInv
<1>4. CASE /\ posted' = [posted EXCEPT ![n] = Append(@, m)]
           /\ messages' = Tail(messages)
           /\ result' = IF messages' = <<>> THEN "posted" ELSE "posting"
    <2>. DEFINE more == Append(sent, m)
    <2>1. End(sent) + 1 \in Nat
        <3>. HIDE DEF sent
        <3>1. sent # <<>> => sent[Len(sent)] \in MessageType
            BY <1>2
        <3>2. \A x \in MessageType : x.last \in Nat
            BY DEF MessageType
        <3>. QED  BY <3>1, <3>2 DEF End
    <2>2. /\ m \in MessageType /\ MessageOK(m) /\ m.first = End(sent) + 1
          /\ Follow(messages', m.last + 1)
          /\ Len(blocks) = IF messages' = <<>> THEN m.last ELSE End(messages')
        BY <1>1, <1>4, <2>1, FollowTail
    <2>3. Follow(more, 1) /\ End(more) = m.last /\ more # <<>>
        <3>1. m.first = IF sent = <<>> THEN 1 ELSE End(sent) + 1
            BY <2>2 DEF End
        <3>. HIDE DEF m, sent
        <3>. QED  BY <1>2, <2>2, <3>1, FollowAppend
    <2>4. more \in Seq(MessageType)
        BY <2>3 DEF Follow
    <2>5. posted' = [posted EXCEPT ![n] = more]
        BY <1>4
    <2>. HIDE DEF more, m, sent
    <2>6. /\ posted' \in Seq(Seq(MessageType)) /\ Len(posted') = n /\ posted'[n] = more
          /\ \A a \in 1..n : a # n => posted'[a] = posted[a]
          /\ posted' # <<>>
        BY <1>1, <1>2, <2>4, <2>5
    <2>7. ASSUME NEW a \in 1..Len(posted') PROVE Follow(posted'[a], 1)
        BY <1>2, <2>3, <2>6
    <2>8. \A a \in 1..Len(posted') : Follow(posted[a], 1)'
        BY <1>1, <2>7, PostedFollow
    <2>9. Follow(messages, End(posted[Len(posted)]) + 1)'
        <3>1. Follow(messages', End(posted'[Len(posted')]) + 1)
            BY <2>2, <2>3, <2>6
        <3>. QED  BY <1>1, <3>1, MessagesFollow
    <2>10. result' = "posting" => messages' # <<>> /\ End(messages') = Len(blocks')
        BY <1>1, <1>4, <2>2
    <2>11. result' = "posted" =>
              /\ posted'[Len(posted')] # <<>> /\ End(posted'[Len(posted')]) = Len(blocks')
        BY <1>1, <1>4, <2>2, <2>3, <2>6
    <2>. QED  BY <1>1, <2>6, <2>8, <2>9, <2>10, <2>11 DEF AlertInv
<1>. QED  BY <1>3, <1>4 DEF Post

-----------------------------------------------------------------------------
(* The portfolio workflow                                                  *)

\* What the drafts promise as long as the catalogue has not changed again.
DraftsOK ==
    /\ \A i \in DOMAIN impact : \A f \in impact[i] : Suits(i, f)
    /\ "filter" \notin edits =>
          /\ DOMAIN impact = Exposed(affected, Universe)
          /\ \A i \in DOMAIN impact :
                /\ impact[i] \subseteq Universe
                /\ impact[i] = {} => \A f \in Universe : ~Suits(i, f)

RecoInv ==
    /\ AlertInv
    /\ stage \in {"signal", "impact", "filter", "write", "publish"}
    /\ stage # "publish" => posted = <<>> /\ result = "none"
    /\ catalogue \in Seq(DOMAIN Fund)
    /\ stage = "filter" => DraftsOK
    /\ ValidatedIsSafe

LEMMA InitRecoInv == RecoInit => RecoInv
<1>. SUFFICES ASSUME RecoInit PROVE RecoInv
    OBVIOUS
<1>1. AlertInv /\ posted = <<>> /\ result = "none"
    BY DEF RecoInit, AlertInit, AlertInv
<1>2. catalogue \in Seq(DOMAIN Fund)
    BY CataloguesAssumption DEF RecoInit
<1>. QED  BY <1>1, <1>2 DEF RecoInit, RecoInv, ValidatedIsSafe

\* An investor for whom the catalogue has a suitable fund is drafted one.
LEMMA DraftsSuit ==
    ASSUME catalogue \in Seq(DOMAIN Fund), NEW i
    PROVE  /\ \A f \in Drafts(i) : f \in Universe /\ Suits(i, f)
           /\ Drafts(i) = {} => \A f \in Universe : ~Suits(i, f)
<1>. DEFINE n == Len(catalogue)
            Before(k) == {j \in 1..k-1 : Suits(i, catalogue[j])}
            First == {k \in DOMAIN catalogue : /\ Suits(i, catalogue[k])
                                               /\ Cardinality(Before(k)) < TopN}
<1>1. Drafts(i) = {catalogue[k] : k \in First}
    BY DEF Drafts
<1>2. \A f \in Drafts(i) : f \in Universe /\ Suits(i, f)
    BY <1>1 DEF Universe, Range
<1>3. ASSUME NEW f \in Universe, Suits(i, f) PROVE Drafts(i) # {}
    <2>. DEFINE Fitting == {k \in 1..n : Suits(i, catalogue[k])}
    <2>1. DOMAIN catalogue = 1..n /\ n \in Nat
        OBVIOUS
    <2>2. PICK k \in 1..n : f = catalogue[k]
        BY <2>1 DEF Universe, Range
    <2>3. Fitting # {} /\ Fitting \in SUBSET Nat
        BY <1>3, <2>2
    <2>4. PICK x \in Fitting : \A y \in Fitting : x <= y
        <3>. HIDE DEF Fitting
        <3>. QED  BY <2>3, LeastNat
    <2>5. ASSUME NEW j \in Before(x) PROVE FALSE
        <3>1. j \in Fitting /\ j < x
            BY <2>1, <2>4
        <3>. QED  BY <2>1, <2>4, <3>1
    <2>6. Before(x) = {}
        BY <2>5
    <2>7. Cardinality(Before(x)) = 0
        BY <2>6, FS_EmptySet
    <2>8. x \in First
        <3>1. x \in DOMAIN catalogue /\ Suits(i, catalogue[x])
            BY <2>1, <2>4
        <3>2. Cardinality(Before(x)) < TopN
            BY <2>7, TopNAssumption
        <3>. HIDE DEF Before
        <3>. QED  BY <3>1, <3>2
    <2>9. catalogue[x] \in Drafts(i)
        <3>. HIDE DEF First
        <3>. QED  BY <1>1, <2>8
    <2>. QED  BY <2>9
<1>. QED  BY <1>2, <1>3

LEMMA AnalyzeKeeps ==
    ASSUME RecoInv, Analyze
    PROVE  RecoInv'
<1>1. /\ stage = "impact" /\ stage' = "filter" /\ catalogue \in Seq(DOMAIN Fund)
      /\ affected' = affected /\ sentiment' = sentiment /\ catalogue' = catalogue
      /\ edits' = edits /\ UNCHANGED alertVars
      /\ impact' = [i \in Exposed(affected, Universe) |-> Drafts(i)]
    BY DEF Analyze, RecoInv
<1>2. Universe' = Universe /\ \A i, f : Suits(i, f)' <=> Suits(i, f)
    BY <1>1 DEF Universe, Suits
<1>3. DOMAIN impact' = Exposed(affected, Universe)
      /\ \A i \in DOMAIN impact' : impact'[i] = Drafts(i)
    BY <1>1
<1>4. \A i \in DOMAIN impact' :
         /\ \A f \in impact'[i] : f \in Universe /\ Suits(i, f)
         /\ impact'[i] = {} => \A f \in Universe : ~Suits(i, f)
    BY <1>1, <1>3, DraftsSuit
<1>5. DraftsOK'
    <2>1. \A i \in DOMAIN impact' : \A f \in impact'[i] : Suits(i, f)'
        BY <1>1, <1>4 DEF Suits
    <2>2. DOMAIN impact' = Exposed(affected', Universe')
        BY <1>1, <1>2, <1>3
    <2>3. \A i \in DOMAIN impact' :
             /\ impact'[i] \subseteq Universe'
             /\ impact'[i] = {} => \A f \in Universe' : ~Suits(i, f)'
        BY <1>1, <1>2, <1>4 DEF Suits
    <2>. QED  BY <2>1, <2>2, <2>3 DEF DraftsOK
<1>. QED  BY <1>1, <1>5, AlertSame DEF RecoInv, ValidatedIsSafe, alertVars

LEMMA SignalKeeps ==
    ASSUME RecoInv, Signal
    PROVE  RecoInv'
    BY AlertSame DEF RecoInv, Signal, ValidatedIsSafe, alertVars

LEMMA FilterKeeps ==
    ASSUME RecoInv, Filter
    PROVE  RecoInv'
<1>1. /\ stage' = "write" /\ catalogue \in Seq(DOMAIN Fund) /\ DraftsOK
      /\ affected' = affected /\ sentiment' = sentiment /\ catalogue' = catalogue
      /\ edits' = edits /\ UNCHANGED alertVars
      /\ validated' = [i \in DOMAIN impact |-> impact[i] \cap Universe]
      /\ posted = <<>> /\ result = "none" /\ AlertInv
    BY DEF Filter, RecoInv
<1>2. Universe' = Universe
    BY <1>1 DEF Universe
<1>3. /\ DOMAIN validated' = DOMAIN impact
      /\ \A i \in DOMAIN impact : validated'[i] = impact[i] \cap Universe
    BY <1>1
<1>4. "filter" \notin edits' => DOMAIN validated' = Exposed(affected', Universe')
    BY <1>1, <1>2, <1>3 DEF DraftsOK
<1>5. ASSUME NEW i \in DOMAIN validated'
      PROVE  /\ \A f \in validated'[i] : f \in Universe' /\ Suits(i, f)'
             /\ validated'[i] = {} /\ (\E f \in Universe' : Suits(i, f)') => "filter" \in edits'
    <2>1. \A f \in validated'[i] : f \in impact[i] /\ f \in Universe'
        BY <1>2, <1>3
    <2>2. \A f : Suits(i, f)' <=> Suits(i, f)
        BY <1>1 DEF Suits
    <2>3. ASSUME "filter" \notin edits, validated'[i] = {} PROVE \A f \in Universe : ~Suits(i, f)
        BY <1>3, <1>1, <2>3 DEF DraftsOK
    <2>. QED  BY <1>1, <1>2, <1>3, <2>1, <2>2, <2>3 DEF DraftsOK
<1>6. ValidatedIsSafe'
    BY <1>4, <1>5 DEF ValidatedIsSafe
<1>7. AlertInv'
    BY <1>1, AlertSame
<1>. QED  BY <1>1, <1>6, <1>7 DEF RecoInv, alertVars

LEMMA WriteKeeps ==
    ASSUME RecoInv, Write
    PROVE  RecoInv'
<1>1. /\ stage = "write" /\ stage' = "publish" /\ posted = <<>> /\ result = "none"
      /\ UNCHANGED <<affected, sentiment, catalogue, impact, validated, edits,
                     messages, posted, result>>
      /\ blocks' \in Notes
    BY DEF Write, RecoInv
<1>2. AlertInv'
    BY <1>1, NotesAssumption DEF AlertInv
<1>3. ValidatedIsSafe'
    <2>1. Universe' = Universe /\ \A i, f : Suits(i, f)' <=> Suits(i, f)
        BY <1>1 DEF Universe, Suits
    <2>2. ValidatedIsSafe
        BY DEF RecoInv
    <2>. QED  BY <1>1, <2>1, <2>2 DEF ValidatedIsSafe, Universe, Suits
<1>4. catalogue' \in Seq(DOMAIN Fund)
    BY <1>1 DEF RecoInv
<1>. QED  BY <1>1, <1>2, <1>3, <1>4 DEF RecoInv

\* A catalogue that changes after the drafts releases them of what they promise of it.
LEMMA EditKeeps ==
    ASSUME RecoInv, EditCatalogue
    PROVE  RecoInv'
<1>1. /\ stage \in {"impact", "filter"} /\ edits' = edits \cup {stage}
      /\ UNCHANGED <<stage, affected, sentiment, impact, validated, alertVars>>
      /\ catalogue' \in Seq(DOMAIN Fund)
    BY CataloguesAssumption DEF EditCatalogue
<1>2. stage' = "filter" => DraftsOK'
    <2>1. \A i, f : Suits(i, f)' <=> Suits(i, f)
        BY <1>1 DEF Suits
    <2>2. stage = "filter" => \A i \in DOMAIN impact : \A f \in impact[i] : Suits(i, f)
        BY DEF RecoInv, DraftsOK
    <2>3. stage = "filter" => \A i \in DOMAIN impact' : \A f \in impact'[i] : Suits(i, f)'
        BY <1>1, <2>2 DEF Suits
    <2>. QED  BY <1>1, <2>3 DEF DraftsOK
<1>3. AlertInv'
    BY <1>1, AlertSame DEF RecoInv
<1>. QED  BY <1>1, <1>2, <1>3 DEF RecoInv, ValidatedIsSafe, alertVars

LEMMA PublishingKeeps ==
    ASSUME RecoInv, stage = "publish", AlertInv', UNCHANGED recoVars
    PROVE  RecoInv'
<1>1. UNCHANGED <<stage, affected, sentiment, catalogue, impact, validated, edits>>
    BY DEF recoVars
<1>2. ValidatedIsSafe /\ catalogue' \in Seq(DOMAIN Fund)
    BY <1>1 DEF RecoInv
<1>3. ValidatedIsSafe'
    BY <1>1, <1>2 DEF ValidatedIsSafe, Universe, Suits
<1>. QED  BY <1>1, <1>2, <1>3 DEF RecoInv

LEMMA RecoInvariance == RecoSpec => []RecoInv
<1>1. ASSUME RecoInv, RecoNext PROVE RecoInv'
    <2>1. CASE stage = "publish" /\ AlertNext /\ UNCHANGED recoVars
        <3>1. AlertInv'
            BY <1>1, <2>1, PublishKeeps, PostKeeps DEF RecoInv, AlertNext
        <3>. QED  BY <1>1, <2>1, <3>1, PublishingKeeps
    <2>. QED  BY <1>1, <2>1, SignalKeeps, AnalyzeKeeps, FilterKeeps, WriteKeeps, EditKeeps
              DEF RecoNext
<1>2. ASSUME RecoInv, UNCHANGED <<recoVars, alertVars>> PROVE RecoInv'
    <2>1. UNCHANGED <<stage, affected, sentiment, catalogue, impact, validated, edits>>
          /\ UNCHANGED <<posted, result>>
        BY <1>2 DEF recoVars, alertVars
    <2>2. AlertInv'
        BY <1>2, AlertSame DEF RecoInv
    <2>. QED  BY <1>2, <2>1, <2>2 DEF RecoInv, ValidatedIsSafe, DraftsOK, Universe, Suits
<1>. QED  BY InitRecoInv, <1>1, <1>2, PTL DEF RecoSpec

\* Whatever the notes, the limit and the attempts, in the portfolio workflow: each
\* attempt of publish_rm_alert posts the text in order, without a gap, and all of it
\* when the tool says so; a message exceeds the limit only if it is one paragraph.
THEOREM AlertsAreWhole == RecoSpec => []AlertIsWhole
<1>1. RecoInv => AlertIsWhole
    BY AlertInvSafe DEF RecoInv
<1>. QED  BY <1>1, RecoInvariance, PTL

\* Whatever the funds, the investors, their holdings and the catalogue: the report
\* of product_universe_filter names every exposed investor, only suitable funds, and
\* no fund for an investor only if there is none, or the catalogue changed after the
\* drafts.
THEOREM ReportsAreSafe == RecoSpec => []ValidatedIsSafe
<1>1. RecoInv => ValidatedIsSafe
    BY DEF RecoInv
<1>. QED  BY <1>1, RecoInvariance, PTL
=============================================================================
