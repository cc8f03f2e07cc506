---------------------------- MODULE AlertPublisher ----------------------------
(***************************************************************************)
(* rm_alert_publisher.py: the notes for the relationship managers are      *)
(* posted to Slack in messages of limited length.  An agent calls the      *)
(* tool, and may call it again if it is told that it failed.               *)
(***************************************************************************)
EXTENDS Integers, Sequences, SequencesExt

CONSTANTS
    MaxChars,     \* max_chars of _chunk_message
    MaxAttempts   \* bound: calls of the tool

ASSUME AlertAssumption == MaxChars \in Nat /\ MaxAttempts \in Nat

VARIABLES
    blocks,    \* the text: where each of its paragraphs ends
    messages,  \* the messages of the present attempt that are not posted yet
    posted,    \* history: the messages posted by each attempt
    result     \* what the tool returned last

alertVars == <<blocks, messages, posted, result>>

AlertInit ==
    /\ blocks = <<>> /\ messages = <<>> /\ posted = <<>>
    /\ result = "none"

\* Paragraphs first..last are joined by two newlines.
Message(first, last) == [first |-> first, last |-> last]
Start(k) == IF k = 1 THEN 0 ELSE blocks[k-1] + 2
Length(first, last) == blocks[last] - Start(first)

-----------------------------------------------------------------------------
(* Plausible mistakes, each a wrong version of the definition it is named  *)
(* after.                                                                  *)

\* Only the paragraph is measured, not the message it joins.
JoinsAny(message, k) == Length(k, k) + 2 <= MaxChars

-----------------------------------------------------------------------------

\* A message is full when its paragraphs, each counted with two newlines, would
\* exceed the limit.
Joins(message, k) == Length(message.first, k) + 2 <= MaxChars

\* _chunk_message: each paragraph joins the last message or begins another.
Chunked ==
    LET chunks[k \in 1..Len(blocks)] ==
            IF k = 1 THEN <<Message(1, 1)>>
            ELSE IF Joins(Last(chunks[k-1]), k)
                 THEN Append(Front(chunks[k-1]), Message(Last(chunks[k-1]).first, k))
                 ELSE Append(chunks[k-1], Message(k, k))
    IN  IF Length(1, Len(blocks)) <= MaxChars THEN <<Message(1, Len(blocks))>>
        ELSE chunks[Len(blocks)]

\* The tool is called, with the notes or once more; it needs a token and a channel.
Publish ==
    /\ blocks # <<>>
    /\ posted = <<>> \/ result = "failed"
    /\ Len(posted) < MaxAttempts /\ posted' = Append(posted, <<>>)
    /\ \/ messages' = Chunked /\ result' = "posting"
       \/ result' = "not sent" /\ UNCHANGED messages
    /\ UNCHANGED blocks

\* The next message, headed, is posted; after the last one the tool returns.  If
\* Slack raises, the messages before are there.
Post ==
    /\ result = "posting"
    /\ \/ /\ posted' = [posted EXCEPT ![Len(posted)] = Append(@, Head(messages))]
          /\ messages' = Tail(messages)
          /\ result' = IF messages' = <<>> THEN "posted" ELSE "posting"
       \/ /\ result' = "failed" /\ messages' = <<>>
          /\ UNCHANGED posted
    /\ UNCHANGED blocks

AlertNext == Publish \/ Post

-----------------------------------------------------------------------------
(* Properties                                                              *)

\* The messages of an attempt are the text in order, up to a failure: all of it
\* when the tool says that the alert is posted.  A message exceeds the limit only
\* if it is one paragraph.  Paragraphs are posted twice only by two attempts.
AlertIsWhole ==
    /\ \A a \in DOMAIN posted : \A k \in DOMAIN posted[a] :
          LET m == posted[a][k]
          IN  /\ m.first = IF k = 1 THEN 1 ELSE posted[a][k-1].last + 1
              /\ Length(m.first, m.last) > MaxChars => m.first = m.last
    /\ result = "posted" => Last(Last(posted)).last = Len(blocks)
=============================================================================
