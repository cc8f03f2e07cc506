--------------------------- MODULE AgentNodesProofs ---------------------------
(***************************************************************************)
(* RateLimiter is correct for any agents, limits and span, and for any     *)
(* number of calls.  The argument, for each agent: the deque w is the part *)
(* of the history acc of accepted calls that the last pruning left, and    *)
(* the history is in the order of time (AgentOK).                          *)
(*                                                                         *)
(* The nodes use the limiter as it specifies, for any plans, agents and    *)
(* settings; the guards of the agents precede their calls of the model,    *)
(* the usage adds up, and a session is its run's transcript (NodesInv).    *)
(***************************************************************************)
EXTENDS AgentNodes, FiniteSetTheorems, SequenceTheorems, WellFoundedInduction, TLAPS

-----------------------------------------------------------------------------
(* The limiter: its inductive invariant                                    *)

CallRecord == [at : Nat, limit : Limits]

\* The last Len(w) calls of acc are in w, those before them have expired.
IsRest(t, w, acc) ==
    /\ Len(w) <= Len(acc)
    /\ \A i \in 1..Len(w) : w[i] = acc[Len(acc) - Len(w) + i].at
    /\ \A i \in 1..(Len(acc) - Len(w)) : t - acc[i].at > Span

InOrder(t, acc) ==
    \A i, j \in 1..Len(acc) :
        acc[i].at <= t /\ (i <= j => acc[i].at <= acc[j].at)

FewEnough(acc) ==
    \A i, j \in 1..Len(acc) :
        j >= i + acc[j].limit => acc[j].at - acc[i].at > Span

HasCause(acc, r) ==
    /\ r.before <= Len(acc)
    /\ r.limit > 0 =>
         /\ r.before >= r.limit
         /\ r.at - acc[r.before - r.limit + 1].at <= Span

AgentOK(t, w, acc, r) ==
    IsRest(t, w, acc) /\ InOrder(t, acc) /\ FewEnough(acc) /\ HasCause(acc, r)

IInv ==
    /\ TypeOK
    /\ \A a \in Agents :
          /\ AgentOK(now, window[a], accepted[a], refused[a])
          /\ refused[a] # NotRefused => refused[a].limit > 0

-----------------------------------------------------------------------------
(* Eviction                                                                *)

\* A nonempty set of natural numbers has a least element.
LEMMA LeastNat ==
  ASSUME NEW T \in SUBSET Nat, T # {}
  PROVE  \E x \in T : \A y \in T : x <= y
<1> DEFINE R == OpToRel(<, Nat)
<1>1. \E x \in T : \A y \in T : ~ (<<y, x>> \in R)
  <2>1. IsWellFoundedOn(R, Nat) BY NatLessThanWellFounded
  <2> HIDE DEF R
  <2> QED BY <2>1, WFMin
<1>2. \A x, y \in T : y < x => <<y, x>> \in R
  BY DEF OpToRel
<1> HIDE DEF R
<1>3. PICK x \in T : \A y \in T : ~ (<<y, x>> \in R)
  BY <1>1
<1>4. \A y \in T : ~(y < x)
  BY <1>2, <1>3
<1> QED BY <1>4

\* The while loop removes a prefix: what it removes has expired, and what it
\* leaves begins with a call that has not.
LEMMA EvictedIsRest ==
  ASSUME NEW w \in Seq(Nat), NEW t \in Nat
  PROVE  \E k \in 0..Len(w) :
            /\ \A i \in 1..k : Expired(t, w[i])
            /\ k < Len(w) => ~Expired(t, w[k + 1])
            /\ Evicted(t, w) = SubSeq(w, k + 1, Len(w))
<1> DEFINE IsGone(k) == /\ \A i \in 1..k : Expired(t, w[i])
                        /\ k < Len(w) => ~Expired(t, w[k + 1])
           Kept == {i \in 1..Len(w) : ~Expired(t, w[i])}
<1>1. \E k \in 0..Len(w) : IsGone(k)
  <2>1. CASE Kept = {}
    <3>1. IsGone(Len(w)) BY <2>1
    <3> QED BY <3>1
  <2>2. CASE Kept # {}
    <3>1. \E x \in Kept : \A y \in Kept : x <= y
      <4>1. Kept \in SUBSET Nat OBVIOUS
      <4> HIDE DEF Kept
      <4> QED BY <4>1, <2>2, LeastNat
    <3>2. PICK x \in Kept : \A y \in Kept : x <= y
      BY <3>1
    <3>3. x - 1 \in 0..Len(w) /\ x \in 1..Len(w) /\ ~Expired(t, w[x])
      OBVIOUS
    <3>4. \A i \in 1..(x - 1) : Expired(t, w[i])
      BY <3>2, <3>3
    <3>5. IsGone(x - 1)
      BY <3>3, <3>4
    <3> QED BY <3>3, <3>5
  <2> QED BY <2>1, <2>2
<1>2. PICK k \in 0..Len(w) : k = CHOOSE j \in 0..Len(w) : IsGone(j)
  BY <1>1
<1>3. IsGone(k) BY <1>1, <1>2
<1>4. Evicted(t, w) = SubSeq(w, k + 1, Len(w)) BY <1>2 DEF Evicted
<1> QED BY <1>3, <1>4

\* What the types say of a history.
LEMMA HistoryIsTyped ==
  ASSUME NEW acc \in Seq(CallRecord)
  PROVE  /\ Len(acc) \in Nat /\ DOMAIN acc = 1..Len(acc)
         /\ \A i \in 1..Len(acc) :
               acc[i].at \in Nat /\ acc[i].limit \in Nat /\ acc[i].limit > 0
<1>1. ASSUME NEW c \in CallRecord PROVE c.at \in Nat /\ c.limit \in Limits
  BY DEF CallRecord
<1>2. ASSUME NEW l \in Limits PROVE l \in Nat /\ l > 0
  BY LimitsAssumption
<1>3. \A i \in 1..Len(acc) : acc[i] \in CallRecord
  BY ElementOfSeq
<1> QED BY <1>1, <1>2, <1>3, LenProperties

\* The elements of the deque after the eviction.
LEMMA SuffixElements ==
  ASSUME NEW w \in Seq(Nat), NEW k \in 0..Len(w), NEW v,
         v = SubSeq(w, k + 1, Len(w))
  PROVE  /\ v \in Seq(Nat) /\ Len(v) = Len(w) - k
         /\ \A i \in 1..(Len(w) - k) : v[i] = w[k + i]
<1>1. Len(w) \in Nat BY LenProperties
<1>2. \A i \in (k + 1)..Len(w) : w[i] \in Nat
  <2> TAKE i \in (k + 1)..Len(w)
  <2>1. i \in 1..Len(w) BY <1>1
  <2> QED BY <2>1, ElementOfSeq
<1>3. /\ v \in Seq(Nat)
      /\ Len(v) = IF k + 1 <= Len(w) THEN Len(w) - (k + 1) + 1 ELSE 0
      /\ \A i \in 1..(Len(w) - (k + 1) + 1) : v[i] = w[k + 1 + i - 1]
  BY <1>1, <1>2, SubSeqProperties
<1>4. Len(v) = Len(w) - k BY <1>1, <1>3
<1>5. ASSUME NEW i \in 1..(Len(w) - k) PROVE v[i] = w[k + i]
  <2>1. i \in 1..(Len(w) - (k + 1) + 1) /\ k + 1 + i - 1 = k + i
    BY <1>1
  <2> QED BY <2>1, <1>3
<1> QED BY <1>3, <1>4, <1>5

LEMMA LaterIsNewer ==
  ASSUME NEW t \in Nat, NEW x \in Nat, NEW y \in Nat, x <= y, ~(t - x > Span)
  PROVE  t - y <= Span
BY SpanAssumption

\* The eviction keeps AgentOK, and leaves no call that has expired.
LEMMA EvictedOK ==
  ASSUME NEW t \in Nat, NEW w \in Seq(Nat), NEW acc \in Seq(CallRecord), NEW r,
         AgentOK(t, w, acc, r), NEW v, v = Evicted(t, w)
  PROVE  /\ v \in Seq(Nat) /\ AgentOK(t, v, acc, r)
         /\ \A i \in 1..Len(v) : t - v[i] <= Span
<1>1. PICK k \in 0..Len(w) :
         /\ \A i \in 1..k : Expired(t, w[i])
         /\ k < Len(w) => ~Expired(t, w[k + 1])
         /\ v = SubSeq(w, k + 1, Len(w))
  BY EvictedIsRest
<1>2. /\ v \in Seq(Nat) /\ Len(v) = Len(w) - k
      /\ \A i \in 1..(Len(w) - k) : v[i] = w[k + i]
  BY <1>1, SuffixElements, SMTT(30)
<1>3. PICK m \in Nat, n \in Nat, g \in Nat :
         m = Len(w) /\ n = Len(acc) /\ g = n - m
  <2>1. Len(w) \in Nat /\ Len(acc) \in Nat BY LenProperties
  <2>2. Len(w) <= Len(acc) BY DEF AgentOK, IsRest
  <2> QED BY <2>1, <2>2
<1>4. /\ k \in 0..m /\ Len(v) = m - k /\ n - Len(v) = g + k /\ Len(v) <= n
      /\ n = g + m
  <2>1. Len(v) = m - k BY <1>2, <1>3
  <2>2. k \in 0..m BY <1>1, <1>3
  <2>3. n = g + m BY <1>3
  <2> QED BY <2>1, <2>2, <2>3, <1>3
<1>5. /\ \A i \in 1..m : w[i] = acc[g + i].at
      /\ \A i \in 1..g : t - acc[i].at > Span
  BY <1>3 DEF AgentOK, IsRest
<1>6. ASSUME NEW i \in 1..(m - k) PROVE v[i] = acc[g + k + i].at
  <2>1. k + i \in 1..m /\ g + (k + i) = g + k + i BY <1>4
  <2>2. v[i] = w[k + i] BY <1>2, <1>3
  <2> QED BY <2>1, <2>2, <1>5
<1>7. ASSUME NEW i \in 1..(g + k) PROVE t - acc[i].at > Span
  <2>1. CASE i <= g BY <2>1, <1>5
  <2>2. CASE i > g
    <3>1. i - g \in 1..k /\ i - g \in 1..m /\ g + (i - g) = i
      BY <2>2, <1>4
    <3>2. w[i - g] = acc[i].at BY <3>1, <1>5
    <3>3. t - w[i - g] > Span BY <3>1, <1>1 DEF Expired
    <3> QED BY <3>2, <3>3
  <2> QED BY <2>1, <2>2
<1>8. ASSUME NEW i \in 1..(m - k) PROVE t - v[i] <= Span
  <2>1. 1 \in 1..(m - k) /\ k < m BY <1>4
  <2>2. ~(t - w[k + 1] > Span) BY <2>1, <1>1, <1>3 DEF Expired
  <2>3. v[1] = w[k + 1] BY <2>1, <1>2, <1>3
  <2>4. v[1] = acc[g + k + 1].at /\ v[i] = acc[g + k + i].at
    BY <2>1, <1>6
  <2>5. g + k + 1 \in 1..n /\ g + k + i \in 1..n /\ g + k + 1 <= g + k + i
    BY <1>4, <2>1
  <2>6. acc[g + k + 1].at <= acc[g + k + i].at
    BY <2>5, <1>3 DEF AgentOK, InOrder
  <2>7. acc[g + k + 1].at \in Nat /\ acc[g + k + i].at \in Nat
    BY <2>5, <1>3, HistoryIsTyped
  <2>8. ~(t - acc[g + k + 1].at > Span) BY <2>2, <2>3, <2>4
  <2> QED BY <2>4, <2>6, <2>7, <2>8, LaterIsNewer
<1>9. IsRest(t, v, acc)
  <2>1. PICK m2, g2 : m2 = m - k /\ g2 = g + k
    OBVIOUS
  <2>2. Len(v) = m2 /\ Len(acc) = n /\ n - m2 = g2 /\ m2 <= n
    BY <2>1, <1>1, <1>3, <1>4
  <2>3. \A i \in 1..m2 : v[i] = acc[g2 + i].at BY <2>1, <1>6
  <2>4. \A i \in 1..g2 : t - acc[i].at > Span BY <2>1, <1>7
  <2> QED BY <2>2, <2>3, <2>4, Zenon DEF IsRest
<1> QED BY <1>2, <1>4, <1>8, <1>9 DEF AgentOK

-----------------------------------------------------------------------------
(* One call, and the clock                                                 *)

\* Appending to a history.
LEMMA AppendElements ==
  ASSUME NEW S, NEW s \in Seq(S), NEW x \in S, NEW n \in Nat, n = Len(s)
  PROVE  /\ Append(s, x) \in Seq(S) /\ Len(Append(s, x)) = n + 1
         /\ \A i \in 1..n : Append(s, x)[i] = s[i]
         /\ Append(s, x)[n + 1] = x
BY AppendProperties

LEMMA AcceptOK ==
  ASSUME NEW t \in Nat, NEW w \in Seq(Nat), NEW acc \in Seq(CallRecord),
         NEW r \in [at : Nat, limit : Nat, before : Nat],
         NEW limit \in Limits, Len(w) < limit, AgentOK(t, w, acc, r),
         NEW acc2, acc2 = Append(acc, [at |-> t, limit |-> limit]),
         NEW w2, w2 = Append(w, t)
  PROVE  acc2 \in Seq(CallRecord) /\ w2 \in Seq(Nat) /\ AgentOK(t, w2, acc2, r)
<1> DEFINE call == [at |-> t, limit |-> limit]
<1>1. call \in CallRecord /\ call.at = t /\ call.limit = limit BY DEF CallRecord
<1>2. PICK m \in Nat, n \in Nat : m = Len(w) /\ n = Len(acc)
  BY LenProperties
<1>3. /\ w2 \in Seq(Nat) /\ Len(w2) = m + 1
      /\ \A i \in 1..m : w2[i] = w[i]
      /\ w2[m + 1] = t
  BY <1>2, AppendElements
<1>4. /\ acc2 \in Seq(CallRecord) /\ Len(acc2) = n + 1
      /\ \A i \in 1..n : acc2[i] = acc[i]
      /\ acc2[n + 1].at = t /\ acc2[n + 1].limit = limit
  <2> HIDE DEF call
  <2>1. acc2 = Append(acc, call) BY DEF call
  <2> QED BY <1>1, <1>2, <2>1, AppendElements
<1> HIDE DEF call
<1>5. PICK g \in Nat :
         /\ n = g + m
         /\ \A i \in 1..m : w[i] = acc[g + i].at
         /\ \A i \in 1..g : t - acc[i].at > Span
  <2>1. /\ m <= n
        /\ \A i \in 1..m : w[i] = acc[n - m + i].at
        /\ \A i \in 1..(n - m) : t - acc[i].at > Span
    BY <1>2 DEF AgentOK, IsRest
  <2>2. n - m \in Nat /\ n = (n - m) + m BY <1>2, <2>1
  <2> QED BY <2>1, <2>2
<1>6. \A i \in 1..n : acc[i].at \in Nat /\ acc[i].limit \in Nat /\ acc[i].limit > 0
  BY <1>2, HistoryIsTyped
<1>7. IsRest(t, w2, acc2)
  <2>1. ASSUME NEW i \in 1..(m + 1) PROVE w2[i] = acc2[g + i].at
    <3>1. CASE i = m + 1
      <4>1. g + i = n + 1
        <5>1. n = g + m BY <1>5
        <5> QED BY <3>1, <5>1, <1>2
      <4> QED BY <3>1, <4>1, <1>3, <1>4
    <3>2. CASE i # m + 1
      <4>1. i \in 1..m BY <3>2
      <4>2. g + i \in 1..n
        <5>1. n = g + m BY <1>5
        <5> QED BY <4>1, <5>1
      <4> QED BY <4>1, <4>2, <1>3, <1>4, <1>5
    <3> QED BY <3>1, <3>2
  <2>2. ASSUME NEW i \in 1..g PROVE t - acc2[i].at > Span
    <3>1. i \in 1..n BY <1>2, <1>5
    <3> QED BY <3>1, <1>4, <1>5
  <2>3. PICK m2, n2 : m2 = m + 1 /\ n2 = n + 1
    OBVIOUS
  <2>4. Len(w2) = m2 /\ Len(acc2) = n2 /\ n2 - m2 = g /\ m2 <= n2
    BY <2>3, <1>2, <1>3, <1>4, <1>5, SMTT(30)
  <2>5. \A i \in 1..m2 : w2[i] = acc2[g + i].at BY <2>1, <2>3
  <2>6. \A i \in 1..g : t - acc2[i].at > Span BY <2>2
  <2> QED BY <2>4, <2>5, <2>6, Zenon DEF IsRest
<1>8. InOrder(t, acc2)
  <2> SUFFICES ASSUME NEW i \in 1..(n + 1), NEW j \in 1..(n + 1)
               PROVE  acc2[i].at <= t /\ (i <= j => acc2[i].at <= acc2[j].at)
    BY <1>4 DEF InOrder
  <2>1. \A k \in 1..n : acc2[k].at <= t
    BY <1>2, <1>4 DEF AgentOK, InOrder
  <2>2. CASE j \in 1..n /\ i \in 1..n
    BY <2>1, <2>2, <1>2, <1>4 DEF AgentOK, InOrder
  <2>3. CASE j = n + 1 BY <2>1, <2>3, <1>4
  <2>4. CASE i = n + 1 /\ j \in 1..n BY <2>4, <1>4
  <2>5. \/ j \in 1..n /\ i \in 1..n
        \/ j = n + 1
        \/ i = n + 1 /\ j \in 1..n
    BY <1>2
  <2> QED BY <2>2, <2>3, <2>4, <2>5
<1>9. FewEnough(acc2)
  <2> SUFFICES ASSUME NEW i \in 1..(n + 1), NEW j \in 1..(n + 1),
                      j >= i + acc2[j].limit
               PROVE  acc2[j].at - acc2[i].at > Span
    BY <1>4 DEF FewEnough
  <2>1. CASE j \in 1..n
    <3>1. acc2[j] = acc[j] /\ acc[j].limit \in Nat /\ j >= i + acc[j].limit
      BY <2>1, <1>4, <1>6
    <3>2. i \in 1..n BY <2>1, <3>1
    <3>3. acc2[i] = acc[i] BY <3>2, <1>4
    <3> QED BY <2>1, <3>1, <3>2, <3>3, <1>2 DEF AgentOK, FewEnough
  <2>2. CASE j = n + 1
    <3>1. limit \in Nat /\ n + 1 >= i + limit /\ m < limit
      BY <2>2, <1>2, <1>4, LimitsAssumption
    <3>2. i \in 1..g /\ i \in 1..n BY <3>1, <1>2, <1>5
    <3>3. acc2[i] = acc[i] BY <3>2, <1>4
    <3> QED BY <2>2, <3>2, <3>3, <1>4, <1>5
  <2>3. j \in 1..n \/ j = n + 1 BY <1>2
  <2> QED BY <2>1, <2>2, <2>3
<1>10. HasCause(acc2, r)
  <2>1. r.before \in Nat /\ r.limit \in Nat OBVIOUS
  <2>2. r.before <= n BY <1>2 DEF AgentOK, HasCause
  <2>3. ASSUME r.limit > 0
        PROVE  /\ r.before >= r.limit
               /\ r.at - acc2[r.before - r.limit + 1].at <= Span
    <3>1. /\ r.before >= r.limit
          /\ r.at - acc[r.before - r.limit + 1].at <= Span
      BY <2>3 DEF AgentOK, HasCause
    <3>2. r.before - r.limit + 1 \in 1..n BY <2>1, <2>2, <2>3, <3>1
    <3> QED BY <3>1, <3>2, <1>4
  <2> QED BY <2>1, <2>2, <2>3, <1>4 DEF HasCause
<1> QED BY <1>3, <1>4, <1>7, <1>8, <1>9, <1>10 DEF AgentOK

LEMMA RefuseOK ==
  ASSUME NEW t \in Nat, NEW w \in Seq(Nat), NEW acc \in Seq(CallRecord), NEW r,
         NEW limit \in Limits, Len(w) >= limit, AgentOK(t, w, acc, r),
         \A i \in 1..Len(w) : t - w[i] <= Span,
         NEW r2, r2 = [at |-> t, limit |-> limit, before |-> Len(acc)]
  PROVE  AgentOK(t, w, acc, r2) /\ r2.limit > 0
<1>1. PICK m \in Nat, n \in Nat : m = Len(w) /\ n = Len(acc)
  BY LenProperties
<1>2. /\ limit \in Nat /\ limit > 0 /\ m >= limit
      /\ r2.at = t /\ r2.limit = limit /\ r2.before = n
  BY <1>1, LimitsAssumption
<1>3. /\ m <= n /\ \A i \in 1..m : w[i] = acc[n - m + i].at
  BY <1>1 DEF AgentOK, IsRest
<1>4. /\ m - limit + 1 \in 1..m
      /\ n - m + (m - limit + 1) = n - limit + 1
      /\ n >= limit
  BY <1>2, <1>3
<1>5. t - acc[n - limit + 1].at <= Span
  BY <1>1, <1>3, <1>4
<1> QED BY <1>1, <1>2, <1>4, <1>5 DEF AgentOK, HasCause

LEMMA TickOK ==
  ASSUME NEW t \in Nat, NEW w \in Seq(Nat), NEW acc \in Seq(CallRecord), NEW r,
         AgentOK(t, w, acc, r)
  PROVE  AgentOK(t + 1, w, acc, r)
<1>1. PICK m \in Nat, n \in Nat : m = Len(w) /\ n = Len(acc)
  BY LenProperties
<1>2. \A i \in 1..n : acc[i].at \in Nat BY <1>1, HistoryIsTyped
<1>3. m <= n BY <1>1 DEF AgentOK, IsRest
<1>4. ASSUME NEW i \in 1..(n - m) PROVE (t + 1) - acc[i].at > Span
  <2>1. i \in 1..n BY <1>3
  <2>2. t - acc[i].at > Span BY <1>1 DEF AgentOK, IsRest
  <2> QED BY <2>1, <2>2, <1>2, SpanAssumption
<1>5. ASSUME NEW i \in 1..n PROVE acc[i].at <= t + 1
  <2>1. acc[i].at <= t BY <1>1 DEF AgentOK, InOrder
  <2> QED BY <2>1, <1>2
<1>6. IsRest(t + 1, w, acc) BY <1>1, <1>4 DEF AgentOK, IsRest
<1>7. InOrder(t + 1, acc) BY <1>1, <1>5 DEF AgentOK, InOrder
<1> QED BY <1>6, <1>7 DEF AgentOK

-----------------------------------------------------------------------------
(* The invariant holds                                                     *)

LEMMA InitIInv == Init => IInv
BY LimitsAssumption, SpanAssumption
   DEF Init, IInv, TypeOK, AgentOK, IsRest, InOrder, FewEnough, HasCause,
       NotRefused

LEMMA TickKeepsIInv == IInv /\ Tick => IInv'
<1> SUFFICES ASSUME IInv, Tick PROVE IInv'
  OBVIOUS
<1>1. /\ now' = now + 1
      /\ window' = window /\ accepted' = accepted /\ refused' = refused
  BY DEF Tick
<1>2. now \in Nat /\ now' \in Nat BY <1>1 DEF IInv, TypeOK
<1>3. TypeOK' BY <1>1, <1>2, Zenon DEF IInv, TypeOK
<1>4. ASSUME NEW a \in Agents
      PROVE  AgentOK(now + 1, window[a], accepted[a], refused[a])
  BY <1>2, TickOK DEF IInv, TypeOK, CallRecord
<1> QED BY <1>1, <1>3, <1>4 DEF IInv

\* A call of agent a leaves the other agents alone.
LEMMA CheckKeepsIInv ==
  ASSUME IInv, NEW a \in Agents, NEW limit \in Limits, Check(a, limit)
  PROVE  IInv'
<1>1. PICK w : w = Evicted(now, window[a]) /\ (Refuse(a, w, limit) \/ Accept(a, w, limit))
  BY DEF Check
<1>2. PICK acc, r, t : acc = accepted[a] /\ r = refused[a] /\ t = now
  OBVIOUS
<1>3. /\ now \in Nat
      /\ window \in [Agents -> Seq(Nat)]
      /\ accepted \in [Agents -> Seq(CallRecord)]
      /\ refused \in [Agents -> [at : Nat, limit : Nat, before : Nat]]
  BY DEF IInv, TypeOK, CallRecord
<1>4. t \in Nat /\ acc \in Seq(CallRecord) /\ r \in [at : Nat, limit : Nat, before : Nat]
  BY <1>2, <1>3
<1>5. /\ w \in Seq(Nat) /\ AgentOK(t, w, acc, r)
      /\ \A i \in 1..Len(w) : t - w[i] <= Span
  <2>1. window[a] \in Seq(Nat) /\ AgentOK(t, window[a], acc, r)
    BY <1>2, <1>3 DEF IInv
  <2> QED BY <2>1, <1>1, <1>2, <1>4, EvictedOK
<1>6. now' = now BY DEF Check
<1>7. CASE Refuse(a, w, limit)
  <2>1. PICK r2 : r2 = [at |-> t, limit |-> limit, before |-> Len(acc)]
    OBVIOUS
  <2>2. /\ window' = [window EXCEPT ![a] = w] /\ accepted' = accepted
        /\ refused' = [refused EXCEPT ![a] = r2] /\ Len(w) >= limit
    BY <1>2, <1>7, <2>1 DEF Refuse
  <2>3. AgentOK(t, w, acc, r2) /\ r2.limit > 0
    BY <1>4, <1>5, <2>1, <2>2, RefuseOK
  <2>4. r2 \in [at : Nat, limit : Nat, before : Nat]
    BY <1>4, <2>1, LenProperties, LimitsAssumption
  <2>5. TypeOK' BY <1>3, <1>5, <1>6, <2>2, <2>4, Zenon DEF TypeOK, CallRecord
  <2>6. ASSUME NEW b \in Agents
        PROVE  /\ AgentOK(now, window'[b], accepted[b], refused'[b])
               /\ refused'[b] # NotRefused => refused'[b].limit > 0
    <3>1. CASE b = a BY <3>1, <1>2, <1>3, <2>2, <2>3
    <3>2. CASE b # a BY <3>2, <1>3, <2>2 DEF IInv
    <3> QED BY <3>1, <3>2
  <2> QED BY <1>6, <2>2, <2>5, <2>6 DEF IInv
<1>8. CASE Accept(a, w, limit)
  <2>1. PICK acc2, w2 : /\ acc2 = Append(acc, [at |-> t, limit |-> limit])
                        /\ w2 = Append(w, t)
    OBVIOUS
  <2>2. /\ window' = [window EXCEPT ![a] = w2]
        /\ accepted' = [accepted EXCEPT ![a] = acc2]
        /\ refused' = refused /\ Len(w) < limit
    BY <1>2, <1>8, <2>1 DEF Accept
  <2>3. acc2 \in Seq(CallRecord) /\ w2 \in Seq(Nat) /\ AgentOK(t, w2, acc2, r)
    BY <1>4, <1>5, <2>1, <2>2, AcceptOK
  <2>4. TypeOK' BY <1>3, <1>6, <2>2, <2>3, Zenon DEF TypeOK, CallRecord
  <2>5. ASSUME NEW b \in Agents
        PROVE  AgentOK(now, window'[b], accepted'[b], refused[b])
    <3>1. CASE b = a BY <3>1, <1>2, <1>3, <2>2, <2>3
    <3>2. CASE b # a BY <3>2, <1>3, <2>2 DEF IInv
    <3> QED BY <3>1, <3>2
  <2> QED BY <1>6, <2>2, <2>4, <2>5 DEF IInv
<1> QED BY <1>1, <1>7, <1>8

\* IInv is inductive.
LEMMA NextKeepsIInv == IInv /\ [Next]_vars => IInv'
<1> SUFFICES ASSUME IInv, [Next]_vars PROVE IInv'
  OBVIOUS
<1>1. CASE Tick BY <1>1, TickKeepsIInv
<1>2. ASSUME NEW a \in Agents, NEW limit \in Limits, Check(a, limit)
      PROVE  IInv'
  BY <1>2, CheckKeepsIInv
<1>3. CASE UNCHANGED vars
  BY <1>3 DEF vars, IInv, TypeOK
<1> QED BY <1>1, <1>2, <1>3 DEF Next

LEMMA Invariance == Spec => []IInv
BY NextKeepsIInv, InitIInv, PTL DEF Spec

\* Every variable keeps its type.
THEOREM TypeCorrect == Spec => []TypeOK
BY Invariance, PTL DEF IInv

\* No agent exceeds the limit its call came with, for every limit and span:
\* the workflow runner's "agent is allowed {rate_limit} calls/min".
THEOREM RateIsBounded == Spec => []NeverTooMany
<1>1. IInv => NeverTooMany
  <2> SUFFICES ASSUME IInv, NEW a \in Agents PROVE FewEnough(accepted[a])
                      /\ DOMAIN accepted[a] = 1..Len(accepted[a])
    BY DEF NeverTooMany, FewEnough
  <2>1. accepted[a] \in Seq(CallRecord) BY DEF IInv, TypeOK, CallRecord
  <2> QED BY <2>1, HistoryIsTyped DEF IInv, AgentOK
<1> QED BY <1>1, Invariance, PTL

\* A call is refused only when `limit` calls were accepted within the span:
\* eviction never keeps what has expired, and refused calls do not count.
THEOREM RefusalsAreJustified == Spec => []RefusedWithCause
<1>1. IInv => RefusedWithCause
  BY DEF IInv, AgentOK, HasCause, RefusedWithCause
<1> QED BY <1>1, Invariance, PTL

-----------------------------------------------------------------------------
(* Sums                                                                    *)

\* A set of numbers up to n that has 0 and, with every number, the next one has
\* them all: induction, as the least number that is not in the set.
LEMMA UpTo ==
  ASSUME NEW n \in Nat, NEW P, 0 \in P, \A i \in 1..n : i - 1 \in P => i \in P
  PROVE  \A i \in 0..n : i \in P
<1> DEFINE Bad == {i \in 0..n : i \notin P}
<1>1. SUFFICES ASSUME Bad # {} PROVE FALSE
  OBVIOUS
<1>2. Bad \in SUBSET Nat OBVIOUS
<1>3. PICK x \in Bad : \A y \in Bad : x <= y
  <2> HIDE DEF Bad
  <2> QED BY <1>1, <1>2, LeastNat
<1>4. x \in 1..n BY <1>3
<1>5. x - 1 \in 0..n /\ ~(x <= x - 1) BY <1>4
<1>6. x - 1 \in P BY <1>3, <1>5
<1> QED BY <1>3, <1>4, <1>6

\* The sums of s up to n.
IsSum(f, s, n) == f = [i \in 0..n |-> IF i = 0 THEN 0 ELSE f[i-1] + s[i]]

LEMMA SumExists ==
  ASSUME NEW s, NEW n \in Nat
  PROVE  \E f : IsSum(f, s, n)
<1> DEFINE P == {m \in 0..n : \E f : IsSum(f, s, m)}
<1>1. 0 \in P
  <2>1. IsSum([i \in 0..0 |-> 0], s, 0) BY DEF IsSum
  <2> QED BY <2>1
<1>2. ASSUME NEW m \in 1..n, m - 1 \in P PROVE m \in P
  <2>1. PICK f : IsSum(f, s, m - 1) BY <1>2
  <2> DEFINE g == [i \in 0..m |-> IF i = m THEN f[m-1] + s[m] ELSE f[i]]
  <2>2. ASSUME NEW i \in 0..m PROVE g[i] = IF i = 0 THEN 0 ELSE g[i-1] + s[i]
    <3>1. CASE i = m BY <3>1
    <3>2. CASE i # m
      <4>1. i \in 0..(m - 1) BY <3>2
      <4>2. f[i] = IF i = 0 THEN 0 ELSE f[i-1] + s[i] BY <4>1, <2>1 DEF IsSum
      <4>3. g[i] = f[i] BY <3>2
      <4>4. i # 0 => g[i-1] = f[i-1] BY <3>2
      <4> QED BY <4>2, <4>3, <4>4
    <3> QED BY <3>1, <3>2
  <2>3. g = [i \in 0..m |-> g[i]] OBVIOUS
  <2> HIDE DEF g
  <2>4. IsSum(g, s, m) BY <2>2, <2>3, Zenon DEF IsSum
  <2> QED BY <2>4
<1> HIDE DEF P
<1>3. \A i \in 0..n : i \in P BY <1>1, <1>2, UpTo
<1> QED BY <1>3 DEF P

LEMMA TotalIsSum ==
  ASSUME NEW s, NEW n \in Nat
  PROVE  \E f : /\ f[0] = 0
                /\ \A i \in 1..n : f[i] = f[i-1] + s[i]
                /\ Total(s, n) = f[n]
<1> DEFINE f == CHOOSE g : IsSum(g, s, n)
<1>1. IsSum(f, s, n) BY SumExists
<1>2. Total(s, n) = f[n] BY DEF Total, IsSum
<1> HIDE DEF f
<1>3. \A i \in 0..n : f[i] = IF i = 0 THEN 0 ELSE f[i-1] + s[i]
  BY <1>1 DEF IsSum
<1> QED BY <1>2, <1>3

\* How a sum grows with the numbers, and with their number.
LEMMA TotalStep ==
  ASSUME NEW s, NEW n \in Nat
  PROVE  Total(s, 0) = 0 /\ (n > 0 => Total(s, n) = Total(s, n - 1) + s[n])
<1>1. Total(s, 0) = 0
  BY TotalIsSum
<1>2. ASSUME n > 0 PROVE Total(s, n) = Total(s, n - 1) + s[n]
  <2>1. PICK f : /\ f[0] = 0
                 /\ \A i \in 1..n : f[i] = f[i-1] + s[i]
                 /\ Total(s, n) = f[n]
    BY TotalIsSum
  <2>2. PICK g : /\ g[0] = 0
                 /\ \A i \in 1..(n-1) : g[i] = g[i-1] + s[i]
                 /\ Total(s, n - 1) = g[n - 1]
    <3>1. n - 1 \in Nat BY <1>2
    <3> QED BY <3>1, TotalIsSum
  <2> DEFINE P == {i \in 0..(n-1) : f[i] = g[i]}
  <2>3. 0 \in P BY <1>2, <2>1, <2>2
  <2>4. ASSUME NEW i \in 1..(n-1), i - 1 \in P PROVE i \in P
    BY <2>1, <2>2, <2>4
  <2>5. n - 1 \in Nat BY <1>2
  <2>6. \A i \in 0..(n-1) : i \in P
    <3> HIDE DEF P
    <3> QED BY <2>3, <2>4, <2>5, UpTo
  <2>7. f[n - 1] = g[n - 1] BY <2>5, <2>6
  <2> QED BY <1>2, <2>1, <2>2, <2>7
<1> QED BY <1>1, <1>2

LEMMA TotalIsNat ==
  ASSUME NEW s, NEW n \in Nat, \A i \in 1..n : s[i] \in Nat
  PROVE  \A i \in 0..n : Total(s, i) \in Nat
<1> DEFINE P == {i \in Nat : Total(s, i) \in Nat}
<1>1. 0 \in P BY TotalStep
<1>2. ASSUME NEW i \in 1..n, i - 1 \in P PROVE i \in P
  <2>1. Total(s, i) = Total(s, i - 1) + s[i] BY TotalStep
  <2> QED BY <1>2, <2>1
<1>3. \A i \in 0..n : i \in P
  <2> HIDE DEF P
  <2> QED BY <1>1, <1>2, UpTo
<1> QED BY <1>3

\* The sum depends on the first n numbers only.
LEMMA TotalAgrees ==
  ASSUME NEW s, NEW t, NEW n \in Nat, \A i \in 1..n : s[i] = t[i]
  PROVE  Total(s, n) = Total(t, n)
<1> DEFINE P == {i \in Nat : Total(s, i) = Total(t, i)}
<1>1. 0 \in P BY TotalStep
<1>2. ASSUME NEW i \in 1..n, i - 1 \in P PROVE i \in P
  <2>1. Total(s, i) = Total(s, i - 1) + s[i] BY TotalStep
  <2>2. Total(t, i) = Total(t, i - 1) + t[i] BY TotalStep
  <2> QED BY <1>2, <2>1, <2>2
<1>3. \A i \in 0..n : i \in P
  <2> HIDE DEF P
  <2> QED BY <1>1, <1>2, UpTo
<1> QED BY <1>3

-----------------------------------------------------------------------------
(* The nodes: their inductive invariant                                    *)

Steps == {"new", "ready", "calling", "replied", "saving", "failed", "done"}

SessionRow ==
    [role : {"agent", "user", "system", "assistant", "tool"}, by : Int,
     to : {"display", "none", "agent"} \cup Agents]

SessionCommit == [node : Nat, rows : SUBSET SessionRow]

NodesTypeOK ==
    /\ plan \in Plans /\ agents \in SUBSET Agents
    /\ loaded \in [Runs -> SUBSET Agents]
    /\ node \in [Runs -> Nat \ {0}]
    /\ step \in [Runs -> Steps]
    /\ turns = [r \in Runs |-> [k \in Nodes(r) |-> turns[r][k]]]
    /\ \A r \in Runs : \A k \in Nodes(r) : turns[r][k] \in Nat
    /\ reply \in [Runs -> [topic : BOOLEAN, tokens : Nat]]
    /\ said \in [Runs -> Seq([by : Nat, topic : BOOLEAN])]
    /\ usage \in [Runs -> Nat]
    /\ events \in [Runs -> Seq(Nat)]
    /\ untold = [r \in Runs |-> [k \in Nodes(r) |-> untold[r][k]]]
    /\ \A r \in Runs : \A k \in Nodes(r) : untold[r][k] \in Nat
    /\ messages \in [Runs -> Seq(SessionCommit)]
    /\ faults \in Nat

\* Only nodes that are over have spoken, and each has told one event; only a node of
\* an agent is in the middle of its execution.
Placed(r) ==
    /\ node[r] <= Len(plan[r]) + 1
    /\ step[r] \in {"ready", "calling", "replied", "saving"} => node[r] <= Len(plan[r])
    /\ step[r] \in {"calling", "replied", "saving"} => Kind(r) = "agent"
    /\ step[r] = "new" => node[r] = 1
    /\ \A i \in DOMAIN said[r] : said[r][i].by < node[r]
    /\ Len(events[r]) = IF step[r] = "saving" THEN node[r] ELSE node[r] - 1

\* What node k counted, told or not, after c calls of the model.
CountOK(r, k, told, hidden, c) ==
    /\ told + hidden <= c
    /\ plan[r][k].kind # "agent" => told = 0
    /\ plan[r][k].kind # "profiler" => hidden = 0
    /\ plan[r][k].kind # "profiler" /\ ~HasTools(r, k) => told = c

\* The nodes that are over have counted right, and those to come have counted nothing.
Counted(r) ==
    /\ \A k \in Nodes(r) :
          /\ k > node[r] \/ (k = node[r] /\ step[r] \in {"new", "ready"}) => turns[r][k] = 0
          /\ k >= node[r] => untold[r][k] = 0
    /\ \A k \in 1..node[r]-1 : CountOK(r, k, events[r][k], untold[r][k], turns[r][k])
    /\ step[r] = "calling" /\ ~Tools(r) => turns[r][node[r]] = 0
    /\ step[r] \in {"replied", "saving"} =>
          CountOK(r, node[r], reply[r].tokens, 0, turns[r][node[r]])
    /\ step[r] = "saving" => events[r][node[r]] = reply[r].tokens
    /\ usage[r] = Total(events[r], node[r] - 1) + Total(untold[r], node[r] - 1)

\* A node that calls the model, or is about to.
Calls(r, k) == turns[r][k] > 0 \/ (k = node[r] /\ step[r] = "calling")

Guarded(r) ==
    \A k \in Nodes(r), a \in loaded[r] :
        Calls(r, k) /\ Executes(r, k, a) /\ Settings[<<r, a>>].restricted
            => \A i \in LastBefore(r, k) : ~said[r][i].topic

\* The commits of a session are those of agent nodes that are over, in their order.
Ordered(r) ==
    /\ \A i \in DOMAIN messages[r] :
          messages[r][i].node \in 1..node[r]-1 /\ plan[r][messages[r][i].node].kind = "agent"
    /\ \A i, j \in DOMAIN messages[r] : i < j => messages[r][i].node < messages[r][j].node

Transcribed(r) ==
    /\ \A i \in DOMAIN messages[r] : \A row \in messages[r][i].rows :
          Sourced(r, row, messages[r][i].node)
    /\ Cardinality(Missing(r)) <= faults

\* The limiter accepted the node k of r for agent a.
Admitted(a, r, k) ==
    /\ Calls(r, k) /\ Executes(r, k, a)
    /\ a \in loaded[r] /\ Settings[<<r, a>>].limit > 0

Accepted(a) == {x \in Visits : Admitted(a, x[1], x[2])}

ChargeOK(a) == IsFiniteSet(Accepted(a)) /\ Cardinality(Accepted(a)) <= Len(accepted[a])

RunOK(r) == Placed(r) /\ Counted(r) /\ Guarded(r) /\ Ordered(r) /\ Transcribed(r)

NodesInv ==
    /\ NodesTypeOK
    /\ \A r \in Runs : RunOK(r)
    /\ \A a \in Agents : ChargeOK(a)

-----------------------------------------------------------------------------
(* What the types say                                                      *)

LEMMA PlanTyped ==
  ASSUME NodesTypeOK, NEW r \in Runs
  PROVE  /\ plan[r] \in Seq(PlanNode)
         /\ Len(plan[r]) \in Nat /\ DOMAIN plan[r] = 1..Len(plan[r])
         /\ \A k \in Nodes(r) :
               /\ plan[r][k].kind \in {"agent", "profiler", "other"}
               /\ plan[r][k].kind = "agent" =>
                    /\ plan[r][k].agent \in Agents
                    /\ plan[r][k].direct =>
                         k + 1 \in Nodes(r) /\ plan[r][k + 1].kind = "agent"
<1>1. /\ plan[r] \in Seq(PlanNode)
      /\ \A k \in DOMAIN plan[r] :
            plan[r][k].kind = "agent" /\ plan[r][k].direct
                => k < Len(plan[r]) /\ plan[r][k + 1].kind = "agent"
  <2>1. plan \in Plans BY DEF NodesTypeOK
  <2>2. plan \in [Runs -> Seq(PlanNode)] BY <2>1, PlansAssumption
  <2> QED BY <2>1, <2>2, PlansAssumption
<1>2. Len(plan[r]) \in Nat /\ DOMAIN plan[r] = 1..Len(plan[r])
  BY <1>1, LenProperties
<1>3. ASSUME NEW k \in Nodes(r)
      PROVE  /\ plan[r][k].kind \in {"agent", "profiler", "other"}
             /\ plan[r][k].kind = "agent" =>
                  /\ plan[r][k].agent \in Agents
                  /\ plan[r][k].direct =>
                       k + 1 \in Nodes(r) /\ plan[r][k + 1].kind = "agent"
  <2>1. k \in 1..Len(plan[r]) BY DEF Nodes
  <2>2. plan[r][k] \in PlanNode BY <1>1, <2>1, ElementOfSeq
  <2>3. /\ plan[r][k].kind \in {"agent", "profiler", "other"}
        /\ plan[r][k].kind = "agent" => plan[r][k].agent \in Agents
    BY <2>2 DEF PlanNode
  <2>4. plan[r][k].kind = "agent" /\ plan[r][k].direct
            => k < Len(plan[r]) /\ plan[r][k + 1].kind = "agent"
    BY <1>1, <1>2, <2>1
  <2>5. k < Len(plan[r]) => k + 1 \in Nodes(r) BY <1>2, <2>1 DEF Nodes
  <2> QED BY <2>3, <2>4, <2>5
<1> QED BY <1>1, <1>2, <1>3

\* A node that is being executed is one of the plan's.
LEMMA AtNode ==
  ASSUME NodesTypeOK, NEW r \in Runs, Placed(r),
         step[r] \in {"ready", "calling", "replied", "saving"}
  PROVE  node[r] \in Nodes(r) /\ node[r] \in Nat /\ node[r] > 0
<1>1. node[r] \in Nat /\ node[r] > 0 BY DEF NodesTypeOK
<1>2. Len(plan[r]) \in Nat BY PlanTyped
<1>3. node[r] \in Nodes(r) BY <1>1, <1>2 DEF Placed, Nodes
<1> QED BY <1>1, <1>3

\* The agent of such a node has settings.
LEMMA AtAgent ==
  ASSUME NodesTypeOK, NEW r \in Runs, Placed(r), Kind(r) = "agent",
         step[r] \in {"ready", "calling", "replied", "saving"}
  PROVE  /\ Agent(r) \in Agents /\ Executes(r, node[r], Agent(r))
         /\ Set(r).limit \in Limits \cup {0}
         /\ HasTools(r, node[r]) <=> Tools(r)
<1>1. node[r] \in Nodes(r) BY AtNode
<1>2. Agent(r) \in Agents BY <1>1, PlanTyped DEF Agent, Kind
<1>3. Executes(r, node[r], Agent(r)) BY DEF Executes, Agent, Kind
<1>4. Set(r).limit \in Limits \cup {0}
  <2>1. <<r, Agent(r)>> \in Runs \X Agents BY <1>2
  <2>2. Settings[<<r, Agent(r)>>] \in [limit : Limits \cup {0}, restricted : BOOLEAN,
                                       tools : BOOLEAN, level : 0..2]
    BY <2>1, SettingsAssumption
  <2> QED BY <2>2 DEF Set
<1>5. HasTools(r, node[r]) <=> Tools(r)
  BY <1>3 DEF HasTools, Tools, Known, Set, Executes, Agent
<1> QED BY <1>2, <1>3, <1>4, <1>5

LEMMA SaidTyped ==
  ASSUME NodesTypeOK, NEW r \in Runs
  PROVE  /\ said[r] \in Seq([by : Nat, topic : BOOLEAN]) /\ Len(said[r]) \in Nat
         /\ events[r] \in Seq(Nat) /\ Len(events[r]) \in Nat
         /\ messages[r] \in Seq(SessionCommit) /\ Len(messages[r]) \in Nat
         /\ DOMAIN messages[r] = 1..Len(messages[r])
         /\ node[r] \in Nat /\ node[r] > 0 /\ usage[r] \in Nat
         /\ reply[r].topic \in BOOLEAN /\ reply[r].tokens \in Nat
         /\ DOMAIN said[r] = 1..Len(said[r])
BY LenProperties DEF NodesTypeOK

\* The input of a node is the last text that was said before it.
LEMMA InputIsLast ==
  ASSUME NodesTypeOK, NEW r \in Runs, Placed(r)
  PROVE  /\ \A i \in LastBefore(r, node[r]) : Input(r) = said[r][i]
         /\ LastBefore(r, node[r]) = {} => Input(r).by = 0
<1>1. /\ said[r] \in Seq([by : Nat, topic : BOOLEAN]) /\ Len(said[r]) \in Nat
      /\ node[r] \in Nat /\ DOMAIN said[r] = 1..Len(said[r])
  BY SaidTyped, LenProperties
<1>2. ASSUME NEW i \in 1..Len(said[r])
      PROVE  said[r][i].by < node[r] /\ said[r][i].by \in Nat
  <2>1. said[r][i] \in [by : Nat, topic : BOOLEAN] BY <1>1, ElementOfSeq
  <2>2. said[r][i].by < node[r] BY <1>1 DEF Placed
  <2> QED BY <2>1, <2>2
<1>3. CASE said[r] = <<>>
  <2>1. Input(r).by = 0 BY <1>3 DEF Input
  <2>2. Len(said[r]) = 0 BY <1>3
  <2>3. LastBefore(r, node[r]) = {} BY <1>1, <2>2 DEF LastBefore
  <2> QED BY <2>1, <2>3
<1>4. CASE said[r] # <<>>
  <2>1. Len(said[r]) \in 1..Len(said[r])
    <3>1. Len(said[r]) # 0 BY <1>1, <1>4, EmptySeq
    <3> QED BY <1>1, <3>1
  <2>2. Input(r) = said[r][Len(said[r])] BY <1>4 DEF Input, Last
  <2>3. ASSUME NEW i \in LastBefore(r, node[r]) PROVE i = Len(said[r])
    <3>1. /\ i \in 1..Len(said[r])
          /\ Len(said[r]) > i => said[r][Len(said[r])].by >= node[r]
      BY <1>1, <2>1 DEF LastBefore
    <3>2. ~(said[r][Len(said[r])].by >= node[r]) BY <1>1, <1>2, <2>1, SMTT(30)
    <3> QED BY <1>1, <3>1, <3>2
  <2>4. Len(said[r]) \in LastBefore(r, node[r])
    <3>1. \A j \in 1..Len(said[r]) : ~(j > Len(said[r])) BY <1>1
    <3> QED BY <1>1, <1>2, <2>1, <3>1 DEF LastBefore
  <2> QED BY <2>2, <2>3, <2>4
<1> QED BY <1>3, <1>4

\* What node n says is not before node n: it changes no last text before a node k <= n.
LEMMA LastBeforeKept ==
  ASSUME NodesTypeOK, NEW r \in Runs, NEW k \in Nat, NEW n \in Nat, k <= n,
         \/ said'[r] = said[r]
         \/ \E topic \in BOOLEAN : said'[r] = Append(said[r], [by |-> n, topic |-> topic])
  PROVE  /\ LastBefore(r, k)' = LastBefore(r, k)
         /\ \A i \in LastBefore(r, k) : said'[r][i] = said[r][i]
<1>1. CASE said'[r] = said[r] BY <1>1 DEF LastBefore
<1>2. ASSUME NEW topic \in BOOLEAN, said'[r] = Append(said[r], [by |-> n, topic |-> topic])
      PROVE  /\ LastBefore(r, k)' = LastBefore(r, k)
             /\ \A i \in LastBefore(r, k) : said'[r][i] = said[r][i]
  <2>1. PICK m, s, t : m = Len(said[r]) /\ s = said[r] /\ t = [by |-> n, topic |-> topic]
    OBVIOUS
  <2>2. s \in Seq([by : Nat, topic : BOOLEAN]) /\ m \in Nat /\ DOMAIN s = 1..m
    BY <2>1, SaidTyped, LenProperties
  <2>3. t \in [by : Nat, topic : BOOLEAN] /\ t.by = n BY <2>1
  <2>4. PICK s2 : s2 = Append(s, t)
    OBVIOUS
  <2>5. said'[r] = s2 BY <1>2, <2>1, <2>4
  <2>6. DOMAIN s2 = 1..m+1 /\ s2[m + 1] = t /\ \A i \in 1..m : s2[i] = s[i]
    BY <2>1, <2>2, <2>3, <2>4, AppendProperties
  <2>7. s2[m + 1].by >= k /\ ~(s2[m + 1].by < k) BY <2>3, <2>6
  <2>8. ASSUME NEW i \in LastBefore(r, k) PROVE i \in LastBefore(r, k)' /\ s2[i] = s[i]
    <3>1. /\ i \in 1..m /\ s[i].by < k
          /\ \A j \in 1..m : j > i => s[j].by >= k
      BY <2>1, <2>2 DEF LastBefore
    <3>2. i \in 1..m+1 /\ s2[i].by < k BY <2>2, <2>6, <3>1
    <3>3. ASSUME NEW j \in 1..m+1, j > i PROVE s2[j].by >= k
      <4>1. j \in 1..m \/ j = m + 1 BY <2>2
      <4> QED BY <2>6, <2>7, <3>1, <3>3, <4>1
    <3> QED BY <2>5, <2>6, <3>1, <3>2, <3>3 DEF LastBefore
  <2>9. ASSUME NEW i \in LastBefore(r, k)' PROVE i \in LastBefore(r, k)
    <3>1. /\ i \in 1..m+1 /\ s2[i].by < k
          /\ \A j \in 1..m+1 : j > i => s2[j].by >= k
      BY <2>5, <2>6 DEF LastBefore
    <3>2. i \in 1..m
      <4>1. i # m + 1 BY <2>7, <3>1
      <4> QED BY <2>2, <3>1, <4>1
    <3>3. ASSUME NEW j \in 1..m, j > i PROVE s[j].by >= k
      <4>1. j \in 1..m+1 BY <2>2
      <4> QED BY <2>6, <3>1, <3>3, <4>1
    <3>4. s[i].by < k BY <2>6, <3>1, <3>2
    <3> QED BY <2>1, <2>2, <3>2, <3>3, <3>4 DEF LastBefore
  <2> QED BY <2>1, <2>5, <2>8, <2>9
<1> QED BY <1>1, <1>2

LEMMA MissingFinite ==
  ASSUME NodesTypeOK, NEW r \in Runs
  PROVE  IsFiniteSet(Missing(r)) /\ Cardinality(Missing(r)) \in Nat
<1>1. Missing(r) \subseteq 1..node[r]-1 BY DEF Missing
<1>2. IsFiniteSet(1..node[r]-1)
  <2>1. node[r] - 1 \in Nat BY SaidTyped
  <2> QED BY <2>1, FS_Interval
<1> QED BY <1>1, <1>2, FS_Subset, FS_CardinalityType

-----------------------------------------------------------------------------
(* What a step leaves alone                                                *)

\* Nothing of run q changes.
Same(q) ==
    /\ plan' = plan /\ agents' = agents
    /\ loaded'[q] = loaded[q] /\ node'[q] = node[q] /\ step'[q] = step[q]
    /\ turns'[q] = turns[q] /\ reply'[q] = reply[q] /\ said'[q] = said[q]
    /\ usage'[q] = usage[q] /\ events'[q] = events[q] /\ untold'[q] = untold[q]
    /\ messages'[q] = messages[q]

LEMMA SameRun ==
  ASSUME NodesTypeOK, NEW q \in Runs, RunOK(q), Same(q),
         faults' \in Nat, faults' >= faults
  PROVE  RunOK(q)'
<1>1. Placed(q)' BY DEF RunOK, Placed, Kind, Same
<1>2. Counted(q)'
  <2>1. \A k, told, hidden, c :
           CountOK(q, k, told, hidden, c) => CountOK(q, k, told, hidden, c)'
    BY SMTT(30) DEF CountOK, HasTools, Executes, Same
  <2>2. \A k \in 1..node[q]-1 :
           CountOK(q, k, events[q][k], untold[q][k], turns[q][k])'
    BY <2>1 DEF RunOK, Counted, Same
  <2>3. step[q] \in {"replied", "saving"} =>
           CountOK(q, node[q], reply[q].tokens, 0, turns[q][node[q]])'
    BY <2>1 DEF RunOK, Counted, Same
  <2> QED BY <2>2, <2>3
          DEF RunOK, Counted, Nodes, Tools, Known, Agent, Set, Same
<1>3. Guarded(q)' BY DEF RunOK, Guarded, Calls, Executes, LastBefore, Nodes, Same
<1>4. Ordered(q)' BY DEF RunOK, Ordered, Same
<1>5. Missing(q)' = Missing(q) BY DEF Missing, Executes, Same
<1>6. Transcribed(q)'
  <2>1. Cardinality(Missing(q)) <= faults BY DEF RunOK, Transcribed
  <2>2. Cardinality(Missing(q)) \in Nat /\ faults \in Nat
    BY MissingFinite DEF NodesTypeOK
  <2>3. Cardinality(Missing(q)') <= faults' BY <1>5, <2>1, <2>2
  <2>4. \A i \in DOMAIN messages'[q] : \A row \in messages'[q][i].rows :
           Sourced(q, row, messages'[q][i].node)
    BY DEF RunOK, Transcribed, Same
  <2>5. said'[q] = said[q] BY DEF Same
  <2> QED BY <2>3, <2>4, <2>5 DEF Transcribed, Sourced, LastBefore
<1> QED BY <1>1, <1>2, <1>3, <1>4, <1>6 DEF RunOK

\* The session of a run that does not commit.
LEMMA SameSession ==
  ASSUME NodesTypeOK, NEW r \in Runs, RunOK(r), plan' = plan, agents' = agents,
         node'[r] = node[r], said'[r] = said[r], messages'[r] = messages[r],
         faults' = faults
  PROVE  Ordered(r)' /\ Transcribed(r)'
<1>1. Ordered(r)' BY DEF RunOK, Ordered
<1>2. Missing(r)' = Missing(r) BY DEF Missing, Executes
<1>3. Transcribed(r)' BY <1>2 DEF RunOK, Transcribed, Sourced, LastBefore
<1> QED BY <1>1, <1>3

\* What the limiter accepted for agent a is enough, if no other node calls.
LEMMA ChargeKept ==
  ASSUME NEW a \in Agents, ChargeOK(a), plan' = plan, TypeOK,
         accepted'[a] = accepted[a],
         \A q \in Runs : \A k \in Nodes(q) : Admitted(a, q, k)' => Admitted(a, q, k)
  PROVE  ChargeOK(a)'
<1>1. Accepted(a)' \subseteq Accepted(a)
  <2>1. Visits' = Visits BY DEF Visits, Nodes
  <2>2. ASSUME NEW x \in Visits PROVE x[1] \in Runs /\ x[2] \in Nodes(x[1])
    BY DEF Visits
  <2>3. ASSUME NEW x \in Visits, Admitted(a, x[1], x[2])' PROVE Admitted(a, x[1], x[2])
    BY <2>2, <2>3
  <2> QED BY <2>1, <2>3 DEF Accepted
<1>2. /\ IsFiniteSet(Accepted(a)')
      /\ Cardinality(Accepted(a)') <= Cardinality(Accepted(a))
  BY <1>1, FS_Subset DEF ChargeOK
<1>3. Cardinality(Accepted(a)') \in Nat /\ Cardinality(Accepted(a)) \in Nat
  BY <1>2, FS_CardinalityType DEF ChargeOK
<1>4. Len(accepted[a]) \in Nat
  BY LenProperties DEF TypeOK
<1> QED BY <1>2, <1>3, <1>4 DEF ChargeOK

\* The limiter accepts the node n of run r for agent a.
LEMMA ChargeAdded ==
  ASSUME NEW a \in Agents, ChargeOK(a), plan' = plan, TypeOK, NEW r \in Runs,
         NEW n, Len(accepted'[a]) = Len(accepted[a]) + 1,
         \A q \in Runs : \A k \in Nodes(q) :
            Admitted(a, q, k)' => Admitted(a, q, k) \/ (q = r /\ k = n)
  PROVE  ChargeOK(a)'
<1>1. Accepted(a)' \subseteq Accepted(a) \cup {<<r, n>>}
  <2>1. Visits' = Visits BY DEF Visits, Nodes
  <2>2. ASSUME NEW x \in Visits
        PROVE  x[1] \in Runs /\ x[2] \in Nodes(x[1]) /\ x = <<x[1], x[2]>>
    BY DEF Visits
  <2>3. ASSUME NEW x \in Visits, Admitted(a, x[1], x[2])'
        PROVE  Admitted(a, x[1], x[2]) \/ x = <<r, n>>
    BY <2>2, <2>3
  <2> QED BY <2>1, <2>3 DEF Accepted
<1>2. PICK A : A = Accepted(a)
  OBVIOUS
<1>3. IsFiniteSet(A) /\ Cardinality(A) <= Len(accepted[a])
  BY <1>2 DEF ChargeOK
<1>4. /\ IsFiniteSet(A \cup {<<r, n>>})
      /\ Cardinality(A \cup {<<r, n>>}) <= Cardinality(A) + 1
  <2>1. Cardinality(A) \in Nat BY <1>3, FS_CardinalityType
  <2>2. \A x : /\ IsFiniteSet(A \cup {x})
              /\ \/ Cardinality(A \cup {x}) = Cardinality(A)
                 \/ Cardinality(A \cup {x}) = Cardinality(A) + 1
    BY <1>3, FS_AddElement
  <2>3. PICK B : B = A \cup {<<r, n>>}
    OBVIOUS
  <2>4. IsFiniteSet(B) /\ (Cardinality(B) = Cardinality(A) \/ Cardinality(B) = Cardinality(A) + 1)
    BY <2>2, <2>3
  <2>5. Cardinality(B) <= Cardinality(A) + 1 BY <2>1, <2>4
  <2> QED BY <2>3, <2>4, <2>5
<1>5. /\ IsFiniteSet(Accepted(a)')
      /\ Cardinality(Accepted(a)') <= Cardinality(A \cup {<<r, n>>})
  BY <1>1, <1>2, <1>4, FS_Subset
<1>6. /\ Cardinality(Accepted(a)') \in Nat /\ Cardinality(A) \in Nat
      /\ Cardinality(A \cup {<<r, n>>}) \in Nat
  BY <1>3, <1>4, <1>5, FS_CardinalityType
<1>7. Len(accepted[a]) \in Nat
  BY LenProperties DEF TypeOK
<1> QED BY <1>3, <1>4, <1>5, <1>6, <1>7 DEF ChargeOK

\* It may be another agent's call: more of a's calls are accepted, none is made.
LEMMA ChargeGrows ==
  ASSUME NEW a \in Agents, ChargeOK(a), UNCHANGED nodeVars, TypeOK,
         Len(accepted'[a]) \in Nat, Len(accepted'[a]) >= Len(accepted[a])
  PROVE  ChargeOK(a)'
<1>1. Accepted(a)' = Accepted(a)
  BY DEF nodeVars, Accepted, Visits, Nodes, Admitted, Calls, Executes
<1>2. Cardinality(Accepted(a)) \in Nat BY FS_CardinalityType DEF ChargeOK
<1>3. Len(accepted[a]) \in Nat BY LenProperties DEF TypeOK
<1>4. IsFiniteSet(Accepted(a)) /\ Cardinality(Accepted(a)) <= Len(accepted[a])
  BY DEF ChargeOK
<1>5. IsFiniteSet(Accepted(a)') /\ Cardinality(Accepted(a)') <= Len(accepted'[a])
  BY <1>1, <1>2, <1>3, <1>4
<1> QED BY <1>5 DEF ChargeOK

-----------------------------------------------------------------------------
(* Each step keeps the invariant                                           *)

LEMMA InitNodesInv == Init /\ NodesInit => NodesInv
<1> SUFFICES ASSUME Init, NodesInit PROVE NodesInv
  OBVIOUS
<1>1. NodesTypeOK
  BY LevelAssumption DEF NodesInit, NodesTypeOK, Steps, NoReply, Nodes
<1>2. ASSUME NEW r \in Runs PROVE RunOK(r)
  <2>1. /\ node[r] = 1 /\ step[r] = "new" /\ said[r] = <<>> /\ events[r] = <<>>
        /\ messages[r] = <<>> /\ usage[r] = 0 /\ faults = 0
        /\ \A k \in Nodes(r) : turns[r][k] = 0 /\ untold[r][k] = 0
    BY DEF NodesInit
  <2>2. Len(plan[r]) \in Nat BY <1>1, PlanTyped
  <2>3. Placed(r) BY <2>1, <2>2 DEF Placed
  <2>4. Counted(r)
    <3>1. Total(events[r], 0) = 0 /\ Total(untold[r], 0) = 0 BY TotalStep
    <3>2. \A k \in 1..node[r]-1 : FALSE BY <2>1
    <3> QED BY <2>1, <3>1, <3>2 DEF Counted
  <2>5. Guarded(r) BY <2>1 DEF Guarded, Calls
  <2>6. Ordered(r) BY <2>1 DEF Ordered
  <2>7. Transcribed(r)
    <3>1. Missing(r) = {} BY <2>1 DEF Missing
    <3> QED BY <2>1, <3>1, FS_EmptySet DEF Transcribed
  <2> QED BY <2>3, <2>4, <2>5, <2>6, <2>7 DEF RunOK
<1>3. ASSUME NEW a \in Agents PROVE ChargeOK(a)
  <2>1. Accepted(a) = {}
    <3>1. ASSUME NEW x \in Visits, Calls(x[1], x[2]) PROVE FALSE
      <4>1. x[1] \in Runs /\ x[2] \in Nodes(x[1]) BY DEF Visits
      <4> QED BY <3>1, <4>1 DEF Calls, NodesInit
    <3> QED BY <3>1 DEF Accepted, Admitted
  <2>2. Len(accepted[a]) = 0 BY DEF Init
  <2> QED BY <2>1, <2>2, FS_EmptySet DEF ChargeOK
<1> QED BY <1>1, <1>2, <1>3 DEF NodesInv

\* A step of run r touches no other run.
LEMMA OneRun ==
  ASSUME NodesInv, NodesTypeOK', NEW r \in Runs, RunOK(r)', faults' >= faults,
         \A q \in Runs \ {r} : Same(q), \A a \in Agents : ChargeOK(a)'
  PROVE  NodesInv'
<1>1. ASSUME NEW q \in Runs PROVE RunOK(q)'
  <2>1. CASE q = r BY <2>1
  <2>2. CASE q # r
    <3>1. NodesTypeOK /\ RunOK(q) /\ Same(q) BY <2>2 DEF NodesInv
    <3>2. faults' \in Nat BY DEF NodesTypeOK
    <3> QED BY <3>1, <3>2, SameRun
  <2> QED BY <2>1, <2>2
<1> QED BY <1>1 DEF NodesInv

\* The types of what the nodes counted and did, if the step leaves it alone.
LEMMA CountsTyped ==
  ASSUME NodesTypeOK, UNCHANGED <<plan, turns, untold>>
  PROVE  /\ turns' = [r \in Runs |-> [k \in Nodes(r)' |-> turns'[r][k]]]
         /\ \A r \in Runs : \A k \in Nodes(r)' : turns'[r][k] \in Nat
         /\ untold' = [r \in Runs |-> [k \in Nodes(r)' |-> untold'[r][k]]]
         /\ \A r \in Runs : \A k \in Nodes(r)' : untold'[r][k] \in Nat
BY DEF NodesTypeOK, Nodes

\* A step after which no agent's node calls that did not before.
LEMMA NoNewCall ==
  ASSUME NodesInv, TypeOK, NEW r \in Runs, plan' = plan, accepted' = accepted,
         \A q \in Runs \ {r} : Same(q),
         \A k \in Nodes(r) :
            Calls(r, k)' /\ plan[r][k].kind = "agent"
                => Calls(r, k) /\ loaded'[r] = loaded[r]
  PROVE  \A a \in Agents : ChargeOK(a)'
<1> TAKE a \in Agents
<1>1. ASSUME NEW q \in Runs, NEW k \in Nodes(q), Admitted(a, q, k)'
      PROVE  Admitted(a, q, k)
  <2>1. CASE q = r BY <1>1, <2>1 DEF Admitted, Executes
  <2>2. CASE q # r
    <3>1. Same(q) BY <2>2
    <3> QED BY <1>1, <3>1 DEF Admitted, Calls, Executes, Same
  <2> QED BY <2>1, <2>2
<1>2. ChargeOK(a) BY DEF NodesInv
<1> QED BY <1>1, <1>2, ChargeKept

\* What node k counted stays right, whatever the step does.
LEMMA CountKept ==
  ASSUME NEW r \in Runs, plan' = plan, loaded'[r] = loaded[r],
         NEW k, NEW told, NEW hidden, NEW c, CountOK(r, k, told, hidden, c)
  PROVE  CountOK(r, k, told, hidden, c)'
BY DEF CountOK, HasTools, Executes

LEMMA StartKeeps ==
  ASSUME NodesInv, TypeOK, NEW r \in Runs, Start(r)
  PROVE  NodesInv'
<1>1. NodesTypeOK /\ RunOK(r) BY DEF NodesInv
<1>2. PICK st : /\ step' = [step EXCEPT ![r] = st] /\ st \in {"ready", "done"}
                /\ st = "ready" => plan[r] # <<>>
  <2>1. PICK st : st = IF plan[r] = <<>> THEN "done" ELSE "ready"
    OBVIOUS
  <2>2. step' = [step EXCEPT ![r] = st] BY <2>1 DEF Start, Goto
  <2>3. st \in {"ready", "done"} /\ (st = "ready" => plan[r] # <<>>)
    BY <2>1
  <2> QED BY <2>2, <2>3
<1>3. PICK known \in SUBSET Agents : loaded' = [loaded EXCEPT ![r] = known]
  <2>1. PICK known \in IF r \in BySlack THEN {{a} : a \in agents} ELSE {agents} :
                loaded' = [loaded EXCEPT ![r] = known]
    BY DEF Start
  <2>2. agents \in SUBSET Agents BY <1>1 DEF NodesTypeOK
  <2>3. known \in SUBSET Agents BY <2>1, <2>2
  <2> QED BY <2>1, <2>3
<1>4. /\ UNCHANGED <<vars, plan, agents, node, turns, reply, said, usage, events,
                     untold, messages, faults>>
      /\ step[r] = "new"
  BY DEF Start
<1>5. step \in [Runs -> Steps] /\ loaded \in [Runs -> SUBSET Agents] /\ faults \in Nat
  BY <1>1 DEF NodesTypeOK
<1>6. step'[r] = st /\ \A q \in Runs \ {r} : Same(q)
  BY <1>2, <1>3, <1>4, <1>5 DEF Same
<1>7. NodesTypeOK'
  <2>1. step' \in [Runs -> Steps] /\ loaded' \in [Runs -> SUBSET Agents]
    BY <1>2, <1>3, <1>5 DEF Steps
  <2> QED BY <1>1, <1>4, <2>1 DEF NodesTypeOK, Nodes
<1>8. \A k \in Nodes(r) : ~Calls(r, k)'
  <2>1. node[r] = 1 BY <1>1, <1>4 DEF RunOK, Placed
  <2>2. Len(plan[r]) \in Nat BY <1>1, PlanTyped
  <2>3. \A k \in Nodes(r) : turns[r][k] = 0
    BY <1>1, <1>4, <2>1, <2>2 DEF RunOK, Counted, Nodes
  <2> QED BY <1>2, <1>4, <1>6, <2>3 DEF Calls
<1>9. RunOK(r)'
  <2>1. Placed(r)'
    <3>1. Len(plan[r]) \in Nat /\ plan[r] \in Seq(PlanNode)
      BY <1>1, PlanTyped
    <3>2. plan[r] # <<>> => 1 <= Len(plan[r]) BY <3>1, EmptySeq
    <3>3. st = "ready" => node[r] <= Len(plan[r])
      BY <1>1, <1>2, <1>4, <3>2 DEF RunOK, Placed
    <3>4. st # "new" /\ st # "calling" /\ st # "replied" /\ st # "saving" BY <1>2
    <3> QED BY <1>1, <1>4, <1>6, <3>3, <3>4 DEF RunOK, Placed
  <2>2. Counted(r)'
    <3>1. node[r] = 1 BY <1>1, <1>4 DEF RunOK, Placed
    <3>2. \A k \in 1..node[r]-1 : FALSE BY <3>1
    <3>3. \A k \in Nodes(r) :
             /\ k > node[r] \/ k = node[r] => turns[r][k] = 0
             /\ k >= node[r] => untold[r][k] = 0
      BY <1>1, <1>4 DEF RunOK, Counted
    <3>4. usage[r] = Total(events[r], node[r] - 1) + Total(untold[r], node[r] - 1)
      BY <1>1 DEF RunOK, Counted
    <3> QED BY <1>2, <1>4, <1>6, <3>2, <3>3, <3>4 DEF Counted, Nodes
  <2>3. Guarded(r)' BY <1>4, <1>8 DEF Guarded, Nodes
  <2>4. Ordered(r)' /\ Transcribed(r)' BY <1>1, <1>4, SameSession
  <2> QED BY <2>1, <2>2, <2>3, <2>4 DEF RunOK
<1>10. \A a \in Agents : ChargeOK(a)'
  <2>1. accepted' = accepted BY <1>4 DEF vars
  <2> QED BY <1>4, <1>6, <1>8, <2>1, NoNewCall
<1>11. faults' >= faults BY <1>4, <1>5
<1> QED BY <1>6, <1>7, <1>9, <1>10, <1>11, OneRun

\* A step that only says that the run failed.
LEMMA FailsKeeps ==
  ASSUME NodesInv, TypeOK, NEW r \in Runs, Fails(r)
  PROVE  NodesInv'
<1>1. NodesTypeOK /\ RunOK(r) BY DEF NodesInv
<1>2. /\ step' = [step EXCEPT ![r] = "failed"] /\ step[r] \in {"calling", "ready"}
      /\ UNCHANGED <<vars, plan, agents, loaded, node, turns, reply, said, usage, events,
                     untold, messages, faults>>
  BY DEF Fails, Goto
<1>3. step \in [Runs -> Steps] /\ faults \in Nat BY <1>1 DEF NodesTypeOK
<1>4. step'[r] = "failed" /\ \A q \in Runs \ {r} : Same(q)
  BY <1>2, <1>3 DEF Same
<1>5. NodesTypeOK'
  <2>1. step' \in [Runs -> Steps] BY <1>2, <1>3 DEF Steps
  <2> QED BY <1>1, <1>2, <2>1 DEF NodesTypeOK, Nodes
<1>6. \A k \in Nodes(r) : Calls(r, k)' => Calls(r, k)
  BY <1>2, <1>4 DEF Calls
<1>7. RunOK(r)'
  <2>1. Placed(r)' BY <1>1, <1>2, <1>4 DEF RunOK, Placed
  <2>2. Counted(r)'
    <3>1. \A k \in 1..node[r]-1 : CountOK(r, k, events[r][k], untold[r][k], turns[r][k])'
      BY <1>1, <1>2, CountKept DEF RunOK, Counted
    <3> QED BY <1>1, <1>2, <1>4, <3>1 DEF RunOK, Counted, Nodes
  <2>3. Guarded(r)'
    BY <1>1, <1>2, <1>6 DEF RunOK, Guarded, Executes, LastBefore, Nodes
  <2>4. Ordered(r)' /\ Transcribed(r)' BY <1>1, <1>2, SameSession
  <2> QED BY <2>1, <2>2, <2>3, <2>4 DEF RunOK
<1>8. \A a \in Agents : ChargeOK(a)'
  <2>1. accepted' = accepted /\ loaded' = loaded BY <1>2 DEF vars
  <2> QED BY <1>2, <1>4, <1>6, <2>1, NoNewCall
<1>9. faults' >= faults BY <1>2, <1>3
<1> QED BY <1>4, <1>5, <1>7, <1>8, <1>9, OneRun

\* A check of agent b accepts one call of b or none.
LEMMA CheckAccepts ==
  ASSUME TypeOK, NEW b \in Agents, NEW limit \in Limits, Check(b, limit)
  PROVE  /\ \A a \in Agents : Len(accepted[a]) \in Nat
         /\ \/ accepted' = accepted
            \/ /\ Len(accepted'[b]) = Len(accepted[b]) + 1
               /\ \A a \in Agents \ {b} : accepted'[a] = accepted[a]
<1>1. accepted \in [Agents -> Seq(CallRecord)] BY DEF TypeOK, CallRecord
<1>2. \A a \in Agents : Len(accepted[a]) \in Nat BY <1>1, LenProperties
<1>3. PICK w : Refuse(b, w, limit) \/ Accept(b, w, limit) BY DEF Check
<1>4. CASE Refuse(b, w, limit) BY <1>2, <1>4 DEF Refuse
<1>5. CASE Accept(b, w, limit)
  <2>1. PICK c : c = [at |-> now, limit |-> limit]
    OBVIOUS
  <2>2. accepted' = [accepted EXCEPT ![b] = Append(accepted[b], c)]
    BY <1>5, <2>1 DEF Accept
  <2>3. c \in CallRecord BY <2>1 DEF CallRecord, TypeOK
  <2>4. accepted'[b] = Append(accepted[b], c) BY <1>1, <2>2
  <2>5. Len(accepted'[b]) = Len(accepted[b]) + 1
    BY <1>1, <2>3, <2>4, AppendProperties
  <2>6. \A a \in Agents \ {b} : accepted'[a] = accepted[a] BY <1>1, <2>2
  <2> QED BY <1>2, <2>5, <2>6
<1> QED BY <1>3, <1>4, <1>5

\* The agent of a node that is admitted is checked with a limit of the limiter's.
LEMMA AdmitChecks ==
  ASSUME NodesInv, NEW r \in Runs, Admit(r)
  PROVE  /\ Agent(r) \in Agents
         /\ Limited(r) => Set(r).limit \in Limits /\ Check(Agent(r), Set(r).limit)
         /\ ~Limited(r) => UNCHANGED vars
<1>1. NodesTypeOK /\ Placed(r) /\ step[r] = "ready" /\ Kind(r) = "agent"
  BY DEF NodesInv, RunOK, Admit
<1>2. Agent(r) \in Agents /\ Set(r).limit \in Limits \cup {0} BY <1>1, AtAgent
<1>3. Limited(r) => Set(r).limit # 0 BY DEF Limited
<1> QED BY <1>2, <1>3 DEF Admit

LEMMA AdmitKeeps ==
  ASSUME NodesInv, TypeOK, NEW r \in Runs, Admit(r)
  PROVE  NodesInv'
<1>1. NodesTypeOK /\ RunOK(r) BY DEF NodesInv
<1>2. PICK st : st = IF Limited(r) /\ accepted' = accepted THEN "failed"
                     ELSE IF Restricted(r) /\ Input(r).topic THEN "replied" ELSE "calling"
  OBVIOUS
<1>3. /\ step[r] = "ready" /\ step' = [step EXCEPT ![r] = st] /\ Kind(r) = "agent"
      /\ reply' = [reply EXCEPT ![r] = [topic |-> FALSE, tokens |-> 0]]
      /\ UNCHANGED <<plan, agents, loaded, node, turns, said, usage, events, untold,
                     messages, faults>>
  BY <1>2 DEF Admit, Goto, NoReply
<1>4. st \in {"failed", "replied", "calling"}
  BY <1>2
<1>5. /\ step \in [Runs -> Steps] /\ faults \in Nat
      /\ reply \in [Runs -> [topic : BOOLEAN, tokens : Nat]]
  BY <1>1 DEF NodesTypeOK
<1>6. /\ step'[r] = st /\ reply'[r] = [topic |-> FALSE, tokens |-> 0]
      /\ \A q \in Runs \ {r} : Same(q)
  BY <1>3, <1>5 DEF Same
<1>7. NodesTypeOK'
  <2>1. step' \in [Runs -> Steps] BY <1>3, <1>4, <1>5 DEF Steps
  <2>2. reply' \in [Runs -> [topic : BOOLEAN, tokens : Nat]] BY <1>3, <1>5
  <2> QED BY <1>1, <1>3, <2>1, <2>2, CountsTyped DEF NodesTypeOK
<1>8. /\ node[r] \in Nodes(r) /\ turns[r][node[r]] = 0 /\ node[r] \in Nat
      /\ Agent(r) \in Agents
  <2>1. /\ node[r] \in Nodes(r) /\ node[r] \in Nat /\ Agent(r) \in Agents
    BY <1>1, <1>3, AtNode, AtAgent DEF RunOK
  <2> QED BY <1>1, <1>3, <2>1 DEF RunOK, Counted
<1>9. RunOK(r)'
  <2>1. Placed(r)' BY <1>1, <1>3, <1>4, <1>6 DEF RunOK, Placed, Kind
  <2>2. Counted(r)'
    <3>1. \A k \in Nodes(r) :
             /\ k > node[r] => turns[r][k] = 0
             /\ k >= node[r] => untold[r][k] = 0
      BY <1>1 DEF RunOK, Counted
    <3>2. \A k \in 1..node[r]-1 : CountOK(r, k, events[r][k], untold[r][k], turns[r][k])'
      BY <1>1, <1>3, CountKept DEF RunOK, Counted
    <3>3. usage[r] = Total(events[r], node[r] - 1) + Total(untold[r], node[r] - 1)
      BY <1>1 DEF RunOK, Counted
    <3>4. st # "new" /\ st # "ready" /\ st # "saving" BY <1>4
    <3>5. CountOK(r, node[r], 0, 0, turns[r][node[r]])'
      <4>1. CountOK(r, node[r], 0, 0, 0) BY <1>3 DEF CountOK, Kind
      <4> QED BY <1>3, <1>8, <4>1, CountKept
    <3>6. reply'[r].tokens = 0 BY <1>6
    <3>7. node' = node /\ turns' = turns /\ events' = events /\ untold' = untold
          /\ usage' = usage /\ plan' = plan
      BY <1>3
    <3> QED BY <1>6, <1>8, <3>1, <3>2, <3>3, <3>4, <3>5, <3>6, <3>7 DEF Counted, Nodes
  <2>3. Guarded(r)'
    <3> SUFFICES ASSUME NEW k \in Nodes(r), NEW a \in loaded[r], Calls(r, k)',
                        Executes(r, k, a), Settings[<<r, a>>].restricted,
                        NEW i \in LastBefore(r, k)
                 PROVE  ~said[r][i].topic
      BY <1>3 DEF Guarded, Nodes, Executes, LastBefore
    <3>1. CASE turns[r][k] > 0
      BY <1>1, <3>1 DEF RunOK, Guarded, Calls
    <3>2. CASE k = node[r] /\ st = "calling"
      <4>1. Restricted(r) BY <3>2 DEF Restricted, Known, Set, Agent, Executes
      <4>2. ~Input(r).topic BY <1>2, <3>2, <4>1
      <4>3. Input(r) = said[r][i] BY <1>1, <3>2, InputIsLast DEF RunOK
      <4> QED BY <4>2, <4>3
    <3> QED BY <1>3, <1>6, <3>1, <3>2 DEF Calls
  <2>4. Ordered(r)' /\ Transcribed(r)' BY <1>1, <1>3, SameSession
  <2> QED BY <2>1, <2>2, <2>3, <2>4 DEF RunOK
<1>10. ASSUME NEW a \in Agents PROVE ChargeOK(a)'
  <2>1. ChargeOK(a) BY DEF NodesInv
  <2>2. ASSUME NEW q \in Runs, NEW k \in Nodes(q), Admitted(a, q, k)', ~Admitted(a, q, k)
        PROVE  q = r /\ k = node[r] /\ st = "calling" /\ a = Agent(r) /\ Limited(r)
    <3>1. q = r
      <4>1. SUFFICES ASSUME q # r PROVE FALSE
        OBVIOUS
      <4>2. Same(q) BY <1>6, <4>1
      <4> QED BY <2>2, <4>2 DEF Admitted, Calls, Executes, Same
    <3>2. /\ Calls(r, k)' /\ ~Calls(r, k) /\ plan[r][k].agent = a
          /\ a \in loaded[r] /\ Settings[<<r, a>>].limit > 0
      BY <1>3, <2>2, <3>1 DEF Admitted, Executes
    <3>3. k = node[r] /\ st = "calling" BY <1>3, <1>6, <3>2 DEF Calls
    <3> QED BY <3>1, <3>2, <3>3 DEF Limited, Known, Set, Agent
  <2>3. CASE accepted' = accepted
    <3>1. ~(st = "calling" /\ Limited(r)) BY <1>2, <2>3
    <3> QED BY <1>3, <2>1, <2>2, <2>3, <3>1, ChargeKept
  <2>4. CASE accepted' # accepted
    <3>1. Limited(r) BY <2>4, AdmitChecks DEF vars
    <3>2. Set(r).limit \in Limits /\ Check(Agent(r), Set(r).limit) BY <3>1, AdmitChecks
    <3>3. /\ \A b \in Agents : Len(accepted[b]) \in Nat
          /\ Len(accepted'[Agent(r)]) = Len(accepted[Agent(r)]) + 1
          /\ \A b \in Agents \ {Agent(r)} : accepted'[b] = accepted[b]
      BY <1>8, <2>4, <3>2, CheckAccepts
    <3>4. CASE a = Agent(r)
      <4>1. Len(accepted'[a]) = Len(accepted[a]) + 1 BY <3>3, <3>4
      <4> QED BY <1>3, <2>1, <2>2, <4>1, ChargeAdded
    <3>5. CASE a # Agent(r)
      <4>1. accepted'[a] = accepted[a] BY <3>3, <3>5
      <4>2. \A q \in Runs : \A k \in Nodes(q) : Admitted(a, q, k)' => Admitted(a, q, k)
        BY <2>2, <3>5
      <4> QED BY <1>3, <2>1, <4>1, <4>2, ChargeKept
    <3> QED BY <3>4, <3>5
  <2> QED BY <2>3, <2>4
<1>11. faults' >= faults BY <1>3, <1>5
<1> QED BY <1>6, <1>7, <1>9, <1>10, <1>11, OneRun

LEMMA CallKeeps ==
  ASSUME NodesInv, TypeOK, NEW r \in Runs, Call(r)
  PROVE  NodesInv'
<1>1. NodesTypeOK /\ RunOK(r) BY DEF NodesInv
<1>2. PICK n, tr : n = node[r] /\ tr = [turns[r] EXCEPT ![n] = @ + 1]
  OBVIOUS
<1>3. /\ step[r] = "calling" /\ turns' = [turns EXCEPT ![r] = tr]
      /\ UNCHANGED <<vars, plan, agents, loaded, node, said, usage, events, untold,
                     messages, faults>>
  BY <1>2 DEF Call
<1>4. /\ n \in Nodes(r) /\ n \in Nat /\ Len(plan[r]) \in Nat
  BY <1>1, <1>2, <1>3, AtNode, PlanTyped DEF RunOK
<1>5. /\ \A k \in Nodes(r) : turns[r][k] \in Nat /\ tr[k] \in Nat /\ tr[k] >= turns[r][k]
      /\ \A k \in Nodes(r) \ {n} : tr[k] = turns[r][k]
      /\ tr[n] = turns[r][n] + 1 /\ tr = [k \in Nodes(r) |-> tr[k]]
  <2>1. turns[r] = [k \in Nodes(r) |-> turns[r][k]] BY <1>1 DEF NodesTypeOK
  <2>2. \A k \in Nodes(r) : turns[r][k] \in Nat BY <1>1 DEF NodesTypeOK
  <2>3. tr = [k \in Nodes(r) |-> IF k = n THEN turns[r][n] + 1 ELSE turns[r][k]]
    BY <1>2, <1>4, <2>1
  <2>4. turns[r][n] \in Nat BY <1>4, <2>2
  <2>5. tr[n] = turns[r][n] + 1 BY <1>4, <2>3
  <2>6. \A k \in Nodes(r) \ {n} : tr[k] = turns[r][k] BY <2>3
  <2>7. tr = [k \in Nodes(r) |-> tr[k]] BY <2>3
  <2> QED BY <2>2, <2>4, <2>5, <2>6, <2>7
<1>6. PICK st, rep :
         /\ step' = [step EXCEPT ![r] = st] /\ reply' = [reply EXCEPT ![r] = rep]
         /\ rep \in [topic : BOOLEAN, tokens : Nat]
         /\ \/ st = "calling" /\ Tools(r)
            \/ /\ st = "replied" /\ rep.tokens <= 1
               /\ ~Tools(r) => rep.tokens = 1
  <2>1. CASE Tools(r) /\ step' = step /\ reply' = reply
    <3>1. step' = [step EXCEPT ![r] = step[r]] /\ reply' = [reply EXCEPT ![r] = reply[r]]
      BY <1>1, <2>1 DEF NodesTypeOK
    <3>2. reply[r] \in [topic : BOOLEAN, tokens : Nat] BY <1>1 DEF NodesTypeOK
    <3> QED BY <1>3, <2>1, <3>1, <3>2
  <2>2. ASSUME NEW topic \in BOOLEAN, NEW tokens \in IF Tools(r) THEN 0..1 ELSE {1},
               reply' = [reply EXCEPT ![r] = [topic |-> topic, tokens |-> tokens]],
               step' = [step EXCEPT ![r] = "replied"]
        PROVE  \E st, rep :
                  /\ step' = [step EXCEPT ![r] = st] /\ reply' = [reply EXCEPT ![r] = rep]
                  /\ rep \in [topic : BOOLEAN, tokens : Nat]
                  /\ st = "replied" /\ rep.tokens <= 1
                  /\ ~Tools(r) => rep.tokens = 1
    <3>1. PICK rep : rep = [topic |-> topic, tokens |-> tokens]
      OBVIOUS
    <3>2. tokens \in Nat /\ tokens <= 1 /\ (~Tools(r) => tokens = 1) BY <2>2
    <3>3. rep \in [topic : BOOLEAN, tokens : Nat] /\ rep.tokens = tokens BY <3>1, <3>2
    <3>4. reply' = [reply EXCEPT ![r] = rep] BY <2>2, <3>1
    <3> QED BY <2>2, <3>2, <3>3, <3>4
  <2>3. \/ Tools(r) /\ step' = step /\ reply' = reply
        \/ \E topic \in BOOLEAN, tokens \in IF Tools(r) THEN 0..1 ELSE {1} :
              /\ reply' = [reply EXCEPT ![r] = [topic |-> topic, tokens |-> tokens]]
              /\ step' = [step EXCEPT ![r] = "replied"]
    BY DEF Call, Goto
  <2> QED BY <2>1, <2>2, <2>3
<1>7. /\ Kind(r) = "agent" /\ (HasTools(r, n) <=> Tools(r))
      /\ ~Tools(r) => turns[r][n] = 0
  <2>1. Kind(r) = "agent" BY <1>1, <1>3 DEF RunOK, Placed
  <2>2. HasTools(r, n) <=> Tools(r) BY <1>1, <1>2, <1>3, <2>1, AtAgent DEF RunOK
  <2>3. ~Tools(r) => turns[r][n] = 0 BY <1>1, <1>2, <1>3 DEF RunOK, Counted
  <2> QED BY <2>1, <2>2, <2>3
<1>8. /\ step \in [Runs -> Steps] /\ faults \in Nat
      /\ reply \in [Runs -> [topic : BOOLEAN, tokens : Nat]]
      /\ turns = [q \in Runs |-> [k \in Nodes(q) |-> turns[q][k]]]
  BY <1>1 DEF NodesTypeOK
<1>9. /\ step'[r] = st /\ reply'[r] = rep /\ turns'[r] = tr
      /\ \A q \in Runs \ {r} : turns'[q] = turns[q]
      /\ turns' = [q \in Runs |-> turns'[q]]
  BY <1>3, <1>6, <1>8
<1>10. \A q \in Runs \ {r} : Same(q)
  BY <1>3, <1>6, <1>8, <1>9 DEF Same
<1>11. NodesTypeOK'
  <2>1. st \in Steps BY <1>6 DEF Steps
  <2>2. step' \in [Runs -> Steps] BY <1>6, <1>8, <2>1
  <2>3. reply' \in [Runs -> [topic : BOOLEAN, tokens : Nat]] BY <1>6, <1>8
  <2>4. \A q \in Runs : turns'[q] = [k \in Nodes(q) |-> turns'[q][k]]
    BY <1>5, <1>8, <1>9
  <2>5. turns' = [q \in Runs |-> [k \in Nodes(q) |-> turns'[q][k]]]
    BY <1>9, <2>4
  <2>6. \A q \in Runs : \A k \in Nodes(q) : turns'[q][k] \in Nat
    <3> TAKE q \in Runs
    <3>1. CASE q = r BY <1>5, <1>9, <3>1
    <3>2. CASE q # r BY <1>1, <1>9, <3>2 DEF NodesTypeOK
    <3> QED BY <3>1, <3>2
  <2>7. /\ untold' = [q \in Runs |-> [k \in Nodes(q) |-> untold'[q][k]]]
        /\ \A q \in Runs : \A k \in Nodes(q) : untold'[q][k] \in Nat
    BY <1>1, <1>3 DEF NodesTypeOK
  <2>8. /\ turns' = [q \in Runs |-> [k \in Nodes(q)' |-> turns'[q][k]]]
        /\ \A q \in Runs : \A k \in Nodes(q)' : turns'[q][k] \in Nat
        /\ untold' = [q \in Runs |-> [k \in Nodes(q)' |-> untold'[q][k]]]
        /\ \A q \in Runs : \A k \in Nodes(q)' : untold'[q][k] \in Nat
    BY <1>3, <2>5, <2>6, <2>7 DEF Nodes
  <2>9. /\ plan' \in Plans /\ agents' \in SUBSET Agents /\ loaded' \in [Runs -> SUBSET Agents]
        /\ node' \in [Runs -> Nat \ {0}] /\ usage' \in [Runs -> Nat]
        /\ said' \in [Runs -> Seq([by : Nat, topic : BOOLEAN])]
        /\ events' \in [Runs -> Seq(Nat)] /\ messages' \in [Runs -> Seq(SessionCommit)]
        /\ faults' \in Nat
    BY <1>1, <1>3 DEF NodesTypeOK
  <2> QED BY <2>2, <2>3, <2>8, <2>9 DEF NodesTypeOK
<1>12. \A k \in Nodes(r) : Calls(r, k)' => Calls(r, k)
  <2> SUFFICES ASSUME NEW k \in Nodes(r), k # n, Calls(r, k)' PROVE Calls(r, k)
    BY <1>2, <1>3 DEF Calls
  <2>1. turns'[r][k] = turns[r][k] BY <1>5, <1>9
  <2> QED BY <1>2, <1>3, <2>1 DEF Calls
<1>13. RunOK(r)'
  <2>1. Placed(r)' BY <1>1, <1>3, <1>6, <1>7, <1>9 DEF RunOK, Placed, Kind
  <2>2. Counted(r)'
    <3>1. ASSUME NEW k \in Nodes(r)
          PROVE  (k > n => tr[k] = 0) /\ (k >= n => untold[r][k] = 0)
      <4>1. /\ k > n => turns[r][k] = 0
            /\ k >= n => untold[r][k] = 0
        BY <1>1, <1>2 DEF RunOK, Counted
      <4>2. k > n => k # n BY <1>4 DEF Nodes
      <4>3. k # n => tr[k] = turns[r][k] BY <1>5
      <4> QED BY <4>1, <4>2, <4>3
    <3>2. ASSUME NEW k \in 1..n-1
          PROVE  CountOK(r, k, events[r][k], untold[r][k], tr[k])'
      <4>1. k \in Nodes(r) \ {n} BY <1>4 DEF Nodes
      <4>2. tr[k] = turns[r][k] BY <1>5, <4>1
      <4>3. CountOK(r, k, events[r][k], untold[r][k], tr[k])
        BY <1>1, <1>2, <4>2 DEF RunOK, Counted
      <4> QED BY <1>3, <4>3, CountKept
    <3>3. st = "replied" => CountOK(r, n, rep.tokens, 0, tr[n])'
      <4> SUFFICES ASSUME st = "replied" PROVE CountOK(r, n, rep.tokens, 0, tr[n])
        BY <1>3, CountKept
      <4>1. /\ rep.tokens \in Nat /\ rep.tokens <= 1 /\ (~Tools(r) => rep.tokens = 1)
        BY <1>6
      <4>2. turns[r][n] \in Nat /\ tr[n] = turns[r][n] + 1 BY <1>4, <1>5
      <4>3. rep.tokens + 0 <= tr[n] /\ (~Tools(r) => rep.tokens = tr[n])
        BY <1>7, <4>1, <4>2
      <4> QED BY <1>2, <1>7, <4>3 DEF CountOK, Kind
    <3>4. usage[r] = Total(events[r], n - 1) + Total(untold[r], n - 1)
      BY <1>1, <1>2 DEF RunOK, Counted
    <3>5. /\ st # "new" /\ st # "ready" /\ st # "saving"
          /\ st = "calling" => Tools(r)
      BY <1>6
    <3>6. Tools(r)' = Tools(r) BY <1>3 DEF Tools, Known, Agent, Set
    <3>7. /\ node'[r] = n /\ events'[r] = events[r] /\ untold'[r] = untold[r]
          /\ usage'[r] = usage[r] /\ Nodes(r)' = Nodes(r)
      BY <1>2, <1>3 DEF Nodes
    <3> QED BY <1>9, <3>1, <3>2, <3>3, <3>4, <3>5, <3>6, <3>7 DEF Counted
  <2>3. Guarded(r)'
    BY <1>1, <1>3, <1>12 DEF RunOK, Guarded, Executes, LastBefore, Nodes
  <2>4. Ordered(r)' /\ Transcribed(r)' BY <1>1, <1>3, SameSession
  <2> QED BY <2>1, <2>2, <2>3, <2>4 DEF RunOK
<1>14. \A a \in Agents : ChargeOK(a)'
  <2>1. accepted' = accepted /\ loaded' = loaded BY <1>3 DEF vars
  <2> QED BY <1>3, <1>10, <1>12, <2>1, NoNewCall
<1>15. faults' >= faults BY <1>3, <1>8
<1> QED BY <1>10, <1>11, <1>13, <1>14, <1>15, OneRun

LEMMA AnnounceKeeps ==
  ASSUME NodesInv, TypeOK, NEW r \in Runs, Announce(r)
  PROVE  NodesInv'
<1>1. NodesTypeOK /\ RunOK(r) BY DEF NodesInv
<1>2. PICK n, ev : n = node[r] /\ ev = Append(events[r], reply[r].tokens)
  OBVIOUS
<1>3. /\ step[r] = "replied" /\ step' = [step EXCEPT ![r] = "saving"]
      /\ events' = [events EXCEPT ![r] = ev]
      /\ UNCHANGED <<vars, plan, agents, loaded, node, turns, reply, said, usage,
                     untold, messages, faults>>
  BY <1>2 DEF Announce, Goto
<1>4. n \in Nodes(r) /\ n \in Nat /\ n > 0 /\ Len(plan[r]) \in Nat
  BY <1>1, <1>2, <1>3, AtNode, PlanTyped DEF RunOK
<1>5. /\ events[r] \in Seq(Nat) /\ reply[r].tokens \in Nat /\ Len(events[r]) = n - 1
  BY <1>1, <1>2, <1>3, SaidTyped DEF RunOK, Placed
<1>6. /\ ev \in Seq(Nat) /\ Len(ev) = n /\ ev[n] = reply[r].tokens
      /\ \A k \in 1..n-1 : ev[k] = events[r][k]
  BY <1>2, <1>4, <1>5, AppendProperties
<1>7. step \in [Runs -> Steps] /\ faults \in Nat /\ events \in [Runs -> Seq(Nat)]
  BY <1>1 DEF NodesTypeOK
<1>8. step'[r] = "saving" /\ events'[r] = ev /\ \A q \in Runs \ {r} : Same(q)
  BY <1>3, <1>7 DEF Same
<1>9. NodesTypeOK'
  <2>1. step' \in [Runs -> Steps] BY <1>3, <1>7 DEF Steps
  <2>2. events' \in [Runs -> Seq(Nat)] BY <1>3, <1>6, <1>7
  <2> QED BY <1>1, <1>3, <2>1, <2>2, CountsTyped DEF NodesTypeOK
<1>10. \A k \in Nodes(r) : Calls(r, k)' => Calls(r, k)
  BY <1>3, <1>8 DEF Calls
<1>11. RunOK(r)'
  <2>1. Placed(r)'
    <3>1. Kind(r)' = "agent" BY <1>1, <1>3 DEF RunOK, Placed, Kind
    <3> QED BY <1>1, <1>2, <1>3, <1>6, <1>8, <3>1 DEF RunOK, Placed
  <2>2. Counted(r)'
    <3>1. \A k \in Nodes(r) :
             /\ k > n => turns[r][k] = 0
             /\ k >= n => untold[r][k] = 0
      BY <1>1, <1>2 DEF RunOK, Counted
    <3>2. ASSUME NEW k \in 1..n-1
          PROVE  CountOK(r, k, ev[k], untold[r][k], turns[r][k])'
      <4>1. CountOK(r, k, ev[k], untold[r][k], turns[r][k])
        BY <1>1, <1>2, <1>6 DEF RunOK, Counted
      <4> QED BY <1>3, <4>1, CountKept
    <3>3. CountOK(r, n, reply[r].tokens, 0, turns[r][n])'
      <4>1. CountOK(r, n, reply[r].tokens, 0, turns[r][n])
        BY <1>1, <1>2, <1>3 DEF RunOK, Counted
      <4> QED BY <1>3, <4>1, CountKept
    <3>4. usage[r] = Total(ev, n - 1) + Total(untold[r], n - 1)
      <4>1. n - 1 \in Nat /\ \A k \in 1..n-1 : events[r][k] = ev[k] BY <1>4, <1>6
      <4>2. Total(events[r], n - 1) = Total(ev, n - 1) BY <4>1, TotalAgrees
      <4> QED BY <1>1, <1>2, <4>2 DEF RunOK, Counted
    <3>5. /\ node'[r] = n /\ turns'[r] = turns[r] /\ untold'[r] = untold[r]
          /\ reply'[r] = reply[r] /\ usage'[r] = usage[r] /\ Nodes(r)' = Nodes(r)
      BY <1>2, <1>3 DEF Nodes
    <3> QED BY <1>6, <1>8, <3>1, <3>2, <3>3, <3>4, <3>5 DEF Counted
  <2>3. Guarded(r)'
    BY <1>1, <1>3, <1>10 DEF RunOK, Guarded, Executes, LastBefore, Nodes
  <2>4. Ordered(r)' /\ Transcribed(r)' BY <1>1, <1>3, SameSession
  <2> QED BY <2>1, <2>2, <2>3, <2>4 DEF RunOK
<1>12. \A a \in Agents : ChargeOK(a)'
  <2>1. accepted' = accepted /\ loaded' = loaded BY <1>3 DEF vars
  <2> QED BY <1>3, <1>8, <1>10, <2>1, NoNewCall
<1>13. faults' >= faults BY <1>3, <1>7
<1> QED BY <1>8, <1>9, <1>11, <1>12, <1>13, OneRun

\* The rows of a node have the right sources: the user's row is its input.
LEMMA RowsOfNode ==
  ASSUME NodesTypeOK, NEW r \in Runs, Placed(r), step[r] = "saving"
  PROVE  /\ Rows(r) \in SUBSET SessionRow /\ Rows(r) # {}
         /\ \A row \in Rows(r) : Sourced(r, row, node[r])
<1>1. /\ node[r] \in Nodes(r) /\ node[r] \in Nat /\ node[r] > 0
      /\ plan[r][node[r]].kind = "agent"
  BY AtNode DEF Placed, Kind
<1>2. /\ \A i \in LastBefore(r, node[r]) : Input(r).by = said[r][i].by
      /\ LastBefore(r, node[r]) = {} => Input(r).by = 0
      /\ Input(r).by \in Nat
  <2>1. /\ \A i \in LastBefore(r, node[r]) : Input(r) = said[r][i]
        /\ LastBefore(r, node[r]) = {} => Input(r).by = 0
    BY InputIsLast
  <2>2. ASSUME NEW i \in LastBefore(r, node[r]) PROVE said[r][i].by \in Nat
    <3>1. i \in 1..Len(said[r]) /\ said[r] \in Seq([by : Nat, topic : BOOLEAN])
      BY SaidTyped DEF LastBefore
    <3>2. said[r][i] \in [by : Nat, topic : BOOLEAN] BY <3>1, ElementOfSeq
    <3> QED BY <3>2
  <2>3. CASE LastBefore(r, node[r]) = {} BY <2>1, <2>3
  <2>4. CASE LastBefore(r, node[r]) # {}
    <3>1. PICK i \in LastBefore(r, node[r]) : TRUE BY <2>4
    <3>2. Input(r).by = said[r][i].by BY <2>1
    <3> QED BY <2>1, <2>2, <3>2
  <2> QED BY <2>3, <2>4
<1>3. Destination(r) \in {"display"} \cup Agents
  <2>1. ASSUME plan[r][node[r]].direct PROVE plan[r][node[r] + 1].agent \in Agents
    <3>1. node[r] + 1 \in Nodes(r) /\ plan[r][node[r] + 1].kind = "agent"
      BY <1>1, <2>1, PlanTyped
    <3> QED BY <3>1, PlanTyped
  <2> QED BY <2>1 DEF Destination
<1>4. Rows(r) \subseteq {Row("agent", node[r], Destination(r)), Row("user", Input(r).by, "none"),
                         Row("system", -1, "none"), Row("assistant", node[r], "agent"),
                         Row("tool", -1, "agent")}
  BY DEF Rows
<1>5. Row("agent", node[r], Destination(r)) \in Rows(r) BY DEF Rows
<1>6. ASSUME NEW row \in Rows(r) PROVE row \in SessionRow /\ Sourced(r, row, node[r])
  <2>1. CASE row = Row("agent", node[r], Destination(r))
    BY <1>1, <1>3, <2>1 DEF Row, SessionRow, Sourced
  <2>2. CASE row = Row("user", Input(r).by, "none")
    BY <1>1, <1>2, <2>2 DEF Row, SessionRow, Sourced
  <2>3. CASE row = Row("system", -1, "none")
    BY <2>3 DEF Row, SessionRow, Sourced
  <2>4. CASE row = Row("assistant", node[r], "agent")
    BY <1>1, <2>4 DEF Row, SessionRow, Sourced
  <2>5. CASE row = Row("tool", -1, "agent")
    BY <2>5 DEF Row, SessionRow, Sourced
  <2> QED BY <1>4, <2>1, <2>2, <2>3, <2>4, <2>5
<1> QED BY <1>5, <1>6

\* What a node that is over or just ends says changes the sources of no row.
LEMMA SourcesKept ==
  ASSUME NodesTypeOK, NEW r \in Runs, NEW k \in Nat, NEW n \in Nat, k <= n,
         \/ said'[r] = said[r]
         \/ \E topic \in BOOLEAN : said'[r] = Append(said[r], [by |-> n, topic |-> topic]),
         NEW row, Sourced(r, row, k)
  PROVE  Sourced(r, row, k)'
<1>1. /\ LastBefore(r, k)' = LastBefore(r, k)
      /\ \A i \in LastBefore(r, k) : said'[r][i] = said[r][i]
  BY LastBeforeKept
<1> QED BY <1>1 DEF Sourced

\* A node's commit is the last one of its session; a node that commits nothing has
\* lost its agent, or is paid for by a fault.
LEMMA SaveSession ==
  ASSUME NodesTypeOK, NEW r \in Runs, RunOK(r), Save(r)
  PROVE  /\ messages'[r] \in Seq(SessionCommit)
         /\ \A q \in Runs \ {r} : messages'[q] = messages[q]
         /\ messages' = [q \in Runs |-> messages'[q]]
         /\ faults' \in Nat /\ faults' >= faults
         /\ Ordered(r)' /\ Transcribed(r)'
<1>1. PICK n, m, c : n = node[r] /\ m = messages[r] /\ c = Commit(n, Rows(r))
  OBVIOUS
<1>2. /\ m \in Seq(SessionCommit) /\ Len(m) \in Nat /\ DOMAIN m = 1..Len(m)
      /\ n \in Nat /\ n > 0 /\ faults \in Nat
      /\ messages \in [Runs -> Seq(SessionCommit)]
  BY <1>1, SaidTyped DEF NodesTypeOK
<1>3. /\ step[r] = "saving" /\ plan' = plan /\ agents' = agents
      /\ node' = [node EXCEPT ![r] = @ + 1]
  BY DEF Save, Return
<1>4. /\ node'[r] = n + 1 /\ plan[r][n].kind = "agent"
      /\ \E topic \in BOOLEAN : said'[r] = Append(said[r], [by |-> n, topic |-> topic])
  <2>1. node'[r] = n + 1 BY <1>1, <1>3 DEF NodesTypeOK
  <2>2. plan[r][n].kind = "agent" BY <1>1, <1>3 DEF RunOK, Placed, Kind
  <2>3. said'[r] = Append(said[r], [by |-> n, topic |-> reply[r].topic])
    BY <1>1 DEF Save, Return, Text, NodesTypeOK
  <2>4. reply[r].topic \in BOOLEAN BY SaidTyped
  <2> QED BY <2>1, <2>2, <2>3, <2>4
<1>5. /\ c.node = n /\ c.rows = Rows(r) /\ c \in SessionCommit /\ c.rows # {}
      /\ \A row \in c.rows : Sourced(r, row, n)'
  <2>1. /\ Rows(r) \in SUBSET SessionRow /\ Rows(r) # {}
        /\ \A row \in Rows(r) : Sourced(r, row, n)
    BY <1>1, <1>3, RowsOfNode DEF RunOK
  <2>2. c = [node |-> n, rows |-> Rows(r)] BY <1>1 DEF Commit
  <2>3. n \in Nat /\ n <= n BY <1>2
  <2>4. \A row \in Rows(r) : Sourced(r, row, n)' BY <1>4, <2>1, <2>3, SourcesKept
  <2> QED BY <1>2, <2>1, <2>2, <2>4 DEF SessionCommit
<1>6. /\ \A i \in 1..Len(m) : m[i].node \in 1..n-1 /\ plan[r][m[i].node].kind = "agent"
      /\ \A i, j \in 1..Len(m) : i < j => m[i].node < m[j].node
      /\ \A i \in 1..Len(m) : \A row \in m[i].rows : Sourced(r, row, m[i].node)'
      /\ Cardinality(Missing(r)) <= faults
  <2>1. \A i \in 1..Len(m) : m[i].node \in 1..n-1 /\ plan[r][m[i].node].kind = "agent"
    BY <1>1, <1>2 DEF RunOK, Ordered
  <2>2. ASSUME NEW i \in 1..Len(m), NEW row \in m[i].rows
        PROVE  Sourced(r, row, m[i].node)'
    <3>1. PICK k : k = m[i].node
      OBVIOUS
    <3>2. Sourced(r, row, k) BY <1>1, <1>2, <3>1 DEF RunOK, Transcribed
    <3>3. k \in 1..n-1 BY <2>1, <3>1
    <3>4. k \in Nat /\ k <= n BY <1>2, <3>3
    <3>5. Sourced(r, row, k)' BY <1>2, <1>4, <3>2, <3>4, SourcesKept
    <3> QED BY <1>1, <3>1, <3>5 DEF Sourced, LastBefore
  <2> QED BY <1>1, <1>2, <2>1, <2>2 DEF RunOK, Ordered, Transcribed
<1>7. CASE messages' = [messages EXCEPT ![r] = Append(m, c)] /\ faults' = faults
  <2>1. PICK m2 : m2 = Append(m, c)
    OBVIOUS
  <2>2. /\ m2 \in Seq(SessionCommit) /\ Len(m2) = Len(m) + 1 /\ DOMAIN m2 = 1..Len(m)+1
        /\ m2[Len(m) + 1] = c /\ \A i \in 1..Len(m) : m2[i] = m[i]
    BY <1>2, <1>5, <2>1, AppendProperties
  <2>3. messages'[r] = m2 BY <1>2, <1>7, <2>1
  <2>4. Ordered(r)'
    <3>1. ASSUME NEW i \in 1..Len(m)+1
          PROVE  m2[i].node \in 1..n /\ plan[r][m2[i].node].kind = "agent"
      <4>1. CASE i \in 1..Len(m)
        <5>1. m2[i] = m[i] BY <2>2, <4>1
        <5> QED BY <1>2, <1>6, <4>1, <5>1
      <4>2. CASE i = Len(m) + 1 BY <1>2, <1>4, <1>5, <2>2, <4>2
      <4> QED BY <1>2, <4>1, <4>2
    <3>2. \A i, j \in 1..Len(m)+1 : i < j => m2[i].node < m2[j].node
      <4> SUFFICES ASSUME NEW i \in 1..Len(m)+1, NEW j \in 1..Len(m)+1, i < j
                   PROVE  m2[i].node < m2[j].node
        OBVIOUS
      <4>1. i \in 1..Len(m) /\ m2[i].node \in 1..n-1 BY <1>2, <1>6, <2>2
      <4>2. CASE j \in 1..Len(m) BY <1>6, <2>2, <4>1, <4>2
      <4>3. CASE j = Len(m) + 1
        <5>1. m2[j].node = n BY <1>5, <2>2, <4>3
        <5>2. n \in Nat BY <1>2
        <5>3. m2[i].node < n BY <4>1, <5>2
        <5> QED BY <5>1, <5>3
      <4>4. j \in 1..Len(m) \/ j = Len(m) + 1
        <5>1. Len(m) \in Nat BY <1>2
        <5> QED BY <5>1
      <4> QED BY <4>2, <4>3, <4>4
    <3>3. n = node'[r] - 1 BY <1>2, <1>4
    <3> QED BY <1>3, <2>2, <2>3, <3>1, <3>2, <3>3 DEF Ordered
  <2>5. Transcribed(r)'
    <3>1. ASSUME NEW i \in 1..Len(m)+1, NEW row \in m2[i].rows
          PROVE  Sourced(r, row, m2[i].node)'
      <4>1. CASE i \in 1..Len(m)
        <5>1. m2[i] = m[i] BY <2>2, <4>1
        <5>2. Sourced(r, row, m[i].node)' BY <1>6, <3>1, <4>1, <5>1
        <5> QED BY <1>1, <5>1, <5>2 DEF Sourced, LastBefore
      <4>2. CASE i = Len(m) + 1
        <5>1. m2[i] = c BY <2>2, <4>2
        <5>2. Sourced(r, row, n)' BY <1>5, <3>1, <5>1
        <5>3. m2[i].node = n BY <1>5, <5>1
        <5> QED BY <5>2, <5>3 DEF Sourced, LastBefore
      <4> QED BY <1>2, <4>1, <4>2
    <3>2. Missing(r)' \subseteq Missing(r)
      <4> SUFFICES ASSUME NEW k \in 1..n, \E a \in agents : Executes(r, k, a),
                          \A i \in 1..Len(m)+1 : m2[i].node = k => m2[i].rows = {}
                   PROVE  k \in Missing(r)
        <5>1. 1..node'[r]-1 = 1..n BY <1>2, <1>4
        <5> QED BY <1>3, <2>2, <2>3, <5>1 DEF Missing, Executes
      <4>1. k # n BY <1>2, <1>5, <2>2
      <4>2. k \in 1..node[r]-1 BY <1>1, <1>2, <4>1
      <4>3. \A i \in DOMAIN messages[r] :
               messages[r][i].node = k => messages[r][i].rows = {}
        BY <1>1, <1>2, <2>2
      <4> QED BY <4>2, <4>3 DEF Missing
    <3>3. Cardinality(Missing(r)') <= faults
      <4>1. IsFiniteSet(Missing(r)) /\ Cardinality(Missing(r)) \in Nat BY MissingFinite
      <4>2. /\ IsFiniteSet(Missing(r)')
            /\ Cardinality(Missing(r)') <= Cardinality(Missing(r))
        BY <3>2, <4>1, FS_Subset
      <4>3. Cardinality(Missing(r)') \in Nat BY <4>2, FS_CardinalityType
      <4> QED BY <1>2, <1>6, <4>1, <4>2, <4>3
    <3> QED BY <1>7, <2>2, <2>3, <3>1, <3>3 DEF Transcribed
  <2>6. /\ \A q \in Runs \ {r} : messages'[q] = messages[q]
        /\ messages' = [q \in Runs |-> messages'[q]]
    BY <1>2, <1>7
  <2> QED BY <1>2, <1>7, <2>2, <2>3, <2>4, <2>5, <2>6
<1>8. ASSUME messages' = messages,
             \/ faults' = faults + 1
             \/ faults' = faults /\ Agent(r) \notin agents
      PROVE  Ordered(r)' /\ Transcribed(r)'
  <2>1. Ordered(r)'
    <3>1. \A i \in 1..Len(m) : m[i].node \in 1..n /\ plan[r][m[i].node].kind = "agent"
      BY <1>2, <1>6
    <3>2. n = node'[r] - 1 BY <1>2, <1>4
    <3> QED BY <1>1, <1>2, <1>3, <1>6, <1>8, <3>1, <3>2 DEF Ordered
  <2>2. Cardinality(Missing(r)') <= faults'
    <3>1. PICK A : A = Missing(r)
      OBVIOUS
    <3>2. IsFiniteSet(A) /\ Cardinality(A) \in Nat /\ Cardinality(A) <= faults
      BY <1>6, <3>1, MissingFinite
    <3>3. ASSUME NEW k \in Missing(r)', k # n PROVE k \in A
      <4>1. k \in 1..n BY <1>2, <1>4 DEF Missing
      <4>2. k \in 1..node[r]-1 BY <1>1, <1>2, <3>3, <4>1
      <4> QED BY <1>3, <1>8, <3>1, <4>2 DEF Missing, Executes
    <3>4. CASE faults' = faults + 1
      <4>1. Missing(r)' \subseteq A \cup {n} BY <3>3
      <4>2. /\ IsFiniteSet(A \cup {n})
            /\ \/ Cardinality(A \cup {n}) = Cardinality(A)
               \/ Cardinality(A \cup {n}) = Cardinality(A) + 1
        BY <3>2, FS_AddElement
      <4>3. /\ IsFiniteSet(Missing(r)')
            /\ Cardinality(Missing(r)') <= Cardinality(A \cup {n})
        BY <4>1, <4>2, FS_Subset
      <4>4. Cardinality(Missing(r)') \in Nat BY <4>3, FS_CardinalityType
      <4> QED BY <1>2, <3>2, <3>4, <4>2, <4>3, <4>4
    <3>5. CASE faults' = faults /\ Agent(r) \notin agents
      <4>1. n \notin Missing(r)' BY <1>1, <1>3, <3>5 DEF Missing, Agent, Executes
      <4>2. Missing(r)' \subseteq A BY <3>3, <4>1
      <4>3. IsFiniteSet(Missing(r)') /\ Cardinality(Missing(r)') <= Cardinality(A)
        BY <3>2, <4>2, FS_Subset
      <4>4. Cardinality(Missing(r)') \in Nat BY <4>3, FS_CardinalityType
      <4> QED BY <1>2, <3>2, <3>5, <4>3, <4>4
    <3> QED BY <1>8, <3>4, <3>5
  <2>3. Transcribed(r)'
    <3>1. ASSUME NEW i \in 1..Len(m), NEW row \in m[i].rows
          PROVE  Sourced(r, row, messages[r][i].node)'
      <4>1. Sourced(r, row, m[i].node)' BY <1>6, <3>1
      <4>2. messages'[r] = m BY <1>1, <1>8
      <4> QED BY <4>1, <4>2 DEF Sourced, LastBefore
    <3>2. messages'[r] = m /\ DOMAIN m = 1..Len(m) BY <1>1, <1>2, <1>8
    <3> QED BY <2>2, <3>1, <3>2 DEF Transcribed
  <2> QED BY <2>1, <2>3
<1>9. \/ messages' = [messages EXCEPT ![r] = Append(m, c)] /\ faults' = faults
      \/ messages' = messages /\ faults' = faults + 1
      \/ messages' = messages /\ faults' = faults /\ Agent(r) \notin agents
  BY <1>1 DEF Save
<1>10. CASE messages' = messages /\ (faults' = faults + 1 \/ faults' = faults)
  BY <1>2, <1>8, <1>9, <1>7, <1>10
<1> QED BY <1>7, <1>9, <1>10

\* The end of node n, an agent's or not: it has counted right, and its text is new.
LEMMA ReturnOK ==
  ASSUME NodesTypeOK, NEW r \in Runs, RunOK(r), NEW n \in Nodes(r), n = node[r],
         NEW texts, NEW tokens \in Nat, Return(r, texts, tokens),
         \/ texts = said[r]
         \/ \E topic \in BOOLEAN : texts = Append(said[r], [by |-> n, topic |-> topic]),
         plan' = plan, loaded' = loaded,
         Len(events'[r]) = n, \A k \in 1..n-1 : events'[r][k] = events[r][k],
         \A k \in Nodes(r) \ {n} :
            turns'[r][k] = turns[r][k] /\ untold'[r][k] = untold[r][k],
         turns'[r][n] = turns[r][n] \/ plan[r][n].kind # "agent",
         events'[r][n] \in Nat, untold'[r][n] \in Nat,
         CountOK(r, n, events'[r][n], untold'[r][n], turns'[r][n]),
         tokens = events'[r][n] + untold'[r][n]
  PROVE  /\ Placed(r)' /\ Counted(r)' /\ Guarded(r)'
         /\ \A k \in Nodes(r) :
               Calls(r, k)' /\ plan[r][k].kind = "agent" => turns[r][k] > 0
         /\ step' \in [Runs -> Steps] /\ node' \in [Runs -> Nat \ {0}]
         /\ said' \in [Runs -> Seq([by : Nat, topic : BOOLEAN])]
         /\ usage' \in [Runs -> Nat]
         /\ \A q \in Runs \ {r} :
               /\ step'[q] = step[q] /\ node'[q] = node[q]
               /\ said'[q] = said[q] /\ usage'[q] = usage[q]
<1>1. /\ n \in Nat /\ n > 0 /\ Len(plan[r]) \in Nat /\ n <= Len(plan[r])
      /\ usage[r] \in Nat /\ DOMAIN said[r] = 1..Len(said[r]) /\ Len(said[r]) \in Nat
      /\ said[r] \in Seq([by : Nat, topic : BOOLEAN])
  BY PlanTyped, SaidTyped DEF Nodes
<1>2. PICK st : /\ st = IF n = Len(plan[r]) THEN "done" ELSE "ready"
                /\ st \in {"done", "ready"} /\ (st = "ready" => n # Len(plan[r]))
  <2>1. PICK st : st = IF n = Len(plan[r]) THEN "done" ELSE "ready"
    OBVIOUS
  <2>2. st \in {"done", "ready"} /\ (st = "ready" => n # Len(plan[r])) BY <2>1
  <2> QED BY <2>1, <2>2
<1>3. /\ step' = [step EXCEPT ![r] = st] /\ said' = [said EXCEPT ![r] = texts]
      /\ usage' = [usage EXCEPT ![r] = usage[r] + tokens]
      /\ node' = [node EXCEPT ![r] = n + 1]
  BY <1>2 DEF Return, Goto
<1>4. /\ step \in [Runs -> Steps] /\ node \in [Runs -> Nat \ {0}]
      /\ said \in [Runs -> Seq([by : Nat, topic : BOOLEAN])] /\ usage \in [Runs -> Nat]
  BY DEF NodesTypeOK
<1>5. /\ step'[r] = st /\ said'[r] = texts /\ node'[r] = n + 1
      /\ usage'[r] = usage[r] + tokens
  BY <1>3, <1>4
<1>6. /\ texts \in Seq([by : Nat, topic : BOOLEAN])
      /\ \A i \in DOMAIN texts : texts[i].by < n + 1
  <2>1. \A i \in 1..Len(said[r]) : said[r][i].by \in Nat /\ said[r][i].by < n + 1
    <3> TAKE i \in 1..Len(said[r])
    <3>1. said[r][i] \in [by : Nat, topic : BOOLEAN] BY <1>1, ElementOfSeq
    <3>2. said[r][i].by < n BY <1>1 DEF RunOK, Placed
    <3> QED BY <1>1, <3>1, <3>2, SMTT(30)
  <2>2. CASE texts = said[r] BY <1>1, <2>1, <2>2
  <2>3. ASSUME NEW topic \in BOOLEAN,
               texts = Append(said[r], [by |-> n, topic |-> topic])
        PROVE  /\ texts \in Seq([by : Nat, topic : BOOLEAN])
               /\ \A i \in DOMAIN texts : texts[i].by < n + 1
    <3>1. PICK t : t = [by |-> n, topic |-> topic]
      OBVIOUS
    <3>2. t \in [by : Nat, topic : BOOLEAN] /\ t.by = n BY <1>1, <3>1
    <3>3. texts = Append(said[r], t) BY <2>3, <3>1
    <3>4. /\ texts \in Seq([by : Nat, topic : BOOLEAN])
          /\ DOMAIN texts = 1..Len(said[r])+1 /\ texts[Len(said[r]) + 1] = t
          /\ \A i \in 1..Len(said[r]) : texts[i] = said[r][i]
      BY <1>1, <3>2, <3>3, AppendProperties
    <3>5. ASSUME NEW i \in DOMAIN texts PROVE texts[i].by < n + 1
      <4>1. i \in 1..Len(said[r]) \/ i = Len(said[r]) + 1 BY <1>1, <3>4
      <4>2. CASE i \in 1..Len(said[r]) BY <2>1, <3>4, <4>2
      <4>3. CASE i = Len(said[r]) + 1 BY <1>1, <3>2, <3>4, <4>3
      <4> QED BY <4>1, <4>2, <4>3
    <3> QED BY <3>4, <3>5
  <2> QED BY <2>2, <2>3
<1>7. /\ step' \in [Runs -> Steps] /\ node' \in [Runs -> Nat \ {0}]
      /\ said' \in [Runs -> Seq([by : Nat, topic : BOOLEAN])]
      /\ usage' \in [Runs -> Nat]
  <2>1. step' \in [Runs -> Steps] BY <1>2, <1>3, <1>4 DEF Steps
  <2>2. node' \in [Runs -> Nat \ {0}] BY <1>1, <1>3, <1>4
  <2>3. said' \in [Runs -> Seq([by : Nat, topic : BOOLEAN])] BY <1>3, <1>4, <1>6
  <2>4. usage[r] + tokens \in Nat BY <1>1
  <2>5. usage' \in [Runs -> Nat] BY <1>3, <1>4, <2>4
  <2> QED BY <2>1, <2>2, <2>3, <2>5
<1>8. Placed(r)'
  <2>1. n + 1 <= Len(plan[r]) + 1 /\ (st = "ready" => n + 1 <= Len(plan[r]))
    BY <1>1, <1>2
  <2>2. n + 1 - 1 = n BY <1>1
  <2>3. st # "new" /\ st # "calling" /\ st # "replied" /\ st # "saving" BY <1>2
  <2> QED BY <1>5, <1>6, <2>1, <2>2, <2>3 DEF Placed
<1>9. ASSUME NEW k \in Nodes(r)
      PROVE  /\ k >= n + 1 => turns'[r][k] = 0 /\ untold'[r][k] = 0
             /\ turns[r][k] > 0 => k <= n
  <2>1. k \in Nat BY DEF Nodes
  <2>2. k > n => turns[r][k] = 0 /\ untold[r][k] = 0 BY <1>1, <2>1 DEF RunOK, Counted
  <2>3. k > n => turns'[r][k] = turns[r][k] /\ untold'[r][k] = untold[r][k]
    BY <1>1, <2>1
  <2>4. k >= n + 1 => k > n BY <1>1, <2>1
  <2>5. ~(k > n) => k <= n BY <1>1, <2>1
  <2> QED BY <2>2, <2>3, <2>4, <2>5
<1>10. Counted(r)'
  <2>1. ASSUME NEW k \in 1..n
        PROVE  CountOK(r, k, events[r][k], untold[r][k], turns[r][k])'
    <3>1. CASE k = n
      <4>1. PICK e, u, c : e = events'[r][n] /\ u = untold'[r][n] /\ c = turns'[r][n]
        OBVIOUS
      <4>2. CountOK(r, n, e, u, c)' BY <4>1, CountKept
      <4> QED BY <3>1, <4>1, <4>2 DEF CountOK, HasTools, Executes
    <3>2. CASE k # n
      <4>1. k \in 1..n-1 /\ k \in Nodes(r) \ {n} BY <1>1, <3>2 DEF Nodes
      <4>2. PICK e, u, c : e = events[r][k] /\ u = untold[r][k] /\ c = turns[r][k]
        OBVIOUS
      <4>3. CountOK(r, k, e, u, c) BY <4>1, <4>2 DEF RunOK, Counted
      <4>4. CountOK(r, k, e, u, c)' BY <4>3, CountKept
      <4>5. events'[r][k] = e /\ untold'[r][k] = u /\ turns'[r][k] = c BY <4>1, <4>2
      <4> QED BY <4>4, <4>5 DEF CountOK, HasTools, Executes
    <3> QED BY <3>1, <3>2
  <2>2. usage'[r] = Total(events'[r], n) + Total(untold'[r], n)
    <3>1. PICK e, f, u, v : /\ e = events[r] /\ f = events'[r]
                            /\ u = untold[r] /\ v = untold'[r]
      OBVIOUS
    <3>2. /\ n - 1 \in Nat
          /\ \A k \in 1..n-1 : e[k] = f[k] /\ e[k] \in Nat /\ u[k] = v[k] /\ u[k] \in Nat
      <4>1. n - 1 \in Nat BY <1>1
      <4>2. ASSUME NEW k \in 1..n-1
            PROVE  e[k] = f[k] /\ e[k] \in Nat /\ u[k] = v[k] /\ u[k] \in Nat
        <5>1. k \in Nodes(r) \ {n} BY <1>1 DEF Nodes
        <5>2. u[k] = v[k] /\ e[k] = f[k] BY <3>1, <5>1
        <5>3. u[k] \in Nat BY <3>1, <5>1 DEF NodesTypeOK
        <5>4. e \in Seq(Nat) /\ k \in 1..Len(e)
          <6>1. e \in Seq(Nat) /\ Len(e) \in Nat BY <3>1, SaidTyped
          <6>2. Len(e) >= n - 1 BY <1>1, <3>1 DEF RunOK, Placed
          <6> QED BY <1>1, <6>1, <6>2
        <5>5. e[k] \in Nat BY <5>4, ElementOfSeq
        <5> QED BY <5>2, <5>3, <5>5
      <4> QED BY <4>1, <4>2
    <3>3. Total(e, n - 1) = Total(f, n - 1) /\ Total(u, n - 1) = Total(v, n - 1)
      <4>1. Total(e, n - 1) = Total(f, n - 1) BY <3>2, TotalAgrees
      <4>2. Total(u, n - 1) = Total(v, n - 1) BY <3>2, TotalAgrees
      <4> QED BY <4>1, <4>2
    <3>4. Total(e, n - 1) \in Nat /\ Total(u, n - 1) \in Nat
      <4>1. \A i \in 0..n-1 : Total(e, i) \in Nat BY <3>2, TotalIsNat
      <4>2. \A i \in 0..n-1 : Total(u, i) \in Nat BY <3>2, TotalIsNat
      <4>3. n - 1 \in 0..n-1 BY <3>2
      <4> QED BY <4>1, <4>2, <4>3
    <3>5. Total(f, n) = Total(f, n - 1) + f[n] /\ Total(v, n) = Total(v, n - 1) + v[n]
      BY <1>1, TotalStep
    <3>6. usage[r] = Total(e, n - 1) + Total(u, n - 1) BY <3>1 DEF RunOK, Counted
    <3>7. f[n] \in Nat /\ v[n] \in Nat /\ tokens = f[n] + v[n] BY <3>1
    <3>8. usage[r] + tokens = Total(f, n) + Total(v, n)
      BY <3>3, <3>4, <3>5, <3>6, <3>7
    <3> QED BY <1>5, <3>1, <3>8
  <2>3. n + 1 - 1 = n BY <1>1
  <2>4. step'[r] # "replied" /\ step'[r] # "saving" /\ step'[r] # "calling" BY <1>2, <1>5
  <2>5. \A k \in Nodes(r)' :
           /\ k > node'[r] \/ (k = node'[r] /\ step'[r] \in {"new", "ready"})
                => turns'[r][k] = 0
           /\ k >= node'[r] => untold'[r][k] = 0
    <3>1. Nodes(r)' = Nodes(r) BY DEF Nodes
    <3>2. ASSUME NEW k \in Nodes(r), k > node'[r] \/ k = node'[r]
          PROVE  turns'[r][k] = 0
      <4>1. k \in Nat /\ k >= n + 1 BY <1>1, <1>5, <3>2, SMTT(30) DEF Nodes
      <4> QED BY <1>9, <4>1
    <3>3. ASSUME NEW k \in Nodes(r), k >= node'[r] PROVE untold'[r][k] = 0
      BY <1>5, <1>9, <3>3
    <3> QED BY <3>1, <3>2, <3>3
  <2>6. node'[r] - 1 = n BY <1>5, <2>3
  <2>7. \A k \in 1..(node[r]-1)' : CountOK(r, k, events[r][k], untold[r][k], turns[r][k])'
    BY <2>1, <2>6
  <2>8. (usage[r] = Total(events[r], node[r] - 1) + Total(untold[r], node[r] - 1))'
    BY <2>2, <2>6
  <2> QED BY <2>4, <2>5, <2>7, <2>8 DEF Counted
<1>11. ASSUME NEW k \in Nodes(r), Calls(r, k)', plan[r][k].kind = "agent"
       PROVE  turns[r][k] > 0
  <2>1. turns'[r][k] > 0 BY <1>2, <1>5, <1>11 DEF Calls
  <2>2. turns'[r][k] = turns[r][k] BY <1>11
  <2> QED BY <2>1, <2>2
<1>12. Guarded(r)'
  <2> SUFFICES ASSUME NEW k \in Nodes(r), NEW a \in loaded[r], Calls(r, k)',
                      Executes(r, k, a), Settings[<<r, a>>].restricted,
                      NEW i \in LastBefore(r, k)'
               PROVE  ~said'[r][i].topic
    BY DEF Guarded, Nodes, Executes
  <2>1. turns[r][k] > 0 BY <1>11 DEF Executes
  <2>2. \A j \in LastBefore(r, k) : ~said[r][j].topic
    BY <2>1 DEF RunOK, Guarded, Calls
  <2>3. k \in Nat /\ k <= n BY <1>9, <2>1 DEF Nodes
  <2>4. /\ LastBefore(r, k)' = LastBefore(r, k)
        /\ \A j \in LastBefore(r, k) : said'[r][j] = said[r][j]
    BY <1>1, <1>5, <2>3, LastBeforeKept
  <2> QED BY <2>2, <2>4
<1>13. \A q \in Runs \ {r} :
          /\ step'[q] = step[q] /\ node'[q] = node[q]
          /\ said'[q] = said[q] /\ usage'[q] = usage[q]
  BY <1>3, <1>4
<1> QED BY <1>7, <1>8, <1>10, <1>11, <1>12, <1>13

LEMMA SaveKeeps ==
  ASSUME NodesInv, TypeOK, NEW r \in Runs, Save(r)
  PROVE  NodesInv'
<1>1. NodesTypeOK /\ RunOK(r) BY DEF NodesInv
<1>2. PICK n, tk, sd :
         /\ n = node[r] /\ tk = reply[r].tokens
         /\ sd = Append(said[r], [by |-> n, topic |-> reply[r].topic])
  OBVIOUS
<1>3. /\ step[r] = "saving" /\ Return(r, sd, tk)
      /\ UNCHANGED <<vars, plan, agents, loaded, turns, reply, events, untold>>
  BY <1>2 DEF Save, Text
<1>4. n \in Nodes(r) /\ n \in Nat /\ n > 0 BY <1>1, <1>2, <1>3, AtNode DEF RunOK
<1>5. /\ reply[r].topic \in BOOLEAN /\ tk \in Nat /\ events[r] \in Seq(Nat)
      /\ Len(events[r]) = n /\ events[r][n] = tk /\ untold[r][n] = 0
  <2>1. reply[r].topic \in BOOLEAN /\ tk \in Nat /\ events[r] \in Seq(Nat)
    BY <1>1, <1>2, SaidTyped
  <2>2. Len(events[r]) = n BY <1>1, <1>2, <1>3 DEF RunOK, Placed
  <2>3. events[r][n] = tk BY <1>1, <1>2, <1>3 DEF RunOK, Counted
  <2>4. n >= n BY <1>4
  <2>5. untold[r][n] = 0 BY <1>1, <1>2, <1>4, <2>4 DEF RunOK, Counted
  <2> QED BY <2>1, <2>2, <2>3, <2>5
<1>6. CountOK(r, n, tk, 0, turns[r][n])
  BY <1>1, <1>2, <1>3 DEF RunOK, Counted
<1>7. /\ Placed(r)' /\ Counted(r)' /\ Guarded(r)'
      /\ \A k \in Nodes(r) :
            Calls(r, k)' /\ plan[r][k].kind = "agent" => turns[r][k] > 0
      /\ step' \in [Runs -> Steps] /\ node' \in [Runs -> Nat \ {0}]
      /\ said' \in [Runs -> Seq([by : Nat, topic : BOOLEAN])]
      /\ usage' \in [Runs -> Nat]
      /\ \A q \in Runs \ {r} :
            /\ step'[q] = step[q] /\ node'[q] = node[q]
            /\ said'[q] = said[q] /\ usage'[q] = usage[q]
  <2>1. \E topic \in BOOLEAN : sd = Append(said[r], [by |-> n, topic |-> topic])
    BY <1>2, <1>5
  <2>2. /\ plan' = plan /\ loaded' = loaded
        /\ events'[r] = events[r] /\ turns'[r] = turns[r] /\ untold'[r] = untold[r]
    BY <1>3
  <2>3. tk = tk + 0 BY <1>5
  <2>4. /\ events'[r][n] = tk /\ untold'[r][n] = 0 /\ turns'[r][n] = turns[r][n]
        /\ events'[r][n] \in Nat /\ untold'[r][n] \in Nat
        /\ CountOK(r, n, events'[r][n], untold'[r][n], turns'[r][n])
        /\ tk = events'[r][n] + untold'[r][n]
    BY <1>5, <1>6, <2>2, <2>3
  <2> QED BY <1>1, <1>2, <1>3, <1>4, <1>5, <2>1, <2>2, <2>4, ReturnOK
<1>8. /\ messages'[r] \in Seq(SessionCommit)
      /\ \A q \in Runs \ {r} : messages'[q] = messages[q]
      /\ messages' = [q \in Runs |-> messages'[q]]
      /\ faults' \in Nat /\ faults' >= faults
      /\ Ordered(r)' /\ Transcribed(r)'
  BY <1>1, SaveSession
<1>9. \A q \in Runs \ {r} : Same(q)
  BY <1>3, <1>7, <1>8 DEF Same
<1>10. NodesTypeOK'
  <2>1. messages' \in [Runs -> Seq(SessionCommit)]
    <3>1. \A q \in Runs : messages'[q] \in Seq(SessionCommit)
      BY <1>1, <1>8 DEF NodesTypeOK
    <3> QED BY <1>8, <3>1
  <2>2. /\ plan' \in Plans /\ agents' \in SUBSET Agents
        /\ loaded' \in [Runs -> SUBSET Agents]
        /\ reply' \in [Runs -> [topic : BOOLEAN, tokens : Nat]]
        /\ events' \in [Runs -> Seq(Nat)]
    BY <1>1, <1>3 DEF NodesTypeOK
  <2> QED BY <1>1, <1>3, <1>7, <1>8, <2>1, <2>2, CountsTyped DEF NodesTypeOK
<1>11. \A a \in Agents : ChargeOK(a)'
  <2>1. plan' = plan /\ accepted' = accepted /\ loaded' = loaded BY <1>3 DEF vars
  <2>2. \A k \in Nodes(r) :
           Calls(r, k)' /\ plan[r][k].kind = "agent" => Calls(r, k) /\ loaded'[r] = loaded[r]
    BY <1>7, <2>1 DEF Calls
  <2> QED BY <1>9, <2>1, <2>2, NoNewCall
<1>12. RunOK(r)' BY <1>7, <1>8 DEF RunOK
<1> QED BY <1>8, <1>9, <1>10, <1>11, <1>12, OneRun

\* What Pass and Profile have in common: node n calls the model c times, at most once,
\* and adds at most as many tokens, of which it tells nothing.
LEMMA OtherForm ==
  ASSUME NodesTypeOK, NEW r \in Runs, RunOK(r), Pass(r) \/ Profile(r)
  PROVE  /\ step[r] = "ready" /\ Kind(r) \in {"other", "profiler"}
         /\ events' = [events EXCEPT ![r] = Append(events[r], 0)]
         /\ UNCHANGED <<vars, plan, agents, loaded, reply, messages, faults>>
         /\ \E c \in Nat, tokens \in Nat, texts \in Appended(r) :
               /\ Return(r, texts, tokens) /\ tokens <= c
               /\ turns' = [turns EXCEPT ![r][node[r]] = c]
               /\ untold' = [untold EXCEPT ![r][node[r]] = tokens]
               /\ Kind(r) = "other" => c = 0 /\ tokens = 0
<1>1. step[r] = "ready" /\ Kind(r) \in {"other", "profiler"} BY DEF Pass, Profile
<1>2. /\ events' = [events EXCEPT ![r] = Append(events[r], 0)]
      /\ UNCHANGED <<vars, plan, agents, loaded, reply, messages, faults>>
  BY DEF Pass, Profile
<1>3. /\ turns = [turns EXCEPT ![r][node[r]] = 0]
      /\ untold = [untold EXCEPT ![r][node[r]] = 0]
  <2>1. node[r] \in Nodes(r) /\ node[r] \in Nat BY <1>1, AtNode DEF RunOK
  <2>2. node[r] >= node[r] BY <2>1
  <2>3. turns[r][node[r]] = 0 /\ untold[r][node[r]] = 0
    BY <1>1, <2>1, <2>2 DEF RunOK, Counted
  <2>4. /\ turns = [q \in Runs |-> turns[q]] /\ untold = [q \in Runs |-> untold[q]]
        /\ turns[r] = [k \in Nodes(r) |-> turns[r][k]]
        /\ untold[r] = [k \in Nodes(r) |-> untold[r][k]]
    BY DEF NodesTypeOK
  <2>5. [turns[r] EXCEPT ![node[r]] = 0] = turns[r] BY <2>3, <2>4
  <2>6. [untold[r] EXCEPT ![node[r]] = 0] = untold[r] BY <2>3, <2>4
  <2>7. [turns EXCEPT ![r] = turns[r]] = turns BY <2>4
  <2>8. [untold EXCEPT ![r] = untold[r]] = untold BY <2>4
  <2> QED BY <2>5, <2>6, <2>7, <2>8
<1> DEFINE Form(texts, c, tokens) ==
             /\ Return(r, texts, tokens) /\ tokens <= c
             /\ turns' = [turns EXCEPT ![r][node[r]] = c]
             /\ untold' = [untold EXCEPT ![r][node[r]] = tokens]
             /\ Kind(r) = "other" => c = 0 /\ tokens = 0
<1>4. \E c \in Nat, tokens \in Nat, texts \in Appended(r) : Form(texts, c, tokens)
  <2>1. CASE Pass(r)
    <3>1. PICK texts \in Appended(r) : Return(r, texts, 0) BY <2>1 DEF Pass
    <3>2. turns' = turns /\ untold' = untold BY <2>1 DEF Pass
    <3>3. 0 \in Nat /\ 0 <= 0
      OBVIOUS
    <3>4. Form(texts, 0, 0) BY <1>3, <3>1, <3>2, <3>3
    <3> HIDE DEF Form
    <3> QED BY <3>1, <3>3, <3>4
  <2>2. CASE Profile(r) /\ Return(r, said[r], 0) /\ UNCHANGED <<turns, untold>>
    <3>1. PICK texts : texts = said[r]
      OBVIOUS
    <3>2. texts \in Appended(r) BY <3>1 DEF Appended
    <3>3. Return(r, texts, 0) BY <2>2, <3>1
    <3>4. Kind(r) # "other" BY <2>2 DEF Profile
    <3>5. 0 \in Nat /\ 0 <= 0
      OBVIOUS
    <3>6. Form(texts, 0, 0) BY <1>3, <2>2, <3>3, <3>4, <3>5
    <3> HIDE DEF Form
    <3> QED BY <3>2, <3>5, <3>6
  <2>3. ASSUME Profile(r), NEW topic \in BOOLEAN, NEW tokens \in 0..1,
               Return(r, Append(said[r], Text(r, topic)), tokens),
               turns' = [turns EXCEPT ![r][node[r]] = 1],
               untold' = [untold EXCEPT ![r][node[r]] = tokens]
        PROVE  \E c \in Nat, tk \in Nat, texts \in Appended(r) : Form(texts, c, tk)
    <3>1. PICK texts : texts = Append(said[r], Text(r, topic))
      OBVIOUS
    <3>2. texts \in Appended(r) BY <3>1 DEF Appended
    <3>3. Return(r, texts, tokens) BY <2>3, <3>1
    <3>4. Kind(r) # "other" BY <2>3 DEF Profile
    <3>5. 1 \in Nat /\ tokens \in Nat /\ tokens <= 1
      OBVIOUS
    <3>6. Form(texts, 1, tokens) BY <2>3, <3>3, <3>4, <3>5
    <3> HIDE DEF Form
    <3> QED BY <3>2, <3>5, <3>6
  <2>4. \/ Pass(r)
        \/ Profile(r) /\ Return(r, said[r], 0) /\ UNCHANGED <<turns, untold>>
        \/ /\ Profile(r)
           /\ \E topic \in BOOLEAN, tokens \in 0..1 :
                 /\ Return(r, Append(said[r], Text(r, topic)), tokens)
                 /\ turns' = [turns EXCEPT ![r][node[r]] = 1]
                 /\ untold' = [untold EXCEPT ![r][node[r]] = tokens]
    BY DEF Profile
  <2> HIDE DEF Form
  <2> QED BY <2>1, <2>2, <2>3, <2>4
<1> QED BY <1>1, <1>2, <1>4

\* A node of another kind commits no rows and is not missing.
LEMMA OtherSession ==
  ASSUME NodesTypeOK, NEW r \in Runs, RunOK(r), NEW n \in Nat, n = node[r], n > 0,
         plan[r][n].kind # "agent", plan' = plan, agents' = agents, faults' = faults,
         node'[r] = n + 1, messages' = messages,
         \/ said'[r] = said[r]
         \/ \E topic \in BOOLEAN : said'[r] = Append(said[r], [by |-> n, topic |-> topic])
  PROVE  Ordered(r)' /\ Transcribed(r)'
<1>1. PICK m : m = messages[r]
  OBVIOUS
<1>2. /\ DOMAIN m = 1..Len(m)
      /\ \A i \in DOMAIN m : m[i].node \in 1..n-1 /\ plan[r][m[i].node].kind = "agent"
      /\ \A i, j \in DOMAIN m : i < j => m[i].node < m[j].node
  BY <1>1, SaidTyped DEF RunOK, Ordered
<1>3. Ordered(r)'
  <2>1. \A i \in DOMAIN m : m[i].node \in 1..n BY <1>2
  <2>2. n + 1 - 1 = n
    OBVIOUS
  <2> QED BY <1>1, <1>2, <2>1, <2>2 DEF Ordered
<1>4. Missing(r)' = Missing(r)
  <2>1. 1..(n + 1 - 1) = (1..n-1) \cup {n}
    OBVIOUS
  <2>2. \A a : ~Executes(r, n, a) BY DEF Executes
  <2> QED BY <2>1, <2>2 DEF Missing, Executes
<1>5. ASSUME NEW i \in DOMAIN m, NEW row \in m[i].rows
      PROVE  Sourced(r, row, m[i].node)'
  <2>1. PICK k : k = m[i].node
    OBVIOUS
  <2>2. k \in Nat /\ k <= n BY <1>2, <2>1
  <2>3. Sourced(r, row, k) BY <1>1, <1>5, <2>1 DEF RunOK, Transcribed
  <2>4. Sourced(r, row, k)' BY <2>2, <2>3, SourcesKept
  <2> QED BY <1>1, <2>1, <2>4
<1>6. Cardinality(Missing(r)') <= faults'
  BY <1>4 DEF RunOK, Transcribed
<1> QED BY <1>1, <1>3, <1>5, <1>6 DEF Transcribed

LEMMA OtherKeeps ==
  ASSUME NodesInv, TypeOK, NEW r \in Runs, Pass(r) \/ Profile(r)
  PROVE  NodesInv'
<1>1. NodesTypeOK /\ RunOK(r) BY DEF NodesInv
<1>2. /\ step[r] = "ready" /\ Kind(r) \in {"other", "profiler"}
      /\ events' = [events EXCEPT ![r] = Append(events[r], 0)]
      /\ UNCHANGED <<vars, plan, agents, loaded, reply, messages, faults>>
  BY <1>1, OtherForm
<1>3. PICK c \in Nat, tokens \in Nat, texts \in Appended(r) :
         /\ Return(r, texts, tokens) /\ tokens <= c
         /\ turns' = [turns EXCEPT ![r][node[r]] = c]
         /\ untold' = [untold EXCEPT ![r][node[r]] = tokens]
         /\ Kind(r) = "other" => c = 0 /\ tokens = 0
  BY <1>1, OtherForm
<1>4. PICK n : n = node[r]
  OBVIOUS
<1>5. /\ n \in Nodes(r) /\ n \in Nat /\ n > 0
      /\ plan[r][n].kind \in {"other", "profiler"}
  BY <1>1, <1>2, <1>4, AtNode DEF RunOK, Kind
<1>6. PICK ev, tr, ut : /\ ev = Append(events[r], 0)
                        /\ tr = [turns[r] EXCEPT ![n] = c]
                        /\ ut = [untold[r] EXCEPT ![n] = tokens]
  OBVIOUS
<1>7. /\ ev \in Seq(Nat) /\ Len(ev) = n /\ ev[n] = 0
      /\ \A k \in 1..n-1 : ev[k] = events[r][k]
  <2>1. events[r] \in Seq(Nat) /\ Len(events[r]) = n - 1 /\ 0 \in Nat
    BY <1>1, <1>2, <1>4, SaidTyped DEF RunOK, Placed
  <2> QED BY <1>5, <1>6, <2>1, AppendProperties
<1>8. /\ tr = [k \in Nodes(r) |-> tr[k]] /\ ut = [k \in Nodes(r) |-> ut[k]]
      /\ tr[n] = c /\ ut[n] = tokens
      /\ \A k \in Nodes(r) \ {n} : tr[k] = turns[r][k] /\ ut[k] = untold[r][k]
      /\ \A k \in Nodes(r) : tr[k] \in Nat /\ ut[k] \in Nat
  <2>1. /\ turns[r] = [k \in Nodes(r) |-> turns[r][k]]
        /\ untold[r] = [k \in Nodes(r) |-> untold[r][k]]
        /\ \A k \in Nodes(r) : turns[r][k] \in Nat /\ untold[r][k] \in Nat
    BY <1>1 DEF NodesTypeOK
  <2>2. /\ tr = [k \in Nodes(r) |-> IF k = n THEN c ELSE turns[r][k]]
        /\ ut = [k \in Nodes(r) |-> IF k = n THEN tokens ELSE untold[r][k]]
    BY <1>5, <1>6, <2>1
  <2> QED BY <1>5, <2>1, <2>2
<1>9. /\ turns' = [turns EXCEPT ![r] = tr] /\ untold' = [untold EXCEPT ![r] = ut]
      /\ events' = [events EXCEPT ![r] = ev]
  BY <1>2, <1>3, <1>4, <1>6
<1>10. /\ turns = [q \in Runs |-> turns[q]] /\ untold = [q \in Runs |-> untold[q]]
       /\ events \in [Runs -> Seq(Nat)] /\ faults \in Nat
  BY <1>1 DEF NodesTypeOK
<1>11. /\ turns'[r] = tr /\ untold'[r] = ut /\ events'[r] = ev
       /\ turns' = [q \in Runs |-> turns'[q]] /\ untold' = [q \in Runs |-> untold'[q]]
       /\ \A q \in Runs \ {r} :
             turns'[q] = turns[q] /\ untold'[q] = untold[q] /\ events'[q] = events[q]
  BY <1>9, <1>10
<1>12. CountOK(r, n, 0, tokens, c)
  <2>1. 0 + tokens <= c BY <1>3
  <2>2. plan[r][n].kind # "profiler" => tokens = 0 /\ c = 0 BY <1>3, <1>4, <1>5 DEF Kind
  <2> QED BY <2>1, <2>2 DEF CountOK
<1>13. /\ Placed(r)' /\ Counted(r)' /\ Guarded(r)'
       /\ \A k \in Nodes(r) :
             Calls(r, k)' /\ plan[r][k].kind = "agent" => turns[r][k] > 0
       /\ step' \in [Runs -> Steps] /\ node' \in [Runs -> Nat \ {0}]
       /\ said' \in [Runs -> Seq([by : Nat, topic : BOOLEAN])]
       /\ usage' \in [Runs -> Nat]
       /\ \A q \in Runs \ {r} :
             /\ step'[q] = step[q] /\ node'[q] = node[q]
             /\ said'[q] = said[q] /\ usage'[q] = usage[q]
  <2>1. /\ events'[r][n] = 0 /\ untold'[r][n] = tokens /\ turns'[r][n] = c
        /\ Len(events'[r]) = n /\ \A k \in 1..n-1 : events'[r][k] = events[r][k]
    BY <1>7, <1>8, <1>11
  <2>2. \A k \in Nodes(r) \ {n} :
           turns'[r][k] = turns[r][k] /\ untold'[r][k] = untold[r][k]
    BY <1>8, <1>11
  <2>3. /\ events'[r][n] \in Nat /\ untold'[r][n] \in Nat
        /\ CountOK(r, n, events'[r][n], untold'[r][n], turns'[r][n])
        /\ tokens = events'[r][n] + untold'[r][n]
    BY <1>12, <2>1
  <2>4. plan' = plan /\ loaded' = loaded /\ plan[r][n].kind # "agent" BY <1>2, <1>5
  <2>5. \/ texts = said[r]
        \/ \E topic \in BOOLEAN : texts = Append(said[r], [by |-> n, topic |-> topic])
    BY <1>3, <1>4 DEF Appended, Text
  <2> QED BY <1>1, <1>3, <1>4, <1>5, <2>1, <2>2, <2>3, <2>4, <2>5, ReturnOK
<1>14. Ordered(r)' /\ Transcribed(r)'
  <2>1. node'[r] = n + 1 /\ said'[r] = texts
    BY <1>1, <1>3, <1>4 DEF Return, NodesTypeOK
  <2>2. \/ said'[r] = said[r]
        \/ \E topic \in BOOLEAN : said'[r] = Append(said[r], [by |-> n, topic |-> topic])
    BY <1>3, <1>4, <2>1 DEF Appended, Text
  <2>3. plan[r][n].kind # "agent" BY <1>5
  <2> QED BY <1>1, <1>2, <1>4, <1>5, <2>1, <2>2, <2>3, OtherSession
<1>15. \A q \in Runs \ {r} : Same(q)
  BY <1>2, <1>11, <1>13 DEF Same
<1>16. NodesTypeOK'
  <2>1. /\ turns' = [q \in Runs |-> [k \in Nodes(q)' |-> turns'[q][k]]]
        /\ \A q \in Runs : \A k \in Nodes(q)' : turns'[q][k] \in Nat
        /\ untold' = [q \in Runs |-> [k \in Nodes(q)' |-> untold'[q][k]]]
        /\ \A q \in Runs : \A k \in Nodes(q)' : untold'[q][k] \in Nat
    <3>1. ASSUME NEW q \in Runs
          PROVE  /\ turns'[q] = [k \in Nodes(q) |-> turns'[q][k]]
                 /\ untold'[q] = [k \in Nodes(q) |-> untold'[q][k]]
                 /\ \A k \in Nodes(q) : turns'[q][k] \in Nat /\ untold'[q][k] \in Nat
      <4>1. CASE q = r BY <1>8, <1>11, <4>1
      <4>2. CASE q # r
        <5>1. /\ turns[q] = [k \in Nodes(q) |-> turns[q][k]]
              /\ untold[q] = [k \in Nodes(q) |-> untold[q][k]]
              /\ \A k \in Nodes(q) : turns[q][k] \in Nat /\ untold[q][k] \in Nat
          BY <1>1 DEF NodesTypeOK
        <5> QED BY <1>11, <4>2, <5>1
      <4> QED BY <4>1, <4>2
    <3>2. \A q \in Runs : Nodes(q)' = Nodes(q) BY <1>2 DEF Nodes
    <3>3. /\ turns' = [q \in Runs |-> [k \in Nodes(q) |-> turns'[q][k]]]
          /\ untold' = [q \in Runs |-> [k \in Nodes(q) |-> untold'[q][k]]]
      BY <1>11, <3>1
    <3> QED BY <3>1, <3>2, <3>3
  <2>2. events' \in [Runs -> Seq(Nat)] BY <1>7, <1>9, <1>10
  <2>3. /\ plan' \in Plans /\ agents' \in SUBSET Agents
        /\ loaded' \in [Runs -> SUBSET Agents]
        /\ reply' \in [Runs -> [topic : BOOLEAN, tokens : Nat]]
        /\ messages' \in [Runs -> Seq(SessionCommit)] /\ faults' \in Nat
    BY <1>1, <1>2 DEF NodesTypeOK
  <2> QED BY <1>13, <2>1, <2>2, <2>3 DEF NodesTypeOK
<1>17. \A a \in Agents : ChargeOK(a)'
  <2>1. plan' = plan /\ accepted' = accepted /\ loaded' = loaded BY <1>2 DEF vars
  <2>2. \A k \in Nodes(r) :
           Calls(r, k)' /\ plan[r][k].kind = "agent" => Calls(r, k) /\ loaded'[r] = loaded[r]
    BY <1>13, <2>1 DEF Calls
  <2> QED BY <1>15, <2>1, <2>2, NoNewCall
<1>18. RunOK(r)' BY <1>13, <1>14 DEF RunOK
<1>19. faults' >= faults BY <1>2, <1>10
<1> QED BY <1>15, <1>16, <1>17, <1>18, <1>19, OneRun

\* A deletion takes the agent's rows out of every session, and nobody else's.
LEMMA DeleteAgentKeeps ==
  ASSUME NodesInv, TypeOK, NEW b \in Agents, DeleteAgent(b)
  PROVE  NodesInv'
<1>1. NodesTypeOK /\ \A r \in Runs : RunOK(r) BY DEF NodesInv
<1>2. /\ agents' = agents \ {b}
      /\ UNCHANGED <<vars, plan, loaded, node, step, turns, reply, said, usage, events,
                     untold, faults>>
  BY DEF DeleteAgent
<1>3. ASSUME NEW r \in Runs
      PROVE  /\ messages'[r] \in Seq(SessionCommit)
             /\ DOMAIN messages'[r] = 1..Len(messages[r])
             /\ \A i \in 1..Len(messages[r]) :
                   /\ messages'[r][i].node = messages[r][i].node
                   /\ \/ messages'[r][i].rows = messages[r][i].rows
                      \/ /\ messages'[r][i].rows = {}
                         /\ Executes(r, messages[r][i].node, b)
  <2>1. PICK m, m2 : m = messages[r] /\ m2 = messages'[r]
    OBVIOUS
  <2>2. m \in Seq(SessionCommit) /\ Len(m) \in Nat /\ DOMAIN m = 1..Len(m)
    BY <1>1, <2>1, SaidTyped
  <2>3. m2 = [i \in DOMAIN m |-> LET c == m[i]
                                 IN  IF Executes(r, c.node, b) THEN Commit(c.node, {}) ELSE c]
    BY <2>1 DEF DeleteAgent
  <2>4. ASSUME NEW i \in 1..Len(m)
        PROVE  /\ m2[i] \in SessionCommit /\ m2[i].node = m[i].node
               /\ \/ m2[i].rows = m[i].rows
                  \/ m2[i].rows = {} /\ Executes(r, m[i].node, b)
    <3>1. m[i] \in SessionCommit BY <2>2, ElementOfSeq
    <3>2. CASE Executes(r, m[i].node, b)
      <4>1. m2[i] = [node |-> m[i].node, rows |-> {}] BY <2>2, <2>3, <3>2 DEF Commit
      <4> QED BY <3>1, <3>2, <4>1 DEF SessionCommit
    <3>3. CASE ~Executes(r, m[i].node, b)
      <4>1. m2[i] = m[i] BY <2>2, <2>3, <3>3
      <4> QED BY <3>1, <4>1
    <3> QED BY <3>2, <3>3
  <2>5. DOMAIN m2 = 1..Len(m) /\ m2 = [i \in 1..Len(m) |-> m2[i]] BY <2>2, <2>3
  <2>6. m2 \in Seq(SessionCommit)
    <3>1. m2 \in [1..Len(m) -> SessionCommit] BY <2>4, <2>5
    <3> QED BY <2>2, <3>1, SeqDef
  <2> QED BY <2>1, <2>4, <2>5, <2>6
<1>4. NodesTypeOK'
  <2>1. messages' = [r \in Runs |-> messages'[r]] BY DEF DeleteAgent
  <2>2. messages' \in [Runs -> Seq(SessionCommit)] BY <1>3, <2>1
  <2>3. agents' \in SUBSET Agents BY <1>1, <1>2 DEF NodesTypeOK
  <2> QED BY <1>1, <1>2, <2>2, <2>3, CountsTyped DEF NodesTypeOK
<1>5. ASSUME NEW r \in Runs PROVE RunOK(r)'
  <2>1. RunOK(r) /\ DOMAIN messages[r] = 1..Len(messages[r])
    BY <1>1, SaidTyped
  <2>2. Placed(r)' BY <1>2, <2>1 DEF RunOK, Placed, Kind
  <2>3. Counted(r)'
    <3>1. \A k \in 1..node[r]-1 :
             CountOK(r, k, events[r][k], untold[r][k], turns[r][k])'
      BY <1>2, <2>1, CountKept DEF RunOK, Counted
    <3>2. step[r] \in {"replied", "saving"} =>
             CountOK(r, node[r], reply[r].tokens, 0, turns[r][node[r]])'
      BY <1>2, <2>1, CountKept DEF RunOK, Counted
    <3> QED BY <1>2, <2>1, <3>1, <3>2
            DEF RunOK, Counted, Nodes, Tools, Known, Agent, Set
  <2>4. Guarded(r)'
    BY <1>2, <2>1 DEF RunOK, Guarded, Calls, Nodes, Executes, LastBefore
  <2>5. Ordered(r)' BY <1>2, <1>3, <2>1 DEF RunOK, Ordered
  <2>6. Transcribed(r)'
    <3>1. \A i \in 1..Len(messages[r]) : \A row \in messages'[r][i].rows :
             Sourced(r, row, messages[r][i].node)
      BY <1>3, <2>1 DEF RunOK, Transcribed
    <3>2. Missing(r)' \subseteq Missing(r)
      <4> SUFFICES ASSUME NEW k \in Missing(r)' PROVE k \in Missing(r)
        OBVIOUS
      <4>1. /\ k \in 1..node[r]-1
            /\ \A i \in DOMAIN messages'[r] :
                  messages'[r][i].node = k => messages'[r][i].rows = {}
        BY <1>2 DEF Missing
      <4>2. PICK a \in agents : a # b /\ Executes(r, k, a)
        BY <1>2 DEF Missing, Executes
      <4>3. ~Executes(r, k, b) BY <4>2 DEF Executes
      <4>4. ASSUME NEW i \in 1..Len(messages[r]), messages[r][i].node = k
            PROVE  messages[r][i].rows = {}
        <5>1. messages'[r][i].rows = messages[r][i].rows BY <1>3, <4>3, <4>4
        <5> QED BY <1>3, <4>1, <4>4, <5>1
      <4> QED BY <2>1, <4>1, <4>2, <4>4 DEF Missing
    <3>3. Cardinality(Missing(r)') <= faults
      <4>1. IsFiniteSet(Missing(r)) /\ Cardinality(Missing(r)) \in Nat
        BY <1>1, MissingFinite
      <4>2. /\ IsFiniteSet(Missing(r)')
            /\ Cardinality(Missing(r)') <= Cardinality(Missing(r))
        BY <3>2, <4>1, FS_Subset
      <4>3. Cardinality(Missing(r)') \in Nat BY <4>2, FS_CardinalityType
      <4>4. Cardinality(Missing(r)) <= faults BY <2>1 DEF RunOK, Transcribed
      <4>5. faults \in Nat BY <1>1 DEF NodesTypeOK
      <4> QED BY <4>1, <4>2, <4>3, <4>4, <4>5
    <3>4. \A i \in DOMAIN messages'[r] :
             /\ messages'[r][i].node = messages[r][i].node
             /\ \A row \in messages'[r][i].rows : Sourced(r, row, messages[r][i].node)
      BY <1>3, <3>1
    <3>5. said' = said /\ faults' = faults BY <1>2
    <3> QED BY <3>3, <3>4, <3>5 DEF Transcribed, Sourced, LastBefore
  <2> QED BY <2>2, <2>3, <2>4, <2>5, <2>6 DEF RunOK
<1>6. ASSUME NEW a \in Agents PROVE ChargeOK(a)'
  <2>1. Accepted(a)' = Accepted(a)
    BY <1>2 DEF Accepted, Visits, Nodes, Admitted, Calls, Executes
  <2>2. ChargeOK(a) BY DEF NodesInv
  <2> QED BY <1>2, <2>1, <2>2 DEF ChargeOK, vars
<1> QED BY <1>4, <1>5, <1>6 DEF NodesInv

\* Other runs call the same agents, and the clock ticks.
LEMMA OthersKeep ==
  ASSUME NodesInv, TypeOK, Next, UNCHANGED nodeVars
  PROVE  NodesInv'
<1>1. NodesTypeOK'
  <2>1. NodesTypeOK BY DEF NodesInv
  <2> QED BY <2>1, CountsTyped DEF NodesTypeOK, nodeVars
<1>2. ASSUME NEW r \in Runs PROVE RunOK(r)'
  <2>1. NodesTypeOK /\ RunOK(r) BY DEF NodesInv
  <2>2. Same(r) BY DEF Same, nodeVars
  <2>3. faults' = faults /\ faults \in Nat BY <2>1 DEF NodesTypeOK, nodeVars
  <2>4. faults' \in Nat /\ faults' >= faults BY <2>3
  <2> QED BY <2>1, <2>2, <2>4, SameRun
<1>3. ASSUME NEW a \in Agents PROVE ChargeOK(a)'
  <2>1. Len(accepted[a]) \in Nat BY LenProperties DEF TypeOK
  <2>2. Len(accepted'[a]) \in Nat /\ Len(accepted'[a]) >= Len(accepted[a])
    <3>1. CASE Tick BY <2>1, <3>1 DEF Tick
    <3>2. ASSUME NEW b \in Agents, NEW limit \in Limits, Check(b, limit)
          PROVE  Len(accepted'[a]) = Len(accepted[a]) \/ Len(accepted'[a]) = Len(accepted[a]) + 1
      <4>1. \/ accepted' = accepted
            \/ /\ Len(accepted'[b]) = Len(accepted[b]) + 1
               /\ \A c \in Agents \ {b} : accepted'[c] = accepted[c]
        BY <3>2, CheckAccepts
      <4>2. CASE a = b BY <4>1, <4>2
      <4>3. CASE a # b BY <4>1, <4>3
      <4> QED BY <4>2, <4>3
    <3> QED BY <2>1, <3>1, <3>2 DEF Next
  <2>3. ChargeOK(a) BY DEF NodesInv
  <2> QED BY <2>1, <2>2, <2>3, ChargeGrows
<1> QED BY <1>1, <1>2, <1>3 DEF NodesInv

LEMMA NodesNextKeeps == NodesInv /\ TypeOK /\ NodesNext => NodesInv'
<1> SUFFICES ASSUME NodesInv, TypeOK, NodesNext PROVE NodesInv'
  OBVIOUS
<1>1. ASSUME NEW r \in Runs, Start(r) PROVE NodesInv' BY <1>1, StartKeeps
<1>2. ASSUME NEW r \in Runs, Admit(r) PROVE NodesInv' BY <1>2, AdmitKeeps
<1>3. ASSUME NEW r \in Runs, Call(r) PROVE NodesInv' BY <1>3, CallKeeps
<1>4. ASSUME NEW r \in Runs, Fails(r) PROVE NodesInv' BY <1>4, FailsKeeps
<1>5. ASSUME NEW r \in Runs, Announce(r) PROVE NodesInv' BY <1>5, AnnounceKeeps
<1>6. ASSUME NEW r \in Runs, Save(r) PROVE NodesInv' BY <1>6, SaveKeeps
<1>7. ASSUME NEW a \in Agents, DeleteAgent(a) PROVE NodesInv' BY <1>7, DeleteAgentKeeps
<1>8. ASSUME NEW r \in Runs, Pass(r) \/ Profile(r) PROVE NodesInv' BY <1>8, OtherKeeps
<1> QED BY <1>1, <1>2, <1>3, <1>4, <1>5, <1>6, <1>7, <1>8 DEF NodesNext

\* A step of the nodes is a check of the limiter's, or none of its steps.
LEMMA NodesStepLimiter == NodesInv /\ NodesNext => [Next]_vars
<1> SUFFICES ASSUME NodesInv, NodesNext PROVE [Next]_vars
  OBVIOUS
<1>1. ASSUME NEW r \in Runs, Admit(r) PROVE [Next]_vars
  <2>1. CASE Limited(r)
    <3>1. /\ Agent(r) \in Agents /\ Set(r).limit \in Limits
          /\ Check(Agent(r), Set(r).limit)
      BY <1>1, <2>1, AdmitChecks
    <3> QED BY <3>1 DEF Next
  <2>2. CASE ~Limited(r) BY <1>1, <2>2, AdmitChecks
  <2> QED BY <2>1, <2>2
<1>2. ASSUME NEW r \in Runs,
             \/ Start(r) \/ Call(r) \/ Announce(r) \/ Save(r)
             \/ Pass(r) \/ Profile(r) \/ Fails(r)
      PROVE  UNCHANGED vars
  BY <1>2 DEF Start, Call, Announce, Save, Pass, Profile, Fails
<1>3. ASSUME NEW a \in Agents, DeleteAgent(a) PROVE UNCHANGED vars
  BY <1>3 DEF DeleteAgent
<1> QED BY <1>1, <1>2, <1>3 DEF NodesNext

LEMMA NodesInvariance ==
  NodesSpec => [](IInv /\ NodesInv) /\ [][Next]_vars
<1> DEFINE Step == NodesNext \/ (Next /\ UNCHANGED nodeVars)
<1>1. IInv /\ NodesInv /\ [Step]_<<vars, nodeVars>> => (IInv /\ NodesInv)' /\ [Next]_vars
  <2> SUFFICES ASSUME IInv, NodesInv, [Step]_<<vars, nodeVars>>
               PROVE  IInv' /\ NodesInv' /\ [Next]_vars
    OBVIOUS
  <2>1. TypeOK BY DEF IInv
  <2>2. [Next]_vars BY NodesStepLimiter
  <2>3. IInv' BY <2>2, NextKeepsIInv
  <2>4. NodesInv'
    <3>1. CASE NodesNext BY <2>1, <3>1, NodesNextKeeps
    <3>2. CASE Next /\ UNCHANGED nodeVars BY <2>1, <3>2, OthersKeep
    <3>3. CASE UNCHANGED <<vars, nodeVars>>
      <4>1. NodesTypeOK'
        <5>1. NodesTypeOK BY DEF NodesInv
        <5> QED BY <3>3, <5>1, CountsTyped DEF NodesTypeOK, nodeVars
      <4>2. ASSUME NEW r \in Runs PROVE RunOK(r)'
        <5>1. NodesTypeOK /\ RunOK(r) BY DEF NodesInv
        <5>2. Same(r) BY <3>3 DEF Same, nodeVars
        <5>3. faults' = faults /\ faults \in Nat BY <3>3, <5>1 DEF NodesTypeOK, nodeVars
        <5>4. faults' \in Nat /\ faults' >= faults BY <5>3
        <5> QED BY <5>1, <5>2, <5>4, SameRun
      <4>3. ASSUME NEW a \in Agents PROVE ChargeOK(a)'
        <5>1. Len(accepted[a]) \in Nat BY <2>1, LenProperties DEF TypeOK
        <5>2. accepted' = accepted BY <3>3 DEF vars
        <5>3. ChargeOK(a) BY DEF NodesInv
        <5>4. UNCHANGED nodeVars BY <3>3
        <5> QED BY <2>1, <5>1, <5>2, <5>3, <5>4, ChargeGrows
      <4> QED BY <4>1, <4>2, <4>3 DEF NodesInv
    <3> QED BY <3>1, <3>2, <3>3
  <2> QED BY <2>2, <2>3, <2>4
<1>2. Init /\ NodesInit => IInv /\ NodesInv BY InitIInv, InitNodesInv
<1> QED BY <1>1, <1>2, PTL DEF NodesSpec

\* The runs use the limiter as it specifies, whatever their plans and the settings
\* of their agents are: what it promises holds for their calls.
THEOREM NodesUseLimiter == NodesSpec => Spec
BY NodesInvariance, PTL DEF NodesSpec, Spec

\* An agent calls the model only if its guards let it: the limiter accepted the call
\* where it has a rate limit, and the last text before it has no restricted topic.
THEOREM NoCallUnguarded == NodesSpec => []GuardsPrecedeCalls
<1>1. IInv /\ NodesInv => GuardsPrecedeCalls
  <2> SUFFICES ASSUME IInv, NodesInv PROVE GuardsPrecedeCalls
    OBVIOUS
  <2>1. \A r \in Runs : \A k \in Nodes(r), a \in loaded[r] :
           turns[r][k] > 0 /\ Executes(r, k, a) /\ Settings[<<r, a>>].restricted
               => \A i \in LastBefore(r, k) : ~said[r][i].topic
    BY DEF NodesInv, RunOK, Guarded, Calls
  <2>2. ASSUME NEW a \in Agents PROVE Cardinality(Charged(a)) <= Len(accepted[a])
    <3>1. Charged(a) \subseteq Accepted(a)
      BY DEF Charged, Accepted, Admitted, Calls
    <3>2. IsFiniteSet(Accepted(a)) /\ Cardinality(Accepted(a)) <= Len(accepted[a])
      BY DEF NodesInv, ChargeOK
    <3>3. IsFiniteSet(Charged(a)) /\ Cardinality(Charged(a)) <= Cardinality(Accepted(a))
      BY <3>1, <3>2, FS_Subset
    <3>4. Cardinality(Charged(a)) \in Nat /\ Cardinality(Accepted(a)) \in Nat
      BY <3>2, <3>3, FS_CardinalityType
    <3>5. Len(accepted[a]) \in Nat BY LenProperties DEF IInv, TypeOK
    <3> QED BY <3>2, <3>3, <3>4, <3>5
  <2> QED BY <2>1, <2>2 DEF GuardsPrecedeCalls
<1> QED BY <1>1, NodesInvariance, PTL

\* The usage of a run is the sum of what its events told and of what data_profiler
\* added to it without telling; node by node it is what the calls of the model cost,
\* less only for agents with tools and for profilers.
THEOREM UsageIsTold == NodesSpec => []UsageAddsUp
<1>1. NodesInv => UsageAddsUp
  <2> SUFFICES ASSUME NodesInv, NEW r \in Runs
               PROVE  /\ Len(events[r]) = IF step[r] = "saving" THEN node[r] ELSE node[r] - 1
                      /\ usage[r] = Total(events[r], node[r] - 1)
                                      + Total(untold[r], node[r] - 1)
                      /\ \A k \in 1..node[r]-1 :
                            CountOK(r, k, events[r][k], untold[r][k], turns[r][k])
    BY DEF UsageAddsUp, CountOK
  <2>1. RunOK(r) BY DEF NodesInv
  <2> QED BY <2>1 DEF RunOK, Placed, Counted
<1> QED BY <1>1, NodesInvariance, PTL

\* A session is its run's transcript, whatever agents are deleted and commits fail, and
\* whatever other nodes speak between the agents.
THEOREM SessionsAreTranscripts == NodesSpec => []TranscriptFollowsRun
<1>1. NodesInv => TranscriptFollowsRun
  <2> SUFFICES ASSUME NodesInv, NEW r \in Runs
               PROVE  /\ \A i, j \in DOMAIN messages[r] :
                            i < j => messages[r][i].node < messages[r][j].node
                      /\ \A i \in DOMAIN messages[r] :
                            /\ messages[r][i].node < node[r]
                            /\ plan[r][messages[r][i].node].kind = "agent"
                            /\ \A row \in messages[r][i].rows :
                                  Sourced(r, row, messages[r][i].node)
                      /\ Cardinality(Missing(r)) <= faults
    BY DEF TranscriptFollowsRun
  <2>1. NodesTypeOK /\ RunOK(r) BY DEF NodesInv
  <2>2. \A i \in DOMAIN messages[r] : messages[r][i].node < node[r]
    <3>1. node[r] \in Nat BY <2>1, SaidTyped
    <3> QED BY <2>1, <3>1 DEF RunOK, Ordered
  <2> QED BY <2>1, <2>2 DEF RunOK, Ordered, Transcribed
<1> QED BY <1>1, NodesInvariance, PTL
===============================================================================
