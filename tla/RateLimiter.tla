----------------------------- MODULE RateLimiter -----------------------------
(***************************************************************************)
(* The per-agent sliding-window rate limiter of workflow_runner.py and its *)
(* use by the agent nodes.  Every run that executes an agent node shares   *)
(* _rate_limit_windows; the check has no await, so a call is one step.     *)
(* The limit is part of the agent object a run loaded when it started, so  *)
(* calls of the same agent may come with different limits.                 *)
(***************************************************************************)
EXTENDS Integers, Sequences

CONSTANTS
    Agents,    \* agent ids
    Limits,    \* the values of rate_limit_per_minute that are in force
    Span,      \* the 60 seconds of the window, in ticks of the clock
    MaxTime,   \* bound: the clock stops here
    MaxCalls   \* bound: accepted calls per agent

ASSUME LimitsAssumption == Limits \subseteq Nat \ {0}
ASSUME SpanAssumption == Span \in Nat
ASSUME BoundsAssumption == MaxTime \in Nat /\ MaxCalls \in Nat

VARIABLES
    now,       \* time.monotonic()
    window,    \* _rate_limit_windows: a deque of call times per agent
    accepted,  \* history: every accepted call, its time and its limit
    refused    \* history: the last refused call, and how many calls had been
               \* accepted before it

vars == <<now, window, accepted, refused>>

NotRefused == [at |-> 0, limit |-> 0, before |-> 0]

Init ==
    /\ now = 0
    /\ window = [a \in Agents |-> <<>>]
    /\ accepted = [a \in Agents |-> <<>>]
    /\ refused = [a \in Agents |-> NotRefused]

-----------------------------------------------------------------------------
(* Plausible mistakes, each a wrong version of the definition it is named  *)
(* after; no specification uses them.  The properties must reject them.    *)

\* `>=`: a call that is exactly 60 seconds old no longer counts.
ExpiredEarly(t, call) == t - call >= Span

\* The refused call is recorded too, and keeps the window full.
RefuseAndRecord(a, w, limit) ==
    /\ Len(w) >= limit
    /\ window' = [window EXCEPT ![a] = Append(w, now)]
    /\ refused' = [refused EXCEPT ![a] =
                     [at |-> now, limit |-> limit, before |-> Len(accepted[a])]]
    /\ UNCHANGED accepted

-----------------------------------------------------------------------------

\* now - window[0] > 60.0
Expired(t, call) == t - call > Span

\* while window and now - window[0] > 60.0: window.popleft()
Evicted(t, w) ==
    LET gone == CHOOSE k \in 0..Len(w) :
                    /\ \A i \in 1..k : Expired(t, w[i])
                    /\ k < Len(w) => ~Expired(t, w[k + 1])
    IN  SubSeq(w, gone + 1, Len(w))

\* if len(window) >= limit: return False -- and the node raises.
Refuse(a, w, limit) ==
    /\ Len(w) >= limit
    /\ window' = [window EXCEPT ![a] = w]
    /\ refused' = [refused EXCEPT ![a] =
                     [at |-> now, limit |-> limit, before |-> Len(accepted[a])]]
    /\ UNCHANGED accepted

Accept(a, w, limit) ==
    /\ Len(w) < limit
    /\ window' = [window EXCEPT ![a] = Append(w, now)]
    /\ accepted' = [accepted EXCEPT ![a] =
                      Append(@, [at |-> now, limit |-> limit])]
    /\ UNCHANGED refused

\* An agent node calls _check_rate_limit(agent_id, limit).
Check(a, limit) ==
    /\ Len(accepted[a]) < MaxCalls
    /\ LET w == Evicted(now, window[a])
       IN  Refuse(a, w, limit) \/ Accept(a, w, limit)
    /\ UNCHANGED now

Tick ==
    /\ now < MaxTime
    /\ now' = now + 1
    /\ UNCHANGED <<window, accepted, refused>>

Next == Tick \/ \E a \in Agents, limit \in Limits : Check(a, limit)

Spec == Init /\ [][Next]_vars

-----------------------------------------------------------------------------
(* Properties                                                              *)

\* The type invariant.
TypeOK ==
    /\ now \in Nat
    /\ window \in [Agents -> Seq(Nat)]
    /\ accepted \in [Agents -> Seq([at : Nat, limit : Limits])]
    /\ refused \in [Agents -> [at : Nat, limit : Nat, before : Nat]]

\* "Rate limit exceeded: agent is allowed {rate_limit} calls/min": an accepted
\* call never has `limit` accepted calls of its agent in the minute before it,
\* whatever limits the other calls came with and however often the window was
\* pruned in between.
NeverTooMany ==
    \A a \in Agents : \A i, j \in DOMAIN accepted[a] :
        j >= i + accepted[a][j].limit => accepted[a][j].at - accepted[a][i].at > Span

\* A call is refused only with cause: `limit` calls of its agent were accepted
\* in the minute before it.  Refused calls and forgotten ones do not count.
RefusedWithCause ==
    \A a \in Agents :
        LET r == refused[a] IN
        r # NotRefused =>
            /\ r.before >= r.limit
            /\ r.at - accepted[a][r.before - r.limit + 1].at <= Span
=============================================================================
