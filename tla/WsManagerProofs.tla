---------------------------- MODULE WsManagerProofs ----------------------------
(***************************************************************************)
(* Proofs about WsManager, for any clients, branches, runs and events: the *)
(* type invariant, that the registry matches the handlers, and that no     *)
(* client with a working connection misses or repeats an event.            *)
(***************************************************************************)
EXTENDS WsManager, TLAPS

Live(c) == handler[c] = "open" /\ link[c] = "up"

\* What a broadcast in progress knows of its sockets: they were registered for its
\* run when its event began, and those it takes for dead are.
TaskOK(s) ==
    /\ ~task[s].busy => task[s].todo = {}
    /\ \A c \in task[s].todo :
          /\ RunOf[c] = RunOf[s]
          /\ handler[c] \in {"open", "gone"}
          /\ joined[c][s] < sent[s]
    /\ \A c \in task[s].dead : link[c] = "down"

\* A client gets nothing before it is registered, and is registered once.
ClientOK(c) ==
    /\ handler[c] \in {"new", "accepted"} => \A s \in Senders : received[c][s] = <<>>
    /\ \A s \in Senders : joined[c][s] <= sent[s]

IInv ==
    /\ TypeOK
    /\ RegistryMatchesHandlers
    /\ \A s \in Senders : TaskOK(s)
    /\ \A c \in Clients : ClientOK(c)
    /\ NoGaps

-----------------------------------------------------------------------------
(* The registry's operators                                                *)

\* Discarding keeps every socket but those discarded, and no entry that is empty.
LEMMA DiscardedProperty ==
    ASSUME NEW r, NEW cs, \A x \in DOMAIN connections : connections[x] # {}
    PROVE  /\ DOMAIN Discarded(r, cs) \subseteq DOMAIN connections
           /\ \A x \in DOMAIN Discarded(r, cs) :
                 /\ Discarded(r, cs)[x] # {}
                 /\ Discarded(r, cs)[x] = IF x = r THEN connections[x] \ cs ELSE connections[x]
           /\ \A x \in DOMAIN connections \ DOMAIN Discarded(r, cs) :
                 x = r /\ connections[x] \subseteq cs
<1>1. CASE Sockets(r) \subseteq cs
    BY <1>1 DEF Discarded, DropEntry, Sockets
<1>2. CASE ~(Sockets(r) \subseteq cs)
    <2>1. r \in DOMAIN connections /\ Sockets(r) = connections[r]
        BY <1>2 DEF Sockets
    <2>2. Discarded(r, cs) = [x \in DOMAIN connections |->
                                 IF x = r THEN connections[r] \ cs ELSE connections[x]]
        BY <1>2, <2>1 DEF Discarded, SetSockets
    <2>3. connections[r] \ cs # {}
        BY <1>2, <2>1
    <2>. QED  BY <2>1, <2>2, <2>3
<1>. QED  BY <1>1, <1>2

-----------------------------------------------------------------------------
(* Sequences of events                                                     *)

LEMMA NumbersEmpty == ASSUME NEW n \in Nat PROVE Numbers(n + 1, n) = <<>>
BY DEF Numbers

LEMMA NumbersAppend ==
    ASSUME NEW m \in Nat, NEW n \in Nat, m < n
    PROVE  Append(Numbers(m + 1, n - 1), n) = Numbers(m + 1, n)
<1>. DEFINE s == Numbers(m + 1, n - 1)
<1>1. s \in Seq(Nat) /\ Len(s) = n - 1 - m
    BY DEF Numbers
<1>2. Append(s, n) = [i \in 1..(n - m) |-> IF i = n - m THEN n ELSE s[i]]
    BY <1>1
<1>3. \A i \in 1..(n - 1 - m) : s[i] = m + i
    BY DEF Numbers
<1>4. \A i \in 1..(n - m) : (IF i = n - m THEN n ELSE s[i]) = m + i
    BY <1>3
<1>5. Numbers(m + 1, n) = [i \in 1..(n - m) |-> m + i]
    BY DEF Numbers
<1>. HIDE DEF s
<1>6. Append(s, n) = [i \in 1..(n - m) |-> m + i]
    BY <1>2, <1>4
<1>. QED  BY <1>5, <1>6 DEF s

-----------------------------------------------------------------------------
(* The invariant is inductive                                              *)

LEMMA InitIInv == Init => IInv
<1>. SUFFICES ASSUME Init PROVE IInv
    OBVIOUS
<1>1. TypeOK
    BY MaxEventsAssumption DEF Init, TypeOK, Idle
<1>2. RegistryMatchesHandlers /\ NoGaps
    BY DEF Init, RegistryMatchesHandlers, NoGaps
<1>3. (\A s \in Senders : TaskOK(s)) /\ (\A c \in Clients : ClientOK(c))
    BY DEF Init, TaskOK, ClientOK, Idle
<1>. QED  BY <1>1, <1>2, <1>3 DEF IInv

\* What Join does to the registry.
LEMMA Joined ==
    ASSUME TypeOK, RegistryMatchesHandlers, NEW c \in Clients, Join(c)
    PROVE  TypeOK' /\ RegistryMatchesHandlers'
<1>. DEFINE r == RunOf[c]
<1>1. r \in Runs
    BY RunOfAssumption
<1>2. connections' = [x \in DOMAIN connections \cup {r} |->
                         IF x = r THEN Sockets(r) \cup {c} ELSE connections[x]]
    BY DEF Join, SetSockets
<1>3. Sockets(r) \subseteq Clients
    BY DEF TypeOK, Sockets
<1>4. handler' = [handler EXCEPT ![c] = "open"] /\ link' = link
    BY DEF Join
<1>5. TypeOK'
    <2>1. DOMAIN connections' \subseteq Runs
        BY <1>1, <1>2 DEF TypeOK
    <2>2. \A x \in DOMAIN connections' : connections'[x] \subseteq Clients
        BY <1>2, <1>3 DEF TypeOK
    <2>3. handler' \in [Clients -> {"new", "accepted", "open", "gone"}]
        BY <1>4 DEF TypeOK
    <2>4. joined' \in [Clients -> [Senders -> 0..MaxEvents]]
        BY DEF TypeOK, Join
    <2>. QED  BY <2>1, <2>2, <2>3, <2>4 DEF TypeOK, Join
<1>6. \A d \in Sockets(r) : RunOf[d] = r /\ handler[d] = "open"
    BY DEF RegistryMatchesHandlers, Sockets
<1>7. \A x \in DOMAIN connections' :
          /\ connections'[x] # {}
          /\ \A d \in connections'[x] : RunOf[d] = x /\ handler'[d] = "open"
    <2>. SUFFICES ASSUME NEW x \in DOMAIN connections'
                  PROVE  /\ connections'[x] # {}
                         /\ \A d \in connections'[x] : RunOf[d] = x /\ handler'[d] = "open"
        OBVIOUS
    <2>1. \A d \in Clients : handler[d] = "open" => handler'[d] = "open"
        BY <1>4 DEF TypeOK
    <2>2. CASE x = r
        <3>1. connections'[x] = Sockets(r) \cup {c} /\ handler'[c] = "open"
            BY <2>2, <1>2, <1>4 DEF TypeOK
        <3>. QED  BY <3>1, <2>1, <2>2, <1>3, <1>6
    <2>3. CASE x # r
        <3>1. x \in DOMAIN connections /\ connections'[x] = connections[x]
            BY <2>3, <1>2
        <3>2. connections[x] \subseteq Clients
            BY <3>1 DEF TypeOK
        <3>. QED  BY <3>1, <3>2, <2>1 DEF RegistryMatchesHandlers
    <2>. QED  BY <2>2, <2>3
<1>8. \A d \in Clients : handler'[d] = "open" /\ link'[d] = "up" => d \in Sockets(RunOf[d])'
    <2>. SUFFICES ASSUME NEW d \in Clients, handler'[d] = "open", link'[d] = "up"
                  PROVE  d \in Sockets(RunOf[d])'
        OBVIOUS
    <2>1. CASE d = c
        BY <2>1, <1>2 DEF Sockets
    <2>2. CASE d # c
        <3>1. d \in Sockets(RunOf[d])
            BY <2>2, <1>4 DEF TypeOK, RegistryMatchesHandlers
        <3>. QED  BY <3>1, <1>2 DEF Sockets
    <2>. QED  BY <2>1, <2>2
<1>. QED  BY <1>5, <1>7, <1>8 DEF RegistryMatchesHandlers

\* What disconnect does to the registry, when a handler leaves or a broadcast has
\* found sockets dead: no live client goes, and no handler that has gone stays.
LEMMA Disconnected ==
    ASSUME TypeOK, RegistryMatchesHandlers, NEW r, NEW cs,
           \A d \in cs : link[d] = "down",
           connections' = Discarded(r, cs), UNCHANGED link,
           handler' \in [Clients -> {"new", "accepted", "open", "gone"}],
           \A d \in Clients : handler'[d] = handler[d] \/ (d \in cs /\ RunOf[d] = r /\ handler[d] = "open" /\ handler'[d] = "gone")
    PROVE  /\ DOMAIN connections' \subseteq Runs
           /\ \A x \in DOMAIN connections' : connections'[x] \subseteq Clients
           /\ RegistryMatchesHandlers'
<1>1. \A x \in DOMAIN connections : connections[x] # {}
    BY DEF RegistryMatchesHandlers
<1>2. /\ DOMAIN connections' \subseteq DOMAIN connections
      /\ \A x \in DOMAIN connections' :
            /\ connections'[x] # {}
            /\ connections'[x] = IF x = r THEN connections[x] \ cs ELSE connections[x]
      /\ \A x \in DOMAIN connections \ DOMAIN connections' :
            x = r /\ connections[x] \subseteq cs
    BY <1>1, DiscardedProperty
<1>3. ASSUME NEW x \in DOMAIN connections'
      PROVE  connections'[x] \subseteq connections[x] /\ connections'[x] \subseteq Clients
    <2>1. connections[x] \subseteq Clients
        BY <1>2 DEF TypeOK
    <2>2. connections'[x] = IF x = r THEN connections[x] \ cs ELSE connections[x]
        BY <1>2
    <2>. QED  BY <2>1, <2>2
<1>4. \A x \in DOMAIN connections' : \A d \in connections'[x] :
          RunOf[d] = x /\ handler'[d] = "open"
    BY <1>2, <1>3 DEF RegistryMatchesHandlers
<1>5. ASSUME NEW d \in Clients, handler'[d] = "open", link'[d] = "up"
      PROVE  d \in Sockets(RunOf[d])'
    <2>1. d \notin cs /\ handler[d] = "open" /\ link[d] = "up"
        BY <1>5
    <2>2. RunOf[d] \in DOMAIN connections /\ d \in connections[RunOf[d]]
        BY <2>1 DEF RegistryMatchesHandlers, Sockets
    <2>3. RunOf[d] \in DOMAIN connections' /\ d \in connections'[RunOf[d]]
        BY <2>1, <2>2, <1>2
    <2>. QED  BY <2>3 DEF Sockets
<1>. QED  BY <1>2, <1>3, <1>4, <1>5 DEF TypeOK, RegistryMatchesHandlers

LEMMA StepTypeAndRegistry == TypeOK /\ RegistryMatchesHandlers /\ (\A s \in Senders : TaskOK(s))
                                    /\ [Next]_vars
                             => TypeOK' /\ RegistryMatchesHandlers'
<1>. SUFFICES ASSUME TypeOK, RegistryMatchesHandlers, \A s \in Senders : TaskOK(s), [Next]_vars
              PROVE  TypeOK' /\ RegistryMatchesHandlers'
    OBVIOUS
<1>1. ASSUME NEW c \in Clients, Accept(c) PROVE TypeOK' /\ RegistryMatchesHandlers'
    <2>1. /\ handler' \in [Clients -> {"new", "accepted", "open", "gone"}]
          /\ \A d \in Clients : handler'[d] = "open" <=> handler[d] = "open"
        BY <1>1 DEF Accept, TypeOK
    <2>2. UNCHANGED <<connections, link, task, sent, received, joined>>
        BY <1>1 DEF Accept
    <2>3. TypeOK'
        BY <2>1, <2>2 DEF TypeOK
    <2>4. \A r \in DOMAIN connections : connections[r] \subseteq Clients
        BY DEF TypeOK
    <2>. QED  BY <2>1, <2>2, <2>3, <2>4 DEF RegistryMatchesHandlers, Sockets
<1>2. ASSUME NEW c \in Clients, Join(c) PROVE TypeOK' /\ RegistryMatchesHandlers'
    BY <1>2, Joined
<1>3. ASSUME NEW c \in Clients, Leave(c) PROVE TypeOK' /\ RegistryMatchesHandlers'
    <2>1. /\ handler' \in [Clients -> {"new", "accepted", "open", "gone"}]
          /\ handler[c] = "open" /\ handler'[c] = "gone" /\ link[c] = "down"
          /\ \A d \in Clients \ {c} : handler'[d] = handler[d]
          /\ connections' = Discarded(RunOf[c], {c})
          /\ UNCHANGED <<link, task, sent, received, joined>>
        BY <1>3 DEF Leave, TypeOK
    <2>2. /\ DOMAIN connections' \subseteq Runs
          /\ \A x \in DOMAIN connections' : connections'[x] \subseteq Clients
          /\ RegistryMatchesHandlers'
        BY <2>1, Disconnected
    <2>. QED  BY <2>1, <2>2 DEF TypeOK
<1>4. ASSUME NEW c \in Clients, LinkDrops(c) PROVE TypeOK' /\ RegistryMatchesHandlers'
    <2>1. /\ link' \in [Clients -> {"up", "down"}]
          /\ \A d \in Clients : link'[d] = "up" => link[d] = "up"
          /\ UNCHANGED <<connections, handler, task, sent, received, joined>>
        BY <1>4 DEF LinkDrops, TypeOK
    <2>. QED  BY <2>1 DEF TypeOK, RegistryMatchesHandlers, Sockets
<1>5. ASSUME NEW s \in Senders, Snapshot(s) PROVE TypeOK' /\ RegistryMatchesHandlers'
    <2>1. Sockets(RunOf[s]) \subseteq Clients
        BY DEF Sockets, TypeOK
    <2>2. sent' \in [Senders -> 0..MaxEvents]
        BY <1>5, MaxEventsAssumption DEF Snapshot, TypeOK
    <2>3. task' \in [Senders -> [busy : BOOLEAN, todo : SUBSET Clients, dead : SUBSET Clients]]
        BY <1>5, <2>1 DEF Snapshot, TypeOK
    <2>4. UNCHANGED <<connections, handler, link, received, joined>>
        BY <1>5 DEF Snapshot
    <2>. QED  BY <2>2, <2>3, <2>4 DEF TypeOK, RegistryMatchesHandlers, Sockets
<1>6. ASSUME NEW s \in Senders, Send(s) PROVE TypeOK' /\ RegistryMatchesHandlers'
    <2>1. PICK c \in task[s].todo, dead \in SUBSET Clients :
              /\ task' = [task EXCEPT ![s] = [busy |-> TRUE, todo |-> task[s].todo \ {c},
                                              dead |-> task[s].dead \cup dead]]
              /\ \/ received' = [received EXCEPT ![c][s] = Append(@, sent[s])]
                 \/ UNCHANGED received
        <3>1. task[s].todo \subseteq Clients
            BY DEF TypeOK
        <3>2. PICK c \in task[s].todo : \E dead \in SUBSET {c} :
                  /\ task' = [task EXCEPT ![s] = [busy |-> TRUE, todo |-> task[s].todo \ {c},
                                                  dead |-> task[s].dead \cup dead]]
                  /\ \/ received' = [received EXCEPT ![c][s] = Append(@, sent[s])]
                     \/ UNCHANGED received
            BY <1>6 DEF Send
        <3>. QED  BY <3>1, <3>2
    <2>2. UNCHANGED <<connections, handler, link, sent, joined>>
        BY <1>6 DEF Send
    <2>3. c \in Clients /\ sent[s] \in 1..MaxEvents
        <3>1. c \in Clients /\ sent[s] \in 0..MaxEvents
            BY DEF TypeOK
        <3>2. joined[c][s] \in 0..MaxEvents /\ joined[c][s] < sent[s]
            BY <3>1 DEF TypeOK, TaskOK
        <3>. QED  BY <3>1, <3>2, MaxEventsAssumption
    <2>4. received' \in [Clients -> [Senders -> Seq(1..MaxEvents)]]
        <3>1. received[c][s] \in Seq(1..MaxEvents)
            BY <2>3 DEF TypeOK
        <3>. DEFINE more == Append(received[c][s], sent[s])
        <3>2. more \in Seq(1..MaxEvents)
            BY <2>3, <3>1
        <3>. HIDE DEF more
        <3>3. [received EXCEPT ![c][s] = more] \in [Clients -> [Senders -> Seq(1..MaxEvents)]]
            BY <2>3, <3>2 DEF TypeOK
        <3>. QED  BY <2>1, <3>3 DEF TypeOK, more
    <2>5. task' \in [Senders -> [busy : BOOLEAN, todo : SUBSET Clients, dead : SUBSET Clients]]
        BY <2>1, <2>3 DEF TypeOK
    <2>. QED  BY <2>2, <2>4, <2>5 DEF TypeOK, RegistryMatchesHandlers, Sockets
<1>7. ASSUME NEW s \in Senders, Finish(s) PROVE TypeOK' /\ RegistryMatchesHandlers'
    <2>1. /\ connections' = Discarded(RunOf[s], task[s].dead)
          /\ UNCHANGED <<handler, link, sent, received, joined>>
          /\ task' = [task EXCEPT ![s] = Idle]
        BY <1>7 DEF Finish
    <2>2. \A d \in task[s].dead : link[d] = "down"
        BY DEF TaskOK
    <2>3. /\ handler' \in [Clients -> {"new", "accepted", "open", "gone"}]
          /\ \A d \in Clients : handler'[d] = handler[d]
        BY <2>1 DEF TypeOK
    <2>4. /\ DOMAIN connections' \subseteq Runs
          /\ \A x \in DOMAIN connections' : connections'[x] \subseteq Clients
          /\ RegistryMatchesHandlers'
        BY <2>1, <2>2, <2>3, Disconnected
    <2>5. task' \in [Senders -> [busy : BOOLEAN, todo : SUBSET Clients, dead : SUBSET Clients]]
        BY <2>1 DEF TypeOK, Idle
    <2>. QED  BY <2>1, <2>3, <2>4, <2>5 DEF TypeOK
<1>8. CASE UNCHANGED vars
    BY <1>8 DEF vars, TypeOK, RegistryMatchesHandlers, Sockets
<1>. QED  BY <1>1, <1>2, <1>3, <1>4, <1>5, <1>6, <1>7, <1>8 DEF Next, Handle, Broadcast

LEMMA StepTasks ==
    ASSUME IInv, [Next]_vars
    PROVE  (\A s \in Senders : TaskOK(s)') /\ (\A c \in Clients : ClientOK(c)')
<1>. USE DEF IInv
<1>1. ASSUME NEW c \in Clients, Accept(c)
      PROVE  (\A s \in Senders : TaskOK(s)') /\ (\A d \in Clients : ClientOK(d)')
    <2>1. /\ \A d \in Clients : /\ handler[d] \in {"open", "gone"} => handler'[d] = handler[d]
                                /\ handler'[d] \in {"new", "accepted"} => handler[d] \in {"new", "accepted"}
          /\ UNCHANGED <<connections, link, task, sent, received, joined>>
        BY <1>1 DEF Accept, TypeOK
    <2>2. \A s \in Senders : task[s].todo \subseteq Clients
        BY DEF TypeOK
    <2>. QED  BY <2>1, <2>2 DEF TaskOK, ClientOK
<1>2. ASSUME NEW c \in Clients, Join(c)
      PROVE  (\A s \in Senders : TaskOK(s)') /\ (\A d \in Clients : ClientOK(d)')
    <2>1. /\ handler[c] = "accepted" /\ handler'[c] = "open" /\ joined'[c] = sent
          /\ \A d \in Clients \ {c} : handler'[d] = handler[d] /\ joined'[d] = joined[d]
          /\ UNCHANGED <<link, task, sent, received>>
        BY <1>2 DEF Join, TypeOK
    <2>2. \A s \in Senders : task[s].todo \subseteq Clients \ {c}
        BY <2>1 DEF TypeOK, TaskOK
    <2>3. \A s \in Senders : TaskOK(s)'
        BY <2>1, <2>2 DEF TaskOK
    <2>4. \A s \in Senders : sent[s] \in Nat
        BY MaxEventsAssumption DEF TypeOK
    <2>5. \A d \in Clients : ClientOK(d)'
        BY <2>1, <2>4 DEF ClientOK
    <2>. QED  BY <2>3, <2>5
<1>3. ASSUME NEW c \in Clients, Leave(c)
      PROVE  (\A s \in Senders : TaskOK(s)') /\ (\A d \in Clients : ClientOK(d)')
    <2>1. /\ handler'[c] = "gone" /\ \A d \in Clients \ {c} : handler'[d] = handler[d]
          /\ UNCHANGED <<link, task, sent, received, joined>>
        BY <1>3 DEF Leave, TypeOK
    <2>2. \A s \in Senders : task[s].todo \subseteq Clients
        BY DEF TypeOK
    <2>. QED  BY <2>1, <2>2 DEF TaskOK, ClientOK
<1>4. ASSUME NEW c \in Clients, LinkDrops(c)
      PROVE  (\A s \in Senders : TaskOK(s)') /\ (\A d \in Clients : ClientOK(d)')
    <2>1. /\ \A d \in Clients : link[d] = "down" => link'[d] = "down"
          /\ UNCHANGED <<connections, handler, task, sent, received, joined>>
        BY <1>4 DEF LinkDrops, TypeOK
    <2>2. \A s \in Senders : task[s].dead \subseteq Clients
        BY DEF TypeOK
    <2>. QED  BY <2>1, <2>2 DEF TaskOK, ClientOK
<1>5. ASSUME NEW s \in Senders, Snapshot(s)
      PROVE  (\A t \in Senders : TaskOK(t)') /\ (\A d \in Clients : ClientOK(d)')
    <2>1. /\ sent'[s] = sent[s] + 1
          /\ task'[s] = [busy |-> TRUE, todo |-> Sockets(RunOf[s]), dead |-> {}]
          /\ \A t \in Senders \ {s} : sent'[t] = sent[t] /\ task'[t] = task[t]
          /\ UNCHANGED <<connections, handler, link, received, joined>>
        BY <1>5 DEF Snapshot, TypeOK
    <2>2. \A d \in Sockets(RunOf[s]) : d \in Clients /\ RunOf[d] = RunOf[s] /\ handler[d] = "open"
        BY DEF Sockets, TypeOK, RegistryMatchesHandlers
    <2>3. \A t \in Senders : /\ sent[t] \in Nat
                             /\ \A d \in Clients : joined[d][t] \in Nat /\ joined[d][t] <= sent[t]
        BY MaxEventsAssumption DEF TypeOK, ClientOK
    <2>4. TaskOK(s)'
        BY <2>1, <2>2, <2>3 DEF TaskOK
    <2>5. \A t \in Senders \ {s} : TaskOK(t)'
        BY <2>1 DEF TaskOK
    <2>6. \A d \in Clients : ClientOK(d)'
        <3>1. \A t \in Senders, d \in Clients : joined'[d][t] <= sent'[t]
            BY <2>1, <2>3
        <3>. QED  BY <3>1, <2>1 DEF ClientOK
    <2>. QED  BY <2>4, <2>5, <2>6
<1>6. ASSUME NEW s \in Senders, Send(s)
      PROVE  (\A t \in Senders : TaskOK(t)') /\ (\A d \in Clients : ClientOK(d)')
    <2>1. UNCHANGED <<connections, handler, link, sent, joined>>
        BY <1>6 DEF Send
    <2>2. PICK c \in task[s].todo : \E dead \in SUBSET {c} :
              /\ task' = [task EXCEPT ![s] = [busy |-> TRUE, todo |-> task[s].todo \ {c},
                                              dead |-> task[s].dead \cup dead]]
              /\ \/ /\ link[c] = "up" /\ dead = {}
                    /\ received' = [received EXCEPT ![c][s] = Append(@, sent[s])]
                 \/ link[c] = "down" /\ UNCHANGED received
        BY <1>6 DEF Send
    <2>3. c \in Clients /\ handler[c] \notin {"new", "accepted"}
        BY DEF TypeOK, TaskOK
    <2>4. /\ task'[s].busy /\ task'[s].todo = task[s].todo \ {c}
          /\ \A d \in task'[s].dead : link[d] = "down"
          /\ \A t \in Senders \ {s} : task'[t] = task[t]
        BY <2>2 DEF TypeOK, TaskOK
    <2>5. \A t \in Senders : TaskOK(t)'
        <3>1. TaskOK(s)'
            BY <2>1, <2>4 DEF TaskOK
        <3>2. \A t \in Senders \ {s} : TaskOK(t)'
            BY <2>1, <2>4 DEF TaskOK
        <3>. QED  BY <3>1, <3>2
    <2>6. \A d \in Clients \ {c} : received'[d] = received[d]
        BY <2>2 DEF TypeOK
    <2>. QED  BY <2>1, <2>3, <2>5, <2>6 DEF ClientOK
<1>7. ASSUME NEW s \in Senders, Finish(s)
      PROVE  (\A t \in Senders : TaskOK(t)') /\ (\A d \in Clients : ClientOK(d)')
    <2>1. /\ task'[s] = Idle /\ \A t \in Senders \ {s} : task'[t] = task[t]
          /\ UNCHANGED <<handler, link, sent, received, joined>>
        BY <1>7 DEF Finish, TypeOK
    <2>. QED  BY <2>1 DEF TaskOK, ClientOK, Idle
<1>8. CASE UNCHANGED vars
    BY <1>8 DEF vars, TaskOK, ClientOK
<1>. QED  BY <1>1, <1>2, <1>3, <1>4, <1>5, <1>6, <1>7, <1>8 DEF Next, Handle, Broadcast

\* A step that changes nothing of what a live client has been sent or is due.
LEMMA QuietStep ==
    ASSUME NoGaps, NEW c \in Clients, Live(c), UNCHANGED <<sent, task>>,
           received'[c] = received[c], joined'[c] = joined[c]
    PROVE  \A s \in Senders : received'[c][s] = Due(c, s)'
BY DEF NoGaps, Live, Due, Numbers

LEMMA StepNoGaps ==
    ASSUME IInv, [Next]_vars
    PROVE  NoGaps'
<1>. USE DEF IInv
<1>. SUFFICES ASSUME NEW c \in Clients, Live(c)'
              PROVE  \A s \in Senders : received'[c][s] = Due(c, s)'
    BY DEF NoGaps, Live
<1>0. \A s \in Senders : sent[s] \in Nat /\ joined[c][s] \in Nat /\ joined[c][s] <= sent[s]
    BY MaxEventsAssumption DEF TypeOK, ClientOK
<1>1. ASSUME NEW d \in Clients, Accept(d) PROVE \A s \in Senders : received'[c][s] = Due(c, s)'
    <2>1. Live(c)
        BY <1>1 DEF Accept, Live, TypeOK
    <2>. QED  BY <1>1, <2>1, QuietStep DEF Accept
<1>2. ASSUME NEW d \in Clients, Join(d) PROVE \A s \in Senders : received'[c][s] = Due(c, s)'
    <2>1. UNCHANGED <<link, task, sent, received>>
        BY <1>2 DEF Join
    <2>2. CASE c # d
        <3>1. Live(c) /\ joined'[c] = joined[c]
            BY <1>2, <2>2 DEF Join, Live, TypeOK
        <3>. QED  BY <2>1, <3>1, QuietStep
    <2>3. CASE c = d
        <3>1. handler[c] = "accepted" /\ joined'[c] = sent
            BY <1>2, <2>3 DEF Join, TypeOK
        <3>2. ASSUME NEW s \in Senders PROVE received'[c][s] = Due(c, s)'
            <4>1. received[c][s] = <<>>
                BY <3>1 DEF ClientOK
            <4>2. c \notin task[s].todo
                BY <3>1 DEF TaskOK
            <4>3. CASE RunOf[c] # RunOf[s]
                BY <2>1, <4>1, <4>3 DEF Due
            <4>4. CASE RunOf[c] = RunOf[s]
                <5>1. Due(c, s)' = Numbers(sent[s] + 1, sent[s])
                    BY <2>1, <3>1, <4>2, <4>4 DEF Due, Numbers
                <5>. QED  BY <2>1, <4>1, <5>1, <1>0, NumbersEmpty
            <4>. QED  BY <4>3, <4>4
        <3>. QED  BY <3>2
    <2>. QED  BY <2>2, <2>3
<1>3. ASSUME NEW d \in Clients, Leave(d) PROVE \A s \in Senders : received'[c][s] = Due(c, s)'
    <2>1. Live(c)
        BY <1>3 DEF Leave, Live, TypeOK
    <2>. QED  BY <1>3, <2>1, QuietStep DEF Leave
<1>4. ASSUME NEW d \in Clients, LinkDrops(d) PROVE \A s \in Senders : received'[c][s] = Due(c, s)'
    <2>1. Live(c)
        BY <1>4 DEF LinkDrops, Live, TypeOK
    <2>. QED  BY <1>4, <2>1, QuietStep DEF LinkDrops
<1>5. ASSUME NEW s \in Senders, Snapshot(s) PROVE \A t \in Senders : received'[c][t] = Due(c, t)'
    <2>1. /\ ~task[s].busy /\ sent'[s] = sent[s] + 1 /\ task'[s].todo = Sockets(RunOf[s])
          /\ \A t \in Senders \ {s} : sent'[t] = sent[t] /\ task'[t] = task[t]
          /\ UNCHANGED <<connections, handler, link, received, joined>>
        BY <1>5 DEF Snapshot, TypeOK
    <2>2. Live(c)
        BY <2>1 DEF Live
    <2>3. \A t \in Senders : received[c][t] = Due(c, t)
        BY <2>2 DEF NoGaps, Live
    <2>4. \A t \in Senders \ {s} : Due(c, t)' = Due(c, t)
        BY <2>1 DEF Due, Numbers
    <2>5. Due(c, s)' = Due(c, s)
        <3>1. CASE RunOf[c] # RunOf[s]
            BY <3>1 DEF Due
        <3>2. CASE RunOf[c] = RunOf[s]
            <4>1. c \in Sockets(RunOf[s]) /\ c \notin task[s].todo
                BY <2>1, <2>2, <3>2 DEF RegistryMatchesHandlers, Live, TaskOK
            <4>2. sent'[s] - 1 = sent[s]
                BY <2>1, <1>0
            <4>3. Due(c, s) = Numbers(joined[c][s] + 1, sent[s])
                BY <4>1, <3>2 DEF Due
            <4>4. Due(c, s)' = Numbers(joined[c][s] + 1, sent[s])
                BY <2>1, <3>2, <4>1, <4>2 DEF Due, Numbers
            <4>. QED  BY <4>3, <4>4
        <3>. QED  BY <3>1, <3>2
    <2>. QED  BY <2>1, <2>3, <2>4, <2>5
<1>6. ASSUME NEW s \in Senders, Send(s) PROVE \A t \in Senders : received'[c][t] = Due(c, t)'
    <2>0. PICK d \in task[s].todo : \E dead \in SUBSET {d} :
              /\ task' = [task EXCEPT ![s] = [busy |-> TRUE, todo |-> task[s].todo \ {d},
                                              dead |-> task[s].dead \cup dead]]
              /\ \/ link[d] = "up" /\ received' = [received EXCEPT ![d][s] = Append(@, sent[s])]
                 \/ link[d] = "down" /\ UNCHANGED received
        BY <1>6 DEF Send
    <2>1. UNCHANGED <<connections, handler, link, sent, joined>>
        BY <1>6 DEF Send
    <2>2. /\ d \in Clients
          /\ task'[s].todo = task[s].todo \ {d}
          /\ \A t \in Senders \ {s} : task'[t] = task[t]
          /\ link[d] = "up" => received' = [received EXCEPT ![d][s] = Append(@, sent[s])]
          /\ link[d] = "down" => UNCHANGED received
        BY <2>0 DEF TypeOK
    <2>3. Live(c) /\ \A t \in Senders : received[c][t] = Due(c, t)
        BY <2>1 DEF Live, NoGaps
    <2>4. ASSUME NEW t \in Senders, ~(t = s /\ c = d) PROVE received'[c][t] = Due(c, t)'
        <3>1. received'[c][t] = received[c][t]
            <4>. DEFINE more == Append(received[d][s], sent[s])
            <4>1. received' = [received EXCEPT ![d][s] = more] \/ UNCHANGED received
                BY <2>0
            <4>. HIDE DEF more
            <4>2. [received EXCEPT ![d][s] = more][c][t] = received[c][t]
                BY <2>2, <2>4 DEF TypeOK
            <4>. QED  BY <4>1, <4>2
        <3>2. c \in task'[t].todo <=> c \in task[t].todo
            BY <2>2, <2>4
        <3>3. Due(c, t)' = Due(c, t)
            BY <2>1, <3>2 DEF Due, Numbers
        <3>. QED  BY <2>3, <3>1, <3>3
    <2>5. ASSUME c = d PROVE received'[c][s] = Due(c, s)'
        <3>1. link[c] = "up"
            BY <2>3 DEF Live
        <3>2. received'[c][s] = Append(received[c][s], sent[s])
            BY <2>2, <2>5, <3>1 DEF TypeOK
        <3>3. RunOf[c] = RunOf[s] /\ joined[c][s] < sent[s]
            BY <2>2, <2>5 DEF TaskOK
        <3>4. received[c][s] = Numbers(joined[c][s] + 1, sent[s] - 1)
            BY <2>2, <2>3, <2>5, <3>3 DEF Due
        <3>5. Due(c, s)' = Numbers(joined[c][s] + 1, sent[s])
            BY <2>1, <2>2, <2>5, <3>3 DEF Due, Numbers
        <3>6. Append(Numbers(joined[c][s] + 1, sent[s] - 1), sent[s]) = Numbers(joined[c][s] + 1, sent[s])
            BY <1>0, <3>3, NumbersAppend
        <3>. QED  BY <3>2, <3>4, <3>5, <3>6
    <2>. QED  BY <2>4, <2>5
<1>7. ASSUME NEW s \in Senders, Finish(s) PROVE \A t \in Senders : received'[c][t] = Due(c, t)'
    <2>1. /\ task[s].todo = {} /\ task'[s].todo = {}
          /\ \A t \in Senders \ {s} : task'[t] = task[t]
          /\ UNCHANGED <<handler, link, sent, received, joined>>
        BY <1>7 DEF Finish, TypeOK, Idle
    <2>2. \A t \in Senders : received[c][t] = Due(c, t)
        BY <2>1 DEF Live, NoGaps
    <2>3. \A t \in Senders : Due(c, t)' = Due(c, t)
        BY <2>1 DEF Due, Numbers
    <2>. QED  BY <2>1, <2>2, <2>3
<1>8. CASE UNCHANGED vars
    <2>1. Live(c)
        BY <1>8 DEF vars, Live
    <2>. QED  BY <1>8, <2>1, QuietStep DEF vars
<1>. QED  BY <1>1, <1>2, <1>3, <1>4, <1>5, <1>6, <1>7, <1>8 DEF Next, Handle, Broadcast

-----------------------------------------------------------------------------
(* The theorems                                                            *)

LEMMA Invariance == Spec => []IInv
<1>1. IInv /\ [Next]_vars => IInv'
    <2>. SUFFICES ASSUME IInv, [Next]_vars PROVE IInv'
        OBVIOUS
    <2>1. TypeOK' /\ RegistryMatchesHandlers'
        BY StepTypeAndRegistry DEF IInv
    <2>2. (\A s \in Senders : TaskOK(s)') /\ (\A c \in Clients : ClientOK(c)')
        BY StepTasks
    <2>3. NoGaps'
        BY StepNoGaps
    <2>. QED  BY <2>1, <2>2, <2>3 DEF IInv
<1>. QED  BY InitIInv, <1>1, PTL DEF Spec

\* Every variable keeps its type; no event number exceeds MaxEvents.
THEOREM TypeCorrect == Spec => []TypeOK
<1>1. IInv => TypeOK
    BY DEF IInv
<1>. QED  BY <1>1, Invariance, PTL

\* connect, disconnect and broadcast keep _connections in step with the handlers: no
\* empty entry, no socket of another run or of a handler that has ended, and
\* every client whose connection works.
THEOREM RegistryCorrect == Spec => []RegistryMatchesHandlers
<1>1. IInv => RegistryMatchesHandlers
    BY DEF IInv
<1>. QED  BY <1>1, Invariance, PTL

\* For any number of clients, branches and events, however they join, leave, fail
\* and overlap, broadcast() costs no client with a working connection an event, nor
\* sends it one twice or out of its branch's order.
THEOREM DeliveryHasNoGaps == Spec => []NoGaps
<1>1. IInv => NoGaps
    BY DEF IInv
<1>. QED  BY <1>1, Invariance, PTL
=============================================================================
