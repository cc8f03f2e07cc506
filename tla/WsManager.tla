------------------------------ MODULE WsManager ------------------------------
(***************************************************************************)
(* ConnectionManager of ws_manager.py and its two kinds of users: the      *)
(* WebSocket handlers of routers/workflow_runs.py, one per connection, and *)
(* the branches of the running graphs, which broadcast the events of their *)
(* run.  The lock is never held across an await, so nobody ever waits for  *)
(* it and each critical section is part of one step; what interleaves is   *)
(* the sends, each of which may suspend, with the comings and goings.      *)
(***************************************************************************)
EXTENDS Integers, Sequences, FiniteSets

CONSTANTS
    Runs,      \* run ids
    Clients,   \* WebSocket connections; a client that reconnects is a new one
    Senders,   \* branches of the graphs: two of one run may broadcast at a time
    RunOf,     \* the run a client watches and a sender belongs to
    MaxEvents  \* bound: events per sender

ASSUME ActorsAssumption == Clients \cap Senders = {}
ASSUME RunOfAssumption == RunOf \in [Clients \cup Senders -> Runs]
ASSUME MaxEventsAssumption == MaxEvents \in Nat

VARIABLES
    connections,  \* _connections: the sockets of each run that has an entry
    handler,      \* where the handler of each client is
    link,         \* the TCP connection of each client
    task,         \* each sender's broadcast: its sockets to go and its dead
    sent,         \* number of events each sender has begun to broadcast
    received,     \* the events each client has got from each sender
    joined        \* history: sent, when the client was registered

vars == <<connections, handler, link, task, sent, received, joined>>

Idle == [busy |-> FALSE, todo |-> {}, dead |-> {}]

Init ==
    /\ connections = [r \in {} |-> {}]
    /\ handler = [c \in Clients |-> "new"]
    /\ link = [c \in Clients |-> "up"]
    /\ task = [s \in Senders |-> Idle]
    /\ sent = [s \in Senders |-> 0]
    /\ received = [c \in Clients |-> [s \in Senders |-> <<>>]]
    /\ joined = [c \in Clients |-> [s \in Senders |-> 0]]

\* self._connections.get(run_id, set())
Sockets(r) == IF r \in DOMAIN connections THEN connections[r] ELSE {}

SetSockets(r, cs) ==
    [x \in DOMAIN connections \cup {r} |-> IF x = r THEN cs ELSE connections[x]]

DropEntry(r) == [x \in DOMAIN connections \ {r} |-> connections[x]]

-----------------------------------------------------------------------------
(* Plausible mistakes, each a wrong version of the definition it is named  *)
(* after; no specification uses them.  The properties must reject them.    *)

\* disconnect() without the `del`: empty entries pile up, one per run.
DiscardedKeepsEntry(r, cs) == SetSockets(r, Sockets(r) \ cs)

\* The handler returns on WebSocketDisconnect without the finally clause.
LeaveUnregistered(c) ==
    /\ handler[c] = "open" /\ link[c] = "down"
    /\ handler' = [handler EXCEPT ![c] = "gone"]
    /\ UNCHANGED <<connections, link, task, sent, received, joined>>

\* The try is around the loop: one failed send ends the broadcast.
SendAborts(s) ==
    \E c \in task[s].todo :
        /\ IF link[c] = "up"
           THEN /\ received' = [received EXCEPT ![c][s] = Append(@, sent[s])]
                /\ task' = [task EXCEPT ![s].todo = @ \ {c}]
           ELSE /\ task' = [task EXCEPT ![s].todo = {}, ![s].dead = @ \cup {c}]
                /\ UNCHANGED received
        /\ UNCHANGED <<connections, handler, link, sent, joined>>

\* A failed send is tried again.
SendRetries(s) ==
    \E c \in task[s].todo :
        /\ IF link[c] = "up"
           THEN /\ received' = [received EXCEPT ![c][s] = Append(@, sent[s])]
                /\ task' = [task EXCEPT ![s].todo = @ \ {c}]
           ELSE UNCHANGED <<received, task>>
        /\ UNCHANGED <<connections, handler, link, sent, joined>>

-----------------------------------------------------------------------------
(* The handler of a connection                                             *)

\* disconnect(): discard the sockets; the entry goes with the last of them.
Discarded(r, cs) ==
    IF Sockets(r) \subseteq cs THEN DropEntry(r)
                               ELSE SetSockets(r, Sockets(r) \ cs)

\* await websocket.accept(): raises if the client has gone.
Accept(c) ==
    /\ handler[c] = "new"
    /\ handler' = [handler EXCEPT ![c] = IF link[c] = "up" THEN "accepted" ELSE "gone"]
    /\ UNCHANGED <<connections, link, task, sent, received, joined>>

\* The critical section of connect(), and on to receive_text().
Join(c) ==
    /\ handler[c] = "accepted"
    /\ handler' = [handler EXCEPT ![c] = "open"]
    /\ connections' = SetSockets(RunOf[c], Sockets(RunOf[c]) \cup {c})
    /\ joined' = [joined EXCEPT ![c] = sent]
    /\ UNCHANGED <<link, task, sent, received>>

\* receive_text() raises WebSocketDisconnect; finally: disconnect().
Leave(c) ==
    /\ handler[c] = "open" /\ link[c] = "down"
    /\ handler' = [handler EXCEPT ![c] = "gone"]
    /\ connections' = Discarded(RunOf[c], {c})
    /\ UNCHANGED <<link, task, sent, received, joined>>

\* The client closes, or its network fails, at any time.
LinkDrops(c) ==
    /\ link[c] = "up"
    /\ link' = [link EXCEPT ![c] = "down"]
    /\ UNCHANGED <<connections, handler, task, sent, received, joined>>

-----------------------------------------------------------------------------
(* A broadcast                                                             *)

\* The critical section of broadcast(): the sockets as they are now.
Snapshot(s) ==
    /\ ~task[s].busy /\ sent[s] < MaxEvents
    /\ sent' = [sent EXCEPT ![s] = @ + 1]
    /\ task' = [task EXCEPT ![s] = [busy |-> TRUE, todo |-> Sockets(RunOf[s]),
                                    dead |-> {}]]
    /\ UNCHANGED <<connections, handler, link, received, joined>>

\* await ws.send_text(...) to the next socket, in the order of the set.  On a
\* lost connection it raises, or the bytes go nowhere.
Send(s) ==
    \E c \in task[s].todo : \E dead \in SUBSET {c} :
        /\ task' = [task EXCEPT ![s] = [busy |-> TRUE, todo |-> @.todo \ {c},
                                        dead |-> @.dead \cup dead]]
        /\ \/ /\ link[c] = "up" /\ dead = {}
              /\ received' = [received EXCEPT ![c][s] = Append(@, sent[s])]
           \/ link[c] = "down" /\ UNCHANGED received
        /\ UNCHANGED <<connections, handler, link, sent, joined>>

\* The last send has returned: for ws in dead: await self.disconnect(...)
Finish(s) ==
    /\ task[s].busy /\ task[s].todo = {}
    /\ connections' = Discarded(RunOf[s], task[s].dead)
    /\ task' = [task EXCEPT ![s] = Idle]
    /\ UNCHANGED <<handler, link, sent, received, joined>>

-----------------------------------------------------------------------------

Handle(c) == Accept(c) \/ Join(c) \/ Leave(c)

Broadcast(s) == Snapshot(s) \/ Send(s) \/ Finish(s)

Next ==
    \/ \E c \in Clients : Handle(c) \/ LinkDrops(c)
    \/ \E s \in Senders : Broadcast(s)

Spec == Init /\ [][Next]_vars

\* The event loop runs a handler whose accept or receive has ended, and a send
\* returns or raises.  The code has no time limit on a send: that one is the
\* server's, which closes a connection whose pings are not answered.
Fairness ==
    /\ \A c \in Clients : WF_vars(Handle(c))
    /\ \A s \in Senders : WF_vars(Send(s) \/ Finish(s))

FairSpec == Spec /\ Fairness

-----------------------------------------------------------------------------
(* Properties                                                              *)

\* The type invariant.
TypeOK ==
    /\ DOMAIN connections \subseteq Runs
    /\ \A r \in DOMAIN connections : connections[r] \subseteq Clients
    /\ handler \in [Clients -> {"new", "accepted", "open", "gone"}]
    /\ link \in [Clients -> {"up", "down"}]
    /\ task \in [Senders -> [busy : BOOLEAN, todo : SUBSET Clients, dead : SUBSET Clients]]
    /\ sent \in [Senders -> 0..MaxEvents]
    /\ received \in [Clients -> [Senders -> Seq(1..MaxEvents)]]
    /\ joined \in [Clients -> [Senders -> 0..MaxEvents]]

\* An entry of _connections is never empty, and holds open sockets of its run
\* only; a client whose connection is up stays registered, whatever other
\* clients' sends failed.
RegistryMatchesHandlers ==
    /\ \A r \in DOMAIN connections :
          /\ connections[r] # {}
          /\ \A c \in connections[r] : RunOf[c] = r /\ handler[c] = "open"
    /\ \A c \in Clients :
          handler[c] = "open" /\ link[c] = "up" => c \in Sockets(RunOf[c])

\* The numbers first..last, in order.
Numbers(first, last) == [i \in 1..(last - first + 1) |-> first + i - 1]

\* The events of sender s that client c is due: those that began after c was
\* registered, except the one that is still on its way to c.
Due(c, s) ==
    IF RunOf[c] # RunOf[s] THEN <<>>
    ELSE Numbers(joined[c][s] + 1,
                 IF c \in task[s].todo THEN sent[s] - 1 ELSE sent[s])

\* A registered client with a working connection has every event of its run
\* that was broadcast since, once and in each sender's order, and nothing of
\* another run: no failing or leaving client costs it an event.
NoGaps ==
    \A c \in Clients :
        handler[c] = "open" /\ link[c] = "up" =>
            \A s \in Senders : received[c][s] = Due(c, s)

\* Every broadcast ends, and the run goes on, if every send returns or raises.
BroadcastsEnd == \A s \in Senders : task[s].busy ~> ~task[s].busy

\* A client that has gone leaves the registry for good, even if it went while
\* it was still being accepted.
ClosedClientsLeave ==
    \A c \in Clients : link[c] = "down" ~> [](c \notin Sockets(RunOf[c]))
=============================================================================
