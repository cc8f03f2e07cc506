----------------------------- MODULE MCWsManager -----------------------------
(* Small instances of WsManager. *)
EXTENDS WsManager

CONSTANTS
    r1, r2,
    Strangers  \* the clients and senders of r2; the others belong to r1

MCRunOf == [x \in Clients \cup Senders |-> IF x \in Strangers THEN r2 ELSE r1]
=============================================================================
