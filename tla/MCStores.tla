------------------------------- MODULE MCStores -------------------------------
(* Small instances of Stores. *)
EXTENDS Stores

CONSTANTS a1, v1, v2

Op(kind, via, key, value, size) ==
    [kind |-> kind, via |-> via, entry |-> <<a1, key>>, value |-> value, size |-> size]

\* Two values to set; documents of one and of two chunks.
MCOps ==
    UNION {{Op("set", "mcp", k, v1, 0), Op("set", "rest", k, v2, 0),
            Op("get", "mcp", k, None, 0), Op("delete", "mcp", k, None, 0),
            Op("forget", "tool", k, None, 0)} : k \in Keys}
    \cup UNION {{Op("drop", "rest", k, None, 0), Op("remove", "rest", k, None, 0),
                 Op("add", "mcp", k, None, 1), Op("add", "rest", k, None, 2)} : k \in {CHOOSE k \in Keys : TRUE}}
=============================================================================
