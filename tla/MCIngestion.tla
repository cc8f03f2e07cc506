----------------------------- MODULE MCIngestion -----------------------------
(* Small instances of Ingestion. *)
EXTENDS Ingestion, TLC

\* An agent runs once, a graph may loop.
MCMaxScans == [r \in Runs |-> IF r \in Agents THEN 1 ELSE 2]

\* Runs of one kind, the names and the seconds are interchangeable.
Symmetry ==
    UNION {Permutations(S) : S \in {Names, Seconds, Agents, Runs \ Agents}}
=============================================================================
