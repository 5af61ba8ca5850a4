--------------------------- MODULE RaftRefinement ---------------------------
(***************************************************************************)
(* The nodes of module Raft keep the promise of module ReplicatedLog, as   *)
(* long as none of them restarts: a restart empties the key-value store    *)
(* above the node too, and both begin again.                               *)
(***************************************************************************)
EXTENDS MCRaft

\* The longest sequence any node has pushed.
Chosen == CHOOSE a \in {applied[s] : s \in Server} :
            \A s \in Server : Len(applied[s]) <= Len(a)

Promise == INSTANCE ReplicatedLog WITH
  Entry  <- [term : 0 .. MaxTerm, command : Command],
  MaxLen <- MaxLogLen,
  leads  <- [s \in Server |-> state[s] = "Leader"],
  pushed <- [s \in Server |-> Len(applied[s])],
  chosen <- Chosen

\* Every step of every handler is a step of the replicated log, or none: an entry
\* is pushed by all nodes at one index, and only one that start() put there.
KeepsPromise == Promise!LogSpec
=============================================================================
