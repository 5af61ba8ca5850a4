-------------------------------- MODULE MCKV --------------------------------
(***************************************************************************)
(* Small sets of servers, calls and requests for module KVServer.          *)
(***************************************************************************)
EXTENDS KVSafety, TLC

CONSTANTS k1, a, b

\* One key: a value that a Put writes, and one that an Append adds, so that a write
\* that is lost, repeated or out of order shows in what a Get returns.
PutA    == [kind |-> "Put", key |-> k1, value |-> <<a>>]
AppendB == [kind |-> "Append", key |-> k1, value |-> <<b>>]
GetK    == [kind |-> "Get", key |-> k1, value |-> << >>]

AppendsAndReads == {AppendB, GetK}
PutsAndReads == {PutA, GetK}
Puts == {PutA}

Symmetry == Permutations(Server) \cup Permutations(Call)
=============================================================================
