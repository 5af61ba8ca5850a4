------------------------------- MODULE MCRaft -------------------------------
(***************************************************************************)
(* Small clusters of module Raft for TLC.                                  *)
(***************************************************************************)
EXTENDS RaftInductive, TLC

\* The nodes whose timer may expire are interchangeable, and so are the others.
Symmetry == {p \in Permutations(Server) : \A s \in Timers : p[s] \in Timers}

\* States without what no step reads before it is reset: the history of votes, and
\* the indexes and votes of nodes that do not lead or stand.  The properties of a
\* run that uses this view do not read them either.
LiveState ==
  LET Of(S, f) == [s \in {t \in Server : state[t] \in S} |-> f[s]]
  IN <<currentTerm, votedFor, state, electing, toAsk, logVars, voteRpcs, appendRpcs,
       persisted, restarts, started, Of({"Candidate"}, votesGranted),
       Of({"Leader"}, nextIndex), Of({"Leader"}, matchIndex)>>
=============================================================================
