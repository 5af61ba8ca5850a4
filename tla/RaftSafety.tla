----------------------------- MODULE RaftSafety -----------------------------
(***************************************************************************)
(* What the nodes of module Raft must keep true together.                  *)
(***************************************************************************)
EXTENDS Raft

TermAndVote == [term : Nat, votedFor : Server \cup {Nil}, log : Seq(Entry)]

\* Every variable of raft.cpp's node, and every pending call, has its type.
TypeOK ==
  /\ currentTerm \in [Server -> Nat]
  /\ votedFor \in [Server -> Server \cup {Nil}]
  /\ state \in [Server -> {"Follower", "Candidate", "Leader"}]
  /\ votesGranted \in [Server -> Nat]
  /\ electing \in [Server -> BOOLEAN]
  /\ toAsk \in [Server -> SUBSET Server]
  /\ log \in [Server -> Seq(Entry)]
  /\ commitIndex \in [Server -> Nat]
  /\ applied \in [Server -> Seq(Entry \cup {Wild})]
  /\ nextIndex \in [Server -> [Server -> Nat]]
  /\ matchIndex \in [Server -> [Server -> Nat]]
  /\ persisted \in [Server -> TermAndVote]
  /\ voteRpcs \subseteq VoteRpc
  /\ appendRpcs \subseteq AppendRpc
  /\ restarts \in Nat
  /\ cast \subseteq [term : Nat, voter : Server, candidate : Server]
  /\ tally \in [Server -> SUBSET Server]
  /\ elected \subseteq [term : Nat, leader : Server, votes : SUBSET Server]
  /\ started \subseteq Seq(Entry)
  /\ DOMAIN termLog \subseteq Nat /\ \A t \in DOMAIN termLog : termLog[t] \in Seq(Entry)

-----------------------------------------------------------------------------
(* Elections.                                                              *)

\* At most one node is ever made leader of a term: the votes that startElection
\* gathered by RPC, and the terms, make sure of it across step downs, elections
\* that overlap, lost calls and restarts.
ElectionSafety ==
  \A e, f \in elected : e.term = f.term => e.leader = f.leader

\* A node never grants two votes in a term, whatever it forgets in between:
\* m_votedFor is cleared by helperStepDownToFollower, reloaded by helperReadPersist.
OneVotePerTerm ==
  \A v, w \in cast : v.term = w.term /\ v.voter = w.voter => v.candidate = w.candidate

-----------------------------------------------------------------------------
(* Logs.                                                                   *)

\* Entries of one index and term are the same entry, and so are all before them.
LogMatching ==
  \A s, t \in Server : \A i \in DOMAIN log[s] \cap DOMAIN log[t] :
    log[s][i].term = log[t][i].term => SubSeq(log[s], 1, i) = SubSeq(log[t], 1, i)

\* What m_matchIndex says of a follower is so, for as long as the follower has
\* not moved to a higher term: the entries up to it are in the follower's log.
AckedEntriesAreStored ==
  \A s \in Server : \A p \in Peers(s) :
    state[s] = "Leader" /\ currentTerm[p] <= currentTerm[s] =>
      /\ matchIndex[s][p] <= Len(log[p])
      /\ IsPrefix(SubSeq(log[p], 1, matchIndex[s][p]), log[s])

\* broadcastAppendEntries reads m_logs[m_nextindex[id] - 1] unchecked: a leader's
\* next index is never 0 and never beyond the end of its log.
NextIndexInLog ==
  \A s \in Server : \A p \in Peers(s) :
    state[s] = "Leader" => nextIndex[s][p] \in 1 .. Len(log[s]) + 1

\* The apply loops read m_logs[m_lastApplied] unchecked: what a node pushes to its
\* apply channel is its log, as far as it goes.
AppliesOwnLog == \A s \in Server : IsPrefix(applied[s], log[s])

\* Two nodes never push different entries for one index.
StateMachineSafety ==
  \A s, t \in Server : IsPrefix(applied[s], applied[t]) \/ IsPrefix(applied[t], applied[s])

\* A leader has every entry that was pushed by a node of its term or a lower one.
LeaderCompleteness ==
  \A s, t \in Server :
    state[s] = "Leader" /\ currentTerm[t] <= currentTerm[s] => IsPrefix(applied[t], log[s])

\* No node that lacks a pushed entry could be voted in: the check of requestVote
\* and the commit rule of helperUpdateLeaderCommitIndex fit together.
ElectableHasApplied ==
  \A s \in Server :
    IsMajority(Cardinality({t \in Server : UpToDate(LastTerm(log[s]), Len(log[s]), log[t])})) =>
      \A t \in Server : IsPrefix(applied[t], log[s])

\* An entry that a node has pushed to its state machine is, and stays, in the
\* persisted log of a majority.
AppliedIsDurable ==
  \A s \in Server :
    IsMajority(Cardinality({t \in Server : IsPrefix(applied[s], persisted[t].log)}))

-----------------------------------------------------------------------------
(* Steps.                                                                  *)

\* While a node leads a term, no handler cuts or rewrites its log.
LeaderAppends ==
  [][\A s \in Server :
       state[s] = "Leader" /\ state'[s] = "Leader" /\ currentTerm'[s] = currentTerm[s]
         => IsPrefix(log[s], log'[s])]_vars

\* But for a restart, a commit index never moves back, in no order of deliveries.
CommitAdvances ==
  [][restarts' = restarts => \A s \in Server : commitIndex'[s] >= commitIndex[s]]_vars
=============================================================================
