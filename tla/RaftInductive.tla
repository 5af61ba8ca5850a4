--------------------------- MODULE RaftInductive ---------------------------
(***************************************************************************)
(* The facts, true in every reachable state and kept by every step, that   *)
(* the safety properties of RaftSafety follow from.                        *)
(***************************************************************************)
EXTENDS RaftSafety

\* A leader's next indexes are set: prevLogIndex never wraps below 0.
LeaderHasNextIndexes ==
  \A s, p \in Server : state[s] = "Leader" => nextIndex[s][p] # 0

TypeInv == TypeOK /\ LeaderHasNextIndexes

-----------------------------------------------------------------------------
(* Votes.  Collecting(s): s counts the votes of the election it has begun. *)

Collecting(s) == state[s] = "Candidate" /\ ~electing[s]

\* Whatever a node has in memory of its term and vote is in its Persister too.
VotePersisted ==
  \A s \in Server : persisted[s].term = currentTerm[s] /\ persisted[s].votedFor = votedFor[s]

\* A node remembers the vote it cast in its term, and cast none in a later one.
CastRemembered ==
  \A v \in cast : /\ v.term <= currentTerm[v.voter]
                  /\ v.term = currentTerm[v.voter] => votedFor[v.voter] = v.candidate

\* A granting reply tells of a vote that was cast.
GrantIsCast ==
  \A r \in voteRpcs :
    r.granted => [term |-> r.term, voter |-> r.to, candidate |-> r.from] \in cast

\* A candidate has one call per peer and term, none of a term it has not begun.
OneCallPerPeer ==
  /\ \A r \in voteRpcs : r.term <= currentTerm[r.from]
  /\ \A q, r \in voteRpcs : q.from = r.from /\ q.to = r.to /\ q.term = r.term => q = r

\* The loop of startElection runs only while votes are collected; a peer whose
\* vote is counted is neither still to be asked nor asked again.
AskedOnce ==
  /\ \A s \in Server : toAsk[s] # {} => Collecting(s)
  /\ \A s \in Server : Collecting(s) => toAsk[s] \cap tally[s] = {}
  /\ \A r \in voteRpcs : r.term = currentTerm[r.from] /\ Collecting(r.from)
                           => r.to \notin toAsk[r.from] \cup tally[r.from]

\* m_votesGranted counts different nodes that voted for s in its term.
TallyIsTrue ==
  \A s \in Server : Collecting(s) =>
    /\ votesGranted[s] = Cardinality(tally[s])
    /\ \A p \in tally[s] : [term |-> currentTerm[s], voter |-> p, candidate |-> s] \in cast

\* Whoever was made leader had the votes of a majority.
ElectedByMajority ==
  \A e \in elected :
    /\ IsMajority(Cardinality(e.votes))
    /\ \A p \in e.votes : [term |-> e.term, voter |-> p, candidate |-> e.leader] \in cast

ElectionInv ==
  /\ VotePersisted /\ CastRemembered /\ OneVotePerTerm /\ GrantIsCast
  /\ OneCallPerPeer /\ AskedOnce /\ TallyIsTrue /\ ElectedByMajority
=============================================================================
