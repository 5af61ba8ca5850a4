----------------------- MODULE RaftSnapshotInductive -----------------------
(***************************************************************************)
(* The facts that the properties of RaftSnapshot follow from: SnapInv in   *)
(* every reachable state, and ReignInv for as long as one node leads the   *)
(* last term.                                                              *)
(***************************************************************************)
EXTENDS RaftSnapshot, RaftLogInductive

\* A node's snapshot is no longer than its log, nor than what its state machine has
\* been given: m_lastApplied - m_lastIncludedIndex does not wrap around.
SnapshotFits == \A s \in Server : base[s] <= Len(log[s]) /\ base[s] <= Len(applied[s])

\* The entries a call is about to store come after the snapshot.
StoresAfterSnapshot ==
  \A r \in appendRpcs : r.stage = "store" => base[r.to] <= r.prevLogIndex

SnapInv ==
  /\ SnapTypeOK /\ LeaderHasNextIndexes /\ LogPersisted
  /\ SnapshotFits /\ StoresAfterSnapshot

-----------------------------------------------------------------------------
(* The reign of the node lead: every node is in the last term, so that no  *)
(* election comes, and lead, which may die, is its only leader.  All logs  *)
(* are compared with the log of lead.                                      *)

Rules(lead) ==
  /\ \A s \in Server :
       /\ currentTerm[s] = MaxTerm /\ persisted[s].term = MaxTerm
       /\ state[s] # "Candidate" /\ ~electing[s] /\ toAsk[s] = {}
       /\ state[s] = "Leader" => s = lead
  /\ voteRpcs = {}

CallsOf(lead) ==
  \A r \in Calls : r.from = lead /\ r.to # lead /\ r.term = MaxTerm /\ r.replyTerm <= MaxTerm

\* An entry after which another log has the entry of the same index and term is known
\* to come after the same entries; so is every entry of the reign.
Like(l, m) ==
  \A i \in DOMAIN l :
    /\ l[i].term > 0
    /\ i \in DOMAIN m /\ l[i].term = m[i].term => Agree(l, m, i)
    /\ l[i].term = MaxTerm => Agree(l, m, i)

\* Nodes have applied entries of lead, and none that their own log has otherwise.
FollowsLog(s, m) ==
  /\ Like(log[s], m)
  /\ Agree(applied[s], m, Len(applied[s]))
  /\ \A n \in DOMAIN applied[s] : n <= Len(log[s]) => Agree(log[s], m, n)
  /\ commitIndex[s] <= Len(applied[s])

\* A call brings entries of lead; or none, after an entry beyond the log of lead, and
\* then no follower takes it.
TellsLog(r, m) ==
  /\ r.leaderCommit <= LastNew(r)
  /\ \/ /\ LastNew(r) <= Len(m)
        /\ \A k \in DOMAIN r.entries : r.entries[k] = m[r.prevLogIndex + k]
        /\ Matches(m, r.prevLogIndex, r.prevLogTerm)
     \/ r.prevLogIndex > 0 /\ r.prevLogTerm = 0 /\ r.stage \in {"sent", "match", "replied", "checked"}
  /\ r.stage = "store" => Agree(log[r.to], m, r.prevLogIndex)
  /\ r.stage = "commit" => Agree(log[r.to], m, LastNew(r))

\* A snapshot on its way is one of lead.
TellsSnapshot(r, m) == Len(r.data) > 0 /\ Agree(r.data, m, Len(r.data))

LogsOf(lead) ==
  /\ \A s \in Server : FollowsLog(s, log[lead])
  /\ \A r \in appendRpcs : TellsLog(r, log[lead])
  /\ \A r \in installRpcs : TellsSnapshot(r, log[lead]) /\ Len(r.data) <= base[lead]

\* What lead takes for stored is, as long as nobody has taken a snapshot.
NobodyForgot == \A s \in Server : base[s] = 0

AcksOf(lead) ==
  NobodyForgot =>
    /\ \A p \in Peers(lead) :
         state[lead] = "Leader" => Agree(log[p], log[lead], matchIndex[lead][p])
    /\ \A r \in appendRpcs :
         r.stage \in {"replied", "checked"} /\ r.success => Agree(log[r.to], log[lead], LastNew(r))

ReignInv(lead) == SnapInv /\ Rules(lead) /\ CallsOf(lead) /\ LogsOf(lead) /\ AcksOf(lead)

\* With a careful caller, no follower's snapshot is beyond that of lead, nor that of
\* lead beyond what its calls speak of; and its indexes stay within its log.
CareOf(lead) ==
  /\ \A s \in Server : base[s] <= base[lead]
  /\ \A r \in appendRpcs :
       /\ r.live => base[lead] <= r.prevLogIndex
       /\ r.prevLogIndex <= Len(log[lead]) /\ LastNew(r) <= Len(log[lead])
       /\ r.conflictIndex <= r.prevLogIndex
  /\ state[lead] = "Leader" => \A p \in Peers(lead) :
       matchIndex[lead][p] <= Len(log[lead]) /\ nextIndex[lead][p] <= Len(log[lead]) + 1
=============================================================================
