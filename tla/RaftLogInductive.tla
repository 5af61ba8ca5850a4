------------------------- MODULE RaftLogInductive -------------------------
(***************************************************************************)
(* The facts about logs, true in every reachable state when no call is     *)
(* preempted, that the log properties of RaftSafety follow from.           *)
(*                                                                         *)
(* An entry is known by its index and its term.  Every log is compared     *)
(* with the logs of leaders, which termLog keeps, and which only grow.     *)
(***************************************************************************)
EXTENDS RaftInductive

TermLog(t) == LogOf(termLog, t)

-----------------------------------------------------------------------------
\* Whatever a node has in its log is in its Persister too.
LogPersisted == \A s \in Server : persisted[s].log = log[s]

SoundLogs ==
  /\ \A s \in Server : Sound(log[s], currentTerm[s], termLog)
  /\ \A t \in DOMAIN termLog : Sound(termLog[t], t, termLog)

\* A node that was made leader of its term does not gather votes in it again.
ReignsOnce ==
  /\ DOMAIN termLog = {e.term : e \in elected}
  /\ \A e \in elected : /\ e.term <= currentTerm[e.leader]
                        /\ e.term = currentTerm[e.leader] => ~Collecting(e.leader)

LeadsTerm(s, t) == \E e \in elected : e.leader = s /\ e.term = t

LeaderHasTermLog ==
  \A s \in Server : state[s] = "Leader" =>
    LeadsTerm(s, currentTerm[s]) /\ log[s] = TermLog(currentTerm[s])

\* A vote is asked for with the log the candidate has for as long as it counts.
VoteCallsTellLog ==
  \A r \in voteRpcs : r.term = currentTerm[r.from] /\ Collecting(r.from) =>
    r.lastLogIndex = Len(log[r.from]) /\ r.lastLogTerm = LastTerm(log[r.from])

\* No vote is cast in a term its candidate has not begun.
CastIsBegun == \A v \in cast : v.term <= currentTerm[v.candidate]

LastNew(r) == r.prevLogIndex + Len(r.entries)

\* A call brings a part of its leader's log, and a refusal sends no leader forward.
AppendCallsTellLog ==
  \A r \in appendRpcs :
    /\ r.from # r.to
    /\ LeadsTerm(r.from, r.term) /\ r.term <= currentTerm[r.from]
    /\ LastNew(r) <= Len(TermLog(r.term))
    /\ \A k \in DOMAIN r.entries : r.entries[k] = TermLog(r.term)[r.prevLogIndex + k]
    /\ r.prevLogIndex > 0 => TermLog(r.term)[r.prevLogIndex].term = r.prevLogTerm
    /\ r.conflictIndex <= r.prevLogIndex

\* No leader takes more entries for stored than it has.
MatchIndexInLog ==
  \A s \in Server : \A p \in Peers(s) : state[s] = "Leader" => matchIndex[s][p] <= Len(log[s])

\* One call at a time is between two of its sections.
OneCallAtATime ==
  /\ \A q, r \in appendRpcs : Preempted(q) /\ Preempted(r) => q = r
  /\ \A r \in appendRpcs, s \in Server : Preempted(r) => ~MidElection(s)
  /\ \A s, t \in Server : MidElection(s) /\ MidElection(t) => s = t

\* What a section has found is still so when the next one begins.
SectionsHold ==
  \A r \in appendRpcs :
    /\ r.stage \in {"match", "store", "commit"} =>
         currentTerm[r.to] = r.term /\ state[r.to] # "Candidate"
    /\ r.stage = "store" => Matches(log[r.to], r.prevLogIndex, r.prevLogTerm)
    /\ r.stage = "commit" => Agree(log[r.to], TermLog(r.term), LastNew(r))
    /\ r.stage = "checked" => state[r.from] = "Leader" /\ currentTerm[r.from] = r.term

ReplicationInv ==
  /\ LogPersisted /\ SoundLogs /\ ReignsOnce /\ LeaderHasTermLog /\ VoteCallsTellLog
  /\ CastIsBegun /\ AppendCallsTellLog /\ OneCallAtATime /\ SectionsHold
  /\ MatchIndexInLog /\ NextIndexInLog

-----------------------------------------------------------------------------
(* Acknowledged and committed entries.                                     *)

\* Of the leaders of terms above t and up to u, or below u, one lacks the entry n of
\* term t, as logs tells.
LackedBy(n, t, u, logs) == \E f \in DOMAIN logs : t < f /\ f <= u /\ ~Has(logs[f], n, t)
LackedBefore(n, t, u, logs) == \E f \in DOMAIN logs : t < f /\ f < u /\ ~Has(logs[f], n, t)

\* Node q has stored the entry, and whatever q has done since, its log, and those it
\* has voted for, have the entry too; unless a leader in between lacked it.
Acked(q, n, t) ==
  /\ currentTerm[q] >= t
  /\ Has(log[q], n, t) \/ LackedBy(n, t, currentTerm[q], termLog)
  /\ \A v \in cast :
       v.voter = q /\ v.term > t /\ Collecting(v.candidate) /\ currentTerm[v.candidate] = v.term
         => Has(log[v.candidate], n, t) \/ LackedBy(n, t, v.term, termLog)
  /\ \A e \in elected :
       e.term > t /\ q \in e.votes
         => Has(TermLog(e.term), n, t) \/ LackedBefore(n, t, e.term, termLog)

Committed(n, t) ==
  /\ Has(TermLog(t), n, t)
  /\ \E Q \in SUBSET Server : IsMajority(Cardinality(Q)) /\ \A q \in Q : Acked(q, n, t)

\* The first c entries of l were committed by leaders of terms up to u.
Covered(l, c, u) ==
  c = 0 \/ \E t \in DOMAIN termLog : \E n \in DOMAIN termLog[t] :
             t <= u /\ c <= n /\ Committed(n, t) /\ Agree(l, termLog[t], c)

\* Node p has the first m entries of the leader of term t, or had them in term t.
Holds(p, t, m) ==
  m = 0 \/ /\ currentTerm[p] >= t
           /\ m <= Len(TermLog(t))
           /\ currentTerm[p] = t => Agree(log[p], TermLog(t), m)
           /\ \A n \in 1..m : Has(TermLog(t), n, t) => Acked(p, n, t)

CommitsAreCovered ==
  /\ \A s \in Server : Covered(log[s], commitIndex[s], currentTerm[s])
  /\ \A r \in appendRpcs : /\ Covered(TermLog(r.term), r.leaderCommit, r.term)
                           /\ r.leaderCommit <= LastNew(r)

\* A node pushes what its commit index covers, and no more.
AppliesCommitted ==
  \A s \in Server : Agree(applied[s], log[s], Len(applied[s])) /\ Len(applied[s]) <= commitIndex[s]

\* What leaders take for stored, and what replies say is, is.
AcksAreTrue ==
  /\ \A s \in Server : \A p \in Peers(s) :
       state[s] = "Leader" => Holds(p, currentTerm[s], matchIndex[s][p])
  /\ \A r \in appendRpcs :
       r.stage \in {"replied", "checked"} /\ r.success => Holds(r.to, r.term, LastNew(r))

CommitInv == CommitsAreCovered /\ AppliesCommitted /\ AcksAreTrue

-----------------------------------------------------------------------------
(* What every step does, as far as these facts depend on it.               *)

\* Terms only grow; a node begins to count votes in a new term only, and leads only
\* in the term it was elected in.
RolesMove ==
  \A s \in Server :
    /\ currentTerm'[s] >= currentTerm[s]
    /\ Collecting(s)' => \/ Collecting(s) /\ currentTerm'[s] = currentTerm[s]
                         \/ currentTerm'[s] > currentTerm[s]
    /\ state'[s] = "Leader" => /\ currentTerm'[s] = currentTerm[s]
                               /\ state[s] = "Leader" \/ BecomeLeader(s)

\* Logs change by start() and by section 3 of appendEntries only.
LogsMove ==
  /\ \A s \in Server : \/ log'[s] = log[s]
                       \/ \E c \in Command : Start(s, c)
                       \/ \E r \in appendRpcs : r.to = s /\ StoreEntries(r)
  /\ \/ UNCHANGED <<termLog, elected>>
     \/ \E s \in Server : BecomeLeader(s)
     \/ \E s \in Server, c \in Command : Start(s, c)

\* Logs of leaders grow, by entries of their own terms.
TermLogGrows ==
  \A t \in DOMAIN termLog :
    /\ t \in DOMAIN termLog'
    /\ Agree(termLog[t], termLog'[t], Len(termLog[t]))
    /\ \A i \in DOMAIN termLog'[t] : i > Len(termLog[t]) => termLog'[t][i].term = t

\* A node's log is changed to agree with that of the leader of its term, and where it
\* did agree before, it is not changed.
LogFollows(s) ==
  \/ log'[s] = log[s]
  \/ /\ state[s] # "Candidate"
     /\ currentTerm[s] \in DOMAIN termLog /\ currentTerm'[s] = currentTerm[s]
     /\ Agree(log'[s], LogOf(termLog', currentTerm[s]), Len(log'[s]))
     /\ \A n \in Nat : Agree(log[s], TermLog(currentTerm[s]), n) => Agree(log'[s], log[s], n)

\* Calls of requestVote are made with the candidate's log, and keep what they tell.
VoteCallsMove ==
  \A x \in voteRpcs' :
    \/ \E y \in voteRpcs : /\ x.from = y.from /\ x.term = y.term
                           /\ x.lastLogIndex = y.lastLogIndex /\ x.lastLogTerm = y.lastLogTerm
    \/ /\ log'[x.from] = log[x.from]
       /\ x.lastLogIndex = Len(log[x.from]) /\ x.lastLogTerm = LastTerm(log[x.from])

\* A vote goes to a candidate whose log is at least as good as the voter's.
CastMoves ==
  /\ cast \subseteq cast'
  /\ \A v \in cast' : v \in cast \/
       /\ v.term <= currentTerm'[v.candidate] /\ currentTerm[v.voter] <= v.term
       /\ Collecting(v.candidate)' /\ currentTerm'[v.candidate] = v.term =>
            UpToDate(LastTerm(log[v.candidate]), Len(log[v.candidate]), log[v.voter])

\* What a call of appendEntries carries from its making on.
SameCall(x, y) ==
  /\ x.from = y.from /\ x.to = y.to /\ x.term = y.term /\ x.leaderCommit = y.leaderCommit
  /\ x.prevLogIndex = y.prevLogIndex /\ x.prevLogTerm = y.prevLogTerm /\ x.entries = y.entries

NewCall(s, p) ==
  LET prev == nextIndex[s][p] - 1
  IN [from |-> s, to |-> p, live |-> TRUE, stage |-> "sent", term |-> currentTerm[s],
      prevLogIndex |-> prev, prevLogTerm |-> TermAt(log[s], prev),
      entries |-> SubSeq(log[s], prev + 1, Len(log[s])), leaderCommit |-> commitIndex[s],
      replyTerm |-> 0, success |-> FALSE, conflictIndex |-> 0]

\* Nothing that the next section of the call r relies on is changed.
Undisturbed(r) ==
  /\ termLog' = termLog
  /\ r.stage \in {"match", "store", "commit"} =>
       /\ log'[r.to] = log[r.to] /\ currentTerm'[r.to] = currentTerm[r.to]
       /\ state'[r.to] = state[r.to]
  /\ r.stage = "checked" =>
       currentTerm'[r.from] = currentTerm[r.from] /\ state'[r.from] = state[r.from]

\* The call r takes a step and is x then.
Proceeds(r, x) ==
  \/ AcceptAppend(r) /\ x.stage = "match"
  \/ PassMatch(r) /\ x.stage = "store"
  \/ StoreEntries(r) /\ x.stage = "commit"
  \/ FollowCommit(r) /\ x.stage = "replied" /\ x.success
  \/ (RefuseStaleAppend(r) \/ RefuseMismatch(r)) /\ x.stage = "replied" /\ ~x.success
  \/ CheckReply(r) /\ x.stage = "checked" /\ x.success = r.success

\* A call waits, takes a step, or is new; while it is between two sections, only its
\* own next step or a restart comes.
AppendCallsMove ==
  \A x \in appendRpcs' :
    \/ \E r \in appendRpcs :
         /\ SameCall(x, r) /\ x.stage = r.stage /\ x.success = r.success
         /\ x.conflictIndex = r.conflictIndex
         /\ Preempted(r) => Undisturbed(r)
    \/ \E r \in appendRpcs :
         /\ SameCall(x, r) /\ Proceeds(r, x)
         /\ x.conflictIndex = r.conflictIndex \/ x.conflictIndex <= r.prevLogIndex
    \/ \E s \in Server : \E p \in Peers(s) : SendAppendEntries(s, p) /\ x = NewCall(s, p)

\* A leader's indexes change by replies of its term.
IndexesMove ==
  \A s \in Server : state'[s] = "Leader" =>
    \/ BecomeLeader(s)
    \/ state[s] = "Leader" /\ \A p \in Peers(s) :
         \/ matchIndex'[s][p] = matchIndex[s][p] /\ nextIndex'[s][p] = nextIndex[s][p]
         \/ \E r \in appendRpcs :
              /\ r.from = s /\ r.to = p /\ CountSuccess(r)
              /\ matchIndex'[s][p] = Max({matchIndex[s][p], LastNew(r)})
              /\ nextIndex'[s][p] = matchIndex'[s][p] + 1
         \/ \E r \in appendRpcs :
              /\ r.from = s /\ r.to = p /\ BackUp(r) /\ matchIndex'[s][p] = matchIndex[s][p]
              /\ nextIndex'[s][p] = BackedUp(nextIndex[s][p], r.conflictIndex)

\* A node commits and pushes what replies tell it, or its leader's next call.
CommitMoves ==
  \A s \in Server :
    \/ commitIndex'[s] = commitIndex[s] /\ applied'[s] = applied[s]
    \/ \E r \in appendRpcs : r.to = s /\ FollowCommit(r)
    \/ \E r \in appendRpcs : r.from = s /\ CountSuccess(r)
    \/ Restart(s)
=============================================================================
