----------------------- MODULE RaftReplicationProofs -----------------------
(***************************************************************************)
(* The logs of module Raft: every reachable state satisfies ReplicationInv *)
(* (module RaftLogInductive), and with it LogMatching and what follows.    *)
(* The first part says once what every step does to roles, logs, calls and *)
(* the record of leaders' logs; each conjunct of the invariant is then     *)
(* preserved by a lemma that uses those facts and not the actions.         *)
(***************************************************************************)
EXTENDS RaftElectionProofs, RaftLogInductive

-----------------------------------------------------------------------------
(* What every step does.                                                   *)

\* What the lemmas on roles need of the types.
LEMMA RoleType ==
  TypeOK => /\ currentTerm \in [Server -> Nat]
            /\ state \in [Server -> {"Follower", "Candidate", "Leader"}]
            /\ electing \in [Server -> BOOLEAN]
BY DEF TypeOK

\* A node that steps down leads no more and counts no votes.
LEMMA StepDownRole ==
  ASSUME TypeOK, NEW s \in Server, NEW t \in Nat, t > currentTerm[s], StepDown(s, t)
  PROVE  RolesMove
BY RoleType DEF StepDown, BecomeFollower, RolesMove, Collecting

LEMMA SameRoles ==
  ASSUME TypeOK, UNCHANGED <<currentTerm, state, electing>>
  PROVE  RolesMove
BY RoleType DEF RolesMove, Collecting

LEMMA FollowerRole ==
  ASSUME TypeOK, NEW s \in Server, BecomeFollower(s), currentTerm' = currentTerm
  PROVE  RolesMove
BY RoleType DEF BecomeFollower, RolesMove, Collecting

LEMMA RolesStep ==
  ASSUME TrustedElections, TypeInv, ElectionInv, [Next]_vars
  PROVE  RolesMove
<1> USE DEF TypeInv
<1>1. ASSUME NEW s \in Server, FollowerTimeout(s) \/ CandidateTimeout(s) PROVE RolesMove
  <2>1. /\ currentTerm' = currentTerm /\ electing' = [electing EXCEPT ![s] = TRUE]
        /\ state' = state \/ state' = [state EXCEPT ![s] = "Candidate"]
    BY <1>1 DEF FollowerTimeout, CandidateTimeout
  <2> QED  BY <2>1, RoleType DEF RolesMove, Collecting
<1>2. ASSUME NEW s \in Server, StartElection(s) PROVE RolesMove
  <2>1. UNCHANGED state /\ currentTerm' = [currentTerm EXCEPT ![s] = @ + 1]
        /\ electing' = [electing EXCEPT ![s] = FALSE]
    BY <1>2 DEF StartElection
  <2>2. state[s] = "Candidate"
    BY <1>2 DEF StartElection
  <2> QED  BY <2>1, <2>2, RoleType DEF RolesMove, Collecting
<1>3. ASSUME NEW s \in Server, NEW p \in Peers(s), AskForVote(s, p) PROVE RolesMove
  BY <1>3, SameRoles DEF AskForVote
<1>4. ASSUME NEW s \in Server, BecomeLeader(s) PROVE RolesMove
  <2>1. UNCHANGED <<currentTerm, electing>> /\ state' = [state EXCEPT ![s] = "Leader"]
    BY <1>4 DEF BecomeLeader
  <2> QED  BY <1>4, <2>1, RoleType DEF RolesMove, Collecting
<1>5. ASSUME NEW s \in Server, NEW p \in Peers(s), SendAppendEntries(s, p) PROVE RolesMove
  BY <1>5, SameRoles DEF SendAppendEntries, electionVars
<1>6. ASSUME NEW s \in Server, NEW c \in Command, Start(s, c) PROVE RolesMove
  BY <1>6, SameRoles DEF Start, electionVars
<1>7. ASSUME NEW r \in voteRpcs, RefuseStaleVote(r) \/ CountVote(r) \/ DropVote(r)
      PROVE  RolesMove
  BY <1>7, SameRoles DEF RefuseStaleVote, CountVote, DropVote, electionVars
<1>8. ASSUME NEW r \in voteRpcs, HandleRequestVote(r) PROVE RolesMove
  <2>1. r.to \in Server /\ r.term \in Nat
    BY DEF TypeOK, VoteRpc
  <2>2. CASE Newer(r)
    <3>1. /\ BecomeFollower(r.to) /\ r.term > currentTerm[r.to]
          /\ currentTerm' = [currentTerm EXCEPT ![r.to] = r.term]
      BY <1>8, <2>2 DEF HandleRequestVote, Newer
    <3> QED  BY <2>1, <3>1, RoleType DEF BecomeFollower, RolesMove, Collecting
  <2>3. CASE ~Newer(r)
    <3>1. UNCHANGED <<state, electing>> /\ currentTerm' = [currentTerm EXCEPT ![r.to] = r.term]
          /\ r.term = currentTerm[r.to]
      <4>1. /\ UNCHANGED <<state, electing>> /\ ~(r.term > currentTerm[r.to])
            /\ currentTerm' = [currentTerm EXCEPT ![r.to] = r.term]
            /\ r.term >= currentTerm[r.to]
        BY <1>8, <2>3 DEF HandleRequestVote, Newer
      <4>2. currentTerm[r.to] \in Nat
        BY <2>1 DEF TypeOK
      <4> DEFINE t == r.term
      <4>3. t \in Nat /\ ~(t > currentTerm[r.to]) /\ t >= currentTerm[r.to]
        BY <2>1, <4>1
      <4> HIDE DEF t
      <4>4. t = currentTerm[r.to]
        BY <4>2, <4>3
      <4> QED  BY <4>1, <4>4 DEF t
    <3>2. currentTerm' = currentTerm
      BY <2>1, <3>1 DEF TypeOK
    <3> QED  BY <3>1, <3>2, SameRoles
  <2> QED  BY <2>2, <2>3
<1>9. ASSUME NEW r \in voteRpcs, RefusedByNewerTerm(r) PROVE RolesMove
  BY <1>9, StepDownRole DEF RefusedByNewerTerm, TypeOK, VoteRpc
<1>10. ASSUME NEW r \in appendRpcs, AcceptAppend(r) PROVE RolesMove
  <2>1. r.to \in Server /\ r.term \in Nat
    BY DEF TypeOK, AppendRpc
  <2> QED  BY <1>10, <2>1, StepDownRole, FollowerRole, SameRoles DEF AcceptAppend
<1>11. ASSUME NEW r \in appendRpcs, DeposedByReply(r) PROVE RolesMove
  BY <1>11, StepDownRole DEF DeposedByReply, TypeOK, AppendRpc
<1>12. ASSUME NEW r \in appendRpcs,
              \/ RefuseStaleAppend(r) \/ RefuseMismatch(r) \/ PassMatch(r) \/ StoreEntries(r)
              \/ FollowCommit(r) \/ CheckReply(r) \/ CountSuccess(r) \/ BackUp(r)
              \/ DropAppend(r)
       PROVE  RolesMove
  BY <1>12, SameRoles DEF RefuseStaleAppend, RefuseMismatch, PassMatch, StoreEntries,
       FollowCommit, CheckReply, CountSuccess, BackUp, DropAppend, electionVars
<1>13. ASSUME NEW s \in Server, Restart(s) PROVE RolesMove
  <2>1. PersisterSurvives
    BY <1>13, BoundAssumption DEF TrustedElections, Restart, Reboot, TypeOK
  <2>2. BecomeFollower(s) /\ currentTerm' = [currentTerm EXCEPT ![s] = persisted[s].term]
    BY <1>13, <2>1 DEF Restart, Reboot
  <2>3. currentTerm' = currentTerm
    BY <2>2 DEF TypeOK, ElectionInv, VotePersisted
  <2> QED  BY <2>2, <2>3, FollowerRole
<1>14. CASE UNCHANGED vars
  BY <1>14, SameRoles DEF vars, electionVars
<1> QED
  BY <1>1, <1>2, <1>3, <1>4, <1>5, <1>6, <1>7, <1>8, <1>9, <1>10, <1>11, <1>12, <1>13, <1>14
     DEF Next, RaftThread, VoteCall, AppendCall

\* A restarted node finds the log it had.
LEMMA LogsStep ==
  ASSUME TrustedElections, TypeInv, LogPersisted, [Next]_vars
  PROVE  LogsMove
<1> USE DEF LogsMove
<1>1. CASE \E s \in Server : BecomeLeader(s)
  BY <1>1 DEF BecomeLeader, logVars
<1>2. CASE \E s \in Server, c \in Command : Start(s, c)
  <2>1. PICK s \in Server, c \in Command : Start(s, c)
    BY <1>2
  <2>2. log' = [log EXCEPT ![s] = Append(@, [term |-> currentTerm[s], command |-> c])]
    BY <2>1 DEF Start
  <2> QED  BY <1>2, <2>1, <2>2 DEF TypeInv, TypeOK
<1>3. ASSUME NEW r \in appendRpcs, StoreEntries(r) PROVE LogsMove
  <2>1. /\ UNCHANGED <<termLog, elected>>
        /\ log' = [log EXCEPT ![r.to] = Stored(@, r.prevLogIndex, r.entries)]
    BY <1>3 DEF StoreEntries, historyVars, ballotVars, takenVars
  <2> QED  BY <1>3, <2>1 DEF TypeInv, TypeOK
<1>4. ASSUME NEW s \in Server, Restart(s) PROVE LogsMove
  <2>1. PersisterSurvives
    BY <1>4, BoundAssumption DEF TrustedElections, Restart, Reboot, TypeInv, TypeOK
  <2>2. /\ log' = [log EXCEPT ![s] = persisted[s].log]
        /\ UNCHANGED <<termLog, elected>>
    BY <1>4, <2>1 DEF Restart, Reboot, takenVars
  <2> QED  BY <2>2 DEF LogPersisted, TypeInv, TypeOK
<1>5. CASE UNCHANGED <<log, termLog, elected>>
  BY <1>5
<1>6. ASSUME NEW s \in Server,
             \/ FollowerTimeout(s) \/ CandidateTimeout(s) \/ StartElection(s)
             \/ \E p \in Peers(s) : AskForVote(s, p) \/ SendAppendEntries(s, p)
      PROVE  UNCHANGED <<log, termLog, elected>>
  BY <1>6 DEF FollowerTimeout, CandidateTimeout, StartElection, AskForVote, SendAppendEntries,
              logVars, historyVars, ballotVars, takenVars
<1>7. ASSUME NEW r \in voteRpcs, VoteCall(r) PROVE UNCHANGED <<log, termLog, elected>>
  BY <1>7 DEF VoteCall, RefuseStaleVote, HandleRequestVote, CountVote, RefusedByNewerTerm,
              DropVote, logVars, historyVars, ballotVars, takenVars
<1>8. ASSUME NEW r \in appendRpcs, AppendCall(r), ~StoreEntries(r)
      PROVE  UNCHANGED <<log, termLog, elected>>
  BY <1>8 DEF AppendCall, RefuseStaleAppend, AcceptAppend, RefuseMismatch, PassMatch,
              FollowCommit, DeposedByReply, CheckReply, CountSuccess, BackUp, DropAppend,
              logVars, historyVars, ballotVars, takenVars
<1>9. CASE UNCHANGED vars
  BY <1>9 DEF vars, logVars, historyVars, ballotVars, takenVars
<1> QED
  <2> HIDE DEF LogsMove
  <2> QED  BY <1>1, <1>2, <1>3, <1>4, <1>5, <1>6, <1>7, <1>8, <1>9 DEF Next, RaftThread

\* Saving the state leaves memory and Persister in agreement.
LEMMA PersistAgreesOnLogs ==
  ASSUME TypeInv, LogPersisted, NEW s \in Server, Persist(s),
         \A p \in Server \ {s} : log'[p] = log[p]
  PROVE  LogPersisted'
BY DEF TypeInv, TypeOK, LogPersisted, Persist

LEMMA RebootAgreesOnLogs ==
  ASSUME TypeInv, LogPersisted, NEW s \in Server, NEW done, Reboot(s, done)
  PROVE  LogPersisted'
<1> DEFINE kept == IF PersisterSurvives THEN persisted[s]
                   ELSE [term |-> 0, votedFor |-> Nil, log |-> << >>]
<1>1. /\ log' = [log EXCEPT ![s] = kept.log]
      /\ persisted' = [persisted EXCEPT ![s] = kept]
  BY DEF Reboot
<1> HIDE DEF kept
<1> QED  BY <1>1 DEF LogPersisted, TypeInv, TypeOK

LEMMA LogPersistedStep ==
  ASSUME TypeInv, LogPersisted, [Next]_vars
  PROVE  LogPersisted'
<1>1. CASE UNCHANGED <<log, persisted>>
  BY <1>1 DEF LogPersisted
<1>2. ASSUME NEW s \in Server, Persist(s), log' = log PROVE LogPersisted'
  BY <1>2, PersistAgreesOnLogs
<1>3. ASSUME NEW s \in Server, NEW c \in Command, Start(s, c) PROVE LogPersisted'
  <2>1. /\ log' = [log EXCEPT ![s] = Append(@, [term |-> currentTerm[s], command |-> c])]
        /\ Persist(s)
    BY <1>3 DEF Start
  <2> QED  BY <2>1, PersistAgreesOnLogs DEF TypeInv, TypeOK
<1>4. ASSUME NEW r \in appendRpcs, StoreEntries(r) PROVE LogPersisted'
  <2>1. /\ log' = [log EXCEPT ![r.to] = Stored(@, r.prevLogIndex, r.entries)]
        /\ Persist(r.to) /\ r.to \in Server
    BY <1>4 DEF StoreEntries, TypeInv, TypeOK, AppendRpc
  <2> QED  BY <2>1, PersistAgreesOnLogs DEF TypeInv, TypeOK
<1>5. ASSUME NEW s \in Server, Restart(s) PROVE LogPersisted'
  BY <1>5, RebootAgreesOnLogs DEF Restart
<1>6. ASSUME NEW s \in Server,
             \/ FollowerTimeout(s) \/ CandidateTimeout(s) \/ BecomeLeader(s)
             \/ \E p \in Peers(s) : AskForVote(s, p) \/ SendAppendEntries(s, p)
      PROVE  UNCHANGED <<log, persisted>>
  BY <1>6 DEF FollowerTimeout, CandidateTimeout, BecomeLeader, AskForVote, SendAppendEntries,
              logVars
<1>7. ASSUME NEW s \in Server, StartElection(s) PROVE LogPersisted'
  BY <1>2, <1>7 DEF StartElection, logVars
<1>8. ASSUME NEW r \in voteRpcs, VoteCall(r)
      PROVE  log' = log /\ (persisted' = persisted \/ \E s \in Server : Persist(s))
  <2>1. r.from \in Server /\ r.to \in Server
    BY DEF TypeInv, TypeOK, VoteRpc
  <2>2. log' = log
    BY <1>8 DEF VoteCall, RefuseStaleVote, HandleRequestVote, CountVote,
                RefusedByNewerTerm, DropVote, logVars
  <2>3. persisted' = persisted \/ \E s \in Server : Persist(s)
    BY <1>8, <2>1 DEF VoteCall, RefuseStaleVote, HandleRequestVote, CountVote,
                      RefusedByNewerTerm, DropVote
  <2> QED  BY <2>2, <2>3
<1>9. ASSUME NEW r \in appendRpcs, AppendCall(r), ~StoreEntries(r)
      PROVE  log' = log /\ (persisted' = persisted \/ \E s \in Server : Persist(s))
  <2>1. r.from \in Server /\ r.to \in Server
    BY DEF TypeInv, TypeOK, AppendRpc
  <2>2. log' = log
    BY <1>9 DEF AppendCall, RefuseStaleAppend, AcceptAppend, RefuseMismatch, PassMatch,
                FollowCommit, DeposedByReply, CheckReply, CountSuccess, BackUp, DropAppend,
                logVars
  <2>3. persisted' = persisted \/ \E s \in Server : Persist(s)
    BY <1>9, <2>1 DEF AppendCall, RefuseStaleAppend, AcceptAppend, RefuseMismatch, PassMatch,
                FollowCommit, DeposedByReply, CheckReply, CountSuccess, BackUp, DropAppend
  <2> QED  BY <2>2, <2>3
<1>10. CASE UNCHANGED vars
  BY <1>1, <1>10 DEF vars, logVars
<1> QED
  BY <1>1, <1>2, <1>3, <1>4, <1>5, <1>6, <1>7, <1>8, <1>9, <1>10 DEF Next, RaftThread

-----------------------------------------------------------------------------
(* The logs of leaders.                                                    *)

LEMMA TermLogType == ASSUME TypeOK PROVE \A t \in Nat : TermLog(t) \in Seq(Entry)
BY DEF TypeOK, TermLog, LogOf

\* The fields of a call, one by one.
LEMMA CallType ==
  ASSUME TypeOK, NEW r \in appendRpcs
  PROVE  /\ r.from \in Server /\ r.to \in Server /\ r.term \in Nat
         /\ r.prevLogIndex \in Nat /\ r.prevLogTerm \in Nat /\ r.entries \in Seq(Entry)
         /\ r.leaderCommit \in Nat /\ r.replyTerm \in Nat /\ r.conflictIndex \in Nat
         /\ r.live \in BOOLEAN /\ r.success \in BOOLEAN
         /\ LastNew(r) \in Nat /\ LastNew(r) = r.prevLogIndex + Len(r.entries)
<1>1. r \in AppendRpc
  BY DEF TypeOK
<1>2. /\ r.from \in Server /\ r.to \in Server /\ r.term \in Nat
      /\ r.prevLogIndex \in Nat /\ r.prevLogTerm \in Nat /\ r.entries \in Seq(Entry)
      /\ r.leaderCommit \in Nat /\ r.replyTerm \in Nat /\ r.conflictIndex \in Nat
      /\ r.live \in BOOLEAN /\ r.success \in BOOLEAN
  BY <1>1 DEF AppendRpc
<1>3. Len(r.entries) \in Nat
  BY <1>2
<1> QED  BY <1>2, <1>3 DEF LastNew

LEMMA MajoritiesDecideNext == ElectionInv' /\ TypeInv' => ElectionSafety'
<1>1. ElectionInv /\ TypeInv => ElectionSafety
  BY MajoritiesDecide
<1> QED  BY <1>1, PTL

\* Nobody has led the term of a candidate that wins.
LEMMA NewReign ==
  ASSUME TypeInv, TypeInv', ElectionInv', ReignsOnce, NEW s \in Server, BecomeLeader(s)
  PROVE  currentTerm[s] \notin DOMAIN termLog
<1> SUFFICES ASSUME currentTerm[s] \in DOMAIN termLog PROVE FALSE
  OBVIOUS
<1>1. PICK e \in elected : e.term = currentTerm[s]
  BY DEF ReignsOnce
<1> DEFINE f == [term |-> currentTerm[s], leader |-> s, votes |-> tally[s]]
<1>2. e \in elected' /\ f \in elected' /\ Collecting(s)
  BY DEF BecomeLeader, Collecting
<1>3. ElectionSafety'
  BY MajoritiesDecideNext
<1>4. e.leader = f.leader
  BY <1>1, <1>2, <1>3 DEF ElectionSafety
<1> QED  BY <1>1, <1>2, <1>4 DEF ReignsOnce

\* What start() does in a leader: its log and the record of it grow alike.
LEMMA StartDoes ==
  ASSUME TypeInv, ReignsOnce, LeaderHasTermLog, NEW s \in Server, NEW c \in Command, Start(s, c)
  PROVE  LET t == currentTerm[s]
             l == Append(log[s], [term |-> t, command |-> c])
         IN /\ t \in DOMAIN termLog /\ termLog[t] = log[s] /\ state[s] = "Leader"
            /\ log' = [log EXCEPT ![s] = l] /\ termLog' = Recorded(t, l)
            /\ l \in Seq(Entry) /\ Len(l) = Len(log[s]) + 1 /\ l[Len(log[s]) + 1].term = t
            /\ Agree(log[s], l, Len(log[s]))
            /\ UNCHANGED <<electionVars, elected>>
<1> DEFINE t == currentTerm[s]
           e == [term |-> t, command |-> c]
           l == Append(log[s], e)
<1>1. /\ log' = [log EXCEPT ![s] = l] /\ state[s] = "Leader" /\ UNCHANGED <<electionVars, elected>>
      /\ log[s] \in Seq(Entry) /\ t \in Nat
  BY DEF Start, ballotVars, TypeInv, TypeOK
<1>2. log'[s] = l
  BY <1>1 DEF TypeInv, TypeOK
<1>3. termLog' = Recorded(t, l)
  BY <1>2 DEF Start
<1>4. t \in DOMAIN termLog /\ termLog[t] = log[s]
  BY <1>1 DEF LeaderHasTermLog, LeadsTerm, ReignsOnce, TermLog, LogOf
<1>5. e \in Entry /\ e.term = t
  BY <1>1 DEF Entry
<1>6. /\ l \in Seq(Entry) /\ Len(l) = Len(log[s]) + 1 /\ l[Len(log[s]) + 1].term = t
      /\ Agree(log[s], l, Len(log[s]))
  <2> HIDE DEF e
  <2> QED  BY <1>1, <1>5, AgreeAppend
<1> QED  BY <1>1, <1>3, <1>4, <1>6

LEMMA TermLogGrowsStep ==
  ASSUME TypeInv, TypeInv', ElectionInv', ReignsOnce, LeaderHasTermLog, LogsMove
  PROVE  TermLogGrows
<1>1. \A t \in DOMAIN termLog : termLog[t] \in Seq(Entry)
  BY DEF TypeInv, TypeOK
<1>2. CASE termLog' = termLog
  BY <1>1, <1>2, AgreeSelf DEF TermLogGrows
<1>3. ASSUME NEW s \in Server, BecomeLeader(s) PROVE TermLogGrows
  <2>1. currentTerm[s] \notin DOMAIN termLog
    BY <1>3, NewReign
  <2>2. termLog' = Recorded(currentTerm[s], log[s])
    BY <1>3 DEF BecomeLeader
  <2>3. \A t \in DOMAIN termLog : t \in DOMAIN termLog' /\ termLog'[t] = termLog[t]
    BY <2>1, <2>2 DEF Recorded
  <2> QED  BY <1>1, <2>3, AgreeSelf DEF TermLogGrows
<1>4. ASSUME NEW s \in Server, NEW c \in Command, Start(s, c) PROVE TermLogGrows
  <2> DEFINE u == currentTerm[s]
             l == Append(log[s], [term |-> u, command |-> c])
  <2>1. /\ u \in DOMAIN termLog /\ termLog[u] = log[s] /\ termLog' = Recorded(u, l)
        /\ l \in Seq(Entry) /\ Len(l) = Len(log[s]) + 1 /\ l[Len(log[s]) + 1].term = u
        /\ Agree(log[s], l, Len(log[s]))
    BY <1>4, StartDoes
  <2> HIDE DEF u, l
  <2>2. ASSUME NEW t \in DOMAIN termLog, t # u
        PROVE  t \in DOMAIN termLog' /\ termLog'[t] = termLog[t]
    BY <2>1, <2>2 DEF Recorded
  <2>3. u \in DOMAIN termLog' /\ termLog'[u] = l
    BY <2>1 DEF Recorded
  <2>4. \A i \in DOMAIN l : i > Len(log[s]) => l[i].term = u
    <3>1. log[s] \in Seq(Entry)
      BY <1>1, <2>1
    <3>2. \A i \in DOMAIN l : i > Len(log[s]) => i = Len(log[s]) + 1
      BY <2>1, <3>1
    <3> QED  BY <2>1, <3>2
  <2>5. ASSUME NEW t \in DOMAIN termLog
        PROVE  /\ t \in DOMAIN termLog'
               /\ Agree(termLog[t], termLog'[t], Len(termLog[t]))
               /\ \A i \in DOMAIN termLog'[t] : i > Len(termLog[t]) => termLog'[t][i].term = t
    <3>1. CASE t = u
      BY <2>1, <2>3, <2>4, <3>1
    <3>2. CASE t # u
      <4>1. termLog'[t] = termLog[t] /\ t \in DOMAIN termLog' /\ termLog[t] \in Seq(Entry)
        BY <1>1, <2>2, <3>2
      <4>2. Agree(termLog[t], termLog[t], Len(termLog[t]))
        BY <4>1, AgreeSelf
      <4> QED  BY <4>1, <4>2
    <3> QED  BY <3>1, <3>2
  <2> QED  BY <2>5 DEF TermLogGrows
<1> QED  BY <1>2, <1>3, <1>4 DEF LogsMove

-----------------------------------------------------------------------------
(* Sound logs.                                                             *)

\* Entries of one index and term come after the same entries, in sound logs.
LEMMA SameEntry ==
  ASSUME NEW a \in Seq(Entry), NEW b \in Seq(Entry), NEW t, NEW u, TypeOK,
         Sound(a, t, termLog), Sound(b, u, termLog),
         NEW n \in Nat, n \in DOMAIN a, n \in DOMAIN b, a[n].term = b[n].term
  PROVE  Agree(a, b, n)
<1> DEFINE v == a[n].term
           m == TermLog(v)
<1>1. v \in Nat
  <2>1. a[n] \in Entry
    OBVIOUS
  <2> QED  BY <2>1 DEF Entry
<1>2. m \in Seq(Entry)
  BY <1>1, TermLogType
<1>3. Agree(a, m, n) /\ Agree(b, m, n)
  BY DEF Sound, TermLog
<1> HIDE DEF v, m
<1> QED  BY <1>2, <1>3, AgreeBack, AgreeVia

\* A sound log stays sound when terms and the logs of leaders grow.
LEMMA SoundStays ==
  ASSUME TypeOK, TypeOK', TermLogGrows, NEW l \in Seq(Entry), NEW t \in Nat, NEW u \in Nat,
         t <= u, Sound(l, t, termLog)
  PROVE  Sound(l, u, termLog')
<1>1. ASSUME NEW n \in DOMAIN l PROVE l[n].term <= u /\ Agree(l, LogOf(termLog', l[n].term), n)
  <2> DEFINE v == l[n].term
  <2>1. v \in Nat /\ v <= t /\ Agree(l, LogOf(termLog, v), n)
    <3>1. l[n] \in Entry
      OBVIOUS
    <3> QED  BY <3>1 DEF Entry, Sound
  <2> HIDE DEF v
  <2>2. v \in DOMAIN termLog
    <3>1. n <= Len(LogOf(termLog, v)) /\ n >= 1
      BY <2>1 DEF Agree
    <3> QED  BY <3>1 DEF LogOf
  <2>3. /\ v \in DOMAIN termLog' /\ termLog[v] \in Seq(Entry) /\ termLog'[v] \in Seq(Entry)
        /\ Agree(termLog[v], termLog'[v], Len(termLog[v]))
    BY <2>2 DEF TermLogGrows, TypeOK
  <2>4. Agree(l, termLog[v], n)
    BY <2>1, <2>2 DEF LogOf
  <2>5. Agree(l, termLog'[v], n)
    <3>1. n \in Nat /\ Len(termLog[v]) \in Nat /\ n <= Len(termLog[v])
      BY <2>3, <2>4 DEF Agree
    <3> QED  BY <2>3, <2>4, <3>1, AgreeVia
  <2>6. Agree(l, LogOf(termLog', v), n) /\ v <= u
    BY <2>1, <2>3, <2>5 DEF LogOf
  <2> QED  BY <2>6 DEF v
<1> QED  BY <1>1 DEF Sound

\* A beginning of a sound log is sound.
LEMMA SoundBeginning ==
  ASSUME TypeOK, NEW a \in Seq(Entry), NEW l \in Seq(Entry), NEW t \in Nat, Sound(l, t, termLog),
         Agree(a, l, Len(a))
  PROVE  Sound(a, t, termLog)
<1>1. Len(a) <= Len(l) /\ \A i \in DOMAIN a : a[i] = l[i] /\ i \in DOMAIN l
  BY DEF Agree
<1>2. ASSUME NEW n \in DOMAIN a PROVE a[n].term <= t /\ Agree(a, LogOf(termLog, a[n].term), n)
  <2> DEFINE m == LogOf(termLog, a[n].term)
  <2>1. a[n].term <= t /\ Agree(l, m, n)
    BY <1>1 DEF Sound
  <2>2. m \in Seq(Entry)
    BY DEF LogOf, TypeOK
  <2>3. Agree(a, m, n)
    <3>1. n \in Nat /\ n <= Len(a) /\ Len(a) \in Nat
      OBVIOUS
    <3> HIDE DEF m
    <3> QED  BY <2>1, <2>2, <3>1, AgreeVia
  <2> QED  BY <2>1, <2>3
<1> QED  BY <1>1, <1>2 DEF Sound

\* The log of a call's leader.
LEMMA CallLog ==
  ASSUME TypeOK, SoundLogs, ReignsOnce, NEW r \in appendRpcs, LeadsTerm(r.from, r.term)
  PROVE  /\ r.term \in DOMAIN termLog /\ TermLog(r.term) = termLog[r.term]
         /\ TermLog(r.term) \in Seq(Entry) /\ Sound(TermLog(r.term), r.term, termLog)
<1>1. r.term \in DOMAIN termLog
  BY DEF ReignsOnce, LeadsTerm
<1> QED  BY <1>1 DEF TermLog, LogOf, SoundLogs, TypeOK

\* Storing what a call brings: the node keeps its log if that has it all, else it takes
\* over the beginning of its leader's log that the call brings up to.
LEMMA StoreDoes ==
  ASSUME TypeInv, ElectionInv, ReplicationInv, NEW r \in appendRpcs, StoreEntries(r)
  PROVE  LET s == r.to
             m == TermLog(r.term)
             l == log'[s]
         IN /\ currentTerm[s] = r.term /\ state[s] = "Follower" /\ r.term \in DOMAIN termLog
            /\ log' = [log EXCEPT ![s] = l] /\ l \in Seq(Entry) /\ m \in Seq(Entry)
            /\ Sound(l, r.term, termLog) /\ Agree(l, m, LastNew(r))
            /\ l = log[s] \/ Agree(l, m, Len(l))
            /\ \A n \in Nat : Agree(log[s], m, n) => Agree(l, log[s], n)
            /\ UNCHANGED <<electionVars, elected, termLog>>
<1> DEFINE s == r.to
           m == TermLog(r.term)
           n == LastNew(r)
           prev == r.prevLogIndex
           part == SubSeq(m, 1, n)
           l == log'[s]
<1>1. /\ s \in Server /\ r.from \in Server /\ r.term \in Nat /\ prev \in Nat /\ n \in Nat
      /\ r.entries \in Seq(Entry) /\ n = prev + Len(r.entries)
  BY CallType DEF TypeInv
<1>2. /\ r.from # s /\ LeadsTerm(r.from, r.term) /\ n <= Len(m)
      /\ \A k \in DOMAIN r.entries : r.entries[k] = m[prev + k]
      /\ prev > 0 => m[prev].term = r.prevLogTerm
  BY DEF ReplicationInv, AppendCallsTellLog
<1>3. m \in Seq(Entry) /\ Sound(m, r.term, termLog) /\ r.term \in DOMAIN termLog
  BY <1>2, CallLog DEF TypeInv, ReplicationInv
<1>4. currentTerm[s] = r.term /\ state[s] # "Candidate" /\ Matches(log[s], prev, r.prevLogTerm)
  BY DEF StoreEntries, ReplicationInv, SectionsHold
<1>5. state[s] = "Follower"
  <2>1. ASSUME state[s] = "Leader" PROVE FALSE
    <3>1. LeadsTerm(s, r.term)
      BY <1>1, <1>4, <2>1 DEF ReplicationInv, LeaderHasTermLog
    <3>2. ElectionSafety
      BY MajoritiesDecide
    <3> QED  BY <1>2, <3>1, <3>2 DEF ElectionSafety, LeadsTerm
  <2> QED  BY <1>1, <1>4, <2>1 DEF TypeInv, TypeOK
<1>6. /\ log' = [log EXCEPT ![s] = Stored(log[s], prev, r.entries)]
      /\ UNCHANGED <<electionVars, elected, termLog>>
  BY DEF StoreEntries, historyVars, ballotVars, takenVars
<1>7. l = Stored(log[s], prev, r.entries) /\ log[s] \in Seq(Entry) /\ Sound(log[s], r.term, termLog)
  BY <1>1, <1>4, <1>6 DEF TypeInv, TypeOK, ReplicationInv, SoundLogs
<1>8. part \in Seq(Entry) /\ Len(part) = n /\ Agree(part, m, n)
  BY <1>1, <1>2, <1>3, SubSeqAgrees
<1> HIDE DEF m, n, part, l, prev
<1>9. Sound(part, r.term, termLog)
  BY <1>1, <1>3, <1>8, SoundBeginning DEF TypeInv
<1>10. Agree(log[s], part, prev)
  <2>1. CASE prev = 0
    BY <1>1, <1>7, <1>8, <2>1 DEF Agree
  <2>2. CASE prev # 0
    <3>1. prev \in DOMAIN log[s] /\ log[s][prev].term = r.prevLogTerm
      BY <1>4, <2>2 DEF Matches
    <3>2. prev > 0 /\ prev <= n
      BY <1>1, <2>2
    <3>3. prev \in DOMAIN part /\ part[prev] = m[prev]
      BY <1>1, <1>8, <3>2 DEF Agree
    <3>4. part[prev].term = log[s][prev].term
      BY <1>2, <3>1, <3>2, <3>3
    <3> QED  BY <1>1, <1>7, <1>8, <1>9, <3>1, <3>3, <3>4, SameEntry DEF TypeInv
  <2> QED  BY <2>1, <2>2
<1>11. l = IF Agree(log[s], part, n) THEN log[s] ELSE part
  <2>1. \A k \in DOMAIN r.entries : r.entries[k] = part[prev + k]
    <3> SUFFICES ASSUME NEW k \in DOMAIN r.entries PROVE r.entries[k] = part[prev + k]
      OBVIOUS
    <3>1. prev + k \in 1..n
      BY <1>1
    <3> QED  BY <1>2, <1>8, <3>1 DEF Agree
  <2>2. ASSUME NEW i \in DOMAIN log[s], i <= Len(part), log[s][i].term = part[i].term
        PROVE  Agree(log[s], part, i)
    <3>1. i \in Nat /\ i \in DOMAIN part
      BY <1>1, <1>7, <1>8, <2>2
    <3> QED  BY <1>7, <1>8, <1>9, <2>2, <3>1, SameEntry DEF TypeInv
  <2>3. Len(part) = prev + Len(r.entries)
    BY <1>1, <1>8
  <2> DEFINE es == r.entries
  <2>4. es \in Seq(Entry) /\ (\A k \in DOMAIN es : es[k] = part[prev + k])
        /\ Len(part) = prev + Len(es) /\ prev \in Nat
    BY <1>1, <2>1, <2>3
  <2>5. \A i \in DOMAIN log[s] :
           i <= Len(part) /\ log[s][i].term = part[i].term => Agree(log[s], part, i)
    BY <2>2
  <2> HIDE DEF es, s
  <2>6. Stored(log[s], prev, es) = IF Agree(log[s], part, Len(part)) THEN log[s] ELSE part
    BY <1>7, <1>8, <1>10, <2>4, <2>5, StoredIs
  <2> QED  BY <1>7, <1>8, <2>6 DEF es
<1>12. l \in Seq(Entry)
  BY <1>7, <1>8, <1>11
<1>13. Sound(l, r.term, termLog)
  BY <1>7, <1>9, <1>11
<1>14. Agree(l, m, n)
  <2>1. CASE l = part
    BY <1>8, <2>1
  <2>2. CASE l = log[s] /\ Agree(log[s], part, n)
    BY <1>1, <1>3, <1>7, <1>8, <2>2, AgreeVia
  <2> QED  BY <1>11, <2>1, <2>2
<1>15. l = log[s] \/ Agree(l, m, Len(l))
  BY <1>8, <1>11
<1>16. ASSUME NEW k \in Nat, Agree(log[s], m, k) PROVE Agree(l, log[s], k)
  <2>0. k <= Len(log[s])
    BY <1>16 DEF Agree
  <2>1. CASE l = log[s]
    BY <1>7, <2>0, <2>1, AgreeSelf
  <2>2. CASE l = part /\ ~Agree(log[s], part, n)
    <3>1. k < n
      <4> SUFFICES ASSUME k >= n PROVE FALSE
        BY <1>1
      <4>1. Agree(log[s], m, n)
        BY <1>1, <1>3, <1>7, <1>16, AgreeLess
      <4>2. Agree(m, part, n)
        BY <1>1, <1>3, <1>8, AgreeBack
      <4>3. Agree(log[s], part, n)
        BY <1>1, <1>3, <1>7, <1>8, <4>1, <4>2, AgreeVia
      <4> QED  BY <2>2, <4>3
    <3>2. Agree(m, log[s], k)
      BY <1>3, <1>7, <1>16, AgreeBack
    <3>3. k <= n
      BY <1>1, <3>1
    <3> QED  BY <1>1, <1>3, <1>7, <1>8, <2>2, <3>2, <3>3, AgreeVia
  <2> QED  BY <1>11, <2>1, <2>2
<1>17. log' = [log EXCEPT ![s] = l]
  BY <1>6, <1>7
<1> QED  BY <1>3, <1>4, <1>5, <1>6, <1>12, <1>13, <1>14, <1>15, <1>16, <1>17 DEF m, n, l

LEMMA LogFollowsStep ==
  ASSUME TypeInv, TypeInv', ElectionInv, ReplicationInv, LogsMove
  PROVE  \A s \in Server : LogFollows(s)
<1>1. ASSUME NEW s \in Server, NEW c \in Command, Start(s, c) PROVE LogFollows(s)
  <2> DEFINE t == currentTerm[s]
             l == Append(log[s], [term |-> t, command |-> c])
  <2>1. /\ t \in DOMAIN termLog /\ termLog[t] = log[s] /\ state[s] = "Leader"
        /\ log' = [log EXCEPT ![s] = l] /\ termLog' = Recorded(t, l)
        /\ l \in Seq(Entry) /\ Agree(log[s], l, Len(log[s])) /\ log[s] \in Seq(Entry)
        /\ UNCHANGED electionVars
    BY <1>1, StartDoes DEF ReplicationInv, TypeInv, TypeOK
  <2> HIDE DEF t, l
  <2>2. log'[s] = l /\ LogOf(termLog', t) = l
    BY <2>1 DEF Recorded, LogOf, TypeInv, TypeOK
  <2>3. Agree(log'[s], LogOf(termLog', t), Len(log'[s]))
    BY <2>1, <2>2, AgreeSelf
  <2>4. ASSUME NEW n \in Nat, Agree(log[s], TermLog(t), n) PROVE Agree(l, log[s], n)
    <3>1. n <= Len(log[s]) /\ Len(log[s]) \in Nat
      BY <2>1, <2>4 DEF Agree
    <3> QED  BY <2>1, <3>1, AgreeLess, AgreeBack
  <2>5. state[s] # "Candidate" /\ currentTerm'[s] = t
    BY <2>1 DEF electionVars, t
  <2> QED  BY <2>1, <2>2, <2>3, <2>4, <2>5 DEF LogFollows, t
<1>2. ASSUME NEW r \in appendRpcs, StoreEntries(r) PROVE LogFollows(r.to)
  <2> DEFINE s == r.to
             m == TermLog(r.term)
             l == log'[s]
  <2>1. /\ currentTerm[s] = r.term /\ state[s] = "Follower" /\ r.term \in DOMAIN termLog
        /\ l = log[s] \/ Agree(l, m, Len(l))
        /\ \A n \in Nat : Agree(log[s], m, n) => Agree(l, log[s], n)
        /\ UNCHANGED <<electionVars, elected, termLog>>
    BY <1>2, StoreDoes
  <2>2. LogOf(termLog', currentTerm[s]) = m /\ TermLog(currentTerm[s]) = m
        /\ currentTerm'[s] = currentTerm[s]
    BY <2>1 DEF TermLog, electionVars
  <2> QED  BY <2>1, <2>2 DEF LogFollows
<1> QED  BY <1>1, <1>2 DEF LogsMove, LogFollows

-----------------------------------------------------------------------------
(* The facts about logs, kept by every step.                               *)

LEMMA SoundLogsStep ==
  ASSUME TypeInv, TypeInv', ElectionInv, ReplicationInv, RolesMove, LogsMove, TermLogGrows,
         ElectionInv'
  PROVE  SoundLogs'
<1>0. TypeOK /\ TypeOK'
  BY DEF TypeInv
<1>1. ASSUME NEW s \in Server PROVE Sound(log'[s], currentTerm'[s], termLog')
  <2>1. /\ currentTerm[s] \in Nat /\ currentTerm'[s] \in Nat /\ currentTerm[s] <= currentTerm'[s]
        /\ log[s] \in Seq(Entry) /\ Sound(log[s], currentTerm[s], termLog)
    BY DEF TypeInv, TypeOK, RolesMove, ReplicationInv, SoundLogs
  <2>2. CASE log'[s] = log[s]
    BY <1>0, <2>1, <2>2, SoundStays
  <2>3. ASSUME NEW c \in Command, Start(s, c) PROVE Sound(log'[s], currentTerm'[s], termLog')
    <3> DEFINE t == currentTerm[s]
               a == log[s]
               l == Append(log[s], [term |-> t, command |-> c])
    <3>1. /\ t \in DOMAIN termLog /\ termLog[t] = a
          /\ log' = [log EXCEPT ![s] = l] /\ termLog' = Recorded(t, l)
          /\ l \in Seq(Entry) /\ Len(l) = Len(a) + 1 /\ l[Len(a) + 1].term = t
          /\ Agree(a, l, Len(a)) /\ UNCHANGED electionVars
      BY <2>3, StartDoes DEF ReplicationInv
    <3>2. a \in Seq(Entry) /\ Sound(a, t, termLog') /\ t \in Nat
      BY <1>0, <2>1, SoundStays
    <3>3. log'[s] = l /\ LogOf(termLog', t) = l /\ currentTerm'[s] = t
      <4> HIDE DEF t, l
      <4>1. log'[s] = l /\ LogOf(termLog', t) = l
        BY <3>1 DEF Recorded, LogOf, TypeInv, TypeOK
      <4> QED  BY <3>1, <4>1 DEF t, electionVars
    <3> HIDE DEF t, l, a
    <3>4. /\ Len(a) \in Nat
          /\ \A n \in DOMAIN l : (n \in DOMAIN a /\ l[n] = a[n]) \/ n = Len(a) + 1
      BY <3>1, <3>2 DEF Agree
    <3>5. ASSUME NEW n \in DOMAIN l
          PROVE  l[n].term <= t /\ Agree(l, LogOf(termLog', l[n].term), n)
      <4>1. CASE n = Len(a) + 1
        <5>1. l[n].term = t /\ n \in Nat /\ n <= Len(l)
          BY <3>1, <3>4, <4>1
        <5>2. Agree(l, l, n)
          BY <3>1, <5>1, AgreeSelf
        <5> QED  BY <3>2, <3>3, <5>1, <5>2
      <4>2. CASE n \in DOMAIN a /\ l[n] = a[n]
        <5> DEFINE m == LogOf(termLog', l[n].term)
        <5>1. l[n].term <= t /\ Agree(a, m, n)
          BY <3>2, <4>2 DEF Sound
        <5>2. m \in Seq(Entry)
          BY <1>0 DEF LogOf, TypeOK
        <5>3. n \in Nat /\ n <= Len(a) /\ Agree(l, a, Len(a))
          BY <3>1, <3>2, <3>4, <4>2, AgreeBack
        <5> HIDE DEF m
        <5>4. Agree(l, m, n)
          BY <3>1, <3>2, <3>4, <5>1, <5>2, <5>3, AgreeVia
        <5> QED  BY <5>1, <5>4 DEF m
      <4> QED  BY <3>4, <4>1, <4>2
    <3>6. ASSUME NEW i \in DOMAIN l, NEW j \in DOMAIN l, i <= j PROVE l[i].term <= l[j].term
      <4>1. CASE j \in DOMAIN a /\ l[j] = a[j]
        <5>1. i \in DOMAIN a /\ l[i] = a[i]
          BY <3>1, <3>2, <3>4, <3>6, <4>1
        <5> QED  BY <3>2, <3>6, <4>1, <5>1 DEF Sound
      <4>2. CASE j = Len(a) + 1
        BY <3>1, <3>5, <4>2
      <4> QED  BY <3>4, <4>1, <4>2
    <3> QED  BY <3>3, <3>5, <3>6 DEF Sound
  <2>4. ASSUME NEW r \in appendRpcs, r.to = s, StoreEntries(r)
        PROVE  Sound(log'[s], currentTerm'[s], termLog')
    <3>1. /\ Sound(log'[s], r.term, termLog) /\ currentTerm[s] = r.term
          /\ UNCHANGED <<electionVars, termLog>>
      BY <2>4, StoreDoes
    <3> QED  BY <3>1 DEF electionVars
  <2> QED  BY <2>2, <2>3, <2>4 DEF LogsMove
<1>2. ASSUME NEW t \in DOMAIN termLog' PROVE Sound(termLog'[t], t, termLog')
  <2>0. t \in Nat /\ termLog'[t] \in Seq(Entry)
    BY <1>0 DEF TypeOK
  <2>1. CASE t \in DOMAIN termLog /\ termLog'[t] = termLog[t]
    <3>1. Sound(termLog[t], t, termLog) /\ t <= t
      BY <2>0, <2>1 DEF ReplicationInv, SoundLogs
    <3> QED  BY <1>0, <2>0, <2>1, <3>1, SoundStays
  <2>2. ASSUME NEW s \in Server, t = currentTerm[s], termLog'[t] = log'[s], currentTerm'[s] = t
        PROVE  Sound(termLog'[t], t, termLog')
    BY <1>1, <2>2
  <2>3. ASSUME NEW s \in Server, BecomeLeader(s) PROVE Sound(termLog'[t], t, termLog')
    <3>1. termLog' = Recorded(currentTerm[s], log[s]) /\ log' = log /\ currentTerm' = currentTerm
      BY <2>3 DEF BecomeLeader, logVars
    <3> QED  BY <2>1, <2>2, <3>1 DEF Recorded
  <2>4. ASSUME NEW s \in Server, NEW c \in Command, Start(s, c)
        PROVE  Sound(termLog'[t], t, termLog')
    <3>1. termLog' = Recorded(currentTerm[s], log'[s]) /\ currentTerm' = currentTerm
      BY <2>4 DEF Start, electionVars
    <3> QED  BY <2>1, <2>2, <3>1 DEF Recorded
  <2>5. CASE termLog' = termLog
    BY <2>1, <2>5
  <2> QED  BY <2>3, <2>4, <2>5 DEF LogsMove
<1> QED  BY <1>1, <1>2 DEF SoundLogs

LEMMA ReignsOnceStep ==
  ASSUME TypeInv, TypeInv', ReignsOnce, RolesMove, LogsMove, LeaderHasTermLog
  PROVE  ReignsOnce'
<1>1. ASSUME NEW e \in elected
      PROVE  /\ e.term <= currentTerm'[e.leader]
             /\ e.term = currentTerm'[e.leader] => ~Collecting(e.leader)'
  <2> DEFINE t == e.term
             s == e.leader
  <2>1. t \in Nat /\ s \in Server
    BY DEF TypeInv, TypeOK
  <2>2. t <= currentTerm[s] /\ (t = currentTerm[s] => ~Collecting(s))
    BY DEF ReignsOnce
  <2> HIDE DEF t, s
  <2>3. currentTerm[s] \in Nat /\ currentTerm'[s] \in Nat /\ currentTerm'[s] >= currentTerm[s]
    BY <2>1 DEF TypeInv, TypeOK, RolesMove
  <2>4. t <= currentTerm'[s]
    BY <2>1, <2>2, <2>3
  <2>5. ASSUME t = currentTerm'[s], Collecting(s)' PROVE FALSE
    <3>1. t = currentTerm[s]
      BY <2>1, <2>2, <2>3, <2>5
    <3>2. Collecting(s) \/ currentTerm'[s] > currentTerm[s]
      BY <2>1, <2>5 DEF RolesMove
    <3> QED  BY <2>2, <2>3, <2>5, <3>1, <3>2
  <2> QED  BY <2>4, <2>5 DEF t, s
<1>2. CASE UNCHANGED <<termLog, elected>>
  BY <1>1, <1>2 DEF ReignsOnce
<1>3. ASSUME NEW s \in Server, BecomeLeader(s) PROVE ReignsOnce'
  <2> DEFINE f == [term |-> currentTerm[s], leader |-> s, votes |-> tally[s]]
  <2>1. /\ elected' = elected \cup {f} /\ termLog' = Recorded(currentTerm[s], log[s])
        /\ state' = [state EXCEPT ![s] = "Leader"] /\ currentTerm' = currentTerm
    BY <1>3 DEF BecomeLeader
  <2>2. DOMAIN termLog' = DOMAIN termLog \cup {f.term}
    BY <2>1 DEF Recorded
  <2>3. DOMAIN termLog' = {e.term : e \in elected'}
    BY <2>1, <2>2 DEF ReignsOnce
  <2>4. f.term <= currentTerm'[f.leader] /\ ~Collecting(f.leader)'
    <3>1. currentTerm[s] \in Nat
      BY DEF TypeInv, TypeOK
    <3>2. currentTerm[s] <= currentTerm'[s] /\ ~Collecting(s)'
      BY <2>1, <3>1 DEF Collecting, TypeInv, TypeOK
    <3> QED  BY <3>2
  <2>5. ASSUME NEW e \in elected'
        PROVE  /\ e.term <= currentTerm'[e.leader]
               /\ e.term = currentTerm'[e.leader] => ~Collecting(e.leader)'
    <3>1. CASE e = f
      BY <2>4, <3>1
    <3>2. CASE e \in elected
      BY <1>1, <3>2
    <3> QED  BY <2>1, <3>1, <3>2
  <2> HIDE DEF f
  <2> QED  BY <2>3, <2>5 DEF ReignsOnce
<1>4. ASSUME NEW s \in Server, NEW c \in Command, Start(s, c) PROVE ReignsOnce'
  <2>1. /\ currentTerm[s] \in DOMAIN termLog /\ elected' = elected
        /\ termLog' = Recorded(currentTerm[s], Append(log[s], [term |-> currentTerm[s], command |-> c]))
    BY <1>4, StartDoes
  <2>2. DOMAIN termLog' = DOMAIN termLog
    BY <2>1 DEF Recorded
  <2> QED  BY <1>1, <2>1, <2>2 DEF ReignsOnce
<1> QED  BY <1>2, <1>3, <1>4 DEF LogsMove

LEMMA LeaderHasTermLogStep ==
  ASSUME TypeInv, TypeInv', ElectionInv, ElectionInv', ReplicationInv, RolesMove, LogsMove
  PROVE  LeaderHasTermLog'
<1> USE DEF ReplicationInv
<1>0. elected \subseteq elected'
  BY DEF LogsMove, Start, BecomeLeader, ballotVars
<1> SUFFICES ASSUME NEW s \in Server, state'[s] = "Leader"
             PROVE  /\ \E e \in elected' : e.leader = s /\ e.term = currentTerm'[s]
                    /\ log'[s] = LogOf(termLog', currentTerm'[s])
  BY DEF LeaderHasTermLog, LeadsTerm, TermLog
<1>1. currentTerm'[s] = currentTerm[s] /\ (state[s] = "Leader" \/ BecomeLeader(s))
  BY DEF RolesMove
<1>2. CASE BecomeLeader(s)
  <2> DEFINE f == [term |-> currentTerm[s], leader |-> s, votes |-> tally[s]]
  <2>1. f \in elected' /\ termLog' = Recorded(currentTerm[s], log[s]) /\ log' = log
    BY <1>2 DEF BecomeLeader, logVars
  <2>2. LogOf(termLog', currentTerm[s]) = log[s]
    BY <2>1 DEF LogOf, Recorded
  <2> QED  BY <1>1, <2>1, <2>2
<1>3. CASE state[s] = "Leader" /\ ~BecomeLeader(s)
  <2> DEFINE t == currentTerm[s]
  <2>1. LeadsTerm(s, t) /\ log[s] = LogOf(termLog, t) /\ t \in DOMAIN termLog
    BY <1>3 DEF LeaderHasTermLog, TermLog, LeadsTerm, ReignsOnce
  <2>2. \E e \in elected' : e.leader = s /\ e.term = currentTerm'[s]
    BY <1>0, <1>1, <2>1 DEF LeadsTerm
  <2>3. ASSUME NEW p \in Server, BecomeLeader(p) PROVE log'[s] = log[s] /\ LogOf(termLog', t) = log[s]
    <3>1. currentTerm[p] # t
      BY <2>1, <2>3, NewReign
    <3>2. log' = log /\ termLog' = Recorded(currentTerm[p], log[p])
      BY <2>3 DEF BecomeLeader, logVars
    <3> QED  BY <2>1, <3>1, <3>2 DEF Recorded, LogOf
  <2>4. ASSUME NEW p \in Server, NEW c \in Command, Start(p, c)
        PROVE  log'[s] = LogOf(termLog', t)
    <3> DEFINE u == currentTerm[p]
               l == Append(log[p], [term |-> u, command |-> c])
    <3>1. /\ log' = [log EXCEPT ![p] = l] /\ termLog' = Recorded(u, l) /\ state[p] = "Leader"
      BY <2>4, StartDoes
    <3> HIDE DEF l
    <3>2. CASE p = s
      BY <3>1, <3>2 DEF Recorded, LogOf, TypeInv, TypeOK
    <3>3. CASE p # s
      <4>1. u # t
        <5>1. ASSUME u = t PROVE FALSE
          <6>1. LeadsTerm(p, t)
            BY <3>1, <5>1 DEF LeaderHasTermLog
          <6>2. ElectionSafety
            BY MajoritiesDecide
          <6> QED  BY <2>1, <3>3, <6>1, <6>2 DEF ElectionSafety, LeadsTerm
        <5> QED  BY <5>1
      <4>2. log'[s] = log[s]
        BY <3>1, <3>3 DEF TypeInv, TypeOK
      <4> QED  BY <2>1, <3>1, <4>1, <4>2 DEF Recorded, LogOf
    <3> QED  BY <3>2, <3>3
  <2>5. ASSUME NEW r \in appendRpcs, r.to = s, StoreEntries(r) PROVE FALSE
    <3>1. state[r.to] = "Follower"
      BY <2>5, StoreDoes
    <3> QED  BY <1>3, <2>5, <3>1
  <2>6. termLog' = termLog /\ log'[s] = log[s] => log'[s] = LogOf(termLog', t)
    BY <2>1
  <2>7. log'[s] = LogOf(termLog', t)
    <3>1. log'[s] = log[s] \/ \E c \in Command : Start(s, c)
      BY <2>5 DEF LogsMove
    <3> HIDE DEF t
    <3> QED  BY <2>1, <2>3, <2>4, <2>6, <3>1 DEF LogsMove
  <2> QED  BY <1>1, <2>2, <2>7
<1> QED  BY <1>1, <1>2, <1>3

-----------------------------------------------------------------------------
(* Votes and logs.                                                         *)

LEMMA VoteCallsMoveStep == ASSUME TypeInv, [Next]_vars PROVE VoteCallsMove
<1> USE DEF VoteCallsMove
<1>1. CASE voteRpcs' \subseteq voteRpcs
  BY <1>1
<1>2. ASSUME NEW s \in Server, NEW p \in Peers(s), AskForVote(s, p) PROVE VoteCallsMove
  BY <1>2 DEF AskForVote, logVars
<1>3. ASSUME NEW r \in voteRpcs, NEW t, NEW ok, AnswerVote(r, t, ok) PROVE VoteCallsMove
  <2>1. r \in VoteRpc
    BY DEF TypeInv, TypeOK
  <2>2. ASSUME NEW x \in voteRpcs'
        PROVE  \E y \in voteRpcs : /\ x.from = y.from /\ x.term = y.term
                                   /\ x.lastLogIndex = y.lastLogIndex
                                   /\ x.lastLogTerm = y.lastLogTerm
    <3>1. x \in voteRpcs \/ x = [r EXCEPT !.stage = "replied", !.replyTerm = t, !.granted = ok]
      BY <1>3 DEF AnswerVote
    <3> QED  BY <2>1, <3>1 DEF VoteRpc
  <2> QED  BY <2>2
<1>4. ASSUME NEW s \in Server, Restart(s) PROVE VoteCallsMove
  <2>1. voteRpcs' = Orphaned(voteRpcs, s)
    BY <1>4 DEF Restart, Reboot
  <2>2. ASSUME NEW x \in voteRpcs'
        PROVE  \E y \in voteRpcs : /\ x.from = y.from /\ x.term = y.term
                                   /\ x.lastLogIndex = y.lastLogIndex
                                   /\ x.lastLogTerm = y.lastLogTerm
    <3>1. PICK y \in voteRpcs : x = y \/ x = [y EXCEPT !.live = FALSE]
      BY <2>1 DEF Orphaned
    <3>2. y \in VoteRpc
      BY DEF TypeInv, TypeOK
    <3> QED  BY <3>1, <3>2 DEF VoteRpc
  <2> QED  BY <2>2
<1>5. ASSUME NEW s \in Server,
             \/ FollowerTimeout(s) \/ CandidateTimeout(s) \/ StartElection(s) \/ BecomeLeader(s)
             \/ \E p \in Peers(s) : SendAppendEntries(s, p)
             \/ \E c \in Command : Start(s, c)
      PROVE  voteRpcs' \subseteq voteRpcs
  BY <1>5 DEF FollowerTimeout, CandidateTimeout, StartElection, BecomeLeader,
              SendAppendEntries, Start
<1>6. ASSUME NEW r \in voteRpcs, VoteCall(r) PROVE VoteCallsMove
  <2>1. \/ voteRpcs' \subseteq voteRpcs
        \/ \E t, ok : AnswerVote(r, t, ok)
    BY <1>6 DEF VoteCall, RefuseStaleVote, HandleRequestVote, CountVote, RefusedByNewerTerm,
                DropVote
  <2> HIDE DEF VoteCallsMove
  <2> QED  BY <1>1, <1>3, <2>1
<1>7. ASSUME NEW r \in appendRpcs, AppendCall(r) PROVE voteRpcs' \subseteq voteRpcs
  BY <1>7 DEF AppendCall, RefuseStaleAppend, AcceptAppend, RefuseMismatch, PassMatch,
              StoreEntries, FollowCommit, DeposedByReply, CheckReply, CountSuccess, BackUp,
              DropAppend
<1>8. CASE UNCHANGED vars
  BY <1>1, <1>8 DEF vars
<1> QED
  <2> HIDE DEF VoteCallsMove
  <2> QED  BY <1>1, <1>2, <1>4, <1>5, <1>6, <1>7, <1>8 DEF Next, RaftThread

LEMMA VoteCallsTellLogStep ==
  ASSUME TypeInv, TypeInv', OneCallPerPeer, VoteCallsTellLog, RolesMove, VoteCallsMove,
         \A s \in Server : LogFollows(s)
  PROVE  VoteCallsTellLog'
<1> SUFFICES ASSUME NEW x \in voteRpcs', x.term = currentTerm'[x.from], Collecting(x.from)'
             PROVE  /\ x.lastLogIndex = Len(log'[x.from])
                    /\ x.lastLogTerm = LastTerm(log'[x.from])
  BY DEF VoteCallsTellLog
<1>1. x.from \in Server /\ currentTerm[x.from] \in Nat /\ currentTerm'[x.from] \in Nat
  BY DEF TypeInv, TypeOK, VoteRpc
<1>2. CASE \E y \in voteRpcs : /\ x.from = y.from /\ x.term = y.term
                               /\ x.lastLogIndex = y.lastLogIndex /\ x.lastLogTerm = y.lastLogTerm
  <2>1. PICK y \in voteRpcs : /\ x.from = y.from /\ x.term = y.term
                              /\ x.lastLogIndex = y.lastLogIndex /\ x.lastLogTerm = y.lastLogTerm
    BY <1>2
  <2>2. currentTerm'[x.from] <= currentTerm[x.from]
    BY <2>1 DEF OneCallPerPeer
  <2>3. currentTerm'[x.from] = currentTerm[x.from] /\ Collecting(x.from)
    BY <1>1, <2>2 DEF RolesMove
  <2>4. log'[x.from] = log[x.from]
    BY <1>1, <2>3 DEF LogFollows, Collecting
  <2> QED  BY <2>1, <2>3, <2>4 DEF VoteCallsTellLog
<1> QED  BY <1>2 DEF VoteCallsMove

LEMMA CastStep ==
  ASSUME TypeInv, TypeInv', OneCallPerPeer, VoteCallsTellLog, RolesMove, [Next]_vars
  PROVE  CastMoves
<1>1. CASE cast' = cast
  BY <1>1 DEF CastMoves
<1>2. ASSUME NEW s \in Server, StartElection(s) PROVE CastMoves
  <2> DEFINE v == [term |-> currentTerm'[s], voter |-> s, candidate |-> s]
  <2>1. cast' = cast \cup {v}
    BY <1>2 DEF StartElection
  <2>2. currentTerm[s] <= currentTerm'[s] /\ currentTerm'[s] <= currentTerm'[s]
    BY DEF RolesMove, TypeInv, TypeOK
  <2>3. UpToDate(LastTerm(log[s]), Len(log[s]), log[s])
    BY DEF UpToDate, TypeInv, TypeOK
  <2> QED  BY <2>1, <2>2, <2>3 DEF CastMoves
<1>3. ASSUME NEW r \in voteRpcs, HandleRequestVote(r) PROVE CastMoves
  <2> DEFINE v == [term |-> r.term, voter |-> r.to, candidate |-> r.from]
             grant == VoteIsFree(r) /\ UpToDate(r.lastLogTerm, r.lastLogIndex, log[r.to])
  <2>1. /\ cast' = IF grant THEN cast \cup {v} ELSE cast
        /\ r.term >= currentTerm[r.to]
    BY <1>3 DEF HandleRequestVote
  <2>2. /\ r.from \in Server /\ r.to \in Server /\ r.term \in Nat
        /\ currentTerm[r.to] \in Nat
        /\ currentTerm[r.from] \in Nat /\ currentTerm'[r.from] \in Nat
    BY DEF TypeInv, TypeOK, VoteRpc
  <2>3. r.term <= currentTerm[r.from] /\ currentTerm[r.from] <= currentTerm'[r.from]
    BY <2>2 DEF OneCallPerPeer, RolesMove
  <2> DEFINE t == r.term
             f == r.from
  <2>4. t \in Nat /\ t <= currentTerm[f] /\ currentTerm[f] <= currentTerm'[f]
        /\ t >= currentTerm[r.to] /\ f \in Server
    BY <2>1, <2>2, <2>3
  <2>5. t <= currentTerm'[f] /\ currentTerm[r.to] <= t
    <3> HIDE DEF t, f
    <3> QED  BY <2>2, <2>4 DEF TypeInv, TypeOK
  <2>6. ASSUME Collecting(f)', currentTerm'[f] = t
        PROVE  r.lastLogIndex = Len(log[f]) /\ r.lastLogTerm = LastTerm(log[f])
    <3>1. currentTerm'[f] = currentTerm[f]
      <4> HIDE DEF t, f
      <4> QED  BY <2>4, <2>6 DEF TypeInv, TypeOK
    <3>2. Collecting(f)
      BY <2>2, <2>6, <3>1 DEF RolesMove
    <3> QED  BY <2>6, <3>1, <3>2 DEF VoteCallsTellLog
  <2> QED  BY <2>1, <2>5, <2>6 DEF CastMoves
<1>4. ASSUME NEW s \in Server, RaftThread(s), ~StartElection(s) PROVE cast' = cast
  BY <1>4 DEF RaftThread, FollowerTimeout, CandidateTimeout, BecomeLeader, AskForVote,
              SendAppendEntries, historyVars, ballotVars
<1>5. ASSUME NEW r \in voteRpcs, VoteCall(r), ~HandleRequestVote(r) PROVE cast' = cast
  BY <1>5 DEF VoteCall, RefuseStaleVote, CountVote, RefusedByNewerTerm, DropVote,
              historyVars, ballotVars
<1>6. ASSUME NEW r \in appendRpcs, AppendCall(r) PROVE cast' = cast
  BY <1>6 DEF AppendCall, RefuseStaleAppend, AcceptAppend, RefuseMismatch, PassMatch,
              StoreEntries, FollowCommit, DeposedByReply, CheckReply, CountSuccess, BackUp,
              DropAppend, historyVars, ballotVars
<1>7. ASSUME NEW s \in Server, Restart(s) \/ \E c \in Command : Start(s, c) PROVE cast' = cast
  BY <1>7 DEF Restart, Reboot, Start, ballotVars
<1>8. CASE UNCHANGED vars
  BY <1>1, <1>8 DEF vars, historyVars, ballotVars
<1> QED  BY <1>1, <1>2, <1>3, <1>4, <1>5, <1>6, <1>7, <1>8 DEF Next

LEMMA CastIsBegunStep ==
  ASSUME TypeInv, TypeInv', CastIsBegun, RolesMove, CastMoves
  PROVE  CastIsBegun'
<1> SUFFICES ASSUME NEW v \in cast' PROVE v.term <= currentTerm'[v.candidate]
  BY DEF CastIsBegun
<1>1. CASE v \in cast
  <2> DEFINE t == v.term
             s == v.candidate
  <2>1. /\ t \in Nat /\ s \in Server /\ t <= currentTerm[s] /\ currentTerm[s] <= currentTerm'[s]
        /\ currentTerm[s] \in Nat /\ currentTerm'[s] \in Nat
    BY <1>1 DEF CastIsBegun, RolesMove, TypeInv, TypeOK
  <2> HIDE DEF t, s
  <2>2. t <= currentTerm'[s]
    BY <2>1
  <2> QED  BY <2>2 DEF t, s
<1> QED  BY <1>1 DEF CastMoves

-----------------------------------------------------------------------------
(* Calls of appendEntries.                                                 *)

\* With nothing else between two sections, the steps of one call r.
LEMMA CallProceeds ==
  ASSUME TypeOK, NEW r \in appendRpcs, \A q \in appendRpcs : q # r => ~Preempted(q),
         NEW n, SameCall(n, r), Proceeds(r, n),
         n.conflictIndex = r.conflictIndex \/ n.conflictIndex <= r.prevLogIndex,
         appendRpcs' \subseteq (appendRpcs \ {r}) \cup {n}
  PROVE  AppendCallsMove
<1> SUFFICES ASSUME NEW x \in appendRpcs'
             PROVE  \/ \E q \in appendRpcs :
                         /\ SameCall(x, q) /\ x.stage = q.stage /\ x.success = q.success
                         /\ x.conflictIndex = q.conflictIndex
                         /\ Preempted(q) => Undisturbed(q)
                    \/ \E q \in appendRpcs :
                         /\ SameCall(x, q) /\ Proceeds(q, x)
                         /\ \/ x.conflictIndex = q.conflictIndex
                            \/ x.conflictIndex <= q.prevLogIndex
  BY DEF AppendCallsMove
<1>1. CASE x \in appendRpcs \ {r}
  BY <1>1 DEF SameCall
<1>2. CASE x = n
  BY <1>2
<1> QED  BY <1>1, <1>2

\* Calls that wait, or are gone.
LEMMA CallsWait ==
  ASSUME appendRpcs' \subseteq appendRpcs,
         \A r \in appendRpcs' : Preempted(r) => Undisturbed(r)
  PROVE  AppendCallsMove
BY DEF AppendCallsMove, SameCall

\* What a step makes of the call it is about.
LEMMA CallSteps ==
  ASSUME TypeOK, NEW r \in appendRpcs,
         \/ RefuseStaleAppend(r) \/ AcceptAppend(r) \/ RefuseMismatch(r) \/ PassMatch(r)
         \/ StoreEntries(r) \/ FollowCommit(r) \/ CheckReply(r)
  PROVE  \E n : /\ SameCall(n, r) /\ Proceeds(r, n)
                /\ n.conflictIndex = r.conflictIndex \/ n.conflictIndex <= r.prevLogIndex
                /\ appendRpcs' \subseteq (appendRpcs \ {r}) \cup {n}
                /\ r.stage \in {"sent", "replied"} => CanLock
<1>0. r \in AppendRpc /\ r.prevLogIndex \in Nat /\ log[r.to] \in Seq(Entry)
  BY DEF TypeOK, AppendRpc
<1>1. CASE RefuseStaleAppend(r)
  <2> DEFINE n == [r EXCEPT !.stage = "replied", !.replyTerm = currentTerm[r.to],
                            !.success = FALSE, !.conflictIndex = 0]
  <2>1. appendRpcs' \subseteq (appendRpcs \ {r}) \cup {n} /\ CanLock
    BY <1>1 DEF RefuseStaleAppend, Answer
  <2>2. SameCall(n, r) /\ n.stage = "replied" /\ n.success = FALSE /\ n.conflictIndex = 0
    BY <1>0 DEF AppendRpc, SameCall
  <2> HIDE DEF n
  <2>3. n.conflictIndex <= r.prevLogIndex
    BY <1>0, <2>2
  <2> QED  BY <1>1, <2>1, <2>2, <2>3 DEF Proceeds
<1>2. CASE RefuseMismatch(r)
  <2> DEFINE c == ConflictIndex(log[r.to], r.prevLogIndex)
             n == [r EXCEPT !.stage = "replied", !.replyTerm = r.replyTerm,
                            !.success = FALSE, !.conflictIndex = c]
  <2>1. appendRpcs' \subseteq (appendRpcs \ {r}) \cup {n} /\ r.stage = "match"
    BY <1>2 DEF RefuseMismatch, Answer
  <2>2. SameCall(n, r) /\ n.stage = "replied" /\ n.success = FALSE /\ n.conflictIndex = c
    BY <1>0 DEF AppendRpc, SameCall
  <2>3. r.prevLogIndex # 0
    BY <1>2 DEF RefuseMismatch, Matches
  <2>4. c <= r.prevLogIndex
    BY <1>0, <2>3, ConflictIndexBelow
  <2> QED  BY <1>2, <2>1, <2>2, <2>4 DEF Proceeds
<1>3. CASE FollowCommit(r)
  <2> DEFINE n == [r EXCEPT !.stage = "replied", !.replyTerm = r.replyTerm,
                            !.success = TRUE, !.conflictIndex = 0]
  <2>1. appendRpcs' \subseteq (appendRpcs \ {r}) \cup {n} /\ r.stage = "commit"
    BY <1>3 DEF FollowCommit, Answer
  <2>2. SameCall(n, r) /\ n.stage = "replied" /\ n.success = TRUE /\ n.conflictIndex = 0
    BY <1>0 DEF AppendRpc, SameCall
  <2> HIDE DEF n
  <2>3. n.conflictIndex <= r.prevLogIndex
    BY <1>0, <2>2
  <2> QED  BY <1>3, <2>1, <2>2, <2>3 DEF Proceeds
<1>4. CASE AcceptAppend(r)
  <2> DEFINE n == [r EXCEPT !.stage = "match", !.replyTerm = currentTerm[r.to]]
  <2>1. appendRpcs' = (appendRpcs \ {r}) \cup {n} /\ CanLock
    BY <1>4 DEF AcceptAppend, Advance
  <2>2. SameCall(n, r) /\ n.stage = "match" /\ n.conflictIndex = r.conflictIndex
    BY <1>0 DEF AppendRpc, SameCall
  <2> QED  BY <1>4, <2>1, <2>2 DEF Proceeds
<1>5. CASE PassMatch(r)
  <2> DEFINE n == [r EXCEPT !.stage = "store"]
  <2>1. appendRpcs' = (appendRpcs \ {r}) \cup {n} /\ r.stage = "match"
    BY <1>5 DEF PassMatch, Advance
  <2>2. SameCall(n, r) /\ n.stage = "store" /\ n.conflictIndex = r.conflictIndex
    BY <1>0 DEF AppendRpc, SameCall
  <2> QED  BY <1>5, <2>1, <2>2 DEF Proceeds
<1>6. CASE StoreEntries(r)
  <2> DEFINE n == [r EXCEPT !.stage = "commit"]
  <2>1. appendRpcs' = (appendRpcs \ {r}) \cup {n} /\ r.stage = "store"
    BY <1>6 DEF StoreEntries, Advance
  <2>2. SameCall(n, r) /\ n.stage = "commit" /\ n.conflictIndex = r.conflictIndex
    BY <1>0 DEF AppendRpc, SameCall
  <2> QED  BY <1>6, <2>1, <2>2 DEF Proceeds
<1>7. CASE CheckReply(r)
  <2> DEFINE n == [r EXCEPT !.stage = "checked"]
  <2>1. appendRpcs' = (appendRpcs \ {r}) \cup {n} /\ CanLock
    BY <1>7 DEF CheckReply, CurrentReply, Advance
  <2>2. /\ SameCall(n, r) /\ n.stage = "checked" /\ n.conflictIndex = r.conflictIndex
        /\ n.success = r.success
    BY <1>0 DEF AppendRpc, SameCall
  <2> QED  BY <1>7, <2>1, <2>2 DEF Proceeds
<1> QED  BY <1>1, <1>2, <1>3, <1>4, <1>5, <1>6, <1>7

\* What a step needs of m_mu: it starts a call, or goes on with the one that waits.
LEMMA AppendCallsStep ==
  ASSUME ~Preemptible, TypeInv, OneCallAtATime, [Next]_vars
  PROVE  AppendCallsMove
<1>0. TypeOK
  BY DEF TypeInv
<1>1. CanLock => \A q \in appendRpcs : ~Preempted(q)
  BY DEF CanLock
<1>2. ASSUME NEW r \in appendRpcs,
             \/ RefuseStaleAppend(r) \/ AcceptAppend(r) \/ RefuseMismatch(r) \/ PassMatch(r)
             \/ StoreEntries(r) \/ FollowCommit(r) \/ CheckReply(r)
      PROVE  AppendCallsMove
  <2>1. PICK n : /\ SameCall(n, r) /\ Proceeds(r, n)
                 /\ n.conflictIndex = r.conflictIndex \/ n.conflictIndex <= r.prevLogIndex
                 /\ appendRpcs' \subseteq (appendRpcs \ {r}) \cup {n}
                 /\ r.stage \in {"sent", "replied"} => CanLock
    BY <1>0, <1>2, CallSteps
  <2>2. \A q \in appendRpcs : q # r => ~Preempted(q)
    <3>1. r.stage \in {"sent", "replied", "match", "store", "commit", "checked"}
      BY <1>0 DEF TypeOK, AppendRpc
    <3> QED  BY <1>1, <2>1, <3>1 DEF OneCallAtATime, Preempted
  <2> QED  BY <1>0, <2>1, <2>2, CallProceeds
<1>3. ASSUME NEW r \in appendRpcs,
             DeposedByReply(r) \/ CountSuccess(r) \/ BackUp(r) \/ DropAppend(r)
      PROVE  AppendCallsMove
  <2>1. appendRpcs' = appendRpcs \ {r} /\ (CanLock \/ Preempted(r))
    BY <1>3 DEF DeposedByReply, CurrentReply, CountSuccess, BackUp, DropAppend, Preempted
  <2>2. \A q \in appendRpcs' : ~Preempted(q)
    BY <1>1, <2>1 DEF OneCallAtATime
  <2> QED  BY <2>1, <2>2, CallsWait
<1>4. ASSUME NEW s \in Server,
             \/ FollowerTimeout(s) \/ CandidateTimeout(s) \/ StartElection(s) \/ BecomeLeader(s)
             \/ \E p \in Peers(s) : AskForVote(s, p)
             \/ \E c \in Command : Start(s, c)
      PROVE  AppendCallsMove
  <2>1. appendRpcs' = appendRpcs /\ (CanLock \/ MidElection(s))
    BY <1>4 DEF FollowerTimeout, CandidateTimeout, StartElection, BecomeLeader, AskForVote,
                Start, MidElection
  <2> QED  BY <1>1, <2>1, CallsWait DEF OneCallAtATime
<1>5. ASSUME NEW s \in Server, NEW p \in Peers(s), SendAppendEntries(s, p)
      PROVE  AppendCallsMove
  <2>1. appendRpcs' = appendRpcs \cup {NewCall(s, p)} /\ CanLock
    BY <1>5 DEF SendAppendEntries, NewCall
  <2> QED  BY <1>1, <1>5, <2>1 DEF AppendCallsMove, SameCall
<1>6. ASSUME NEW r \in voteRpcs, VoteCall(r) PROVE AppendCallsMove
  <2>1. appendRpcs' = appendRpcs /\ CanLock
    BY <1>6 DEF VoteCall, RefuseStaleVote, HandleRequestVote, CountVote, RefusedByNewerTerm,
                DropVote
  <2> QED  BY <1>1, <2>1, CallsWait
<1>7. ASSUME NEW s \in Server, Restart(s) PROVE AppendCallsMove
  <2>1. /\ appendRpcs' = Orphaned(appendRpcs, s) /\ termLog' = termLog
        /\ \A p \in Server \ {s} : /\ log'[p] = log[p] /\ currentTerm'[p] = currentTerm[p]
                                   /\ state'[p] = state[p]
    BY <1>0, <1>7 DEF Restart, Reboot, BecomeFollower, takenVars, TypeOK
  <2>2. ASSUME NEW x \in appendRpcs'
        PROVE  \E r \in appendRpcs :
                 /\ SameCall(x, r) /\ x.stage = r.stage /\ x.success = r.success
                 /\ x.conflictIndex = r.conflictIndex
                 /\ Preempted(r) => Undisturbed(r)
    <3>1. PICK r \in appendRpcs :
            /\ x = r \/ x = [r EXCEPT !.live = FALSE]
            /\ r.from = s => r.stage \notin {"replied", "checked"}
            /\ r.to = s => r.stage \notin {"match", "store", "commit"}
      BY <2>1 DEF Orphaned
    <3>2. r \in AppendRpc /\ r.from \in Server /\ r.to \in Server
      BY <1>0 DEF TypeOK, AppendRpc
    <3>3. /\ SameCall(x, r) /\ x.stage = r.stage /\ x.success = r.success
          /\ x.conflictIndex = r.conflictIndex
      BY <3>1, <3>2 DEF SameCall, AppendRpc
    <3>4. Undisturbed(r)
      BY <2>1, <3>1, <3>2 DEF Undisturbed
    <3> QED  BY <3>3, <3>4
  <2> QED  BY <2>2 DEF AppendCallsMove
<1>8. CASE UNCHANGED vars
  <2>1. UNCHANGED <<appendRpcs, termLog, log, currentTerm, state>>
    BY <1>8 DEF vars, electionVars, logVars, historyVars, takenVars
  <2> QED  BY <2>1, CallsWait DEF Undisturbed
<1> QED
  BY <1>2, <1>3, <1>4, <1>5, <1>6, <1>7, <1>8 DEF Next, RaftThread, AppendCall

\* A call tells of its leader's log as it is, and as it grows.
LEMMA AppendCallsTellLogStep ==
  ASSUME TypeInv, TypeInv', ReplicationInv, AppendCallsMove, RolesMove, TermLogGrows,
         elected \subseteq elected'
  PROVE  AppendCallsTellLog'
<1> DEFINE Tells(x) ==
      /\ x.from # x.to
      /\ LeadsTerm(x.from, x.term)' /\ x.term <= currentTerm'[x.from]
      /\ LastNew(x) <= Len(TermLog(x.term)')
      /\ \A k \in DOMAIN x.entries : x.entries[k] = TermLog(x.term)'[x.prevLogIndex + k]
      /\ x.prevLogIndex > 0 => TermLog(x.term)'[x.prevLogIndex].term = x.prevLogTerm
      /\ x.conflictIndex <= x.prevLogIndex
<1>1. ASSUME NEW x \in appendRpcs', NEW r \in appendRpcs, SameCall(x, r),
             x.conflictIndex = r.conflictIndex \/ x.conflictIndex <= r.prevLogIndex
      PROVE  Tells(x)
  <2> DEFINE t == r.term
             s == r.from
             prev == r.prevLogIndex
             m == TermLog(t)
             q == TermLog(t)'
  <2>1. /\ s # r.to /\ LeadsTerm(s, t) /\ t <= currentTerm[s] /\ LastNew(r) <= Len(m)
        /\ \A k \in DOMAIN r.entries : r.entries[k] = m[prev + k]
        /\ prev > 0 => m[prev].term = r.prevLogTerm
        /\ r.conflictIndex <= prev
    BY DEF ReplicationInv, AppendCallsTellLog
  <2>2. /\ t \in Nat /\ s \in Server /\ prev \in Nat /\ r.entries \in Seq(Entry)
        /\ LastNew(r) = prev + Len(r.entries)
    BY CallType DEF TypeInv
  <2>3. t \in DOMAIN termLog /\ m = termLog[t] /\ m \in Seq(Entry)
    BY <2>1, CallLog DEF TypeInv, ReplicationInv
  <2>4. Agree(m, q, Len(m)) /\ q \in Seq(Entry)
    BY <2>2, <2>3 DEF TermLogGrows, TermLog, LogOf, TypeInv, TypeOK
  <2>5. LeadsTerm(s, t)'
    BY <2>1 DEF LeadsTerm
  <2>6. t <= currentTerm'[s]
    <3>1. currentTerm[s] \in Nat /\ currentTerm'[s] \in Nat /\ currentTerm[s] <= currentTerm'[s]
      BY <2>2 DEF RolesMove, TypeInv, TypeOK
    <3> HIDE DEF t, s
    <3> QED  BY <2>1, <2>2, <3>1
  <2> HIDE DEF m, q, prev
  <2>7. LastNew(r) <= Len(q)
    BY <2>1, <2>2, <2>3, <2>4 DEF Agree
  <2>8. ASSUME NEW k \in DOMAIN r.entries PROVE r.entries[k] = q[prev + k]
    <3>1. prev + k \in 1..Len(m)
      BY <2>1, <2>2, <2>3
    <3> QED  BY <2>1, <2>4, <3>1 DEF Agree
  <2>9. prev > 0 => q[prev].term = r.prevLogTerm
    <3>1. prev > 0 => prev \in 1..Len(m)
      BY <2>1, <2>2, <2>3
    <3> QED  BY <2>1, <2>4, <3>1 DEF Agree
  <2>10. LastNew(x) = LastNew(r) /\ x.conflictIndex <= prev
    BY <1>1, <2>1 DEF SameCall, LastNew, prev
  <2> QED  BY <1>1, <2>1, <2>5, <2>6, <2>7, <2>8, <2>9, <2>10 DEF SameCall, q, prev
<1>2. ASSUME NEW s \in Server, NEW p \in Peers(s), SendAppendEntries(s, p),
             NEW x \in appendRpcs', x = NewCall(s, p)
      PROVE  Tells(x)
  <2> DEFINE t == currentTerm[s]
             l == log[s]
             prev == nextIndex[s][p] - 1
  <2>1. /\ x.from = s /\ x.to = p /\ x.term = t /\ x.prevLogIndex = prev
        /\ x.prevLogTerm = TermAt(l, prev) /\ x.entries = SubSeq(l, prev + 1, Len(l))
        /\ x.conflictIndex = 0
    BY <1>2 DEF NewCall
  <2>2. state[s] = "Leader" /\ UNCHANGED <<currentTerm, termLog, elected>>
    BY <1>2 DEF SendAppendEntries, electionVars, historyVars, ballotVars, takenVars
  <2>3. /\ LeadsTerm(s, t) /\ l = TermLog(t) /\ l \in Seq(Entry) /\ t \in Nat
        /\ prev \in 0..Len(l)
    <3>1. nextIndex[s][p] \in 1 .. Len(l) + 1
      BY <2>2 DEF ReplicationInv, NextIndexInLog
    <3>2. l \in Seq(Entry) /\ t \in Nat
      BY DEF TypeInv, TypeOK
    <3>3. LeadsTerm(s, t) /\ l = TermLog(t)
      BY <2>2 DEF ReplicationInv, LeaderHasTermLog
    <3> HIDE DEF l, t
    <3> QED  BY <3>1, <3>2, <3>3
  <2>4. TermLog(x.term)' = l /\ LeadsTerm(x.from, x.term)' /\ currentTerm'[s] = t
    BY <2>1, <2>2, <2>3 DEF TermLog, LeadsTerm
  <2> HIDE DEF l, prev, t
  <2>5. /\ Len(x.entries) = Len(l) - prev
        /\ \A k \in DOMAIN x.entries : x.entries[k] = l[prev + k]
    BY <2>1, <2>3
  <2>6. LastNew(x) = Len(l)
    BY <2>1, <2>3, <2>5 DEF LastNew
  <2>7. x.prevLogIndex > 0 => l[x.prevLogIndex].term = x.prevLogTerm
    BY <2>1, <2>3 DEF TermAt
  <2>8. s # p
    BY DEF Peers
  <2>9. x.conflictIndex <= x.prevLogIndex
    BY <2>1, <2>3
  <2>10. t <= currentTerm'[s] /\ LastNew(x) <= Len(TermLog(x.term)')
    BY <2>3, <2>4, <2>6
  <2>11. x.from # x.to /\ LeadsTerm(x.from, x.term)' /\ x.term <= currentTerm'[x.from]
    BY <2>1, <2>4, <2>8, <2>10
  <2>12. /\ \A k \in DOMAIN x.entries : x.entries[k] = TermLog(x.term)'[x.prevLogIndex + k]
         /\ x.prevLogIndex > 0 => TermLog(x.term)'[x.prevLogIndex].term = x.prevLogTerm
    BY <2>1, <2>4, <2>5, <2>7
  <2> QED  BY <2>1, <2>9, <2>10, <2>11, <2>12
<1>3. ASSUME NEW x \in appendRpcs' PROVE Tells(x)
  <2> HIDE DEF Tells
  <2>1. CASE \E s \in Server : \E p \in Peers(s) : SendAppendEntries(s, p) /\ x = NewCall(s, p)
    <3>1. PICK s \in Server : \E p \in Peers(s) : SendAppendEntries(s, p) /\ x = NewCall(s, p)
      BY <2>1
    <3>2. PICK p \in Peers(s) : SendAppendEntries(s, p) /\ x = NewCall(s, p)
      BY <3>1
    <3> QED  BY <1>2, <3>2
  <2>2. CASE \E r \in appendRpcs : /\ SameCall(x, r)
                                   /\ \/ x.conflictIndex = r.conflictIndex
                                      \/ x.conflictIndex <= r.prevLogIndex
    BY <1>1, <2>2
  <2> QED  BY <2>1, <2>2 DEF AppendCallsMove
<1> QED  BY <1>3 DEF AppendCallsTellLog

-----------------------------------------------------------------------------
(* One call at a time.                                                     *)

LEMMA NoMoreElections ==
  ASSUME TypeOK, UNCHANGED <<electing, toAsk>> \/ \E s \in Server : BecomeFollower(s)
  PROVE  \A s \in Server : MidElection(s)' => MidElection(s)
BY DEF TypeOK, BecomeFollower, MidElection

\* At most the call n is between two sections, and no election.
LEMMA OnlyCall ==
  ASSUME NEW n, \A x \in appendRpcs' : Preempted(x) => x = n,
         \A s \in Server : ~MidElection(s)'
  PROVE  OneCallAtATime'
BY DEF OneCallAtATime

LEMMA OnlyElection ==
  ASSUME NEW s \in Server, \A x \in appendRpcs' : ~Preempted(x),
         \A p \in Server : MidElection(p)' => p = s
  PROVE  OneCallAtATime'
BY DEF OneCallAtATime

LEMMA OneCallStep ==
  ASSUME ~Preemptible, TypeInv, OneCallAtATime, [Next]_vars
  PROVE  OneCallAtATime'
<1>0. TypeOK
  BY DEF TypeInv
<1>1. CanLock => /\ \A q \in appendRpcs : ~Preempted(q)
                 /\ \A s \in Server : ~MidElection(s)
  BY DEF CanLock
<1>2. ASSUME NEW r \in appendRpcs, AppendCall(r) PROVE OneCallAtATime'
  <2>1. /\ \A q \in appendRpcs : q # r => ~Preempted(q)
        /\ \A s \in Server : ~MidElection(s)
    <3>1. CanLock \/ Preempted(r)
      BY <1>2 DEF AppendCall, RefuseStaleAppend, AcceptAppend, RefuseMismatch, PassMatch,
                  StoreEntries, FollowCommit, DeposedByReply, CheckReply, CountSuccess, BackUp,
                  DropAppend, CurrentReply, Preempted
    <3> QED  BY <1>1, <3>1 DEF OneCallAtATime
  <2>2. UNCHANGED <<electing, toAsk>> \/ \E s \in Server : BecomeFollower(s)
    <3>1. r.from \in Server /\ r.to \in Server
      BY <1>0, CallType
    <3> QED  BY <1>2, <3>1 DEF AppendCall, RefuseStaleAppend, AcceptAppend, RefuseMismatch,
                  PassMatch, StoreEntries, FollowCommit, DeposedByReply, CheckReply,
                  CountSuccess, BackUp, DropAppend, StepDown, electionVars
  <2>3. \E n : appendRpcs' \subseteq (appendRpcs \ {r}) \cup {n}
    <3>1. CASE appendRpcs' = appendRpcs \ {r}
      BY <3>1
    <3>2. CASE \/ RefuseStaleAppend(r) \/ AcceptAppend(r) \/ RefuseMismatch(r) \/ PassMatch(r)
               \/ StoreEntries(r) \/ FollowCommit(r) \/ CheckReply(r)
      BY <1>0, <3>2, CallSteps
    <3> QED  BY <1>2, <3>1, <3>2 DEF AppendCall, DeposedByReply, CountSuccess, BackUp, DropAppend
  <2>4. PICK n : appendRpcs' \subseteq (appendRpcs \ {r}) \cup {n}
    BY <2>3
  <2> QED  BY <1>0, <2>1, <2>2, <2>4, NoMoreElections, OnlyCall
<1>3. ASSUME NEW s \in Server, FollowerTimeout(s) \/ CandidateTimeout(s) PROVE OneCallAtATime'
  <2>1. /\ CanLock /\ UNCHANGED <<toAsk, appendRpcs>>
        /\ electing' = [electing EXCEPT ![s] = TRUE]
    BY <1>3 DEF FollowerTimeout, CandidateTimeout
  <2>2. \A p \in Server : MidElection(p)' => p = s
    BY <1>0, <1>1, <2>1 DEF MidElection, TypeOK
  <2> QED  BY <1>1, <2>1, <2>2, OnlyElection
<1>4. ASSUME NEW s \in Server, StartElection(s) \/ \E p \in Peers(s) : AskForVote(s, p)
      PROVE  OneCallAtATime'
  <2>1. MidElection(s) /\ appendRpcs' = appendRpcs
    BY <1>4 DEF StartElection, AskForVote, MidElection
  <2>2. \A p \in Server : p # s => ~MidElection(p)
    BY <2>1 DEF OneCallAtATime
  <2>3. \A p \in Server : p # s => electing'[p] = electing[p] /\ toAsk'[p] = toAsk[p]
    BY <1>0, <1>4 DEF StartElection, AskForVote, TypeOK
  <2>4. \A p \in Server : MidElection(p)' => p = s
    BY <2>2, <2>3 DEF MidElection
  <2>5. \A x \in appendRpcs' : ~Preempted(x)
    BY <2>1 DEF OneCallAtATime
  <2> QED  BY <2>4, <2>5, OnlyElection
<1>5. ASSUME NEW n, CanLock, \A x \in appendRpcs' : x \in appendRpcs \/ x = n,
             UNCHANGED <<electing, toAsk>> \/ \E p \in Server : BecomeFollower(p)
      PROVE  OneCallAtATime'
  BY <1>0, <1>1, <1>5, NoMoreElections, OnlyCall
<1>6. ASSUME NEW s \in Server, BecomeLeader(s) \/ \E c \in Command : Start(s, c)
      PROVE  OneCallAtATime'
  BY <1>5, <1>6 DEF BecomeLeader, Start, electionVars
<1>7. ASSUME NEW s \in Server, NEW p \in Peers(s), SendAppendEntries(s, p)
      PROVE  OneCallAtATime'
  <2>1. /\ appendRpcs' = appendRpcs \cup {NewCall(s, p)} /\ CanLock
        /\ UNCHANGED <<electing, toAsk>>
    BY <1>7 DEF SendAppendEntries, NewCall, electionVars
  <2> QED  BY <1>5, <2>1
<1>8. ASSUME NEW r \in voteRpcs, VoteCall(r) PROVE OneCallAtATime'
  <2>1. r.to \in Server /\ r.from \in Server
    BY <1>0 DEF TypeOK, VoteRpc
  <2>2. /\ appendRpcs' = appendRpcs /\ CanLock
        /\ UNCHANGED <<electing, toAsk>> \/ \E p \in Server : BecomeFollower(p)
    BY <1>8, <2>1 DEF VoteCall, RefuseStaleVote, HandleRequestVote, CountVote,
                      RefusedByNewerTerm, DropVote, StepDown, electionVars
  <2> QED  BY <1>5, <2>2
<1>9. ASSUME NEW s \in Server, Restart(s) PROVE OneCallAtATime'
  <2>1. /\ appendRpcs' = Orphaned(appendRpcs, s) /\ BecomeFollower(s)
    BY <1>9 DEF Restart, Reboot
  <2>2. \A p \in Server : MidElection(p)' => MidElection(p)
    BY <1>0, <2>1, NoMoreElections
  <2>3. ASSUME NEW x \in appendRpcs'
        PROVE  \E r \in appendRpcs : /\ x = IF r.from = s THEN [r EXCEPT !.live = FALSE] ELSE r
                                     /\ Preempted(x) => Preempted(r)
    <3>1. PICK r \in appendRpcs : x = IF r.from = s THEN [r EXCEPT !.live = FALSE] ELSE r
      BY <2>1 DEF Orphaned
    <3>2. r \in AppendRpc
      BY <1>0 DEF TypeOK
    <3>3. x.stage = r.stage
      BY <3>1, <3>2 DEF AppendRpc
    <3> QED  BY <3>1, <3>3 DEF Preempted
  <2> QED  BY <2>2, <2>3 DEF OneCallAtATime
<1>10. CASE UNCHANGED vars
  BY <1>10 DEF vars, electionVars, OneCallAtATime, MidElection
<1> QED
  BY <1>2, <1>3, <1>4, <1>6, <1>7, <1>8, <1>9, <1>10 DEF Next, RaftThread

\* What a call between two sections relies on stays so.
LEMMA SectionsHoldStep ==
  ASSUME TypeInv, TypeInv', ElectionInv, ReplicationInv, AppendCallsMove
  PROVE  SectionsHold'
<1> DEFINE Holding(x) ==
      /\ x.stage \in {"match", "store", "commit"} =>
           currentTerm'[x.to] = x.term /\ state'[x.to] # "Candidate"
      /\ x.stage = "store" => Matches(log'[x.to], x.prevLogIndex, x.prevLogTerm)
      /\ x.stage = "commit" => Agree(log'[x.to], TermLog(x.term)', LastNew(x))
      /\ x.stage = "checked" => state'[x.from] = "Leader" /\ currentTerm'[x.from] = x.term
<1>1. ASSUME NEW x \in appendRpcs', NEW r \in appendRpcs, SameCall(x, r), x.stage = r.stage,
             Preempted(r) => Undisturbed(r)
      PROVE  Holding(x)
  <2>1. CASE ~Preempted(r)
    BY <1>1, <2>1 DEF Preempted
  <2>2. CASE Undisturbed(r)
    <3>1. /\ r.stage \in {"match", "store", "commit"} =>
               currentTerm[r.to] = r.term /\ state[r.to] # "Candidate"
          /\ r.stage = "store" => Matches(log[r.to], r.prevLogIndex, r.prevLogTerm)
          /\ r.stage = "commit" => Agree(log[r.to], TermLog(r.term), LastNew(r))
          /\ r.stage = "checked" => state[r.from] = "Leader" /\ currentTerm[r.from] = r.term
      BY DEF ReplicationInv, SectionsHold
    <3>2. TermLog(r.term)' = TermLog(r.term) /\ LastNew(x) = LastNew(r)
      BY <1>1, <2>2 DEF Undisturbed, TermLog, SameCall, LastNew
    <3> QED  BY <1>1, <2>2, <3>1, <3>2 DEF Undisturbed, SameCall
  <2> QED  BY <1>1, <2>1, <2>2
<1>2. ASSUME NEW x \in appendRpcs', NEW r \in appendRpcs, SameCall(x, r), Proceeds(r, x)
      PROVE  Holding(x)
  <2>0. r.to \in Server /\ r.term \in Nat
    BY CallType DEF TypeInv
  <2>1. CASE AcceptAppend(r) /\ x.stage = "match"
    <3>1. currentTerm'[r.to] = r.term /\ state'[r.to] # "Candidate"
      <4> DEFINE t == r.term
                 s == r.to
      <4>1. /\ ~(t < currentTerm[s]) /\ s \in Server /\ t \in Nat /\ currentTerm[s] \in Nat
            /\ \/ t > currentTerm[s] /\ StepDown(s, t)
               \/ t <= currentTerm[s] /\ BecomeFollower(s) /\ currentTerm' = currentTerm
               \/ /\ t <= currentTerm[s] /\ state[s] # "Candidate"
                  /\ UNCHANGED <<currentTerm, state>>
        BY <2>0, <2>1 DEF AcceptAppend, FromOldLeader, TypeInv, TypeOK
      <4> HIDE DEF t, s
      <4>2. t > currentTerm[s] \/ t = currentTerm[s]
        BY <4>1
      <4>3. currentTerm'[s] = t /\ state'[s] # "Candidate"
        BY <4>1, <4>2 DEF StepDown, BecomeFollower, TypeInv, TypeOK
      <4> QED  BY <4>3 DEF t, s
    <3> QED  BY <1>2, <2>1, <3>1 DEF SameCall
  <2>2. CASE PassMatch(r) /\ x.stage = "store"
    <3>1. /\ r.stage = "match" /\ Matches(log[r.to], r.prevLogIndex, r.prevLogTerm)
          /\ UNCHANGED <<currentTerm, state, log>>
      BY <2>2 DEF PassMatch, electionVars, logVars
    <3>2. currentTerm[r.to] = r.term /\ state[r.to] # "Candidate"
      BY <3>1 DEF ReplicationInv, SectionsHold
    <3> QED  BY <1>2, <2>2, <3>1, <3>2 DEF SameCall
  <2>3. CASE StoreEntries(r) /\ x.stage = "commit"
    <3>1. /\ currentTerm[r.to] = r.term /\ state[r.to] = "Follower"
          /\ Agree(log'[r.to], TermLog(r.term), LastNew(r))
          /\ UNCHANGED <<electionVars, elected, termLog>>
      BY <2>3, StoreDoes
    <3>2. TermLog(x.term)' = TermLog(r.term) /\ LastNew(x) = LastNew(r)
      BY <1>2, <3>1 DEF TermLog, SameCall, LastNew
    <3> QED  BY <1>2, <2>3, <3>1, <3>2 DEF SameCall, electionVars
  <2>4. CASE x.stage = "replied"
    BY <2>4
  <2>5. CASE CheckReply(r) /\ x.stage = "checked"
    BY <1>2, <2>5 DEF CheckReply, CurrentReply, SameCall, electionVars
  <2> QED  BY <1>2, <2>1, <2>2, <2>3, <2>4, <2>5 DEF Proceeds
<1>3. ASSUME NEW s \in Server, NEW p \in Peers(s) PROVE Holding(NewCall(s, p))
  BY DEF NewCall
<1>4. ASSUME NEW x \in appendRpcs' PROVE Holding(x)
  <2> HIDE DEF Holding
  <2> QED  BY <1>1, <1>2, <1>3 DEF AppendCallsMove
<1> QED  BY <1>4 DEF SectionsHold

-----------------------------------------------------------------------------
(* The indexes a leader keeps.                                             *)

LEMMA IndexesStep ==
  ASSUME TypeInv, [Next]_vars
  PROVE  IndexesMove
<1>0. TypeOK
  BY DEF TypeInv
<1>1. CASE UNCHANGED leaderVars /\ \A s \in Server : state'[s] = "Leader" => state[s] = "Leader"
  BY <1>1 DEF IndexesMove, leaderVars
<1>2. ASSUME NEW s \in Server, BecomeLeader(s) PROVE IndexesMove
  <2>1. /\ state' = [state EXCEPT ![s] = "Leader"]
        /\ nextIndex' = [nextIndex EXCEPT ![s] = [p \in Server |-> Len(log[s]) + 1]]
        /\ matchIndex' = [matchIndex EXCEPT ![s] = [p \in Server |-> 0]]
    BY <1>2 DEF BecomeLeader
  <2>2. ASSUME NEW p \in Server, p # s
        PROVE  /\ state'[p] = state[p]
               /\ \A q \in Peers(p) : /\ matchIndex'[p][q] = matchIndex[p][q]
                                      /\ nextIndex'[p][q] = nextIndex[p][q]
    BY <1>0, <2>1, <2>2 DEF TypeOK
  <2> QED  BY <1>2, <2>2 DEF IndexesMove
<1>3. ASSUME NEW r \in appendRpcs, CountSuccess(r) PROVE IndexesMove
  <2> DEFINE s == r.from
             p == r.to
             m == Max({matchIndex[s][p], r.prevLogIndex + Len(r.entries)})
  <2>0. s \in Server /\ p \in Server
    BY <1>0, CallType
  <2>1. /\ matchIndex' = [matchIndex EXCEPT ![s][p] = m]
        /\ nextIndex' = [nextIndex EXCEPT ![s][p] = matchIndex'[s][p] + 1]
        /\ state' = state
    BY <1>3 DEF CountSuccess, electionVars
  <2> HIDE DEF m
  <2>2. matchIndex'[s][p] = m /\ nextIndex'[s][p] = matchIndex'[s][p] + 1
    BY <1>0, <2>0, <2>1 DEF TypeOK
  <2>3. ASSUME NEW a \in Server, NEW b \in Server, <<a, b>> # <<s, p>>
        PROVE  matchIndex'[a][b] = matchIndex[a][b] /\ nextIndex'[a][b] = nextIndex[a][b]
    BY <1>0, <2>0, <2>1, <2>3 DEF TypeOK
  <2>4. m = Max({matchIndex[s][p], LastNew(r)})
    BY DEF m, LastNew
  <2> QED  BY <1>3, <2>1, <2>2, <2>3, <2>4 DEF IndexesMove, Peers
<1>4. ASSUME NEW r \in appendRpcs, BackUp(r) PROVE IndexesMove
  <2> DEFINE s == r.from
             p == r.to
             m == BackedUp(nextIndex[s][p], r.conflictIndex)
  <2>0. s \in Server /\ p \in Server
    BY <1>0, CallType
  <2>1. /\ nextIndex' = [nextIndex EXCEPT ![s][p] = m] /\ matchIndex' = matchIndex
        /\ state' = state
    BY <1>4 DEF BackUp, electionVars
  <2> HIDE DEF m
  <2>2. nextIndex'[s][p] = m
    BY <1>0, <2>0, <2>1 DEF TypeOK
  <2>3. ASSUME NEW a \in Server, NEW b \in Server, <<a, b>> # <<s, p>>
        PROVE  nextIndex'[a][b] = nextIndex[a][b]
    BY <1>0, <2>0, <2>1, <2>3 DEF TypeOK
  <2> QED  BY <1>4, <2>1, <2>2, <2>3 DEF IndexesMove, Peers, m
<1>5. ASSUME NEW s \in Server,
             \/ FollowerTimeout(s) \/ CandidateTimeout(s) \/ StartElection(s)
             \/ \E p \in Peers(s) : AskForVote(s, p) \/ SendAppendEntries(s, p)
             \/ \E c \in Command : Start(s, c)
      PROVE  IndexesMove
  <2>1. /\ UNCHANGED leaderVars
        /\ state' = state \/ state' = [state EXCEPT ![s] = "Candidate"]
    BY <1>5 DEF FollowerTimeout, CandidateTimeout, StartElection, AskForVote,
                SendAppendEntries, Start, electionVars
  <2> QED  BY <1>0, <1>1, <2>1 DEF TypeOK
<1>6. ASSUME NEW r \in voteRpcs, VoteCall(r) PROVE IndexesMove
  <2>1. r.to \in Server /\ r.from \in Server
    BY <1>0 DEF TypeOK, VoteRpc
  <2>2. /\ UNCHANGED leaderVars
        /\ state' = state \/ \E p \in Server : BecomeFollower(p)
    BY <1>6, <2>1 DEF VoteCall, RefuseStaleVote, HandleRequestVote, CountVote,
                      RefusedByNewerTerm, DropVote, StepDown, electionVars
  <2> QED  BY <1>0, <1>1, <2>2 DEF TypeOK, BecomeFollower
<1>7. ASSUME NEW r \in appendRpcs, AppendCall(r), ~CountSuccess(r), ~BackUp(r)
      PROVE  IndexesMove
  <2>1. r.to \in Server /\ r.from \in Server
    BY <1>0, CallType
  <2>2. /\ UNCHANGED leaderVars
        /\ state' = state \/ \E p \in Server : BecomeFollower(p)
    BY <1>7, <2>1 DEF AppendCall, RefuseStaleAppend, AcceptAppend, RefuseMismatch, PassMatch,
                      StoreEntries, FollowCommit, DeposedByReply, CheckReply, DropAppend,
                      StepDown, electionVars
  <2> QED  BY <1>0, <1>1, <2>2 DEF TypeOK, BecomeFollower
<1>8. ASSUME NEW s \in Server, Restart(s) PROVE IndexesMove
  <2>1. /\ state' = [state EXCEPT ![s] = "Follower"]
        /\ nextIndex' = [nextIndex EXCEPT ![s] = [p \in Server |-> 0]]
        /\ matchIndex' = [matchIndex EXCEPT ![s] = [p \in Server |-> 0]]
    BY <1>8 DEF Restart, Reboot, BecomeFollower
  <2>2. ASSUME NEW p \in Server, p # s
        PROVE  /\ state'[p] = state[p]
               /\ \A q \in Peers(p) : /\ matchIndex'[p][q] = matchIndex[p][q]
                                      /\ nextIndex'[p][q] = nextIndex[p][q]
    BY <1>0, <2>1, <2>2 DEF TypeOK
  <2>3. state'[s] # "Leader"
    BY <1>0, <2>1 DEF TypeOK
  <2> QED  BY <2>2, <2>3 DEF IndexesMove
<1>9. CASE UNCHANGED vars
  BY <1>1, <1>9 DEF vars, electionVars
<1> QED
  BY <1>2, <1>3, <1>4, <1>5, <1>6, <1>7, <1>8, <1>9 DEF Next, RaftThread

\* A leader's log does not get shorter.
LEMMA LeaderLogGrows ==
  ASSUME TypeInv, TypeInv', ReplicationInv, LeaderHasTermLog', TermLogGrows,
         NEW s \in Server, state[s] = "Leader", state'[s] = "Leader", currentTerm'[s] = currentTerm[s]
  PROVE  Agree(log[s], log'[s], Len(log[s]))
<1> DEFINE t == currentTerm[s]
<1>1. LeadsTerm(s, t) /\ log[s] = LogOf(termLog, t)
  BY DEF ReplicationInv, LeaderHasTermLog, TermLog
<1>2. t \in DOMAIN termLog
  BY <1>1 DEF ReplicationInv, ReignsOnce, LeadsTerm
<1>3. log'[s] = LogOf(termLog', t)
  BY DEF LeaderHasTermLog, TermLog
<1> HIDE DEF t
<1> QED  BY <1>1, <1>2, <1>3 DEF TermLogGrows, LogOf

LEMMA IndexesInLogStep ==
  ASSUME TypeInv, TypeInv', ReplicationInv, LeaderHasTermLog', TermLogGrows, RolesMove, IndexesMove
  PROVE  MatchIndexInLog' /\ NextIndexInLog'
<1> SUFFICES ASSUME NEW s \in Server, NEW p \in Peers(s), state'[s] = "Leader"
             PROVE  /\ matchIndex'[s][p] <= Len(log'[s])
                    /\ nextIndex'[s][p] >= 1 /\ nextIndex'[s][p] <= Len(log'[s]) + 1
  <2>1. \A s, p \in Server : nextIndex'[s][p] \in Nat
    BY DEF TypeInv, TypeOK
  <2> QED  BY <2>1 DEF MatchIndexInLog, NextIndexInLog, Peers
<1>0. /\ p \in Server /\ log[s] \in Seq(Entry) /\ log'[s] \in Seq(Entry)
      /\ matchIndex[s][p] \in Nat /\ nextIndex[s][p] \in Nat
      /\ matchIndex'[s][p] \in Nat /\ nextIndex'[s][p] \in Nat
  BY DEF TypeInv, TypeOK, Peers
<1>1. CASE BecomeLeader(s)
  <2>1. /\ nextIndex' = [nextIndex EXCEPT ![s] = [q \in Server |-> Len(log[s]) + 1]]
        /\ matchIndex' = [matchIndex EXCEPT ![s] = [q \in Server |-> 0]]
        /\ log' = log
    BY <1>1 DEF BecomeLeader, logVars
  <2>2. nextIndex'[s][p] = Len(log[s]) + 1 /\ matchIndex'[s][p] = 0 /\ log'[s] = log[s]
    BY <1>0, <2>1 DEF TypeInv, TypeOK
  <2> QED  BY <1>0, <2>2
<1>2. CASE state[s] = "Leader" /\ ~BecomeLeader(s)
  <2>1. /\ matchIndex[s][p] <= Len(log[s]) /\ nextIndex[s][p] \in 1 .. Len(log[s]) + 1
    BY <1>2 DEF ReplicationInv, MatchIndexInLog, NextIndexInLog
  <2>2. currentTerm'[s] = currentTerm[s]
    BY DEF RolesMove
  <2>3. Len(log[s]) <= Len(log'[s])
    BY <1>2, <2>2, LeaderLogGrows DEF Agree
  <2>4. CASE matchIndex'[s][p] = matchIndex[s][p] /\ nextIndex'[s][p] = nextIndex[s][p]
    BY <1>0, <2>1, <2>3, <2>4
  <2>5. ASSUME NEW r \in appendRpcs, r.from = s, r.to = p, r.stage = "checked"
        PROVE  LastNew(r) <= Len(log[s]) /\ r.conflictIndex <= Len(log[s]) /\ LastNew(r) \in Nat
    <3>1. currentTerm[s] = r.term
      BY <2>5 DEF ReplicationInv, SectionsHold
    <3>2. log[s] = TermLog(r.term)
      BY <1>2, <3>1 DEF ReplicationInv, LeaderHasTermLog
    <3>3. LastNew(r) <= Len(log[s]) /\ r.conflictIndex <= r.prevLogIndex
      BY <3>2 DEF ReplicationInv, AppendCallsTellLog
    <3>4. /\ r.conflictIndex \in Nat /\ r.prevLogIndex \in Nat /\ r.entries \in Seq(Entry)
          /\ LastNew(r) = r.prevLogIndex + Len(r.entries)
      BY CallType DEF TypeInv
    <3> DEFINE k == r.conflictIndex
               prev == r.prevLogIndex
               n == Len(r.entries)
    <3>5. /\ k \in Nat /\ prev \in Nat /\ n \in Nat /\ k <= prev
          /\ LastNew(r) = prev + n
      BY <3>3, <3>4
    <3> HIDE DEF k, prev, n
    <3>6. k <= Len(log[s]) /\ LastNew(r) \in Nat
      BY <1>0, <3>3, <3>5
    <3> QED  BY <3>3, <3>6 DEF k
  <2>6. ASSUME NEW r \in appendRpcs, r.from = s, r.to = p, CountSuccess(r),
               matchIndex'[s][p] = Max({matchIndex[s][p], LastNew(r)}),
               nextIndex'[s][p] = matchIndex'[s][p] + 1
        PROVE  matchIndex'[s][p] <= Len(log'[s]) /\ nextIndex'[s][p] <= Len(log'[s]) + 1
               /\ nextIndex'[s][p] >= 1
    <3>1. LastNew(r) <= Len(log[s]) /\ LastNew(r) \in Nat
      BY <2>5, <2>6 DEF CountSuccess
    <3>2. matchIndex'[s][p] \in {matchIndex[s][p], LastNew(r)}
      BY <1>0, <2>6, <3>1, MaxOfTwo
    <3> QED  BY <1>0, <2>1, <2>3, <2>6, <3>1, <3>2
  <2>7. ASSUME NEW r \in appendRpcs, r.from = s, r.to = p, BackUp(r),
               matchIndex'[s][p] = matchIndex[s][p],
               nextIndex'[s][p] = BackedUp(nextIndex[s][p], r.conflictIndex)
        PROVE  matchIndex'[s][p] <= Len(log'[s]) /\ nextIndex'[s][p] <= Len(log'[s]) + 1
               /\ nextIndex'[s][p] >= 1
    <3> DEFINE k == r.conflictIndex
    <3>1. k <= Len(log[s]) /\ k \in Nat
      BY <2>5, <2>7, CallType DEF BackUp, TypeInv
    <3>2. nextIndex'[s][p] = BackedUp(nextIndex[s][p], k)
      BY <2>7
    <3> HIDE DEF k
    <3> QED  BY <1>0, <2>1, <2>3, <2>7, <3>1, <3>2 DEF BackedUp
  <2>8. \/ matchIndex'[s][p] = matchIndex[s][p] /\ nextIndex'[s][p] = nextIndex[s][p]
        \/ \E r \in appendRpcs :
             /\ r.from = s /\ r.to = p /\ CountSuccess(r)
             /\ matchIndex'[s][p] = Max({matchIndex[s][p], LastNew(r)})
             /\ nextIndex'[s][p] = matchIndex'[s][p] + 1
        \/ \E r \in appendRpcs :
             /\ r.from = s /\ r.to = p /\ BackUp(r) /\ matchIndex'[s][p] = matchIndex[s][p]
             /\ nextIndex'[s][p] = BackedUp(nextIndex[s][p], r.conflictIndex)
    BY <1>2 DEF IndexesMove
  <2> QED  BY <2>4, <2>6, <2>7, <2>8
<1> QED  BY <1>1, <1>2 DEF RolesMove

-----------------------------------------------------------------------------
(* The invariant, and what follows from it.                                *)

LEMMA InitReplicationInv == Init => ReplicationInv
<1> SUFFICES ASSUME Init PROVE ReplicationInv
  OBVIOUS
<1> USE DEF Init
<1>1. LogPersisted /\ ReignsOnce /\ LeaderHasTermLog /\ VoteCallsTellLog /\ CastIsBegun
  BY DEF LogPersisted, ReignsOnce, LeaderHasTermLog, VoteCallsTellLog, CastIsBegun
<1>2. SoundLogs
  BY DEF SoundLogs, Sound
<1>3. AppendCallsTellLog /\ OneCallAtATime /\ SectionsHold /\ MatchIndexInLog /\ NextIndexInLog
  BY DEF AppendCallsTellLog, OneCallAtATime, SectionsHold, MatchIndexInLog, NextIndexInLog,
         MidElection
<1> QED  BY <1>1, <1>2, <1>3 DEF ReplicationInv

\* What a step does, and what it keeps.
LEMMA StepReplicationInv ==
  ASSUME TrustedElections, ~Preemptible, TypeInv, ElectionInv, ReplicationInv, [Next]_vars
  PROVE  /\ TypeInv' /\ ElectionInv' /\ ReplicationInv'
         /\ RolesMove /\ LogsMove /\ TermLogGrows /\ CastMoves /\ AppendCallsMove /\ IndexesMove
         /\ \A s \in Server : LogFollows(s)
<1>1. TypeInv' /\ ElectionInv'
  BY StepTypeInv, StepElectionInv
<1>2. RolesMove /\ VoteCallsMove /\ IndexesMove
  BY RolesStep, VoteCallsMoveStep, IndexesStep
<1>3. /\ LogPersisted /\ ReignsOnce /\ LeaderHasTermLog /\ VoteCallsTellLog /\ CastIsBegun
      /\ OneCallAtATime /\ OneCallPerPeer
  BY DEF ReplicationInv, ElectionInv
<1>4. LogsMove
  BY <1>3, LogsStep
<1>5. TermLogGrows
  BY <1>1, <1>3, <1>4, TermLogGrowsStep
<1>6. \A s \in Server : LogFollows(s)
  BY <1>1, <1>4, LogFollowsStep
<1>7. CastMoves
  BY <1>1, <1>2, <1>3, CastStep
<1>8. AppendCallsMove
  BY <1>3, AppendCallsStep
<1>9. elected \subseteq elected'
  BY <1>4 DEF LogsMove, BecomeLeader, Start, ballotVars
<1>10. LogPersisted' /\ OneCallAtATime'
  BY <1>3, LogPersistedStep, OneCallStep
<1>11. SoundLogs'
  BY <1>1, <1>2, <1>4, <1>5, SoundLogsStep
<1>12. ReignsOnce'
  BY <1>1, <1>2, <1>3, <1>4, ReignsOnceStep
<1>13. LeaderHasTermLog'
  BY <1>1, <1>2, <1>4, LeaderHasTermLogStep
<1>14. VoteCallsTellLog' /\ CastIsBegun'
  BY <1>1, <1>2, <1>3, <1>6, <1>7, VoteCallsTellLogStep, CastIsBegunStep
<1>15. AppendCallsTellLog'
  BY <1>1, <1>2, <1>5, <1>8, <1>9, AppendCallsTellLogStep
<1>16. SectionsHold'
  BY <1>1, <1>8, SectionsHoldStep
<1>17. MatchIndexInLog' /\ NextIndexInLog'
  BY <1>1, <1>2, <1>5, <1>13, IndexesInLogStep
<1>18. ReplicationInv'
  BY <1>10, <1>11, <1>12, <1>13, <1>14, <1>15, <1>16, <1>17 DEF ReplicationInv
<1> QED  BY <1>1, <1>2, <1>4, <1>5, <1>6, <1>7, <1>8, <1>18

\* The entries of one index and term are the same in all logs, and all before them,
\* whatever leaders followed one another and whatever section 3 of appendEntries cut.
THEOREM LogsMatch == ASSUME TrustedElections, ~Preemptible PROVE Spec => []LogMatching
<1>1. Init => TypeInv /\ ElectionInv /\ ReplicationInv
  BY InitTypeInv, InitElectionInv, InitReplicationInv
<1>2. TypeInv /\ ElectionInv /\ ReplicationInv /\ [Next]_vars
        => (TypeInv /\ ElectionInv /\ ReplicationInv)'
  BY StepReplicationInv
<1>3. TypeInv /\ ElectionInv /\ ReplicationInv => LogMatching
  <2> SUFFICES ASSUME TypeInv, ReplicationInv, NEW s \in Server, NEW t \in Server,
                      NEW i \in DOMAIN log[s] \cap DOMAIN log[t],
                      log[s][i].term = log[t][i].term
               PROVE  SubSeq(log[s], 1, i) = SubSeq(log[t], 1, i)
    BY DEF LogMatching
  <2>0. log[s] \in Seq(Entry) /\ log[t] \in Seq(Entry) /\ TypeOK
    BY DEF TypeInv, TypeOK
  <2>1. i \in DOMAIN log[s] /\ i \in DOMAIN log[t] /\ i \in Nat
    BY <2>0
  <2>2. Sound(log[s], currentTerm[s], termLog) /\ Sound(log[t], currentTerm[t], termLog)
    BY DEF ReplicationInv, SoundLogs
  <2>3. Agree(log[s], log[t], i)
    BY <2>0, <2>1, <2>2, SameEntry
  <2> QED  BY <2>0, <2>1, <2>3, AgreeIsSubSeq
<1> QED  BY <1>1, <1>2, <1>3, PTL DEF Spec

\* The next index that a leader keeps of a peer points into its log, or right behind
\* it: broadcastAppendEntries reads no entry that is not there.
THEOREM NextIndexesInLog == ASSUME TrustedElections, ~Preemptible PROVE Spec => []NextIndexInLog
<1>1. Init => TypeInv /\ ElectionInv /\ ReplicationInv
  BY InitTypeInv, InitElectionInv, InitReplicationInv
<1>2. TypeInv /\ ElectionInv /\ ReplicationInv /\ [Next]_vars
        => (TypeInv /\ ElectionInv /\ ReplicationInv)'
  BY StepReplicationInv
<1>3. ReplicationInv => NextIndexInLog
  BY DEF ReplicationInv
<1> QED  BY <1>1, <1>2, <1>3, PTL DEF Spec

\* While a node leads a term, its log only grows: StoreEntries never comes for a call
\* of another leader of that term.
THEOREM LeadersOnlyAppend == ASSUME TrustedElections, ~Preemptible PROVE Spec => LeaderAppends
<1>1. Init => TypeInv /\ ElectionInv /\ ReplicationInv
  BY InitTypeInv, InitElectionInv, InitReplicationInv
<1>2. TypeInv /\ ElectionInv /\ ReplicationInv /\ [Next]_vars
        => (TypeInv /\ ElectionInv /\ ReplicationInv)'
  BY StepReplicationInv
<1> DEFINE Appends == \A s \in Server :
      state[s] = "Leader" /\ state'[s] = "Leader" /\ currentTerm'[s] = currentTerm[s]
        => IsPrefix(log[s], log'[s])
<1>3. TypeInv /\ ElectionInv /\ ReplicationInv /\ [Next]_vars => Appends
  <2> SUFFICES ASSUME TypeInv, ElectionInv, ReplicationInv, [Next]_vars, NEW s \in Server,
                      state[s] = "Leader", state'[s] = "Leader",
                      currentTerm'[s] = currentTerm[s]
               PROVE  IsPrefix(log[s], log'[s])
    OBVIOUS
  <2>1. TypeInv' /\ ReplicationInv' /\ TermLogGrows
    BY StepReplicationInv
  <2>2. Agree(log[s], log'[s], Len(log[s]))
    BY <2>1, LeaderLogGrows DEF ReplicationInv
  <2>3. log[s] \in Seq(Entry) /\ log'[s] \in Seq(Entry)
    BY <2>1 DEF TypeInv, TypeOK
  <2> QED  BY <2>2, <2>3, PrefixIsAgree
<1> QED  BY <1>1, <1>2, <1>3, PTL DEF Spec, LeaderAppends
=============================================================================
