------------------------- MODULE RaftSnapshotProofs -------------------------
(***************************************************************************)
(* Module RaftSnapshot.  First, in every behaviour: the types, and no node *)
(* is without the entries its snapshot stands for.  Then, in the reign of  *)
(* one leader: ReignInv, with which a snapshot is what was applied, state  *)
(* machines agree, and, with a careful caller, next indexes stay in range. *)
(***************************************************************************)
EXTENDS RaftReplicationProofs, RaftSnapshotInductive, MCRaftSnapshot

-----------------------------------------------------------------------------
(* Calls of installSnapshot.                                               *)

LEMMA InstallType ==
  ASSUME SnapTypeOK, NEW r \in installRpcs
  PROVE  /\ r.from \in Server /\ r.to \in Server /\ r.term \in Nat
         /\ r.data \in Seq(Entry) /\ Len(r.data) \in Nat /\ r.replyTerm \in Nat
         /\ r.live \in BOOLEAN /\ r.stage \in {"sent", "replied"}
<1>1. r \in InstallRpc
  BY DEF SnapTypeOK
<1>2. /\ r.from \in Server /\ r.to \in Server /\ r.term \in Nat
      /\ r.data \in Seq(Entry) /\ r.replyTerm \in Nat
      /\ r.live \in BOOLEAN /\ r.stage \in {"sent", "replied"}
  BY <1>1 DEF InstallRpc
<1> QED  BY <1>2


LEMMA AnswerInstallType ==
  ASSUME SnapTypeOK, NEW r \in installRpcs, NEW t \in Nat, AnswerInstall(r, t)
  PROVE  installRpcs' \subseteq InstallRpc
<1>1. r \in InstallRpc /\ installRpcs \subseteq InstallRpc
  BY DEF SnapTypeOK
<1>2. [r EXCEPT !.stage = "replied", !.replyTerm = t] \in InstallRpc
  BY <1>1 DEF InstallRpc
<1> QED  BY <1>1, <1>2 DEF AnswerInstall

\* A snapshot that is sent is the beginning of the log it was taken of.
LEMMA TriggeredType ==
  ASSUME SnapTypeOK, SnapshotFits, NEW s \in Server, NEW p \in Server
  PROVE  /\ Triggered(s, p) \subseteq InstallRpc
         /\ SubSeq(log[s], 1, base[s]) \in Seq(Entry)
         /\ Len(SubSeq(log[s], 1, base[s])) = base[s]
         /\ Agree(SubSeq(log[s], 1, base[s]), log[s], base[s])
<1> DEFINE data == SubSeq(log[s], 1, base[s])
           new == [from |-> s, to |-> p, live |-> TRUE, stage |-> "sent",
                   term |-> currentTerm[s], data |-> data, replyTerm |-> 0]
<1>1. /\ log[s] \in Seq(Entry) /\ base[s] \in Nat /\ base[s] <= Len(log[s])
      /\ currentTerm[s] \in Nat
  BY DEF SnapTypeOK, TypeOK, SnapshotFits
<1>2. data \in Seq(Entry) /\ Len(data) = base[s] /\ Agree(data, log[s], base[s])
  BY <1>1, SubSeqAgrees
<1>3. Triggered(s, p) = installRpcs \cup {new}
  BY DEF Triggered
<1>4. new \in InstallRpc
  <2> HIDE DEF data
  <2> QED  BY <1>1, <1>2 DEF InstallRpc
<1> HIDE DEF new
<1>5. installRpcs \subseteq InstallRpc
  BY DEF SnapTypeOK
<1> QED  BY <1>2, <1>3, <1>4, <1>5

-----------------------------------------------------------------------------
(* Types.                                                                  *)

\* The steps of RaftSnapshot that are steps of Raft.
RaftSteps ==
  \/ \E s \in Server : Elections(s) \/ \E c \in Command : Start(s, c)
  \/ \E r \in voteRpcs : VoteCall(r)
  \/ \E s \in Server : \E p \in Peers(s) :
       SendAppendEntries(s, p) /\ ~NeedsSnapshot(nextIndex[s][p], s)
  \/ \E r \in appendRpcs :
       \/ RefuseStaleAppend(r) \/ AcceptAppend(r)
       \/ (PassMatch(r) /\ base[r.to] <= r.prevLogIndex)
       \/ StoreEntries(r) \/ FollowCommit(r)
       \/ DeposedByReply(r) \/ CheckReply(r) \/ CountSuccess(r) \/ DropAppend(r)
  \/ UNCHANGED vars

LEMMA RaftStepsAreNext == RaftSteps => [Next]_vars
BY DEF RaftSteps, Next, RaftThread, Elections, AppendCall, VoteCall

\* What the calls of installSnapshot become in them.
InstallsWait ==
  \/ installRpcs' \subseteq installRpcs
  \/ \E s \in Server : \E p \in Peers(s) : SendSnapshot(s, p)
  \/ \E r \in installRpcs : RefuseStaleInstall(r)

LEMMA StepKinds ==
  ASSUME SnapTypeOK, [SnapNext]_snapshotVars
  PROVE  \/ RaftSteps /\ base' = base /\ InstallsWait
         \/ \E r \in appendRpcs : RefuseFrom(r) \/ BackUpFrom(r)
         \/ \E r \in Calls : Expire(r)
         \/ \E r \in installRpcs : InstallSnapshot(r) \/ HearInstalled(r)
         \/ \E s \in Server : \E i \in DOMAIN log[s] : Snapshot(s, i)
         \/ \E s \in Server : RestartFrom(s)
<1>1. CASE UNCHANGED snapshotVars
  BY <1>1 DEF snapshotVars, snapVars, RaftSteps, InstallsWait
<1>2. CASE /\ \/ \E s \in Server : Elections(s)
              \/ \E s \in Server, c \in Command : Start(s, c)
              \/ \E r \in voteRpcs : VoteCall(r)
           /\ UNCHANGED snapVars
  BY <1>2 DEF snapVars, RaftSteps, InstallsWait
<1>3. ASSUME NEW s \in Server, NEW p \in Peers(s), SendEntries(s, p) \/ SendSnapshot(s, p)
      PROVE  RaftSteps /\ base' = base /\ InstallsWait
  BY <1>3 DEF SendEntries, SendSnapshot, snapVars, RaftSteps, InstallsWait
<1>4. ASSUME NEW r \in appendRpcs, AppendStep(r)
      PROVE  \/ RaftSteps /\ base' = base /\ InstallsWait
             \/ RefuseFrom(r) \/ BackUpFrom(r) \/ Expire(r)
  <2>1. CASE PassFrom(r)
    <3>1. r \in AppendRpc /\ base \in [Server -> Nat]
      BY DEF SnapTypeOK, TypeOK
    <3>2. r.to \in Server /\ r.prevLogIndex \in Nat
      BY <3>1 DEF AppendRpc
    <3>3. base[r.to] <= r.prevLogIndex
      BY <2>1, <3>1, <3>2 DEF PassFrom
    <3> QED  BY <2>1, <3>3 DEF PassFrom, snapVars, RaftSteps, InstallsWait
  <2>2. CASE ~PassFrom(r)
    BY <1>4, <2>2 DEF AppendStep, snapVars, RaftSteps, InstallsWait
  <2> QED  BY <2>1, <2>2
<1>5. ASSUME NEW r \in installRpcs, InstallStep(r)
      PROVE  \/ RaftSteps /\ base' = base /\ InstallsWait
             \/ InstallSnapshot(r) \/ HearInstalled(r) \/ Expire(r)
  BY <1>5 DEF InstallStep, RefuseStaleInstall, DropInstall, RaftSteps, InstallsWait
<1>6. Mortal \subseteq Server
  BY SubsetAssumption
<1> QED  BY <1>1, <1>2, <1>3, <1>4, <1>5, <1>6 DEF SnapNext, Calls

\* A step that leaves alone what Raft has but for its calls and next indexes.
LEMMA OnlyCallsStep ==
  ASSUME SnapTypeOK, LogPersisted, appendRpcs' \subseteq AppendRpc,
         nextIndex' \in [Server -> [Server -> Nat]],
         UNCHANGED <<electionVars, logVars, matchIndex, persisted, voteRpcs, restarts,
                     historyVars>>
  PROVE  TypeOK' /\ LogPersisted'
<1>1. TypeOK'
  BY DEF SnapTypeOK, TypeOK, electionVars, logVars, historyVars, ballotVars, takenVars
<1>2. LogPersisted'
  BY DEF LogPersisted, logVars
<1> QED  BY <1>1, <1>2

\* Late or not, a call is a call.
LEMMA LateType ==
  ASSUME SnapTypeOK
  PROVE  /\ \A r \in appendRpcs : [r EXCEPT !.live = FALSE] \in AppendRpc
         /\ \A r \in installRpcs : [r EXCEPT !.live = FALSE] \in InstallRpc
<1>1. appendRpcs \subseteq AppendRpc /\ installRpcs \subseteq InstallRpc
  BY DEF SnapTypeOK, TypeOK
<1> QED  BY <1>1 DEF AppendRpc, InstallRpc

LEMMA RefuseFromType ==
  ASSUME SnapTypeOK, LogPersisted, LeaderHasNextIndexes, NEW r \in appendRpcs, RefuseFrom(r)
  PROVE  SnapTypeOK' /\ LogPersisted' /\ LeaderHasNextIndexes'
<1>1. /\ TypeOK /\ appendRpcs \subseteq AppendRpc /\ r.to \in Server
      /\ r.prevLogIndex \in Nat /\ r.replyTerm \in Nat /\ base[r.to] \in Nat
      /\ log[r.to] \in Seq(Entry)
  <2>1. TypeOK /\ appendRpcs \subseteq AppendRpc /\ base \in [Server -> Nat]
    BY DEF SnapTypeOK, TypeOK
  <2>2. r.to \in Server /\ r.prevLogIndex \in Nat /\ r.replyTerm \in Nat
    BY <2>1, CallType
  <2> QED  BY <2>1, <2>2 DEF TypeOK
<1>2. PICK k \in Nat : Answer(r, r.replyTerm, FALSE, k)
  <2>1. Unset \subseteq Nat
    BY BoundAssumption DEF Unset
  <2>2. CASE \E unset \in Unset : Answer(r, r.replyTerm, FALSE, unset)
    BY <2>1, <2>2
  <2>3. CASE /\ ~Matches(log[r.to], r.prevLogIndex, r.prevLogTerm)
             /\ Answer(r, r.replyTerm, FALSE, Max({base[r.to], ConflictIndex(log[r.to], r.prevLogIndex)}))
    <3> DEFINE c == ConflictIndex(log[r.to], r.prevLogIndex)
    <3>1. r.prevLogIndex # 0
      BY <2>3 DEF Matches
    <3>2. c \in Nat
      BY <1>1, <3>1, ConflictIndexType
    <3>3. Max({base[r.to], c}) \in Nat
      <4> HIDE DEF c
      <4> QED  BY <1>1, <3>2, MaxOfTwo
    <3> QED  BY <2>3, <3>3
  <2> QED  BY <2>2, <2>3 DEF RefuseFrom
<1>3. appendRpcs' \subseteq AppendRpc
  BY <1>1, <1>2, AnswerType
<1>4. UNCHANGED <<electionVars, logVars, leaderVars, persisted, voteRpcs, restarts,
                  historyVars, snapVars>>
  BY DEF RefuseFrom
<1>5. TypeOK' /\ LogPersisted'
  <2>1. nextIndex' \in [Server -> [Server -> Nat]]
    BY <1>1, <1>4 DEF TypeOK, leaderVars
  <2> QED  BY <1>3, <1>4, <2>1, OnlyCallsStep DEF leaderVars
<1> QED
  BY <1>4, <1>5 DEF SnapTypeOK, snapVars, LeaderHasNextIndexes, leaderVars, electionVars

LEMMA ExpireType ==
  ASSUME SnapTypeOK, LogPersisted, LeaderHasNextIndexes, NEW r \in Calls, Expire(r)
  PROVE  SnapTypeOK' /\ LogPersisted' /\ LeaderHasNextIndexes'
<1>1. UNCHANGED <<electionVars, logVars, leaderVars, persisted, voteRpcs, restarts,
                  historyVars, base>>
  BY DEF Expire
<1>2. appendRpcs' \subseteq AppendRpc /\ installRpcs' \subseteq InstallRpc
  BY LateType DEF Expire, Advance, SnapTypeOK, TypeOK
<1>3. TypeOK' /\ LogPersisted'
  <2>1. nextIndex' \in [Server -> [Server -> Nat]]
    BY <1>1 DEF SnapTypeOK, TypeOK, leaderVars
  <2> QED  BY <1>1, <1>2, <2>1, OnlyCallsStep DEF leaderVars
<1> QED
  BY <1>1, <1>2, <1>3 DEF SnapTypeOK, LeaderHasNextIndexes, leaderVars, electionVars

\* A leader's next index is never 0.
LEMMA BackedUpFromType ==
  ASSUME NEW s \in Server, base[s] \in Nat, NEW next \in Nat \ {0}, NEW conflict \in Nat
  PROVE  BackedUpFrom(next, conflict, s) \in Nat \ {0}
BY DEF BackedUpFrom

LEMMA BackUpFromDoes ==
  ASSUME SnapTypeOK, SnapshotFits, LeaderHasNextIndexes, NEW r \in appendRpcs, BackUpFrom(r)
  PROVE  LET s == r.from
             n == BackedUpFrom(nextIndex[s][r.to], r.conflictIndex, s)
         IN /\ s \in Server /\ r.to \in Server /\ n \in Nat \ {0}
            /\ state[s] = "Leader" /\ r.stage = "checked" /\ ~r.success
            /\ nextIndex' = [nextIndex EXCEPT ![s][r.to] = n]
            /\ nextIndex' \in [Server -> [Server -> Nat]]
            /\ nextIndex'[s][r.to] = n
            /\ \A q, p \in Server : q # s \/ p # r.to => nextIndex'[q][p] = nextIndex[q][p]
            /\ installRpcs' = installRpcs \/ (installRpcs' = Triggered(s, r.to) /\ n <= base[s])
            /\ appendRpcs' = appendRpcs \ {r}
            /\ UNCHANGED <<electionVars, logVars, matchIndex, persisted, voteRpcs, restarts,
                           historyVars, base>>
<1> DEFINE s == r.from
           n == BackedUpFrom(nextIndex[s][r.to], r.conflictIndex, s)
<1>1. /\ s \in Server /\ r.to \in Server /\ r.conflictIndex \in Nat /\ base[s] \in Nat
      /\ nextIndex \in [Server -> [Server -> Nat]]
  <2>1. s \in Server /\ r.to \in Server /\ r.conflictIndex \in Nat
    BY CallType DEF SnapTypeOK
  <2> QED  BY <2>1 DEF SnapTypeOK, TypeOK
<1>2. /\ state[s] = "Leader" /\ r.stage = "checked" /\ ~r.success
      /\ nextIndex' = [nextIndex EXCEPT ![s][r.to] = n]
      /\ appendRpcs' = appendRpcs \ {r}
      /\ UNCHANGED <<electionVars, logVars, matchIndex, persisted, voteRpcs, restarts,
                     historyVars, base>>
  BY DEF BackUpFrom
<1>3. n \in Nat \ {0}
  <2>1. nextIndex[s][r.to] \in Nat \ {0}
    BY <1>1, <1>2 DEF LeaderHasNextIndexes
  <2> QED  BY <1>1, <2>1, BackedUpFromType
<1>4. /\ nextIndex' \in [Server -> [Server -> Nat]] /\ nextIndex'[s][r.to] = n
      /\ \A q, p \in Server : q # s \/ p # r.to => nextIndex'[q][p] = nextIndex[q][p]
  <2> HIDE DEF n, s
  <2> QED  BY <1>1, <1>2, <1>3
<1>5. installRpcs' = installRpcs \/ (installRpcs' = Triggered(s, r.to) /\ n <= base[s])
  <2>1. IF NeedsSnapshot(nextIndex'[s][r.to], s)
        THEN installRpcs' = Triggered(s, r.to)
        ELSE UNCHANGED installRpcs
    BY DEF BackUpFrom
  <2>2. NeedsSnapshot(nextIndex'[s][r.to], s) <=> n <= base[s]
    BY <1>4 DEF NeedsSnapshot
  <2> QED  BY <2>1, <2>2
<1> HIDE DEF n
<1> QED  BY <1>1, <1>2, <1>3, <1>4, <1>5 DEF n

LEMMA BackUpFromType ==
  ASSUME SnapTypeOK, SnapshotFits, LogPersisted, LeaderHasNextIndexes,
         NEW r \in appendRpcs, BackUpFrom(r)
  PROVE  SnapTypeOK' /\ LogPersisted' /\ LeaderHasNextIndexes'
<1> DEFINE s == r.from
           n == BackedUpFrom(nextIndex[s][r.to], r.conflictIndex, s)
<1>1. /\ s \in Server /\ r.to \in Server /\ n \in Nat \ {0}
      /\ nextIndex' \in [Server -> [Server -> Nat]]
      /\ nextIndex'[s][r.to] = n
      /\ \A q, p \in Server : q # s \/ p # r.to => nextIndex'[q][p] = nextIndex[q][p]
      /\ installRpcs' = installRpcs \/ installRpcs' = Triggered(s, r.to)
      /\ appendRpcs' = appendRpcs \ {r}
      /\ UNCHANGED <<electionVars, logVars, matchIndex, persisted, voteRpcs, restarts,
                     historyVars, base>>
  BY BackUpFromDoes
<1> HIDE DEF n
<1>2. LeaderHasNextIndexes'
  <2>1. \A q, p \in Server : nextIndex'[q][p] = nextIndex[q][p] \/ nextIndex'[q][p] = n
    BY <1>1
  <2> QED  BY <1>1, <2>1 DEF LeaderHasNextIndexes, electionVars
<1>3. TypeOK' /\ LogPersisted'
  <2>1. appendRpcs' \subseteq AppendRpc
    BY <1>1 DEF SnapTypeOK, TypeOK
  <2> QED  BY <1>1, <2>1, OnlyCallsStep
<1>4. installRpcs' \subseteq InstallRpc
  <2>1. installRpcs \subseteq InstallRpc
    BY DEF SnapTypeOK
  <2> QED  BY <1>1, <2>1, TriggeredType
<1> QED  BY <1>1, <1>2, <1>3, <1>4 DEF SnapTypeOK

\* Saving the state keeps its type.
LEMMA PersistType ==
  ASSUME TypeOK, NEW s \in Server, Persist(s), currentTerm' \in [Server -> Nat],
         votedFor' \in [Server -> Server \cup {Nil}], log' \in [Server -> Seq(Entry)]
  PROVE  persisted' \in [Server -> TermAndVote]
<1>1. [term |-> currentTerm'[s], votedFor |-> votedFor'[s], log |-> log'[s]] \in TermAndVote
  BY DEF TermAndVote
<1> QED  BY <1>1 DEF Persist, TypeOK

LEMMA StepDownType ==
  ASSUME TypeOK, NEW s \in Server, NEW t \in Nat, StepDown(s, t)
  PROVE  /\ currentTerm' \in [Server -> Nat] /\ votedFor' \in [Server -> Server \cup {Nil}]
         /\ state' \in [Server -> {"Follower", "Candidate", "Leader"}]
         /\ electing' \in [Server -> BOOLEAN] /\ toAsk' \in [Server -> SUBSET Server]
         /\ \A p \in Server : state'[p] = "Leader" => p # s /\ state[p] = "Leader"
BY DEF TypeOK, StepDown, BecomeFollower

\* A snapshot is installed whole or not at all.
LEMMA InstallDoes ==
  ASSUME SnapTypeOK, NEW r \in installRpcs, InstallSnapshot(r)
  PROVE  LET s == r.to
         IN /\ s \in Server /\ CanLock /\ r.stage = "sent" /\ r.term >= currentTerm[s]
            /\ \/ UNCHANGED <<base, log, applied>>
               \/ /\ Len(r.data) > base[s]
                  /\ base' = [base EXCEPT ![s] = Len(r.data)]
                  /\ log' = [log EXCEPT ![s] = r.data]
                  /\ applied' = [applied EXCEPT ![s] = IF Len(applied[s]) < Len(r.data)
                                                       THEN r.data ELSE applied[s]]
            /\ \/ r.term > currentTerm[s] /\ StepDown(s, r.term)
               \/ /\ ~(r.term > currentTerm[s])
                  /\ UNCHANGED <<currentTerm, votedFor, state, electing, toAsk>>
            /\ (persisted' = persisted /\ log' = log) \/ Persist(s)
            /\ AnswerInstall(r, currentTerm[s])
            /\ UNCHANGED <<votesGranted, commitIndex, leaderVars, voteRpcs, appendRpcs,
                           restarts, historyVars>>
<1>1. r.to \in Server
  BY InstallType
<1>2. applied \in [Server -> Seq(Entry \cup {Wild})]
  BY DEF SnapTypeOK, TypeOK
<1> QED  BY <1>1, <1>2 DEF InstallSnapshot, Installed

LEMMA InstallSnapshotType ==
  ASSUME SnapTypeOK, LogPersisted, LeaderHasNextIndexes, NEW r \in installRpcs,
         InstallSnapshot(r)
  PROVE  SnapTypeOK' /\ LogPersisted' /\ LeaderHasNextIndexes'
<1> DEFINE s == r.to
<1>1. /\ s \in Server /\ r.data \in Seq(Entry) /\ r.term \in Nat /\ Len(r.data) \in Nat
      /\ TypeOK
  BY InstallType DEF SnapTypeOK
<1>2. /\ \/ UNCHANGED <<base, log, applied>>
         \/ /\ base' = [base EXCEPT ![s] = Len(r.data)]
            /\ log' = [log EXCEPT ![s] = r.data]
            /\ applied' = [applied EXCEPT ![s] = IF Len(applied[s]) < Len(r.data)
                                                 THEN r.data ELSE applied[s]]
      /\ \/ StepDown(s, r.term)
         \/ UNCHANGED <<currentTerm, votedFor, state, electing, toAsk>>
      /\ (persisted' = persisted /\ log' = log) \/ Persist(s)
      /\ AnswerInstall(r, currentTerm[s])
      /\ UNCHANGED <<votesGranted, commitIndex, leaderVars, voteRpcs, appendRpcs,
                     restarts, historyVars>>
  BY InstallDoes
<1> HIDE DEF s
<1>3. log' \in [Server -> Seq(Entry)] /\ \A p \in Server \ {s} : log'[p] = log[p]
  BY <1>1, <1>2 DEF TypeOK
<1>4. /\ base' \in [Server -> Nat] /\ applied' \in [Server -> Seq(Entry \cup {Wild})]
  <2>1. /\ base \in [Server -> Nat] /\ applied \in [Server -> Seq(Entry \cup {Wild})]
        /\ r.data \in Seq(Entry \cup {Wild})
    BY <1>1 DEF SnapTypeOK, TypeOK
  <2> QED  BY <1>1, <1>2, <2>1
<1>5. /\ currentTerm' \in [Server -> Nat] /\ votedFor' \in [Server -> Server \cup {Nil}]
      /\ state' \in [Server -> {"Follower", "Candidate", "Leader"}]
      /\ electing' \in [Server -> BOOLEAN] /\ toAsk' \in [Server -> SUBSET Server]
      /\ \A p \in Server : state'[p] = "Leader" => state[p] = "Leader"
  <2>1. CASE StepDown(s, r.term)
    BY <1>1, <2>1, StepDownType
  <2>2. CASE UNCHANGED <<currentTerm, votedFor, state, electing, toAsk>>
    BY <1>1, <2>2 DEF TypeOK
  <2> QED  BY <1>2, <2>1, <2>2
<1>6. persisted' \in [Server -> TermAndVote]
  <2>1. CASE Persist(s)
    BY <1>1, <1>3, <1>5, <2>1, PersistType
  <2> QED  BY <1>2, <2>1 DEF SnapTypeOK, TypeOK
<1>7. installRpcs' \subseteq InstallRpc
  <2>1. currentTerm[s] \in Nat
    BY <1>1 DEF TypeOK
  <2> QED  BY <1>2, <2>1, AnswerInstallType
<1>8. LeaderHasNextIndexes'
  BY <1>2, <1>5 DEF LeaderHasNextIndexes, leaderVars
<1>9. LogPersisted'
  <2>1. CASE Persist(s)
    BY <1>1, <1>3, <2>1, PersistAgreesOnLogs DEF TypeInv
  <2> QED  BY <1>2, <2>1 DEF LogPersisted
<1>10. TypeOK'
  BY <1>1, <1>2, <1>3, <1>4, <1>5, <1>6
     DEF TypeOK, leaderVars, historyVars, ballotVars, takenVars
<1> QED  BY <1>4, <1>7, <1>8, <1>9, <1>10 DEF SnapTypeOK

LEMMA HearInstalledDoes ==
  ASSUME SnapTypeOK, NEW r \in installRpcs, HearInstalled(r)
  PROVE  LET s == r.from
         IN /\ s \in Server /\ r.to \in Server /\ r.stage = "replied" /\ state[s] = "Leader"
            /\ base[s] \in Nat
            /\ installRpcs' = installRpcs \ {r}
            /\ \/ /\ r.replyTerm > currentTerm[s] /\ StepDown(s, r.replyTerm) /\ Persist(s)
                  /\ UNCHANGED leaderVars
               \/ /\ ~(r.replyTerm > currentTerm[s])
                  /\ matchIndex' = [matchIndex EXCEPT ![s][r.to] = base[s]]
                  /\ nextIndex' = [nextIndex EXCEPT ![s][r.to] = base[s] + 1]
                  /\ UNCHANGED <<currentTerm, votedFor, state, electing, toAsk, persisted>>
            /\ matchIndex' \in [Server -> [Server -> Nat]]
            /\ nextIndex' \in [Server -> [Server -> Nat]]
            /\ \A q, p \in Server :
                 \/ matchIndex'[q][p] = matchIndex[q][p] /\ nextIndex'[q][p] = nextIndex[q][p]
                 \/ q = s /\ p = r.to /\ matchIndex'[q][p] = base[s] /\ nextIndex'[q][p] = base[s] + 1
            /\ UNCHANGED <<votesGranted, logVars, voteRpcs, appendRpcs, restarts, historyVars,
                           base>>
<1> DEFINE s == r.from
<1>1. /\ s \in Server /\ r.to \in Server /\ r.replyTerm \in Nat /\ base[s] \in Nat
      /\ currentTerm[s] \in Nat
      /\ matchIndex \in [Server -> [Server -> Nat]] /\ nextIndex \in [Server -> [Server -> Nat]]
  <2>1. s \in Server /\ r.to \in Server /\ r.replyTerm \in Nat
    BY InstallType
  <2> QED  BY <2>1 DEF SnapTypeOK, TypeOK
<1>2. /\ r.stage = "replied" /\ state[s] = "Leader"
      /\ installRpcs' = installRpcs \ {r}
      /\ UNCHANGED <<votesGranted, logVars, voteRpcs, appendRpcs, restarts, historyVars, base>>
  BY DEF HearInstalled
<1>3. \/ /\ r.replyTerm > currentTerm[s] /\ StepDown(s, r.replyTerm) /\ Persist(s)
         /\ UNCHANGED leaderVars
      \/ /\ ~(r.replyTerm > currentTerm[s])
         /\ matchIndex' = [matchIndex EXCEPT ![s][r.to] = base[s]]
         /\ nextIndex' = [nextIndex EXCEPT ![s][r.to] = base[s] + 1]
         /\ UNCHANGED <<currentTerm, votedFor, state, electing, toAsk, persisted>>
  <2>1. r.replyTerm <= currentTerm[s] => ~(r.replyTerm > currentTerm[s])
    BY <1>1
  <2> QED  BY <2>1 DEF HearInstalled, InstalledUpTo
<1>4. /\ matchIndex' \in [Server -> [Server -> Nat]]
      /\ nextIndex' \in [Server -> [Server -> Nat]]
      /\ \A q, p \in Server :
           \/ matchIndex'[q][p] = matchIndex[q][p] /\ nextIndex'[q][p] = nextIndex[q][p]
           \/ (q = s /\ p = r.to /\ matchIndex'[q][p] = base[s] /\ nextIndex'[q][p] = base[s] + 1)
  <2> HIDE DEF s
  <2>1. CASE UNCHANGED leaderVars
    BY <1>1, <2>1 DEF leaderVars
  <2>2. CASE /\ matchIndex' = [matchIndex EXCEPT ![s][r.to] = base[s]]
             /\ nextIndex' = [nextIndex EXCEPT ![s][r.to] = base[s] + 1]
    <3>1. base[s] + 1 \in Nat
      BY <1>1
    <3> QED  BY <1>1, <2>2, <3>1
  <2> QED  BY <1>3, <2>1, <2>2
<1> QED  BY <1>1, <1>2, <1>3, <1>4

LEMMA HearInstalledType ==
  ASSUME SnapTypeOK, LogPersisted, LeaderHasNextIndexes, NEW r \in installRpcs,
         HearInstalled(r)
  PROVE  SnapTypeOK' /\ LogPersisted' /\ LeaderHasNextIndexes'
<1> DEFINE s == r.from
<1>1. s \in Server /\ r.to \in Server /\ r.replyTerm \in Nat /\ TypeOK
  BY InstallType DEF SnapTypeOK
<1>2. /\ base[s] \in Nat /\ installRpcs' = installRpcs \ {r}
      /\ \/ StepDown(s, r.replyTerm) /\ Persist(s)
         \/ UNCHANGED <<currentTerm, votedFor, state, electing, toAsk, persisted>>
      /\ matchIndex' \in [Server -> [Server -> Nat]]
      /\ nextIndex' \in [Server -> [Server -> Nat]]
      /\ \A q, p \in Server :
           nextIndex'[q][p] = nextIndex[q][p] \/ nextIndex'[q][p] = base[s] + 1
      /\ UNCHANGED <<votesGranted, logVars, voteRpcs, appendRpcs, restarts, historyVars, base>>
  <2>1. /\ base[s] \in Nat /\ installRpcs' = installRpcs \ {r}
        /\ \/ StepDown(s, r.replyTerm) /\ Persist(s)
           \/ UNCHANGED <<currentTerm, votedFor, state, electing, toAsk, persisted>>
        /\ matchIndex' \in [Server -> [Server -> Nat]]
        /\ nextIndex' \in [Server -> [Server -> Nat]]
        /\ UNCHANGED <<votesGranted, logVars, voteRpcs, appendRpcs, restarts, historyVars,
                       base>>
    BY HearInstalledDoes
  <2>2. \A q, p \in Server :
          nextIndex'[q][p] = nextIndex[q][p] \/ nextIndex'[q][p] = base[s] + 1
    <3>1. \A q, p \in Server :
            \/ matchIndex'[q][p] = matchIndex[q][p] /\ nextIndex'[q][p] = nextIndex[q][p]
            \/ q = s /\ p = r.to /\ matchIndex'[q][p] = base[s] /\ nextIndex'[q][p] = base[s] + 1
      BY HearInstalledDoes
    <3> QED  BY <3>1
  <2> QED  BY <2>1, <2>2
<1> HIDE DEF s
<1>3. /\ currentTerm' \in [Server -> Nat] /\ votedFor' \in [Server -> Server \cup {Nil}]
      /\ state' \in [Server -> {"Follower", "Candidate", "Leader"}]
      /\ electing' \in [Server -> BOOLEAN] /\ toAsk' \in [Server -> SUBSET Server]
      /\ \A p \in Server : state'[p] = "Leader" => state[p] = "Leader"
  <2>1. CASE StepDown(s, r.replyTerm)
    BY <1>1, <2>1, StepDownType
  <2>2. CASE UNCHANGED <<currentTerm, votedFor, state, electing, toAsk>>
    BY <1>1, <2>2 DEF TypeOK
  <2> QED  BY <1>2, <2>1, <2>2
<1>4. log' = log /\ log' \in [Server -> Seq(Entry)]
  BY <1>1, <1>2 DEF logVars, TypeOK
<1>5. persisted' \in [Server -> TermAndVote]
  <2>1. CASE Persist(s)
    BY <1>1, <1>3, <1>4, <2>1, PersistType
  <2> QED  BY <1>1, <1>2, <2>1 DEF TypeOK
<1>6. LeaderHasNextIndexes'
  <2>1. base[s] + 1 # 0
    BY <1>2
  <2> QED  BY <1>2, <1>3, <2>1 DEF LeaderHasNextIndexes
<1>7. LogPersisted'
  <2>1. CASE Persist(s)
    BY <1>1, <1>4, <2>1, PersistAgreesOnLogs DEF TypeInv
  <2> QED  BY <1>2, <1>4, <2>1 DEF LogPersisted
<1>8. TypeOK'
  BY <1>1, <1>2, <1>3, <1>5 DEF TypeOK, logVars, historyVars, ballotVars, takenVars
<1>9. base' \in [Server -> Nat] /\ installRpcs' \subseteq InstallRpc
  BY <1>2 DEF SnapTypeOK
<1> QED  BY <1>6, <1>7, <1>8, <1>9 DEF SnapTypeOK

LEMMA SnapshotType ==
  ASSUME SnapTypeOK, LogPersisted, LeaderHasNextIndexes, NEW s \in Server,
         NEW i \in DOMAIN log[s], Snapshot(s, i)
  PROVE  SnapTypeOK' /\ LogPersisted' /\ LeaderHasNextIndexes'
<1>1. /\ base' = [base EXCEPT ![s] = i]
      /\ persisted' = [persisted EXCEPT ![s] = [term |-> currentTerm[s], votedFor |-> Nil,
                                                log |-> log[s]]]
      /\ UNCHANGED <<electionVars, logVars, leaderVars, voteRpcs, appendRpcs, installRpcs,
                     restarts, historyVars>>
  BY DEF Snapshot
<1>2. currentTerm[s] \in Nat /\ log[s] \in Seq(Entry) /\ i \in Nat
  BY DEF SnapTypeOK, TypeOK
<1>3. [term |-> currentTerm[s], votedFor |-> Nil, log |-> log[s]] \in TermAndVote
  BY <1>2 DEF TermAndVote
<1>4. persisted' \in [Server -> TermAndVote] /\ base' \in [Server -> Nat]
  BY <1>1, <1>2, <1>3 DEF SnapTypeOK, TypeOK
<1>5. TypeOK'
  BY <1>1, <1>4 DEF SnapTypeOK, TypeOK, electionVars, logVars, leaderVars, historyVars,
                    ballotVars, takenVars
<1>6. LeaderHasNextIndexes'
  BY <1>1 DEF LeaderHasNextIndexes, leaderVars, electionVars
<1>7. LogPersisted'
  BY <1>1 DEF LogPersisted, logVars, SnapTypeOK, TypeOK
<1> QED  BY <1>1, <1>4, <1>5, <1>6, <1>7 DEF SnapTypeOK

\* A node that finds its Persister has its log and snapshot again; one that does not
\* has neither.
LEMMA RestartFromDoes ==
  ASSUME SnapTypeOK, LogPersisted, SnapshotFits, NEW s \in Server, RestartFrom(s)
  PROVE  \E done \in Seq(Entry) :
           /\ Reboot(s, done)
           /\ \/ PersisterSurvives /\ base' = base /\ done = SubSeq(log[s], 1, base[s])
              \/ ~PersisterSurvives /\ done = << >> /\ base' = [base EXCEPT ![s] = 0]
           /\ installRpcs' = Orphaned(installRpcs, s)
<1>1. /\ persisted[s].log = log[s] /\ log[s] \in Seq(Entry) /\ base[s] \in Nat
      /\ base[s] <= Len(log[s])
  BY DEF SnapTypeOK, TypeOK, LogPersisted, SnapshotFits
<1>2. SubSeq(log[s], 1, base[s]) \in Seq(Entry) /\ << >> \in Seq(Entry)
  BY <1>1, SubSeqAgrees
<1> QED  BY <1>1, <1>2 DEF RestartFrom, Restored

LEMMA RestartFromType ==
  ASSUME SnapTypeOK, LogPersisted, LeaderHasNextIndexes, SnapshotFits, NEW s \in Server,
         RestartFrom(s)
  PROVE  SnapTypeOK' /\ LogPersisted' /\ LeaderHasNextIndexes'
<1>1. PICK done \in Seq(Entry) :
        /\ Reboot(s, done)
        /\ base' = base \/ base' = [base EXCEPT ![s] = 0]
        /\ installRpcs' = Orphaned(installRpcs, s)
  BY RestartFromDoes
<1>2. TypeInv /\ done \in Seq(Entry \cup {Wild})
  BY <1>1 DEF TypeInv, SnapTypeOK
<1>3. TypeInv'
  BY <1>1, <1>2, RebootTypeInv
<1>4. LogPersisted'
  BY <1>1, <1>2, RebootAgreesOnLogs
<1>5. installRpcs' \subseteq InstallRpc
  BY <1>1, LateType DEF Orphaned, SnapTypeOK
<1>6. base' \in [Server -> Nat]
  BY <1>1 DEF SnapTypeOK
<1> QED  BY <1>3, <1>4, <1>5, <1>6 DEF SnapTypeOK, TypeInv

LEMMA SnapTypesStep ==
  ASSUME SnapTypeOK, LogPersisted, LeaderHasNextIndexes, SnapshotFits,
         [SnapNext]_snapshotVars
  PROVE  SnapTypeOK' /\ LogPersisted' /\ LeaderHasNextIndexes'
<1>1. CASE RaftSteps /\ base' = base /\ InstallsWait
  <2>1. [Next]_vars /\ TypeInv
    BY <1>1, RaftStepsAreNext DEF TypeInv, SnapTypeOK
  <2>2. TypeInv' /\ LogPersisted'
    BY <2>1, StepTypeInv, LogPersistedStep
  <2>3. installRpcs' \subseteq InstallRpc
    <3>1. ASSUME NEW s \in Server, NEW p \in Peers(s), SendSnapshot(s, p)
          PROVE  installRpcs' \subseteq InstallRpc
      <4>1. installRpcs' = Triggered(s, p) /\ p \in Server
        BY <3>1 DEF SendSnapshot, Peers
      <4> QED  BY <4>1, TriggeredType
    <3>2. ASSUME NEW r \in installRpcs, RefuseStaleInstall(r)
          PROVE  installRpcs' \subseteq InstallRpc
      <4>1. currentTerm[r.to] \in Nat
        BY InstallType DEF SnapTypeOK, TypeOK
      <4> QED  BY <3>2, <4>1, AnswerInstallType DEF RefuseStaleInstall
    <3> QED  BY <1>1, <3>1, <3>2 DEF InstallsWait, SnapTypeOK
  <2> QED  BY <1>1, <2>2, <2>3 DEF SnapTypeOK, TypeInv
<1> QED
  BY <1>1, StepKinds, RefuseFromType, BackUpFromType, ExpireType, InstallSnapshotType,
     HearInstalledType, SnapshotType, RestartFromType

-----------------------------------------------------------------------------
(* Snapshots and logs.                                                     *)

\* Storing entries cuts no log before them.
LEMMA StoredLength ==
  ASSUME NEW l \in Seq(Entry), NEW prev \in Nat, NEW es \in Seq(Entry),
         NEW n \in Nat, n <= prev, n <= Len(l)
  PROVE  n <= Len(Stored(l, prev, es))
<1> DEFINE overlap == {k \in DOMAIN es : prev + k <= Len(l)}
           clash   == {k \in overlap : l[prev + k].term # es[k].term}
           same    == {k \in overlap : l[prev + k] = es[k]}
<1>1. CASE clash = {}
  <2> DEFINE d == Cardinality(same)
             rest == SubSeq(es, d + 1, Len(es))
  <2>1. d \in Nat
    <3>1. IsFiniteSet(1..Len(es))
      BY FS_Interval
    <3>2. same \subseteq 1..Len(es)
      OBVIOUS
    <3> HIDE DEF same
    <3> QED  BY <3>1, <3>2, FS_Subset, FS_CardinalityType
  <2>2. rest \in Seq(Entry)
    <3> HIDE DEF d
    <3> QED  BY <2>1, SubSeqProperties
  <2>3. Stored(l, prev, es) = l \o rest
    BY <1>1 DEF Stored
  <2> HIDE DEF rest
  <2> QED  BY <2>2, <2>3
<1>2. CASE clash # {}
  <2> DEFINE k == Min(clash)
             cut == SubSeq(l, 1, prev + k - 1)
             rest == SubSeq(es, k, Len(es))
  <2>1. k \in clash
    <3>1. clash \in SUBSET Nat
      OBVIOUS
    <3> HIDE DEF clash
    <3> QED  BY <3>1, <1>2, MinIsLeast
  <2>2. k \in 1..Len(es) /\ prev + k <= Len(l)
    BY <2>1
  <2>3. Stored(l, prev, es) = cut \o rest
    BY <1>2 DEF Stored
  <2> HIDE DEF k
  <2>4. cut \in Seq(Entry) /\ Len(cut) = prev + k - 1
    <3>1. prev + k - 1 \in Nat /\ prev + k - 1 <= Len(l)
      BY <2>2
    <3> QED  BY <3>1, SubSeqAgrees
  <2>5. rest \in Seq(Entry)
    BY <2>2, SubSeqProperties
  <2> HIDE DEF cut, rest
  <2> QED  BY <2>2, <2>3, <2>4, <2>5
<1> QED  BY <1>1, <1>2

LEMMA PushedUpToLength ==
  ASSUME NEW c \in Nat, NEW done \in Seq(Entry \cup {Wild}), NEW l \in Seq(Entry)
  PROVE  Len(done) <= Len(PushedUpTo(c, done, l))
<1>1. CASE c > Len(done)
  <2> DEFINE more == [k \in 1..(c - Len(done)) |-> EntryAt(l, Len(done) + k)]
  <2>1. \A k \in 1..(c - Len(done)) : EntryAt(l, Len(done) + k) \in Entry \cup {Wild}
    BY DEF EntryAt
  <2>2. more \in Seq(Entry \cup {Wild})
    BY <1>1, <2>1
  <2>3. PushedUpTo(c, done, l) = done \o more
    BY <1>1 DEF PushedUpTo
  <2> HIDE DEF more
  <2> QED  BY <2>2, <2>3
<1>2. CASE ~(c > Len(done))
  BY <1>2 DEF PushedUpTo
<1> QED  BY <1>1, <1>2

\* The two sections that push entries to the apply channel.
LEMMA FollowDoes ==
  ASSUME TypeOK, NEW r \in appendRpcs, FollowCommit(r)
  PROVE  LET s == r.to
             c == FollowedCommit(commitIndex[s], r.leaderCommit, LastNew(r))
         IN /\ s \in Server /\ r.stage = "commit" /\ c \in Nat
            /\ commitIndex' = [commitIndex EXCEPT ![s] = c]
            /\ applied' = [applied EXCEPT ![s] = PushedUpTo(c, applied[s], log[s])]
            /\ Answer(r, r.replyTerm, TRUE, 0)
            /\ UNCHANGED <<electionVars, log, leaderVars, persisted, voteRpcs, restarts,
                           historyVars>>
<1> DEFINE s == r.to
           c == FollowedCommit(commitIndex[s], r.leaderCommit, LastNew(r))
<1>1. s \in Server /\ r.leaderCommit \in Nat /\ LastNew(r) \in Nat /\ commitIndex[s] \in Nat
  <2>1. s \in Server /\ r.leaderCommit \in Nat /\ LastNew(r) \in Nat
    BY CallType
  <2> QED  BY <2>1 DEF TypeOK
<1>2. c \in Nat
  BY <1>1, FollowedCommitType
<1>3. commitIndex' = [commitIndex EXCEPT ![s] = c]
  BY DEF FollowCommit, LastNew
<1>4. commitIndex'[s] = c
  <2> HIDE DEF c, s
  <2> QED  BY <1>1, <1>3 DEF TypeOK
<1>5. applied' = [applied EXCEPT ![s] = PushedUpTo(c, applied[s], log[s])]
  <2>1. applied' = [applied EXCEPT ![s] = PushedUpTo(commitIndex'[s], applied[s], log[s])]
    BY <1>1 DEF FollowCommit, TypeOK
  <2> QED  BY <1>4, <2>1
<1>6. /\ r.stage = "commit" /\ Answer(r, r.replyTerm, TRUE, 0)
      /\ UNCHANGED <<electionVars, log, leaderVars, persisted, voteRpcs, restarts,
                     historyVars>>
  BY DEF FollowCommit
<1> HIDE DEF c
<1> QED  BY <1>1, <1>2, <1>3, <1>5, <1>6 DEF c

LEMMA CountDoes ==
  ASSUME TypeOK, NEW r \in appendRpcs, CountSuccess(r)
  PROVE  LET s == r.from
             m == Max({matchIndex[s][r.to], LastNew(r)})
             c == CommitRule(log[s], currentTerm[s], commitIndex[s], Held(s, matchIndex'[s]))
         IN /\ s \in Server /\ r.to \in Server /\ r.stage = "checked" /\ r.success
            /\ state[s] = "Leader" /\ m \in Nat /\ c \in Nat /\ c >= commitIndex[s]
            /\ c = commitIndex[s] \/ c <= Len(log[s])
            /\ m \in {matchIndex[s][r.to], LastNew(r)}
            /\ matchIndex' = [matchIndex EXCEPT ![s][r.to] = m]
            /\ nextIndex' = [nextIndex EXCEPT ![s][r.to] = m + 1]
            /\ commitIndex' = [commitIndex EXCEPT ![s] = c]
            /\ applied' = [applied EXCEPT ![s] = PushedUpTo(c, applied[s], log[s])]
            /\ appendRpcs' = appendRpcs \ {r}
            /\ UNCHANGED <<electionVars, log, persisted, voteRpcs, restarts, historyVars>>
<1> DEFINE s == r.from
           m == Max({matchIndex[s][r.to], LastNew(r)})
           c == CommitRule(log[s], currentTerm[s], commitIndex[s], Held(s, matchIndex'[s]))
<1>1. /\ s \in Server /\ r.to \in Server /\ LastNew(r) \in Nat /\ matchIndex[s][r.to] \in Nat
      /\ currentTerm[s] \in Nat /\ commitIndex[s] \in Nat /\ log[s] \in Seq(Entry)
  <2>1. s \in Server /\ r.to \in Server /\ LastNew(r) \in Nat
    BY CallType
  <2> HIDE DEF s
  <2>2. matchIndex[s] \in [Server -> Nat]
    BY <2>1 DEF TypeOK
  <2> QED  BY <2>1, <2>2 DEF TypeOK
<1>2. m \in Nat /\ m \in {matchIndex[s][r.to], LastNew(r)}
  BY <1>1, MaxOfTwo
<1>3. matchIndex' = [matchIndex EXCEPT ![s][r.to] = m]
  BY DEF CountSuccess, LastNew
<1>4. matchIndex'[s][r.to] = m
  <2> HIDE DEF m, s
  <2> QED  BY <1>1, <1>2, <1>3 DEF TypeOK
<1>5. nextIndex' = [nextIndex EXCEPT ![s][r.to] = m + 1]
  <2> HIDE DEF m
  <2> QED  BY <1>4 DEF CountSuccess
<1>6. c \in Nat /\ c >= commitIndex[s] /\ (c = commitIndex[s] \/ c <= Len(log[s]))
  <2> DEFINE h == Held(s, matchIndex'[s])
  <2>1. h \in SUBSET DOMAIN log[s]
    BY DEF Held
  <2> HIDE DEF h
  <2>2. c = CommitRule(log[s], currentTerm[s], commitIndex[s], h)
    BY DEF h
  <2> HIDE DEF c, s
  <2>3. c = commitIndex[s] \/ c \in h
    BY <1>1, <2>1, <2>2, CommitRuleIs
  <2>4. c \in Nat /\ c >= commitIndex[s]
    BY <1>1, <2>1, <2>2, CommitRuleType
  <2> QED  BY <1>1, <2>1, <2>3, <2>4
<1>7. commitIndex' = [commitIndex EXCEPT ![s] = c]
  BY DEF CountSuccess
<1>8. applied' = [applied EXCEPT ![s] = PushedUpTo(c, applied[s], log[s])]
  <2>1. commitIndex'[s] = c
    <3> HIDE DEF c, s
    <3> QED  BY <1>1, <1>7 DEF TypeOK
  <2>2. applied' = [applied EXCEPT ![s] = PushedUpTo(commitIndex'[s], applied[s], log[s])]
    BY <1>1 DEF CountSuccess, TypeOK
  <2> QED  BY <2>1, <2>2
<1>9. /\ r.stage = "checked" /\ r.success /\ state[s] = "Leader"
      /\ appendRpcs' = appendRpcs \ {r}
      /\ UNCHANGED <<electionVars, log, persisted, voteRpcs, restarts, historyVars>>
  BY DEF CountSuccess
<1> HIDE DEF c, m
<1> QED  BY <1>1, <1>2, <1>3, <1>5, <1>6, <1>7, <1>8, <1>9 DEF c, m

\* The steps of Raft take no entry away that a snapshot stands for.
LEMMA RaftKeepsBase ==
  ASSUME SnapInv, RaftSteps
  PROVE  \A s \in Server : base[s] <= Len(log'[s]) /\ base[s] <= Len(applied'[s])
<1>0. /\ TypeOK /\ SnapTypeOK
      /\ \A s \in Server : /\ base[s] \in Nat
                           /\ base[s] <= Len(log[s]) /\ base[s] <= Len(applied[s])
                           /\ log[s] \in Seq(Entry) /\ applied[s] \in Seq(Entry \cup {Wild})
  BY DEF SnapInv, SnapTypeOK, TypeOK, SnapshotFits
<1>1. CASE UNCHANGED <<log, applied>>
  BY <1>0, <1>1
<1>2. ASSUME NEW s \in Server, NEW c \in Command, Start(s, c)
      PROVE  \A q \in Server : base[q] <= Len(log'[q]) /\ base[q] <= Len(applied'[q])
  <2>1. /\ log' = [log EXCEPT ![s] = Append(@, [term |-> currentTerm[s], command |-> c])]
        /\ applied' = applied
    BY <1>2 DEF Start
  <2>2. [term |-> currentTerm[s], command |-> c] \in Entry
    BY <1>0 DEF TypeOK, Entry
  <2>3. Len(log'[s]) = Len(log[s]) + 1
    BY <1>0, <2>1, <2>2, AgreeAppend DEF TypeOK
  <2>4. \A q \in Server \ {s} : log'[q] = log[q]
    BY <1>0, <2>1 DEF TypeOK
  <2> QED  BY <1>0, <2>1, <2>3, <2>4
<1>3. ASSUME NEW r \in appendRpcs, StoreEntries(r)
      PROVE  \A q \in Server : base[q] <= Len(log'[q]) /\ base[q] <= Len(applied'[q])
  <2> DEFINE s == r.to
             l == Stored(log[s], r.prevLogIndex, r.entries)
  <2>1. s \in Server /\ r.prevLogIndex \in Nat /\ r.entries \in Seq(Entry)
    BY <1>0, CallType
  <2>2. r.stage = "store" /\ log' = [log EXCEPT ![s] = l] /\ applied' = applied
    BY <1>3 DEF StoreEntries
  <2>3. base[s] <= r.prevLogIndex
    BY <2>2 DEF SnapInv, StoresAfterSnapshot
  <2>4. l \in Seq(Entry) /\ base[s] <= Len(l)
    BY <1>0, <2>1, <2>3, StoredType, StoredLength
  <2>5. log'[s] = l /\ \A q \in Server \ {s} : log'[q] = log[q]
    <3> HIDE DEF l, s
    <3> QED  BY <1>0, <2>1, <2>2 DEF TypeOK
  <2> QED  BY <1>0, <2>2, <2>4, <2>5
<1>4. ASSUME NEW r \in appendRpcs, FollowCommit(r) \/ CountSuccess(r)
      PROVE  \A q \in Server : base[q] <= Len(log'[q]) /\ base[q] <= Len(applied'[q])
  <2>1. PICK s \in Server : \E c \in Nat :
           applied' = [applied EXCEPT ![s] = PushedUpTo(c, applied[s], log[s])] /\ log' = log
    BY <1>0, <1>4, FollowDoes, CountDoes
  <2>2. PICK c \in Nat :
           applied' = [applied EXCEPT ![s] = PushedUpTo(c, applied[s], log[s])] /\ log' = log
    BY <2>1
  <2>3. Len(applied[s]) <= Len(PushedUpTo(c, applied[s], log[s]))
        /\ PushedUpTo(c, applied[s], log[s]) \in Seq(Entry \cup {Wild})
    BY <1>0, PushedUpToLength, PushedUpToType
  <2> DEFINE done == PushedUpTo(c, applied[s], log[s])
  <2>4. base[s] <= Len(done) /\ log' = log /\ applied' = [applied EXCEPT ![s] = done]
    <3>1. /\ base[s] \in Nat /\ Len(applied[s]) \in Nat /\ Len(done) \in Nat
          /\ base[s] <= Len(applied[s]) /\ Len(applied[s]) <= Len(done)
      BY <1>0, <2>3
    <3> HIDE DEF done
    <3> QED  BY <2>2, <3>1 DEF done
  <2> HIDE DEF done
  <2> QED  BY <1>0, <2>4 DEF TypeOK
<1>5. ASSUME NEW s \in Server, Elections(s) \/ \E p \in Peers(s) : SendAppendEntries(s, p)
      PROVE  UNCHANGED <<log, applied>>
  BY <1>5 DEF Elections, FollowerTimeout, CandidateTimeout, StartElection, BecomeLeader,
              AskForVote, SendAppendEntries, logVars
<1>6. ASSUME NEW r \in voteRpcs, VoteCall(r) PROVE UNCHANGED <<log, applied>>
  BY <1>6 DEF VoteCall, RefuseStaleVote, HandleRequestVote, CountVote, RefusedByNewerTerm,
              DropVote, logVars
<1>7. ASSUME NEW r \in appendRpcs,
             \/ RefuseStaleAppend(r) \/ AcceptAppend(r) \/ PassMatch(r)
             \/ DeposedByReply(r) \/ CheckReply(r) \/ DropAppend(r)
      PROVE  UNCHANGED <<log, applied>>
  BY <1>7 DEF RefuseStaleAppend, AcceptAppend, PassMatch, DeposedByReply, CheckReply,
              DropAppend, logVars
<1>8. CASE UNCHANGED vars
  BY <1>1, <1>8 DEF vars, logVars
<1> QED  BY <1>1, <1>2, <1>3, <1>4, <1>5, <1>6, <1>7, <1>8 DEF RaftSteps

-----------------------------------------------------------------------------
(* Calls of appendEntries.                                                 *)

\* x is what the call r, which waits or is late now, has become.
Waits(x, r) ==
  /\ SameCall(x, r) /\ (x.live => r.live) /\ x.stage = r.stage /\ x.success = r.success
  /\ x.conflictIndex = r.conflictIndex /\ x.replyTerm = r.replyTerm

\* The call r takes a step and is x then.
Goes(x, r) ==
  /\ SameCall(x, r) /\ (x.live => r.live)
  /\ x.replyTerm \in {r.replyTerm, currentTerm[r.to]}
  /\ \/ x.conflictIndex = r.conflictIndex
     \/ x.conflictIndex <= r.prevLogIndex
     \/ RefuseFrom(r) /\ r.prevLogIndex < base[r.to] /\ r.live
  /\ \/ AcceptAppend(r) /\ x.stage = "match"
     \/ PassMatch(r) /\ base[r.to] <= r.prevLogIndex /\ x.stage = "store"
     \/ StoreEntries(r) /\ x.stage = "commit"
     \/ FollowCommit(r) /\ x.stage = "replied" /\ x.success
     \/ (RefuseStaleAppend(r) \/ RefuseFrom(r)) /\ x.stage = "replied" /\ ~x.success
     \/ CheckReply(r) /\ x.stage = "checked" /\ x.success = r.success

CallsMove ==
  \A x \in appendRpcs' :
    \/ \E r \in appendRpcs : Waits(x, r)
    \/ \E r \in appendRpcs : Goes(x, r)
    \/ \E s \in Server : \E p \in Peers(s) :
         /\ SendAppendEntries(s, p) /\ ~NeedsSnapshot(nextIndex[s][p], s)
         /\ x = NewCall(s, p)

LEMMA FewerCallsMove == ASSUME appendRpcs' \subseteq appendRpcs PROVE CallsMove
BY DEF CallsMove, Waits, SameCall

\* One call takes a step, the others wait.
LEMMA OneCallMoves ==
  ASSUME NEW r \in appendRpcs, NEW n, Goes(n, r) \/ Waits(n, r),
         appendRpcs' \subseteq (appendRpcs \ {r}) \cup {n}
  PROVE  CallsMove
<1> SUFFICES ASSUME NEW x \in appendRpcs'
             PROVE  \/ \E q \in appendRpcs : Waits(x, q)
                    \/ \E q \in appendRpcs : Goes(x, q)
  BY DEF CallsMove
<1>1. CASE x = n
  BY <1>1
<1>2. CASE x # n
  BY <1>2 DEF Waits, SameCall
<1> QED  BY <1>1, <1>2

\* What a handler's section makes of its call.
LEMMA CallGoes ==
  ASSUME SnapTypeOK, NEW r \in appendRpcs,
         \/ RefuseStaleAppend(r) \/ AcceptAppend(r) \/ StoreEntries(r) \/ FollowCommit(r)
         \/ CheckReply(r) \/ RefuseFrom(r)
         \/ (PassMatch(r) /\ base[r.to] <= r.prevLogIndex)
  PROVE  CallsMove
<1>0. /\ r \in AppendRpc /\ r.prevLogIndex \in Nat /\ log[r.to] \in Seq(Entry)
      /\ base[r.to] \in Nat
  <2>1. r \in AppendRpc
    BY DEF SnapTypeOK, TypeOK
  <2> QED  BY <2>1 DEF SnapTypeOK, TypeOK, AppendRpc
<1> SUFFICES \E n : Goes(n, r) /\ appendRpcs' \subseteq (appendRpcs \ {r}) \cup {n}
  BY OneCallMoves
<1>1. CASE RefuseStaleAppend(r)
  <2> DEFINE n == [r EXCEPT !.stage = "replied", !.replyTerm = currentTerm[r.to],
                            !.success = FALSE, !.conflictIndex = 0]
  <2>1. appendRpcs' \subseteq (appendRpcs \ {r}) \cup {n}
    BY <1>1 DEF RefuseStaleAppend, Answer
  <2>2. /\ SameCall(n, r) /\ n.stage = "replied" /\ n.success = FALSE /\ n.conflictIndex = 0
        /\ n.live = r.live /\ n.replyTerm = currentTerm[r.to]
    BY <1>0 DEF AppendRpc, SameCall
  <2> HIDE DEF n
  <2>3. n.conflictIndex <= r.prevLogIndex
    BY <1>0, <2>2
  <2> QED  BY <1>1, <2>1, <2>2, <2>3 DEF Goes
<1>2. CASE AcceptAppend(r)
  <2> DEFINE n == [r EXCEPT !.stage = "match", !.replyTerm = currentTerm[r.to]]
  <2>1. appendRpcs' = (appendRpcs \ {r}) \cup {n}
    BY <1>2 DEF AcceptAppend, Advance
  <2>2. /\ SameCall(n, r) /\ n.stage = "match" /\ n.conflictIndex = r.conflictIndex
        /\ n.live = r.live /\ n.replyTerm = currentTerm[r.to]
    BY <1>0 DEF AppendRpc, SameCall
  <2> HIDE DEF n
  <2> QED  BY <1>2, <2>1, <2>2 DEF Goes
<1>3. CASE StoreEntries(r)
  <2> DEFINE n == [r EXCEPT !.stage = "commit"]
  <2>1. appendRpcs' = (appendRpcs \ {r}) \cup {n}
    BY <1>3 DEF StoreEntries, Advance
  <2>2. /\ SameCall(n, r) /\ n.stage = "commit" /\ n.conflictIndex = r.conflictIndex
        /\ n.live = r.live /\ n.replyTerm = r.replyTerm
    BY <1>0 DEF AppendRpc, SameCall
  <2> HIDE DEF n
  <2> QED  BY <1>3, <2>1, <2>2 DEF Goes
<1>4. CASE FollowCommit(r)
  <2> DEFINE n == [r EXCEPT !.stage = "replied", !.replyTerm = r.replyTerm,
                            !.success = TRUE, !.conflictIndex = 0]
  <2>1. appendRpcs' \subseteq (appendRpcs \ {r}) \cup {n}
    BY <1>4 DEF FollowCommit, Answer
  <2>2. /\ SameCall(n, r) /\ n.stage = "replied" /\ n.success = TRUE /\ n.conflictIndex = 0
        /\ n.live = r.live /\ n.replyTerm = r.replyTerm
    BY <1>0 DEF AppendRpc, SameCall
  <2> HIDE DEF n
  <2>3. n.conflictIndex <= r.prevLogIndex
    BY <1>0, <2>2
  <2> QED  BY <1>4, <2>1, <2>2, <2>3 DEF Goes
<1>5. CASE CheckReply(r)
  <2> DEFINE n == [r EXCEPT !.stage = "checked"]
  <2>1. appendRpcs' = (appendRpcs \ {r}) \cup {n}
    BY <1>5 DEF CheckReply, Advance
  <2>2. /\ SameCall(n, r) /\ n.stage = "checked" /\ n.conflictIndex = r.conflictIndex
        /\ n.live = r.live /\ n.replyTerm = r.replyTerm /\ n.success = r.success
    BY <1>0 DEF AppendRpc, SameCall
  <2> HIDE DEF n
  <2> QED  BY <1>5, <2>1, <2>2 DEF Goes
<1>6. CASE PassMatch(r) /\ base[r.to] <= r.prevLogIndex
  <2> DEFINE n == [r EXCEPT !.stage = "store"]
  <2>1. appendRpcs' = (appendRpcs \ {r}) \cup {n}
    BY <1>6 DEF PassMatch, Advance
  <2>2. /\ SameCall(n, r) /\ n.stage = "store" /\ n.conflictIndex = r.conflictIndex
        /\ n.live = r.live /\ n.replyTerm = r.replyTerm
    BY <1>0 DEF AppendRpc, SameCall
  <2> HIDE DEF n
  <2> QED  BY <1>6, <2>1, <2>2 DEF Goes
<1>7. CASE RefuseFrom(r)
  <2>1. ASSUME NEW k, Answer(r, r.replyTerm, FALSE, k),
               k <= r.prevLogIndex \/ r.prevLogIndex < base[r.to]
        PROVE  \E n : Goes(n, r) /\ appendRpcs' \subseteq (appendRpcs \ {r}) \cup {n}
    <3> DEFINE n == [r EXCEPT !.stage = "replied", !.replyTerm = r.replyTerm,
                              !.success = FALSE, !.conflictIndex = k]
    <3>1. /\ appendRpcs' \subseteq (appendRpcs \ {r}) \cup {n}
          /\ ~n.live => appendRpcs' \subseteq appendRpcs
      BY <2>1 DEF Answer
    <3>2. /\ SameCall(n, r) /\ n.stage = "replied" /\ n.success = FALSE /\ n.conflictIndex = k
          /\ n.live = r.live /\ n.replyTerm = r.replyTerm
      BY <1>0 DEF AppendRpc, SameCall
    <3> HIDE DEF n
    <3>3. CASE r.live \/ k <= r.prevLogIndex
      BY <1>7, <2>1, <3>1, <3>2, <3>3 DEF Goes
    <3>4. CASE ~r.live /\ ~(k <= r.prevLogIndex)
      <4> DEFINE z == [r EXCEPT !.stage = "replied", !.replyTerm = r.replyTerm,
                                !.success = FALSE, !.conflictIndex = 0]
      <4>1. appendRpcs' \subseteq (appendRpcs \ {r}) \cup {z}
        BY <2>1, <3>4, <1>0 DEF Answer, AppendRpc
      <4>2. /\ SameCall(z, r) /\ z.stage = "replied" /\ z.success = FALSE
            /\ z.conflictIndex = 0 /\ z.live = r.live /\ z.replyTerm = r.replyTerm
        BY <1>0 DEF AppendRpc, SameCall
      <4> HIDE DEF z
      <4>3. z.conflictIndex <= r.prevLogIndex
        BY <1>0, <4>2
      <4> QED  BY <1>7, <4>1, <4>2, <4>3 DEF Goes
    <3> QED  BY <3>3, <3>4
  <2>2. CASE /\ r.prevLogIndex >= base[r.to]
             /\ ~Matches(log[r.to], r.prevLogIndex, r.prevLogTerm)
             /\ Answer(r, r.replyTerm, FALSE,
                       Max({base[r.to], ConflictIndex(log[r.to], r.prevLogIndex)}))
    <3> DEFINE c == ConflictIndex(log[r.to], r.prevLogIndex)
    <3>1. r.prevLogIndex # 0
      BY <2>2 DEF Matches
    <3>2. c \in Nat /\ c <= r.prevLogIndex
      BY <1>0, <3>1, ConflictIndexType, ConflictIndexBelow
    <3>3. Max({base[r.to], c}) <= r.prevLogIndex
      <4> HIDE DEF c
      <4>1. Max({base[r.to], c}) \in {base[r.to], c}
        BY <1>0, <3>2, MaxOfTwo
      <4>2. base[r.to] <= r.prevLogIndex
        BY <1>0, <2>2
      <4> QED  BY <3>2, <4>1, <4>2
    <3> QED  BY <2>1, <2>2, <3>3
  <2>3. CASE /\ r.prevLogIndex < base[r.to]
             /\ \E unset \in Unset : Answer(r, r.replyTerm, FALSE, unset)
    BY <2>1, <2>3
  <2> QED  BY <1>7, <2>2, <2>3 DEF RefuseFrom
<1> QED  BY <1>1, <1>2, <1>3, <1>4, <1>5, <1>6, <1>7

\* Calls that become late, or of which some are lost.
LEMMA LateCallsMove ==
  ASSUME SnapTypeOK,
         \A x \in appendRpcs' : \E r \in appendRpcs : x = r \/ x = [r EXCEPT !.live = FALSE]
  PROVE  CallsMove
<1> SUFFICES ASSUME NEW x \in appendRpcs' PROVE \E r \in appendRpcs : Waits(x, r)
  BY DEF CallsMove
<1>1. PICK r \in appendRpcs : x = r \/ x = [r EXCEPT !.live = FALSE]
  OBVIOUS
<1>2. r \in AppendRpc
  BY DEF SnapTypeOK, TypeOK
<1>3. Waits(x, r)
  BY <1>1, <1>2 DEF Waits, SameCall, AppendRpc
<1> QED  BY <1>3

LEMMA CallsMoveStep == ASSUME SnapTypeOK, SnapshotFits, LogPersisted, [SnapNext]_snapshotVars PROVE CallsMove
<1>1. CASE RaftSteps
  <2>1. ASSUME NEW s \in Server, Elections(s) \/ \E c \in Command : Start(s, c)
        PROVE  appendRpcs' = appendRpcs
    BY <2>1 DEF Elections, FollowerTimeout, CandidateTimeout, StartElection, BecomeLeader,
                AskForVote, Start
  <2>2. ASSUME NEW r \in voteRpcs, VoteCall(r) PROVE appendRpcs' = appendRpcs
    BY <2>2 DEF VoteCall, RefuseStaleVote, HandleRequestVote, CountVote, RefusedByNewerTerm,
                DropVote
  <2>3. ASSUME NEW s \in Server, NEW p \in Peers(s), SendAppendEntries(s, p),
               ~NeedsSnapshot(nextIndex[s][p], s)
        PROVE  CallsMove
    <3>1. appendRpcs' = appendRpcs \cup {NewCall(s, p)}
      BY <2>3 DEF SendAppendEntries, NewCall
    <3> QED  BY <2>3, <3>1 DEF CallsMove, Waits, SameCall
  <2>4. ASSUME NEW r \in appendRpcs,
               DeposedByReply(r) \/ CountSuccess(r) \/ DropAppend(r)
        PROVE  appendRpcs' \subseteq appendRpcs
    BY <2>4 DEF DeposedByReply, CountSuccess, DropAppend
  <2>5. CASE UNCHANGED vars
    BY <2>5, FewerCallsMove DEF vars
  <2> QED  BY <1>1, <2>1, <2>2, <2>3, <2>4, <2>5, FewerCallsMove, CallGoes DEF RaftSteps
<1>2. ASSUME NEW r \in appendRpcs, BackUpFrom(r) PROVE CallsMove
  BY <1>2, FewerCallsMove DEF BackUpFrom
<1>3. ASSUME NEW r \in Calls, Expire(r) PROVE CallsMove
  <2>1. \A x \in appendRpcs' : \E q \in appendRpcs : x = q \/ x = [q EXCEPT !.live = FALSE]
    BY <1>3 DEF Expire, Advance
  <2> QED  BY <2>1, LateCallsMove
<1>4. ASSUME NEW r \in installRpcs, InstallSnapshot(r) \/ HearInstalled(r) PROVE CallsMove
  BY <1>4, FewerCallsMove DEF InstallSnapshot, HearInstalled
<1>5. ASSUME NEW s \in Server, NEW i \in DOMAIN log[s], Snapshot(s, i) PROVE CallsMove
  BY <1>5, FewerCallsMove DEF Snapshot
<1>6. ASSUME NEW s \in Server, RestartFrom(s) PROVE CallsMove
  <2>1. appendRpcs' = Orphaned(appendRpcs, s)
    BY <1>6 DEF RestartFrom, Reboot
  <2>2. \A x \in appendRpcs' : \E q \in appendRpcs : x = q \/ x = [q EXCEPT !.live = FALSE]
    BY <2>1 DEF Orphaned
  <2> QED  BY <2>2, LateCallsMove
<1> QED  BY <1>1, <1>2, <1>3, <1>4, <1>5, <1>6, StepKinds, CallGoes

\* Snapshots are taken and installed when no call is between two sections.
LEMMA StoresAfterSnapshotStep ==
  ASSUME SnapInv, SnapTypeOK', [SnapNext]_snapshotVars
  PROVE  StoresAfterSnapshot'
<1>0. SnapTypeOK /\ TypeOK /\ StoresAfterSnapshot /\ LogPersisted /\ SnapshotFits
  BY DEF SnapInv, SnapTypeOK
<1>1. ASSUME NEW x \in appendRpcs', x.stage = "store", base' = base
      PROVE  base'[x.to] <= x.prevLogIndex
  <2>1. CASE \E r \in appendRpcs : Waits(x, r)
    BY <1>0, <1>1, <2>1 DEF Waits, SameCall, StoresAfterSnapshot
  <2>2. CASE \E r \in appendRpcs : Goes(x, r)
    BY <1>0, <1>1, <2>2 DEF Goes, SameCall
  <2>3. CASE \E s \in Server : \E p \in Peers(s) : x = NewCall(s, p)
    BY <1>1, <2>3 DEF NewCall
  <2> QED  BY <1>0, <2>1, <2>2, <2>3, CallsMoveStep DEF CallsMove
<1>2. CASE base' = base
  BY <1>1, <1>2 DEF StoresAfterSnapshot
<1>3. CASE CanLock /\ appendRpcs' = appendRpcs
  BY <1>3, CarefulAssumption DEF StoresAfterSnapshot, CanLock, Preempted
<1>4. ASSUME NEW s \in Server, RestartFrom(s) PROVE StoresAfterSnapshot'
  <2>1. appendRpcs' = Orphaned(appendRpcs, s) /\ \A p \in Server \ {s} : base'[p] = base[p]
    BY <1>0, <1>4 DEF RestartFrom, Reboot, SnapTypeOK
  <2>2. ASSUME NEW x \in appendRpcs', x.stage = "store"
        PROVE  base'[x.to] <= x.prevLogIndex
    <3>1. PICK r \in appendRpcs : /\ x = r \/ x = [r EXCEPT !.live = FALSE]
                                  /\ r.to = s => r.stage # "store"
      BY <2>1 DEF Orphaned
    <3>2. r \in AppendRpc
      BY <1>0 DEF TypeOK
    <3>3. /\ x.to = r.to /\ x.stage = r.stage /\ x.prevLogIndex = r.prevLogIndex
          /\ r.to \in Server
      BY <3>1, <3>2 DEF AppendRpc
    <3> QED  BY <1>0, <2>1, <2>2, <3>1, <3>3 DEF StoresAfterSnapshot
  <2> QED  BY <2>2 DEF StoresAfterSnapshot
<1>5. ASSUME NEW r \in appendRpcs, RefuseFrom(r) \/ BackUpFrom(r) PROVE base' = base
  BY <1>5 DEF RefuseFrom, BackUpFrom, snapVars
<1>6. ASSUME NEW r \in Calls, Expire(r) PROVE base' = base
  BY <1>6 DEF Expire
<1>7. ASSUME NEW r \in installRpcs, InstallSnapshot(r) \/ HearInstalled(r)
      PROVE  CanLock /\ appendRpcs' = appendRpcs
  BY <1>7 DEF InstallSnapshot, HearInstalled
<1>8. ASSUME NEW s \in Server, NEW i \in DOMAIN log[s], Snapshot(s, i)
      PROVE  CanLock /\ appendRpcs' = appendRpcs
  BY <1>8 DEF Snapshot
<1> QED  BY <1>0, <1>2, <1>3, <1>4, <1>5, <1>6, <1>7, <1>8, StepKinds

LEMMA SnapshotFitsStep ==
  ASSUME SnapInv, [SnapNext]_snapshotVars
  PROVE  SnapshotFits'
<1>0. /\ SnapTypeOK /\ TypeOK /\ SnapshotFits /\ LogPersisted
      /\ \A s \in Server : /\ base[s] \in Nat
                           /\ base[s] <= Len(log[s]) /\ base[s] <= Len(applied[s])
                           /\ log[s] \in Seq(Entry) /\ applied[s] \in Seq(Entry \cup {Wild})
  BY DEF SnapInv, SnapTypeOK, TypeOK, SnapshotFits
<1>1. CASE RaftSteps /\ base' = base
  BY <1>1, RaftKeepsBase DEF SnapshotFits
<1>2. CASE base' = base /\ UNCHANGED <<log, applied>>
  BY <1>2, <1>0 DEF SnapshotFits
<1>3. ASSUME NEW r \in appendRpcs, RefuseFrom(r) \/ BackUpFrom(r)
      PROVE  base' = base /\ UNCHANGED <<log, applied>>
  BY <1>3 DEF RefuseFrom, BackUpFrom, snapVars, logVars
<1>4. ASSUME NEW r \in Calls, Expire(r) PROVE base' = base /\ UNCHANGED <<log, applied>>
  BY <1>4 DEF Expire, logVars
<1>5. ASSUME NEW r \in installRpcs, HearInstalled(r)
      PROVE  base' = base /\ UNCHANGED <<log, applied>>
  BY <1>5 DEF HearInstalled, logVars
<1>6. ASSUME NEW r \in installRpcs, InstallSnapshot(r) PROVE SnapshotFits'
  <2> DEFINE s == r.to
  <2>1. /\ s \in Server
        /\ \/ UNCHANGED <<base, log, applied>>
           \/ /\ base' = [base EXCEPT ![s] = Len(r.data)]
              /\ log' = [log EXCEPT ![s] = r.data]
              /\ applied' = [applied EXCEPT ![s] = IF Len(applied[s]) < Len(r.data)
                                                   THEN r.data ELSE applied[s]]
    BY <1>0, <1>6, InstallDoes
  <2>2. r.data \in Seq(Entry) /\ Len(r.data) \in Nat
    BY <1>0, InstallType
  <2> HIDE DEF s
  <2>3. CASE /\ base' = [base EXCEPT ![s] = Len(r.data)]
             /\ log' = [log EXCEPT ![s] = r.data]
             /\ applied' = [applied EXCEPT ![s] = IF Len(applied[s]) < Len(r.data)
                                                  THEN r.data ELSE applied[s]]
    <3>1. \A q \in Server \ {s} : base'[q] = base[q] /\ log'[q] = log[q] /\ applied'[q] = applied[q]
      BY <1>0, <2>3 DEF SnapTypeOK, TypeOK
    <3>2. base'[s] = Len(r.data) /\ log'[s] = r.data
      BY <1>0, <2>1, <2>3 DEF SnapTypeOK, TypeOK
    <3>3. Len(r.data) <= Len(applied'[s])
      <4>1. applied'[s] = IF Len(applied[s]) < Len(r.data) THEN r.data ELSE applied[s]
        BY <1>0, <2>1, <2>3 DEF TypeOK
      <4>2. Len(applied[s]) \in Nat
        BY <1>0, <2>1
      <4> QED  BY <2>2, <4>1, <4>2
    <3> QED  BY <1>0, <2>2, <3>1, <3>2, <3>3 DEF SnapshotFits
  <2> QED  BY <1>2, <2>1, <2>3
<1>7. ASSUME NEW s \in Server, NEW i \in DOMAIN log[s], Snapshot(s, i) PROVE SnapshotFits'
  <2>1. /\ base' = [base EXCEPT ![s] = i] /\ UNCHANGED <<log, applied>>
        /\ i <= Len(log[s]) /\ i <= Len(applied[s])
    BY <1>7 DEF Snapshot, logVars
  <2> QED  BY <1>0, <2>1 DEF SnapshotFits, SnapTypeOK
<1>8. ASSUME NEW s \in Server, RestartFrom(s) PROVE SnapshotFits'
  <2>1. PICK done \in Seq(Entry) :
           /\ Reboot(s, done)
           /\ \/ PersisterSurvives /\ base' = base /\ done = SubSeq(log[s], 1, base[s])
              \/ ~PersisterSurvives /\ done = << >> /\ base' = [base EXCEPT ![s] = 0]
    BY <1>0, <1>8, RestartFromDoes
  <2>2. applied' = [applied EXCEPT ![s] = done]
    BY <2>1 DEF Reboot
  <2>3. \A q \in Server \ {s} : base'[q] = base[q] /\ log'[q] = log[q] /\ applied'[q] = applied[q]
    BY <1>0, <2>1 DEF Reboot, SnapTypeOK, TypeOK
  <2>4. CASE PersisterSurvives /\ base' = base /\ done = SubSeq(log[s], 1, base[s])
    <3>1. log'[s] = log[s]
      BY <1>0, <2>1, <2>4 DEF Reboot, LogPersisted, TypeOK
    <3>2. applied'[s] = done /\ Len(done) = base[s]
      BY <1>0, <2>2, <2>4, SubSeqAgrees DEF TypeOK
    <3> QED  BY <1>0, <2>3, <2>4, <3>1, <3>2 DEF SnapshotFits
  <2>5. CASE base' = [base EXCEPT ![s] = 0] /\ ~PersisterSurvives
    <3>1. base'[s] = 0
      BY <1>0, <2>5 DEF SnapTypeOK
    <3>2. log'[s] = << >> /\ applied'[s] = done
      BY <1>0, <2>1, <2>5 DEF Reboot, TypeOK
    <3>3. Len(log'[s]) \in Nat /\ Len(applied'[s]) \in Nat
      BY <2>1, <3>2
    <3> QED  BY <1>0, <2>3, <3>1, <3>3 DEF SnapshotFits
  <2> QED  BY <2>1, <2>4, <2>5
<1> QED  BY <1>0, <1>1, <1>2, <1>3, <1>4, <1>5, <1>6, <1>7, <1>8, StepKinds

-----------------------------------------------------------------------------
(* Every behaviour.                                                        *)

LEMMA InitSnapInv == SnapInit => SnapInv
<1> SUFFICES ASSUME SnapInit PROVE SnapInv
  OBVIOUS
<1>1. TypeOK /\ LeaderHasNextIndexes
  BY InitTypeInv DEF SnapInit, TypeInv
<1>2. LogPersisted
  BY DEF SnapInit, Init, LogPersisted
<1>3. base = [s \in Server |-> 0] /\ installRpcs = {} /\ appendRpcs = {}
  BY DEF SnapInit, Init
<1>4. SnapTypeOK /\ StoresAfterSnapshot
  BY <1>1, <1>3 DEF SnapTypeOK, StoresAfterSnapshot
<1>5. SnapshotFits
  <2>1. \A s \in Server : base[s] = 0 /\ log[s] \in Seq(Entry) /\ applied[s] \in Seq(Entry \cup {Wild})
    BY <1>1, <1>3 DEF TypeOK
  <2>2. \A s \in Server : Len(log[s]) \in Nat /\ Len(applied[s]) \in Nat
    BY <2>1
  <2> QED  BY <2>1, <2>2 DEF SnapshotFits
<1> QED  BY <1>1, <1>2, <1>4, <1>5 DEF SnapInv

LEMMA StepSnapInv == SnapInv /\ [SnapNext]_snapshotVars => SnapInv'
<1> SUFFICES ASSUME SnapInv, [SnapNext]_snapshotVars PROVE SnapInv'
  OBVIOUS
<1>1. SnapTypeOK /\ LogPersisted /\ LeaderHasNextIndexes /\ SnapshotFits
  BY DEF SnapInv
<1>2. SnapTypeOK' /\ LogPersisted' /\ LeaderHasNextIndexes'
  BY <1>1, SnapTypesStep
<1> QED  BY <1>2, StoresAfterSnapshotStep, SnapshotFitsStep DEF SnapInv

\* The types, with everything snapshots add to raft.cpp, for every cluster, any
\* caller of snapshot() and any network.
THEOREM SnapTypes == SnapSpec => []SnapTypeOK
<1>1. SnapInv => SnapTypeOK
  BY DEF SnapInv
<1> QED  BY <1>1, InitSnapInv, StepSnapInv, PTL DEF SnapSpec

\* m_lastIncludedIndex never exceeds m_lastApplied: the difference of the two, with
\* which the apply loops index m_logs, does not wrap around, whoever calls snapshot()
\* and whatever is lost or restarted in between.
THEOREM SnapshotsFit == SnapSpec => []SnapshotFits
<1>1. SnapInv => SnapshotFits
  BY DEF SnapInv
<1> QED  BY <1>1, InitSnapInv, StepSnapInv, PTL DEF SnapSpec

-----------------------------------------------------------------------------
(* Logs that are like that of the leader.                                  *)

\* What agrees with a log is made of its entries.
LEMMA AgreeType ==
  ASSUME NEW a \in Seq(Entry \cup {Wild}), NEW m \in Seq(Entry), Agree(a, m, Len(a))
  PROVE  a \in Seq(Entry)
<1>1. \A i \in 1..Len(a) : a[i] \in Entry
  BY DEF Agree
<1> QED  BY <1>1

\* A part of m is like m.
LEMMA PartIsLike ==
  ASSUME NEW l \in Seq(Entry), NEW m \in Seq(Entry), Agree(l, m, Len(l)), Like(m, m)
  PROVE  Like(l, m)
<1> SUFFICES ASSUME NEW i \in DOMAIN l PROVE l[i].term > 0 /\ Agree(l, m, i)
  BY DEF Like
<1>1. i \in DOMAIN m /\ l[i] = m[i]
  BY DEF Agree
<1>2. Agree(l, m, i)
  BY DEF Agree
<1> QED  BY <1>1, <1>2 DEF Like

\* An entry of the reign that is new in m is in no log that is like m.
LEMMA LikeGrows ==
  ASSUME NEW l \in Seq(Entry), NEW m \in Seq(Entry), NEW e \in Entry, e.term = MaxTerm,
         Like(l, m)
  PROVE  Like(l, Append(m, e))
<1> DEFINE q == Append(m, e)
<1>1. q \in Seq(Entry) /\ Len(q) = Len(m) + 1 /\ Agree(m, q, Len(m)) /\ q[Len(m) + 1] = e
  BY AgreeAppend
<1> HIDE DEF q
<1> SUFFICES ASSUME NEW i \in DOMAIN l
             PROVE  /\ l[i].term > 0
                    /\ i \in DOMAIN q /\ l[i].term = q[i].term => Agree(l, q, i)
                    /\ l[i].term = MaxTerm => Agree(l, q, i)
  BY DEF Like, q
<1>2. Agree(l, m, i) => Agree(l, q, i) /\ i <= Len(m)
  <2>1. i \in Nat /\ Len(m) \in Nat
    OBVIOUS
  <2>2. Agree(l, m, i) => i <= Len(m)
    BY DEF Agree
  <2> QED  BY <1>1, <2>1, <2>2, AgreeVia
<1>3. l[i].term = MaxTerm => Agree(l, q, i) /\ i <= Len(m)
  BY <1>2 DEF Like
<1>4. ASSUME i \in DOMAIN q, l[i].term = q[i].term PROVE Agree(l, q, i)
  <2>1. CASE i = Len(m) + 1
    BY <1>1, <1>3, <1>4, <2>1
  <2>2. CASE i # Len(m) + 1
    <3>1. i \in DOMAIN m
      BY <1>1, <1>4, <2>2
    <3>2. q[i] = m[i]
      BY <1>1, <3>1 DEF Agree
    <3> QED  BY <1>2, <1>4, <3>1, <3>2 DEF Like
  <2> QED  BY <2>1, <2>2
<1> QED  BY <1>3, <1>4 DEF Like

LEMMA LikeSelfGrows ==
  ASSUME NEW m \in Seq(Entry), NEW e \in Entry, e.term = MaxTerm, MaxTerm > 0, Like(m, m)
  PROVE  Like(Append(m, e), Append(m, e))
<1> DEFINE q == Append(m, e)
<1>1. q \in Seq(Entry) /\ Len(q) = Len(m) + 1 /\ Agree(m, q, Len(m)) /\ q[Len(m) + 1] = e
  BY AgreeAppend
<1> HIDE DEF q
<1> SUFFICES ASSUME NEW i \in DOMAIN q PROVE q[i].term > 0 /\ Agree(q, q, i)
  BY DEF Like, q
<1>2. Agree(q, q, i)
  BY <1>1, AgreeSelf
<1>3. q[i].term > 0
  <2>1. CASE i = Len(m) + 1
    BY <1>1, <2>1
  <2>2. CASE i # Len(m) + 1
    <3>1. i \in DOMAIN m
      BY <1>1, <2>2
    <3>2. q[i] = m[i]
      BY <1>1, <3>1 DEF Agree
    <3> QED  BY <3>1, <3>2 DEF Like
  <2> QED  BY <2>1, <2>2
<1> QED  BY <1>2, <1>3

\* A follower that stores what m has after an entry both have keeps what it has of m,
\* and then has m as far as the call goes.
LEMMA StoredIsLike ==
  ASSUME NEW l \in Seq(Entry), NEW m \in Seq(Entry), NEW es \in Seq(Entry), NEW prev \in Nat,
         prev + Len(es) <= Len(m), \A k \in DOMAIN es : es[k] = m[prev + k],
         Agree(l, m, prev), Like(l, m), Like(m, m)
  PROVE  LET q == Stored(l, prev, es)
         IN /\ q \in Seq(Entry) /\ Like(q, m) /\ Agree(q, m, prev + Len(es))
            /\ \A n \in Nat : Agree(l, m, n) => Agree(q, m, n)
            /\ q = l \/ Agree(q, m, Len(q))
<1> DEFINE n == prev + Len(es)
           part == SubSeq(m, 1, n)
           q == Stored(l, prev, es)
<1>1. n \in Nat /\ Len(es) \in Nat
  OBVIOUS
<1>2. part \in Seq(Entry) /\ Len(part) = n /\ Agree(part, m, n)
  <2> HIDE DEF n
  <2> QED  BY <1>1, SubSeqAgrees DEF n
<1> HIDE DEF part
<1>3. \A k \in DOMAIN es : es[k] = part[prev + k]
  BY <1>2 DEF Agree
<1>4. Agree(l, part, prev)
  <2>1. Agree(m, part, n)
    BY <1>1, <1>2, AgreeBack
  <2> QED  BY <1>1, <1>2, <2>1, AgreeVia
<1>5. ASSUME NEW i \in DOMAIN l, i <= Len(part), l[i].term = part[i].term
      PROVE  Agree(l, part, i)
  <2>1. i \in DOMAIN m /\ part[i] = m[i]
    BY <1>2, <1>5 DEF Agree
  <2>2. Agree(l, m, i)
    BY <1>5, <2>1 DEF Like
  <2>3. Agree(m, part, n)
    BY <1>1, <1>2, AgreeBack
  <2> QED  BY <1>1, <1>2, <1>5, <2>2, <2>3, AgreeVia
<1>6. q = IF Agree(l, part, n) THEN l ELSE part
  BY <1>2, <1>3, <1>4, <1>5, StoredIs
<1> HIDE DEF q
<1>7. CASE Agree(l, part, n)
  <2>1. q = l /\ Agree(l, m, n)
    BY <1>1, <1>2, <1>6, <1>7, AgreeVia
  <2> QED  BY <2>1 DEF q
<1>8. CASE ~Agree(l, part, n)
  <2>1. q = part
    BY <1>6, <1>8
  <2>2. Like(part, m)
    BY <1>2, PartIsLike
  <2>3. ASSUME NEW k \in Nat, Agree(l, m, k) PROVE Agree(part, m, k)
    <3>1. k < n
      <4> SUFFICES ASSUME n <= k PROVE FALSE
        BY <1>1
      <4>1. Agree(m, part, n)
        BY <1>1, <1>2, AgreeBack
      <4>2. Agree(l, part, n)
        BY <1>1, <1>2, <2>3, <4>1, AgreeVia
      <4> QED  BY <1>8, <4>2
    <3>2. k <= n
      BY <1>1, <3>1
    <3> QED  BY <1>1, <1>2, <3>2, AgreeLess
  <2> QED  BY <1>2, <2>1, <2>2, <2>3 DEF q
<1> QED  BY <1>7, <1>8

-----------------------------------------------------------------------------
(* The reign of one leader: what its steps can be.                         *)

\* The last term is a term, and a node that restarts finds its Persister.
Steady == MaxTerm > 0 /\ (PersisterSurvives \/ MaxRestarts = 0)

\* No election begins, and no step is a vote's.
LEMMA NoElections ==
  ASSUME SnapTypeOK, NEW lead, Rules(lead)
  PROVE  /\ \A s \in Server : ~Elections(s)
         /\ \A r \in voteRpcs : ~VoteCall(r)
<1>1. /\ \A s \in Server : /\ currentTerm[s] = MaxTerm /\ MaxTerm \in Nat
                           /\ state[s] # "Candidate" /\ toAsk[s] = {}
      /\ voteRpcs = {}
  BY BoundAssumption DEF Rules
<1>2. \A s \in Server : ~MayElect(s)
  BY <1>1 DEF MayElect
<1> QED
  BY <1>1, <1>2 DEF Elections, FollowerTimeout, CandidateTimeout, StartElection, BecomeLeader,
                    AskForVote

\* A restart leaves everything but what the node had in memory.
LEMMA SteadyRestart ==
  ASSUME Steady, SnapInv, NEW s \in Server, RestartFrom(s)
  PROVE  /\ PersisterSurvives /\ Reboot(s, SubSeq(log[s], 1, base[s]))
         /\ base' = base /\ log' = log /\ installRpcs' = Orphaned(installRpcs, s)
         /\ applied' = [applied EXCEPT ![s] = SubSeq(log[s], 1, base[s])]
         /\ commitIndex' = [commitIndex EXCEPT ![s] = 0]
         /\ persisted' = persisted
<1>0. SnapTypeOK /\ TypeOK /\ LogPersisted /\ SnapshotFits
  BY DEF SnapInv, SnapTypeOK
<1>1. PICK done \in Seq(Entry) :
        /\ Reboot(s, done)
        /\ \/ PersisterSurvives /\ base' = base /\ done = SubSeq(log[s], 1, base[s])
           \/ ~PersisterSurvives /\ done = << >> /\ base' = [base EXCEPT ![s] = 0]
        /\ installRpcs' = Orphaned(installRpcs, s)
  BY <1>0, RestartFromDoes
<1>2. PersisterSurvives
  <2>1. restarts < MaxRestarts
    BY <1>1 DEF Reboot
  <2>2. restarts \in Nat
    BY <1>0 DEF TypeOK
  <2> QED  BY <2>1, <2>2 DEF Steady
<1>3. /\ persisted' = [persisted EXCEPT ![s] = persisted[s]]
      /\ log' = [log EXCEPT ![s] = persisted[s].log]
      /\ applied' = [applied EXCEPT ![s] = done]
      /\ commitIndex' = [commitIndex EXCEPT ![s] = 0]
  BY <1>1, <1>2 DEF Reboot
<1>4. persisted' = persisted /\ log' = log
  BY <1>0, <1>3 DEF TypeOK, LogPersisted
<1> QED  BY <1>1, <1>2, <1>3, <1>4

\* What a step of the reign does to logs, state machines and snapshots.
LEMMA ReignKinds ==
  ASSUME SnapInv, NEW lead, Rules(lead), [SnapNext]_snapshotVars
  PROVE  \/ UNCHANGED <<log, commitIndex, applied, base>>
         \/ base' = base /\ \E c \in Command : Start(lead, c)
         \/ /\ base' = base
            /\ \E r \in appendRpcs : StoreEntries(r) \/ FollowCommit(r) \/ CountSuccess(r)
         \/ \E r \in installRpcs : InstallSnapshot(r)
         \/ \E s \in Server : \E i \in DOMAIN log[s] : Snapshot(s, i)
         \/ \E s \in Server : RestartFrom(s)
<1>0. SnapTypeOK
  BY DEF SnapInv
<1>1. CASE RaftSteps /\ base' = base
  <2>1. ASSUME NEW s \in Server, NEW c \in Command, Start(s, c) PROVE s = lead
    BY <2>1 DEF Start, Rules
  <2>2. ASSUME NEW s \in Server, NEW p \in Peers(s), SendAppendEntries(s, p)
        PROVE  UNCHANGED <<log, commitIndex, applied>>
    BY <2>2 DEF SendAppendEntries, logVars
  <2>3. ASSUME NEW r \in appendRpcs,
               \/ RefuseStaleAppend(r) \/ AcceptAppend(r) \/ PassMatch(r)
               \/ DeposedByReply(r) \/ CheckReply(r) \/ DropAppend(r)
        PROVE  UNCHANGED <<log, commitIndex, applied>>
    BY <2>3 DEF RefuseStaleAppend, AcceptAppend, PassMatch, DeposedByReply, CheckReply,
                DropAppend, logVars
  <2>4. CASE UNCHANGED vars
    BY <1>1, <2>4 DEF vars, logVars
  <2> QED  BY <1>0, <1>1, <2>1, <2>2, <2>3, <2>4, NoElections DEF RaftSteps
<1>2. ASSUME NEW r \in appendRpcs, RefuseFrom(r) \/ BackUpFrom(r)
      PROVE  UNCHANGED <<log, commitIndex, applied, base>>
  BY <1>2 DEF RefuseFrom, BackUpFrom, snapVars, logVars
<1>3. ASSUME NEW r \in Calls, Expire(r) PROVE UNCHANGED <<log, commitIndex, applied, base>>
  BY <1>3 DEF Expire, logVars
<1>4. ASSUME NEW r \in installRpcs, HearInstalled(r)
      PROVE  UNCHANGED <<log, commitIndex, applied, base>>
  BY <1>4 DEF HearInstalled, logVars
<1> QED  BY <1>0, <1>1, <1>2, <1>3, <1>4, StepKinds

\* What is persisted of the term stays.
LEMMA PersistTerm ==
  ASSUME TypeOK, NEW lead, Rules(lead), NEW s \in Server, Persist(s), currentTerm' = currentTerm
  PROVE  \A q \in Server : persisted'[q].term = MaxTerm
BY DEF TypeOK, Rules, Persist

LEMMA CallsOfReign ==
  ASSUME SnapTypeOK, NEW lead, Rules(lead), CallsOf(lead), NEW r \in Calls
  PROVE  /\ r.from = lead /\ r.to \in Server \ {lead} /\ lead \in Server /\ r.term = MaxTerm
         /\ r.replyTerm <= MaxTerm /\ r.replyTerm \in Nat /\ MaxTerm \in Nat
         /\ ~(r.term > currentTerm[r.to]) /\ ~(r.term < currentTerm[r.to])
         /\ ~(r.replyTerm > currentTerm[r.from])
         /\ state[r.to] # "Candidate"
<1>1. r.from \in Server /\ r.to \in Server /\ r.replyTerm \in Nat /\ MaxTerm \in Nat
  BY CallType, InstallType, BoundAssumption DEF SnapTypeOK, Calls
<1>2. r.from = lead /\ r.to # lead /\ r.term = MaxTerm /\ r.replyTerm <= MaxTerm
  BY DEF CallsOf
<1>3. currentTerm[r.to] = MaxTerm /\ currentTerm[r.from] = MaxTerm /\ state[r.to] # "Candidate"
  BY <1>1 DEF Rules
<1> QED  BY <1>1, <1>2, <1>3

\* Nobody's term or role changes, but for a restart.
LEMMA RulesHold ==
  ASSUME Steady, SnapInv, NEW lead, Rules(lead), CallsOf(lead), [SnapNext]_snapshotVars
  PROVE  \/ /\ UNCHANGED <<currentTerm, state, electing, toAsk, voteRpcs>>
            /\ \A s \in Server : persisted'[s].term = MaxTerm
         \/ \E s \in Server : RestartFrom(s)
<1> DEFINE Same == /\ UNCHANGED <<currentTerm, state, electing, toAsk, voteRpcs>>
                   /\ \A s \in Server : persisted'[s].term = MaxTerm
<1>0. /\ SnapTypeOK /\ TypeOK /\ \A s \in Server : persisted[s].term = MaxTerm
  BY DEF SnapInv, SnapTypeOK, Rules
<1>1. CASE UNCHANGED <<currentTerm, state, electing, toAsk, voteRpcs, persisted>>
  BY <1>0, <1>1
<1>2. ASSUME NEW s \in Server, Persist(s), UNCHANGED <<currentTerm, state, electing, toAsk, voteRpcs>>
      PROVE  Same
  BY <1>0, <1>2, PersistTerm
<1>3. CASE RaftSteps
  <2>1. ASSUME NEW s \in Server, NEW c \in Command, Start(s, c) PROVE Same
    BY <1>2, <2>1 DEF Start, electionVars
  <2>2. ASSUME NEW s \in Server, NEW p \in Peers(s), SendAppendEntries(s, p) PROVE Same
    BY <1>0, <2>2 DEF SendAppendEntries, electionVars
  <2>3. ASSUME NEW r \in appendRpcs, AcceptAppend(r) PROVE Same
    BY <1>0, <2>3, CallsOfReign DEF AcceptAppend, Calls
  <2>4. ASSUME NEW r \in appendRpcs, DeposedByReply(r) PROVE Same
    BY <1>0, <2>4, CallsOfReign DEF DeposedByReply, Calls
  <2>5. ASSUME NEW r \in appendRpcs, StoreEntries(r) PROVE Same
    <3>1. r.to \in Server
      BY <1>0, CallType
    <3> QED  BY <1>2, <2>5, <3>1 DEF StoreEntries, electionVars
  <2>6. ASSUME NEW r \in appendRpcs,
               \/ RefuseStaleAppend(r) \/ PassMatch(r) \/ FollowCommit(r) \/ CheckReply(r)
               \/ CountSuccess(r) \/ DropAppend(r)
        PROVE  Same
    BY <1>0, <2>6 DEF RefuseStaleAppend, PassMatch, FollowCommit, CheckReply, CountSuccess,
                      DropAppend, electionVars
  <2>7. CASE UNCHANGED vars
    BY <1>0, <2>7 DEF vars, electionVars
  <2> HIDE DEF Same
  <2> QED  BY <1>0, <1>3, <2>1, <2>2, <2>3, <2>4, <2>5, <2>6, <2>7, NoElections DEF RaftSteps, Same
<1>4. ASSUME NEW r \in appendRpcs, RefuseFrom(r) \/ BackUpFrom(r) PROVE Same
  BY <1>0, <1>4 DEF RefuseFrom, BackUpFrom, electionVars
<1>5. ASSUME NEW r \in Calls, Expire(r) PROVE Same
  BY <1>0, <1>5 DEF Expire, electionVars
<1>6. ASSUME NEW r \in installRpcs, HearInstalled(r) PROVE Same
  BY <1>0, <1>6, CallsOfReign DEF HearInstalled, Calls
<1>7. ASSUME NEW r \in installRpcs, InstallSnapshot(r) PROVE Same
  <2>1. /\ r.to \in Server /\ ~(r.term > currentTerm[r.to])
    BY <1>0, CallsOfReign DEF Calls
  <2>2. /\ UNCHANGED <<currentTerm, votedFor, state, electing, toAsk, voteRpcs>>
        /\ persisted' = persisted \/ Persist(r.to)
    BY <1>0, <1>7, <2>1, InstallDoes
  <2> QED  BY <1>0, <1>2, <2>1, <2>2
<1>8. ASSUME NEW s \in Server, NEW i \in DOMAIN log[s], Snapshot(s, i) PROVE Same
  <2>1. /\ persisted' = [persisted EXCEPT ![s] = [term |-> currentTerm[s], votedFor |-> Nil,
                                                  log |-> log[s]]]
        /\ UNCHANGED <<electionVars, voteRpcs>>
    BY <1>8 DEF Snapshot
  <2>2. \A q \in Server : persisted'[q].term = MaxTerm
    BY <1>0, <2>1 DEF TypeOK, Rules
  <2> QED  BY <2>1, <2>2 DEF electionVars
<1> HIDE DEF Same
<1> QED  BY <1>0, <1>3, <1>4, <1>5, <1>6, <1>7, <1>8, StepKinds DEF Same

LEMMA RulesStep ==
  ASSUME Steady, SnapInv, NEW lead, Rules(lead), CallsOf(lead), [SnapNext]_snapshotVars
  PROVE  /\ Rules(lead)' /\ currentTerm' = currentTerm
         /\ \A s \in Server : state'[s] = "Leader" => state[s] = "Leader"
<1>0. SnapTypeOK /\ TypeOK
  BY DEF SnapInv, SnapTypeOK
<1>1. CASE /\ UNCHANGED <<currentTerm, state, electing, toAsk, voteRpcs>>
           /\ \A s \in Server : persisted'[s].term = MaxTerm
  BY <1>1 DEF Rules
<1>2. ASSUME NEW s \in Server, RestartFrom(s)
      PROVE  /\ Rules(lead)' /\ currentTerm' = currentTerm
             /\ \A q \in Server : state'[q] = "Leader" => state[q] = "Leader"
  <2>1. PersisterSurvives /\ Reboot(s, SubSeq(log[s], 1, base[s])) /\ persisted' = persisted
    BY <1>2, SteadyRestart
  <2>2. /\ currentTerm' = [currentTerm EXCEPT ![s] = persisted[s].term] /\ BecomeFollower(s)
        /\ voteRpcs' = Orphaned(voteRpcs, s)
    BY <2>1 DEF Reboot
  <2>3. currentTerm' = currentTerm
    BY <1>0, <2>2 DEF TypeOK, Rules
  <2>4. voteRpcs' = {}
    BY <2>2 DEF Orphaned, Rules
  <2>5. \A q \in Server : /\ ~electing'[q] /\ toAsk'[q] = {}
                          /\ q # s => state'[q] = state[q]
                          /\ state'[s] = "Follower"
    BY <1>0, <2>2 DEF BecomeFollower, TypeOK, Rules
  <2> QED  BY <2>1, <2>3, <2>4, <2>5 DEF Rules
<1> QED  BY <1>1, <1>2, RulesHold

\* Calls of installSnapshot keep what they tell; a new one has what its leader has
\* forgotten, which is something.
InstallsMove ==
  \A x \in installRpcs' :
    \/ \E r \in installRpcs :
         /\ x.from = r.from /\ x.to = r.to /\ x.term = r.term /\ x.data = r.data
         /\ x.replyTerm \in {r.replyTerm, currentTerm[r.to]}
    \/ \E s \in Server : \E p \in Peers(s) :
         /\ state[s] = "Leader" /\ 0 < base[s] /\ UNCHANGED <<log, base>>
         /\ x.from = s /\ x.to = p /\ x.term = currentTerm[s] /\ x.replyTerm = 0
         /\ x.data = SubSeq(log[s], 1, base[s])

LEMMA FewerInstallsMove == ASSUME installRpcs' \subseteq installRpcs PROVE InstallsMove
BY DEF InstallsMove

LEMMA AnsweredInstallsMove ==
  ASSUME SnapTypeOK, NEW r \in installRpcs, AnswerInstall(r, currentTerm[r.to])
  PROVE  InstallsMove
<1> DEFINE y == [r EXCEPT !.stage = "replied", !.replyTerm = currentTerm[r.to]]
<1>1. r \in InstallRpc
  BY DEF SnapTypeOK
<1>2. /\ y.from = r.from /\ y.to = r.to /\ y.term = r.term /\ y.data = r.data
      /\ y.replyTerm = currentTerm[r.to]
  BY <1>1 DEF InstallRpc
<1>3. \A x \in installRpcs' : x \in installRpcs \/ x = y
  BY DEF AnswerInstall
<1> HIDE DEF y
<1> QED  BY <1>2, <1>3 DEF InstallsMove

LEMMA LateInstallsMove ==
  ASSUME SnapTypeOK,
         \A x \in installRpcs' : \E r \in installRpcs : x = r \/ x = [r EXCEPT !.live = FALSE]
  PROVE  InstallsMove
<1>1. \A r \in installRpcs : r \in InstallRpc
  BY DEF SnapTypeOK
<1> QED  BY <1>1 DEF InstallsMove, InstallRpc

LEMMA NewInstallMoves ==
  ASSUME NEW s \in Server, NEW p \in Peers(s), installRpcs' = Triggered(s, p),
         state[s] = "Leader", 0 < base[s], UNCHANGED <<log, base>>
  PROVE  InstallsMove
<1> DEFINE y == [from |-> s, to |-> p, live |-> TRUE, stage |-> "sent",
                 term |-> currentTerm[s], data |-> SubSeq(log[s], 1, base[s]), replyTerm |-> 0]
<1>1. /\ y.from = s /\ y.to = p /\ y.term = currentTerm[s] /\ y.replyTerm = 0
      /\ y.data = SubSeq(log[s], 1, base[s])
  OBVIOUS
<1>2. \A x \in installRpcs' : x \in installRpcs \/ x = y
  BY DEF Triggered
<1> HIDE DEF y
<1> QED  BY <1>1, <1>2 DEF InstallsMove

LEMMA InstallsMoveStep ==
  ASSUME SnapInv, NEW lead, Rules(lead), CallsOf(lead), [SnapNext]_snapshotVars
  PROVE  InstallsMove
<1>0. /\ SnapTypeOK /\ TypeOK /\ LeaderHasNextIndexes /\ SnapshotFits /\ LogPersisted
      /\ \A s \in Server : base[s] \in Nat /\ \A p \in Server : nextIndex[s][p] \in Nat
  BY DEF SnapInv, SnapTypeOK, TypeOK
<1>1. CASE InstallsWait
  <2>1. ASSUME NEW s \in Server, NEW p \in Peers(s), SendSnapshot(s, p) PROVE InstallsMove
    <3>1. /\ state[s] = "Leader" /\ nextIndex[s][p] <= base[s] /\ UNCHANGED <<vars, base>>
          /\ installRpcs' = Triggered(s, p)
      BY <2>1 DEF SendSnapshot, NeedsSnapshot
    <3>2. p \in Server
      BY DEF Peers
    <3>3. nextIndex[s][p] # 0 /\ log' = log
      BY <1>0, <3>1, <3>2 DEF LeaderHasNextIndexes, vars, logVars
    <3>4. 0 < base[s]
      BY <1>0, <3>1, <3>2, <3>3
    <3> QED  BY <3>1, <3>3, <3>4, NewInstallMoves
  <2>2. ASSUME NEW r \in installRpcs, RefuseStaleInstall(r) PROVE InstallsMove
    BY <1>0, <2>2, AnsweredInstallsMove DEF RefuseStaleInstall
  <2> QED  BY <1>1, <2>1, <2>2, FewerInstallsMove DEF InstallsWait
<1>2. ASSUME NEW r \in appendRpcs, RefuseFrom(r) PROVE InstallsMove
  BY <1>2, FewerInstallsMove DEF RefuseFrom, snapVars
<1>3. ASSUME NEW r \in appendRpcs, BackUpFrom(r) PROVE InstallsMove
  <2> DEFINE s == r.from
             n == BackedUpFrom(nextIndex[s][r.to], r.conflictIndex, s)
  <2>1. /\ s \in Server /\ r.to \in Server /\ n \in Nat \ {0}
        /\ state[s] = "Leader"
        /\ installRpcs' = installRpcs \/ (installRpcs' = Triggered(s, r.to) /\ n <= base[s])
        /\ UNCHANGED <<logVars, base>>
    BY <1>0, <1>3, BackUpFromDoes
  <2> HIDE DEF n
  <2>2. r.to \in Peers(s)
    BY <1>0, <2>1, CallsOfReign DEF Calls, Peers
  <2>3. n <= base[s] => 0 < base[s]
    BY <1>0, <2>1
  <2> QED  BY <2>1, <2>2, <2>3, NewInstallMoves, FewerInstallsMove DEF logVars
<1>4. ASSUME NEW r \in Calls, Expire(r) PROVE InstallsMove
  <2>1. \A x \in installRpcs' : \E q \in installRpcs : x = q \/ x = [q EXCEPT !.live = FALSE]
    BY <1>4 DEF Expire
  <2> QED  BY <1>0, <2>1, LateInstallsMove
<1>5. ASSUME NEW r \in installRpcs, InstallSnapshot(r) PROVE InstallsMove
  BY <1>0, <1>5, InstallDoes, AnsweredInstallsMove
<1>6. ASSUME NEW r \in installRpcs, HearInstalled(r) PROVE InstallsMove
  BY <1>6, FewerInstallsMove DEF HearInstalled
<1>7. ASSUME NEW s \in Server, NEW i \in DOMAIN log[s], Snapshot(s, i) PROVE InstallsMove
  BY <1>7, FewerInstallsMove DEF Snapshot
<1>8. ASSUME NEW s \in Server, RestartFrom(s) PROVE InstallsMove
  <2>1. installRpcs' = Orphaned(installRpcs, s)
    BY <1>8 DEF RestartFrom
  <2>2. \A x \in installRpcs' : \E q \in installRpcs : x = q \/ x = [q EXCEPT !.live = FALSE]
    BY <2>1 DEF Orphaned
  <2> QED  BY <1>0, <2>2, LateInstallsMove
<1> QED  BY <1>0, <1>1, <1>2, <1>3, <1>4, <1>5, <1>6, <1>7, <1>8, StepKinds

LEMMA CallsOfStep ==
  ASSUME SnapInv, SnapInv', NEW lead, Rules(lead), CallsOf(lead), [SnapNext]_snapshotVars
  PROVE  CallsOf(lead)'
<1>0. /\ SnapTypeOK /\ TypeOK /\ LogPersisted /\ SnapshotFits /\ MaxTerm \in Nat
      /\ \A s \in Server : currentTerm[s] = MaxTerm /\ (state[s] = "Leader" => s = lead)
  BY BoundAssumption DEF SnapInv, SnapTypeOK, Rules
<1>1. ASSUME NEW x \in appendRpcs'
      PROVE  x.from = lead /\ x.to # lead /\ x.term = MaxTerm /\ x.replyTerm <= MaxTerm
  <2>1. CASE \E r \in appendRpcs : Waits(x, r) \/ Goes(x, r)
    <3>1. PICK r \in appendRpcs : Waits(x, r) \/ Goes(x, r)
      BY <2>1
    <3>2. /\ x.from = r.from /\ x.to = r.to /\ x.term = r.term
          /\ x.replyTerm \in {r.replyTerm, currentTerm[r.to]}
      BY <3>1 DEF Waits, Goes, SameCall
    <3>3. /\ r.from = lead /\ r.to # lead /\ r.term = MaxTerm /\ r.replyTerm <= MaxTerm
          /\ r.to \in Server
      BY <1>0, CallsOfReign DEF Calls
    <3> QED  BY <1>0, <3>2, <3>3
  <2>2. ASSUME NEW s \in Server, NEW p \in Peers(s), SendAppendEntries(s, p), x = NewCall(s, p)
        PROVE  x.from = lead /\ x.to # lead /\ x.term = MaxTerm /\ x.replyTerm <= MaxTerm
    BY <1>0, <2>2 DEF NewCall, SendAppendEntries, Peers
  <2> QED  BY <1>0, <2>1, <2>2, CallsMoveStep DEF CallsMove
<1>2. ASSUME NEW x \in installRpcs'
      PROVE  x.from = lead /\ x.to # lead /\ x.term = MaxTerm /\ x.replyTerm <= MaxTerm
  <2>1. ASSUME NEW r \in installRpcs, x.from = r.from, x.to = r.to, x.term = r.term,
               x.replyTerm \in {r.replyTerm, currentTerm[r.to]}
        PROVE  x.from = lead /\ x.to # lead /\ x.term = MaxTerm /\ x.replyTerm <= MaxTerm
    <3>1. /\ r.from = lead /\ r.to # lead /\ r.term = MaxTerm /\ r.replyTerm <= MaxTerm
          /\ r.to \in Server
      BY <1>0, CallsOfReign DEF Calls
    <3> QED  BY <1>0, <2>1, <3>1
  <2>2. ASSUME NEW s \in Server, NEW p \in Peers(s), state[s] = "Leader",
               x.from = s, x.to = p, x.term = currentTerm[s], x.replyTerm = 0
        PROVE  x.from = lead /\ x.to # lead /\ x.term = MaxTerm /\ x.replyTerm <= MaxTerm
    BY <1>0, <2>2 DEF Peers
  <2> QED  BY <2>1, <2>2, InstallsMoveStep DEF InstallsMove
<1> QED  BY <1>1, <1>2 DEF CallsOf, Calls

-----------------------------------------------------------------------------
(* The reign of one leader: logs and state machines.                       *)

LEMMA LogsInReign ==
  ASSUME NEW lead \in Server, ReignInv(lead), NEW s \in Server
  PROVE  /\ log[s] \in Seq(Entry) /\ Len(log[s]) \in Nat
         /\ applied[s] \in Seq(Entry) /\ Len(applied[s]) \in Nat
         /\ commitIndex[s] \in Nat /\ base[s] \in Nat
         /\ base[s] <= Len(log[s]) /\ base[s] <= Len(applied[s])
         /\ Like(log[s], log[lead]) /\ Agree(applied[s], log[lead], Len(applied[s]))
         /\ \A n \in DOMAIN applied[s] : n <= Len(log[s]) => Agree(log[s], log[lead], n)
         /\ commitIndex[s] <= Len(applied[s]) /\ Len(applied[s]) <= Len(log[lead])
         /\ Agree(log[s], log[lead], base[s])
<1>1. /\ log[s] \in Seq(Entry) /\ log[lead] \in Seq(Entry) /\ commitIndex[s] \in Nat
      /\ base[s] \in Nat /\ applied[s] \in Seq(Entry \cup {Wild})
      /\ base[s] <= Len(log[s]) /\ base[s] <= Len(applied[s])
  BY DEF ReignInv, SnapInv, SnapTypeOK, TypeOK, SnapshotFits
<1>2. /\ Like(log[s], log[lead]) /\ Agree(applied[s], log[lead], Len(applied[s]))
      /\ \A n \in DOMAIN applied[s] : n <= Len(log[s]) => Agree(log[s], log[lead], n)
      /\ commitIndex[s] <= Len(applied[s])
  BY DEF ReignInv, LogsOf, FollowsLog
<1>3. applied[s] \in Seq(Entry)
  BY <1>1, <1>2, AgreeType
<1>4. Len(log[s]) \in Nat /\ Len(applied[s]) \in Nat /\ Len(applied[s]) <= Len(log[lead])
  BY <1>1, <1>2 DEF Agree
<1>5. Agree(log[s], log[lead], base[s])
  <2>1. CASE base[s] = 0
    BY <1>1, <2>1 DEF Agree
  <2>2. CASE base[s] # 0
    <3>1. base[s] \in DOMAIN applied[s]
      BY <1>1, <1>3, <1>4, <2>2
    <3> QED  BY <1>1, <1>2, <3>1
  <2> QED  BY <2>1, <2>2
<1> QED  BY <1>1, <1>2, <1>3, <1>4, <1>5

\* A follower's log is changed towards that of lead.
LEMMA StoreInReign ==
  ASSUME NEW lead \in Server, ReignInv(lead), NEW r \in appendRpcs, StoreEntries(r)
  PROVE  LET s == r.to
             q == Stored(log[s], r.prevLogIndex, r.entries)
         IN /\ s \in Server \ {lead} /\ log' = [log EXCEPT ![s] = q] /\ q \in Seq(Entry)
            /\ log'[s] = q
            /\ Like(q, log[lead]) /\ Agree(q, log[lead], LastNew(r))
            /\ \A n \in Nat : Agree(log[s], log[lead], n) => Agree(q, log[lead], n)
            /\ q = log[s] \/ Agree(q, log[lead], Len(q))
            /\ UNCHANGED <<commitIndex, applied>>
<1> DEFINE s == r.to
           m == log[lead]
           q == Stored(log[s], r.prevLogIndex, r.entries)
<1>0. TypeOK /\ SnapTypeOK /\ Rules(lead) /\ CallsOf(lead)
  BY DEF ReignInv, SnapInv, SnapTypeOK
<1>1. s \in Server \ {lead}
  BY <1>0, CallsOfReign DEF Calls
<1>2. /\ r.prevLogIndex \in Nat /\ r.entries \in Seq(Entry)
      /\ LastNew(r) = r.prevLogIndex + Len(r.entries)
  BY <1>0, CallType
<1>3. log' = [log EXCEPT ![s] = q] /\ r.stage = "store" /\ UNCHANGED <<commitIndex, applied>>
  BY DEF StoreEntries
<1>4. /\ r.prevLogIndex + Len(r.entries) <= Len(m)
      /\ \A k \in DOMAIN r.entries : r.entries[k] = m[r.prevLogIndex + k]
      /\ Agree(log[s], m, r.prevLogIndex)
  <2>1. TellsLog(r, m)
    BY DEF ReignInv, LogsOf
  <2> HIDE DEF m, s
  <2> QED  BY <1>2, <1>3, <2>1 DEF TellsLog, s
<1>5. /\ log[s] \in Seq(Entry) /\ m \in Seq(Entry) /\ Like(log[s], m) /\ Like(m, m)
  BY <1>1, LogsInReign
<1>6. log \in [Server -> Seq(Entry)]
  BY <1>0 DEF TypeOK
<1> HIDE DEF s, m
<1>7. /\ q \in Seq(Entry) /\ Like(q, m) /\ Agree(q, m, r.prevLogIndex + Len(r.entries))
      /\ \A n \in Nat : Agree(log[s], m, n) => Agree(q, m, n)
      /\ q = log[s] \/ Agree(q, m, Len(q))
  BY <1>2, <1>4, <1>5, StoredIsLike
<1> HIDE DEF q
<1>8. log'[s] = q
  BY <1>1, <1>3, <1>6
<1> QED  BY <1>1, <1>2, <1>3, <1>7, <1>8 DEF s, m, q

\* A state machine is given the entries of lead, up to the commit index.
LEMMA PushInReign ==
  ASSUME NEW lead \in Server, ReignInv(lead), NEW s \in Server, NEW c \in Nat,
         \/ c <= Len(applied[s])
         \/ Agree(log[s], log[lead], c)
  PROVE  LET a == PushedUpTo(c, applied[s], log[s])
         IN /\ a \in Seq(Entry) /\ Agree(a, log[lead], Len(a)) /\ c <= Len(a)
            /\ \A n \in DOMAIN a : n <= Len(log[s]) => Agree(log[s], log[lead], n)
<1> DEFINE m == log[lead]
           l == log[s]
           d == applied[s]
           a == PushedUpTo(c, d, l)
<1>1. /\ l \in Seq(Entry) /\ m \in Seq(Entry) /\ d \in Seq(Entry) /\ Len(d) \in Nat
      /\ Len(l) \in Nat /\ Agree(d, m, Len(d))
      /\ \A n \in DOMAIN d : n <= Len(l) => Agree(l, m, n)
  BY LogsInReign
<1>2. c <= Len(d) \/ Agree(l, m, c)
  OBVIOUS
<1> HIDE DEF m, l, d
<1>3. CASE c <= Len(d)
  <2>1. a = d
    BY <1>1, <1>3 DEF PushedUpTo
  <2> HIDE DEF a
  <2> QED  BY <1>1, <1>3, <2>1 DEF m, l, d, a
<1>4. CASE c > Len(d) /\ Agree(l, m, c)
  <2>1. Agree(d, l, Len(d))
    <3>1. Agree(m, l, c) /\ Len(d) <= c /\ Len(d) <= Len(d)
      BY <1>1, <1>4, AgreeBack
    <3> QED  BY <1>1, <3>1, AgreeVia
  <2>2. c <= Len(l) /\ d \in Seq(Entry \cup {Wild})
    BY <1>1, <1>4 DEF Agree
  <2>3. Agree(a, l, c) /\ Len(a) = c
    BY <1>1, <1>4, <2>1, <2>2, PushedUpToIs
  <2>4. a \in Seq(Entry)
    <3>1. a \in Seq(Entry \cup {Wild})
      BY <1>1, <2>2, PushedUpToType
    <3> HIDE DEF a
    <3> QED  BY <1>1, <2>3, <3>1, AgreeType
  <2> HIDE DEF a
  <2>5. Agree(a, m, c)
    <3>1. c <= c
      OBVIOUS
    <3> QED  BY <1>1, <1>4, <2>3, <2>4, <3>1, AgreeVia
  <2>6. \A n \in DOMAIN a : Agree(l, m, n)
    <3>1. \A n \in DOMAIN a : n \in Nat /\ n <= c
      BY <2>3, <2>4
    <3> QED  BY <1>1, <1>4, <3>1, AgreeLess
  <2> QED  BY <2>3, <2>4, <2>5, <2>6 DEF m, l, d, a
<1> QED  BY <1>1, <1>2, <1>3, <1>4

LEMMA FollowInReign ==
  ASSUME NEW lead \in Server, ReignInv(lead), NEW r \in appendRpcs, FollowCommit(r)
  PROVE  LET s == r.to
         IN /\ s \in Server \ {lead} /\ log' = log /\ Agree(log[s], log[lead], LastNew(r))
            /\ \E c \in Nat :
                 /\ commitIndex' = [commitIndex EXCEPT ![s] = c] /\ commitIndex[s] <= c
                 /\ applied' = [applied EXCEPT ![s] = PushedUpTo(c, applied[s], log[s])]
                 /\ c <= Len(applied[s]) \/ Agree(log[s], log[lead], c)
<1> DEFINE s == r.to
           m == log[lead]
           c == FollowedCommit(commitIndex[s], r.leaderCommit, LastNew(r))
<1>0. TypeOK /\ SnapTypeOK /\ Rules(lead) /\ CallsOf(lead)
  BY DEF ReignInv, SnapInv, SnapTypeOK
<1>1. s \in Server \ {lead}
  BY <1>0, CallsOfReign DEF Calls
<1>2. /\ r.stage = "commit" /\ c \in Nat /\ log' = log
      /\ commitIndex' = [commitIndex EXCEPT ![s] = c]
      /\ applied' = [applied EXCEPT ![s] = PushedUpTo(c, applied[s], log[s])]
  BY <1>0, FollowDoes
<1>3. r.leaderCommit <= LastNew(r) /\ Agree(log[s], m, LastNew(r))
  BY <1>2 DEF ReignInv, LogsOf, TellsLog
<1>4. /\ log[s] \in Seq(Entry) /\ m \in Seq(Entry) /\ commitIndex[s] \in Nat
      /\ Len(applied[s]) \in Nat /\ commitIndex[s] <= Len(applied[s])
  BY <1>1, LogsInReign
<1>5. r.leaderCommit \in Nat /\ LastNew(r) \in Nat
  BY <1>0, CallType
<1>6. c \in {commitIndex[s], r.leaderCommit} /\ commitIndex[s] <= c
  BY <1>3, <1>4, <1>5, FollowedCommitIs
<1> HIDE DEF c, s, m
<1>7. c <= Len(applied[s]) \/ Agree(log[s], m, c)
  <2>1. CASE c = commitIndex[s]
    BY <1>4, <2>1
  <2>2. CASE c = r.leaderCommit
    BY <1>3, <1>4, <1>5, <2>2, AgreeLess
  <2> QED  BY <1>6, <2>1, <2>2
<1> QED  BY <1>1, <1>2, <1>3, <1>6, <1>7 DEF s, m

LEMMA CountInReign ==
  ASSUME NEW lead \in Server, ReignInv(lead), NEW r \in appendRpcs, CountSuccess(r)
  PROVE  /\ log' = log
         /\ \E c \in Nat :
              /\ commitIndex' = [commitIndex EXCEPT ![lead] = c] /\ commitIndex[lead] <= c
              /\ applied' = [applied EXCEPT ![lead] = PushedUpTo(c, applied[lead], log[lead])]
              /\ c <= Len(applied[lead]) \/ Agree(log[lead], log[lead], c)
<1> DEFINE c == CommitRule(log[lead], currentTerm[lead], commitIndex[lead],
                           Held(lead, matchIndex'[lead]))
<1>0. TypeOK /\ SnapTypeOK /\ Rules(lead) /\ CallsOf(lead)
  BY DEF ReignInv, SnapInv, SnapTypeOK
<1>1. r.from = lead
  BY <1>0, CallsOfReign DEF Calls
<1>2. /\ c \in Nat /\ c >= commitIndex[lead]
      /\ c = commitIndex[lead] \/ c <= Len(log[lead])
      /\ commitIndex' = [commitIndex EXCEPT ![lead] = c]
      /\ applied' = [applied EXCEPT ![lead] = PushedUpTo(c, applied[lead], log[lead])]
      /\ log' = log
  BY <1>0, <1>1, CountDoes
<1>3. /\ log[lead] \in Seq(Entry) /\ commitIndex[lead] \in Nat
      /\ Len(applied[lead]) \in Nat /\ commitIndex[lead] <= Len(applied[lead])
  BY LogsInReign
<1> HIDE DEF c
<1>4. c <= Len(applied[lead]) \/ Agree(log[lead], log[lead], c)
  BY <1>2, <1>3, AgreeSelf
<1>5. commitIndex[lead] <= c
  BY <1>2, <1>3
<1> QED  BY <1>2, <1>4, <1>5

\* The log of lead only grows, and no snapshot is undone.
LeadGrows(lead) ==
  /\ Agree(log[lead], log'[lead], Len(log[lead]))
  /\ \A s \in Server : base[s] <= base'[s]

\* Where a log agreed with that of lead, it agrees.
LogsKeep(lead) ==
  \A s \in Server : \A n \in Nat :
    Agree(log[s], log[lead], n) => Agree(log'[s], log'[lead], n)

AllFollow(lead) == \A s \in Server : FollowsLog(s, log[lead])

LEMMA SameLogs ==
  ASSUME NEW lead \in Server, ReignInv(lead), UNCHANGED <<log, commitIndex, applied>>,
         \A s \in Server : base[s] <= base'[s]
  PROVE  LeadGrows(lead) /\ LogsKeep(lead) /\ AllFollow(lead)'
<1>1. log[lead] \in Seq(Entry) /\ Len(log[lead]) \in Nat
  BY LogsInReign
<1>2. Agree(log[lead], log'[lead], Len(log[lead]))
  BY <1>1, AgreeSelf
<1>3. AllFollow(lead)'
  BY DEF ReignInv, LogsOf, AllFollow, FollowsLog
<1> QED  BY <1>2, <1>3 DEF LeadGrows, LogsKeep

LEMMA StartLogs ==
  ASSUME Steady, NEW lead \in Server, ReignInv(lead), NEW c \in Command, Start(lead, c),
         base' = base
  PROVE  LeadGrows(lead) /\ LogsKeep(lead) /\ AllFollow(lead)'
<1> DEFINE e == [term |-> currentTerm[lead], command |-> c]
           m == log[lead]
           q == Append(m, e)
<1>0. /\ MaxTerm \in Nat /\ MaxTerm > 0 /\ log \in [Server -> Seq(Entry)]
      /\ base \in [Server -> Nat]
  BY BoundAssumption DEF ReignInv, SnapInv, SnapTypeOK, TypeOK, Steady
<1>1. e.term = MaxTerm /\ e \in Entry
  BY <1>0 DEF ReignInv, Rules, Entry
<1>2. log' = [log EXCEPT ![lead] = q] /\ UNCHANGED <<commitIndex, applied>>
  BY DEF Start
<1>3. m \in Seq(Entry) /\ Like(m, m) /\ Len(m) \in Nat
  BY LogsInReign
<1> HIDE DEF e, m
<1>4. q \in Seq(Entry) /\ Len(q) = Len(m) + 1 /\ Agree(m, q, Len(m))
  BY <1>1, <1>3, AgreeAppend
<1>5. Like(q, q)
  BY <1>0, <1>1, <1>3, LikeSelfGrows
<1>6. \A l \in Seq(Entry) : Like(l, m) => Like(l, q)
  BY <1>1, <1>3, LikeGrows
<1> HIDE DEF q
<1>7. log'[lead] = q /\ \A s \in Server \ {lead} : log'[s] = log[s]
  BY <1>0, <1>2
<1>8. ASSUME NEW l \in Seq(Entry), NEW n \in Nat, Agree(l, m, n) PROVE Agree(l, q, n)
  <2>1. n <= n /\ n <= Len(m)
    BY <1>8 DEF Agree
  <2> QED  BY <1>3, <1>4, <1>8, <2>1, AgreeVia
<1>9. ASSUME NEW n \in Nat, n <= Len(m) PROVE Agree(q, q, n)
  <2>1. n <= Len(q)
    BY <1>3, <1>4, <1>9
  <2> QED  BY <1>4, <2>1, AgreeSelf
<1>10. LogsKeep(lead)
  <2> SUFFICES ASSUME NEW s \in Server, NEW n \in Nat, Agree(log[s], log[lead], n)
               PROVE  Agree(log'[s], log'[lead], n)
    BY DEF LogsKeep
  <2>1. n <= Len(m)
    BY DEF Agree, m
  <2>2. CASE s = lead
    BY <1>7, <1>9, <2>1, <2>2
  <2>3. CASE s # lead
    BY <1>0, <1>7, <1>8, <2>3 DEF m
  <2> QED  BY <2>2, <2>3
<1>11. ASSUME NEW s \in Server PROVE FollowsLog(s, log[lead])'
  <2>1. /\ log[s] \in Seq(Entry) /\ applied[s] \in Seq(Entry) /\ Len(applied[s]) \in Nat
        /\ Like(log[s], m) /\ Agree(applied[s], m, Len(applied[s]))
        /\ \A n \in DOMAIN applied[s] : n <= Len(log[s]) => Agree(log[s], m, n)
        /\ commitIndex[s] <= Len(applied[s]) /\ Len(applied[s]) <= Len(m)
    BY LogsInReign DEF m
  <2>2. Like(log'[s], q)
    BY <1>5, <1>6, <1>7, <2>1
  <2>3. Agree(applied[s], q, Len(applied[s]))
    BY <1>8, <2>1
  <2>4. ASSUME NEW n \in DOMAIN applied[s], n <= Len(log'[s]) PROVE Agree(log'[s], q, n)
    <3>1. n \in Nat /\ n <= Len(m)
      BY <1>3, <2>1
    <3>2. CASE s = lead
      BY <1>7, <1>9, <3>1, <3>2
    <3>3. CASE s # lead
      BY <1>7, <1>8, <2>1, <2>4, <3>1, <3>3
    <3> QED  BY <3>2, <3>3
  <2>5. applied'[s] = applied[s] /\ commitIndex'[s] = commitIndex[s]
    BY <1>2
  <2> QED  BY <1>7, <2>1, <2>2, <2>3, <2>4, <2>5 DEF FollowsLog
<1>12. \A s \in Server : base[s] <= base'[s]
  BY <1>0
<1> QED  BY <1>4, <1>7, <1>10, <1>11, <1>12 DEF LeadGrows, AllFollow, m

LEMMA StoreLogs ==
  ASSUME NEW lead \in Server, ReignInv(lead), NEW r \in appendRpcs, StoreEntries(r),
         base' = base
  PROVE  LeadGrows(lead) /\ LogsKeep(lead) /\ AllFollow(lead)'
<1> DEFINE s == r.to
           m == log[lead]
           q == Stored(log[s], r.prevLogIndex, r.entries)
<1>0. log \in [Server -> Seq(Entry)] /\ base \in [Server -> Nat]
  BY DEF ReignInv, SnapInv, SnapTypeOK, TypeOK
<1>1. /\ s \in Server \ {lead} /\ log' = [log EXCEPT ![s] = q] /\ q \in Seq(Entry)
      /\ log'[s] = q /\ Like(q, m)
      /\ \A n \in Nat : Agree(log[s], m, n) => Agree(q, m, n)
      /\ q = log[s] \/ Agree(q, m, Len(q))
      /\ UNCHANGED <<commitIndex, applied>>
  BY StoreInReign
<1> HIDE DEF s, q
<1>2. \A p \in Server \ {s} : log'[p] = log[p]
  BY <1>0, <1>1
<1>3. log'[lead] = m
  BY <1>1, <1>2
<1>4. LogsKeep(lead)
  BY <1>1, <1>2, <1>3 DEF LogsKeep
<1>5. LeadGrows(lead)
  <2>1. m \in Seq(Entry) /\ Len(m) \in Nat /\ \A p \in Server : base[p] <= base'[p]
    BY <1>0
  <2>2. Agree(m, m, Len(m))
    BY <2>1, AgreeSelf
  <2> QED  BY <1>3, <2>1, <2>2 DEF LeadGrows
<1>6. ASSUME NEW p \in Server PROVE FollowsLog(p, log[lead])'
  <2>1. FollowsLog(p, m)
    BY DEF ReignInv, LogsOf
  <2>2. CASE p # s
    BY <1>1, <1>2, <1>3, <2>1, <2>2 DEF FollowsLog
  <2>3. CASE p = s
    <3>1. ASSUME NEW n \in DOMAIN applied[s], n <= Len(q) PROVE Agree(q, m, n)
      <4>1. CASE q = log[s]
        BY <2>1, <2>3, <3>1, <4>1 DEF FollowsLog
      <4>2. CASE Agree(q, m, Len(q))
        <5>1. m \in Seq(Entry) /\ n \in Nat /\ Len(q) \in Nat
          BY <1>0, <1>1, <2>3, LogsInReign
        <5> QED  BY <1>1, <3>1, <4>2, <5>1, AgreeLess
      <4> QED  BY <1>1, <4>1, <4>2
    <3> QED  BY <1>1, <1>3, <2>1, <2>3, <3>1 DEF FollowsLog
  <2> QED  BY <2>2, <2>3
<1> QED  BY <1>4, <1>5, <1>6 DEF AllFollow

\* One node's state machine is given entries, the others' are not.
LEMMA PushLogs ==
  ASSUME NEW lead \in Server, ReignInv(lead), log' = log, base' = base,
         NEW s \in Server, NEW c \in Nat,
         commitIndex' = [commitIndex EXCEPT ![s] = c],
         applied' = [applied EXCEPT ![s] = PushedUpTo(c, applied[s], log[s])],
         c <= Len(applied[s]) \/ Agree(log[s], log[lead], c)
  PROVE  LeadGrows(lead) /\ LogsKeep(lead) /\ AllFollow(lead)'
<1> DEFINE a == PushedUpTo(c, applied[s], log[s])
<1>0. /\ commitIndex \in [Server -> Nat] /\ applied \in [Server -> Seq(Entry \cup {Wild})]
      /\ log[lead] \in Seq(Entry) /\ base \in [Server -> Nat]
  BY DEF ReignInv, SnapInv, SnapTypeOK, TypeOK
<1>1. /\ a \in Seq(Entry) /\ Agree(a, log[lead], Len(a)) /\ c <= Len(a)
      /\ \A n \in DOMAIN a : n <= Len(log[s]) => Agree(log[s], log[lead], n)
  BY PushInReign
<1> HIDE DEF a
<1>2. /\ applied'[s] = a /\ commitIndex'[s] = c
      /\ \A p \in Server \ {s} : applied'[p] = applied[p] /\ commitIndex'[p] = commitIndex[p]
  BY <1>0 DEF a
<1>3. ASSUME NEW p \in Server PROVE FollowsLog(p, log[lead])'
  <2>1. FollowsLog(p, log[lead])
    BY DEF ReignInv, LogsOf
  <2> QED  BY <1>1, <1>2, <2>1 DEF FollowsLog
<1>4. Agree(log[lead], log[lead], Len(log[lead])) /\ \A p \in Server : base[p] <= base'[p]
  <2>1. Len(log[lead]) \in Nat /\ Len(log[lead]) <= Len(log[lead])
    BY <1>0
  <2>2. Agree(log[lead], log[lead], Len(log[lead]))
    BY <1>0, <2>1, AgreeSelf
  <2> QED  BY <1>0, <2>2
<1> QED  BY <1>3, <1>4 DEF AllFollow, LeadGrows, LogsKeep

\* The beginning of a log that lead has, installed in place of another.
LEMMA InstallLogs ==
  ASSUME NEW lead \in Server, ReignInv(lead), NEW r \in installRpcs, InstallSnapshot(r)
  PROVE  LeadGrows(lead) /\ AllFollow(lead)'
<1> DEFINE s == r.to
           m == log[lead]
           d == r.data
<1>0. /\ SnapTypeOK /\ TypeOK /\ Rules(lead) /\ CallsOf(lead)
      /\ log \in [Server -> Seq(Entry)] /\ applied \in [Server -> Seq(Entry \cup {Wild})]
      /\ base \in [Server -> Nat]
  BY DEF ReignInv, SnapInv, SnapTypeOK, TypeOK
<1>1. s \in Server \ {lead} /\ d \in Seq(Entry) /\ Len(d) \in Nat
  BY <1>0, CallsOfReign, InstallType DEF Calls
<1>2. Agree(d, m, Len(d))
  BY DEF ReignInv, LogsOf, TellsSnapshot
<1>3. /\ \/ UNCHANGED <<base, log, applied>>
         \/ /\ Len(d) > base[s]
            /\ base' = [base EXCEPT ![s] = Len(d)]
            /\ log' = [log EXCEPT ![s] = d]
            /\ applied' = [applied EXCEPT ![s] = IF Len(applied[s]) < Len(d)
                                                 THEN d ELSE applied[s]]
      /\ commitIndex' = commitIndex
  BY <1>0, InstallDoes
<1>4. m \in Seq(Entry) /\ Like(m, m) /\ Len(m) \in Nat
  BY LogsInReign
<1>5. /\ applied[s] \in Seq(Entry) /\ Len(applied[s]) \in Nat /\ commitIndex[s] \in Nat
      /\ Agree(applied[s], m, Len(applied[s])) /\ commitIndex[s] <= Len(applied[s])
  BY <1>1, LogsInReign
<1>6. Like(d, m)
  BY <1>1, <1>2, <1>4, PartIsLike
<1> HIDE DEF s, d
<1>7. CASE UNCHANGED <<base, log, applied>>
  BY <1>0, <1>3, <1>7, SameLogs
<1>8. CASE /\ Len(d) > base[s]
           /\ base' = [base EXCEPT ![s] = Len(d)]
           /\ log' = [log EXCEPT ![s] = d]
           /\ applied' = [applied EXCEPT ![s] = IF Len(applied[s]) < Len(d)
                                                THEN d ELSE applied[s]]
  <2>1. /\ log'[s] = d /\ base'[s] = Len(d)
        /\ applied'[s] = IF Len(applied[s]) < Len(d) THEN d ELSE applied[s]
    BY <1>0, <1>1, <1>8
  <2>2. \A p \in Server \ {s} :
          log'[p] = log[p] /\ applied'[p] = applied[p] /\ base'[p] = base[p]
    BY <1>0, <1>1, <1>8
  <2>3. log'[lead] = m
    BY <1>1, <2>2
  <2>4. LeadGrows(lead)
    <3>1. Agree(m, m, Len(m))
      BY <1>4, AgreeSelf
    <3>2. \A p \in Server : base[p] <= base'[p]
      BY <1>0, <1>1, <1>8, <2>1, <2>2
    <3> QED  BY <2>3, <3>1, <3>2 DEF LeadGrows
  <2>5. \A n \in Nat : n <= Len(d) => Agree(d, m, n)
    BY <1>1, <1>2, <1>4, AgreeLess
  <2>6. FollowsLog(s, log[lead])'
    <3>1. /\ Agree(applied'[s], m, Len(applied'[s])) /\ commitIndex[s] <= Len(applied'[s])
          /\ applied'[s] \in Seq(Entry)
      <4>1. CASE Len(applied[s]) < Len(d)
        BY <1>1, <1>2, <1>5, <2>1, <4>1
      <4>2. CASE ~(Len(applied[s]) < Len(d))
        BY <1>5, <2>1, <4>2
      <4> QED  BY <4>1, <4>2
    <3>2. \A n \in DOMAIN applied'[s] : n <= Len(d) => Agree(d, m, n)
      BY <2>5, <3>1
    <3> QED  BY <1>3, <1>6, <2>1, <2>3, <3>1, <3>2 DEF FollowsLog
  <2>7. ASSUME NEW p \in Server \ {s} PROVE FollowsLog(p, log[lead])'
    <3>1. FollowsLog(p, m)
      BY DEF ReignInv, LogsOf
    <3> QED  BY <1>3, <2>2, <2>3, <3>1 DEF FollowsLog
  <2> QED  BY <2>4, <2>6, <2>7 DEF AllFollow
<1> QED  BY <1>3, <1>7, <1>8

\* What a snapshot covers is what its node had been given: it is taken for applied.
LEMMA RestartLogs ==
  ASSUME Steady, NEW lead \in Server, ReignInv(lead), NEW s \in Server, RestartFrom(s)
  PROVE  LeadGrows(lead) /\ LogsKeep(lead) /\ AllFollow(lead)'
<1> DEFINE m == log[lead]
           d == SubSeq(log[s], 1, base[s])
<1>0. /\ commitIndex \in [Server -> Nat] /\ applied \in [Server -> Seq(Entry \cup {Wild})]
      /\ base \in [Server -> Nat] /\ SnapInv
  BY DEF ReignInv, SnapInv, SnapTypeOK, TypeOK
<1>1. /\ log' = log /\ base' = base
      /\ applied' = [applied EXCEPT ![s] = d] /\ commitIndex' = [commitIndex EXCEPT ![s] = 0]
  BY <1>0, SteadyRestart
<1>2. /\ log[s] \in Seq(Entry) /\ base[s] \in Nat /\ base[s] <= Len(log[s])
      /\ Agree(log[s], m, base[s])
  BY LogsInReign
<1>3. m \in Seq(Entry) /\ Len(m) \in Nat
  BY LogsInReign
<1>4. d \in Seq(Entry) /\ Len(d) = base[s] /\ Agree(d, log[s], base[s])
  BY <1>2, SubSeqAgrees
<1> HIDE DEF d, m
<1>5. Agree(d, m, Len(d))
  <2>1. base[s] <= base[s]
    BY <1>2
  <2> QED  BY <1>2, <1>3, <1>4, <2>1, AgreeVia
<1>6. \A n \in DOMAIN d : Agree(log[s], m, n)
  <2>1. \A n \in DOMAIN d : n \in Nat /\ n <= base[s]
    BY <1>4
  <2> QED  BY <1>2, <1>3, <2>1, AgreeLess
<1>7. FollowsLog(s, log[lead])'
  <2>1. applied'[s] = d /\ commitIndex'[s] = 0
    BY <1>0, <1>1
  <2>2. Like(log[s], m)
    BY LogsInReign DEF m
  <2>3. 0 <= Len(d)
    BY <1>2, <1>4
  <2> QED  BY <1>1, <1>5, <1>6, <2>1, <2>2, <2>3 DEF FollowsLog, m
<1>8. ASSUME NEW p \in Server \ {s} PROVE FollowsLog(p, log[lead])'
  <2>1. FollowsLog(p, m)
    BY DEF ReignInv, LogsOf, m
  <2>2. applied'[p] = applied[p] /\ commitIndex'[p] = commitIndex[p]
    BY <1>0, <1>1
  <2> QED  BY <1>1, <2>1, <2>2 DEF FollowsLog, m
<1>9. LeadGrows(lead)
  <2>1. Agree(m, m, Len(m))
    BY <1>3, AgreeSelf
  <2>2. \A p \in Server : base[p] <= base'[p]
    BY <1>0, <1>1
  <2> QED  BY <1>1, <2>1, <2>2 DEF LeadGrows, m
<1> QED  BY <1>1, <1>7, <1>8, <1>9 DEF AllFollow, LogsKeep

LEMMA LogsOfReign ==
  ASSUME Steady, NEW lead \in Server, ReignInv(lead), [SnapNext]_snapshotVars
  PROVE  /\ LeadGrows(lead) /\ AllFollow(lead)'
         /\ \/ LogsKeep(lead)
            \/ \E r \in installRpcs : InstallSnapshot(r)
<1>0. /\ SnapInv /\ Rules(lead) /\ base \in [Server -> Nat]
  BY DEF ReignInv, SnapInv, SnapTypeOK
<1>1. CASE UNCHANGED <<log, commitIndex, applied, base>>
  BY <1>0, <1>1, SameLogs
<1>2. ASSUME NEW r \in appendRpcs, FollowCommit(r), base' = base
      PROVE  LeadGrows(lead) /\ LogsKeep(lead) /\ AllFollow(lead)'
  <2> DEFINE s == r.to
  <2>1. /\ s \in Server /\ log' = log
        /\ \E c \in Nat :
             /\ commitIndex' = [commitIndex EXCEPT ![s] = c]
             /\ applied' = [applied EXCEPT ![s] = PushedUpTo(c, applied[s], log[s])]
             /\ c <= Len(applied[s]) \/ Agree(log[s], log[lead], c)
    BY <1>2, FollowInReign
  <2> QED  BY <1>2, <2>1, PushLogs
<1>3. ASSUME NEW r \in appendRpcs, CountSuccess(r), base' = base
      PROVE  LeadGrows(lead) /\ LogsKeep(lead) /\ AllFollow(lead)'
  BY <1>3, CountInReign, PushLogs
<1>4. ASSUME NEW s \in Server, NEW i \in DOMAIN log[s], Snapshot(s, i)
      PROVE  LeadGrows(lead) /\ LogsKeep(lead) /\ AllFollow(lead)'
  <2>1. base' = [base EXCEPT ![s] = i] /\ base[s] < i /\ UNCHANGED <<log, commitIndex, applied>>
    BY <1>4 DEF Snapshot, logVars
  <2>2. i \in Nat
    BY LogsInReign
  <2>3. \A p \in Server : base[p] <= base'[p]
    BY <1>0, <2>1, <2>2
  <2> QED  BY <2>1, <2>3, SameLogs
<1> QED  BY <1>0, <1>1, <1>2, <1>3, <1>4, StartLogs, StoreLogs, InstallLogs, RestartLogs, ReignKinds

-----------------------------------------------------------------------------
(* The reign of one leader: what calls tell.                               *)

\* While a call is between two of its sections no snapshot is installed.
LEMMA NoInstallBetween ==
  ASSUME SnapTypeOK, NEW q \in installRpcs, InstallSnapshot(q), NEW r \in appendRpcs
  PROVE  ~Preempted(r)
BY CarefulAssumption DEF InstallSnapshot, CanLock

\* What a call tells of a log, it tells of a longer one.
LEMMA TellsLonger ==
  ASSUME NEW m \in Seq(Entry), NEW q \in Seq(Entry), Agree(m, q, Len(m)),
         NEW prev \in Nat, NEW t \in Nat, NEW es \in Seq(Entry),
         prev + Len(es) <= Len(m), \A k \in DOMAIN es : es[k] = m[prev + k], Matches(m, prev, t)
  PROVE  /\ prev + Len(es) <= Len(q) /\ \A k \in DOMAIN es : es[k] = q[prev + k]
         /\ Matches(q, prev, t)
<1>0. Len(m) \in Nat /\ Len(q) \in Nat /\ Len(es) \in Nat /\ Len(m) <= Len(q)
  BY DEF Agree
<1>1. \A i \in 1..Len(m) : m[i] = q[i]
  BY DEF Agree
<1>2. \A k \in DOMAIN es : prev + k \in 1..Len(m)
  BY <1>0
<1>3. Matches(q, prev, t)
  BY <1>0, <1>1 DEF Matches
<1> QED  BY <1>0, <1>1, <1>2, <1>3

\* r is a part of m, or comes after an entry that no log has.
Tells(r, m) ==
  \/ /\ LastNew(r) <= Len(m)
     /\ \A k \in DOMAIN r.entries : r.entries[k] = m[r.prevLogIndex + k]
     /\ Matches(m, r.prevLogIndex, r.prevLogTerm)
  \/ r.prevLogIndex > 0 /\ r.prevLogTerm = 0 /\ r.stage \in {"sent", "match", "replied", "checked"}

LEMMA CallTells ==
  ASSUME NEW lead, ReignInv(lead), NEW r \in appendRpcs
  PROVE  /\ r.leaderCommit <= LastNew(r) /\ Tells(r, log[lead])
         /\ r.stage = "store" => Agree(log[r.to], log[lead], r.prevLogIndex)
         /\ r.stage = "commit" => Agree(log[r.to], log[lead], LastNew(r))
BY DEF ReignInv, LogsOf, TellsLog, Tells

LEMMA SameCallTells ==
  ASSUME NEW lead \in Server, ReignInv(lead), SnapInv', LeadGrows(lead),
         NEW r \in appendRpcs, NEW x, SameCall(x, r)
  PROVE  /\ LastNew(x) = LastNew(r) /\ x.leaderCommit <= LastNew(x)
         /\ (r.prevLogIndex > 0 => r.prevLogTerm # 0) => Tells(x, log'[lead])
         /\ x.stage \in {"sent", "match", "replied", "checked"} => Tells(x, log'[lead])
         /\ r.stage \in {"store", "commit"} => Tells(x, log'[lead])
<1> DEFINE m == log[lead]
           q == log'[lead]
<1>1. m \in Seq(Entry) /\ q \in Seq(Entry) /\ Agree(m, q, Len(m))
  BY DEF ReignInv, SnapInv, SnapTypeOK, TypeOK, LeadGrows
<1>2. /\ r.prevLogIndex \in Nat /\ r.prevLogTerm \in Nat /\ r.entries \in Seq(Entry)
      /\ LastNew(r) = r.prevLogIndex + Len(r.entries)
  BY CallType DEF ReignInv, SnapInv, SnapTypeOK
<1>3. r.leaderCommit <= LastNew(r) /\ Tells(r, m)
  BY CallTells
<1>4. /\ x.prevLogIndex = r.prevLogIndex /\ x.prevLogTerm = r.prevLogTerm
      /\ x.entries = r.entries /\ x.leaderCommit = r.leaderCommit /\ LastNew(x) = LastNew(r)
  BY DEF SameCall, LastNew
<1> HIDE DEF m, q
<1>5. CASE /\ LastNew(r) <= Len(m)
           /\ \A k \in DOMAIN r.entries : r.entries[k] = m[r.prevLogIndex + k]
           /\ Matches(m, r.prevLogIndex, r.prevLogTerm)
  <2>1. /\ r.prevLogIndex + Len(r.entries) <= Len(q)
        /\ \A k \in DOMAIN r.entries : r.entries[k] = q[r.prevLogIndex + k]
        /\ Matches(q, r.prevLogIndex, r.prevLogTerm)
    <3> DEFINE prev == r.prevLogIndex
               t == r.prevLogTerm
               es == r.entries
    <3>1. /\ prev \in Nat /\ t \in Nat /\ es \in Seq(Entry)
          /\ prev + Len(es) <= Len(m) /\ \A k \in DOMAIN es : es[k] = m[prev + k]
          /\ Matches(m, prev, t)
      BY <1>2, <1>5
    <3> HIDE DEF prev, t, es
    <3>2. /\ prev + Len(es) <= Len(q) /\ \A k \in DOMAIN es : es[k] = q[prev + k]
          /\ Matches(q, prev, t)
      BY <1>1, <3>1, TellsLonger
    <3> QED  BY <3>2 DEF prev, t, es
  <2>2. Tells(x, q)
    BY <1>2, <1>4, <2>1 DEF Tells
  <2> QED  BY <1>3, <1>4, <2>2 DEF q
<1>6. CASE /\ r.prevLogIndex > 0 /\ r.prevLogTerm = 0
           /\ r.stage \in {"sent", "match", "replied", "checked"}
  <2>1. x.stage \in {"sent", "match", "replied", "checked"} => Tells(x, q)
    BY <1>4, <1>6 DEF Tells
  <2> QED  BY <1>3, <1>4, <1>6, <2>1 DEF q
<1> QED  BY <1>3, <1>5, <1>6 DEF Tells

\* A follower that has the entry before those of a call has all before it.
LEMMA PassTells ==
  ASSUME NEW lead \in Server, ReignInv(lead), NEW r \in appendRpcs, PassMatch(r)
  PROVE  /\ r.prevLogIndex > 0 => r.prevLogTerm # 0
         /\ Agree(log[r.to], log[lead], r.prevLogIndex)
<1> DEFINE m == log[lead]
           l == log[r.to]
<1>0. /\ r.prevLogIndex \in Nat /\ r.to \in Server
      /\ m \in Seq(Entry) /\ l \in Seq(Entry) /\ Like(l, m)
  <2>1. r.prevLogIndex \in Nat /\ r.to \in Server
    BY CallType DEF ReignInv, SnapInv, SnapTypeOK
  <2> QED  BY <2>1, LogsInReign
<1>1. Matches(l, r.prevLogIndex, r.prevLogTerm)
  BY DEF PassMatch
<1>2. Tells(r, m)
  BY CallTells
<1> HIDE DEF m, l
<1>3. CASE r.prevLogIndex = 0
  BY <1>0, <1>3 DEF Agree, m, l
<1>4. CASE r.prevLogIndex > 0
  <2>1. r.prevLogIndex \in DOMAIN l /\ l[r.prevLogIndex].term = r.prevLogTerm
    BY <1>1, <1>4 DEF Matches
  <2>2. l[r.prevLogIndex].term > 0
    BY <1>0, <2>1 DEF Like
  <2>3. r.prevLogTerm # 0
    BY <2>1, <2>2
  <2>4. Matches(m, r.prevLogIndex, r.prevLogTerm)
    BY <1>2, <2>3 DEF Tells
  <2>5. r.prevLogIndex \in DOMAIN m /\ m[r.prevLogIndex].term = r.prevLogTerm
    BY <1>4, <2>4 DEF Matches
  <2>6. Agree(l, m, r.prevLogIndex)
    BY <1>0, <2>1, <2>5 DEF Like
  <2> QED  BY <2>3, <2>6 DEF m, l
<1> QED  BY <1>0, <1>3, <1>4

\* A new call has the leader's log after the entry before it, if that is in the log.
LEMMA NewCallTells ==
  ASSUME NEW lead \in Server, ReignInv(lead), NEW p \in Server, SendAppendEntries(lead, p)
  PROVE  LET x == NewCall(lead, p)
         IN /\ TellsLog(x, log[lead]) /\ x.stage = "sent" /\ ~x.success /\ x.conflictIndex = 0
            /\ x.prevLogIndex = nextIndex[lead][p] - 1 /\ nextIndex[lead][p] \in Nat \ {0}
            /\ nextIndex[lead][p] <= Len(log[lead]) + 1 => LastNew(x) = Len(log[lead])
            /\ log' = log
<1> DEFINE m == log[lead]
           n == nextIndex[lead][p]
           prev == n - 1
           x == NewCall(lead, p)
<1>0. state[lead] = "Leader" /\ log' = log
  BY DEF SendAppendEntries, logVars
<1>1. /\ n \in Nat \ {0} /\ m \in Seq(Entry)
  <2>1. n \in Nat /\ m \in Seq(Entry)
    BY DEF ReignInv, SnapInv, SnapTypeOK, TypeOK
  <2>2. n # 0
    BY <1>0 DEF ReignInv, SnapInv, LeaderHasNextIndexes
  <2> QED  BY <2>1, <2>2
<1>2. prev \in Nat /\ Len(m) \in Nat
  BY <1>1
<1>3. /\ x.prevLogIndex = prev /\ x.prevLogTerm = TermAt(m, prev)
      /\ x.entries = SubSeq(m, prev + 1, Len(m)) /\ x.leaderCommit = commitIndex[lead]
      /\ x.stage = "sent" /\ ~x.success /\ x.conflictIndex = 0
  BY DEF NewCall
<1>4. /\ commitIndex[lead] \in Nat /\ commitIndex[lead] <= Len(applied[lead])
      /\ Len(applied[lead]) <= Len(m) /\ Len(applied[lead]) \in Nat
  BY LogsInReign
<1> HIDE DEF m, prev, x
<1>5. CASE prev <= Len(m)
  <2>1. /\ Len(x.entries) = Len(m) - prev
        /\ \A k \in DOMAIN x.entries : x.entries[k] = m[prev + k]
    <3>1. /\ prev + 1 \in 1..(Len(m) + 1) /\ Len(m) \in Nat
      BY <1>2, <1>5
    <3>2. Len(SubSeq(m, prev + 1, Len(m))) = Len(m) - prev
      BY <1>1, <1>2, <1>5, <3>1
    <3>3. \A k \in 1..(Len(m) - prev) : SubSeq(m, prev + 1, Len(m))[k] = m[prev + k]
      BY <1>1, <1>2, <1>5, <3>1
    <3>4. DOMAIN SubSeq(m, prev + 1, Len(m)) = 1..(Len(m) - prev)
      BY <1>1, <1>2, <3>2
    <3> QED  BY <1>3, <3>2, <3>3, <3>4
  <2>2. LastNew(x) = Len(m)
    BY <1>2, <1>3, <2>1 DEF LastNew
  <2>3. Matches(m, prev, TermAt(m, prev))
    BY <1>1, <1>2, <1>5 DEF Matches, TermAt
  <2>4. x.leaderCommit <= LastNew(x) /\ LastNew(x) <= Len(m)
    BY <1>2, <1>3, <1>4, <2>2
  <2>5. TellsLog(x, m)
    BY <1>3, <2>1, <2>3, <2>4 DEF TellsLog
  <2> QED  BY <1>0, <1>1, <1>3, <2>2, <2>5 DEF m, prev, x
<1>6. CASE prev > Len(m)
  <2>1. x.entries = << >>
    BY <1>1, <1>2, <1>3, <1>6
  <2>2. LastNew(x) = prev
    BY <1>2, <1>3, <2>1 DEF LastNew
  <2>3. x.prevLogIndex > 0 /\ x.prevLogTerm = 0
    BY <1>1, <1>2, <1>3, <1>6 DEF TermAt
  <2>4. x.leaderCommit <= LastNew(x)
    BY <1>2, <1>3, <1>4, <1>6, <2>2
  <2>5. TellsLog(x, m)
    BY <1>3, <2>3, <2>4 DEF TellsLog
  <2>6. ~(n <= Len(m) + 1)
    BY <1>1, <1>2, <1>6 DEF prev
  <2> QED  BY <1>0, <1>1, <1>3, <2>5, <2>6 DEF m, prev, x
<1> QED  BY <1>2, <1>5, <1>6

LEMMA TellsLogStep ==
  ASSUME Steady, NEW lead \in Server, ReignInv(lead), SnapInv', [SnapNext]_snapshotVars
  PROVE  \A x \in appendRpcs' : TellsLog(x, log[lead])'
<1>0. /\ SnapTypeOK /\ TypeOK /\ LogPersisted /\ SnapshotFits /\ LeadGrows(lead)
      /\ LogsKeep(lead) \/ \E q \in installRpcs : InstallSnapshot(q)
      /\ \A s \in Server : state[s] = "Leader" => s = lead
  BY LogsOfReign DEF ReignInv, SnapInv, SnapTypeOK, Rules
<1>1. ASSUME NEW r \in appendRpcs, NEW x, Waits(x, r) PROVE TellsLog(x, log[lead])'
  <2>1. /\ SameCall(x, r) /\ x.stage = r.stage /\ LastNew(x) = LastNew(r)
    BY <1>1 DEF Waits, SameCall, LastNew
  <2>2. /\ x.leaderCommit <= LastNew(x)
        /\ x.stage \in {"sent", "match", "replied", "checked"} => Tells(x, log'[lead])
        /\ r.stage \in {"store", "commit"} => Tells(x, log'[lead])
    BY <1>0, <2>1, SameCallTells DEF ReignInv
  <2>3. Tells(x, log'[lead])
    <3>1. r.stage \in {"sent", "match", "store", "commit", "replied", "checked"}
      BY <1>0 DEF TypeOK, AppendRpc
    <3> QED  BY <2>1, <2>2, <3>1
  <2>4. /\ r.to \in Server /\ r.prevLogIndex \in Nat /\ LastNew(r) \in Nat
    BY <1>0, CallType
  <2>5. /\ r.stage = "store" => Agree(log'[r.to], log'[lead], r.prevLogIndex)
        /\ r.stage = "commit" => Agree(log'[r.to], log'[lead], LastNew(r))
    <3>1. CASE ~Preempted(r)
      BY <3>1 DEF Preempted
    <3>2. CASE Preempted(r)
      <4>1. LogsKeep(lead)
        BY <1>0, <3>2, NoInstallBetween
      <4> QED  BY <2>4, <4>1, CallTells DEF LogsKeep
    <3> QED  BY <3>1, <3>2
  <2>6. x.to = r.to /\ x.prevLogIndex = r.prevLogIndex
    BY <2>1 DEF SameCall
  <2> QED  BY <2>1, <2>2, <2>3, <2>5, <2>6 DEF TellsLog, Tells, LastNew
<1>2. ASSUME NEW r \in appendRpcs, NEW x, Goes(x, r) PROVE TellsLog(x, log[lead])'
  <2>1. SameCall(x, r)
    BY <1>2 DEF Goes
  <2>2. /\ x.leaderCommit <= LastNew(x) /\ LastNew(x) = LastNew(r)
        /\ (r.prevLogIndex > 0 => r.prevLogTerm # 0) => Tells(x, log'[lead])
        /\ x.stage \in {"sent", "match", "replied", "checked"} => Tells(x, log'[lead])
        /\ r.stage \in {"store", "commit"} => Tells(x, log'[lead])
    BY <1>0, <2>1, SameCallTells DEF ReignInv
  <2>3. /\ x.to = r.to /\ x.prevLogIndex = r.prevLogIndex
    BY <2>1 DEF SameCall
  <2>4. CASE PassMatch(r) /\ x.stage = "store"
    <3>1. /\ r.prevLogIndex > 0 => r.prevLogTerm # 0
          /\ Agree(log[r.to], log[lead], r.prevLogIndex)
      BY <2>4, PassTells
    <3>2. log' = log
      BY <2>4 DEF PassMatch, logVars
    <3>3. Tells(x, log'[lead])
      BY <2>2, <3>1
    <3> QED  BY <2>2, <2>3, <2>4, <3>1, <3>2, <3>3 DEF TellsLog, Tells, LastNew
  <2>5. CASE StoreEntries(r) /\ x.stage = "commit"
    <3>1. Agree(log'[r.to], log[lead], LastNew(r)) /\ log'[lead] = log[lead]
      <4>1. /\ r.to \in Server \ {lead}
            /\ log' = [log EXCEPT ![r.to] = Stored(log[r.to], r.prevLogIndex, r.entries)]
            /\ Agree(log'[r.to], log[lead], LastNew(r))
        BY <2>5, StoreInReign
      <4> QED  BY <1>0, <4>1 DEF TypeOK
    <3>2. r.stage = "store"
      BY <2>5 DEF StoreEntries
    <3>3. Tells(x, log'[lead])
      BY <2>2, <3>2
    <3> QED  BY <2>2, <2>3, <2>5, <3>1, <3>3 DEF TellsLog, Tells, LastNew
  <2>6. CASE x.stage \in {"match", "replied", "checked"}
    BY <2>2, <2>6 DEF TellsLog, Tells, LastNew
  <2> QED  BY <1>2, <2>4, <2>5, <2>6 DEF Goes
<1>3. ASSUME NEW x, NEW s \in Server, NEW p \in Peers(s), SendAppendEntries(s, p),
             x = NewCall(s, p)
      PROVE  TellsLog(x, log[lead])'
  <2>1. s = lead /\ p \in Server
    BY <1>0, <1>3 DEF SendAppendEntries, Peers
  <2>2. TellsLog(x, log[lead]) /\ log' = log
    BY <1>3, <2>1, NewCallTells
  <2> QED  BY <2>1, <2>2 DEF TellsLog, LastNew
<1>4. ASSUME NEW x \in appendRpcs' PROVE TellsLog(x, log[lead])'
  BY <1>0, <1>1, <1>2, <1>3, CallsMoveStep DEF CallsMove
<1> QED  BY <1>4

LEMMA TellsSnapshotStep ==
  ASSUME Steady, NEW lead \in Server, ReignInv(lead), SnapInv', [SnapNext]_snapshotVars
  PROVE  \A x \in installRpcs' :
           TellsSnapshot(x, log[lead])' /\ Len(x.data) <= base'[lead]
<1>0. /\ SnapInv /\ SnapTypeOK /\ SnapshotFits /\ LeadGrows(lead) /\ Rules(lead) /\ CallsOf(lead)
      /\ \A s \in Server : state[s] = "Leader" => s = lead
  BY LogsOfReign DEF ReignInv, SnapInv, Rules
<1>1. /\ log[lead] \in Seq(Entry) /\ log'[lead] \in Seq(Entry)
      /\ base[lead] \in Nat /\ base'[lead] \in Nat /\ base[lead] <= base'[lead]
      /\ Agree(log[lead], log'[lead], Len(log[lead]))
  BY <1>0 DEF SnapInv, SnapTypeOK, TypeOK, LeadGrows
<1>2. ASSUME NEW d \in Seq(Entry), Len(d) > 0, Agree(d, log[lead], Len(d)), Len(d) <= base[lead]
      PROVE  Agree(d, log'[lead], Len(d)) /\ Len(d) <= base'[lead]
  <2>1. Len(d) \in Nat /\ Len(log[lead]) \in Nat /\ Len(d) <= Len(log[lead]) /\ Len(d) <= Len(d)
    BY <1>1, <1>2 DEF Agree
  <2>2. Agree(d, log'[lead], Len(d))
    BY <1>1, <1>2, <2>1, AgreeVia
  <2>3. Len(d) <= base'[lead]
    BY <1>1, <1>2, <2>1
  <2> QED  BY <2>2, <2>3
<1>3. ASSUME NEW r \in installRpcs, NEW x, x.data = r.data
      PROVE  TellsSnapshot(x, log[lead])' /\ Len(x.data) <= base'[lead]
  <2>1. r.data \in Seq(Entry)
    BY <1>0, InstallType
  <2>2. Len(r.data) > 0 /\ Agree(r.data, log[lead], Len(r.data)) /\ Len(r.data) <= base[lead]
    BY DEF ReignInv, LogsOf, TellsSnapshot
  <2> QED  BY <1>2, <1>3, <2>1, <2>2 DEF TellsSnapshot
<1>4. ASSUME NEW s \in Server, NEW x, state[s] = "Leader", 0 < base[s],
             UNCHANGED <<log, base>>, x.data = SubSeq(log[s], 1, base[s])
      PROVE  TellsSnapshot(x, log[lead])' /\ Len(x.data) <= base'[lead]
  <2>1. s = lead
    BY <1>0, <1>4
  <2>2. /\ SubSeq(log[lead], 1, base[lead]) \in Seq(Entry)
        /\ Len(SubSeq(log[lead], 1, base[lead])) = base[lead]
        /\ Agree(SubSeq(log[lead], 1, base[lead]), log[lead], base[lead])
    BY <1>0, TriggeredType
  <2>3. x.data \in Seq(Entry) /\ Len(x.data) = base[lead] /\ Agree(x.data, log[lead], base[lead])
    BY <1>4, <2>1, <2>2
  <2>4. Len(x.data) > 0 /\ Len(x.data) <= base[lead]
    BY <1>1, <1>4, <2>1, <2>3
  <2> QED  BY <1>2, <2>3, <2>4 DEF TellsSnapshot
<1>5. InstallsMove
  BY <1>0, InstallsMoveStep
<1> QED  BY <1>3, <1>4, <1>5 DEF InstallsMove

-----------------------------------------------------------------------------
(* The reign of one leader: its indexes.                                   *)

IndexMoves(s, p) ==
  \/ matchIndex'[s][p] = matchIndex[s][p] /\ nextIndex'[s][p] = nextIndex[s][p]
  \/ \E r \in appendRpcs :
       /\ CountSuccess(r) /\ r.from = s /\ r.to = p
       /\ matchIndex'[s][p] \in {matchIndex[s][p], LastNew(r)}
       /\ nextIndex'[s][p] = matchIndex'[s][p] + 1
  \/ \E r \in appendRpcs :
       /\ BackUpFrom(r) /\ r.from = s /\ r.to = p /\ matchIndex'[s][p] = matchIndex[s][p]
       /\ nextIndex'[s][p] = BackedUpFrom(nextIndex[s][p], r.conflictIndex, s)
  \/ \E r \in installRpcs :
       matchIndex'[s][p] = base[s] /\ nextIndex'[s][p] = base[s] + 1

LEMMA IndexMovesStep ==
  ASSUME SnapInv, NEW lead \in Server, Rules(lead), state'[lead] = "Leader",
         [SnapNext]_snapshotVars
  PROVE  \A p \in Server : IndexMoves(lead, p)
<1>0. /\ SnapTypeOK /\ TypeOK /\ LeaderHasNextIndexes /\ SnapshotFits /\ LogPersisted
      /\ matchIndex \in [Server -> [Server -> Nat]] /\ nextIndex \in [Server -> [Server -> Nat]]
      /\ \A s \in Server : state[s] = "Leader" => s = lead
  BY DEF SnapInv, SnapTypeOK, TypeOK, Rules
<1>1. CASE UNCHANGED <<matchIndex, nextIndex>>
  BY <1>1 DEF IndexMoves
<1>2. ASSUME NEW r \in appendRpcs, CountSuccess(r)
      PROVE  \A p \in Server : IndexMoves(lead, p)
  <2> DEFINE s == r.from
             m == Max({matchIndex[s][r.to], LastNew(r)})
  <2>1. /\ s \in Server /\ r.to \in Server /\ state[s] = "Leader" /\ m \in Nat
        /\ m \in {matchIndex[s][r.to], LastNew(r)}
        /\ matchIndex' = [matchIndex EXCEPT ![s][r.to] = m]
        /\ nextIndex' = [nextIndex EXCEPT ![s][r.to] = m + 1]
    BY <1>0, <1>2, CountDoes
  <2>2. s = lead
    BY <1>0, <2>1
  <2> HIDE DEF m
  <2>3. /\ matchIndex'[lead][r.to] = m /\ nextIndex'[lead][r.to] = m + 1
        /\ \A p \in Server \ {r.to} : /\ matchIndex'[lead][p] = matchIndex[lead][p]
                                      /\ nextIndex'[lead][p] = nextIndex[lead][p]
    BY <1>0, <2>1, <2>2
  <2> QED  BY <1>2, <2>1, <2>2, <2>3 DEF IndexMoves
<1>3. ASSUME NEW r \in appendRpcs, BackUpFrom(r)
      PROVE  \A p \in Server : IndexMoves(lead, p)
  <2> DEFINE s == r.from
             n == BackedUpFrom(nextIndex[s][r.to], r.conflictIndex, s)
  <2>1. /\ s \in Server /\ r.to \in Server /\ state[s] = "Leader"
        /\ nextIndex'[s][r.to] = n /\ matchIndex' = matchIndex
        /\ \A q, p \in Server : q # s \/ p # r.to => nextIndex'[q][p] = nextIndex[q][p]
    BY <1>0, <1>3, BackUpFromDoes
  <2>2. s = lead
    BY <1>0, <2>1
  <2> QED  BY <1>3, <2>1, <2>2 DEF IndexMoves
<1>4. ASSUME NEW r \in installRpcs, HearInstalled(r)
      PROVE  \A p \in Server : IndexMoves(lead, p)
  <2> DEFINE s == r.from
  <2>1. state[s] = "Leader" /\ s \in Server
    BY <1>0, <1>4, HearInstalledDoes
  <2>2. \A q, p \in Server :
          \/ matchIndex'[q][p] = matchIndex[q][p] /\ nextIndex'[q][p] = nextIndex[q][p]
          \/ q = s /\ p = r.to /\ matchIndex'[q][p] = base[s] /\ nextIndex'[q][p] = base[s] + 1
    BY <1>0, <1>4, HearInstalledDoes
  <2>3. s = lead
    BY <1>0, <2>1
  <2> HIDE DEF s
  <2> QED  BY <2>2, <2>3 DEF IndexMoves
<1>5. CASE RaftSteps
  <2>1. ASSUME NEW s \in Server, NEW c \in Command, Start(s, c)
        PROVE  UNCHANGED <<matchIndex, nextIndex>>
    BY <2>1 DEF Start, leaderVars
  <2>2. ASSUME NEW s \in Server, NEW p \in Peers(s), SendAppendEntries(s, p)
        PROVE  UNCHANGED <<matchIndex, nextIndex>>
    BY <2>2 DEF SendAppendEntries, leaderVars
  <2>3. ASSUME NEW r \in appendRpcs,
               \/ RefuseStaleAppend(r) \/ AcceptAppend(r) \/ PassMatch(r) \/ StoreEntries(r)
               \/ FollowCommit(r) \/ DeposedByReply(r) \/ CheckReply(r) \/ DropAppend(r)
        PROVE  UNCHANGED <<matchIndex, nextIndex>>
    BY <2>3 DEF RefuseStaleAppend, AcceptAppend, PassMatch, StoreEntries, FollowCommit,
                DeposedByReply, CheckReply, DropAppend, leaderVars
  <2>4. CASE UNCHANGED vars
    BY <1>1, <2>4 DEF vars, leaderVars
  <2> QED  BY <1>0, <1>1, <1>2, <1>5, <2>1, <2>2, <2>3, <2>4, NoElections DEF RaftSteps
<1>6. ASSUME NEW r \in appendRpcs, RefuseFrom(r) PROVE UNCHANGED <<matchIndex, nextIndex>>
  BY <1>6 DEF RefuseFrom, leaderVars
<1>7. ASSUME NEW r \in Calls, Expire(r) PROVE UNCHANGED <<matchIndex, nextIndex>>
  BY <1>7 DEF Expire, leaderVars
<1>8. ASSUME NEW r \in installRpcs, InstallSnapshot(r) PROVE UNCHANGED <<matchIndex, nextIndex>>
  BY <1>8 DEF InstallSnapshot, leaderVars
<1>9. ASSUME NEW s \in Server, NEW i \in DOMAIN log[s], Snapshot(s, i)
      PROVE  UNCHANGED <<matchIndex, nextIndex>>
  BY <1>9 DEF Snapshot, leaderVars
<1>10. ASSUME NEW s \in Server, RestartFrom(s) PROVE \A p \in Server : IndexMoves(lead, p)
  <2>1. PICK done : Reboot(s, done)
    BY <1>10 DEF RestartFrom
  <2>2. /\ BecomeFollower(s)
        /\ nextIndex' = [nextIndex EXCEPT ![s] = [p \in Server |-> 0]]
        /\ matchIndex' = [matchIndex EXCEPT ![s] = [p \in Server |-> 0]]
    BY <2>1 DEF Reboot
  <2>3. s # lead
    BY <1>0, <2>2 DEF BecomeFollower, TypeOK
  <2>4. matchIndex'[lead] = matchIndex[lead] /\ nextIndex'[lead] = nextIndex[lead]
    BY <1>0, <2>2, <2>3
  <2> QED  BY <2>4 DEF IndexMoves
<1> QED
  BY <1>0, <1>1, <1>3, <1>4, <1>5, <1>6, <1>7, <1>8, <1>9, <1>10, StepKinds

\* As long as nobody has taken a snapshot, none is sent or installed.
LEMMA NobodyForgets ==
  ASSUME Steady, NEW lead \in Server, ReignInv(lead), SnapInv', [SnapNext]_snapshotVars,
         NobodyForgot'
  PROVE  NobodyForgot /\ installRpcs = {} /\ LogsKeep(lead)
<1>0. /\ base \in [Server -> Nat] /\ base' \in [Server -> Nat] /\ SnapTypeOK
      /\ \A s \in Server : base[s] <= base'[s]
      /\ LogsKeep(lead) \/ \E r \in installRpcs : InstallSnapshot(r)
  BY LogsOfReign DEF ReignInv, SnapInv, SnapTypeOK, LeadGrows
<1>1. NobodyForgot
  BY <1>0 DEF NobodyForgot
<1>2. installRpcs = {}
  <2>1. ASSUME NEW r \in installRpcs PROVE FALSE
    <3>1. Len(r.data) > 0 /\ Len(r.data) <= base[lead]
      BY DEF ReignInv, LogsOf, TellsSnapshot
    <3>2. base[lead] = 0
      BY <1>1 DEF NobodyForgot
    <3>3. Len(r.data) \in Nat
      BY <1>0, InstallType
    <3> QED  BY <3>1, <3>2, <3>3
  <2> QED  BY <2>1
<1> QED  BY <1>0, <1>1, <1>2

\* What followers acknowledge they have, and keep as long as nobody forgets anything.
LEMMA AcksOfStep ==
  ASSUME Steady, NEW lead \in Server, ReignInv(lead), SnapInv', [SnapNext]_snapshotVars
  PROVE  AcksOf(lead)'
<1> SUFFICES ASSUME NobodyForgot'
             PROVE  /\ \A p \in Peers(lead) : state'[lead] = "Leader" =>
                         Agree(log'[p], log'[lead], matchIndex'[lead][p])
                    /\ \A x \in appendRpcs' : x.stage \in {"replied", "checked"} /\ x.success =>
                         Agree(log'[x.to], log'[lead], LastNew(x))
  BY DEF AcksOf, Peers, LastNew
<1>0. /\ SnapInv /\ Rules(lead) /\ CallsOf(lead) /\ SnapTypeOK /\ TypeOK /\ LogPersisted
      /\ SnapshotFits /\ matchIndex \in [Server -> [Server -> Nat]]
      /\ \A s \in Server : state'[s] = "Leader" => state[s] = "Leader"
      /\ LogsKeep(lead) /\ installRpcs = {}
  BY NobodyForgets, RulesStep DEF ReignInv, SnapInv, SnapTypeOK, TypeOK
<1>1. /\ \A p \in Peers(lead) :
           state[lead] = "Leader" => Agree(log[p], log[lead], matchIndex[lead][p])
      /\ \A r \in appendRpcs :
           r.stage \in {"replied", "checked"} /\ r.success => Agree(log[r.to], log[lead], LastNew(r))
  BY NobodyForgets DEF ReignInv, AcksOf
<1>2. ASSUME NEW p \in Peers(lead), state'[lead] = "Leader"
      PROVE  Agree(log'[p], log'[lead], matchIndex'[lead][p])
  <2>1. p \in Server /\ state[lead] = "Leader"
    BY <1>0, <1>2 DEF Peers
  <2>2. Agree(log[p], log[lead], matchIndex[lead][p]) /\ matchIndex[lead][p] \in Nat
    BY <1>0, <1>1, <2>1
  <2>3. ASSUME NEW r \in appendRpcs, CountSuccess(r), r.to = p
        PROVE  Agree(log[p], log[lead], LastNew(r)) /\ LastNew(r) \in Nat
    BY <1>0, <1>1, <2>3, CallType DEF CountSuccess
  <2>4. IndexMoves(lead, p)
    BY <1>0, <1>2, <2>1, IndexMovesStep
  <2>5. \/ matchIndex'[lead][p] = matchIndex[lead][p]
        \/ \E r \in appendRpcs : CountSuccess(r) /\ r.to = p /\ matchIndex'[lead][p] = LastNew(r)
    BY <1>0, <2>4 DEF IndexMoves
  <2>6. Agree(log[p], log[lead], matchIndex'[lead][p]) /\ matchIndex'[lead][p] \in Nat
    BY <2>2, <2>3, <2>5
  <2> QED  BY <1>0, <2>1, <2>6 DEF LogsKeep
<1>3. ASSUME NEW x \in appendRpcs', x.stage \in {"replied", "checked"}, x.success
      PROVE  Agree(log'[x.to], log'[lead], LastNew(x))
  <2>1. ASSUME NEW r \in appendRpcs, SameCall(x, r), Agree(log[r.to], log[lead], LastNew(r))
        PROVE  Agree(log'[x.to], log'[lead], LastNew(x))
    <3>1. r.to \in Server /\ LastNew(r) \in Nat
      BY <1>0, CallType
    <3>2. x.to = r.to /\ LastNew(x) = LastNew(r)
      BY <2>1 DEF SameCall, LastNew
    <3> QED  BY <1>0, <2>1, <3>1, <3>2 DEF LogsKeep
  <2>2. ASSUME NEW r \in appendRpcs, Waits(x, r) PROVE Agree(log[r.to], log[lead], LastNew(r))
    BY <1>1, <1>3, <2>2 DEF Waits
  <2>3. ASSUME NEW r \in appendRpcs, Goes(x, r) PROVE Agree(log[r.to], log[lead], LastNew(r))
    <3>1. CASE FollowCommit(r)
      BY <3>1, FollowInReign
    <3>2. CASE CheckReply(r) /\ x.success = r.success
      BY <1>1, <1>3, <3>2 DEF CheckReply, CurrentReply
    <3> QED  BY <1>3, <2>3, <3>1, <3>2 DEF Goes
  <2>4. ASSUME NEW s \in Server, NEW p \in Peers(s), x = NewCall(s, p) PROVE FALSE
    BY <1>3, <2>4 DEF NewCall
  <2>5. CallsMove
    BY <1>0, CallsMoveStep
  <2> QED  BY <2>1, <2>2, <2>3, <2>4, <2>5 DEF CallsMove, Waits, Goes
<1> QED  BY <1>2, <1>3

LEMMA StepReignInv ==
  ASSUME Steady, NEW lead \in Server, ReignInv(lead), [SnapNext]_snapshotVars
  PROVE  ReignInv(lead)'
<1>0. SnapInv /\ Rules(lead) /\ CallsOf(lead)
  BY DEF ReignInv
<1>1. SnapInv'
  BY <1>0, StepSnapInv
<1>2. Rules(lead)' /\ CallsOf(lead)'
  BY <1>0, <1>1, RulesStep, CallsOfStep
<1>3. LogsOf(lead)'
  <2>1. AllFollow(lead)'
    BY LogsOfReign
  <2>2. \A x \in appendRpcs' : TellsLog(x, log[lead])'
    BY <1>1, TellsLogStep
  <2>3. \A x \in installRpcs' : TellsSnapshot(x, log[lead])' /\ Len(x.data) <= base'[lead]
    BY <1>1, TellsSnapshotStep
  <2> QED  BY <2>1, <2>2, <2>3 DEF LogsOf, AllFollow
<1>4. AcksOf(lead)'
  BY <1>1, AcksOfStep
<1> QED  BY <1>1, <1>2, <1>3, <1>4 DEF ReignInv

-----------------------------------------------------------------------------
(* The reign of one leader, with a careful caller of snapshot().           *)

\* Only lead takes a snapshot, and none of its calls is waited for then.
LEMMA CarefulSnapshots ==
  ASSUME CarefulCaller, Steady, NEW lead \in Server, ReignInv(lead), CareOf(lead),
         [SnapNext]_snapshotVars
  PROVE  /\ \A s \in Server : base'[s] <= base'[lead]
         /\ \/ base'[lead] = base[lead]
            \/ appendRpcs' = appendRpcs /\ \A r \in appendRpcs : ~r.live
<1>0. /\ SnapInv /\ SnapTypeOK /\ Rules(lead) /\ CallsOf(lead)
      /\ \A s \in Server : state[s] = "Leader" => s = lead
      /\ base \in [Server -> Nat] /\ \A s \in Server : base[s] <= base[lead]
  BY DEF ReignInv, SnapInv, SnapTypeOK, Rules, CareOf
<1>1. CASE base' = base
  BY <1>0, <1>1
<1>2. ASSUME NEW r \in installRpcs, InstallSnapshot(r)
      PROVE  base'[lead] = base[lead] /\ \A s \in Server : base'[s] <= base'[lead]
  <2>1. /\ r.to \in Server \ {lead} /\ Len(r.data) <= base[lead] /\ Len(r.data) \in Nat
    BY <1>0, CallsOfReign, InstallType DEF Calls, ReignInv, LogsOf
  <2>2. base' = base \/ base' = [base EXCEPT ![r.to] = Len(r.data)]
    BY <1>0, <1>2, InstallDoes
  <2> QED  BY <1>0, <2>1, <2>2
<1>3. ASSUME NEW s \in Server, NEW i \in DOMAIN log[s], Snapshot(s, i)
      PROVE  /\ \A p \in Server : base'[p] <= base'[lead]
             /\ appendRpcs' = appendRpcs /\ \A r \in appendRpcs : ~r.live
  <2>1. /\ state[s] = "Leader" /\ Settled(s) /\ base[s] < i
        /\ base' = [base EXCEPT ![s] = i] /\ appendRpcs' = appendRpcs
    BY <1>3 DEF Snapshot
  <2>2. s = lead
    BY <1>0, <2>1
  <2>3. \A r \in appendRpcs : ~r.live
    BY <1>0, <2>1, <2>2, CallsOfReign DEF Settled, Calls
  <2>4. i \in Nat
    BY LogsInReign
  <2>5. \A p \in Server : base'[p] <= base'[lead]
    BY <1>0, <2>1, <2>2, <2>4
  <2> QED  BY <2>1, <2>3, <2>5
<1>4. ASSUME NEW s \in Server, RestartFrom(s) PROVE base' = base
  BY <1>0, <1>4, SteadyRestart
<1> QED  BY <1>0, <1>1, <1>2, <1>3, <1>4, ReignKinds

LEMMA CareOfCallsStep ==
  ASSUME CarefulCaller, Steady, NEW lead \in Server, ReignInv(lead), ReignInv(lead)',
         CareOf(lead), [SnapNext]_snapshotVars, NEW x \in appendRpcs'
  PROVE  /\ x.live => base'[lead] <= x.prevLogIndex
         /\ x.prevLogIndex <= Len(log'[lead]) /\ LastNew(x) <= Len(log'[lead])
         /\ x.conflictIndex <= x.prevLogIndex
<1>0. /\ SnapInv /\ SnapTypeOK /\ TypeOK /\ LogPersisted /\ SnapshotFits
      /\ Rules(lead) /\ CallsOf(lead)
      /\ \A s \in Server : state[s] = "Leader" => s = lead
      /\ \A s \in Server : base[s] \in Nat /\ base[s] <= base[lead]
  BY DEF ReignInv, SnapInv, SnapTypeOK, Rules, CareOf
<1>1. /\ Len(log[lead]) \in Nat /\ Len(log'[lead]) \in Nat /\ Len(log[lead]) <= Len(log'[lead])
  <2>1. log[lead] \in Seq(Entry) /\ log'[lead] \in Seq(Entry)
    BY DEF ReignInv, SnapInv, SnapTypeOK, TypeOK
  <2>2. Agree(log[lead], log'[lead], Len(log[lead]))
    BY LogsOfReign DEF LeadGrows
  <2> QED  BY <2>1, <2>2 DEF Agree
<1>2. ASSUME NEW r \in appendRpcs
      PROVE  /\ r.live => base[lead] <= r.prevLogIndex
             /\ r.prevLogIndex <= Len(log[lead]) /\ LastNew(r) <= Len(log[lead])
             /\ r.conflictIndex <= r.prevLogIndex
             /\ r.prevLogIndex \in Nat /\ LastNew(r) \in Nat /\ r.to \in Server
  BY <1>0, CallType DEF CareOf
<1>3. ASSUME NEW r \in appendRpcs, Waits(x, r) \/ Goes(x, r)
      PROVE  /\ x.live => base'[lead] <= x.prevLogIndex
             /\ x.prevLogIndex <= Len(log'[lead]) /\ LastNew(x) <= Len(log'[lead])
             /\ x.conflictIndex <= x.prevLogIndex
  <2>1. /\ x.prevLogIndex = r.prevLogIndex /\ LastNew(x) = LastNew(r) /\ (x.live => r.live)
    BY <1>3 DEF Waits, Goes, SameCall, LastNew
  <2>2. x.live => base'[lead] <= x.prevLogIndex
    BY <1>0, <1>2, <2>1, CarefulSnapshots
  <2>3. x.prevLogIndex <= Len(log'[lead]) /\ LastNew(x) <= Len(log'[lead])
    BY <1>1, <1>2, <2>1
  <2>4. x.conflictIndex <= x.prevLogIndex
    <3>1. ~(r.prevLogIndex < base[r.to] /\ r.live)
      <4>1. base[r.to] <= base[lead] /\ base[r.to] \in Nat /\ base[lead] \in Nat
        BY <1>0, <1>2
      <4> QED  BY <1>2, <4>1
    <3>2. x.conflictIndex = r.conflictIndex \/ x.conflictIndex <= r.prevLogIndex
      BY <1>3, <3>1 DEF Waits, Goes
    <3> QED  BY <1>2, <2>1, <3>2
  <2> QED  BY <2>2, <2>3, <2>4
<1>4. ASSUME NEW s \in Server, NEW p \in Peers(s), SendAppendEntries(s, p),
             ~NeedsSnapshot(nextIndex[s][p], s), x = NewCall(s, p)
      PROVE  /\ x.live => base'[lead] <= x.prevLogIndex
             /\ x.prevLogIndex <= Len(log'[lead]) /\ LastNew(x) <= Len(log'[lead])
             /\ x.conflictIndex <= x.prevLogIndex
  <2>1. s = lead /\ p \in Server /\ p \in Peers(lead) /\ state[lead] = "Leader"
    BY <1>0, <1>4 DEF SendAppendEntries, Peers
  <2>2. /\ x.conflictIndex = 0 /\ x.prevLogIndex = nextIndex[lead][p] - 1
        /\ nextIndex[lead][p] \in Nat \ {0}
        /\ nextIndex[lead][p] <= Len(log[lead]) + 1 => LastNew(x) = Len(log[lead])
    BY <1>4, <2>1, NewCallTells
  <2>3. nextIndex[lead][p] <= Len(log[lead]) + 1
    BY <2>1 DEF CareOf
  <2>4. /\ x.prevLogIndex <= Len(log'[lead]) /\ LastNew(x) <= Len(log'[lead])
        /\ x.conflictIndex <= x.prevLogIndex
    BY <1>1, <2>2, <2>3
  <2>5. base'[lead] <= x.prevLogIndex
    <3>1. base[lead] < nextIndex[lead][p]
      BY <1>0, <1>4, <2>1, <2>2 DEF NeedsSnapshot
    <3>2. base'[lead] = base[lead]
      <4>1. appendRpcs' = appendRpcs \cup {NewCall(lead, p)}
        BY <1>4, <2>1 DEF SendAppendEntries, NewCall
      <4>2. x.live
        BY <1>4 DEF NewCall
      <4>3. x \in appendRpcs'
        OBVIOUS
      <4> QED  BY <4>2, <4>3, CarefulSnapshots
    <3> QED  BY <1>0, <2>2, <3>1, <3>2
  <2> QED  BY <2>4, <2>5
<1> QED  BY <1>0, <1>3, <1>4, CallsMoveStep DEF CallsMove

LEMMA CareOfIndexesStep ==
  ASSUME CarefulCaller, Steady, NEW lead \in Server, ReignInv(lead), ReignInv(lead)',
         CareOf(lead), [SnapNext]_snapshotVars, state'[lead] = "Leader", NEW p \in Peers(lead)
  PROVE  matchIndex'[lead][p] <= Len(log'[lead]) /\ nextIndex'[lead][p] <= Len(log'[lead]) + 1
<1>0. /\ SnapInv /\ SnapTypeOK /\ TypeOK /\ Rules(lead) /\ CallsOf(lead)
      /\ state[lead] = "Leader" /\ p \in Server
  BY RulesStep DEF ReignInv, SnapInv, SnapTypeOK, Peers
<1>1. /\ Len(log[lead]) \in Nat /\ Len(log'[lead]) \in Nat /\ Len(log[lead]) <= Len(log'[lead])
  <2>1. log[lead] \in Seq(Entry) /\ log'[lead] \in Seq(Entry)
    BY DEF ReignInv, SnapInv, SnapTypeOK, TypeOK
  <2>2. Agree(log[lead], log'[lead], Len(log[lead]))
    BY LogsOfReign DEF LeadGrows
  <2> QED  BY <2>1, <2>2 DEF Agree
<1>2. /\ matchIndex[lead][p] \in Nat /\ nextIndex[lead][p] \in Nat
      /\ base[lead] \in Nat /\ base[lead] <= Len(log[lead])
  BY <1>0, LogsInReign DEF TypeOK
<1>3. matchIndex[lead][p] <= Len(log[lead]) /\ nextIndex[lead][p] <= Len(log[lead]) + 1
  BY <1>0 DEF CareOf
<1>4. ASSUME NEW r \in appendRpcs
      PROVE  /\ LastNew(r) <= Len(log[lead]) /\ LastNew(r) \in Nat
             /\ r.conflictIndex <= Len(log[lead]) /\ r.conflictIndex \in Nat
  <2>1. /\ LastNew(r) <= Len(log[lead]) /\ r.prevLogIndex <= Len(log[lead])
        /\ r.conflictIndex <= r.prevLogIndex
    BY DEF CareOf
  <2>2. LastNew(r) \in Nat /\ r.conflictIndex \in Nat /\ r.prevLogIndex \in Nat
    BY <1>0, CallType
  <2> QED  BY <1>1, <2>1, <2>2
<1>5. ASSUME NEW r \in appendRpcs,
             nextIndex'[lead][p] = BackedUpFrom(nextIndex[lead][p], r.conflictIndex, lead)
      PROVE  nextIndex'[lead][p] <= Len(log[lead]) + 1 /\ nextIndex'[lead][p] \in Nat
  BY <1>1, <1>2, <1>3, <1>4, <1>5 DEF BackedUpFrom
<1>6. IndexMoves(lead, p)
  BY <1>0, IndexMovesStep
<1>7. /\ matchIndex'[lead][p] \in Nat /\ matchIndex'[lead][p] <= Len(log[lead])
      /\ nextIndex'[lead][p] \in Nat /\ nextIndex'[lead][p] <= Len(log[lead]) + 1
  BY <1>1, <1>2, <1>3, <1>4, <1>5, <1>6 DEF IndexMoves
<1> QED  BY <1>1, <1>7

LEMMA StepCareOf ==
  ASSUME CarefulCaller, Steady, NEW lead \in Server, ReignInv(lead), CareOf(lead),
         [SnapNext]_snapshotVars
  PROVE  CareOf(lead)'
<1>1. ReignInv(lead)'
  BY StepReignInv
<1> QED
  BY <1>1, CarefulSnapshots, CareOfCallsStep, CareOfIndexesStep DEF CareOf, Peers, LastNew

-----------------------------------------------------------------------------
(* The reign of one leader: its beginning.                                 *)

LEMMA OldType ==
  ASSUME Command # {}, NEW n \in Nat
  PROVE  /\ Old(n) \in Seq(Entry) /\ Len(Old(n)) = n
         /\ \A i \in 1..n : Old(n)[i] = [term |-> 1, command |-> CHOOSE c \in Command : TRUE]
<1> DEFINE e == [term |-> 1, command |-> CHOOSE c \in Command : TRUE]
<1>1. e \in Entry
  BY DEF Entry
<1>2. Old(n) = [i \in 1..n |-> e]
  BY DEF Old
<1>3. \A i \in 1..n : Old(n)[i] = e
  BY <1>2
<1> HIDE DEF e
<1>4. Old(n) \in Seq(Entry) /\ Len(Old(n)) = n
  BY <1>1, <1>2
<1> QED  BY <1>3, <1>4 DEF e

LEMMA OldLogsAgree ==
  ASSUME Command # {}, NEW a \in Nat, NEW b \in Nat, NEW n \in Nat, n <= a, n <= b
  PROVE  Agree(Old(a), Old(b), n)
<1>1. \A i \in 1..n : i \in 1..a /\ i \in 1..b
  OBVIOUS
<1>2. \A i \in 1..n : Old(a)[i] = Old(b)[i]
  BY <1>1, OldType
<1>3. Len(Old(a)) = a /\ Len(Old(b)) = b
  BY OldType
<1> QED  BY <1>2, <1>3 DEF Agree

LEMMA OldIsLike ==
  ASSUME Command # {}, NEW a \in Nat, NEW b \in Nat, a <= b
  PROVE  Like(Old(a), Old(b))
<1> SUFFICES ASSUME NEW i \in DOMAIN Old(a)
             PROVE  Old(a)[i].term > 0 /\ Agree(Old(a), Old(b), i)
  BY DEF Like
<1>1. i \in 1..a
  BY OldType
<1>2. Old(a)[i] = [term |-> 1, command |-> CHOOSE c \in Command : TRUE]
  BY <1>1, OldType
<1>3. Old(a)[i].term = 1
  BY <1>2
<1>4. i \in Nat /\ i <= a /\ i <= b
  BY <1>1
<1> QED  BY <1>3, <1>4, OldLogsAgree

\* The node that has just won, and what was brought and applied before.
ReignBegins(lead, len, done) ==
  /\ lead \in Server /\ len \in [Server -> Nat] /\ done \in [Server -> Nat]
  /\ \A s \in Server : done[s] <= len[s] /\ len[s] <= len[lead]
  /\ Reign(lead, len, done)

LEMMA InitReignTypes ==
  ASSUME Command # {}, NEW lead, NEW len, NEW done, ReignBegins(lead, len, done)
  PROVE  SnapTypeOK
<1>0. /\ lead \in Server /\ len \in [Server -> Nat] /\ done \in [Server -> Nat]
      /\ MaxTerm \in Nat /\ MaxRestarts \in Nat /\ len[lead] \in Nat
  BY BoundAssumption DEF ReignBegins
<1>1. \A n \in Nat : Old(n) \in Seq(Entry) /\ Old(n) \in Seq(Entry \cup {Wild})
  BY OldType
<1>2. /\ currentTerm \in [Server -> Nat] /\ votedFor \in [Server -> Server \cup {Nil}]
      /\ state \in [Server -> {"Follower", "Candidate", "Leader"}]
      /\ electing \in [Server -> BOOLEAN] /\ toAsk \in [Server -> SUBSET Server]
      /\ tally \in [Server -> SUBSET Server]
  BY <1>0 DEF ReignBegins, Reign
<1>3. votesGranted \in [Server -> Nat]
  <2>1. Cardinality(Server) \in Nat
    BY ServerAssumption, FS_CardinalityType
  <2> QED  BY <1>0, <2>1 DEF ReignBegins, Reign
<1>4. log \in [Server -> Seq(Entry)] /\ applied \in [Server -> Seq(Entry \cup {Wild})]
  BY <1>0, <1>1 DEF ReignBegins, Reign
<1>5. /\ commitIndex \in [Server -> Nat] /\ base \in [Server -> Nat]
      /\ nextIndex \in [Server -> [Server -> Nat]] /\ matchIndex \in [Server -> [Server -> Nat]]
  BY <1>0 DEF ReignBegins, Reign
<1>6. persisted \in [Server -> TermAndVote]
  <2>1. persisted = [s \in Server |-> [term |-> MaxTerm, votedFor |-> lead, log |-> log[s]]]
    BY DEF ReignBegins, Reign
  <2> QED  BY <1>0, <1>4, <2>1 DEF TermAndVote
<1>7. /\ voteRpcs \subseteq VoteRpc /\ appendRpcs \subseteq AppendRpc
      /\ installRpcs \subseteq InstallRpc /\ restarts \in Nat
  BY <1>0 DEF ReignBegins, Reign
<1>8. /\ cast \subseteq [term : Nat, voter : Server, candidate : Server]
      /\ elected \subseteq [term : Nat, leader : Server, votes : SUBSET Server]
  BY <1>0 DEF ReignBegins, Reign
<1>9. started \subseteq Seq(Entry)
  <2>1. started = {Old(n) : n \in 1..len[lead]}
    BY DEF ReignBegins, Reign
  <2>2. \A n \in 1..len[lead] : n \in Nat
    OBVIOUS
  <2> QED  BY <1>1, <2>1, <2>2
<1>10. DOMAIN termLog \subseteq Nat /\ \A t \in DOMAIN termLog : termLog[t] \in Seq(Entry)
  BY <1>0, <1>1 DEF ReignBegins, Reign
<1> QED
  BY <1>2, <1>3, <1>4, <1>5, <1>6, <1>7, <1>8, <1>9, <1>10 DEF SnapTypeOK, TypeOK

LEMMA InitReignInv ==
  ASSUME Command # {}, NEW lead, NEW len, NEW done, ReignBegins(lead, len, done)
  PROVE  ReignInv(lead) /\ CareOf(lead)
<1>0. /\ lead \in Server /\ len \in [Server -> Nat] /\ done \in [Server -> Nat]
      /\ MaxTerm \in Nat /\ len[lead] \in Nat
      /\ \A s \in Server : /\ done[s] <= len[s] /\ len[s] <= len[lead]
                           /\ len[s] \in Nat /\ done[s] \in Nat
  BY BoundAssumption DEF ReignBegins
<1>1. /\ \A s \in Server :
           /\ currentTerm[s] = MaxTerm /\ toAsk[s] = {} /\ ~electing[s]
           /\ state[s] = IF s = lead THEN "Leader" ELSE "Follower"
           /\ log[s] = Old(len[s]) /\ applied[s] = Old(done[s])
           /\ base[s] = IF s = lead THEN done[s] ELSE 0
           /\ commitIndex[s] = IF s = lead THEN 0 ELSE done[s]
           /\ persisted[s].term = MaxTerm /\ persisted[s].log = log[s]
      /\ voteRpcs = {} /\ appendRpcs = {} /\ installRpcs = {}
  BY DEF ReignBegins, Reign
<1>2. \A p \in Server : nextIndex[lead][p] = len[lead] + 1 /\ matchIndex[lead][p] = 0
  BY <1>0 DEF ReignBegins, Reign
<1>3. \A s \in Server : /\ Len(log[s]) = len[s] /\ Len(applied[s]) = done[s]
                        /\ log[s] \in Seq(Entry) /\ applied[s] \in Seq(Entry)
  BY <1>0, <1>1, OldType
<1>4. SnapInv
  <2>1. SnapTypeOK
    BY InitReignTypes
  <2>2. LeaderHasNextIndexes
    <3>1. len[lead] + 1 # 0
      BY <1>0
    <3> QED  BY <1>1, <1>2, <3>1 DEF LeaderHasNextIndexes
  <2>3. LogPersisted /\ StoresAfterSnapshot
    BY <1>1 DEF LogPersisted, StoresAfterSnapshot
  <2>4. SnapshotFits
    BY <1>0, <1>1, <1>3 DEF SnapshotFits
  <2> QED  BY <2>1, <2>2, <2>3, <2>4 DEF SnapInv
<1>5. Rules(lead)
  BY <1>1 DEF Rules
<1>6. CallsOf(lead)
  BY <1>1 DEF CallsOf, Calls
<1>7. ASSUME NEW s \in Server PROVE FollowsLog(s, log[lead])
  <2>1. Like(log[s], log[lead])
    BY <1>0, <1>1, OldIsLike
  <2>2. Agree(applied[s], log[lead], Len(applied[s]))
    <3>1. done[s] <= done[s] /\ done[s] <= len[lead]
      BY <1>0
    <3> QED  BY <1>0, <1>1, <1>3, <3>1, OldLogsAgree
  <2>3. ASSUME NEW n \in DOMAIN applied[s], n <= Len(log[s]) PROVE Agree(log[s], log[lead], n)
    <3>1. n \in Nat /\ n <= len[s] /\ n <= len[lead]
      BY <1>0, <1>3, <2>3
    <3> QED  BY <1>0, <1>1, <3>1, OldLogsAgree
  <2>4. commitIndex[s] <= Len(applied[s])
    <3>1. done[s] \in Nat /\ Len(applied[s]) = done[s]
      BY <1>0, <1>3
    <3>2. commitIndex[s] = 0 \/ commitIndex[s] = done[s]
      BY <1>1
    <3> QED  BY <3>1, <3>2
  <2> QED  BY <2>1, <2>2, <2>3, <2>4 DEF FollowsLog
<1>8. LogsOf(lead)
  BY <1>1, <1>7 DEF LogsOf
<1>9. AcksOf(lead)
  <2>1. ASSUME NEW p \in Peers(lead) PROVE Agree(log[p], log[lead], matchIndex[lead][p])
    <3>1. p \in Server /\ matchIndex[lead][p] = 0
      BY <1>2 DEF Peers
    <3>2. Agree(Old(len[p]), Old(len[lead]), 0)
      BY <1>0, <3>1, OldLogsAgree
    <3> QED  BY <1>0, <1>1, <3>1, <3>2
  <2> QED  BY <1>1, <2>1 DEF AcksOf
<1>10. CareOf(lead)
  BY <1>0, <1>1, <1>2, <1>3 DEF CareOf, Peers
<1> QED  BY <1>4, <1>5, <1>6, <1>8, <1>9, <1>10 DEF ReignInv

\* Some node reigns, and with a careful caller it is never short of what it needs.
Reigns == \E lead \in Server : ReignInv(lead) /\ (CarefulCaller => CareOf(lead))

LEMMA ReignBeginsSo == ASSUME Command # {} PROVE ReignInit => Reigns
<1> SUFFICES ASSUME ReignInit PROVE Reigns
  OBVIOUS
<1>1. PICK lead \in Timers, len \in [Server -> 0..MaxLogLen], done \in [Server -> 0..MaxLogLen] :
        /\ \A s \in Server : done[s] <= len[s] /\ len[s] <= len[lead]
        /\ Reign(lead, len, done)
  BY DEF ReignInit
<1>2. /\ lead \in Server /\ len \in [Server -> Nat] /\ done \in [Server -> Nat]
  BY ServerAssumption, BoundAssumption
<1>3. ReignBegins(lead, len, done)
  BY <1>1, <1>2 DEF ReignBegins
<1> QED  BY <1>2, <1>3, InitReignInv DEF Reigns

LEMMA ReignGoesOn == ASSUME Steady PROVE Reigns /\ [SnapNext]_snapshotVars => Reigns'
<1> SUFFICES ASSUME Reigns, [SnapNext]_snapshotVars PROVE Reigns'
  OBVIOUS
<1>1. PICK lead \in Server : ReignInv(lead) /\ (CarefulCaller => CareOf(lead))
  BY DEF Reigns
<1>2. ReignInv(lead)'
  BY <1>1, StepReignInv
<1>3. CarefulCaller => CareOf(lead)'
  BY <1>1, StepCareOf
<1> QED  BY <1>2, <1>3 DEF Reigns

-----------------------------------------------------------------------------
(* The reign of one leader: what it promises.                              *)

LEMMA ReignSnapshots == Reigns => SnapshotIsApplied
<1> SUFFICES ASSUME Reigns, NEW s \in Server
             PROVE  IsPrefix(SubSeq(log[s], 1, base[s]), applied[s])
  BY DEF SnapshotIsApplied
<1>1. PICK lead \in Server : ReignInv(lead)
  BY DEF Reigns
<1> DEFINE part == SubSeq(log[s], 1, base[s])
<1>2. /\ log[s] \in Seq(Entry) /\ log[lead] \in Seq(Entry) /\ applied[s] \in Seq(Entry)
      /\ base[s] \in Nat /\ base[s] <= Len(log[s]) /\ base[s] <= Len(applied[s])
      /\ Len(applied[s]) \in Nat
      /\ Agree(applied[s], log[lead], Len(applied[s])) /\ Agree(log[s], log[lead], base[s])
  BY <1>1, LogsInReign
<1>3. part \in Seq(Entry) /\ Len(part) = base[s] /\ Agree(part, log[s], base[s])
  BY <1>2, SubSeqAgrees
<1> HIDE DEF part
<1>4. base[s] <= base[s]
  BY <1>2
<1>5. Agree(part, log[lead], base[s])
  BY <1>2, <1>3, <1>4, AgreeVia
<1>6. Agree(log[lead], applied[s], Len(applied[s]))
  BY <1>2, AgreeBack
<1>7. Agree(part, applied[s], base[s])
  BY <1>2, <1>3, <1>4, <1>5, <1>6, AgreeVia
<1>8. IsPrefix(part, applied[s])
  BY <1>2, <1>3, <1>7, PrefixIsAgree
<1> QED  BY <1>8 DEF part

\* A node's snapshot covers what its state machine has been given and no more, through
\* snapshots of its own, installed ones, refusals and restarts, for every cluster, any
\* caller of snapshot() and any network, as long as one node leads.
THEOREM SnapshotsCoverApplied ==
  ASSUME Steady, Command # {} PROVE ReignSpec => []SnapshotIsApplied
<1> QED  BY ReignBeginsSo, ReignGoesOn, ReignSnapshots, PTL DEF ReignSpec

LEMMA ReignStateMachines == Reigns => StateMachineSafety
<1> SUFFICES ASSUME Reigns, NEW s \in Server, NEW t \in Server
             PROVE  IsPrefix(applied[s], applied[t]) \/ IsPrefix(applied[t], applied[s])
  BY DEF StateMachineSafety
<1>1. PICK lead \in Server : ReignInv(lead)
  BY DEF Reigns
<1>2. /\ applied[s] \in Seq(Entry) /\ applied[t] \in Seq(Entry) /\ log[lead] \in Seq(Entry)
      /\ Agree(applied[s], log[lead], Len(applied[s]))
      /\ Agree(applied[t], log[lead], Len(applied[t]))
  BY <1>1, LogsInReign
<1>3. IsPrefix(applied[s], log[lead]) /\ IsPrefix(applied[t], log[lead])
  BY <1>2, PrefixIsAgree
<1>4. /\ applied[s] \in Seq(Entry \cup {Wild}) /\ applied[t] \in Seq(Entry \cup {Wild})
      /\ log[lead] \in Seq(Entry \cup {Wild})
  BY <1>2
<1> QED  BY <1>3, <1>4, TwoPrefixes

\* No two nodes give their state machines different entries for one index, whether
\* these come one by one or in a snapshot, whatever is snapshot, refused, lost or
\* restarted while one node leads.
THEOREM SnapshotsKeepStateMachines ==
  ASSUME Steady, Command # {} PROVE ReignSpec => []StateMachineSafety
<1> QED  BY ReignBeginsSo, ReignGoesOn, ReignStateMachines, PTL DEF ReignSpec

LEMMA ReignAcks == Reigns => AckedUntilForgotten
<1> SUFFICES ASSUME Reigns, \A q \in Server : base[q] = 0,
                    NEW s \in Server, NEW p \in Peers(s), state[s] = "Leader"
             PROVE  /\ matchIndex[s][p] <= Len(log[p])
                    /\ IsPrefix(SubSeq(log[p], 1, matchIndex[s][p]), log[s])
  BY DEF AckedUntilForgotten, AckedEntriesAreStored
<1>1. PICK lead \in Server : ReignInv(lead)
  BY DEF Reigns
<1>2. s = lead
  BY <1>1 DEF ReignInv, Rules
<1> DEFINE n == matchIndex[s][p]
           part == SubSeq(log[p], 1, n)
<1>3. Agree(log[p], log[s], n)
  BY <1>1, <1>2 DEF ReignInv, AcksOf, NobodyForgot
<1>4. n \in Nat /\ p \in Server /\ log[p] \in Seq(Entry) /\ log[s] \in Seq(Entry)
  BY <1>1 DEF ReignInv, SnapInv, SnapTypeOK, TypeOK, Peers
<1> HIDE DEF n
<1>5. n <= Len(log[p])
  BY <1>3 DEF Agree
<1>6. part \in Seq(Entry) /\ Len(part) = n /\ Agree(part, log[p], n)
  BY <1>4, <1>5, SubSeqAgrees
<1> HIDE DEF part
<1>7. n <= n
  BY <1>4
<1>8. Agree(part, log[s], n)
  BY <1>3, <1>4, <1>6, <1>7, AgreeVia
<1>9. IsPrefix(part, log[s])
  BY <1>4, <1>6, <1>8, PrefixIsAgree
<1> QED  BY <1>5, <1>9 DEF n, part

\* As long as nobody has taken a snapshot, what the leader counts as stored is stored,
\* refusals that come back twice or late included; no longer once somebody has.
THEOREM AcksAreTrueUntilForgotten ==
  ASSUME Steady, Command # {} PROVE ReignSpec => []AckedUntilForgotten
<1> QED  BY ReignBeginsSo, ReignGoesOn, ReignAcks, PTL DEF ReignSpec

LEMMA ReignCommits ==
  ASSUME Reigns, [SnapNext]_snapshotVars, restarts' = restarts, NEW s \in Server
  PROVE  commitIndex'[s] >= commitIndex[s]
<1>1. PICK lead \in Server : ReignInv(lead)
  BY DEF Reigns
<1>2. /\ SnapInv /\ Rules(lead) /\ commitIndex \in [Server -> Nat] /\ restarts \in Nat
  BY <1>1 DEF ReignInv, SnapInv, SnapTypeOK, TypeOK
<1>3. CASE commitIndex' = commitIndex
  BY <1>2, <1>3
<1>4. ASSUME NEW q \in Server, NEW c \in Nat, commitIndex[q] <= c,
             commitIndex' = [commitIndex EXCEPT ![q] = c]
      PROVE  commitIndex'[s] >= commitIndex[s]
  BY <1>2, <1>4
<1>5. ASSUME NEW r \in appendRpcs, FollowCommit(r)
      PROVE  commitIndex'[s] >= commitIndex[s]
  <2>1. /\ r.to \in Server
        /\ \E c \in Nat : commitIndex' = [commitIndex EXCEPT ![r.to] = c] /\ commitIndex[r.to] <= c
    BY <1>1, <1>5, FollowInReign
  <2> QED  BY <1>4, <2>1
<1>6. ASSUME NEW r \in appendRpcs, CountSuccess(r)
      PROVE  commitIndex'[s] >= commitIndex[s]
  <2>1. \E c \in Nat : commitIndex' = [commitIndex EXCEPT ![lead] = c] /\ commitIndex[lead] <= c
    BY <1>1, <1>6, CountInReign
  <2> QED  BY <1>4, <2>1
<1>7. ASSUME NEW r \in appendRpcs, StoreEntries(r) PROVE commitIndex' = commitIndex
  BY <1>7 DEF StoreEntries, logVars
<1>8. ASSUME NEW c \in Command, Start(lead, c) PROVE commitIndex' = commitIndex
  BY <1>8 DEF Start, logVars
<1>9. ASSUME NEW r \in installRpcs, InstallSnapshot(r) PROVE commitIndex' = commitIndex
  BY <1>9 DEF InstallSnapshot
<1>10. ASSUME NEW q \in Server, NEW i \in DOMAIN log[q], Snapshot(q, i)
       PROVE  commitIndex' = commitIndex
  BY <1>10 DEF Snapshot, logVars
<1>11. ASSUME NEW q \in Server, RestartFrom(q) PROVE FALSE
  <2>1. restarts' = restarts + 1
    BY <1>11 DEF RestartFrom, Reboot
  <2> QED  BY <1>2, <2>1
<1> QED
  BY <1>2, <1>3, <1>5, <1>6, <1>7, <1>8, <1>9, <1>10, <1>11, ReignKinds

\* But for a restart no commit index moves back, through snapshots installed over
\* entries that a node has committed, and refusals of entries before its snapshot.
THEOREM SnapshotsKeepCommits ==
  ASSUME Steady, Command # {} PROVE ReignSpec => CommitAdvances
<1>1. ASSUME Reigns, [SnapNext]_snapshotVars
      PROVE  [restarts' = restarts => \A s \in Server : commitIndex'[s] >= commitIndex[s]]_vars
  BY <1>1, ReignCommits
<1> QED  BY <1>1, ReignBeginsSo, ReignGoesOn, PTL DEF ReignSpec, CommitAdvances

LEMMA ReignNextIndexes == CarefulCaller /\ Reigns => NextIndexInLog
<1> SUFFICES ASSUME CarefulCaller, Reigns, NEW s \in Server, NEW p \in Peers(s),
                    state[s] = "Leader"
             PROVE  nextIndex[s][p] \in 1 .. Len(log[s]) + 1
  BY DEF NextIndexInLog
<1>1. PICK lead \in Server : ReignInv(lead) /\ CareOf(lead)
  BY DEF Reigns
<1>2. s = lead
  BY <1>1 DEF ReignInv, Rules
<1>3. nextIndex[s][p] \in Nat /\ p \in Server /\ log[s] \in Seq(Entry)
  BY <1>1 DEF ReignInv, SnapInv, SnapTypeOK, TypeOK, Peers
<1>4. nextIndex[s][p] # 0
  BY <1>1, <1>3 DEF ReignInv, SnapInv, LeaderHasNextIndexes
<1>5. nextIndex[s][p] <= Len(log[s]) + 1
  BY <1>1, <1>2 DEF CareOf
<1> QED  BY <1>3, <1>4, <1>5

\* If snapshot() is called in leaders only, while they wait for no call, then the
\* leader's next indexes stay within its log, though answers to calls from before a
\* snapshot, and installed snapshots, set them back.
THEOREM CarefulNextIndexes ==
  ASSUME CarefulCaller, Steady, Command # {} PROVE ReignSpec => []NextIndexInLog
<1> QED  BY ReignBeginsSo, ReignGoesOn, ReignNextIndexes, PTL DEF ReignSpec
=============================================================================
