---------------------------- MODULE RaftSnapshot ----------------------------
(***************************************************************************)
(* The Raft node of raft.cpp once somebody calls snapshot(): nodes forget  *)
(* the beginning of their logs, and a leader that has forgotten what a     *)
(* follower lacks sends installSnapshot in place of appendEntries.         *)
(*                                                                         *)
(* log[s] stays the log from index 1 on: its first base[s] entries stand   *)
(* for the snapshot, the rest for m_logs.  applied[s] is what the state    *)
(* machine has been given, entry by entry or by a snapshot.                *)
(*                                                                         *)
(* Nothing in the repository calls snapshot(), and raft.cpp does not say   *)
(* when it may be called.  CarefulCaller is what it takes for the indexes  *)
(* of a leader to stay in its log; no care is enough to keep what a        *)
(* follower has acknowledged, see AckedUntilForgotten.                     *)
(* Handlers are not preempted here: appendEntries subtracts                *)
(* m_lastIncludedIndex anew in each section, and wraps around when         *)
(* installSnapshot has raised it in between.                               *)
(***************************************************************************)
EXTENDS RaftSafety

CONSTANTS
  CarefulCaller,    \* is snapshot() called in leaders only, and then only when
                    \* none of the leader's calls is waited for?
  Mortal,           \* bound: the nodes that may restart
  Watched,          \* the followers that the network treats fairly
  MaxCalls,         \* bound: AppendEntries and InstallSnapshot calls pending at a time,
  MaxUnanswered,    \* of these, the ones that are waited for and not answered yet,
  MaxLate           \* and the ones that nobody waits for any more

ASSUME CarefulAssumption == CarefulCaller \in BOOLEAN /\ ~Preemptible
ASSUME SubsetAssumption == Mortal \subseteq Server /\ Watched \subseteq Server
ASSUME InstallAssumption == {MaxCalls, MaxUnanswered, MaxLate} \subseteq Nat

VARIABLES
  base,             \* base[s]: m_lastIncludedIndex, in the saved snapshot as well
  installRpcs       \* InstallSnapshot calls, with the section they have reached

snapVars == <<base, installRpcs>>

\* data is what the snapshot stands for; its length is lastIncludedIndex.
InstallRpc ==
  [from : Server, to : Server, live : BOOLEAN, stage : {"sent", "replied"},
   term : Nat, data : Seq(Entry), replyTerm : Nat]

\* The module's types, on top of those of Raft.
SnapTypeOK ==
  /\ TypeOK
  /\ base \in [Server -> Nat]
  /\ installRpcs \subseteq InstallRpc

SnapInit == Init /\ base = [s \in Server |-> 0] /\ installRpcs = {}

-----------------------------------------------------------------------------
(* snapshot(), called by the state machine that has applied i.             *)

Calls == appendRpcs \cup installRpcs
Settled(s) == \A r \in Calls : r.from = s => ~r.live

\* The raft state it saves has the vote under "Voted", and helperReadPersist looks
\* for "VotedFor": until the next helperPersist the saved state has no vote.
Snapshot(s, i) ==
  /\ CanLock
  /\ CarefulCaller => state[s] = "Leader" /\ Settled(s)
  /\ base[s] < i /\ i <= Len(log[s]) /\ i <= Len(applied[s])
  /\ base' = [base EXCEPT ![s] = i]
  /\ persisted' = [persisted EXCEPT ![s] = [term |-> currentTerm[s], votedFor |-> Nil,
                                            log |-> log[s]]]
  /\ UNCHANGED <<electionVars, logVars, leaderVars, voteRpcs, appendRpcs, installRpcs,
                 restarts, historyVars>>

-----------------------------------------------------------------------------
(* The leader: broadcastAppendEntries, helperTriggerInstallSnapshot.       *)

NeedsSnapshot(next, s) == next <= base[s]

\* The installSnapshot calls pending once s has sent its snapshot to p.
Triggered_dummy_bug(s, p) ==
  installRpcs \cup {[from |-> s, to |-> p, live |-> TRUE, stage |-> "sent",
                     term |-> currentTerm[s],
                     data |-> <<Wild>> \o SubSeq(log[s], 1, base[s]), replyTerm |-> 0]}
Triggered(s, p) ==
  installRpcs \cup {[from |-> s, to |-> p, live |-> TRUE, stage |-> "sent",
                     term |-> currentTerm[s], data |-> SubSeq(log[s], 1, base[s]),
                     replyTerm |-> 0]}

\* The broadcast of every 100 ms asks all peers, whatever earlier calls are still
\* waited for: these are bounds alone.
Unanswered == {r \in Calls : r.live /\ r.stage # "replied"}
Late == {r \in Calls : ~r.live}
MaySend == Cardinality(Calls) < MaxCalls /\ Cardinality(Unanswered) < MaxUnanswered

SendSnapshot(s, p) ==
  /\ CanLock
  /\ state[s] = "Leader" /\ NeedsSnapshot(nextIndex[s][p], s)
  /\ MaySend
  /\ installRpcs' = Triggered(s, p)
  /\ UNCHANGED <<vars, base>>

SendEntries(s, p) ==
  /\ ~NeedsSnapshot(nextIndex[s][p], s)
  /\ MaySend
  /\ SendAppendEntries(s, p)
  /\ UNCHANGED snapVars

-----------------------------------------------------------------------------
(* appendEntries, section 2, and the refusal it sends, with a snapshot.    *)

\* What an unset conflictIndex may hold: service_raft_grpc.hpp does not
\* initialise the reply.
Unset == 0 .. MaxLogLen + 2

\* An entry before the snapshot is refused with conflictIndex unset; the search
\* for the run of equal terms stops at the snapshot.
RefuseFrom(r) ==
  LET s == r.to
  IN /\ r.stage = "match"
     /\ \/ /\ r.prevLogIndex < base[s]
           /\ \E unset \in Unset : Answer(r, r.replyTerm, FALSE, unset)
        \/ /\ r.prevLogIndex >= base[s]
           /\ ~Matches(log[s], r.prevLogIndex, r.prevLogTerm)
           /\ Answer(r, r.replyTerm, FALSE, Max({base[s], ConflictIndex(log[s], r.prevLogIndex)}))
     /\ UNCHANGED <<electionVars, logVars, leaderVars, persisted, voteRpcs, restarts,
                    historyVars, snapVars>>

PassFrom(r) ==
  /\ r.prevLogIndex >= base[r.to]
  /\ PassMatch(r)
  /\ UNCHANGED snapVars

\* The leader steps back, into what its snapshot covers only when it is told to;
\* there it sends the snapshot.
BackedUpFrom_zero_bug(next, conflict, s) == conflict
BackedUpFrom_floor_bug(next, conflict, s) == Max({base[s] + 1, conflict})
BackedUpFrom(next, conflict, s) ==
  IF conflict > 0 THEN conflict ELSE IF next > base[s] + 1 THEN next - 1 ELSE next

BackUpFrom(r) ==
  LET s == r.from
  IN /\ r.stage = "checked" /\ ~r.success
     /\ state[s] = "Leader"
     /\ nextIndex' = [nextIndex EXCEPT ![s][r.to] = BackedUpFrom(@, r.conflictIndex, s)]
     /\ IF NeedsSnapshot(nextIndex'[s][r.to], s)
        THEN installRpcs' = Triggered(s, r.to)
        ELSE UNCHANGED installRpcs
     /\ appendRpcs' = appendRpcs \ {r}
     /\ UNCHANGED <<electionVars, logVars, matchIndex, persisted, voteRpcs, restarts,
                    historyVars, base>>

-----------------------------------------------------------------------------
(* installSnapshot in the node r.to, and its reply in r.from.              *)

AnswerInstall(r, term) ==
  installRpcs' = (installRpcs \ {r}) \cup
    {x \in {[r EXCEPT !.stage = "replied", !.replyTerm = term]} : x.live}

RefuseStaleInstall(r) ==
  /\ CanLock
  /\ r.stage = "sent" /\ r.term < currentTerm[r.to]
  /\ AnswerInstall(r, currentTerm[r.to])
  /\ UNCHANGED <<vars, base>>

\* The whole of m_logs goes, the entries after the snapshot too.
Installed(r) == Len(r.data) > base[r.to]

\* m_lastApplied is raised, m_commitIndex is not.
InstallSnapshot(r) ==
  LET s == r.to
  IN /\ CanLock
     /\ r.stage = "sent" /\ r.term >= currentTerm[s]
     /\ IF r.term > currentTerm[s] THEN StepDown(s, r.term)
        ELSE UNCHANGED <<currentTerm, votedFor, state, electing, toAsk>>
     /\ IF Installed(r)
        THEN /\ base' = [base EXCEPT ![s] = Len(r.data)]
             /\ log' = [log EXCEPT ![s] = r.data]
             /\ applied' = [applied EXCEPT ![s] = IF Len(@) < Len(r.data) THEN r.data ELSE @]
        ELSE UNCHANGED <<base, log, applied>>
     /\ IF r.term > currentTerm[s] \/ Installed(r) THEN Persist(s) ELSE UNCHANGED persisted
     /\ AnswerInstall(r, currentTerm[s])
     /\ UNCHANGED <<votesGranted, commitIndex, leaderVars, voteRpcs, appendRpcs, restarts,
                    historyVars>>

\* Its reply's task: any leader's, of whatever term, and with the snapshot the
\* leader has by now, which need not be the one that was sent.
InstalledUpTo(s) == base[s]

HearInstalled(r) ==
  LET s == r.from
  IN /\ CanLock
     /\ r.stage = "replied" /\ state[s] = "Leader"
     /\ installRpcs' = installRpcs \ {r}
     /\ \/ /\ r.replyTerm > currentTerm[s]
           /\ StepDown(s, r.replyTerm)
           /\ UNCHANGED leaderVars
           /\ Persist(s)
        \/ /\ r.replyTerm <= currentTerm[s]
           /\ matchIndex' = [matchIndex EXCEPT ![s][r.to] = InstalledUpTo(s)]
           /\ nextIndex' = [nextIndex EXCEPT ![s][r.to] = InstalledUpTo(s) + 1]
           /\ UNCHANGED <<currentTerm, votedFor, state, electing, toAsk, persisted>>
     /\ UNCHANGED <<votesGranted, logVars, voteRpcs, appendRpcs, restarts, historyVars, base>>

\* The call is lost, or its reply comes too late.
DropInstall(r) ==
  /\ CanLock
  /\ installRpcs' = installRpcs \ {r}
  /\ UNCHANGED <<vars, base>>

\* The deadline of a call passes before it arrives: nobody waits for it any more.
Expire(r) ==
  /\ CanLock
  /\ r.stage = "sent" /\ r.live /\ Cardinality(Late) < MaxLate
  /\ LET late == [r EXCEPT !.live = FALSE]
     IN \/ r \in appendRpcs /\ Advance(r, late) /\ UNCHANGED installRpcs
        \/ /\ r \in installRpcs
           /\ installRpcs' = (installRpcs \ {r}) \cup {late}
           /\ UNCHANGED appendRpcs
  /\ UNCHANGED <<electionVars, logVars, leaderVars, persisted, voteRpcs, restarts,
                 historyVars, base>>

-----------------------------------------------------------------------------
\* helperReadPersist takes what the snapshot covers for applied.
Restored_nothing_bug(s) == << >>
Restored(s) == SubSeq(persisted[s].log, 1, base[s])

RestartFrom(s) ==
  /\ IF PersisterSurvives
     THEN Reboot(s, Restored(s)) /\ UNCHANGED base
     ELSE Reboot(s, << >>) /\ base' = [base EXCEPT ![s] = 0]
  /\ installRpcs' = Orphaned(installRpcs, s)

-----------------------------------------------------------------------------
\* In CountSuccess the commit rule need not stop at the snapshot: no entry before it
\* is of the leader's term, unless the leader took it, and had committed them.
AppendStep(r) ==
  \/ /\ \/ RefuseStaleAppend(r) \/ AcceptAppend(r)
        \/ StoreEntries(r) \/ FollowCommit(r)
        \/ DeposedByReply(r) \/ CheckReply(r) \/ CountSuccess(r) \/ DropAppend(r)
     /\ UNCHANGED snapVars
  \/ RefuseFrom(r) \/ PassFrom(r) \/ BackUpFrom(r) \/ Expire(r)

InstallStep(r) ==
  RefuseStaleInstall(r) \/ InstallSnapshot(r) \/ HearInstalled(r) \/ DropInstall(r) \/ Expire(r)

Elections(s) ==
  \/ FollowerTimeout(s) \/ CandidateTimeout(s) \/ StartElection(s) \/ BecomeLeader(s)
  \/ \E p \in Peers(s) : AskForVote(s, p)

SnapNext ==
  \/ /\ \/ \E s \in Server : Elections(s)
        \/ \E s \in Server, c \in Command : Start(s, c)
        \/ \E r \in voteRpcs : VoteCall(r)
     /\ UNCHANGED snapVars
  \/ \E s \in Server : \E p \in Peers(s) : SendEntries(s, p) \/ SendSnapshot(s, p)
  \/ \E r \in appendRpcs : AppendStep(r)
  \/ \E r \in installRpcs : InstallStep(r)
  \/ \E s \in Server : \E i \in DOMAIN log[s] : Snapshot(s, i)
  \/ \E s \in Mortal : RestartFrom(s)

snapshotVars == <<vars, snapVars>>

SnapSpec == SnapInit /\ [][SnapNext]_snapshotVars

-----------------------------------------------------------------------------
(* Fairness: the leader's 100 ms broadcast goes on, handlers return, and   *)
(* the network does not lose, or delay beyond their deadlines, all calls   *)
(* to a watched follower, nor all replies.                                 *)

Sends(p) == \E s \in Peers(p) : SendEntries(s, p) \/ SendSnapshot(s, p)

\* A call arrives at p within its deadline.
Arrives(p) ==
  \/ /\ \E r \in appendRpcs : /\ r.to = p /\ r.live
                              /\ RefuseStaleAppend(r) \/ AcceptAppend(r)
     /\ UNCHANGED snapVars
  \/ \E r \in installRpcs : /\ r.to = p /\ r.live
                            /\ RefuseStaleInstall(r) \/ InstallSnapshot(r)

\* The leader hears p's answer.
Hears(p) ==
  \/ /\ \E r \in appendRpcs : r.to = p /\ (DeposedByReply(r) \/ CheckReply(r))
     /\ UNCHANGED snapVars
  \/ \E r \in installRpcs : r.to = p /\ HearInstalled(r)

CallStep ==
  \/ \E r \in appendRpcs : AppendStep(r)
  \/ \E r \in installRpcs : InstallStep(r)

Fairness ==
  /\ \A p \in Watched : /\ SF_snapshotVars(Sends(p))
                        /\ SF_snapshotVars(Arrives(p))
                        /\ SF_snapshotVars(Hears(p))
  /\ WF_snapshotVars(CallStep)

-----------------------------------------------------------------------------
\* A node's snapshot covers what its state machine has been given and no more, after
\* a snapshot of its own, one installed, and a restart: the apply loops read
\* m_logs[m_lastApplied - m_lastIncludedIndex] with unsigned numbers.
SnapshotIsApplied ==
  \A s \in Server : IsPrefix(SubSeq(log[s], 1, base[s]), applied[s])

HasAll(s, p) == matchIndex[s][p] = Len(log[s]) /\ commitIndex[s] <= Len(applied[p])

\* As long as nobody has taken a snapshot, match indexes are true; not so later:
\* a snapshot that covers two of a follower's three entries takes the third away
\* (raft.cpp:477 clears m_logs), and the leader goes on counting it, and may have
\* committed it on the strength of it.
AckedUntilForgotten == (\A s \in Server : base[s] = 0) => AckedEntriesAreStored

\* Through entries, refusals and snapshots a leader brings every follower up to its
\* own log and commit index, whatever the follower has missed.  Not so a follower
\* with an empty log: it refuses with conflictIndex 0, on which the leader steps
\* back to the entry after its snapshot, and never sends the snapshot (raft.cpp:306).
FollowersCatchUp ==
  \A p \in Watched :
    (\E s \in Peers(p) : state[s] = "Leader" /\ log[p] # << >>)
      ~> (\A s \in Peers(p) : state[s] = "Leader" => HasAll(s, p))
=============================================================================
