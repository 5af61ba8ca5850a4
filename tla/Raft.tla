-------------------------------- MODULE Raft --------------------------------
(***************************************************************************)
(* The Raft node of kvcluster/raft/raft.cpp and its RPCs to its peers.     *)
(*                                                                         *)
(* One action is one critical section of m_mu.  A call that unlocks m_mu   *)
(* and locks it again (appendEntries does so three times, the task that    *)
(* handles its reply once, the election loop once a peer) is as many       *)
(* actions, and other threads of the node may run between them.            *)
(*                                                                         *)
(* KVServer never calls snapshot() (kvserver.cpp): m_lastIncludedIndex     *)
(* stays 0 and installSnapshot is never sent.  RaftSnapshot adds them.     *)
(***************************************************************************)
EXTENDS RaftLog

CONSTANTS
  Server,             \* the node ids, 0 .. m_peers.size() - 1
  Preemptible,        \* may another thread lock m_mu between two sections of
                      \* one call (appendEntries, its reply's task, startElection)?
  PromptVotes,        \* is a vote reply processed before its candidate starts
                      \* its next election?  (deadline 200 ms, timeout 700 ms)
  PersisterSurvives,  \* does a restarted node find its old Persister?
  Timers,             \* bound: the nodes whose election timer may expire
  MaxTerm,            \* bound: elections stop at this term
  MaxLogLen,          \* bound: a leader takes no command beyond this length
  MaxVoteRpcs,        \* bound: RequestVote calls pending after a timeout
  MaxAppendRpcs,      \* bound: AppendEntries calls pending at a time
  MaxRestarts         \* bound: restarts in a behaviour

ASSUME ServerAssumption == IsFiniteSet(Server) /\ Server # {} /\ Nil \notin Server
                              /\ Timers \subseteq Server
ASSUME SwitchAssumption == {Preemptible, PromptVotes, PersisterSurvives} \subseteq BOOLEAN
ASSUME BoundAssumption  == {MaxTerm, MaxLogLen, MaxVoteRpcs, MaxAppendRpcs,
                           MaxRestarts} \subseteq Nat

VARIABLES
  currentTerm, votedFor, state, votesGranted,  \* m_currentTerm, m_votedFor, ...
  electing,      \* electing[s]: startRaft has unlocked m_mu to call startElection
  toAsk,         \* toAsk[s]: peers the loop of startElection has still to ask
  log, commitIndex, nextIndex, matchIndex,
  applied,       \* applied[s]: entries pushed to m_applyChannel; its length is
                 \* m_lastApplied
  persisted,     \* persisted[s]: the raft state held by s's Persister
  voteRpcs,      \* RequestVote calls: queued, on the wire, or answered
  appendRpcs,    \* AppendEntries calls, with the section they have reached
  restarts,      \* number of restarts so far
  cast, tally, elected,  \* history: votes granted, votes counted, leaders made
  started,       \* history: the logs that leaders had when start() added to them
  termLog        \* history: termLog[t] is the log of the leader of term t, for as
                 \* long as it led, and as start() left it last

electionVars == <<currentTerm, votedFor, state, votesGranted, electing, toAsk>>
logVars      == <<log, commitIndex, applied>>
leaderVars   == <<nextIndex, matchIndex>>
ballotVars   == <<cast, tally, elected>>
takenVars    == <<started, termLog>>
historyVars  == <<ballotVars, takenVars>>
vars == <<electionVars, logVars, leaderVars, persisted, voteRpcs, appendRpcs,
          restarts, historyVars>>

-----------------------------------------------------------------------------
Peers(s) == Server \ {s}
IsMajority_half_bug(n) == n >= Cardinality(Server) \div 2
IsMajority(n) == n > Cardinality(Server) \div 2

-----------------------------------------------------------------------------
\* live is FALSE once the calling process is gone: no reply can reach it.
VoteRpc ==
  [from : Server, to : Server, live : BOOLEAN, stage : {"sent", "replied"},
   term : Nat, lastLogIndex : Nat, lastLogTerm : Nat,
   replyTerm : Nat, granted : BOOLEAN]

\* "sent"    queued in the thread pool or on the wire
\* "match", "store", "commit"   the handler's next section
\* "replied" answered;  "checked" the first section of the reply's task passed
AppendRpc ==
  [from : Server, to : Server, live : BOOLEAN,
   stage : {"sent", "match", "store", "commit", "replied", "checked"},
   term : Nat, prevLogIndex : Nat, prevLogTerm : Nat, entries : Seq(Entry),
   leaderCommit : Nat, replyTerm : Nat, success : BOOLEAN, conflictIndex : Nat]

\* Calls that have unlocked m_mu and will lock it again.
Preempted(r) == r.stage \in {"match", "store", "commit", "checked"}
MidElection(s) == electing[s] \/ toAsk[s] # {}

\* A thread starts a call when m_mu is free.  Without Preemptible no call is
\* then between two of its sections.  A section touches its own node only, so
\* that it loses nothing to let the other nodes wait as well.
CanLock == \/ Preemptible
           \/ /\ \A r \in appendRpcs : ~Preempted(r)
              /\ \A s \in Server : ~MidElection(s)

Advance(r, new) == appendRpcs' = (appendRpcs \ {r}) \cup {new}

\* The handler returns: its reply travels unless the caller is gone.
Answer(r, term, ok, conflict) ==
  appendRpcs' = (appendRpcs \ {r}) \cup
    {x \in {[r EXCEPT !.stage = "replied", !.replyTerm = term, !.success = ok,
                      !.conflictIndex = conflict]} : x.live}

AnswerVote(r, term, ok) ==
  voteRpcs' = (voteRpcs \ {r}) \cup
    {x \in {[r EXCEPT !.stage = "replied", !.replyTerm = term, !.granted = ok]} : x.live}

\* helperPersist
Persist_noVote_bug(s) ==
  persisted' = [persisted EXCEPT ![s] = [@ EXCEPT !.term = currentTerm'[s], !.log = log'[s]]]
Persist_noLog_bug(s) ==
  persisted' = [persisted EXCEPT ![s] = [@ EXCEPT !.term     = currentTerm'[s],
                                                  !.votedFor = votedFor'[s]]]
Persist(s) ==
  persisted' = [persisted EXCEPT ![s] = [term     |-> currentTerm'[s],
                                         votedFor |-> votedFor'[s],
                                         log      |-> log'[s]]]

\* Leaving CANDIDATE ends a pending startElection: it returns at its next lock.
BecomeFollower(s) ==
  /\ state' = [state EXCEPT ![s] = "Follower"]
  /\ electing' = [electing EXCEPT ![s] = FALSE]
  /\ toAsk' = [toAsk EXCEPT ![s] = {}]

\* helperStepDownToFollower, without its helperPersist
StepDown_zero_bug(s, term) ==
  /\ currentTerm' = [currentTerm EXCEPT ![s] = term]
  /\ votedFor' = [votedFor EXCEPT ![s] = 0]
  /\ BecomeFollower(s)
StepDown(s, term) ==
  /\ currentTerm' = [currentTerm EXCEPT ![s] = term]
  /\ votedFor' = [votedFor EXCEPT ![s] = Nil]
  /\ BecomeFollower(s)

-----------------------------------------------------------------------------
Init ==
  /\ currentTerm  = [s \in Server |-> 0]
  /\ votedFor     = [s \in Server |-> Nil]
  /\ state        = [s \in Server |-> "Follower"]
  /\ votesGranted = [s \in Server |-> 0]
  /\ electing     = [s \in Server |-> FALSE]
  /\ toAsk        = [s \in Server |-> {}]
  /\ log          = [s \in Server |-> << >>]
  /\ commitIndex  = [s \in Server |-> 0]
  /\ applied      = [s \in Server |-> << >>]
  /\ nextIndex    = [s \in Server |-> [p \in Server |-> 0]]
  /\ matchIndex   = [s \in Server |-> [p \in Server |-> 0]]
  /\ persisted    = [s \in Server |-> [term |-> 0, votedFor |-> Nil, log |-> << >>]]
  /\ voteRpcs = {} /\ appendRpcs = {}
  /\ restarts = 0
  /\ cast = {} /\ tally = [s \in Server |-> {}] /\ elected = {}
  /\ started = {} /\ termLog = [t \in {} |-> << >>]

-----------------------------------------------------------------------------
(* The Raft thread: startRaft, startElection, broadcastAppendEntries.      *)

\* The bounds of one more election.
MayElect(s) ==
  /\ s \in Timers
  /\ currentTerm[s] < MaxTerm
  /\ Cardinality(voteRpcs) + Cardinality(Peers(s)) <= MaxVoteRpcs

\* FOLLOWER, no heartbeat for m_electionTimeout: promote, unlock, startElection.
FollowerTimeout(s) ==
  /\ CanLock
  /\ state[s] = "Follower"
  /\ MayElect(s)
  /\ state' = [state EXCEPT ![s] = "Candidate"]
  /\ electing' = [electing EXCEPT ![s] = TRUE]
  /\ UNCHANGED <<currentTerm, votedFor, votesGranted, toAsk, logVars, leaderVars,
                 persisted, voteRpcs, appendRpcs, restarts, historyVars>>

\* CANDIDATE without a majority when its timeout expires: startElection again.
CandidateTimeout(s) ==
  /\ CanLock
  /\ state[s] = "Candidate" /\ ~electing[s] /\ toAsk[s] = {}
  /\ ~IsMajority(votesGranted[s])
  /\ MayElect(s)
  /\ electing' = [electing EXCEPT ![s] = TRUE]
  /\ UNCHANGED <<currentTerm, votedFor, state, votesGranted, toAsk, logVars,
                 leaderVars, persisted, voteRpcs, appendRpcs, restarts, historyVars>>

\* The first section of startElection.
StartElection(s) ==
  /\ state[s] = "Candidate" /\ electing[s]
  /\ currentTerm' = [currentTerm EXCEPT ![s] = @ + 1]
  /\ votedFor' = [votedFor EXCEPT ![s] = s]
  /\ votesGranted' = [votesGranted EXCEPT ![s] = 1]
  /\ electing' = [electing EXCEPT ![s] = FALSE]
  /\ toAsk' = [toAsk EXCEPT ![s] = Peers(s)]
  /\ cast' = cast \cup {[term |-> currentTerm'[s], voter |-> s, candidate |-> s]}
  /\ tally' = [tally EXCEPT ![s] = {s}]
  /\ UNCHANGED <<state, logVars, leaderVars, voteRpcs, appendRpcs, restarts, elected,
                 takenVars>>
  /\ Persist(s)

\* One iteration of its loop: read the log under the lock, enqueue the call.
AskForVote(s, p) ==
  /\ state[s] = "Candidate" /\ p \in toAsk[s]
  /\ toAsk' = [toAsk EXCEPT ![s] = @ \ {p}]
  /\ voteRpcs' = voteRpcs \cup
       {[from |-> s, to |-> p, live |-> TRUE, stage |-> "sent", term |-> currentTerm[s],
         lastLogIndex |-> Len(log[s]), lastLogTerm |-> LastTerm(log[s]),
         replyTerm |-> 0, granted |-> FALSE]}
  /\ UNCHANGED <<currentTerm, votedFor, state, votesGranted, electing, logVars,
                 leaderVars, persisted, appendRpcs, restarts, historyVars>>

\* termLog once the leader of term t has the log l.
Recorded(t, l) == [u \in DOMAIN termLog \cup {t} |-> IF u = t THEN l ELSE termLog[u]]

\* CANDIDATE with a majority: helperPromoteToLeader, then reset the indexes.
BecomeLeader(s) ==
  /\ CanLock
  /\ state[s] = "Candidate" /\ ~electing[s] /\ toAsk[s] = {}
  /\ IsMajority(votesGranted[s])
  /\ state' = [state EXCEPT ![s] = "Leader"]
  /\ nextIndex' = [nextIndex EXCEPT ![s] = [p \in Server |-> Len(log[s]) + 1]]
  /\ matchIndex' = [matchIndex EXCEPT ![s] = [p \in Server |-> 0]]
  /\ elected' = elected \cup {[term |-> currentTerm[s], leader |-> s,
                               votes |-> tally[s]]}
  /\ termLog' = Recorded(currentTerm[s], log[s])
  /\ UNCHANGED <<currentTerm, votedFor, votesGranted, electing, toAsk, logVars,
                 persisted, voteRpcs, appendRpcs, restarts, cast, tally, started>>

\* One iteration of broadcastAppendEntries: heartbeat and entries are one call.
SendAppendEntries(s, p) ==
  /\ CanLock
  /\ state[s] = "Leader"
  /\ Cardinality(appendRpcs) < MaxAppendRpcs
  /\ LET prev == nextIndex[s][p] - 1
     IN appendRpcs' = appendRpcs \cup
          {[from |-> s, to |-> p, live |-> TRUE, stage |-> "sent",
            term |-> currentTerm[s], prevLogIndex |-> prev,
            prevLogTerm |-> TermAt(log[s], prev),
            entries |-> SubSeq(log[s], prev + 1, Len(log[s])),
            leaderCommit |-> commitIndex[s],
            replyTerm |-> 0, success |-> FALSE, conflictIndex |-> 0]}
  /\ UNCHANGED <<electionVars, logVars, leaderVars, persisted, voteRpcs, restarts,
                 historyVars>>

-----------------------------------------------------------------------------
(* The client interface: Raft::start, called by KVServer.                  *)

Start(s, c) ==
  /\ CanLock
  /\ state[s] = "Leader"
  /\ Len(log[s]) < MaxLogLen
  /\ log' = [log EXCEPT ![s] = Append(@, [term |-> currentTerm[s], command |-> c])]
  /\ started' = started \cup {log'[s]}
  /\ termLog' = Recorded(currentTerm[s], log'[s])
  /\ UNCHANGED <<electionVars, commitIndex, applied, leaderVars, voteRpcs,
                 appendRpcs, restarts, ballotVars>>
  /\ Persist(s)

-----------------------------------------------------------------------------
(* RequestVote: the handler, and the task that receives its reply.         *)

Newer(r) == r.term > currentTerm[r.to]

VoteIsFree(r) == Newer(r) \/ votedFor[r.to] \in {Nil, r.from}

\* requestVote in a node whose term is higher: refuse.
RefuseStaleVote(r) ==
  /\ CanLock
  /\ r.stage = "sent" /\ r.term < currentTerm[r.to]
  /\ AnswerVote(r, currentTerm[r.to], FALSE)
  /\ UNCHANGED <<electionVars, logVars, leaderVars, persisted, appendRpcs, restarts,
                 historyVars>>

\* requestVote otherwise.  reply.term is m_currentTerm before the step down.
HandleRequestVote(r) ==
  LET s == r.to
      grant == VoteIsFree(r) /\ UpToDate(r.lastLogTerm, r.lastLogIndex, log[s])
  IN /\ CanLock
     /\ r.stage = "sent" /\ r.term >= currentTerm[s]
     /\ currentTerm' = [currentTerm EXCEPT ![s] = r.term]
     /\ votedFor' = [votedFor EXCEPT ![s] = IF grant THEN r.from
                                            ELSE IF Newer(r) THEN Nil ELSE @]
     /\ IF Newer(r) THEN BecomeFollower(s) ELSE UNCHANGED <<state, electing, toAsk>>
     /\ cast' = IF grant
                THEN cast \cup {[term |-> r.term, voter |-> s, candidate |-> r.from]}
                ELSE cast
     /\ AnswerVote(r, currentTerm[s], grant)
     /\ UNCHANGED <<votesGranted, logVars, leaderVars, appendRpcs, restarts, tally,
                    elected, takenVars>>
     /\ Persist(s)

\* The reply is counted by any CANDIDATE: nothing compares the term of the call
\* with m_currentTerm.  PromptVotes is the timing under which they agree.
CountVote(r) ==
  LET s == r.from
  IN /\ CanLock
     /\ r.stage = "replied" /\ r.granted
     /\ state[s] = "Candidate"
     /\ PromptVotes => r.term = currentTerm[s]
     /\ votesGranted' = [votesGranted EXCEPT ![s] = @ + 1]
     /\ tally' = [tally EXCEPT ![s] = @ \cup {r.to}]
     /\ voteRpcs' = voteRpcs \ {r}
     /\ UNCHANGED <<currentTerm, votedFor, state, electing, toAsk, logVars, leaderVars,
                    persisted, appendRpcs, restarts, cast, elected, takenVars>>

\* A refusal that carries a higher term makes the candidate step down.
RefusedByNewerTerm(r) ==
  LET s == r.from
  IN /\ CanLock
     /\ r.stage = "replied" /\ ~r.granted
     /\ state[s] = "Candidate" /\ r.replyTerm > currentTerm[s]
     /\ StepDown(s, r.replyTerm)
     /\ voteRpcs' = voteRpcs \ {r}
     /\ UNCHANGED <<votesGranted, logVars, leaderVars, appendRpcs, restarts, historyVars>>
     /\ Persist(s)

\* The call is lost, or its deadline passes, or its reply changes nothing.
DropVote(r) ==
  /\ CanLock
  /\ voteRpcs' = voteRpcs \ {r}
  /\ UNCHANGED <<electionVars, logVars, leaderVars, persisted, appendRpcs, restarts,
                 historyVars>>

-----------------------------------------------------------------------------
(* AppendEntries: the handler, in the node r.to.                           *)

FromOldLeader_never_bug(r) == FALSE
FromOldLeader(r) == r.term < currentTerm[r.to]

\* Section 1, a lower term: refuse.  conflictIndex is left unset, and no leader
\* reads it: one still in r.term steps down first, any other drops the reply.
RefuseStaleAppend(r) ==
  /\ CanLock
  /\ r.stage = "sent" /\ FromOldLeader(r)
  /\ Answer(r, currentTerm[r.to], FALSE, 0)
  /\ UNCHANGED <<electionVars, logVars, leaderVars, persisted, voteRpcs, restarts,
                 historyVars>>

\* Section 1 otherwise.  reply.term is m_currentTerm before the step down.
AcceptAppend(r) ==
  LET s == r.to
  IN /\ CanLock
     /\ r.stage = "sent" /\ ~FromOldLeader(r)
     /\ Advance(r, [r EXCEPT !.stage = "match", !.replyTerm = currentTerm[s]])
     /\ UNCHANGED <<votesGranted, logVars, leaderVars, voteRpcs, restarts, historyVars>>
     /\ \/ r.term > currentTerm[s] /\ StepDown(s, r.term) /\ Persist(s)
        \/ /\ r.term <= currentTerm[s] /\ state[s] = "Candidate"
           /\ BecomeFollower(s)
           /\ UNCHANGED <<currentTerm, votedFor, persisted>>
        \/ /\ r.term <= currentTerm[s] /\ state[s] # "Candidate"
           /\ UNCHANGED <<currentTerm, votedFor, state, electing, toAsk, persisted>>

\* Section 2: compare the entry before the new ones.
RefuseMismatch(r) ==
  /\ r.stage = "match" /\ ~Matches(log[r.to], r.prevLogIndex, r.prevLogTerm)
  /\ Answer(r, r.replyTerm, FALSE, ConflictIndex(log[r.to], r.prevLogIndex))
  /\ UNCHANGED <<electionVars, logVars, leaderVars, persisted, voteRpcs, restarts,
                 historyVars>>

PassMatch(r) ==
  /\ r.stage = "match" /\ Matches(log[r.to], r.prevLogIndex, r.prevLogTerm)
  /\ Advance(r, [r EXCEPT !.stage = "store"])
  /\ UNCHANGED <<electionVars, logVars, leaderVars, persisted, voteRpcs, restarts,
                 historyVars>>

\* Section 3: store the entries.
StoreEntries(r) ==
  /\ r.stage = "store"
  /\ log' = [log EXCEPT ![r.to] = Stored(@, r.prevLogIndex, r.entries)]
  /\ Advance(r, [r EXCEPT !.stage = "commit"])
  /\ UNCHANGED <<electionVars, commitIndex, applied, leaderVars, voteRpcs, restarts,
                 historyVars>>
  /\ Persist(r.to)

\* Section 4: follow the leader's commit index, push to the apply channel, return.
FollowCommit(r) ==
  LET s == r.to
      lastNew == r.prevLogIndex + Len(r.entries)
  IN /\ r.stage = "commit"
     /\ commitIndex' = [commitIndex EXCEPT ![s] = FollowedCommit(@, r.leaderCommit, lastNew)]
     /\ applied' = [applied EXCEPT ![s] = PushedUpTo(commitIndex'[s], @, log[s])]
     /\ Answer(r, r.replyTerm, TRUE, 0)
     /\ UNCHANGED <<electionVars, log, leaderVars, persisted, voteRpcs, restarts,
                    historyVars>>

-----------------------------------------------------------------------------
(* AppendEntries: the task that receives the reply, in the node r.from.    *)

\* Its first section: still the leader of the call's term?  (termStarted is
\* r.term, since a leader's term changes only when it steps down.)
CurrentReply(r) ==
  /\ CanLock
  /\ r.stage = "replied"
  /\ state[r.from] = "Leader" /\ currentTerm[r.from] = r.term

DeposedByReply(r) ==
  /\ CurrentReply(r) /\ r.replyTerm > currentTerm[r.from]
  /\ StepDown(r.from, r.replyTerm)
  /\ appendRpcs' = appendRpcs \ {r}
  /\ UNCHANGED <<votesGranted, logVars, leaderVars, voteRpcs, restarts, historyVars>>
  /\ Persist(r.from)

CheckReply(r) ==
  /\ CurrentReply(r) /\ r.replyTerm <= currentTerm[r.from]
  /\ Advance(r, [r EXCEPT !.stage = "checked"])
  /\ UNCHANGED <<electionVars, logVars, leaderVars, persisted, voteRpcs, restarts,
                 historyVars>>

\* The entries of s that, as far as match tells, a majority holds.
Held(s, match) ==
  {n \in DOMAIN log[s] : IsMajority(1 + Cardinality({p \in Peers(s) : match[p] >= n}))}

\* Its second section on success.  It looks at m_state, no longer at the term.
CountSuccess(r) ==
  LET s == r.from
  IN /\ r.stage = "checked" /\ r.success
     /\ state[s] = "Leader"
     /\ matchIndex' = [matchIndex EXCEPT ![s][r.to] =
                         Max({@, r.prevLogIndex + Len(r.entries)})]
     /\ nextIndex' = [nextIndex EXCEPT ![s][r.to] = matchIndex'[s][r.to] + 1]
     /\ commitIndex' = [commitIndex EXCEPT ![s] = CommitRule(log[s], currentTerm[s], @, Held(s, matchIndex'[s]))]
     /\ applied' = [applied EXCEPT ![s] = PushedUpTo(commitIndex'[s], @, log[s])]
     /\ appendRpcs' = appendRpcs \ {r}
     /\ UNCHANGED <<electionVars, log, persisted, voteRpcs, restarts, historyVars>>

\* Its second section on refusal.
BackUp(r) ==
  LET s == r.from
  IN /\ r.stage = "checked" /\ ~r.success
     /\ state[s] = "Leader"
     /\ nextIndex' = [nextIndex EXCEPT ![s][r.to] = BackedUp(@, r.conflictIndex)]
     /\ appendRpcs' = appendRpcs \ {r}
     /\ UNCHANGED <<electionVars, logVars, matchIndex, persisted, voteRpcs, restarts,
                    historyVars>>

\* The call is lost, or its deadline passes, or its reply comes too late.
DropAppend(r) ==
  /\ \/ CanLock /\ r.stage \in {"sent", "replied"}
     \/ r.stage = "checked" /\ state[r.from] # "Leader"
  /\ appendRpcs' = appendRpcs \ {r}
  /\ UNCHANGED <<electionVars, logVars, leaderVars, persisted, voteRpcs, restarts,
                 historyVars>>

-----------------------------------------------------------------------------
(* A process dies and is started again.  main() hands Raft a new, empty    *)
(* Persister; with PersisterSurvives it is the old one (helperReadPersist).*)

\* Calls the dead process made may still arrive, their replies reach nobody;
\* what its own handlers were doing is gone.
Orphaned(rpcs, s) ==
  {IF r.from = s THEN [r EXCEPT !.live = FALSE] ELSE r :
     r \in {x \in rpcs : /\ x.from = s => x.stage \notin {"replied", "checked"}
                         /\ x.to = s => x.stage \notin {"match", "store", "commit"}}}

\* done is what the new process takes for applied.
Reboot(s, done) ==
  LET kept == IF PersisterSurvives THEN persisted[s]
              ELSE [term |-> 0, votedFor |-> Nil, log |-> << >>]
  IN /\ restarts < MaxRestarts
     /\ restarts' = restarts + 1
     /\ persisted' = [persisted EXCEPT ![s] = kept]
     /\ currentTerm' = [currentTerm EXCEPT ![s] = kept.term]
     /\ votedFor' = [votedFor EXCEPT ![s] = kept.votedFor]
     /\ log' = [log EXCEPT ![s] = kept.log]
     /\ BecomeFollower(s)
     /\ votesGranted' = [votesGranted EXCEPT ![s] = 0]
     /\ tally' = [tally EXCEPT ![s] = {}]
     /\ commitIndex' = [commitIndex EXCEPT ![s] = 0]
     /\ applied' = [applied EXCEPT ![s] = done]
     /\ nextIndex' = [nextIndex EXCEPT ![s] = [p \in Server |-> 0]]
     /\ matchIndex' = [matchIndex EXCEPT ![s] = [p \in Server |-> 0]]
     /\ voteRpcs' = Orphaned(voteRpcs, s)
     /\ appendRpcs' = Orphaned(appendRpcs, s)
     /\ UNCHANGED <<cast, elected, takenVars>>

Restart(s) == Reboot(s, << >>)

-----------------------------------------------------------------------------
RaftThread(s) ==
  \/ FollowerTimeout(s) \/ CandidateTimeout(s)
  \/ StartElection(s) \/ BecomeLeader(s)
  \/ \E p \in Peers(s) : AskForVote(s, p) \/ SendAppendEntries(s, p)

VoteCall(r) ==
  \/ RefuseStaleVote(r) \/ HandleRequestVote(r)
  \/ CountVote(r) \/ RefusedByNewerTerm(r) \/ DropVote(r)

AppendCall(r) ==
  \/ RefuseStaleAppend(r) \/ AcceptAppend(r) \/ RefuseMismatch(r) \/ PassMatch(r)
  \/ StoreEntries(r) \/ FollowCommit(r)
  \/ DeposedByReply(r) \/ CheckReply(r) \/ CountSuccess(r) \/ BackUp(r)
  \/ DropAppend(r)

Next ==
  \/ \E s \in Server : RaftThread(s)
  \/ \E s \in Server, c \in Command : Start(s, c)
  \/ \E r \in voteRpcs : VoteCall(r)
  \/ \E r \in appendRpcs : AppendCall(r)
  \/ \E s \in Server : Restart(s)

Spec == Init /\ [][Next]_vars
=============================================================================
