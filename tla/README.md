# RaftDrive in TLA+

Specifications of RaftDrive: a file drive whose metadata live in a key-value
store that three nodes replicate with Raft, and whose bytes live in S3. The
modules say what the C++ code does, TLC checks on small instances what it must
never do, and TLAPS proves what matters most of it for every instance. File names without a
directory below are under `src/kvcluster/` or `src/raftdrive/`.

## The system

A browser talks HTTP to **raftdrive** (Crow, one thread per request). raftdrive
keeps bytes in S3 and everything else in the key-value store, as a gRPC client
of three **kvnode** processes. In a kvnode a gRPC service numbers the calls, a
`KVServer` turns each into a log entry, and a `Raft` object replicates the log
with the other nodes and pushes committed entries into a channel, from which the
`KVServer` applies them and answers.

| Component | State | Operations | Talks to |
|---|---|---|---|
| Raft node (`raft/raft.cpp`) | term, vote, role, log, commit index, last applied; next and match indexes | the loop `startRaft` (elections, broadcasts), `requestVote`, `appendEntries`, the tasks that receive replies, `start`, `isLeader`, `snapshot`, `installSnapshot` | peers by RPC through the pool; Persister; ApplyChannel |
| Persister (`raft/persister.cpp`) | one byte vector | save, read | called under Raft's mutex |
| ThreadPool (`raft/threadpool.hpp`) | queue of tasks, two workers per peer | enqueue | runs the RPCs of Raft |
| Raft transport and service (`transport/`, `service_raft_grpc.hpp`) | none | one RPC per message, deadline 200 or 500 ms | |
| ApplyChannel (`raft/apply_channel.hpp`) | queue of messages | push, pop, close | Raft to KVServer |
| KVServer (`kvserver/kvserver.cpp`) | the store, last number per client, map from log index to promise | `get`, `putAppend`, `applierLoop` | Raft; handler threads wait on futures |
| KV service (`service_kv_grpc.hpp`) | client id, atomic counter | Get, Put, Append | KVServer |
| KVStoreClient (`clients/kv_grpc_client.hpp`) | leader hint | get, put, append: 25 rounds over all nodes | KV service |
| MetadataService, FileSystemService, StorageService (`services/`) | none: keys `dir:`, `file:`, `children:`; S3 objects | list, create, delete, upload, download | KVStoreClient, S3 |
| Handlers, router | none | one HTTP request each | FileSystemService |

What is hard, and what correctness means:

* **Raft node.** One mutex, released and taken again in the middle of
  `appendEntries`, of the reply's task and of `startElection`; RPCs that are
  lost, late and out of order; restarts. Correct when there is one leader per
  term, logs agree where their terms do, no two nodes apply different entries
  at an index, an applied entry is in the log of every later leader, indexes
  stay inside the log, and commit indexes advance.
* **KVServer and service.** Handler threads and the applier share the wait map;
  an index may be handed out twice; the 500 ms wait races the answer; commands
  may enter the log in another order than they were numbered. Correct when the
  servers are one linearizable store, a handler never takes another command's
  result for its own or waits for a promise that is gone, and every handler
  answers.
* **Snapshots.** A node may forget the beginning of its log while calls that
  speak of it are on their way, and a follower that installs a snapshot forgets
  the end of its own. Correct when all of the above still holds, a snapshot
  covers what its node has applied, and a follower that lags is caught up. Not
  all of it does, and nothing calls `snapshot` (see RaftSnapshot below).
* **KVStoreClient.** A refused call is tried again under a new number although
  it may still be applied. Correct when what a request returns is of its own
  time, no earlier try is applied after the one that was answered, and every
  request returns.
* **Drive services.** Each operation is several calls to the store and S3,
  between which other requests run and any of which may fail. Correct when a
  directory's list names what exists below it, what exists can be reached, and
  metadata never name an object that is gone.

`PROJECT.json` lists these hazards one by one, each at its line.

## Modules

| Module | What it is |
|---|---|
| `RaftLog` | what the handlers compute from a log, as operators: the vote check, the match, the conflict index, the store of entries, the commit rule, the apply loop |
| `Raft` | the node and its RPCs: one action per critical section of `m_mu` |
| `RaftSafety` | type invariant, safety invariants and action properties |
| `RaftInductive`, `RaftLogInductive` | the inductive invariants: elections; logs, acknowledgements and commits |
| `RaftElectionProofs`, `RaftReplicationProofs`, `RaftSafetyProofs` | lemmas on the operators of `RaftLog`; the invariants proved, part by part, and the theorems on `Raft`, its refinement among them |
| `MCRaft` | symmetry and a view for TLC; its configurations differ in bounds and switches |
| `ReplicatedLog` | what Raft promises above: every node pushes a prefix of one sequence of entries taken by `start()` |
| `RaftRefinement` | `Raft` implements `ReplicatedLog`: the mapping |
| `RaftSnapshot`, `MCRaftSnapshot` | the node when `snapshot` is called: forgotten log beginnings, `installSnapshot`; the reign of one leader (`ReignSpec`), in which the runs and theorems on snapshots take place |
| `RaftSnapshotInductive`, `RaftSnapshotProofs` | the inductive invariants: in every behaviour, and in a reign; the theorems on `RaftSnapshot` |
| `KVServer` | the KV service and `KVServer` over `ReplicatedLog` |
| `AtomicStore` | one linearizable store: what README.md promises |
| `KVSafety`, `MCKV` | invariants, the mapping to `AtomicStore`; instances |
| `KVInductive`, `KVProofs` | the inductive invariant of the servers; the theorems on `KVServer` |
| `KVClient`, `MCKVClient` | `KVStoreClient` over `KVServer`: rounds, retries, broken connections; an instance |
| `KVClientInductive`, `KVClientProofs` | the inductive invariant of the client over its servers; the theorems on `KVClient` |
| `Drive` | the file system of raftdrive over an atomic store and S3: one action per call |
| `FileTree` | the tree of directories and files that a client counts on |
| `DriveSafety`, `MCDrive` | invariants, action properties, the mapping to `FileTree`; small trees |
| `DriveInductive`, `DriveProofs`, `DriveListProofs` | the inductive invariants of the drive: threads, bucket, lists, effects, what is seen; the theorems on `Drive` |

### Raft against the code

State is the members of `Raft` (`raft.hpp:63-77`). A log is `m_logs` without its
dummy entry, so that indexes are the code's. `applied[s]` is what was pushed to
the channel; its length is `m_lastApplied`. `electing` and `toAsk` are where the
Raft thread stands in `startElection`. A call is a record in `voteRpcs` or
`appendRpcs` with the `stage` it has reached: sent, in a section of the handler,
answered, in the reply's task. Taking a call out of the set is its loss, its
deadline, or a reply that changes nothing.

| Action | Code |
|---|---|
| `FollowerTimeout`, `CandidateTimeout`, `BecomeLeader` | the branches of `startRaft` |
| `StartElection`, `AskForVote` | the two sections of `startElection` |
| `SendAppendEntries` | one iteration of `broadcastAppendEntries` |
| `Start` | `start` |
| `RefuseStaleVote`, `HandleRequestVote` | `requestVote` |
| `CountVote`, `RefusedByNewerTerm`, `DropVote` | the task in `startElection` |
| `RefuseStaleAppend`, `AcceptAppend` | section 1 of `appendEntries` |
| `RefuseMismatch`, `PassMatch` | section 2 |
| `StoreEntries` | section 3 |
| `FollowCommit` | section 4 |
| `DeposedByReply`, `CheckReply`, `CountSuccess`, `BackUp`, `DropAppend` | the task in `broadcastAppendEntries`, its two sections |
| `Restart` | a process dies anywhere and the constructor runs again |

Every action that calls `helperPersist` saves in the same step, as the code does
under the mutex. Election timers have no durations: a follower may time out at
any moment. Heartbeats are `SendAppendEntries` with no entries.

Three switches separate what the code does from what it relies on:

* `Preemptible`: may another thread take `m_mu` between two sections of a call?
  TRUE is the code. FALSE is the code with each call under one lock.
* `PromptVotes`: is a vote reply processed before its candidate's next election?
  The deadline of 200 ms against a timeout of 700 ms suggests it; the queue of
  the pool, in which the deadline does not run, denies it. FALSE is the code.
* `PersisterSurvives`: does a restarted node find its Persister? FALSE is the code.

The passing runs set the switches to the kind side, and three runs show, one
switch at a time, what the other side costs (below).

### KVServer against the code

A call is one run of a gRPC handler, a record with its thread's place and
locals. `Receive` is the service (`isLeader`, `++m_seq`); `Enter` is the first
section of `get` and `putAppend`, with `start()` inside as in the code: `Refused`,
`Duplicate` or `Submit`; `Finish` and `GiveUp` are the last one, after the future
is ready or after 500 ms; `Apply` is one turn of `applierLoop`. `waitMap` holds
which call's promise is at an index: replacing or erasing it breaks the promise,
as destroying a `std::promise` does. `m_clientSeqMap` is `lastSeq`; every server
is the only client of its own calls, as the service uses one client id. Values
are sequences of letters; the empty one is "no key", as `get` treats it.

Raft is `ReplicatedLog`: leaders come and go without rule, two nodes may both
think they lead, a follower takes over any part of a leader's log that keeps
what it pushed. `RaftRefinement` shows that the Raft model never does more.

The switch `InOrder` makes calls of one server lock the mutex in the order of
their numbers. FALSE is the code.

### KVClient against the code

A job is one call of `get` or `put` by an HTTP thread, and each of its tries is a
call of `KVServer` of its own: the service numbers it anew, so the servers cannot
tell a retry from a new request (`README.md:166` lists a 'KV server with
deduplication', which covers what one service sends twice, not what a client
does). `Begin` is the call, `Send` one attempt, with `m_leaderHint` read at that
moment; `Arrive` and `TurnedAway` are the service, in a node that leads or not;
`Answered` is the reply; `Disconnected` a status other than OK, whose handler may
run on. `Continued` counts attempts and rounds. `append` is `put` but for the kind
of its calls. A request that arrives after its caller has given up is not an
action of its own: it is a handler that is slow to lock `m_mu`.

`LastTryIsLast` says that retries, all of which may be applied, are applied before
the try that is answered. It leaves out puts under which a connection broke: their
handler may still be on its way to `start()`, in a node that leads again later.

### RaftSnapshot against the code

`log[s]` is still the log from index 1 on; `base[s]` is `m_lastIncludedIndex`, and
the first `base[s]` entries stand for the snapshot. An index is relative in the
code and absolute here; what the code does where the subtraction would go below
the snapshot is written out (`RefuseFrom`, `NeedsSnapshot`, `BackedUpFrom`).
`applied[s]` grows by entries and by snapshots. The snapshot is taken to hold its
`LastIncludedIndex`, as `helperReadPersist` expects.

| Action | Code |
|---|---|
| `Snapshot` | `snapshot`; it saves the vote as `Voted`, where the constructor looks for `VotedFor` |
| `SendEntries`, `SendSnapshot` | `broadcastAppendEntries`, with and without `helperNeedsSnapshot` |
| `RefuseFrom`, `PassFrom` | section 2 of `appendEntries`; `Unset` is what a field of the reply may hold that nobody set |
| `BackUpFrom` | the task's section for a refusal, which may send a snapshot |
| `RefuseStaleInstall`, `InstallSnapshot` | `installSnapshot` |
| `HearInstalled`, `DropInstall` | the task in `helperTriggerInstallSnapshot` |
| `Expire` | a call whose deadline passes before it arrives |
| `MaySend` | bounds alone (`MaxCalls`, `MaxUnanswered`; `MaxLate` for `Expire`): the broadcast of every 100 ms asks each peer, whatever it still waits for |
| `RestartFrom` | `helperReadPersist` with a snapshot |

The code nowhere calls `snapshot` nor says when that is allowed. With the switch
`CarefulCaller` it is called in leaders only, and when no call of the leader is
waited for; FALSE is any caller. What holds of any caller is that a snapshot is
what its node has applied, that state machines agree and commit indexes advance,
all as long as one node leads. A careful caller adds that the leader's next indexes
stay in its log: a follower that took a snapshot of its own answers an unset
`conflictIndex` (`raft.cpp:357`).

No caller can be careful enough for acknowledged entries. `installSnapshot` clears
`m_logs`, the entries after the snapshot too (`raft.cpp:477`), and its reply sets the
match and next index to whatever snapshot the leader has by then, without a look at
what they were (`raft.cpp:756`). With `MaxLogLen` 3 in the run `snapshots`, and
everything else as it is, `AppliedIsDurable` fails after 21 steps. A follower with one
of the leader's three entries refuses a call with a conflict index that the leader's
snapshot, of one entry, covers. The snapshot is sent, and by the next broadcast once
more. The first reply is heard, the follower stores entries 2 and 3, and the leader
commits both. The second reply then sets the next index back to 2. The leader, which
waits for no call, takes a snapshot of two entries; its next broadcast sends that one,
and the follower clears entry 3 for it: a committed entry is on the leader alone.
`AckedEntriesAreStored` fails there as well (24 steps), by a refusal of one of two calls
under way at once, which is processed after the entries have been acknowledged.
`AckedUntilForgotten` therefore speaks of the time
before the first snapshot. A leader without that entry may be elected afterwards,
and put another in its place: over several reigns neither `StateMachineSafety` nor
`SnapshotIsApplied` can hold, and they are stated for one.

### Drive against the code

A thread of the HTTP server is a record: its request, and the list `todo` of the
calls it has still to make, to the key-value store or to S3. One action makes the
first of them and puts the calls that follow from its answer before the rest, so
that the recursion of `deleteDir` is a list that grows (`Walk`, `VisitFile`,
`VisitDir`). A call that throws empties the list (`Fails`).

| Definition | Code |
|---|---|
| `dirs`, `file`, `children` | the keys `dir:`, `file:` and `children:` of the store |
| `Shown` | what `listDir` shows of a path |
| `MakeDir`, `Register`, `Unregister`, `StillDir`, `StillFile`, `PutDir`, ... | `MetadataService`, get by get and put by put |
| `AddName`, `DropName`, `PutNames` | the read and the write of `createChild` and `deleteChild` |
| `NeedNoDir`, `NeedDir`, `Walk`, `VisitFile`, `VisitDir`, `NeedNoFile`, `Store`, `NeedFile` | `FileSystemService` |
| `PutObject`, `DropObject`, `S3Error` | `StorageService` |
| `EnsureRoot`, `Restart` | `main` |

`AtomicStore` says why a get or a put is one step. A client of the store that
finds no server for 25 rounds returns `""` or false, which `MetadataService`
takes for a missing key and does not look at (`Heard`).

A put that nobody waits for any more may still take effect: the handler in the
kvnode runs on when its caller has died, or when the connection of a try has
broken and the client has made the next (`kv_grpc_client.hpp:76`); the store
applies its entry whenever that is chosen. The variable `late` has such puts, and
calls to S3 whose outcome is unknown. `Restart` leaves there any of the calls that
were about to be made, in the threads of the server and in `main` itself; `Put`
leaves one whose connection broke (and is done), or that was given up; `S3Error`
one that S3 may have carried out. `Land` is the effect, at any later time, between
any calls of any requests, once or more: each of up to 25 rounds of tries is a command
of its own. A try that is merely refused is not among them: `KVClient` shows that
it takes no effect after the try that is answered (`LastTryIsLast`).

What the code relies on, and what may fail, are constants:

* `Apart`: requests in flight are for paths none of which is above the other, in
  different directories. `SPEC.md:310` assumes a single writer for each list of
  children. FALSE is the code, which has many threads (`main.cpp:46`) and no lock.
* `Sensible`: clients send requests below directories they see, and create new
  names. The frontend does so but for the name; no handler checks it.
* `Faults`, `MaxFaults`: a process that dies (`restart`), S3 that refuses, or
  answers with an error and may do the work all the same (`s3`), a connection that
  breaks under a put, which is tried again (`cut`), a store that does not answer, or
  answers OK to a put that it drops for a duplicate (`silent`; `service_kv_grpc.hpp:67`
  and the run `kv_order`). Each late effect counts as a failure, too.

The history variable `broken` says that a request was cut short by a restart or
an unknown outcome, or left a call behind; `saw`, in a thread, what a client saw below the request's
path when it began. `KeepsTree` maps the paths of requests in flight to what was
seen before, so that a request takes effect in one step, when it ends.

## Runs

All runs exhaust their bounded state space. Deadlock checking is off in all of
them: the bounds on terms, log length, calls and restarts stop the system, and
so does a drive without requests.

| Run | Instance | Shows |
|---|---|---|
| `restart` | 2 rivals, 2 terms, 1 restart, 1 entry per log | types; one leader per term, one vote per term; votes, acknowledged and applied entries survive a crash at any point, if the Persister does |
| `snapshots` | 1 leader, alone or after a reign that ended in a snapshot and a restart; 2 entries, 2 calls pending, both of which may be unanswered or late, 1 restart, `CarefulCaller`, fairness | with late, lost and overtaking calls, snapshots and installations: match indexes are true until the first snapshot, next indexes in the log, state machines agree, snapshots cover what was applied, commit indexes advance; followers catch up |
| `logs` | 2 rivals, 3 terms, 2 entries, each call under one lock | log matching; next indexes in the log; nothing applied is overwritten; leaders, and nodes that could be elected, have every applied entry; leaders only append; `Raft` implements `ReplicatedLog` |
| `kv_linear` | 2 servers, 3 calls (Append, Get), 2 reigns, `InOrder` | types; the servers implement `AtomicStore`; promises are kept, Gets are answered from their own index |
| `kv_client` | 2 servers, a put, then a get or, if it was given up, the put again, 2 tries each, 2 reigns, a broken connection, fairness | answers are of their request's time; no retry is applied after the try that was answered; every request returns and no handler is left |
| `drive_tree` | 2 threads, 4 paths below the root on 3 levels, 2 faults (`restart`, `s3`, `cut`, late effects), `Apart`, `Sensible` | the requests implement `FileTree`; what exists is listed; bucket and metadata agree; nothing seen vanishes unless it is deleted, or a put left behind is for its path or one above |
| `stale_votes` | `PromptVotes` FALSE | **violated**: two leaders of a term, by a vote counted in a later election (`raft.cpp:169`) |
| `preempted` | `Preemptible` TRUE | **violated**: two nodes apply different entries, when a vote is granted between two sections of `appendEntries` (`raft.cpp:388`) |
| `volatile` | `PersisterSurvives` FALSE, 1 restart | **violated**: two leaders of a term, by a node that forgot its vote (`main.cpp:42`) |
| `kv_order` | `InOrder` FALSE | **violated**: a Put is answered OK and never changes the store (`service_kv_grpc.hpp:67`) |
| `drive_race` | 2 threads, 2 names, `Apart` FALSE | **violated**: two requests in one directory, and one name is lost from its list (`service_metadata.cpp:141`) |
| `drive_root` | a restart, and one call no server answers | **violated**: `ensureRoot` empties the list of a root that exists (`service_metadata.cpp:11`) |

Why the bounds are enough to matter. Three nodes are the deployment. Two rivals
and two terms give competing leaders, step downs, stale calls and conflicting
logs. The commit rule needs three terms: an entry of term 1 held by a majority,
a term 2 elsewhere, and a third leader. With two entries per log a follower can
be behind, ahead or in conflict at either index, and the next index can back up
twice. Out-of-order delivery needs two calls of one leader. The run `snapshots`
takes one reign, which it starts in every state that a first reign of a few
entries could leave: two nodes with all entries, the watched one with fewer, each
having applied some; or in none, with empty logs. There a leader has two calls
under way at once, to one peer or to both, and either or both may be late; two
calls that are alike in everything count once. The theorems have no such bound
(`MaxCalls`, `MaxUnanswered` and `MaxLate` are any numbers). On the KV side, two
reigns let an index be handed out twice, and three calls let a read follow two
writes. The client of `kv_client` has two requests with two tries each, so that
a retry can race the try before it, whose server may lose its reign in between,
or break its connection; with three reigns a handler left behind by a broken
connection reaches the log after the answer, which is what `LastTryIsLast`
excludes by name. The tree of the drive has a directory with two children, one of which has
a child: room for a deletion that descends, for one that starts below, and for
two requests apart; two faults let a restart meet an error, or another restart, and
let a put that a dead process or a broken connection left behind take effect in the
middle of later requests. Once a request has been cut short, the view `LiveState` of
`MCDrive` keeps what `NothingVanishes` and the threads still depend on; the bucket,
the late calls to S3 and the keys in metadata are compared no more, so that `TypeOK`
is checked of them only until then (`DriveType` proves it of all).
Each bound is a constant used in a guard (`MaxTerm`, `MaxLogLen`, `MaxVoteRpcs`,
`MaxAppendRpcs`, `MaxRestarts`, `Timers`; `MaxCalls`, `MaxUnanswered`, `MaxLate`,
`Mortal`; `MaxLen`,
`MaxReigns`, `MaxBusy`; `Plan`, `MaxFailures`; `Path`, `MaxFaults`).

Nodes that may time out are interchangeable, and so are the others, calls, KV
servers and HTTP threads; `kv_client` and `snapshots`, which check liveness, use no
symmetry. The run `logs` uses the view
`LiveState` of `MCRaft`, which forgets what can no longer matter to a node's next
steps nor to the properties.

For every property of a passing run a mutant in `PROJECT.json` replaces one
definition by a `..._bug` neighbour, a mistake the code could have had, and the
run then fails.

### Fairness

`kv_client` assumes that threads run: weak fairness of the client's threads and
of the handlers, each as a whole, which is less than the operating system gives;
`GiveUp` is enabled by a timer. Nothing is assumed of Raft, of `applierLoop` or
of connections, and `EveryRequestReturns` holds all the same: the loops of the
client are bounded, and a handler waits 500 ms at most.

`snapshots` assumes, for the watched follower, that the leader's broadcasts go on
(`Sends`; `startRaft` makes one every 100 ms), and that of the calls made and
answered again and again not all are lost or late (`Arrives`, `Hears`). This is
strong fairness, since a call that is lost disables its own arrival, and the code
makes the next one. Sections of calls that have begun go on (`CallStep`). Nothing
is assumed of the other nodes, of restarts or of `snapshot`.

No liveness is claimed of elections: whether they end depends on random durations
that the model leaves out. None is claimed of the drive, which has no loop that
waits.

## Proofs

All of `Raft`, `RaftSnapshot`, `KVServer` and `KVClient` that the runs check, except
liveness, is proved by TLAPS for every finite set of servers, every finite set of
calls for which the logs have room, all requests, any number of client threads and
rounds, every bound, and every setting of the switches that is not named; and the
safety properties of `Drive` for every finite tree of paths, every finite set of threads, and
any number of failures of any kind.

| Theorem | States | Assuming |
|---|---|---|
| `RaftElectionProofs!TypeCorrect` | `TypeOK` | |
| `RaftElectionProofs!ElectionSafe`, `VotesOnce` | `ElectionSafety`, `OneVotePerTerm` | `TrustedElections` |
| `RaftReplicationProofs!LogsMatch`, `NextIndexesInLog`, `LeadersOnlyAppend` | `LogMatching`, `NextIndexInLog`, `LeaderAppends` | `TrustedElections`, `~Preemptible` |
| `RaftSafetyProofs!AcksHold`, `AppliesOwn`, `StateMachinesAgree`, `LeadersAreComplete`, `ElectableComplete`, `AppliedStaysStored`, `CommitsAdvance` | `AckedEntriesAreStored`, `AppliesOwnLog`, `StateMachineSafety`, `LeaderCompleteness`, `ElectableHasApplied`, `AppliedIsDurable`, `CommitAdvances` | the same |
| `RaftSafetyProofs!NodesKeepPromise` | `KeepsPromise`: `Raft` implements `ReplicatedLog` | the same, and `MaxRestarts = 0` |
| `RaftSnapshotProofs!SnapTypes`, `SnapshotsFit` | `SnapTypeOK`, `SnapshotFits`, of `SnapSpec` | |
| `RaftSnapshotProofs!SnapshotsCoverApplied`, `SnapshotsKeepStateMachines`, `AcksAreTrueUntilForgotten`, `SnapshotsKeepCommits` | `SnapshotIsApplied`, `StateMachineSafety`, `AckedUntilForgotten`, `CommitAdvances`, of `ReignSpec` | `Steady` |
| `RaftSnapshotProofs!CarefulNextIndexes` | `NextIndexInLog`, of `ReignSpec` | `Steady`, `CarefulCaller` |
| `KVProofs!KVTypes`, `WaitersKept`, `ReadsTrue` | `TypeOK`, `WaitersAreKept`, `ReadsAtItsIndex` | |
| `KVProofs!ServersAreLinearizable` | `Linearizable`: `KVServer` implements `AtomicStore` | `InOrder` |
| `KVClientProofs!TheLastTryIsLast` | `LastTryIsLast` | |
| `KVClientProofs!FreshAnswers` | `AnswersAreFresh` | `InOrder` |
| `DriveProofs!DriveType` | `TypeOK` | |
| `DriveProofs!BucketMatches` | `ObjectsMatchFiles` | `Apart` |
| `DriveListProofs!MetadataIsListed` | `EverythingIsListed` | `Apart`, `Sensible` |
| `DriveListProofs!RequestsTakeEffectAtOnce` | `KeepsTree`: `Drive` implements `FileTree` | the same |
| `DriveListProofs!OnlyDeletionsHide` | `NothingVanishes` | the same, and `"silent" \notin Faults` |

The assumptions are what the code relies on and does not see to, and each has a
run that shows what happens without it.

* `TrustedElections`: a vote is counted in the election it was given in
  (`PromptVotes`; without it `stale_votes` has two leaders of a term), and a
  restarted node finds its Persister, unless nothing restarts (`volatile`).
* `~Preemptible`: no other thread takes `m_mu` between two sections of a call
  (`preempted`). Elections need no such thing.
* `MaxRestarts = 0` for the refinement: a node that restarts pushes its log from
  the beginning again, into a new channel of a new, empty `KVServer`; `ReplicatedLog`
  and `KVServer` have no restart. The safety theorems allow any number of them.
* `Steady`: a node that restarts finds its Persister, or none restarts; and the term
  of the reign is not 0. `RaftSnapshot` is for calls under one lock throughout. That
  the leader stays the last one is part of `ReignSpec`, not an assumption: all nodes
  begin in the last term there is (`MaxTerm`), so that nobody can stand. Which logs
  they begin with is any that an earlier reign of one leader could leave.
* `InOrder`: calls of one server lock `m_mu` in the order of their numbers
  (`kv_order`). The other theorems on `KVServer` and `KVClient` hold in either
  order. `kv_client` checks `AnswersAreFresh` without `InOrder` on one thread, which no
  longer listens to a call that a later one overtakes; with a second thread TLC finds the same lost write as in
  `kv_order`.
* `Apart`: requests in flight are for different directories (`drive_race`).
* `"silent" \notin Faults`: the store answers every call and drops no put that it
  acknowledges (`drive_root`, `kv_order`).
* `Sensible`: a request to create a name is for one its client does not see, in a
  directory it sees. `createDir` does not look for the parent: with `Sensible` FALSE
  in `drive_tree`, TLC has one thread create `/a/x`, then `/a`, whose empty list
  takes the place of the one `x` is in (`service_metadata.cpp:54`).

Besides, they cite the named assumptions on the constants (`ServerAssumption`,
`BoundAssumption`, `LogHasRoom`, `PathAssumption` and the like), which TLC
evaluates in the runs.

### Elections

`ElectionSafety` is not inductive. `RaftInductive!ElectionInv` adds what it rests
on: memory and Persister agree (`VotePersisted`), a node remembers its vote
(`CastRemembered`), a granting reply tells of a real vote (`GrantIsCast`), a
candidate has one call per peer and term (`OneCallPerPeer`) and counts nobody
twice (`AskedOnce`), its tally is that of its term (`TallyIsTrue`), and who led
had a majority (`ElectedByMajority`). Two majorities share a voter, who voted
once. Each part fails without the one before it, and `TallyIsTrue` fails in the
code as it is, which is the run `stale_votes`. `TypeOK` needs
`LeaderHasNextIndexes`: a next index of 0 would make `prevLogIndex` negative.

### Logs

Every log is compared with the logs of leaders. The history variable `termLog`
of `Raft` has, for each term that had a leader, the log of that leader, which
`BecomeLeader` puts there and `Start` extends; it outlives the leader. A log is
`Sound` when each of its entries agrees, with everything before it, with the log
of the entry's term. `ReplicationInv` (module `RaftLogInductive`) says that the
logs of all nodes and of `termLog` are sound, that a call on its way carries a
part of the log of its term (`AppendCallsTellLog`), that a request for a vote
tells the candidate's log (`VoteCallsTellLog`), and that what one section of a
call found is still so when the next begins (`SectionsHold`), which is where
`~Preemptible` comes in. `LogMatching` follows from soundness alone.

The proof does not go through the invariant's conjuncts action by action. The
second half of `RaftLogInductive` states what any step does to roles, logs, votes,
calls and indexes (`RolesMove`, `LogsMove`, `TermLogGrows`, `LogFollows`,
`CastMoves`, `AppendCallsMove`, `IndexesMove`, `CommitMoves`); each is proved once,
action by action, and the conjuncts are then preserved by these facts.

### Commits

An entry is `Committed` when the leader of its own term has it and each node of a
majority has `Acked` it: the node's log has the entry, the logs of the candidates
it has voted for since have it, and so have the leaders it helped to elect, or
else some leader between the two terms already lacked it. With this escape clause
what one node acknowledged is kept by every step (`AckedStays`), whatever other
nodes do; and no leader ever lacked a committed entry, since the first one to lack
it would have been elected by a voter that had acknowledged it
(`LeadersHaveCommitted`). `CommitInv`
adds that match indexes and successful replies are true (`AcksAreTrue`), that
every commit index, and every one on its way to a follower, covers committed
entries only (`CommitsAreCovered`) and that the apply loop pushes those
(`AppliesCommitted`). Here the commit rule's comparison of terms
(`raft.cpp:598`) is needed: a majority that holds an entry of an older term has
not acknowledged it.

### Snapshots

Two facts need no reign (`SnapInv` of `RaftSnapshotInductive`): a snapshot is no longer
than the log, nor than what was applied (`SnapshotFits`), and the entries a call is
about to store come after the snapshot of the node it is in (`StoresAfterSnapshot`).
The second is why a store never cuts into what a snapshot stands for; it holds as
`PassFrom` compares with `m_lastIncludedIndex` and `RaftSnapshot` lets no snapshot come
between the sections. Snapshots bring no other type errors, and `SnapTypes` reuses the
lemmas on the steps of `Raft`, whose conditions do not mention snapshots.

`ReignInv(lead)` compares everything with the log of the one leader, dead or alive. It
could not be `Acked` and `Committed` of the proofs on `Raft`: these say that a node
keeps what it has acknowledged, which is what `installSnapshot` breaks. Instead, what
a state machine has been given is a beginning of the leader's log, and a node's log has
none of it otherwise, as far as that log goes (`FollowsLog`): a log may become shorter,
but not different. For this a call must bring entries of the leader only, after an entry
that the leader has too (`TellsLog`); the exception is a call whose next index was set
beyond the leader's log by an unset `conflictIndex`, which claims an entry of term 0, and
no log has one (`Like`). A snapshot on its way is a beginning of the leader's log
(`TellsSnapshot`). `AcksOf` is what `AckedUntilForgotten` needs besides. `CareOf` adds what a careful caller
buys: no node's snapshot is beyond the leader's, nor the leader's beyond the
calls it waits for, however many they are; a call that nobody waits for may be, and its
unset answer is never heard. TLC confirmed `ReignInv` and `CareOf` on a smaller instance before they were
proved, and refuted forms of them that asked acknowledged entries to stay.

### Refinement

`RefInv` adds to these that terms and logs stay within the bounds and that every
log is the beginning of one that `start` made. A step of a node then is one of
`ReplicatedLog`'s: `BecomeLeader` is `Elected`, leaving that role `Deposed`, `Start`
is `Start`, `StoreEntries` is `Adopt`, `FollowCommit` and `CountSuccess` are
`Deliver` if they push anything, and all else is a stutter.

### Key-value servers

`KVInv` (module `KVInductive`) says that a call's number is its own
(`CallsAreNumbered`, `NumbersAreCounted`), that a log has the command of a call
once, and those of one server in their order if `InOrder` (`LogsAreOrderly`), that
what was pushed is chosen (`PushedIsChosen`), that a server's store is what the
effective ones of the chosen entries make it and `lastSeq` the highest number
among them (`StoresAreApplied`), and that a future which is set tells of an entry
that was chosen, with the value found before it (`FuturesAreTrue`). `WaitersAreKept`
and `ReadsAtItsIndex` are conjuncts of it. Linearizability follows: a call's
linearization point is the step that first makes its entry chosen. With `InOrder`
a Put's number is above those of its server before it, so that `applierLoop`
does not take it for a duplicate and the OK is true; without, it may, which is
`kv_order`.

### The client of the store

`ClientInv` (module `KVClientInductive`) ties the requests of the threads to the
calls of the servers: the k-th try of a request is one call, which exists only if
the request has come that far, asks what the request asks, and has its handler
done when the next try is made, unless a connection broke under it
(`TriesAreCalls`); what an entry of a try does to the store comes after the
request's beginning (`TriesAreLater`); what a request returned is what its last try
was told (`AnswersAreTold`); and in every log, those of deposed leaders too, the
commands of a request's tries stand in their order (`LogsHaveTriesInOrder`). The
last one is needed for all logs, since any of them may be the one that is chosen;
it is kept because a handler that appends its command is the one whose answer the
client waits for. A step of the client is one of the servers', or of a thread
alone, or the arrival of a call (`ClientStep`), so that `KVInv` comes from
`KVProofs` as it is. `FreshAnswers` needs besides that an OK to a write is true
(`AcksAreTrue`), which is where `InOrder` comes in.

### The drive

What a thread will do is in its list of calls, so that is what the invariants of
`DriveInductive` are about. `ThreadInv`: the list is `Scripted`, that is, its first
calls are those of the request or of the part of it that is under way, and after
them come only visits and deletions that an enclosing `deleteDir` has still to
make; it is `Nested`, a directory's deletion stands behind everything below it; and
each call is `Within` the request's path, but for the writing back of the list
that the path is in. Two threads that are `Apart` therefore never write one key
(`ApartThreads`, `ApartPaths`). `DriveType` needs no more, and no such condition.

`BucketInv` adds what the first call of a thread finds (`BucketFound`), and that a
file whose object is gone, or an object that no file has yet, belongs to a thread
that is about to say so. `broken` is its escape: a request cut short by a restart,
or a call to S3 or to the store whose effect is unknown, leaves such an object or
file behind for good, since nothing in the code looks for them. An upload that S3
refuses does not, nor does a deletion. Nothing is in `late` before that
(`LandBroken`), and what is there is for paths of the tree (`LandTypes`).

`ListInv` says that parents are directories; that a name is in its parent's list
or some thread is about to put it there (`Listing`), with a list that names all
other children as well (`ListFound`); that when a deletion gets to a directory
itself, whatever is in it has been deleted or is deleted by an earlier call
(`Emptied`), so that `clearDir` meets no children; and that the root is there from
the first request on (`RootIsMade`). `Listing` alone is not inductive: `putList`
of a list read earlier keeps the other names only by `ListFound`, which others
keep because they are apart, and `Emptied` relies on lists being complete when
`walk` reads them. TLC found each of these invariants to hold on the instance of
`drive_tree` before its proof was begun.

`TreeInv`, for `KeepsTree`, adds what a request in flight has done of its effect
(`EffectsAreTold`). What exists is listed, except at the paths of requests in
flight, where clients see what they saw before (`View`). Below the path of a
creation nothing existed and nothing exists (`Created`), and the new directory or
file is there by the time it is listed; what is still there below the path of a
deletion is what its client saw, and the path itself goes last (`Removed`), so that
a deletion which S3 stops has taken away whole subtrees: a `DeletePart`. The proof
first says once what any step of a thread is, the end of a request (`Ended`) or an
answered call (`Called`, in `StepIs`). An answered call, a request that comes and a
restart are stutters of the tree (`ViewCalled`, `ViewReceive`), and an end is a
`Create`, a `Delete`, a `DeletePart` or nothing (`EndedCreates`, `EndedDeletes`).

`NothingVanishes` holds in states that are `broken` too, where a path may be a
directory and a file, a name may be listed without metadata, and metadata
without a name, so that nothing of `ListInv` can be used. `SightInv` speaks of
what is listed and has metadata only (`Visible`): it is in a directory that can
be seen, and the root is made before there is any. Two calls could take away
more than their request is about. `createDir` puts `[]` over the list of its new
path: the client saw nothing there, so nothing below it can be seen, although a
deletion that was cut short may have left metadata (`Placed`). And a list is
written back that was read before: it lacks nothing that can be seen but the
path that is deleted, and adds nothing but the path that is created, so that no
name left over from a broken request comes back to view with it (`SightFound`).
A deletion hides a path only when nothing can be seen below it any more, for
which every name that `walk` reads has a call that sees to it, as far as
`dropName` and the `putList` after it (`Hides`, `Hidden`). The store must
answer: an unanswered `get` of a list is taken for an empty one, which
`drive_root` shows at the root.

Puts that were left behind may take effect at any time. What is neither at the path
of one nor below it is `Spared`, and `SightInv` speaks of that alone. The puts stay in
`late`, so that less and less is spared (`LateStays`, `SightShrinks`). A late effect
changes keys of its own path only, at or below which nothing is spared, and so
leaves all that is spared as it is seen (`SightLands`). A step of a thread may find a
list that a late put has spoilt, but not one whose names are spared. TLC confirmed `SightInv` on the instance of
`drive_tree`, and up to 4 faults in part, before it was proved.

### What stays with TLC

* Liveness: `EveryRequestReturns`, the liveness property of `snapshots`. Temporal
  induction over fair behaviours is out of the prover's reach.
* An election after a snapshot: `SnapSpec` has them, and its two theorems hold, but
  the properties of logs are stated and proved for `ReignSpec` only, since they do not
  hold of all of `SnapSpec` (RaftSnapshot above).
* That the operators of `RaftLog` compute what loops of the code compute is by
  translation; lemmas state what they return and bound.

## Plan

Done: all modules above, and a theorem for each safety property that a passing run
checks. Next: what `installSnapshot` would have to keep of `m_logs` for the theorems
on acknowledged entries to hold with snapshots, and their proof for that.

## Not modelled

* What makes up most of the source by lines: `include/json.hpp`, a vendored
  library of 25,526 lines. The modules cover about half of the repository's own C++.
* An election after a snapshot: `snapshot` saves the vote where the constructor
  does not look, and the run `snapshots` stays in one reign. `Snapshot` has it.
* The snapshot messages on the apply channel, which `applierLoop` ignores, and
  `installSnapshot` between two sections of `appendEntries`, which would wrap
  around `args.preLogIndex + 1 - m_lastIncludedIndex` (`raft.cpp:392`).
* `kill`, destructors, `ThreadPool::shutdown`, `ApplyChannel::close`: `main` runs
  until the process dies, which `Restart` is.
* Durations, JSON and protobuf encodings, logging, HTTP formatting, deployment
  files, the React frontend.
* A server that hangs, which a client without deadlines would wait for.
* `listDir` and `downloadFile`, which change nothing, and time stamps, sizes,
  content types.
* The overflow of the `int m_seq` and of 32-bit terms: out of any run's length.
