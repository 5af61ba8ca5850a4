------------------------------ MODULE KVServer ------------------------------
(***************************************************************************)
(* The key-value servers: KVStoreServiceImpl (service_kv_grpc.hpp), which  *)
(* numbers the calls, and KVServer (kvserver.cpp), which hands them to     *)
(* Raft, applies what Raft pushes, and answers.  Raft is ReplicatedLog.    *)
(*                                                                         *)
(* A call is one run of a gRPC handler; it belongs to one thread.  Between *)
(* two sections of m_mu, and between the isLeader() of the service and the *)
(* first of them, other threads run.                                       *)
(***************************************************************************)
EXTENDS Naturals, Sequences, FiniteSets, SequencesExt

CONSTANTS
  Server,
  Call,      \* the calls of a behaviour, over all servers
  Request,   \* what clients may ask: [kind, key, value]
  NoCall,    \* no one waits
  InOrder,   \* do the calls of a server lock m_mu in the order of their numbers?
  MaxLen,    \* bound: length of the logs
  MaxReigns, \* bound: times a node is made leader
  MaxBusy    \* bound: calls at a time

ASSUME CallAssumption == NoCall \notin Call /\ InOrder \in BOOLEAN
ASSUME LogHasRoom == /\ {MaxLen, MaxReigns, MaxBusy} \subseteq Nat
                     /\ IsFiniteSet(Call) /\ MaxLen >= Cardinality(Call)

VARIABLES
  leads, log, started, pushed, chosen,   \* Raft: see ReplicatedLog
  seq,       \* seq[s]: m_seq of the service
  call,      \* call[c]: where the handler's thread is, and its local variables
  waitMap,   \* waitMap[s][i]: the call whose promise m_waitMap holds at index i
  store,     \* m_kvStore; the empty string is the same as no entry
  lastSeq,   \* m_clientSeqMap; 0 is the same as no entry
  done,      \* done[s]: messages applierLoop has taken from the apply channel
  reigns     \* times a node was made leader

Kind == {"Get", "Put", "Append"}
Key == {q.key : q \in Request}

\* The command in the log: every server is the one client of its own calls.
Op == [kind : Kind, key : Key, value : {q.value : q \in Request}, client : Server, seq : Nat]

\* A value is a sequence of what requests write.
Text == Seq(UNION {{q.value[i] : i \in DOMAIN q.value} : q \in Request})

ASSUME RequestAssumption ==
  /\ Request \subseteq [kind : Kind, key : Key, value : Text]
  /\ NoCall \notin Op \cup [kind : Kind, key : Key, value : Text]

INSTANCE ReplicatedLog WITH Entry <- Op

raftVars == <<leads, log, started, pushed, chosen>>
kvVars == <<seq, call, waitMap, store, lastSeq, done>>
vars == <<raftVars, kvVars, reigns>>

Empty == << >>

\* stage    "idle", "numbered" by the service, "waiting" for its future,
\*          "answered" with err and value
\* future   "pending", "broken", or "set" to the applied op got
IdleCall == [stage |-> "idle", node |-> NoCall, op |-> NoCall, slot |-> 0,
             future |-> "pending", got |-> NoCall, err |-> "", value |-> Empty]

Init ==
  /\ LogInit
  /\ seq = [s \in Server |-> 0]
  /\ call = [c \in Call |-> IdleCall]
  /\ waitMap = [s \in Server |-> [i \in 1 .. MaxLen |-> NoCall]]
  /\ store = [s \in Server |-> [k \in Key |-> Empty]]
  /\ lastSeq = [s \in Server |-> [t \in Server |-> 0]]
  /\ done = [s \in Server |-> 0]
  /\ reigns = 0

-----------------------------------------------------------------------------
\* The handler returns; its local variables are gone.
Reply(r, err, value) ==
  [IdleCall EXCEPT !.stage = "answered", !.node = r.node, !.op = r.op, !.err = err,
                   !.value = value]

\* The promise in the map is destroyed: whoever waits for it is told so.
BreakPromise(calls, d) ==
  IF d # NoCall /\ call[d].future = "pending"
  THEN [calls EXCEPT ![d].future = "broken"]
  ELSE calls

Busy(c) == call[c].stage \notin {"idle", "answered"}

\* The service finds itself the leader and takes the next number.
Receive(c, s, q) ==
  /\ call[c].stage = "idle" /\ leads[s]
  /\ Cardinality({d \in Call : Busy(d)}) < MaxBusy
  /\ InOrder => \A d \in Call : ~(call[d].stage = "numbered" /\ call[d].node = s)
  /\ seq' = [seq EXCEPT ![s] = @ + 1]
  /\ call' = [call EXCEPT ![c] =
       [@ EXCEPT !.stage = "numbered", !.node = s,
                 !.op = [kind |-> q.kind, key |-> q.key, value |-> q.value,
                         client |-> s, seq |-> seq'[s]]]]
  /\ UNCHANGED <<raftVars, waitMap, store, lastSeq, done, reigns>>

\* start() refuses: the node was deposed since.
Refused(c) ==
  /\ ~leads[call[c].node]
  /\ call' = [call EXCEPT ![c] = Reply(@, "ErrWrongLeader", Empty)]
  /\ UNCHANGED <<raftVars, seq, waitMap, store, lastSeq, done, reigns>>

Seen(s, op) == lastSeq[s][op.client] >= op.seq

\* putAppend finds its number already applied, after start() took the command.
Duplicate(c) ==
  LET s == call[c].node  op == call[c].op
  IN /\ op.kind # "Get" /\ Seen(s, op)
     /\ Start(s, op)
     /\ call' = [call EXCEPT ![c] = Reply(@, "OK", Empty)]
     /\ UNCHANGED <<seq, waitMap, store, lastSeq, done, reigns>>

\* Otherwise a promise is left at the index start() returned.
Submit(c) ==
  LET s == call[c].node  op == call[c].op  idx == Len(log[s]) + 1
  IN /\ ~(op.kind # "Get" /\ Seen(s, op))
     /\ Start(s, op)
     /\ waitMap' = [waitMap EXCEPT ![s][idx] = c]
     /\ call' = [BreakPromise(call, waitMap[s][idx]) EXCEPT
                   ![c].stage = "waiting", ![c].slot = idx]
     /\ UNCHANGED <<seq, store, lastSeq, done, reigns>>

\* The first section of get and putAppend.
Enter(c) ==
  /\ call[c].stage = "numbered"
  /\ Refused(c) \/ Duplicate(c) \/ Submit(c)

\* Is the op that was applied at its index the one the call submitted?
Own_always_bug(c, op) == TRUE
Own(c, op) == op.client = call[c].op.client /\ op.seq = call[c].op.seq

\* What the last section of get and putAppend makes of the future.
Outcome(c) ==
  LET r == call[c]
  IN IF r.future = "broken" \/ ~Own(c, r.got) THEN Reply(r, "ErrWrongLeader", Empty)
     ELSE IF r.op.kind # "Get" THEN Reply(r, "OK", Empty)
     ELSE IF r.got.value # Empty THEN Reply(r, "OK", r.got.value)
     ELSE Reply(r, "ErrNoKey", Empty)

Leave_leaks_bug(c, reply) ==
  /\ call' = [call EXCEPT ![c] = reply]
  /\ UNCHANGED <<raftVars, seq, waitMap, store, lastSeq, done, reigns>>
\* That section clears the index of the call, whoever's promise is there by now.
Leave(c, reply) ==
  LET s == call[c].node  idx == call[c].slot
  IN /\ waitMap' = [waitMap EXCEPT ![s][idx] = NoCall]
     /\ call' = [BreakPromise(call, waitMap[s][idx]) EXCEPT ![c] = reply]
     /\ UNCHANGED <<raftVars, seq, store, lastSeq, done, reigns>>

Finish(c) ==
  /\ call[c].stage = "waiting" /\ call[c].future # "pending"
  /\ Leave(c, Outcome(c))

\* fut.wait_for gave up after 500 ms, even if the future was set before the
\* handler had m_mu again.
GiveUp_acks_bug(c) ==
  /\ call[c].stage = "waiting"
  /\ Leave(c, Reply(call[c], "OK", Empty))
GiveUp_never_bug(c) == FALSE
GiveUp(c) ==
  /\ call[c].stage = "waiting"
  /\ Leave(c, Reply(call[c], "ErrWrongLeader", Empty))

-----------------------------------------------------------------------------
\* What Put and Append write.
Written(st, op) ==
  [st EXCEPT ![op.key] = IF op.kind = "Append" THEN @ \o op.value ELSE op.value]

\* applierLoop takes the next message.
Apply(s) ==
  LET i == done[s] + 1
      op == chosen[i]
      fresh == op.kind # "Get" /\ ~Seen(s, op)
      applied == IF op.kind = "Get" THEN [op EXCEPT !.value = store[s][op.key]] ELSE op
      waiter == waitMap[s][i]
  IN /\ i <= pushed[s]
     /\ done' = [done EXCEPT ![s] = i]
     /\ store' = IF fresh THEN [store EXCEPT ![s] = Written(@, op)] ELSE store
     /\ lastSeq' = IF fresh THEN [lastSeq EXCEPT ![s][op.client] = op.seq] ELSE lastSeq
     /\ call' = IF waiter = NoCall THEN call
                ELSE [call EXCEPT ![waiter].future = "set", ![waiter].got = applied]
     /\ waitMap' = [waitMap EXCEPT ![s][i] = NoCall]
     /\ UNCHANGED <<raftVars, seq, reigns>>

-----------------------------------------------------------------------------
\* A node pushes one entry at a time.
Raft(s) ==
  /\ \/ reigns < MaxReigns /\ Elected(s) /\ reigns' = reigns + 1
     \/ Deposed(s) /\ UNCHANGED reigns
     \/ Adopt(s) /\ UNCHANGED reigns
     \/ pushed[s] < Len(log[s]) /\ Deliver(s, pushed[s] + 1) /\ UNCHANGED reigns
  /\ UNCHANGED kvVars

Handler(c) == Enter(c) \/ Finish(c) \/ GiveUp(c)

Next ==
  \/ \E c \in Call, s \in Server, q \in Request : Receive(c, s, q)
  \/ \E c \in Call : Handler(c)
  \/ \E s \in Server : Apply(s) \/ Raft(s)

Spec == Init /\ [][Next]_vars
=============================================================================
