---------------------------- MODULE KVInductive ----------------------------
(***************************************************************************)
(* The facts, true in every reachable state and kept by every step, that   *)
(* what KVSafety says of the key-value servers follows from.               *)
(***************************************************************************)
EXTENDS KVSafety

Made(c) == call[c].stage # "idle"

\* The calls whose thread has been in its first section.
Entered(c) == call[c].stage \notin {"idle", "numbered"}

\* Calls bear numbers of their server, each its own; what a thread has not come to
\* yet is as it was.
CallsAreNumbered ==
  /\ \A c \in Call :
       /\ ~Made(c) => call[c] = IdleCall
       /\ Made(c) => /\ call[c].node \in Server /\ call[c].op \in Op
                     /\ call[c].op.client = call[c].node
                     /\ call[c].op.seq \in 1 .. seq[call[c].node]
       /\ call[c].stage = "numbered" => call[c].future = "pending"
       /\ call[c].stage = "waiting" => call[c].slot # 0
       /\ call[c].stage # "answered" => call[c].err = "" /\ call[c].value = Empty
  /\ \A c, d \in Call : Made(c) /\ Made(d) /\ call[c].node = call[d].node
                          /\ call[c].op.seq = call[d].op.seq => c = d

\* The service has given out as many numbers as it took calls.
NumbersAreCounted ==
  \A s \in Server : seq[s] = Cardinality({c \in Call : Made(c) /\ call[c].node = s})

\* In order, the number of a call that has not locked m_mu yet is its server's last.
NumberedIsLast ==
  InOrder => \A c \in Call : call[c].stage = "numbered" => call[c].op.seq = seq[call[c].node]

\* A log holds the commands of calls, each once, and a server's in order.
Orderly(l) ==
  /\ \A i \in DOMAIN l : \E c \in Call : Entered(c) /\ call[c].op = l[i]
  /\ \A i, j \in DOMAIN l : i < j /\ l[i].client = l[j].client =>
       l[i].seq # l[j].seq /\ (InOrder => l[i].seq < l[j].seq)

LogsAreOrderly ==
  /\ \A s \in Server : Orderly(log[s])
  /\ \A l \in started : Orderly(l)
  /\ Orderly(chosen)

PushedIsChosen ==
  \A s \in Server : /\ pushed[s] <= Len(chosen)
                    /\ \A i \in 1 .. pushed[s] : log[s][i] = chosen[i]

\* m_clientSeqMap has the highest number of each client that was applied.
Highest(n, t, k) ==
  /\ \A j \in 1 .. n : chosen[j].kind # "Get" /\ chosen[j].client = t => chosen[j].seq <= k
  /\ k = 0 \/ \E j \in 1 .. n :
                chosen[j].kind # "Get" /\ chosen[j].client = t /\ chosen[j].seq = k

StoresAreApplied ==
  \A s \in Server : /\ store[s] = StoreAfter(done[s])
                    /\ \A t \in Server : Highest(done[s], t, lastSeq[s][t])

\* g is what applierLoop makes of the entry at index i; a Get found its value there.
Tells(g, i) ==
  /\ g.client = chosen[i].client /\ g.seq = chosen[i].seq
  /\ chosen[i].kind = "Get" => g.value = StoreAfter(i - 1)[chosen[i].key]

\* A future that is set tells of an entry that was applied.
FuturesAreTrue ==
  \A c \in Call : call[c].future = "set" =>
    /\ call[c].stage = "waiting" /\ call[c].got \in AppliedOp
    /\ \E i \in DOMAIN chosen : Tells(call[c].got, i)

KVInv ==
  /\ TypeOK /\ CallsAreNumbered /\ NumbersAreCounted /\ NumberedIsLast /\ LogsAreOrderly
  /\ PushedIsChosen /\ StoresAreApplied /\ FuturesAreTrue /\ WaitersAreKept /\ ReadsAtItsIndex

-----------------------------------------------------------------------------
(* What every step does to the calls.                                      *)

Broken(r) == [r EXCEPT !.future = "broken"]
Told(r, g) == [r EXCEPT !.future = "set", !.got = g]
Waiting(r, i) == [r EXCEPT !.stage = "waiting", !.slot = i]

\* What the last section answers when the future told of the call's own entry.
Answer(r) ==
  IF r.op.kind # "Get" THEN Reply(r, "OK", Empty)
  ELSE Reply(r, IF r.got.value = Empty THEN "ErrNoKey" ELSE "OK", r.got.value)

\* The thread of a call goes on, or what it waits for comes, or nothing.
CallMoves(d) ==
  \/ call'[d] = call[d]
  \/ call[d].stage = "waiting" /\ call'[d] = Broken(call[d])
  \/ /\ call[d].stage = "waiting"
     /\ \E g \in AppliedOp, i \in DOMAIN chosen : Tells(g, i) /\ call'[d] = Told(call[d], g)
  \/ call[d].stage = "numbered" /\ \E i \in 1 .. MaxLen : call'[d] = Waiting(call[d], i)
  \/ /\ call[d].stage \in {"numbered", "waiting"}
     /\ call'[d] = Reply(call[d], "ErrWrongLeader", Empty)
  \/ /\ call[d].stage = "numbered" /\ call[d].op.kind # "Get" /\ Seen(call[d].node, call[d].op)
     /\ call'[d] = Reply(call[d], "OK", Empty)
  \/ /\ call[d].stage = "waiting" /\ call[d].future = "set" /\ Own(d, call[d].got)
     /\ call'[d] = Answer(call[d])

CallsMove == seq' = seq /\ call' \in [Call -> CallState] /\ \A d \in Call : CallMoves(d)

NumberedCall(o) == [IdleCall EXCEPT !.stage = "numbered", !.node = o.client, !.op = o]

\* The service takes a call and gives it the next number.
Arrives(c, o) ==
  /\ call[c] = IdleCall /\ o \in Op
  /\ RequestOf(o) \in Request
  /\ call' = [call EXCEPT ![c] = NumberedCall(o)]
  /\ seq' = [seq EXCEPT ![o.client] = o.seq] /\ o.seq = seq[o.client] + 1
  /\ InOrder => \A d \in Call : ~(call[d].stage = "numbered" /\ call[d].node = o.client)
=============================================================================
