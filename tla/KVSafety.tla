------------------------------ MODULE KVSafety ------------------------------
(***************************************************************************)
(* What the key-value servers of module KVServer owe their callers.        *)
(***************************************************************************)
EXTENDS KVServer

\* What a future may be set to: a Get brings back the value it found.
AppliedOp == [kind : Kind, key : Key, value : Text, client : Server, seq : Nat]

\* What a handler's thread holds.
CallState ==
  [stage : {"idle", "numbered", "waiting", "answered"}, node : Server \cup {NoCall},
   op : Op \cup {NoCall}, slot : 0 .. MaxLen, future : {"pending", "broken", "set"},
   got : AppliedOp \cup {NoCall},
   err : {"", "OK", "ErrNoKey", "ErrWrongLeader"}, value : Text]

\* The variables of the service, of KVServer and of every handler have their types,
\* and a server applies no more than its node has pushed.
TypeOK ==
  /\ leads \in [Server -> BOOLEAN]
  /\ log \in [Server -> Seq(Op)] /\ \A s \in Server : Len(log[s]) <= MaxLen
  /\ started \subseteq Seq(Op) /\ \A l \in started : Len(l) <= MaxLen
  /\ pushed \in [Server -> Nat] /\ chosen \in Seq(Op)
  /\ seq \in [Server -> 0 .. Cardinality(Call)]
  /\ call \in [Call -> CallState]
  /\ waitMap \in [Server -> [1 .. MaxLen -> Call \cup {NoCall}]]
  /\ store \in [Server -> [Key -> Text]]
  /\ lastSeq \in [Server -> [Server -> 0 .. Cardinality(Call)]]
  /\ done \in [Server -> Nat]
  /\ \A s \in Server : done[s] <= pushed[s] /\ pushed[s] <= Len(log[s])
  /\ reigns \in 0 .. MaxReigns

-----------------------------------------------------------------------------
\* Where the entry of call c has been chosen: at one index at most.
IndexesOf(c) == {i \in DOMAIN chosen : chosen[i] = call[c].op}

\* The entry at index i of l changes the store: applierLoop has seen no such number.
Effective(l, i) ==
  /\ l[i].kind # "Get"
  /\ \A j \in 1 .. i - 1 :
       l[j].kind # "Get" /\ l[j].client = l[i].client => l[j].seq < l[i].seq

\* A Put or Append that is answered OK has changed the store.
AckedIsApplied ==
  \A c \in Call :
    call[c].stage = "answered" /\ call[c].err = "OK" /\ call[c].op.kind # "Get" =>
      \E i \in IndexesOf(c) : Effective(chosen, i)

\* The store after the first n entries of l, by the effect that each of them has.
StoreAt(l, n) ==
  LET after[i \in 0 .. n] == IF i = 0 THEN [k \in Key |-> Empty]
                             ELSE IF Effective(l, i) THEN Written(after[i - 1], l[i])
                             ELSE after[i - 1]
  IN after[n]
StoreAfter(n) == StoreAt(chosen, n)

\* A Get is answered with the value its own entry found, at its index in the log,
\* whichever node it was sent to and whoever else waited at that index.
ReadsAtItsIndex ==
  \A c \in Call :
    call[c].err \in {"OK", "ErrNoKey"} /\ call[c].op.kind = "Get" =>
      \E i \in IndexesOf(c) : StoreAfter(i - 1)[call[c].op.key] = call[c].value

\* A handler that waits for a pending future has its promise in m_waitMap, at its
\* own index; a promise there belongs to a handler that has not answered yet.
WaitersAreKept ==
  /\ \A c \in Call : call[c].stage = "waiting" /\ call[c].future = "pending" =>
       waitMap[call[c].node][call[c].slot] = c
  /\ \A s \in Server, i \in 1 .. MaxLen : waitMap[s][i] # NoCall =>
       LET r == call[waitMap[s][i]]
       IN r.node = s /\ r.slot = i /\ r.future = "pending" /\ r.stage = "waiting"

-----------------------------------------------------------------------------
\* The linearizable store that the servers amount to.
Content == StoreAfter(Len(chosen))
RequestOf(op) == [kind |-> op.kind, key |-> op.key, value |-> op.value]
AskedFor == [c \in Call |-> IF call[c].op = NoCall THEN NoCall ELSE RequestOf(call[c].op)]
Taken == [c \in Call |-> call[c].op # NoCall /\ IndexesOf(c) # {}]
Saw == [c \in Call |->
          IF call[c].op # NoCall /\ call[c].op.kind = "Get" /\ IndexesOf(c) # {}
          THEN StoreAfter((CHOOSE i \in IndexesOf(c) : TRUE) - 1)[call[c].op.key]
          ELSE Empty]
Answers == [c \in Call |-> [err |-> call[c].err, value |-> call[c].value]]

Linearized == INSTANCE AtomicStore WITH
  NoRequest <- NoCall, content <- Content, asked <- AskedFor, taken <- Taken, saw <- Saw,
  told <- Answers

\* The servers implement one linearizable store: a call takes effect when its entry
\* is first pushed by any node, between its request and its answer.
Linearizable == Linearized!Spec

=============================================================================
