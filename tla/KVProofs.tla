------------------------------ MODULE KVProofs ------------------------------
(***************************************************************************)
(* The facts of KVInductive hold in every reachable state, and with them   *)
(* what KVSafety says of the key-value servers, for any servers, calls and *)
(* requests.                                                               *)
(***************************************************************************)
EXTENDS KVInductive, FiniteSetTheorems, WellFoundedInduction, SequenceTheorems, TLAPS

\* A set of numbers that has 0, and the next of each it has, has them all.
LEMMA AllNumbers ==
  ASSUME NEW S \in SUBSET Nat, 0 \in S, \A n \in S : n + 1 \in S
  PROVE  S = Nat
<1> SUFFICES ASSUME Nat \ S # {} PROVE FALSE
  OBVIOUS
<1> DEFINE T == Nat \ S
           segments == {0..x : x \in T}
<1>1. segments \subseteq FiniteSubsetsOf(Nat) /\ segments # {}
  <2>1. ASSUME NEW x \in T PROVE 0..x \in FiniteSubsetsOf(Nat)
    <3>1. IsFiniteSet(0..x)
      BY FS_Interval
    <3> QED  BY <3>1 DEF FiniteSubsetsOf
  <2> QED  BY <2>1
<1>2. PICK g \in segments : \A h \in segments : <<h, g>> \notin StrictSubsetOrdering(Nat)
  BY <1>1, FS_StrictSubsetOrderingWellFounded, WFMin
<1>3. PICK m \in T : g = 0..m
  OBVIOUS
<1>4. m - 1 \in T /\ m \in Nat
  <2>1. m \in Nat /\ m # 0 /\ m - 1 \in Nat /\ m - 1 + 1 = m
    OBVIOUS
  <2> QED  BY <2>1
<1>5. <<0..m - 1, 0..m>> \in StrictSubsetOrdering(Nat)
  <2>1. 0..m - 1 \in SUBSET Nat /\ 0..m \in SUBSET Nat
    BY <1>4
  <2>2. 0..m - 1 \subseteq 0..m /\ m \in 0..m /\ m \notin 0..m - 1
    BY <1>4
  <2> HIDE DEF segments
  <2> QED  BY <2>1, <2>2 DEF StrictSubsetOrdering
<1> QED  BY <1>2, <1>3, <1>4, <1>5

-----------------------------------------------------------------------------
(* The store that a log makes.                                             *)

\* What StoreAt defines by recursion.
Empties == [k \in Key |-> Empty]
NextStore(l, st, i) == IF Effective(l, i) THEN Written(st, l[i]) ELSE st
Stores(l, n, f) == f = [i \in 0 .. n |-> IF i = 0 THEN Empties ELSE NextStore(l, f[i - 1], i)]

LEMMA StoresExist == \A l : \A n \in Nat : \E f : Stores(l, n, f)
<1> SUFFICES ASSUME NEW l PROVE \A n \in Nat : \E f : Stores(l, n, f)
  OBVIOUS
<1> DEFINE S == {n \in Nat : \E f : Stores(l, n, f)}
<1>1. 0 \in S
  <2> DEFINE f == [i \in 0 .. 0 |-> Empties]
  <2>1. f = [i \in 0 .. 0 |-> IF i = 0 THEN Empties ELSE NextStore(l, f[i - 1], i)]
    OBVIOUS
  <2>2. Stores(l, 0, f)
    BY <2>1 DEF Stores
  <2> QED  BY <2>2
<1>2. ASSUME NEW n \in S PROVE n + 1 \in S
  <2>1. PICK f : Stores(l, n, f)
    OBVIOUS
  <2> DEFINE g == [i \in 0 .. n + 1 |-> IF i <= n THEN f[i] ELSE NextStore(l, f[n], n + 1)]
  <2>2. ASSUME NEW i \in 0 .. n + 1
        PROVE  g[i] = IF i = 0 THEN Empties ELSE NextStore(l, g[i - 1], i)
    <3>1. CASE i <= n
      <4>1. f[i] = IF i = 0 THEN Empties ELSE NextStore(l, f[i - 1], i)
        BY <2>1, <3>1 DEF Stores
      <4>2. i # 0 => g[i - 1] = f[i - 1]
        BY <3>1
      <4> QED  BY <3>1, <4>1, <4>2
    <3>2. CASE ~(i <= n)
      <4>1. i = n + 1 /\ i # 0 /\ i - 1 = n /\ n \in 0 .. n + 1
        BY <3>2
      <4>2. g[n] = f[n]
        BY <4>1
      <4> QED  BY <3>2, <4>1, <4>2
    <3> QED  BY <3>1, <3>2
  <2>3. g = [i \in 0 .. n + 1 |-> g[i]]
    OBVIOUS
  <2> HIDE DEF g
  <2>4. Stores(l, n + 1, g)
    BY <2>2, <2>3 DEF Stores
  <2> QED  BY <2>4
<1> HIDE DEF S
<1>3. S = Nat
  <2>1. S \in SUBSET Nat
    BY DEF S
  <2> QED  BY <1>1, <1>2, <2>1, AllNumbers
<1> QED  BY <1>3 DEF S

LEMMA StoreAtIs ==
  ASSUME NEW l, NEW n \in Nat
  PROVE  \E f : Stores(l, n, f) /\ StoreAt(l, n) = f[n]
<1>1. \E f : Stores(l, n, f)
  BY StoresExist
<1> QED  BY <1>1 DEF StoreAt, Stores, NextStore, Empties

\* Logs that are the same up to i make the same store up to i.
LEMMA EffectiveSame ==
  ASSUME NEW l, NEW k, NEW i \in Nat, i # 0, \A j \in 1 .. i : l[j] = k[j]
  PROVE  Effective(l, i) <=> Effective(k, i)
BY DEF Effective

LEMMA StoresSame ==
  ASSUME NEW l, NEW k, NEW n \in Nat, NEW m \in Nat, NEW f, NEW g,
         Stores(l, n, f), Stores(k, m, g), NEW i \in Nat, i <= n, i <= m,
         \A j \in 1 .. i : l[j] = k[j]
  PROVE  f[i] = g[i]
<1> DEFINE S == {x \in Nat : x <= i => f[x] = g[x]}
<1>1. 0 \in S
  BY DEF Stores
<1>2. ASSUME NEW x \in S PROVE x + 1 \in S
  <2> SUFFICES ASSUME x + 1 <= i PROVE f[x + 1] = g[x + 1]
    OBVIOUS
  <2> DEFINE y == x + 1
  <2>1. /\ y \in Nat /\ y # 0 /\ y - 1 = x /\ y \in 0 .. n /\ y \in 0 .. m /\ y <= i
        /\ x <= i
    OBVIOUS
  <2>2. f[x] = g[x] /\ l[y] = k[y] /\ \A j \in 1 .. y : l[j] = k[j]
    BY <2>1
  <2> HIDE DEF y, S
  <2>3. f[y] = NextStore(l, f[x], y) /\ g[y] = NextStore(k, g[x], y)
    BY <2>1 DEF Stores
  <2>4. Effective(l, y) <=> Effective(k, y)
    BY <2>1, <2>2, EffectiveSame
  <2>5. f[y] = g[y]
    BY <2>2, <2>3, <2>4 DEF NextStore
  <2> QED  BY <2>5 DEF y
<1>3. S \in SUBSET Nat
  OBVIOUS
<1> HIDE DEF S
<1>4. i \in S
  BY <1>1, <1>2, <1>3, AllNumbers
<1> QED  BY <1>4 DEF S

LEMMA StoreAtSame ==
  ASSUME NEW l, NEW k, NEW n \in Nat, \A j \in 1 .. n : l[j] = k[j]
  PROVE  StoreAt(l, n) = StoreAt(k, n)
<1>1. PICK f : Stores(l, n, f) /\ StoreAt(l, n) = f[n]
  BY StoreAtIs
<1>2. PICK g : Stores(k, n, g) /\ StoreAt(k, n) = g[n]
  BY StoreAtIs
<1>3. n <= n
  OBVIOUS
<1> QED  BY <1>1, <1>2, <1>3, StoresSame

LEMMA StoreAtNone == ASSUME NEW l PROVE StoreAt(l, 0) = Empties
<1>1. PICK f : Stores(l, 0, f) /\ StoreAt(l, 0) = f[0]
  BY StoreAtIs
<1> QED  BY <1>1 DEF Stores

\* applierLoop takes the next message.
LEMMA StoreAtNext ==
  ASSUME NEW l, NEW n \in Nat
  PROVE  StoreAt(l, n + 1) = NextStore(l, StoreAt(l, n), n + 1)
<1> DEFINE m == n + 1
<1>1. m \in Nat /\ m # 0 /\ m - 1 = n /\ m \in 0 .. m /\ n <= n /\ n <= m
  OBVIOUS
<1> HIDE DEF m
<1>2. PICK f : Stores(l, n, f) /\ StoreAt(l, n) = f[n]
  BY StoreAtIs
<1>3. PICK g : Stores(l, m, g) /\ StoreAt(l, m) = g[m]
  BY <1>1, StoreAtIs
<1>4. g[m] = NextStore(l, g[n], m)
  BY <1>1, <1>3 DEF Stores
<1>5. f[n] = g[n]
  BY <1>1, <1>2, <1>3, StoresSame
<1> QED  BY <1>2, <1>3, <1>4, <1>5 DEF m

LEMMA WrittenType ==
  ASSUME NEW st \in [Key -> Text], NEW op \in Op
  PROVE  Written(st, op) \in [Key -> Text]
<1>1. op.key \in Key /\ op.value \in Text
  BY RequestAssumption DEF Op, Key
<1>2. st[op.key] \o op.value \in Text
  BY <1>1 DEF Text
<1> QED  BY <1>1, <1>2 DEF Written

LEMMA StoreAtType ==
  ASSUME NEW l \in Seq(Op), NEW n \in Nat, n <= Len(l)
  PROVE  StoreAt(l, n) \in [Key -> Text]
<1> DEFINE S == {x \in Nat : x <= Len(l) => StoreAt(l, x) \in [Key -> Text]}
<1>1. 0 \in S
  <2>1. Empties \in [Key -> Text]
    BY DEF Empties, Empty, Text
  <2> QED  BY <2>1, StoreAtNone
<1>2. ASSUME NEW x \in S PROVE x + 1 \in S
  <2> SUFFICES ASSUME x + 1 <= Len(l) PROVE StoreAt(l, x + 1) \in [Key -> Text]
    OBVIOUS
  <2>1. x \in Nat /\ StoreAt(l, x) \in [Key -> Text] /\ l[x + 1] \in Op
    OBVIOUS
  <2>2. StoreAt(l, x + 1) = NextStore(l, StoreAt(l, x), x + 1)
    BY <2>1, StoreAtNext
  <2> HIDE DEF S
  <2> QED  BY <2>1, <2>2, WrittenType DEF NextStore
<1>3. S \in SUBSET Nat
  OBVIOUS
<1> HIDE DEF S
<1>4. n \in S
  BY <1>1, <1>2, <1>3, AllNumbers
<1> QED  BY <1>4 DEF S

-----------------------------------------------------------------------------
(* What steps do to the calls.                                             *)

\* The records that steps make of a call's record.
LEMMA IdleIs ==
  /\ IdleCall \in CallState
  /\ IdleCall.stage = "idle" /\ IdleCall.node = NoCall /\ IdleCall.op = NoCall
  /\ IdleCall.slot = 0 /\ IdleCall.future = "pending" /\ IdleCall.got = NoCall
  /\ IdleCall.err = "" /\ IdleCall.value = Empty
<1>1. 0 \in 0 .. MaxLen /\ Empty \in Text
  BY LogHasRoom DEF Empty, Text
<1> QED  BY <1>1 DEF IdleCall, CallState

LEMMA ReplyIs ==
  ASSUME NEW r \in CallState, NEW e \in {"OK", "ErrNoKey", "ErrWrongLeader"}, NEW v \in Text
  PROVE  /\ Reply(r, e, v) \in CallState
         /\ Reply(r, e, v).stage = "answered" /\ Reply(r, e, v).node = r.node
         /\ Reply(r, e, v).op = r.op /\ Reply(r, e, v).future = "pending"
         /\ Reply(r, e, v).err = e /\ Reply(r, e, v).value = v
<1>1. r.node \in Server \cup {NoCall} /\ r.op \in Op \cup {NoCall}
  BY DEF CallState
<1>2. Reply(r, e, v) \in CallState
  BY <1>1, IdleIs DEF Reply, CallState
<1> QED  BY <1>2, IdleIs DEF Reply, CallState

LEMMA NumberedIs ==
  ASSUME NEW o \in Op
  PROVE  /\ NumberedCall(o) \in CallState
         /\ NumberedCall(o).stage = "numbered" /\ NumberedCall(o).node = o.client
         /\ NumberedCall(o).op = o /\ NumberedCall(o).slot = 0
         /\ NumberedCall(o).future = "pending" /\ NumberedCall(o).got = NoCall
         /\ NumberedCall(o).err = "" /\ NumberedCall(o).value = Empty
<1>1. o.client \in Server
  BY DEF Op
<1>2. NumberedCall(o) \in CallState
  BY <1>1, IdleIs DEF NumberedCall, CallState
<1> QED  BY <1>2, IdleIs DEF NumberedCall, CallState

LEMMA BrokenIs ==
  ASSUME NEW r \in CallState
  PROVE  /\ Broken(r) \in CallState /\ Broken(r).future = "broken"
         /\ Broken(r).stage = r.stage /\ Broken(r).node = r.node /\ Broken(r).op = r.op
         /\ Broken(r).slot = r.slot /\ Broken(r).err = r.err /\ Broken(r).value = r.value
BY DEF Broken, CallState

LEMMA ToldIs ==
  ASSUME NEW r \in CallState, NEW g
  PROVE  /\ Told(r, g).future = "set" /\ Told(r, g).got = g
         /\ Told(r, g).stage = r.stage /\ Told(r, g).node = r.node /\ Told(r, g).op = r.op
         /\ Told(r, g).slot = r.slot /\ Told(r, g).err = r.err /\ Told(r, g).value = r.value
BY DEF Told, CallState

LEMMA WaitingIs ==
  ASSUME NEW r \in CallState, NEW i \in 1 .. MaxLen
  PROVE  /\ Waiting(r, i) \in CallState /\ Waiting(r, i).stage = "waiting"
         /\ Waiting(r, i).slot = i /\ Waiting(r, i).future = r.future
         /\ Waiting(r, i).node = r.node /\ Waiting(r, i).op = r.op
         /\ Waiting(r, i).err = r.err /\ Waiting(r, i).value = r.value
<1>1. i \in 0 .. MaxLen
  BY LogHasRoom
<1> QED  BY <1>1 DEF Waiting, CallState

\* Breaking the promise that the map holds at an index, if it holds one.
LEMMA BreakDoes ==
  ASSUME TypeOK, WaitersAreKept, NEW s \in Server, NEW i \in 1 .. MaxLen
  PROVE  LET w == waitMap[s][i]
             b == BreakPromise(call, w)
         IN /\ b \in [Call -> CallState]
            /\ \A d \in Call : b[d] = IF d = w THEN Broken(call[d]) ELSE call[d]
            /\ \A d \in Call : d = w => call[d].stage = "waiting" /\ call[d].future = "pending"
<1> DEFINE w == waitMap[s][i]
           b == BreakPromise(call, w)
<1>0. call \in [Call -> CallState] /\ w \in Call \cup {NoCall} /\ NoCall \notin Call
  <2>1. waitMap \in [Server -> [1 .. MaxLen -> Call \cup {NoCall}]]
    BY DEF TypeOK
  <2>2. w \in Call \cup {NoCall}
    BY <2>1
  <2>3. call \in [Call -> CallState]
    BY DEF TypeOK
  <2> QED  BY <2>2, <2>3, CallAssumption
<1>1. w # NoCall => call[w].stage = "waiting" /\ call[w].future = "pending"
  BY DEF WaitersAreKept
<1> HIDE DEF w
<1>2. CASE w = NoCall
  <2>1. b = call
    BY <1>2 DEF BreakPromise
  <2> QED  BY <1>0, <1>2, <2>1 DEF w
<1>3. CASE w # NoCall
  <2>1. b = [call EXCEPT ![w].future = "broken"]
    BY <1>1, <1>3 DEF BreakPromise
  <2>2. b = [call EXCEPT ![w] = Broken(call[w])]
    BY <2>1 DEF Broken
  <2>3. Broken(call[w]) \in CallState
    BY <1>0, <1>3, BrokenIs
  <2> HIDE DEF b
  <2>4. b \in [Call -> CallState] /\ \A d \in Call : b[d] = IF d = w THEN Broken(call[d]) ELSE call[d]
    BY <1>0, <1>3, <2>2, <2>3
  <2> QED  BY <1>1, <1>3, <2>4 DEF w, b
<1> QED  BY <1>2, <1>3

LEMMA ReceiveDoes ==
  ASSUME TypeOK, CallsAreNumbered, NEW c \in Call, NEW s \in Server, NEW q \in Request,
         Receive(c, s, q)
  PROVE  \E o \in Op : /\ Arrives(c, o) /\ o.client = s /\ o.kind = q.kind /\ o.key = q.key
                       /\ o.value = q.value
<1> DEFINE n == seq[s] + 1
           o == [kind |-> q.kind, key |-> q.key, value |-> q.value, client |-> s, seq |-> n]
<1>1. seq \in [Server -> Nat] /\ q.kind \in Kind /\ q.key \in Key
  BY CallAssumption, LogHasRoom, FS_CardinalityType, RequestAssumption DEF TypeOK, Key
<1>2. seq' = [seq EXCEPT ![s] = n] /\ seq'[s] = n /\ n \in Nat
  BY <1>1 DEF Receive
<1> HIDE DEF n
<1>3. o \in Op
  BY <1>1, <1>2 DEF Op, Key
<1>4. call[c] = IdleCall
  BY DEF Receive, CallsAreNumbered, Made
<1>5. call' = [call EXCEPT ![c] = [call[c] EXCEPT !.stage = "numbered", !.node = s, !.op = o]]
  BY <1>2 DEF Receive
<1>7. o.client = s /\ o.seq = n /\ o.kind = q.kind /\ o.key = q.key /\ o.value = q.value
  OBVIOUS
<1> HIDE DEF o
<1>6. [call[c] EXCEPT !.stage = "numbered", !.node = s, !.op = o] = NumberedCall(o)
  BY <1>4, <1>7 DEF NumberedCall
<1>8. Arrives(c, o)
  <2>1. InOrder => \A d \in Call : ~(call[d].stage = "numbered" /\ call[d].node = s)
    BY DEF Receive
  <2>2. RequestOf(o) \in Request
    <3>1. q \in [kind : Kind, key : Key, value : Text]
      BY RequestAssumption
    <3>2. q = [kind |-> q.kind, key |-> q.key, value |-> q.value]
      BY <3>1
    <3> QED  BY <1>7, <3>2 DEF RequestOf
  <2> QED  BY <1>2, <1>3, <1>4, <1>5, <1>6, <1>7, <2>1, <2>2 DEF Arrives, n
<1> QED  BY <1>3, <1>7, <1>8

LEMMA SubmitDoes ==
  ASSUME TypeOK, CallsAreNumbered, WaitersAreKept, NEW c \in Call, call[c].stage = "numbered",
         Submit(c)
  PROVE  LET s == call[c].node
             i == Len(log[s]) + 1
         IN /\ s \in Server /\ i \in 1 .. MaxLen /\ Start(s, call[c].op)
            /\ waitMap' = [waitMap EXCEPT ![s][i] = c]
            /\ call' \in [Call -> CallState] /\ call'[c] = Waiting(call[c], i)
            /\ \A d \in Call \ {c} : call'[d] = IF d = waitMap[s][i] THEN Broken(call[d])
                                                ELSE call[d]
            /\ \A d \in Call : d = waitMap[s][i] => call[d].stage = "waiting" /\ d # c
            /\ UNCHANGED <<seq, store, lastSeq, done, reigns>>
<1> DEFINE s == call[c].node
           i == Len(log[s]) + 1
           b == BreakPromise(call, waitMap[s][i])
<1>1. s \in Server
  BY DEF CallsAreNumbered, Made
<1>2. /\ Start(s, call[c].op) /\ waitMap' = [waitMap EXCEPT ![s][i] = c]
      /\ call' = [b EXCEPT ![c].stage = "waiting", ![c].slot = i]
      /\ UNCHANGED <<seq, store, lastSeq, done, reigns>>
  BY DEF Submit
<1>3. i \in 1 .. MaxLen
  <2>1. log[s] \in Seq(Op) /\ Len(log[s]) < MaxLen /\ MaxLen \in Nat
    BY <1>1, <1>2, LogHasRoom DEF TypeOK, Start
  <2> QED  BY <2>1
<1> HIDE DEF s, i, b
<1>4. /\ b \in [Call -> CallState]
      /\ \A d \in Call : b[d] = IF d = waitMap[s][i] THEN Broken(call[d]) ELSE call[d]
      /\ \A d \in Call : d = waitMap[s][i] => call[d].stage = "waiting"
  BY <1>1, <1>3, BreakDoes DEF b
<1>5. call' = [b EXCEPT ![c] = Waiting(b[c], i)]
  BY <1>2 DEF Waiting
<1>6. b[c] = call[c]
  BY <1>4
<1>7. Waiting(call[c], i) \in CallState
  BY <1>3, <1>4, <1>6, WaitingIs
<1>8. call' \in [Call -> CallState] /\ call'[c] = Waiting(call[c], i)
      /\ \A d \in Call \ {c} : call'[d] = b[d]
  BY <1>4, <1>5, <1>6, <1>7
<1> QED  BY <1>1, <1>2, <1>3, <1>4, <1>8 DEF s, i

LEMMA LeaveDoes ==
  ASSUME TypeOK, CallsAreNumbered, WaitersAreKept, NEW c \in Call, call[c].stage = "waiting",
         NEW r \in CallState, Leave(c, r)
  PROVE  LET s == call[c].node
             i == call[c].slot
         IN /\ s \in Server /\ i \in 1 .. MaxLen
            /\ waitMap' = [waitMap EXCEPT ![s][i] = NoCall]
            /\ call' \in [Call -> CallState] /\ call'[c] = r
            /\ \A d \in Call \ {c} : call'[d] = IF d = waitMap[s][i] THEN Broken(call[d])
                                                ELSE call[d]
            /\ \A d \in Call : d = waitMap[s][i] => call[d].stage = "waiting"
            /\ UNCHANGED <<raftVars, seq, store, lastSeq, done, reigns>>
<1> DEFINE s == call[c].node
           i == call[c].slot
           b == BreakPromise(call, waitMap[s][i])
<1>1. s \in Server /\ i \in 1 .. MaxLen
  <2>1. s \in Server /\ i # 0 /\ i \in 0 .. MaxLen /\ MaxLen \in Nat
    BY LogHasRoom DEF CallsAreNumbered, Made, TypeOK, CallState
  <2> QED  BY <2>1
<1>2. /\ waitMap' = [waitMap EXCEPT ![s][i] = NoCall] /\ call' = [b EXCEPT ![c] = r]
      /\ UNCHANGED <<raftVars, seq, store, lastSeq, done, reigns>>
  BY DEF Leave
<1> HIDE DEF s, i, b
<1>3. /\ b \in [Call -> CallState]
      /\ \A d \in Call : b[d] = IF d = waitMap[s][i] THEN Broken(call[d]) ELSE call[d]
      /\ \A d \in Call : d = waitMap[s][i] => call[d].stage = "waiting"
  BY <1>1, BreakDoes DEF b
<1>4. call' \in [Call -> CallState] /\ call'[c] = r /\ \A d \in Call \ {c} : call'[d] = b[d]
  BY <1>2, <1>3
<1> QED  BY <1>1, <1>2, <1>3, <1>4 DEF s, i

LEMMA ApplyDoes ==
  ASSUME TypeOK, WaitersAreKept, PushedIsChosen, NEW s \in Server, Apply(s)
  PROVE  LET i == done[s] + 1
             op == chosen[i]
             w == waitMap[s][i]
         IN /\ i \in 1 .. MaxLen /\ i <= pushed[s] /\ i <= Len(chosen) /\ op \in Op
            /\ waitMap' = [waitMap EXCEPT ![s][i] = NoCall]
            /\ done' = [done EXCEPT ![s] = i]
            /\ \E g \in AppliedOp :
                 /\ g.client = op.client /\ g.seq = op.seq
                 /\ op.kind = "Get" => g.value = store[s][op.key]
                 /\ call' \in [Call -> CallState]
                 /\ \A d \in Call : call'[d] = IF d = w THEN Told(call[d], g) ELSE call[d]
            /\ \A d \in Call : d = w => /\ call[d].stage = "waiting" /\ call[d].future = "pending"
                                        /\ call[d].node = s /\ call[d].slot = i
            /\ UNCHANGED <<raftVars, seq, reigns>>
<1> DEFINE i == done[s] + 1
           op == chosen[i]
           w == waitMap[s][i]
           g == IF op.kind = "Get" THEN [op EXCEPT !.value = store[s][op.key]] ELSE op
<1>1. i \in 1 .. MaxLen /\ i <= pushed[s] /\ i <= Len(chosen)
  <2>1. /\ done[s] \in Nat /\ pushed[s] \in Nat /\ Len(log[s]) \in Nat /\ Len(chosen) \in Nat
        /\ pushed[s] <= Len(log[s]) /\ Len(log[s]) <= MaxLen /\ MaxLen \in Nat
    BY LogHasRoom DEF TypeOK
  <2>2. i <= pushed[s] /\ pushed[s] <= Len(chosen)
    BY DEF Apply, PushedIsChosen
  <2> QED  BY <2>1, <2>2
<1>2. op \in Op
  <2>1. chosen \in Seq(Op)
    BY DEF TypeOK
  <2> QED  BY <1>1, <2>1
<1>3. /\ waitMap' = [waitMap EXCEPT ![s][i] = NoCall]
      /\ done' = [done EXCEPT ![s] = i]
      /\ call' = IF w = NoCall THEN call
                 ELSE [call EXCEPT ![w].future = "set", ![w].got = g]
      /\ UNCHANGED <<raftVars, seq, reigns>>
  BY DEF Apply
<1>4. call \in [Call -> CallState] /\ w \in Call \cup {NoCall} /\ NoCall \notin Call
  <2>1. waitMap \in [Server -> [1 .. MaxLen -> Call \cup {NoCall}]]
    BY DEF TypeOK
  <2>2. w \in Call \cup {NoCall}
    BY <1>1, <2>1
  <2> QED  BY <2>2, CallAssumption DEF TypeOK
<1>5. w # NoCall => /\ call[w].stage = "waiting" /\ call[w].future = "pending"
                    /\ call[w].node = s /\ call[w].slot = i
  BY <1>1 DEF WaitersAreKept
<1>6. /\ g \in AppliedOp /\ g.client = op.client /\ g.seq = op.seq
      /\ op.kind = "Get" => g.value = store[s][op.key]
  <2>1. /\ op.kind \in Kind /\ op.key \in Key /\ op.value \in Text
        /\ op.client \in Server /\ op.seq \in Nat
    BY <1>2, RequestAssumption DEF Op
  <2>2. store[s][op.key] \in Text
    BY <2>1 DEF TypeOK
  <2> HIDE DEF op
  <2> QED  BY <1>2, <2>1, <2>2 DEF AppliedOp, Op
<1> HIDE DEF i, op, w, g
<1>7. call' \in [Call -> CallState] /\ \A d \in Call : call'[d] = IF d = w THEN Told(call[d], g)
                                                                 ELSE call[d]
  <2>1. CASE w = NoCall
    BY <1>3, <1>4, <2>1
  <2>2. CASE w # NoCall
    <3>1. call' = [call EXCEPT ![w] = Told(call[w], g)]
      BY <1>3, <2>2 DEF Told
    <3>2. Told(call[w], g) \in CallState
      <4>1. call[w] \in CallState
        BY <1>4, <2>2
      <4> QED  BY <1>6, <4>1 DEF Told, CallState
    <3> QED  BY <1>4, <2>2, <3>1, <3>2
  <2> QED  BY <2>1, <2>2
<1>8. \A d \in Call : d = w => /\ call[d].stage = "waiting" /\ call[d].future = "pending"
                               /\ call[d].node = s /\ call[d].slot = i
  BY <1>4, <1>5
<1>9. \E h \in AppliedOp : /\ h.client = op.client /\ h.seq = op.seq
                           /\ op.kind = "Get" => h.value = store[s][op.key]
                           /\ call' \in [Call -> CallState]
                           /\ \A d \in Call : call'[d] = IF d = w THEN Told(call[d], h) ELSE call[d]
  BY <1>6, <1>7
<1> QED  BY <1>1, <1>2, <1>3, <1>8, <1>9 DEF i, op, w

\* The last section refuses, or answers what the future told it.
LEMMA AnswerIs ==
  ASSUME TypeOK, FuturesAreTrue, NEW c \in Call, call[c].future = "set"
  PROVE  \E e \in {"OK", "ErrNoKey", "ErrWrongLeader"}, v \in Text :
           Answer(call[c]) = Reply(call[c], e, v)
<1>1. call[c].got.value \in Text /\ Empty \in Text
  BY DEF FuturesAreTrue, AppliedOp, Empty, Text
<1> QED  BY <1>1 DEF Answer

LEMMA OutcomeIs ==
  ASSUME TypeOK, FuturesAreTrue, NEW c \in Call, call[c].future # "pending"
  PROVE  \/ Outcome(c) = Reply(call[c], "ErrWrongLeader", Empty)
         \/ /\ call[c].future = "set" /\ Own(c, call[c].got)
            /\ Outcome(c) = Answer(call[c])
<1>1. call[c].future \in {"broken", "set"}
  BY DEF TypeOK, CallState
<1>2. CASE call[c].future = "broken" \/ ~Own(c, call[c].got)
  BY <1>2 DEF Outcome
<1>3. CASE ~(call[c].future = "broken" \/ ~Own(c, call[c].got))
  BY <1>1, <1>3 DEF Outcome, Answer
<1> QED  BY <1>2, <1>3

\* The records that CallMoves speaks of are those the steps above leave.
LEMMA CallsStep ==
  ASSUME TypeOK, CallsAreNumbered, PushedIsChosen, FuturesAreTrue, WaitersAreKept,
         StoresAreApplied, [Next]_vars
  PROVE  CallsMove \/ \E c \in Call, o \in Op : Arrives(c, o)
<1>0. call \in [Call -> CallState] /\ Empty \in Text
  BY DEF TypeOK, Empty, Text
<1>1. ASSUME NEW c \in Call, NEW e \in {"OK", "ErrNoKey", "ErrWrongLeader"}, NEW v \in Text,
             UNCHANGED seq, call' = [call EXCEPT ![c] = Reply(call[c], e, v)],
             call'[c] = Reply(call[c], e, v) => CallMoves(c)
      PROVE  CallsMove
  <2>1. Reply(call[c], e, v) \in CallState
    BY <1>0, ReplyIs
  <2>2. call' \in [Call -> CallState] /\ call'[c] = Reply(call[c], e, v)
    BY <1>0, <1>1, <2>1
  <2>3. \A d \in Call \ {c} : call'[d] = call[d]
    BY <1>0, <1>1, <2>1
  <2> QED  BY <1>1, <2>2, <2>3 DEF CallsMove, CallMoves
<1>2. ASSUME NEW c \in Call, NEW e \in {"OK", "ErrNoKey", "ErrWrongLeader"}, NEW v \in Text,
             call[c].stage = "waiting", Leave(c, Reply(call[c], e, v)),
             call'[c] = Reply(call[c], e, v) => CallMoves(c)
      PROVE  CallsMove
  <2>1. Reply(call[c], e, v) \in CallState
    BY <1>0, ReplyIs
  <2>2. /\ call' \in [Call -> CallState] /\ call'[c] = Reply(call[c], e, v) /\ seq' = seq
        /\ \A d \in Call \ {c} : \/ call'[d] = call[d]
                                 \/ call[d].stage = "waiting" /\ call'[d] = Broken(call[d])
    BY <1>2, <2>1, LeaveDoes
  <2> QED  BY <1>2, <2>2 DEF CallsMove, CallMoves
<1>3. ASSUME NEW c \in Call, NEW s \in Server, NEW q \in Request, Receive(c, s, q)
      PROVE  \E o \in Op : Arrives(c, o)
  BY <1>3, ReceiveDoes
<1>4. ASSUME NEW c \in Call, Enter(c) PROVE CallsMove
  <2>1. call[c].stage = "numbered"
    BY <1>4 DEF Enter
  <2>2. CASE Refused(c)
    BY <1>0, <1>1, <2>1, <2>2 DEF Refused, CallMoves
  <2>3. CASE Duplicate(c)
    BY <1>0, <1>1, <2>1, <2>3 DEF Duplicate, CallMoves
  <2>4. CASE Submit(c)
    <3>1. \E i \in 1 .. MaxLen : call'[c] = Waiting(call[c], i)
      BY <2>1, <2>4, SubmitDoes
    <3>2. /\ call' \in [Call -> CallState] /\ seq' = seq
          /\ \A d \in Call \ {c} : \/ call'[d] = call[d]
                                   \/ call[d].stage = "waiting" /\ call'[d] = Broken(call[d])
      BY <2>1, <2>4, SubmitDoes
    <3> QED  BY <2>1, <3>1, <3>2 DEF CallsMove, CallMoves
  <2> QED  BY <1>4, <2>2, <2>3, <2>4 DEF Enter
<1>5. ASSUME NEW c \in Call, Finish(c) PROVE CallsMove
  <2>1. call[c].stage = "waiting" /\ call[c].future # "pending" /\ Leave(c, Outcome(c))
    BY <1>5 DEF Finish
  <2>2. CASE Outcome(c) = Reply(call[c], "ErrWrongLeader", Empty)
    BY <1>0, <1>2, <2>1, <2>2 DEF CallMoves
  <2>3. CASE /\ call[c].future = "set" /\ Own(c, call[c].got)
             /\ Outcome(c) = Answer(call[c])
    <3>1. PICK e \in {"OK", "ErrNoKey", "ErrWrongLeader"}, v \in Text :
            Answer(call[c]) = Reply(call[c], e, v)
      BY <2>3, AnswerIs
    <3>2. call'[c] = Reply(call[c], e, v) => CallMoves(c)
      BY <2>1, <2>3, <3>1 DEF CallMoves
    <3> QED  BY <1>2, <2>1, <2>3, <3>1, <3>2
  <2> QED  BY <2>1, <2>2, <2>3, OutcomeIs
<1>6. ASSUME NEW c \in Call, GiveUp(c) PROVE CallsMove
  BY <1>0, <1>2, <1>6 DEF GiveUp, CallMoves
<1>7. ASSUME NEW s \in Server, Apply(s) PROVE CallsMove
  <2> DEFINE i == done[s] + 1
  <2>1. /\ i \in DOMAIN chosen /\ i - 1 = done[s]
        /\ call' \in [Call -> CallState] /\ seq' = seq
    <3>1. done[s] \in Nat /\ chosen \in Seq(Op)
      BY DEF TypeOK
    <3>2. i <= Len(chosen) /\ call' \in [Call -> CallState] /\ seq' = seq
      BY <1>7, ApplyDoes
    <3> QED  BY <3>1, <3>2
  <2>2. PICK g \in AppliedOp :
          /\ g.client = chosen[i].client /\ g.seq = chosen[i].seq
          /\ chosen[i].kind = "Get" => g.value = store[s][chosen[i].key]
          /\ \A d \in Call : \/ call'[d] = call[d]
                             \/ call[d].stage = "waiting" /\ call'[d] = Told(call[d], g)
    BY <1>7, ApplyDoes
  <2>3. Tells(g, i)
    BY <2>1, <2>2 DEF Tells, StoresAreApplied
  <2> HIDE DEF i
  <2> QED  BY <2>1, <2>2, <2>3 DEF CallsMove, CallMoves
<1>8. ASSUME NEW s \in Server, Raft(s) PROVE CallsMove
  BY <1>0, <1>8 DEF Raft, kvVars, CallsMove, CallMoves
<1>9. CASE UNCHANGED vars
  BY <1>0, <1>9 DEF vars, kvVars, CallsMove, CallMoves
<1> QED  BY <1>3, <1>4, <1>5, <1>6, <1>7, <1>8, <1>9 DEF Next, Handler

\* One step of one call, seen from its record.
LEMMA MovesAre ==
  ASSUME CallsMove, TypeOK, FuturesAreTrue, NEW d \in Call
  PROVE  /\ call[d] \in CallState /\ call'[d] \in CallState
         /\ call'[d].node = call[d].node /\ call'[d].op = call[d].op
         /\ call[d].stage \in {"idle", "answered"} => call'[d] = call[d]
         /\ call[d].stage = "numbered" =>
              \/ call'[d] = call[d]
              \/ call'[d].stage \in {"waiting", "answered"}
         /\ call[d].stage = "waiting" => call'[d].stage \in {"waiting", "answered"}
         /\ call'[d].stage = "numbered" => call'[d] = call[d]
         /\ call'[d].stage = "waiting" /\ call[d].slot # 0 => call'[d].slot # 0
         /\ call'[d].stage = "waiting" /\ call[d].stage = "numbered" => call'[d].slot # 0
         /\ call'[d].stage # "answered" => call'[d].err = call[d].err /\ call'[d].value = call[d].value
         /\ call'[d].stage = "answered" => call'[d] = call[d] \/ call'[d].future = "pending"
<1>0. call[d] \in CallState /\ call'[d] \in CallState /\ CallMoves(d)
  BY DEF TypeOK, CallsMove
<1> DEFINE r == call[d]
           n == call'[d]
<1>1. CASE n = r
  BY <1>0, <1>1 DEF CallState
<1>2. CASE r.stage = "waiting" /\ n = Broken(r)
  BY <1>0, <1>2, BrokenIs
<1>3. CASE r.stage = "waiting" /\ \E g : n = Told(r, g)
  <2>1. PICK g : n = Told(r, g)
    BY <1>3
  <2> QED  BY <1>0, <1>3, <2>1, ToldIs
<1>4. CASE r.stage = "numbered" /\ \E i \in 1 .. MaxLen : n = Waiting(r, i)
  <2>1. PICK i \in 1 .. MaxLen : n = Waiting(r, i)
    BY <1>4
  <2>2. i # 0
    BY LogHasRoom
  <2>3. /\ n.stage = "waiting" /\ n.slot # 0 /\ n.node = r.node /\ n.op = r.op
        /\ n.err = r.err /\ n.value = r.value
    BY <1>0, <2>1, <2>2, WaitingIs
  <2> HIDE DEF n, r
  <2> QED  BY <1>0, <1>4, <2>3 DEF n, r
<1>5. CASE /\ r.stage \in {"numbered", "waiting"}
           /\ \E e \in {"OK", "ErrNoKey", "ErrWrongLeader"}, v \in Text : n = Reply(r, e, v)
  <2>1. PICK e \in {"OK", "ErrNoKey", "ErrWrongLeader"}, v \in Text : n = Reply(r, e, v)
    BY <1>5
  <2>2. PICK b \in CallState : b = r
    BY <1>0
  <2>3. /\ Reply(b, e, v).stage = "answered" /\ Reply(b, e, v).node = b.node
        /\ Reply(b, e, v).op = b.op /\ Reply(b, e, v).future = "pending"
    BY ReplyIs
  <2>4. n.stage = "answered" /\ n.node = r.node /\ n.op = r.op /\ n.future = "pending"
    BY <2>1, <2>2, <2>3
  <2> HIDE DEF n, r
  <2> QED  BY <1>0, <1>5, <2>4 DEF n, r
<1> QED
  <2>1. \/ n = r
        \/ r.stage = "waiting" /\ n = Broken(r)
        \/ r.stage = "waiting" /\ \E g : n = Told(r, g)
        \/ r.stage = "numbered" /\ \E i \in 1 .. MaxLen : n = Waiting(r, i)
        \/ /\ r.stage \in {"numbered", "waiting"}
           /\ \E e \in {"OK", "ErrNoKey", "ErrWrongLeader"}, v \in Text : n = Reply(r, e, v)
    <3>1. Empty \in Text
      BY DEF Empty, Text
    <3> QED  BY <1>0, <3>1, AnswerIs DEF CallMoves
  <2> QED  BY <1>1, <1>2, <1>3, <1>4, <1>5, <2>1

LEMMA NumberType ==
  ASSUME TypeOK
  PROVE  /\ seq \in [Server -> Nat] /\ lastSeq \in [Server -> [Server -> Nat]]
         /\ Cardinality(Call) \in Nat
<1>1. Cardinality(Call) \in Nat
  BY LogHasRoom, FS_CardinalityType
<1> QED  BY <1>1 DEF TypeOK

LEMMA ArrivesDoes ==
  ASSUME TypeOK, NEW c \in Call, NEW o \in Op, Arrives(c, o)
  PROVE  /\ o.client \in Server /\ o.seq \in Nat /\ o.seq # 0
         /\ call[c] = IdleCall /\ call[c].stage = "idle"
         /\ call' \in [Call -> CallState] /\ call'[c] = NumberedCall(o)
         /\ \A d \in Call \ {c} : call'[d] = call[d]
         /\ seq' = [seq EXCEPT ![o.client] = o.seq] /\ o.seq = seq[o.client] + 1
         /\ seq' \in [Server -> Nat] /\ seq'[o.client] = o.seq
         /\ \A s \in Server \ {o.client} : seq'[s] = seq[s]
<1>1. o.client \in Server /\ o.seq \in Nat /\ seq \in [Server -> Nat]
  BY NumberType DEF Op
<1>2. o.seq = seq[o.client] + 1 /\ seq[o.client] \in Nat
  BY <1>1 DEF Arrives
<1>3. NumberedCall(o) \in CallState /\ call \in [Call -> CallState]
  BY NumberedIs DEF TypeOK
<1>4. call[c] = IdleCall /\ call[c].stage = "idle"
  BY IdleIs DEF Arrives
<1>5. /\ call' \in [Call -> CallState] /\ call'[c] = NumberedCall(o)
      /\ \A d \in Call \ {c} : call'[d] = call[d]
  BY <1>3 DEF Arrives
<1>6. /\ seq' = [seq EXCEPT ![o.client] = o.seq]
      /\ seq' \in [Server -> Nat] /\ seq'[o.client] = o.seq
      /\ \A s \in Server \ {o.client} : seq'[s] = seq[s]
  BY <1>1 DEF Arrives
<1>7. o.seq # 0
  BY <1>2
<1> QED  BY <1>1, <1>2, <1>4, <1>5, <1>6, <1>7

\* A call keeps its server and its command, and goes on.
LEMMA CallsKept ==
  ASSUME TypeOK, FuturesAreTrue, NEW d \in Call, Made(d),
         CallsMove \/ \E c \in Call, o \in Op : Arrives(c, o)
  PROVE  /\ Made(d)' /\ call'[d].node = call[d].node /\ call'[d].op = call[d].op
         /\ Entered(d) => Entered(d)'
<1>1. CASE CallsMove
  BY <1>1, MovesAre DEF Made, Entered, CallState
<1>2. ASSUME NEW c \in Call, NEW o \in Op, Arrives(c, o)
      PROVE  /\ Made(d)' /\ call'[d].node = call[d].node /\ call'[d].op = call[d].op
             /\ Entered(d) => Entered(d)'
  <2>1. call'[d] = call[d]
    BY <1>2, ArrivesDoes DEF Made
  <2> QED  BY <2>1 DEF Made, Entered
<1> QED  BY <1>1, <1>2

LEMMA NumberedStep ==
  ASSUME TypeOK, FuturesAreTrue, CallsAreNumbered, CallsMove \/ \E c \in Call, o \in Op : Arrives(c, o)
  PROVE  CallsAreNumbered'
<1>1. CASE CallsMove
  <2>0. seq' = seq
    BY <1>1 DEF CallsMove
  <2>1. ASSUME NEW d \in Call
        PROVE  /\ ~Made(d)' => call'[d] = IdleCall
               /\ Made(d)' => /\ call'[d].node \in Server /\ call'[d].op \in Op
                              /\ call'[d].op.client = call'[d].node
                              /\ call'[d].op.seq \in 1 .. seq'[call'[d].node]
               /\ call'[d].stage = "numbered" => call'[d].future = "pending"
               /\ call'[d].stage = "waiting" => call'[d].slot # 0
               /\ call'[d].stage # "answered" => call'[d].err = "" /\ call'[d].value = Empty
    <3>1. Made(d)' <=> Made(d)
      BY <1>1, MovesAre DEF Made, CallState
    <3>2. ~Made(d) => call'[d] = call[d]
      BY <1>1, MovesAre DEF Made
    <3>3. /\ call'[d].node = call[d].node /\ call'[d].op = call[d].op
          /\ call'[d].stage = "numbered" => call'[d] = call[d]
          /\ call'[d].stage # "answered" =>
               call[d].stage # "answered" /\ call'[d].err = call[d].err /\ call'[d].value = call[d].value
      BY <1>1, MovesAre
    <3>4. call'[d].stage = "waiting" => call'[d].slot # 0
      <4>1. call'[d].stage = "waiting" => call[d].stage \in {"numbered", "waiting"}
        BY <1>1, MovesAre DEF CallState
      <4> QED  BY <1>1, <4>1, MovesAre DEF CallsAreNumbered
    <3> QED  BY <2>0, <3>1, <3>2, <3>3, <3>4 DEF CallsAreNumbered
  <2>2. ASSUME NEW c \in Call, NEW d \in Call, Made(c)', Made(d)', call'[c].node = call'[d].node,
               call'[c].op.seq = call'[d].op.seq
        PROVE  c = d
    <3>1. Made(c) /\ Made(d)
      BY <1>1, <2>2, MovesAre DEF Made, CallState
    <3>2. call[c].node = call[d].node /\ call[c].op.seq = call[d].op.seq
      BY <1>1, <2>2, MovesAre
    <3> QED  BY <3>1, <3>2 DEF CallsAreNumbered
  <2> QED  BY <2>1, <2>2 DEF CallsAreNumbered
<1>2. ASSUME NEW c \in Call, NEW o \in Op, Arrives(c, o) PROVE CallsAreNumbered'
  <2>1. /\ call'[c].stage = "numbered" /\ call'[c].node = o.client /\ call'[c].op = o
        /\ call'[c].future = "pending" /\ call'[c].err = "" /\ call'[c].value = Empty
    <3>1. call'[c] = NumberedCall(o)
      BY <1>2, ArrivesDoes
    <3>2. /\ NumberedCall(o).stage = "numbered" /\ NumberedCall(o).node = o.client
          /\ NumberedCall(o).op = o /\ NumberedCall(o).future = "pending"
          /\ NumberedCall(o).err = "" /\ NumberedCall(o).value = Empty
      BY NumberedIs
    <3> QED  BY <3>1, <3>2
  <2>2. /\ o.client \in Server /\ o.seq \in Nat /\ o.seq # 0 /\ o.seq = seq[o.client] + 1
        /\ seq'[o.client] = o.seq /\ \A s \in Server : s # o.client => seq'[s] = seq[s]
        /\ \A d \in Call : d # c => call'[d] = call[d]
        /\ seq \in [Server -> Nat]
    BY <1>2, ArrivesDoes, NumberType
  <2>3. o.seq \in 1 .. seq'[o.client]
    BY <2>2
  <2>4. ASSUME NEW d \in Call, d # c, Made(d)
        PROVE  /\ call[d].op.seq \in 1 .. seq'[call[d].node]
               /\ call[d].node = o.client => call[d].op.seq # o.seq
    <3>1. call[d].node \in Server /\ call[d].op.seq \in 1 .. seq[call[d].node]
      BY <2>4 DEF CallsAreNumbered
    <3>2. CASE call[d].node = o.client
      BY <2>2, <3>1, <3>2
    <3>3. CASE call[d].node # o.client
      BY <2>2, <3>1, <3>3
    <3> QED  BY <3>2, <3>3
  <2>5. ASSUME NEW d \in Call
        PROVE  /\ ~Made(d)' => call'[d] = IdleCall
               /\ Made(d)' => /\ call'[d].node \in Server /\ call'[d].op \in Op
                              /\ call'[d].op.client = call'[d].node
                              /\ call'[d].op.seq \in 1 .. seq'[call'[d].node]
               /\ call'[d].stage = "numbered" => call'[d].future = "pending"
               /\ call'[d].stage = "waiting" => call'[d].slot # 0
               /\ call'[d].stage # "answered" => call'[d].err = "" /\ call'[d].value = Empty
    <3>1. CASE d = c
      BY <2>1, <2>2, <2>3, <3>1 DEF Made
    <3>2. CASE d # c
      <4>1. call'[d] = call[d] /\ (Made(d)' <=> Made(d))
        BY <2>2, <3>2 DEF Made
      <4>2. Made(d) => call[d].op.seq \in 1 .. seq'[call[d].node]
        BY <2>4, <3>2
      <4> QED  BY <4>1, <4>2 DEF CallsAreNumbered
    <3> QED  BY <3>1, <3>2
  <2>6. ASSUME NEW b \in Call, NEW d \in Call, Made(b)', Made(d)', call'[b].node = call'[d].node,
               call'[b].op.seq = call'[d].op.seq
        PROVE  b = d
    <3>1. CASE b # c /\ d # c
      <4>1. call'[b] = call[b] /\ call'[d] = call[d] /\ Made(b) /\ Made(d)
        BY <2>2, <2>6, <3>1 DEF Made
      <4> QED  BY <2>6, <4>1 DEF CallsAreNumbered
    <3>2. CASE b = c /\ d # c
      BY <2>1, <2>2, <2>4, <2>6, <3>2 DEF Made
    <3>3. CASE b # c /\ d = c
      BY <2>1, <2>2, <2>4, <2>6, <3>3 DEF Made
    <3> QED  BY <3>1, <3>2, <3>3
  <2> QED  BY <2>5, <2>6 DEF CallsAreNumbered
<1> QED  BY <1>1, <1>2

LEMMA CountedStep ==
  ASSUME TypeOK, FuturesAreTrue, NumbersAreCounted, CallsMove \/ \E c \in Call, o \in Op : Arrives(c, o)
  PROVE  NumbersAreCounted'
<1>1. CASE CallsMove
  <2>1. seq' = seq
    BY <1>1 DEF CallsMove
  <2>2. ASSUME NEW s \in Server
        PROVE  {d \in Call : Made(d) /\ call[d].node = s}
                 = {d \in Call : Made(d)' /\ call'[d].node = s}
    <3>1. \A d \in Call : (Made(d)' <=> Made(d)) /\ call'[d].node = call[d].node
      BY <1>1, MovesAre DEF Made, CallState
    <3> QED  BY <3>1
  <2> QED  BY <2>1, <2>2 DEF NumbersAreCounted
<1>2. ASSUME NEW c \in Call, NEW o \in Op, Arrives(c, o) PROVE NumbersAreCounted'
  <2>1. call'[c].stage = "numbered" /\ call'[c].node = o.client /\ call[c].stage = "idle"
    <3>1. call'[c] = NumberedCall(o) /\ call[c].stage = "idle"
      BY <1>2, ArrivesDoes
    <3> QED  BY <3>1, NumberedIs
  <2>2. /\ o.client \in Server /\ o.seq = seq[o.client] + 1
        /\ seq'[o.client] = o.seq /\ \A s \in Server : s # o.client => seq'[s] = seq[s]
        /\ \A d \in Call : d # c => call'[d] = call[d]
    BY <1>2, ArrivesDoes
  <2>3. ASSUME NEW s \in Server
        PROVE  seq'[s] = Cardinality({d \in Call : Made(d)' /\ call'[d].node = s})
    <3> DEFINE old == {d \in Call : Made(d) /\ call[d].node = s}
               new == {d \in Call : Made(d)' /\ call'[d].node = s}
    <3>1. IsFiniteSet(old) /\ c \notin old
      <4>1. old \in SUBSET Call
        OBVIOUS
      <4>2. IsFiniteSet(old)
        BY <4>1, LogHasRoom, FS_Subset
      <4> QED  BY <2>1, <4>2 DEF Made
    <3>2. seq[s] = Cardinality(old)
      BY DEF NumbersAreCounted
    <3>3. CASE s = o.client
      <4>1. new = old \cup {c}
        BY <2>1, <2>2, <3>3 DEF Made
      <4>2. Cardinality(old \cup {c}) = Cardinality(old) + 1
        BY <3>1, FS_AddElement
      <4> QED  BY <2>2, <3>2, <3>3, <4>1, <4>2
    <3>4. CASE s # o.client
      <4>1. new = old
        BY <2>1, <2>2, <3>4 DEF Made
      <4> QED  BY <2>2, <3>2, <3>4, <4>1
    <3> QED  BY <3>3, <3>4
  <2> QED  BY <2>3 DEF NumbersAreCounted
<1> QED  BY <1>1, <1>2

LEMMA LastStep ==
  ASSUME TypeOK, FuturesAreTrue, CallsAreNumbered, NumberedIsLast, CallsMove \/ \E c \in Call, o \in Op : Arrives(c, o)
  PROVE  NumberedIsLast'
<1> SUFFICES ASSUME InOrder, NEW d \in Call, call'[d].stage = "numbered"
             PROVE  call'[d].op.seq = seq'[call'[d].node]
  BY DEF NumberedIsLast
<1>1. CASE CallsMove
  <2>1. call'[d] = call[d]
    BY <1>1, MovesAre
  <2> QED  BY <1>1, <2>1 DEF CallsMove, NumberedIsLast
<1>2. ASSUME NEW c \in Call, NEW o \in Op, Arrives(c, o)
      PROVE  call'[d].op.seq = seq'[call'[d].node]
  <2>1. call'[c].node = o.client /\ call'[c].op = o /\ seq'[o.client] = o.seq
    <3>1. call'[c] = NumberedCall(o) /\ seq'[o.client] = o.seq
      BY <1>2, ArrivesDoes
    <3> QED  BY <3>1, NumberedIs
  <2>2. CASE d # c
    <3>1. call'[d] = call[d] /\ call[d].node # o.client
      BY <1>2, <2>2, ArrivesDoes DEF Arrives
    <3>2. call[d].node \in Server
      BY <1>2, <2>2, <3>1 DEF CallsAreNumbered, Made
    <3>3. seq' = [seq EXCEPT ![o.client] = o.seq]
      BY <1>2, ArrivesDoes
    <3>4. seq'[call[d].node] = seq[call[d].node]
      BY <3>1, <3>2, <3>3, NumberType
    <3> QED  BY <3>1, <3>4 DEF NumberedIsLast
  <2> QED  BY <2>1, <2>2
<1> QED  BY <1>1, <1>2

-----------------------------------------------------------------------------
(* What steps do to the logs.                                              *)

LEMMA BeginningIs ==
  ASSUME NEW S, NEW m \in Seq(S), NEW n \in Nat, n <= Len(m)
  PROVE  /\ SubSeq(m, 1, n) \in Seq(S) /\ Len(SubSeq(m, 1, n)) = n
         /\ \A i \in 1 .. n : SubSeq(m, 1, n)[i] = m[i]
<1>1. \A i \in 1 .. n : m[i] \in S
  OBVIOUS
<1>2. SubSeq(m, 1, n) = [i \in 1 .. n |-> m[i]]
  OBVIOUS
<1> QED  BY <1>1, <1>2

LEMMA AdoptDoes ==
  ASSUME TypeOK, NEW s \in Server, Adopt(s)
  PROVE  /\ UNCHANGED <<leads, started, pushed, chosen>>
         /\ \E m \in started, k \in Nat :
              /\ m \in Seq(Op) /\ k <= Len(m) /\ pushed[s] <= k
              /\ log' = [log EXCEPT ![s] = SubSeq(m, 1, k)]
              /\ \A i \in 1 .. pushed[s] : m[i] = log[s][i]
<1> DEFINE n == pushed[s]
           mine == SubSeq(log[s], 1, n)
<1>1. log[s] \in Seq(Op) /\ n \in Nat /\ n <= Len(log[s]) /\ started \subseteq Seq(Op)
  BY DEF TypeOK
<1>2. PICK l \in Beginnings(mine, n) : log' = [log EXCEPT ![s] = l]
  BY DEF Adopt
<1>3. PICK m \in started : IsPrefix(mine, m) /\ l \in {SubSeq(m, 1, k) : k \in n .. Len(m)}
  BY <1>2 DEF Beginnings
<1>4. PICK k \in n .. Len(m) : l = SubSeq(m, 1, k)
  BY <1>3
<1>5. m \in Seq(Op) /\ k \in Nat /\ k <= Len(m) /\ n <= k
  BY <1>1, <1>4
<1>6. ASSUME NEW i \in 1 .. n PROVE m[i] = log[s][i]
  <2>1. Len(mine) = n /\ mine[i] = log[s][i]
    BY <1>1, BeginningIs
  <2>2. mine = SubSeq(m, 1, n)
    <3> HIDE DEF mine
    <3>1. SubSeq(mine, 1, n) = SubSeq(m, 1, n)
      BY <1>3, <2>1 DEF IsPrefix
    <3>2. SubSeq(mine, 1, n) = mine
      <4>1. mine \in Seq(Op)
        BY <1>1, BeginningIs DEF mine
      <4> QED  BY <2>1, <4>1
    <3> QED  BY <3>1, <3>2
  <2>3. SubSeq(m, 1, n)[i] = m[i]
    <3>1. n <= Len(m)
      BY <1>1, <1>5
    <3> QED  BY <1>1, <1>5, <3>1, BeginningIs
  <2> QED  BY <2>1, <2>2, <2>3
<1> QED  BY <1>2, <1>4, <1>5, <1>6 DEF Adopt

LEMMA StartDoes ==
  ASSUME TypeOK, NEW s \in Server, NEW e \in Op, Start(s, e)
  PROVE  /\ UNCHANGED <<leads, pushed, chosen>>
         /\ log[s] \in Seq(Op) /\ Append(log[s], e) \in Seq(Op)
         /\ Len(Append(log[s], e)) = Len(log[s]) + 1 /\ Len(log[s]) < MaxLen
         /\ Append(log[s], e)[Len(log[s]) + 1] = e
         /\ \A i \in 1 .. Len(log[s]) : Append(log[s], e)[i] = log[s][i]
         /\ log' = [log EXCEPT ![s] = Append(log[s], e)]
         /\ started' = started \cup {Append(log[s], e)}
<1>1. log \in [Server -> Seq(Op)] /\ log[s] \in Seq(Op)
  BY DEF TypeOK
<1>2. log' = [log EXCEPT ![s] = Append(log[s], e)] /\ started' = started \cup {log'[s]}
  BY DEF Start
<1>3. log'[s] = Append(log[s], e)
  BY <1>1, <1>2
<1>4. UNCHANGED <<leads, pushed, chosen>> /\ Len(log[s]) < MaxLen
  BY DEF Start
<1>5. /\ Append(log[s], e) \in Seq(Op) /\ Len(Append(log[s], e)) = Len(log[s]) + 1
      /\ Append(log[s], e)[Len(log[s]) + 1] = e
      /\ \A i \in 1 .. Len(log[s]) : Append(log[s], e)[i] = log[s][i]
  <2> DEFINE l == log[s]
  <2>1. l \in Seq(Op)
    BY <1>1
  <2> HIDE DEF l
  <2>2. /\ Append(l, e) \in Seq(Op) /\ Len(Append(l, e)) = Len(l) + 1
        /\ Append(l, e)[Len(l) + 1] = e
        /\ \A i \in 1 .. Len(l) : Append(l, e)[i] = l[i]
    BY <2>1
  <2> QED  BY <2>2 DEF l
<1> QED  BY <1>1, <1>2, <1>3, <1>4, <1>5

\* Logs change when a follower adopts one, and when a call enters.
LEMMA LogsStep ==
  ASSUME TypeOK, CallsAreNumbered, WaitersAreKept, [Next]_vars
  PROVE  \/ UNCHANGED <<log, started>>
         \/ \E s \in Server : Adopt(s)
         \/ \E c \in Call : /\ call[c].stage = "numbered" /\ Start(call[c].node, call[c].op)
                            /\ Entered(c)' /\ call[c].node \in Server /\ call[c].op \in Op
                            /\ UNCHANGED <<store, lastSeq, done>>
<1>0. call \in [Call -> CallState] /\ Empty \in Text
  BY DEF TypeOK, Empty, Text
<1>1. ASSUME NEW c \in Call, NEW s \in Server, NEW q \in Request, Receive(c, s, q)
      PROVE  UNCHANGED <<log, started>>
  BY <1>1 DEF Receive, raftVars
<1>2. ASSUME NEW c \in Call, Enter(c)
      PROVE  \/ UNCHANGED <<log, started>>
             \/ /\ call[c].stage = "numbered" /\ Start(call[c].node, call[c].op)
                /\ Entered(c)' /\ call[c].node \in Server /\ call[c].op \in Op
                /\ UNCHANGED <<store, lastSeq, done>>
  <2>1. call[c].stage = "numbered" /\ call[c].node \in Server /\ call[c].op \in Op
    BY <1>2 DEF Enter, CallsAreNumbered, Made
  <2>2. CASE Refused(c)
    BY <2>2 DEF Refused, raftVars
  <2>3. CASE Duplicate(c)
    <3>1. call'[c] = Reply(call[c], "OK", Empty)
      <4>1. call' = [call EXCEPT ![c] = Reply(call[c], "OK", Empty)]
        BY <2>3 DEF Duplicate
      <4> QED  BY <1>0, <4>1
    <3>2. Entered(c)'
      BY <1>0, <3>1, ReplyIs DEF Entered
    <3> QED  BY <2>1, <2>3, <3>2 DEF Duplicate
  <2>4. CASE Submit(c)
    <3>1. PICK i \in 1 .. MaxLen : call'[c] = Waiting(call[c], i)
      BY <2>1, <2>4, SubmitDoes
    <3>2. Entered(c)'
      BY <1>0, <3>1, WaitingIs DEF Entered
    <3> QED  BY <2>1, <2>4, <3>2 DEF Submit
  <2> QED  BY <1>2, <2>2, <2>3, <2>4 DEF Enter
<1>3. ASSUME NEW c \in Call, Finish(c) \/ GiveUp(c) PROVE UNCHANGED <<log, started>>
  BY <1>3 DEF Finish, GiveUp, Leave, raftVars
<1>4. ASSUME NEW s \in Server, Apply(s) PROVE UNCHANGED <<log, started>>
  BY <1>4 DEF Apply, raftVars
<1>5. ASSUME NEW s \in Server, Raft(s) PROVE UNCHANGED <<log, started>> \/ Adopt(s)
  BY <1>5 DEF Raft, Elected, Deposed, Deliver
<1>6. CASE UNCHANGED vars
  BY <1>6 DEF vars, raftVars
<1> QED  BY <1>1, <1>2, <1>3, <1>4, <1>5, <1>6 DEF Next, Handler

\* A node pushes the next entry of what has been chosen, or chooses one.
LEMMA DeliverDoes ==
  ASSUME TypeOK, PushedIsChosen, NEW s \in Server, pushed[s] < Len(log[s]),
         Deliver(s, pushed[s] + 1)
  PROVE  LET n == pushed[s] + 1
         IN /\ n \in 1 .. Len(log[s]) /\ log[s] \in Seq(Op) /\ chosen' \in Seq(Op)
            /\ pushed' = [pushed EXCEPT ![s] = n] /\ UNCHANGED <<leads, log, started>>
            /\ n <= Len(chosen') /\ \A i \in 1 .. n : log[s][i] = chosen'[i]
            /\ \/ chosen' = chosen
               \/ n = Len(chosen) + 1 /\ chosen' = Append(chosen, log[s][n])
<1> DEFINE n == pushed[s] + 1
           l == log[s]
           mine == SubSeq(l, 1, n)
<1>1. l \in Seq(Op) /\ chosen \in Seq(Op) /\ n \in 1 .. Len(l) /\ n \in Nat /\ n - 1 <= Len(chosen)
  <2>1. log[s] \in Seq(Op) /\ chosen \in Seq(Op) /\ pushed[s] \in Nat /\ pushed[s] <= Len(chosen)
    BY DEF TypeOK, PushedIsChosen
  <2> QED  BY <2>1
<1>2. /\ pushed' = [pushed EXCEPT ![s] = n] /\ UNCHANGED <<leads, log, started>>
      /\ \/ IsPrefix(mine, chosen) /\ UNCHANGED chosen
         \/ IsPrefix(chosen, mine) /\ chosen' = mine
  BY DEF Deliver
<1>3. \A i \in 1 .. n - 1 : l[i] = chosen[i]
  BY DEF PushedIsChosen, TypeOK
<1> HIDE DEF n, l
<1>4. mine \in Seq(Op) /\ Len(mine) = n /\ \A i \in 1 .. n : mine[i] = l[i]
  <2>1. n <= Len(l)
    BY <1>1
  <2> QED  BY <1>1, <2>1, BeginningIs
<1>5. CASE IsPrefix(mine, chosen) /\ chosen' = chosen
  <2>1. n <= Len(chosen) /\ SubSeq(mine, 1, n) = SubSeq(chosen, 1, n)
    <3> HIDE DEF mine
    <3> QED  BY <1>4, <1>5 DEF IsPrefix
  <2>2. ASSUME NEW i \in 1 .. n PROVE l[i] = chosen[i]
    <3> HIDE DEF mine
    <3>1. n <= Len(mine)
      BY <1>1, <1>4
    <3>2. SubSeq(mine, 1, n)[i] = mine[i] /\ SubSeq(chosen, 1, n)[i] = chosen[i]
      BY <1>1, <1>4, <2>1, <3>1, BeginningIs
    <3> QED  BY <1>4, <2>1, <3>2
  <2> QED  BY <1>1, <1>2, <1>5, <2>1, <2>2 DEF n, l
<1>6. CASE IsPrefix(chosen, mine) /\ chosen' = mine
  <2>1. Len(chosen) <= n
    BY <1>4, <1>6 DEF IsPrefix
  <2>2. ASSUME Len(chosen) = n - 1 PROVE mine = Append(chosen, l[n])
    <3> DEFINE a == Append(chosen, l[n])
    <3>1. l[n] \in Op
      BY <1>1
    <3>2. /\ a \in Seq(Op) /\ Len(a) = n /\ a[n] = l[n]
          /\ \A i \in 1 .. n - 1 : a[i] = chosen[i]
      BY <1>1, <2>2, <3>1
    <3> HIDE DEF a, mine
    <3>3. \A i \in 1 .. n : mine[i] = a[i]
      <4>1. \A i \in 1 .. n : i \in 1 .. n - 1 \/ i = n
        BY <1>1
      <4> QED  BY <1>3, <1>4, <3>2, <4>1
    <3>4. mine = a
      BY <1>4, <3>2, <3>3
    <3> QED  BY <3>4 DEF a
  <2>3. ASSUME Len(chosen) = n PROVE mine = chosen
    <3> HIDE DEF mine
    <3>1. SubSeq(chosen, 1, n) = SubSeq(mine, 1, n)
      BY <1>6, <2>3 DEF IsPrefix
    <3>2. SubSeq(chosen, 1, n) = chosen /\ SubSeq(mine, 1, n) = mine
      BY <1>1, <1>4, <2>3
    <3> QED  BY <3>1, <3>2
  <2>4. Len(chosen) = n - 1 \/ Len(chosen) = n
    <3>1. Len(chosen) \in Nat
      BY <1>1
    <3> QED  BY <1>1, <2>1, <3>1
  <2>5. \/ chosen' = chosen
        \/ n = Len(chosen) + 1 /\ chosen' = Append(chosen, l[n])
    BY <1>1, <1>6, <2>2, <2>3, <2>4
  <2>6. chosen' \in Seq(Op) /\ n <= Len(chosen') /\ \A i \in 1 .. n : l[i] = chosen'[i]
    BY <1>1, <1>4, <1>6
  <2> QED  BY <1>1, <1>2, <2>5, <2>6 DEF n, l
<1> QED  BY <1>2, <1>5, <1>6

\* What has been chosen, and how much of it is pushed, changes when a node pushes.
LEMMA ChosenStep ==
  ASSUME [Next]_vars
  PROVE  \/ UNCHANGED <<pushed, chosen>>
         \/ \E s \in Server : /\ pushed[s] < Len(log[s]) /\ Deliver(s, pushed[s] + 1)
                              /\ UNCHANGED kvVars
<1>1. ASSUME NEW c \in Call, NEW s \in Server, NEW q \in Request, Receive(c, s, q)
      PROVE  UNCHANGED <<pushed, chosen>>
  BY <1>1 DEF Receive, raftVars
<1>2. ASSUME NEW c \in Call, Enter(c) PROVE UNCHANGED <<pushed, chosen>>
  BY <1>2 DEF Enter, Refused, Duplicate, Submit, Start, raftVars
<1>3. ASSUME NEW c \in Call, Finish(c) \/ GiveUp(c) PROVE UNCHANGED <<pushed, chosen>>
  BY <1>3 DEF Finish, GiveUp, Leave, raftVars
<1>4. ASSUME NEW s \in Server, Apply(s) PROVE UNCHANGED <<pushed, chosen>>
  BY <1>4 DEF Apply, raftVars
<1>5. ASSUME NEW s \in Server, Raft(s)
      PROVE  \/ UNCHANGED <<pushed, chosen>>
             \/ /\ pushed[s] < Len(log[s]) /\ Deliver(s, pushed[s] + 1)
                /\ UNCHANGED kvVars
  BY <1>5 DEF Raft, Elected, Deposed, Adopt
<1>6. CASE UNCHANGED vars
  BY <1>6 DEF vars, raftVars
<1> QED  BY <1>1, <1>2, <1>3, <1>4, <1>5, <1>6 DEF Next, Handler

\* The stores change when a message is applied.
LEMMA StoresStep ==
  ASSUME [Next]_vars
  PROVE  UNCHANGED <<store, lastSeq, done>> \/ \E s \in Server : Apply(s)
<1>1. ASSUME NEW c \in Call, NEW s \in Server, NEW q \in Request, Receive(c, s, q)
      PROVE  UNCHANGED <<store, lastSeq, done>>
  BY <1>1 DEF Receive
<1>2. ASSUME NEW c \in Call, Enter(c) PROVE UNCHANGED <<store, lastSeq, done>>
  BY <1>2 DEF Enter, Refused, Duplicate, Submit
<1>3. ASSUME NEW c \in Call, Finish(c) \/ GiveUp(c) PROVE UNCHANGED <<store, lastSeq, done>>
  BY <1>3 DEF Finish, GiveUp, Leave
<1>4. ASSUME NEW s \in Server, Raft(s) PROVE UNCHANGED <<store, lastSeq, done>>
  BY <1>4 DEF Raft, kvVars
<1>5. CASE UNCHANGED vars
  BY <1>5 DEF vars, kvVars
<1> QED  BY <1>1, <1>2, <1>3, <1>4, <1>5 DEF Next, Handler

-----------------------------------------------------------------------------
(* The logs stay in order.                                                 *)

LEMMA OrderlyKept ==
  ASSUME TypeOK, FuturesAreTrue, NEW l, Orderly(l), CallsMove \/ \E c \in Call, o \in Op : Arrives(c, o)
  PROVE  Orderly(l)'
<1>1. ASSUME NEW i \in DOMAIN l PROVE \E d \in Call : Entered(d)' /\ call'[d].op = l[i]
  <2>1. PICK d \in Call : Entered(d) /\ call[d].op = l[i]
    BY DEF Orderly
  <2>2. Made(d)
    BY <2>1 DEF Entered, Made
  <2> QED  BY <2>1, <2>2, CallsKept
<1> QED  BY <1>1 DEF Orderly

LEMMA BeginningOrderly ==
  ASSUME NEW m \in Seq(Op), NEW n \in Nat, n <= Len(m), Orderly(m)
  PROVE  Orderly(SubSeq(m, 1, n))
<1> DEFINE l == SubSeq(m, 1, n)
<1>1. l \in Seq(Op) /\ Len(l) = n /\ \A i \in 1 .. n : l[i] = m[i]
  BY BeginningIs
<1> HIDE DEF l
<1>2. DOMAIN l = 1 .. n /\ DOMAIN l \subseteq DOMAIN m
  BY <1>1
<1>3. ASSUME NEW i \in DOMAIN l PROVE i \in DOMAIN m /\ l[i] = m[i]
  BY <1>1, <1>2
<1> HIDE DEF Orderly
<1>4. Orderly(l)
  BY <1>3 DEF Orderly
<1> QED  BY <1>4 DEF l

\* The command of a call that enters comes after those of its server.
LEMMA AppendOrderly ==
  ASSUME CallsAreNumbered, NumberedIsLast, NEW l \in Seq(Op), Orderly(l),
         NEW c \in Call, call[c].stage = "numbered", NEW f \in Op, f = call[c].op,
         TypeOK, FuturesAreTrue, CallsMove \/ \E d \in Call, o \in Op : Arrives(d, o), Entered(c)'
  PROVE  Orderly(Append(l, f))'
<1>1. Made(c) /\ f.client = call[c].node /\ call'[c].op = f
  BY CallsKept DEF CallsAreNumbered, Made
<1>2. Append(l, f) \in Seq(Op)
  OBVIOUS
<1>3. PICK b \in Seq(Op) : b = Append(l, f)
  BY <1>2
<1>4. DOMAIN b = 1 .. Len(l) + 1 /\ b[Len(l) + 1] = f /\ \A i \in 1 .. Len(l) : b[i] = l[i]
  BY <1>3
<1>5. DOMAIN l = 1 .. Len(l) /\ Len(l) \in Nat
  OBVIOUS
<1>6. ASSUME NEW i \in DOMAIN l, l[i].client = f.client
      PROVE  l[i].seq # f.seq /\ (InOrder => l[i].seq < f.seq)
  <2>1. PICK d \in Call : Entered(d) /\ call[d].op = l[i]
    BY DEF Orderly
  <2>2. Made(d) /\ d # c
    BY <2>1 DEF Entered, Made
  <2>3. call[d].node = call[c].node /\ call[d].op.seq \in 1 .. seq[call[c].node]
    <3>1. call[d].op.client = call[d].node /\ call[d].op.seq \in 1 .. seq[call[d].node]
      BY <2>2 DEF CallsAreNumbered
    <3> QED  BY <1>1, <1>6, <2>1, <3>1
  <2>4. call[d].op.seq # call[c].op.seq
    BY <1>1, <2>2, <2>3 DEF CallsAreNumbered
  <2>5. InOrder => call[d].op.seq < call[c].op.seq
    <3>1. InOrder => call[c].op.seq = seq[call[c].node]
      BY DEF NumberedIsLast
    <3>2. seq[call[c].node] \in Nat
      BY NumberType DEF CallsAreNumbered, Made
    <3> QED  BY <2>3, <2>4, <3>1, <3>2
  <2> QED  BY <2>1, <2>4, <2>5
<1>7. Orderly(l)'
  BY OrderlyKept
<1>8. Orderly(b)'
  <2>1. ASSUME NEW i \in DOMAIN b PROVE \E d \in Call : Entered(d)' /\ call'[d].op = b[i]
    <3>1. CASE i \in DOMAIN l
      BY <1>4, <1>5, <1>7, <3>1 DEF Orderly
    <3>2. CASE i = Len(l) + 1
      BY <1>1, <1>4, <3>2
    <3> QED  BY <1>4, <1>5, <3>1, <3>2
  <2>2. ASSUME NEW i \in DOMAIN b, NEW j \in DOMAIN b, i < j, b[i].client = b[j].client
        PROVE  b[i].seq # b[j].seq /\ (InOrder => b[i].seq < b[j].seq)
    <3>1. CASE j \in DOMAIN l
      <4>1. i \in DOMAIN l /\ b[i] = l[i] /\ b[j] = l[j]
        BY <1>4, <1>5, <2>2, <3>1
      <4> QED  BY <2>2, <3>1, <4>1 DEF Orderly
    <3>2. CASE j = Len(l) + 1
      <4>1. i \in DOMAIN l /\ b[i] = l[i] /\ b[j] = f
        BY <1>4, <1>5, <2>2, <3>2
      <4> QED  BY <1>6, <2>2, <4>1
    <3> QED  BY <1>4, <1>5, <3>1, <3>2
  <2> QED  BY <2>1, <2>2 DEF Orderly
<1> QED  BY <1>3, <1>8

LEMMA LogsOrderlyStep ==
  ASSUME TypeOK, CallsAreNumbered, PushedIsChosen, FuturesAreTrue, WaitersAreKept, NumberedIsLast,
         StoresAreApplied, LogsAreOrderly, [Next]_vars
  PROVE  LogsAreOrderly'
<1>0. CallsMove \/ \E c \in Call, o \in Op : Arrives(c, o)
  BY CallsStep
<1>1. \A l : Orderly(l) => Orderly(l)'
  BY <1>0, OrderlyKept
<1>2. \A s \in Server : log[s] \in Seq(Op) /\ Orderly(log[s])
  BY DEF TypeOK, LogsAreOrderly
<1>3. ASSUME NEW s \in Server PROVE Orderly(log[s])'
  <2>1. PICK k : k = log[s]
    OBVIOUS
  <2>2. PICK n : n = log'[s]
    OBVIOUS
  <2>3. Orderly(k) /\ Orderly(k)'
    BY <1>1, <1>2, <2>1
  <2>4. Orderly(n)'
    <3>1. CASE n = k
      BY <2>3, <3>1
    <3>2. ASSUME NEW p \in Server, Adopt(p) PROVE Orderly(n)'
      <4>1. PICK m \in started, j \in Nat :
              m \in Seq(Op) /\ j <= Len(m) /\ log' = [log EXCEPT ![p] = SubSeq(m, 1, j)]
        BY <3>2, AdoptDoes
      <4>2. CASE p = s
        <5>1. n = SubSeq(m, 1, j)
          BY <2>2, <4>1, <4>2 DEF TypeOK
        <5>2. Orderly(m)
          BY DEF LogsAreOrderly
        <5>3. Orderly(n)
          BY <4>1, <5>1, <5>2, BeginningOrderly
        <5> QED  BY <1>1, <5>3
      <4>3. CASE p # s
        <5>1. n = k
          BY <2>1, <2>2, <4>1, <4>3 DEF TypeOK
        <5> QED  BY <2>3, <5>1
      <4> QED  BY <4>2, <4>3
    <3>3. ASSUME NEW c \in Call, call[c].stage = "numbered", Start(call[c].node, call[c].op),
                 Entered(c)', call[c].node \in Server, call[c].op \in Op
          PROVE  Orderly(n)'
      <4>1. PICK f \in Op : f = call[c].op
        BY <3>3
      <4>2. PICK p \in Server : p = call[c].node
        BY <3>3
      <4>3. log' = [log EXCEPT ![p] = Append(log[p], f)]
        BY <3>3, <4>1, <4>2, StartDoes
      <4>4. CASE p = s
        <5>1. n = Append(k, f) /\ k \in Seq(Op)
          BY <1>2, <2>1, <2>2, <4>3, <4>4 DEF TypeOK
        <5>2. Orderly(Append(k, f))'
          BY <1>0, <2>3, <3>3, <4>1, <5>1, AppendOrderly
        <5> QED  BY <5>1, <5>2
      <4>5. CASE p # s
        <5>1. n = k
          BY <2>1, <2>2, <4>3, <4>5 DEF TypeOK
        <5> QED  BY <2>3, <5>1
      <4> QED  BY <4>4, <4>5
    <3>4. CASE UNCHANGED <<log, started>>
      BY <2>1, <2>2, <3>1, <3>4
    <3> QED  BY <3>2, <3>3, <3>4, LogsStep
  <2> QED  BY <2>2, <2>4 DEF Orderly
<1>4. ASSUME NEW n \in started' PROVE Orderly(n)'
  <2>1. PICK m : m = n
    OBVIOUS
  <2>2. m \in started => Orderly(m)'
    BY <1>1 DEF LogsAreOrderly
  <2>3. Orderly(m)'
    <3>1. ASSUME NEW p \in Server, Adopt(p) PROVE m \in started
      BY <2>1, <3>1, AdoptDoes
    <3>2. ASSUME NEW c \in Call, call[c].stage = "numbered", Start(call[c].node, call[c].op),
                 Entered(c)', call[c].node \in Server, call[c].op \in Op, m \notin started
          PROVE  Orderly(m)'
      <4>1. PICK f \in Op : f = call[c].op
        BY <3>2
      <4>2. PICK k : k = log[call[c].node]
        OBVIOUS
      <4>3. m = Append(k, f) /\ k \in Seq(Op) /\ Orderly(k)
        BY <1>2, <2>1, <3>2, <4>1, <4>2, StartDoes
      <4>4. Orderly(Append(k, f))'
        BY <1>0, <3>2, <4>1, <4>3, AppendOrderly
      <4> QED  BY <4>3, <4>4
    <3> QED  BY <2>1, <2>2, <3>1, <3>2, LogsStep
  <2> QED  BY <2>1, <2>3 DEF Orderly
<1>5. Orderly(chosen)'
  <2>1. PICK m : m = chosen'
    OBVIOUS
  <2>2. Orderly(m)'
    <3>1. CASE chosen' = chosen
      BY <1>1, <2>1, <3>1 DEF LogsAreOrderly
    <3>2. ASSUME NEW s \in Server, pushed[s] < Len(log[s]), Deliver(s, pushed[s] + 1),
                 chosen' # chosen
          PROVE  Orderly(m)'
      <4> DEFINE k == pushed[s] + 1
      <4>1. /\ k \in Nat /\ k <= Len(log[s])
            /\ chosen' = SubSeq(log[s], 1, k)
        BY <3>2 DEF Deliver, TypeOK
      <4>2. Orderly(SubSeq(log[s], 1, k))
        <5> HIDE DEF k
        <5> QED  BY <1>2, <4>1, BeginningOrderly
      <4>3. Orderly(m)
        <5> HIDE DEF k
        <5> QED  BY <2>1, <4>1, <4>2
      <4> QED  BY <1>1, <4>3
    <3> QED  BY <3>1, <3>2, ChosenStep
  <2> QED  BY <2>1, <2>2 DEF Orderly
<1> QED  BY <1>3, <1>4, <1>5 DEF LogsAreOrderly

\* Nodes push what has been chosen.
LEMMA PushedStep ==
  ASSUME TypeOK, CallsAreNumbered, WaitersAreKept, PushedIsChosen, [Next]_vars
  PROVE  PushedIsChosen'
<1>0. ASSUME NEW s \in Server
      PROVE  /\ pushed[s] \in Nat /\ pushed[s] <= Len(log[s]) /\ pushed[s] <= Len(chosen)
             /\ log[s] \in Seq(Op) /\ chosen \in Seq(Op)
             /\ \A i \in 1 .. pushed[s] : log[s][i] = chosen[i]
  BY DEF TypeOK, PushedIsChosen
<1>1. CASE UNCHANGED <<pushed, chosen>>
  <2>1. ASSUME NEW s \in Server, NEW i \in 1 .. pushed[s] PROVE log'[s][i] = log[s][i]
    <3>1. ASSUME NEW p \in Server, Adopt(p) PROVE log'[s][i] = log[s][i]
      <4>1. PICK m \in started, j \in Nat :
              /\ m \in Seq(Op) /\ j <= Len(m) /\ pushed[p] <= j
              /\ log' = [log EXCEPT ![p] = SubSeq(m, 1, j)]
              /\ \A h \in 1 .. pushed[p] : m[h] = log[p][h]
        BY <3>1, AdoptDoes
      <4>2. CASE p = s
        <5>1. log'[s] = SubSeq(m, 1, j)
          BY <4>1, <4>2 DEF TypeOK
        <5>2. i \in 1 .. j
          BY <1>0, <4>1, <4>2
        <5>3. SubSeq(m, 1, j)[i] = m[i]
          BY <4>1, <5>2, BeginningIs
        <5> QED  BY <4>1, <4>2, <5>1, <5>3
      <4>3. CASE p # s
        BY <4>1, <4>3 DEF TypeOK
      <4> QED  BY <4>2, <4>3
    <3>2. ASSUME NEW p \in Server, NEW e \in Op, Start(p, e) PROVE log'[s][i] = log[s][i]
      <4>1. /\ log' = [log EXCEPT ![p] = Append(log[p], e)]
            /\ \A h \in 1 .. Len(log[p]) : Append(log[p], e)[h] = log[p][h]
        BY <3>2, StartDoes
      <4>2. CASE p = s
        <5>1. log'[s] = Append(log[s], e) /\ i \in 1 .. Len(log[s])
          BY <1>0, <4>1, <4>2 DEF TypeOK
        <5> QED  BY <4>1, <4>2, <5>1
      <4>3. CASE p # s
        BY <4>1, <4>3 DEF TypeOK
      <4> QED  BY <4>2, <4>3
    <3> QED  BY <3>1, <3>2, LogsStep
  <2> QED  BY <1>0, <1>1, <2>1 DEF PushedIsChosen
<1>2. ASSUME NEW s \in Server, pushed[s] < Len(log[s]), Deliver(s, pushed[s] + 1)
      PROVE  PushedIsChosen'
  <2> DEFINE n == pushed[s] + 1
  <2>1. /\ pushed' = [pushed EXCEPT ![s] = n] /\ log' = log /\ chosen' \in Seq(Op)
        /\ n <= Len(chosen') /\ \A i \in 1 .. n : log[s][i] = chosen'[i]
        /\ \/ chosen' = chosen
           \/ n = Len(chosen) + 1 /\ chosen' = Append(chosen, log[s][n])
    BY <1>2, DeliverDoes
  <2>2. pushed'[s] = n /\ \A p \in Server \ {s} : pushed'[p] = pushed[p]
    BY <2>1 DEF TypeOK
  <2>3. Len(chosen) <= Len(chosen') /\ \A i \in 1 .. Len(chosen) : chosen'[i] = chosen[i]
    <3>1. chosen \in Seq(Op)
      BY DEF TypeOK
    <3> HIDE DEF n
    <3> QED  BY <2>1, <3>1
  <2> HIDE DEF n
  <2>4. ASSUME NEW p \in Server
        PROVE  pushed'[p] <= Len(chosen') /\ \A i \in 1 .. pushed'[p] : log'[p][i] = chosen'[i]
    <3>1. CASE p = s
      BY <2>1, <2>2, <3>1
    <3>2. CASE p # s
      <4>1. Len(chosen) \in Nat /\ Len(chosen') \in Nat
        BY <2>1 DEF TypeOK
      <4> QED  BY <1>0, <2>1, <2>2, <2>3, <3>2, <4>1
    <3> QED  BY <3>1, <3>2
  <2> QED  BY <2>4 DEF PushedIsChosen
<1> QED  BY <1>1, <1>2, ChosenStep

-----------------------------------------------------------------------------
(* The stores.                                                             *)

\* What has been chosen stays, and so do the stores it makes.
LEMMA ChosenGrows ==
  ASSUME TypeOK, PushedIsChosen, [Next]_vars
  PROVE  /\ chosen \in Seq(Op) /\ chosen' \in Seq(Op) /\ Len(chosen) <= Len(chosen')
         /\ \A i \in 1 .. Len(chosen) : chosen'[i] = chosen[i]
         /\ \A n \in Nat : n <= Len(chosen) => StoreAt(chosen', n) = StoreAt(chosen, n)
<1>1. chosen \in Seq(Op) /\ Len(chosen) \in Nat
  BY DEF TypeOK
<1>2. /\ chosen' \in Seq(Op) /\ Len(chosen) <= Len(chosen')
      /\ \A i \in 1 .. Len(chosen) : chosen'[i] = chosen[i]
  <2>1. CASE chosen' = chosen
    BY <1>1, <2>1
  <2>2. ASSUME NEW e \in Op, chosen' = Append(chosen, e)
        PROVE  /\ chosen' \in Seq(Op) /\ Len(chosen) <= Len(chosen')
               /\ \A i \in 1 .. Len(chosen) : chosen'[i] = chosen[i]
    BY <1>1, <2>2
  <2>3. ASSUME NEW s \in Server, pushed[s] < Len(log[s]), Deliver(s, pushed[s] + 1)
        PROVE  chosen' = chosen \/ \E e \in Op : chosen' = Append(chosen, e)
    <3> DEFINE n == pushed[s] + 1
    <3>1. /\ n \in 1 .. Len(log[s]) /\ log[s] \in Seq(Op)
          /\ \/ chosen' = chosen
             \/ chosen' = Append(chosen, log[s][n])
      BY <2>3, DeliverDoes
    <3>2. log[s][n] \in Op
      <4> HIDE DEF n
      <4> QED  BY <3>1
    <3> QED  BY <3>1, <3>2
  <2> QED  BY <2>1, <2>2, <2>3, ChosenStep
<1>3. ASSUME NEW n \in Nat, n <= Len(chosen) PROVE StoreAt(chosen', n) = StoreAt(chosen, n)
  <2>1. \A j \in 1 .. n : chosen'[j] = chosen[j]
    BY <1>1, <1>2, <1>3
  <2> QED  BY <2>1, StoreAtSame
<1> QED  BY <1>1, <1>2, <1>3

LEMMA ChosenNumber ==
  ASSUME TypeOK, CallsAreNumbered, LogsAreOrderly, NEW i \in DOMAIN chosen
  PROVE  /\ chosen[i] \in Op /\ chosen[i].client \in Server /\ chosen[i].seq # 0
         /\ chosen[i].seq \in 0 .. Cardinality(Call)
<1>1. PICK c \in Call : Entered(c) /\ call[c].op = chosen[i]
  BY DEF LogsAreOrderly, Orderly
<1>2. /\ call[c].node \in Server /\ call[c].op \in Op /\ call[c].op.client = call[c].node
      /\ call[c].op.seq \in 1 .. seq[call[c].node]
  BY <1>1 DEF CallsAreNumbered, Made, Entered
<1>3. seq[call[c].node] \in 0 .. Cardinality(Call) /\ Cardinality(Call) \in Nat
  BY <1>2, NumberType DEF TypeOK
<1> QED  BY <1>1, <1>2, <1>3

\* The check of m_clientSeqMap tells what has an effect.
LEMMA FreshIsEffective ==
  ASSUME TypeOK, CallsAreNumbered, LogsAreOrderly, StoresAreApplied, NEW s \in Server,
         NEW i \in Nat, i = done[s] + 1, i <= Len(chosen)
  PROVE  chosen[i].kind # "Get" /\ ~Seen(s, chosen[i]) <=> Effective(chosen, i)
<1> DEFINE t == chosen[i].client
           k == lastSeq[s][t]
           q == chosen[i].seq
<1>1. done[s] \in Nat /\ i - 1 = done[s] /\ i \in DOMAIN chosen
  <2>1. done[s] \in Nat /\ chosen \in Seq(Op)
    BY DEF TypeOK
  <2> QED  BY <2>1
<1>2. t \in Server /\ q \in Nat /\ q # 0 /\ k \in Nat
  BY <1>1, ChosenNumber, NumberType
<1>3. Highest(i - 1, t, k)
  BY <1>1, <1>2 DEF StoresAreApplied
<1>4. \A j \in 1 .. i - 1 : chosen[j].seq \in Nat
  <2>1. \A j \in 1 .. i - 1 : j \in DOMAIN chosen
    BY <1>1 DEF TypeOK
  <2> QED  BY <2>1, ChosenNumber
<1>5. Seen(s, chosen[i]) <=> k >= q
  BY DEF Seen
<1> HIDE DEF k, q, t
<1>6. k < q <=> \A j \in 1 .. i - 1 : chosen[j].kind # "Get" /\ chosen[j].client = t => chosen[j].seq < q
  <2>1. ASSUME k < q, NEW j \in 1 .. i - 1, chosen[j].kind # "Get", chosen[j].client = t
        PROVE  chosen[j].seq < q
    <3>1. chosen[j].seq <= k /\ chosen[j].seq \in Nat
      BY <1>3, <1>4, <2>1 DEF Highest
    <3> QED  BY <1>2, <2>1, <3>1
  <2>2. ASSUME \A j \in 1 .. i - 1 :
                 chosen[j].kind # "Get" /\ chosen[j].client = t => chosen[j].seq < q
        PROVE  k < q
    BY <1>2, <1>3, <2>2 DEF Highest
  <2> QED  BY <2>1, <2>2
<1> QED  BY <1>2, <1>5, <1>6 DEF Effective, t, q

LEMMA HighestNext ==
  ASSUME TypeOK, CallsAreNumbered, LogsAreOrderly, NEW n \in Nat, n + 1 <= Len(chosen),
         NEW t, NEW k \in Nat, Highest(n, t, k)
  PROVE  LET op == chosen[n + 1]
         IN Highest(n + 1, t, IF op.kind # "Get" /\ op.client = t /\ ~(k >= op.seq)
                              THEN op.seq ELSE k)
<1> DEFINE m == n + 1
           op == chosen[m]
           h == IF op.kind # "Get" /\ op.client = t /\ ~(k >= op.seq) THEN op.seq ELSE k
<1>1. chosen \in Seq(Op) /\ m \in 1 .. m /\ m \in DOMAIN chosen /\ m \in Nat /\ 1 .. n \subseteq 1 .. m
  <2>1. chosen \in Seq(Op)
    BY DEF TypeOK
  <2> QED  BY <2>1
<1>2. op.seq \in Nat
  BY <1>1, ChosenNumber
<1>3. \A j \in 1 .. n : chosen[j].seq \in Nat
  <2>1. \A j \in 1 .. n : j \in DOMAIN chosen
    BY <1>1
  <2> QED  BY <2>1, ChosenNumber
<1>4. \A j \in 1 .. m : j \in 1 .. n \/ j = m
  OBVIOUS
<1>5. k <= h /\ h \in Nat
  BY <1>2
<1> HIDE DEF m
<1>6. ASSUME NEW j \in 1 .. m, chosen[j].kind # "Get", chosen[j].client = t
      PROVE  chosen[j].seq <= h
  <2>1. CASE j \in 1 .. n
    <3>1. chosen[j].seq <= k /\ chosen[j].seq \in Nat
      BY <1>3, <1>6, <2>1 DEF Highest
    <3> HIDE DEF h
    <3> QED  BY <1>5, <3>1
  <2>2. CASE j = m
    BY <1>2, <1>6, <2>2
  <2> QED  BY <1>4, <2>1, <2>2
<1>7. h = 0 \/ \E j \in 1 .. m :
                 chosen[j].kind # "Get" /\ chosen[j].client = t /\ chosen[j].seq = h
  <2>1. CASE h = k
    BY <1>1, <2>1 DEF Highest
  <2>2. CASE h # k
    BY <1>1, <2>2
  <2> QED  BY <2>1, <2>2
<1>8. Highest(m, t, h)
  <2> HIDE DEF h
  <2> QED  BY <1>6, <1>7 DEF Highest
<1> QED  BY <1>8 DEF m

LEMMA HighestKept ==
  ASSUME TypeOK, PushedIsChosen, [Next]_vars, NEW n \in Nat, n <= Len(chosen), NEW t, NEW k
  PROVE  Highest(n, t, k)' <=> Highest(n, t, k)
<1>1. \A j \in 1 .. n : chosen'[j] = chosen[j]
  <2>1. Len(chosen) \in Nat /\ \A j \in 1 .. Len(chosen) : chosen'[j] = chosen[j]
    BY ChosenGrows
  <2> QED  BY <2>1
<1> QED  BY <1>1 DEF Highest

LEMMA StoresAppliedStep ==
  ASSUME TypeOK, CallsAreNumbered, LogsAreOrderly, PushedIsChosen, WaitersAreKept,
         StoresAreApplied, [Next]_vars
  PROVE  StoresAreApplied'
<1>0. /\ store \in [Server -> [Key -> Text]] /\ lastSeq \in [Server -> [Server -> Nat]]
      /\ done \in [Server -> Nat] /\ Len(chosen) \in Nat
      /\ \A s \in Server : done[s] <= Len(chosen)
  <2>1. Len(chosen) \in Nat /\ \A s \in Server : done[s] <= pushed[s] /\ pushed[s] <= Len(chosen)
    BY DEF TypeOK, PushedIsChosen
  <2>2. done \in [Server -> Nat] /\ pushed \in [Server -> Nat]
    BY DEF TypeOK
  <2>3. \A s \in Server : done[s] <= Len(chosen)
    BY <2>1, <2>2
  <2> QED  BY <2>1, <2>2, <2>3, NumberType DEF TypeOK
<1>1. ASSUME NEW s \in Server
      PROVE  /\ store[s] = StoreAt(chosen', done[s])
             /\ \A t \in Server : \E n, k : n = done[s] /\ k = lastSeq[s][t] /\ Highest(n, t, k)'
  <2>1. store[s] = StoreAt(chosen', done[s])
    BY <1>0, ChosenGrows DEF StoresAreApplied, StoreAfter
  <2>2. PICK n \in Nat : n = done[s]
    BY <1>0
  <2>3. ASSUME NEW t \in Server PROVE \E m, k : m = done[s] /\ k = lastSeq[s][t] /\ Highest(m, t, k)'
    <3>1. PICK k : k = lastSeq[s][t]
      OBVIOUS
    <3>2. Highest(n, t, k)
      BY <2>2, <3>1 DEF StoresAreApplied
    <3>3. Highest(n, t, k)'
      BY <1>0, <2>2, <3>2, HighestKept
    <3> QED  BY <2>2, <3>1, <3>3
  <2> QED  BY <2>1, <2>3
<1>2. ASSUME NEW s \in Server, store'[s] = store[s], lastSeq'[s] = lastSeq[s], done'[s] = done[s]
      PROVE  store'[s] = StoreAfter(done[s])' /\ \A t \in Server : Highest(done[s], t, lastSeq[s][t])'
  <2>1. store'[s] = StoreAfter(done[s])'
    BY <1>1, <1>2 DEF StoreAfter
  <2>2. ASSUME NEW t \in Server PROVE Highest(done[s], t, lastSeq[s][t])'
    <3>1. PICK n, k : n = done[s] /\ k = lastSeq[s][t] /\ Highest(n, t, k)'
      BY <1>1
    <3> QED  BY <1>2, <3>1 DEF Highest
  <2> QED  BY <2>1, <2>2
<1>3. CASE UNCHANGED <<store, lastSeq, done>>
  BY <1>2, <1>3 DEF StoresAreApplied
<1>4. ASSUME NEW s \in Server, Apply(s) PROVE StoresAreApplied'
  <2> DEFINE i == done[s] + 1
             op == chosen[i]
             fresh == op.kind # "Get" /\ ~Seen(s, op)
  <2>1. i <= Len(chosen) /\ done' = [done EXCEPT ![s] = i] /\ chosen' = chosen /\ op \in Op
    BY <1>4, ApplyDoes DEF raftVars
  <2>2. /\ store' = IF fresh THEN [store EXCEPT ![s] = Written(store[s], op)] ELSE store
        /\ lastSeq' = IF fresh THEN [lastSeq EXCEPT ![s][op.client] = op.seq] ELSE lastSeq
    BY <1>4 DEF Apply
  <2>3. ASSUME NEW p \in Server, p # s
        PROVE  store'[p] = store[p] /\ lastSeq'[p] = lastSeq[p] /\ done'[p] = done[p]
    BY <1>0, <2>1, <2>2, <2>3
  <2>4. i \in Nat /\ done'[s] = i /\ done[s] \in Nat
    BY <1>0, <2>1
  <2>5. fresh <=> Effective(chosen, i)
    BY <2>1, <2>4, FreshIsEffective
  <2>6. store'[s] = StoreAt(chosen, i)
    <3>1. StoreAt(chosen, i) = NextStore(chosen, StoreAt(chosen, done[s]), i)
      BY <2>4, StoreAtNext
    <3>2. store[s] = StoreAt(chosen, done[s])
      BY DEF StoresAreApplied, StoreAfter
    <3>3. store'[s] = IF fresh THEN Written(store[s], op) ELSE store[s]
      <4> HIDE DEF fresh, op
      <4> QED  BY <1>0, <2>2
    <3> HIDE DEF fresh, i
    <3> QED  BY <2>5, <3>1, <3>2, <3>3 DEF NextStore
  <2>7. ASSUME NEW t \in Server PROVE Highest(done[s], t, lastSeq[s][t])'
    <3> DEFINE k == lastSeq[s][t]
               h == IF op.kind # "Get" /\ op.client = t /\ ~(k >= op.seq) THEN op.seq ELSE k
    <3>1. Highest(done[s], t, k) /\ k \in Nat
      BY <1>0 DEF StoresAreApplied
    <3>2. Highest(i, t, h)
      BY <2>1, <2>4, <3>1, HighestNext
    <3>3. lastSeq'[s][t] = h
      <4>1. op.client \in Server
        BY <2>1 DEF Op
      <4>2. CASE fresh
        <5>1. lastSeq' = [lastSeq EXCEPT ![s][op.client] = op.seq]
          BY <2>2, <4>2
        <5>2. CASE op.client = t
          <6>1. lastSeq'[s][t] = op.seq
            <7> HIDE DEF op
            <7> QED  BY <1>0, <5>1, <5>2
          <6> QED  BY <4>2, <5>2, <6>1 DEF Seen
        <5>3. CASE op.client # t
          <6>1. lastSeq'[s][t] = lastSeq[s][t]
            <7> HIDE DEF op
            <7> QED  BY <1>0, <5>1, <5>3
          <6> QED  BY <5>3, <6>1
        <5> QED  BY <5>2, <5>3
      <4>3. CASE ~fresh
        BY <2>2, <4>3 DEF Seen
      <4> QED  BY <4>2, <4>3
    <3> HIDE DEF i, h
    <3> QED  BY <2>1, <2>4, <3>2, <3>3 DEF Highest
  <2>8. store'[s] = StoreAfter(done[s])'
    <3> HIDE DEF i
    <3> QED  BY <2>1, <2>4, <2>6 DEF StoreAfter
  <2> HIDE DEF i, op, fresh
  <2>9. ASSUME NEW p \in Server
        PROVE  store'[p] = StoreAfter(done[p])' /\ \A t \in Server : Highest(done[p], t, lastSeq[p][t])'
    <3>1. CASE p = s
      BY <2>7, <2>8, <3>1
    <3>2. CASE p # s
      BY <1>2, <2>3, <3>2
    <3> QED  BY <3>1, <3>2
  <2> QED  BY <2>9 DEF StoresAreApplied
<1> QED  BY <1>3, <1>4, StoresStep

-----------------------------------------------------------------------------
(* What futures tell, and what calls answer.                               *)

LEMMA TellsKept ==
  ASSUME TypeOK, PushedIsChosen, [Next]_vars, NEW g, NEW i \in DOMAIN chosen, Tells(g, i)
  PROVE  i \in DOMAIN chosen' /\ Tells(g, i)'
<1>1. /\ i \in 1 .. Len(chosen) /\ i - 1 \in Nat /\ i - 1 <= Len(chosen)
      /\ Len(chosen) \in Nat /\ Len(chosen') \in Nat
  BY ChosenGrows
<1>2. /\ i \in DOMAIN chosen' /\ chosen'[i] = chosen[i]
      /\ StoreAt(chosen', i - 1) = StoreAt(chosen, i - 1)
  BY <1>1, ChosenGrows
<1> QED  BY <1>2 DEF Tells, StoreAfter

LEMMA FuturesStep ==
  ASSUME TypeOK, CallsAreNumbered, PushedIsChosen, FuturesAreTrue, WaitersAreKept,
         StoresAreApplied, [Next]_vars
  PROVE  FuturesAreTrue'
<1> SUFFICES ASSUME NEW d \in Call, call'[d].future = "set"
             PROVE  /\ call'[d].stage = "waiting" /\ call'[d].got \in AppliedOp
                    /\ \E i \in DOMAIN chosen' : Tells(call[d].got, i)'
  BY DEF FuturesAreTrue
<1>1. ASSUME call'[d] = call[d]
      PROVE  /\ call'[d].stage = "waiting" /\ call'[d].got \in AppliedOp
             /\ \E i \in DOMAIN chosen' : Tells(call[d].got, i)'
  <2>1. PICK g : g = call[d].got
    OBVIOUS
  <2>2. PICK i \in DOMAIN chosen : Tells(g, i)
    BY <1>1, <2>1 DEF FuturesAreTrue
  <2>3. i \in DOMAIN chosen' /\ Tells(g, i)'
    BY <2>2, TellsKept
  <2> QED  BY <1>1, <2>1, <2>3 DEF FuturesAreTrue, Tells
<1>2. CASE CallsMove
  <2>0. call[d] \in CallState /\ call'[d] \in CallState /\ CallMoves(d)
    BY <1>2 DEF TypeOK, CallsMove
  <2>1. CASE call'[d] = call[d]
    BY <1>1, <2>1
  <2>2. CASE call'[d] = Broken(call[d])
    BY <2>0, <2>2, BrokenIs
  <2>3. CASE call[d].stage = "waiting" /\ \E g \in AppliedOp, i \in DOMAIN chosen :
               Tells(g, i) /\ call'[d] = Told(call[d], g)
    <3>1. PICK g \in AppliedOp, i \in DOMAIN chosen : Tells(g, i) /\ call'[d] = Told(call[d], g)
      BY <2>3
    <3>2. call'[d].got = g /\ call'[d].stage = "waiting"
      BY <2>0, <2>3, <3>1, ToldIs
    <3>3. i \in DOMAIN chosen' /\ Tells(g, i)'
      BY <3>1, TellsKept
    <3> QED  BY <3>1, <3>2, <3>3 DEF Tells
  <2>4. CASE call[d].stage = "numbered" /\ \E i \in 1 .. MaxLen : call'[d] = Waiting(call[d], i)
    <3>1. PICK i \in 1 .. MaxLen : call'[d] = Waiting(call[d], i)
      BY <2>4
    <3>2. call'[d].future = call[d].future
      BY <2>0, <3>1, WaitingIs
    <3>3. call[d].future = "pending"
      BY <2>4 DEF CallsAreNumbered
    <3> QED  BY <3>2, <3>3
  <2>5. CASE \E e \in {"OK", "ErrNoKey", "ErrWrongLeader"}, v \in Text : call'[d] = Reply(call[d], e, v)
    BY <2>0, <2>5, ReplyIs
  <2>6. Empty \in Text
    BY DEF Empty, Text
  <2> QED  BY <2>0, <2>1, <2>2, <2>3, <2>4, <2>5, <2>6, AnswerIs DEF CallMoves
<1>3. ASSUME NEW c \in Call, NEW o \in Op, Arrives(c, o)
      PROVE  /\ call'[d].stage = "waiting" /\ call'[d].got \in AppliedOp
             /\ \E i \in DOMAIN chosen' : Tells(call[d].got, i)'
  <2>1. call'[c] = NumberedCall(o) /\ \A b \in Call \ {c} : call'[b] = call[b]
    BY <1>3, ArrivesDoes
  <2>2. NumberedCall(o).future = "pending"
    BY NumberedIs
  <2>3. d # c
    BY <2>1, <2>2
  <2> QED  BY <1>1, <2>1, <2>3
<1> QED  BY <1>2, <1>3, CallsStep

\* Where a future's number and server are a call's own, so is the entry.
LEMMA OwnEntry ==
  ASSUME TypeOK, CallsAreNumbered, LogsAreOrderly, NEW c \in Call, Made(c),
         NEW i \in DOMAIN chosen, chosen[i].client = call[c].op.client,
         chosen[i].seq = call[c].op.seq
  PROVE  chosen[i] = call[c].op
<1>1. PICK d \in Call : Entered(d) /\ call[d].op = chosen[i]
  BY DEF LogsAreOrderly, Orderly
<1>2. Made(d)
  BY <1>1 DEF Entered, Made
<1>3. call[d].node = call[c].node /\ call[d].op.seq = call[c].op.seq
  BY <1>1, <1>2 DEF CallsAreNumbered
<1>4. d = c
  BY <1>2, <1>3 DEF CallsAreNumbered
<1> QED  BY <1>1, <1>4

\* A Get that answers has seen the store at its own entry.
LEMMA AnsweredFrom ==
  ASSUME TypeOK, CallsAreNumbered, LogsAreOrderly, FuturesAreTrue, NEW c \in Call,
         call[c].future = "set", Own(c, call[c].got)
  PROVE  \E i \in DOMAIN chosen : /\ i \in IndexesOf(c) /\ chosen[i] = call[c].op
                                  /\ Tells(call[c].got, i)
<1>1. PICK i \in DOMAIN chosen : Tells(call[c].got, i)
  BY DEF FuturesAreTrue
<1>2. Made(c)
  BY DEF FuturesAreTrue, Made
<1>3. chosen[i] = call[c].op
  BY <1>1, <1>2, OwnEntry DEF Tells, Own
<1> QED  BY <1>1, <1>3 DEF IndexesOf

LEMMA ReadsStep ==
  ASSUME TypeOK, CallsAreNumbered, PushedIsChosen, FuturesAreTrue, WaitersAreKept,
         StoresAreApplied, LogsAreOrderly, ReadsAtItsIndex, [Next]_vars
  PROVE  ReadsAtItsIndex'
<1> SUFFICES ASSUME NEW d \in Call, call'[d].err \in {"OK", "ErrNoKey"}, call'[d].op.kind = "Get"
             PROVE  \E i \in IndexesOf(d)' : StoreAfter(i - 1)'[call'[d].op.key] = call'[d].value
  BY DEF ReadsAtItsIndex
<1>1. ASSUME call'[d].op = call[d].op, NEW i \in IndexesOf(d),
             StoreAfter(i - 1)[call[d].op.key] = call'[d].value
      PROVE  \E j \in IndexesOf(d)' : StoreAfter(j - 1)'[call'[d].op.key] = call'[d].value
  <2>1. i \in DOMAIN chosen /\ chosen[i] = call[d].op
    BY DEF IndexesOf
  <2>2. /\ i \in 1 .. Len(chosen) /\ i - 1 \in Nat /\ i - 1 <= Len(chosen)
        /\ Len(chosen) \in Nat /\ Len(chosen') \in Nat
    BY <2>1, ChosenGrows
  <2>3. /\ i \in DOMAIN chosen' /\ chosen'[i] = chosen[i]
        /\ StoreAt(chosen', i - 1) = StoreAt(chosen, i - 1)
    BY <2>2, ChosenGrows
  <2>4. i \in IndexesOf(d)'
    BY <1>1, <2>1, <2>3 DEF IndexesOf
  <2> QED  BY <1>1, <2>3, <2>4 DEF StoreAfter
<1>2. CASE call'[d] = call[d]
  BY <1>1, <1>2 DEF ReadsAtItsIndex
<1>3. CASE CallsMove
  <2>0. call[d] \in CallState /\ CallMoves(d) /\ Empty \in Text
    BY <1>3 DEF TypeOK, CallsMove, Empty, Text
  <2>1. call'[d].op = call[d].op
    BY <1>3, MovesAre
  <2>2. ASSUME call[d].stage \in {"numbered", "waiting"}, call'[d].err = call[d].err PROVE FALSE
    BY <2>2 DEF CallsAreNumbered
  <2>3. CASE call'[d].err = call[d].err /\ call'[d] # call[d]
    <3>1. call[d].stage \in {"numbered", "waiting"}
      BY <1>3, <2>0, <2>3, MovesAre DEF CallState
    <3> QED  BY <2>2, <2>3, <3>1
  <2>4. CASE call[d].future = "set" /\ Own(d, call[d].got) /\ call'[d] = Answer(call[d])
    <3>1. PICK i \in DOMAIN chosen :
            i \in IndexesOf(d) /\ chosen[i] = call[d].op /\ Tells(call[d].got, i)
      BY <2>4, AnsweredFrom
    <3>2. call[d].got.value \in Text
      BY <2>4 DEF FuturesAreTrue, AppliedOp
    <3>3. call'[d].value = call[d].got.value
      <4>1. PICK e \in {"OK", "ErrNoKey"} : call'[d] = Reply(call[d], e, call[d].got.value)
        BY <2>1, <2>4 DEF Answer
      <4>2. e \in {"OK", "ErrNoKey", "ErrWrongLeader"}
        OBVIOUS
      <4>3. Reply(call[d], e, call[d].got.value).value = call[d].got.value
        <5>1. PICK r \in CallState, v \in Text : r = call[d] /\ v = call[d].got.value
          BY <2>0, <3>2
        <5>2. Reply(r, e, v).value = v
          BY <4>2, ReplyIs
        <5> QED  BY <5>1, <5>2
      <4> QED  BY <4>1, <4>3
    <3>4. StoreAfter(i - 1)[call[d].op.key] = call'[d].value
      BY <2>1, <3>1, <3>3 DEF Tells
    <3> QED  BY <1>1, <2>1, <3>1, <3>4
  <2>5. CASE call'[d] = Reply(call[d], "ErrWrongLeader", Empty)
    BY <2>0, <2>5, ReplyIs
  <2>6. ASSUME call'[d].err # call[d].err
        PROVE  \/ call[d].future = "set" /\ Own(d, call[d].got) /\ call'[d] = Answer(call[d])
               \/ call'[d] = Reply(call[d], "ErrWrongLeader", Empty)
    <3>1. call'[d] # Broken(call[d])
      BY <2>0, <2>6, BrokenIs
    <3>2. \A g : call'[d] # Told(call[d], g)
      BY <2>0, <2>6, ToldIs
    <3>3. \A i \in 1 .. MaxLen : call'[d] # Waiting(call[d], i)
      BY <2>0, <2>6, WaitingIs
    <3>4. call[d].op.kind = "Get"
      BY <2>1
    <3> QED  BY <2>0, <2>6, <3>1, <3>2, <3>3, <3>4 DEF CallMoves
  <2> QED  BY <1>2, <2>3, <2>4, <2>5, <2>6
<1>4. ASSUME NEW c \in Call, NEW o \in Op, Arrives(c, o) PROVE call'[d] = call[d]
  <2>1. call'[c] = NumberedCall(o) /\ \A b \in Call \ {c} : call'[b] = call[b]
    BY <1>4, ArrivesDoes
  <2>2. NumberedCall(o).err = ""
    BY NumberedIs
  <2>3. d # c
    BY <2>1, <2>2
  <2> QED  BY <2>1, <2>3
<1> QED  BY <1>2, <1>3, <1>4, CallsStep

-----------------------------------------------------------------------------
(* The promises in the maps.                                               *)

\* A call leaves the map, or is put in it, and whoever was there is told.
Displaces(s, i, c) ==
  /\ waitMap' = [waitMap EXCEPT ![s][i] = c]
  /\ c # NoCall => /\ call'[c].stage = "waiting" /\ call'[c].future = "pending"
                   /\ call'[c].node = s /\ call'[c].slot = i
                   /\ \A p \in Server, j \in 1 .. MaxLen : waitMap[p][j] # c
  /\ \A d \in Call \ {c} :
       \/ call'[d] = call[d] /\ d # waitMap[s][i]
       \/ /\ call'[d].stage # "waiting"
          /\ \A p \in Server, j \in 1 .. MaxLen : waitMap[p][j] = d => p = s /\ j = i
       \/ d = waitMap[s][i] /\ call'[d].future # "pending"

LEMMA MapHolds ==
  ASSUME TypeOK, WaitersAreKept, NEW s \in Server, NEW i \in 1 .. MaxLen,
         NEW c \in Call \cup {NoCall}, Displaces(s, i, c),
         \A d \in Call : call[d].stage = "waiting" =>
           call[d].node \in Server /\ call[d].slot \in 1 .. MaxLen
  PROVE  WaitersAreKept'
<1>0. waitMap \in [Server -> [1 .. MaxLen -> Call \cup {NoCall}]]
  BY DEF TypeOK
<1>1. waitMap'[s][i] = c
  BY <1>0 DEF Displaces
<1>2. ASSUME NEW p \in Server, NEW j \in 1 .. MaxLen, ~(p = s /\ j = i)
      PROVE  waitMap'[p][j] = waitMap[p][j]
  BY <1>0, <1>2 DEF Displaces
<1>3. ASSUME NEW d \in Call, call'[d].stage = "waiting", call'[d].future = "pending"
      PROVE  waitMap'[call'[d].node][call'[d].slot] = d
  <2>1. CASE d = c
    BY <1>1, <2>1, CallAssumption DEF Displaces
  <2>2. CASE d # c
    <3>1. call'[d] = call[d] /\ d # waitMap[s][i]
      BY <1>3, <2>2 DEF Displaces
    <3>2. /\ waitMap[call[d].node][call[d].slot] = d
          /\ call[d].node \in Server /\ call[d].slot \in 1 .. MaxLen
      BY <1>3, <3>1 DEF WaitersAreKept
    <3>3. ~(call[d].node = s /\ call[d].slot = i)
      BY <3>1, <3>2
    <3> QED  BY <1>2, <3>1, <3>2, <3>3
  <2> QED  BY <2>1, <2>2
<1>4. ASSUME NEW p \in Server, NEW j \in 1 .. MaxLen, waitMap'[p][j] # NoCall
      PROVE  LET r == call'[waitMap'[p][j]]
             IN r.node = p /\ r.slot = j /\ r.future = "pending" /\ r.stage = "waiting"
  <2>1. CASE p = s /\ j = i
    BY <1>1, <1>4, <2>1 DEF Displaces
  <2>2. CASE ~(p = s /\ j = i)
    <3> DEFINE d == waitMap[p][j]
    <3>0. waitMap'[p][j] = d /\ d \in Call \cup {NoCall}
      BY <1>0, <1>2, <2>2
    <3>1. waitMap'[p][j] = d /\ d # NoCall /\ d \in Call
      BY <1>4, <3>0
    <3>2. /\ call[d].node = p /\ call[d].slot = j /\ call[d].future = "pending"
          /\ call[d].stage = "waiting"
      BY <3>1 DEF WaitersAreKept
    <3>3. d # waitMap[s][i]
      BY <2>2, <3>1, <3>2 DEF WaitersAreKept
    <3>4. CASE d = c
      BY <2>2, <3>1, <3>2, <3>3, <3>4 DEF Displaces
    <3>5. CASE d # c
      <4>1. call'[d] = call[d]
        BY <2>2, <3>1, <3>3, <3>5 DEF Displaces
      <4> QED  BY <3>1, <3>2, <4>1
    <3> QED  BY <3>4, <3>5
  <2> QED  BY <2>1, <2>2
<1> QED  BY <1>3, <1>4 DEF WaitersAreKept

LEMMA WaitersStep ==
  ASSUME TypeOK, CallsAreNumbered, PushedIsChosen, FuturesAreTrue, WaitersAreKept,
         StoresAreApplied, [Next]_vars
  PROVE  WaitersAreKept'
<1>0. /\ waitMap \in [Server -> [1 .. MaxLen -> Call \cup {NoCall}]] /\ NoCall \notin Call
      /\ call \in [Call -> CallState] /\ Empty \in Text
  BY CallAssumption DEF TypeOK, Empty, Text
<1>1. \A d \in Call : call[d].stage = "waiting" =>
        call[d].node \in Server /\ call[d].slot \in 1 .. MaxLen
  <2>1. ASSUME NEW d \in Call, call[d].stage = "waiting"
        PROVE  call[d].node \in Server /\ call[d].slot \in 1 .. MaxLen
    <3>1. call[d].node \in Server /\ call[d].slot # 0 /\ call[d].slot \in 0 .. MaxLen
      BY <1>0, <2>1 DEF CallsAreNumbered, Made, CallState
    <3> QED  BY <3>1, LogHasRoom
  <2> QED  BY <2>1
<1>2. ASSUME NEW d \in Call, NEW p \in Server, NEW j \in 1 .. MaxLen, waitMap[p][j] = d
      PROVE  /\ call[d].stage = "waiting" /\ call[d].future = "pending"
             /\ call[d].node = p /\ call[d].slot = j
  BY <1>0, <1>2 DEF WaitersAreKept
\* Nothing comes to those who wait.
<1>3. ASSUME UNCHANGED waitMap,
             \A d \in Call : \/ call'[d] = call[d]
                             \/ call[d].stage # "waiting" /\ call'[d].stage # "waiting"
      PROVE  WaitersAreKept'
  <2>1. ASSUME NEW d \in Call, call'[d].stage = "waiting", call'[d].future = "pending"
        PROVE  waitMap'[call'[d].node][call'[d].slot] = d
    BY <1>3, <2>1 DEF WaitersAreKept
  <2>2. ASSUME NEW p \in Server, NEW j \in 1 .. MaxLen, waitMap'[p][j] # NoCall
        PROVE  LET r == call'[waitMap'[p][j]]
               IN r.node = p /\ r.slot = j /\ r.future = "pending" /\ r.stage = "waiting"
    <3>1. waitMap[p][j] \in Call /\ waitMap'[p][j] = waitMap[p][j]
      BY <1>0, <1>3, <2>2
    <3>2. call'[waitMap[p][j]] = call[waitMap[p][j]]
      BY <1>2, <1>3, <3>1
    <3> QED  BY <1>2, <3>1, <3>2
  <2> QED  BY <2>1, <2>2 DEF WaitersAreKept
<1>4. ASSUME NEW c \in Call, call[c].stage = "waiting", NEW r \in CallState,
             r.stage = "answered", Leave(c, r)
      PROVE  WaitersAreKept'
  <2> DEFINE s == call[c].node
             i == call[c].slot
  <2>1. /\ s \in Server /\ i \in 1 .. MaxLen /\ waitMap' = [waitMap EXCEPT ![s][i] = NoCall]
        /\ call'[c] = r
        /\ \A d \in Call \ {c} : call'[d] = IF d = waitMap[s][i] THEN Broken(call[d]) ELSE call[d]
    BY <1>4, LeaveDoes
  <2>2. \A d \in Call \ {c} : \/ call'[d] = call[d] /\ d # waitMap[s][i]
                              \/ d = waitMap[s][i] /\ call'[d].future # "pending"
    <3>1. \A d \in Call : Broken(call[d]).future = "broken"
      BY <1>0, BrokenIs
    <3> QED  BY <2>1, <3>1
  <2>3. \A p \in Server, j \in 1 .. MaxLen : waitMap[p][j] = c => p = s /\ j = i
    BY <1>2
  <2>4. call'[c].stage # "waiting"
    BY <1>4, <2>1
  <2> HIDE DEF s, i
  <2>5. Displaces(s, i, NoCall)
    BY <1>0, <2>1, <2>2, <2>3, <2>4 DEF Displaces
  <2> QED  BY <1>1, <2>1, <2>5, MapHolds
<1>5. ASSUME NEW c \in Call, NEW s \in Server, NEW q \in Request, Receive(c, s, q)
      PROVE  WaitersAreKept'
  <2>1. PICK o \in Op : Arrives(c, o)
    BY <1>5, ReceiveDoes
  <2>2. /\ call[c].stage = "idle" /\ call'[c] = NumberedCall(o)
        /\ \A d \in Call \ {c} : call'[d] = call[d]
    BY <2>1, ArrivesDoes
  <2>3. call'[c].stage = "numbered"
    BY <2>2, NumberedIs
  <2> QED  BY <1>3, <1>5, <2>2, <2>3 DEF Receive
<1>6. ASSUME NEW c \in Call, Enter(c) PROVE WaitersAreKept'
  <2>0. call[c].stage = "numbered"
    BY <1>6 DEF Enter
  <2>1. ASSUME NEW e \in {"OK", "ErrNoKey", "ErrWrongLeader"}, UNCHANGED waitMap,
               call' = [call EXCEPT ![c] = Reply(call[c], e, Empty)]
        PROVE  WaitersAreKept'
    <3>1. /\ call'[c] = Reply(call[c], e, Empty)
          /\ \A d \in Call \ {c} : call'[d] = call[d]
      BY <1>0, <2>1
    <3>2. call'[c].stage = "answered"
      BY <1>0, <3>1, ReplyIs
    <3> QED  BY <1>3, <2>0, <2>1, <3>1, <3>2
  <2>2. CASE Refused(c)
    BY <2>1, <2>2 DEF Refused
  <2>3. CASE Duplicate(c)
    BY <2>1, <2>3 DEF Duplicate
  <2>4. CASE Submit(c)
    <3> DEFINE s == call[c].node
               i == Len(log[s]) + 1
    <3>1. /\ s \in Server /\ i \in 1 .. MaxLen /\ waitMap' = [waitMap EXCEPT ![s][i] = c]
          /\ call'[c] = Waiting(call[c], i)
          /\ \A d \in Call \ {c} : call'[d] = IF d = waitMap[s][i] THEN Broken(call[d]) ELSE call[d]
      BY <2>0, <2>4, SubmitDoes
    <3>2. \A d \in Call \ {c} : \/ call'[d] = call[d] /\ d # waitMap[s][i]
                                \/ d = waitMap[s][i] /\ call'[d].future # "pending"
      <4>1. \A d \in Call : Broken(call[d]).future = "broken"
        BY <1>0, BrokenIs
      <4> QED  BY <3>1, <4>1
    <3>3. \A p \in Server, j \in 1 .. MaxLen : waitMap[p][j] # c
      BY <1>2, <2>0
    <3> HIDE DEF i
    <3>4. /\ call'[c].stage = "waiting" /\ call'[c].future = "pending"
          /\ call'[c].node = s /\ call'[c].slot = i
      <4>1. call[c].future = "pending"
        BY <2>0 DEF CallsAreNumbered
      <4> QED  BY <1>0, <3>1, <4>1, WaitingIs
    <3> HIDE DEF s
    <3>5. Displaces(s, i, c)
      BY <3>1, <3>2, <3>3, <3>4 DEF Displaces
    <3> QED  BY <1>1, <3>1, <3>5, MapHolds
  <2> QED  BY <1>6, <2>2, <2>3, <2>4 DEF Enter
<1>7. ASSUME NEW c \in Call, Finish(c) \/ GiveUp(c) PROVE WaitersAreKept'
  <2>1. call[c].stage = "waiting"
    BY <1>7 DEF Finish, GiveUp
  <2>2. \E e \in {"OK", "ErrNoKey", "ErrWrongLeader"}, v \in Text : Leave(c, Reply(call[c], e, v))
    <3>1. CASE GiveUp(c)
      BY <1>0, <3>1 DEF GiveUp
    <3>2. CASE Finish(c)
      <4>1. call[c].future # "pending" /\ Leave(c, Outcome(c))
        BY <3>2 DEF Finish
      <4> QED  BY <1>0, <4>1, OutcomeIs, AnswerIs
    <3> QED  BY <1>7, <3>1, <3>2
  <2>3. PICK e \in {"OK", "ErrNoKey", "ErrWrongLeader"}, v \in Text : Leave(c, Reply(call[c], e, v))
    BY <2>2
  <2>4. Reply(call[c], e, v) \in CallState /\ Reply(call[c], e, v).stage = "answered"
    <3>1. call[c] \in CallState
      BY <1>0
    <3>2. PICK r \in CallState : r = call[c]
      BY <3>1
    <3>3. Reply(r, e, v) \in CallState /\ Reply(r, e, v).stage = "answered"
      BY ReplyIs
    <3> QED  BY <3>2, <3>3
  <2> QED  BY <1>4, <2>1, <2>3, <2>4
<1>8. ASSUME NEW s \in Server, Apply(s) PROVE WaitersAreKept'
  <2> DEFINE i == done[s] + 1
  <2>1. i \in 1 .. MaxLen /\ waitMap' = [waitMap EXCEPT ![s][i] = NoCall]
    BY <1>8, ApplyDoes
  <2>2. PICK g \in AppliedOp :
          \A d \in Call : call'[d] = IF d = waitMap[s][i] THEN Told(call[d], g) ELSE call[d]
    BY <1>8, ApplyDoes
  <2>3. \A d \in Call : \/ call'[d] = call[d] /\ d # waitMap[s][i]
                        \/ d = waitMap[s][i] /\ call'[d].future # "pending"
    <3>1. \A d \in Call : Told(call[d], g).future = "set"
      BY <1>0, ToldIs
    <3> QED  BY <2>2, <3>1
  <2> HIDE DEF i
  <2>4. Displaces(s, i, NoCall)
    BY <1>0, <2>1, <2>3 DEF Displaces
  <2> QED  BY <1>1, <2>1, <2>4, MapHolds
<1>9. ASSUME NEW s \in Server, Raft(s) PROVE WaitersAreKept'
  BY <1>3, <1>9 DEF Raft, kvVars
<1>10. CASE UNCHANGED vars
  BY <1>3, <1>10 DEF vars, kvVars
<1> QED  BY <1>5, <1>6, <1>7, <1>8, <1>9, <1>10 DEF Next, Handler

-----------------------------------------------------------------------------
(* Types.                                                                  *)

LEMMA CallsType ==
  ASSUME TypeOK, NumbersAreCounted', CallsMove \/ \E c \in Call, o \in Op : Arrives(c, o)
  PROVE  /\ call' \in [Call -> CallState]
         /\ seq' \in [Server -> 0 .. Cardinality(Call)]
<1>1. seq' \in [Server -> Nat] /\ call' \in [Call -> CallState]
  <2>1. CASE CallsMove
    BY <2>1, NumberType DEF CallsMove
  <2>2. ASSUME NEW c \in Call, NEW o \in Op, Arrives(c, o)
        PROVE  seq' \in [Server -> Nat] /\ call' \in [Call -> CallState]
    BY <2>2, ArrivesDoes
  <2> QED  BY <2>1, <2>2
<1>2. ASSUME NEW s \in Server PROVE seq'[s] \in 0 .. Cardinality(Call)
  <2> DEFINE taken == {c \in Call : Made(c)' /\ call'[c].node = s}
  <2>1. seq'[s] = Cardinality(taken)
    BY DEF NumbersAreCounted
  <2>2. taken \in SUBSET Call
    OBVIOUS
  <2> HIDE DEF taken
  <2>3. IsFiniteSet(taken) /\ Cardinality(taken) <= Cardinality(Call)
    BY <2>2, LogHasRoom, FS_Subset
  <2>4. Cardinality(taken) \in Nat /\ Cardinality(Call) \in Nat
    BY <2>3, LogHasRoom, FS_CardinalityType
  <2> QED  BY <2>1, <2>3, <2>4
<1> QED  BY <1>1, <1>2

LEMMA LogsType ==
  ASSUME TypeOK, CallsAreNumbered, WaitersAreKept, PushedIsChosen, [Next]_vars
  PROVE  /\ log' \in [Server -> Seq(Op)] /\ \A s \in Server : Len(log'[s]) <= MaxLen
         /\ started' \subseteq Seq(Op) /\ \A l \in started' : Len(l) <= MaxLen
         /\ \A s \in Server : pushed'[s] <= Len(log'[s])
         /\ pushed' \in [Server -> Nat] /\ chosen' \in Seq(Op)
<1>0. /\ log \in [Server -> Seq(Op)] /\ pushed \in [Server -> Nat] /\ MaxLen \in Nat
      /\ \A s \in Server : Len(log[s]) \in Nat /\ Len(log[s]) <= MaxLen /\ pushed[s] <= Len(log[s])
      /\ started \subseteq Seq(Op) /\ \A l \in started : Len(l) \in Nat /\ Len(l) <= MaxLen
  BY LogHasRoom DEF TypeOK
<1>1. chosen' \in Seq(Op)
  BY ChosenGrows
<1>2. /\ log' \in [Server -> Seq(Op)] /\ \A s \in Server : Len(log'[s]) <= MaxLen
      /\ started' \subseteq Seq(Op) /\ \A l \in started' : Len(l) <= MaxLen
      /\ \A s \in Server : pushed[s] <= Len(log'[s])
  <2>1. ASSUME NEW p \in Server, NEW l \in Seq(Op), log' = [log EXCEPT ![p] = l],
               Len(l) <= MaxLen, pushed[p] <= Len(l)
        PROVE  /\ log' \in [Server -> Seq(Op)] /\ \A s \in Server : Len(log'[s]) <= MaxLen
               /\ \A s \in Server : pushed[s] <= Len(log'[s])
    BY <1>0, <2>1
  <2>2. ASSUME NEW p \in Server, Adopt(p)
        PROVE  /\ log' \in [Server -> Seq(Op)] /\ \A s \in Server : Len(log'[s]) <= MaxLen
               /\ \A s \in Server : pushed[s] <= Len(log'[s])
               /\ started' = started
    <3>1. PICK m \in started, k \in Nat :
            /\ m \in Seq(Op) /\ k <= Len(m) /\ pushed[p] <= k
            /\ log' = [log EXCEPT ![p] = SubSeq(m, 1, k)]
      BY <2>2, AdoptDoes
    <3>2. SubSeq(m, 1, k) \in Seq(Op) /\ Len(SubSeq(m, 1, k)) = k
      BY <3>1, BeginningIs
    <3>3. k <= MaxLen
      BY <1>0, <3>1
    <3>4. started' = started
      BY <2>2, AdoptDoes
    <3>5. PICK l \in Seq(Op) : l = SubSeq(m, 1, k)
      BY <3>2
    <3> QED  BY <2>1, <3>1, <3>2, <3>3, <3>4, <3>5
  <2>3. ASSUME NEW p \in Server, NEW e \in Op, Start(p, e)
        PROVE  /\ log' \in [Server -> Seq(Op)] /\ \A s \in Server : Len(log'[s]) <= MaxLen
               /\ \A s \in Server : pushed[s] <= Len(log'[s])
               /\ \E l \in Seq(Op) : started' = started \cup {l} /\ Len(l) <= MaxLen
    <3>1. PICK l \in Seq(Op) : l = Append(log[p], e)
      BY <2>3, StartDoes
    <3>2. /\ log' = [log EXCEPT ![p] = l] /\ started' = started \cup {l}
          /\ Len(l) = Len(log[p]) + 1 /\ Len(log[p]) < MaxLen
      BY <2>3, <3>1, StartDoes
    <3>3. Len(l) <= MaxLen /\ pushed[p] <= Len(l)
      <4>1. pushed[p] \in Nat /\ Len(log[p]) \in Nat /\ pushed[p] <= Len(log[p])
        BY <1>0
      <4> QED  BY <1>0, <3>2, <4>1
    <3> QED  BY <2>1, <3>2, <3>3
  <2>4. CASE UNCHANGED <<log, started>>
    BY <1>0, <2>4
  <2>5. ASSUME NEW l \in Seq(Op), Len(l) <= MaxLen, started' = started \cup {l}
        PROVE  started' \subseteq Seq(Op) /\ \A m \in started' : Len(m) <= MaxLen
    BY <1>0, <2>5
  <2>6. ASSUME NEW p \in Server, Adopt(p)
        PROVE  /\ log' \in [Server -> Seq(Op)] /\ \A s \in Server : Len(log'[s]) <= MaxLen
               /\ started' \subseteq Seq(Op) /\ \A l \in started' : Len(l) <= MaxLen
               /\ \A s \in Server : pushed[s] <= Len(log'[s])
    BY <1>0, <2>2, <2>6
  <2>7. ASSUME NEW p \in Server, NEW e \in Op, Start(p, e)
        PROVE  /\ log' \in [Server -> Seq(Op)] /\ \A s \in Server : Len(log'[s]) <= MaxLen
               /\ started' \subseteq Seq(Op) /\ \A l \in started' : Len(l) <= MaxLen
               /\ \A s \in Server : pushed[s] <= Len(log'[s])
    BY <2>3, <2>5, <2>7
  <2> QED  BY <2>4, <2>6, <2>7, LogsStep
<1>3. pushed' \in [Server -> Nat] /\ \A s \in Server : pushed'[s] <= Len(log'[s])
  <2>1. CASE UNCHANGED <<pushed, chosen>>
    BY <1>0, <1>2, <2>1
  <2>2. ASSUME NEW s \in Server, pushed[s] < Len(log[s]), Deliver(s, pushed[s] + 1)
        PROVE  pushed' \in [Server -> Nat] /\ \A p \in Server : pushed'[p] <= Len(log'[p])
    <3>1. pushed' = [pushed EXCEPT ![s] = pushed[s] + 1] /\ log' = log
      BY <2>2 DEF Deliver
    <3>2. pushed[s] \in Nat /\ Len(log[s]) \in Nat /\ pushed[s] + 1 <= Len(log[s])
      BY <1>0, <2>2
    <3> QED  BY <1>0, <3>1, <3>2
  <2> QED  BY <2>1, <2>2, ChosenStep
<1> QED  BY <1>1, <1>2, <1>3

LEMMA StoresType ==
  ASSUME TypeOK, CallsAreNumbered, LogsAreOrderly, WaitersAreKept, PushedIsChosen, [Next]_vars
  PROVE  /\ store' \in [Server -> [Key -> Text]]
         /\ lastSeq' \in [Server -> [Server -> 0 .. Cardinality(Call)]]
         /\ done' \in [Server -> Nat] /\ \A s \in Server : done'[s] <= pushed'[s]
<1>0. /\ store \in [Server -> [Key -> Text]] /\ done \in [Server -> Nat]
      /\ lastSeq \in [Server -> [Server -> 0 .. Cardinality(Call)]]
      /\ pushed \in [Server -> Nat] /\ \A s \in Server : done[s] <= pushed[s]
  BY DEF TypeOK
<1>1. CASE UNCHANGED <<store, lastSeq, done>>
  <2>1. \A s \in Server : pushed[s] <= pushed'[s] /\ pushed'[s] \in Nat
    <3>1. ASSUME NEW s \in Server, pushed' = [pushed EXCEPT ![s] = pushed[s] + 1]
          PROVE  \A p \in Server : pushed[p] <= pushed'[p] /\ pushed'[p] \in Nat
      BY <1>0, <3>1
    <3> QED  BY <1>0, <3>1, ChosenStep DEF Deliver
  <2> QED  BY <1>0, <1>1, <2>1
<1>2. ASSUME NEW s \in Server, Apply(s)
      PROVE  /\ store' \in [Server -> [Key -> Text]]
             /\ lastSeq' \in [Server -> [Server -> 0 .. Cardinality(Call)]]
             /\ done' \in [Server -> Nat] /\ \A p \in Server : done'[p] <= pushed'[p]
  <2> DEFINE i == done[s] + 1
             op == chosen[i]
  <2>1. /\ i \in Nat /\ i \in DOMAIN chosen /\ i <= pushed[s] /\ done' = [done EXCEPT ![s] = i]
        /\ pushed' = pushed
    <3>1. /\ i <= Len(chosen) /\ i <= pushed[s] /\ done' = [done EXCEPT ![s] = i]
          /\ pushed' = pushed
      BY <1>2, ApplyDoes DEF raftVars
    <3>2. done[s] \in Nat /\ chosen \in Seq(Op)
      BY DEF TypeOK
    <3> QED  BY <3>1, <3>2
  <2>2. op \in Op /\ op.client \in Server /\ op.seq \in 0 .. Cardinality(Call)
    BY <2>1, ChosenNumber
  <2>3. /\ store' = [store EXCEPT ![s] = Written(store[s], op)] \/ store' = store
        /\ lastSeq' = [lastSeq EXCEPT ![s][op.client] = op.seq] \/ lastSeq' = lastSeq
    BY <1>2 DEF Apply
  <2> HIDE DEF op, i
  <2>4. store' \in [Server -> [Key -> Text]]
    <3>1. Written(store[s], op) \in [Key -> Text]
      BY <1>0, <2>2, WrittenType
    <3> QED  BY <1>0, <2>3, <3>1
  <2>5. lastSeq' \in [Server -> [Server -> 0 .. Cardinality(Call)]]
    <3> DEFINE N == 0 .. Cardinality(Call)
    <3>1. lastSeq \in [Server -> [Server -> N]] /\ op.seq \in N
      BY <1>0, <2>2
    <3> HIDE DEF N
    <3>2. lastSeq' \in [Server -> [Server -> N]]
      BY <2>2, <2>3, <3>1
    <3> QED  BY <3>2 DEF N
  <2>6. done' \in [Server -> Nat] /\ \A p \in Server : done'[p] <= pushed'[p]
    BY <1>0, <2>1
  <2> QED  BY <2>4, <2>5, <2>6
<1> QED  BY <1>1, <1>2, StoresStep

\* Who leads, how often one was elected, and the maps.
LEMMA OthersType ==
  ASSUME TypeOK, CallsAreNumbered, WaitersAreKept, PushedIsChosen, [Next]_vars
  PROVE  /\ leads' \in [Server -> BOOLEAN] /\ reigns' \in 0 .. MaxReigns
         /\ waitMap' \in [Server -> [1 .. MaxLen -> Call \cup {NoCall}]]
<1>0. /\ leads \in [Server -> BOOLEAN] /\ reigns \in 0 .. MaxReigns /\ MaxReigns \in Nat
      /\ waitMap \in [Server -> [1 .. MaxLen -> Call \cup {NoCall}]]
  BY LogHasRoom DEF TypeOK
<1>1. ASSUME NEW c \in Call, NEW s \in Server, NEW q \in Request, Receive(c, s, q)
      PROVE  UNCHANGED <<leads, reigns, waitMap>>
  BY <1>1 DEF Receive, raftVars
<1>2. ASSUME NEW c \in Call, Enter(c)
      PROVE  /\ UNCHANGED <<leads, reigns>>
             /\ waitMap' \in [Server -> [1 .. MaxLen -> Call \cup {NoCall}]]
  <2>1. CASE Refused(c) \/ Duplicate(c)
    BY <1>0, <2>1 DEF Refused, Duplicate, Start, raftVars
  <2>2. CASE Submit(c)
    <3>1. \E s \in Server, i \in 1 .. MaxLen : waitMap' = [waitMap EXCEPT ![s][i] = c]
      BY <1>2, <2>2, SubmitDoes DEF Enter
    <3>2. waitMap' \in [Server -> [1 .. MaxLen -> Call \cup {NoCall}]]
      BY <1>0, <3>1
    <3> QED  BY <2>2, <3>2 DEF Submit, Start
  <2> QED  BY <1>2, <2>1, <2>2 DEF Enter
<1>3. ASSUME NEW c \in Call, Finish(c) \/ GiveUp(c)
      PROVE  /\ UNCHANGED <<leads, reigns>>
             /\ waitMap' \in [Server -> [1 .. MaxLen -> Call \cup {NoCall}]]
  <2>1. waitMap' = [waitMap EXCEPT ![call[c].node][call[c].slot] = NoCall]
    BY <1>3 DEF Finish, GiveUp, Leave
  <2>2. UNCHANGED <<leads, reigns>>
    BY <1>3 DEF Finish, GiveUp, Leave, raftVars
  <2> QED  BY <1>0, <2>1, <2>2
<1>4. ASSUME NEW s \in Server, Apply(s)
      PROVE  /\ UNCHANGED <<leads, reigns>>
             /\ waitMap' \in [Server -> [1 .. MaxLen -> Call \cup {NoCall}]]
  BY <1>0, <1>4 DEF Apply, raftVars
<1>5. ASSUME NEW s \in Server, Raft(s)
      PROVE  /\ leads' \in [Server -> BOOLEAN] /\ reigns' \in 0 .. MaxReigns
             /\ UNCHANGED waitMap
  <2>1. CASE reigns < MaxReigns /\ Elected(s) /\ reigns' = reigns + 1
    BY <1>0, <1>5, <2>1 DEF Raft, Elected, kvVars
  <2>2. CASE UNCHANGED reigns /\ (Deposed(s) \/ Adopt(s) \/ Deliver(s, pushed[s] + 1))
    BY <1>0, <1>5, <2>2 DEF Raft, Deposed, Adopt, Deliver, kvVars
  <2> QED  BY <1>5, <2>1, <2>2 DEF Raft
<1>6. CASE UNCHANGED vars
  BY <1>0, <1>6 DEF vars, raftVars, kvVars
<1> QED  BY <1>0, <1>1, <1>2, <1>3, <1>4, <1>5, <1>6 DEF Next, Handler

-----------------------------------------------------------------------------
(* The invariant.                                                          *)

LEMMA InitKV == ASSUME Init PROVE KVInv
<1>0. Empty \in Text /\ 0 \in Nat /\ MaxReigns \in Nat /\ MaxLen \in Nat /\ Cardinality(Call) \in Nat
  BY LogHasRoom, FS_CardinalityType DEF Empty, Text
<1>1. /\ leads = [s \in Server |-> FALSE] /\ log = [s \in Server |-> << >>] /\ started = {}
      /\ pushed = [s \in Server |-> 0] /\ chosen = << >>
      /\ seq = [s \in Server |-> 0] /\ call = [c \in Call |-> IdleCall]
      /\ waitMap = [s \in Server |-> [i \in 1 .. MaxLen |-> NoCall]]
      /\ store = [s \in Server |-> Empties]
      /\ lastSeq = [s \in Server |-> [t \in Server |-> 0]]
      /\ done = [s \in Server |-> 0] /\ reigns = 0
  BY DEF Init, LogInit, Empties
<1>2. << >> \in Seq(Op) /\ Len(<< >>) = 0 /\ Empties \in [Key -> Text]
  BY <1>0 DEF Empties
<1>3. TypeOK
  <2>1. /\ seq \in [Server -> 0 .. Cardinality(Call)]
        /\ lastSeq \in [Server -> [Server -> 0 .. Cardinality(Call)]]
        /\ reigns \in 0 .. MaxReigns /\ done \in [Server -> Nat] /\ pushed \in [Server -> Nat]
    BY <1>0, <1>1
  <2>2. /\ log \in [Server -> Seq(Op)] /\ chosen \in Seq(Op)
        /\ \A s \in Server : Len(log[s]) = 0 /\ done[s] = 0 /\ pushed[s] = 0
    BY <1>1, <1>2
  <2>3. call \in [Call -> CallState] /\ store \in [Server -> [Key -> Text]]
    BY <1>1, <1>2, IdleIs
  <2> QED  BY <1>0, <1>1, <2>1, <2>2, <2>3 DEF TypeOK
<1>4. \A c \in Call : call[c] = IdleCall /\ call[c].stage = "idle" /\ ~Made(c)
  BY <1>1, IdleIs DEF Made
<1>5. CallsAreNumbered /\ NumberedIsLast /\ FuturesAreTrue /\ ReadsAtItsIndex
  BY <1>4, IdleIs DEF CallsAreNumbered, NumberedIsLast, FuturesAreTrue, ReadsAtItsIndex
<1>6. NumbersAreCounted
  <2>1. ASSUME NEW s \in Server PROVE seq[s] = Cardinality({c \in Call : Made(c) /\ call[c].node = s})
    <3>1. {c \in Call : Made(c) /\ call[c].node = s} = {}
      BY <1>4
    <3> QED  BY <1>1, <3>1, FS_EmptySet
  <2> QED  BY <2>1 DEF NumbersAreCounted
<1>7. LogsAreOrderly /\ PushedIsChosen
  BY <1>1, <1>2 DEF LogsAreOrderly, Orderly, PushedIsChosen
<1>8. StoresAreApplied
  <2>1. StoreAt(chosen, 0) = Empties
    BY StoreAtNone DEF Empties
  <2> QED  BY <1>1, <2>1 DEF StoresAreApplied, StoreAfter, Highest
<1>9. WaitersAreKept
  BY <1>1, <1>4 DEF WaitersAreKept
<1> QED  BY <1>3, <1>5, <1>6, <1>7, <1>8, <1>9 DEF KVInv

LEMMA StepKV == ASSUME KVInv, [Next]_vars PROVE KVInv'
<1>0. /\ TypeOK /\ CallsAreNumbered /\ NumbersAreCounted /\ NumberedIsLast /\ LogsAreOrderly
      /\ PushedIsChosen /\ StoresAreApplied /\ FuturesAreTrue /\ WaitersAreKept /\ ReadsAtItsIndex
  BY DEF KVInv
<1>1. CallsMove \/ \E c \in Call, o \in Op : Arrives(c, o)
  BY <1>0, CallsStep
<1>2. CallsAreNumbered' /\ NumbersAreCounted' /\ NumberedIsLast'
  BY <1>0, <1>1, NumberedStep, CountedStep, LastStep
<1>3. LogsAreOrderly' /\ PushedIsChosen'
  BY <1>0, LogsOrderlyStep, PushedStep
<1>4. StoresAreApplied' /\ FuturesAreTrue'
  BY <1>0, StoresAppliedStep, FuturesStep
<1>5. WaitersAreKept' /\ ReadsAtItsIndex'
  BY <1>0, WaitersStep, ReadsStep
<1>6. TypeOK'
  BY <1>0, <1>1, <1>2, CallsType, LogsType, StoresType, OthersType DEF TypeOK
<1> QED  BY <1>2, <1>3, <1>4, <1>5, <1>6 DEF KVInv

THEOREM KVInvariant == Spec => []KVInv
<1>1. Init => KVInv
  BY InitKV
<1>2. KVInv /\ [Next]_vars => KVInv'
  BY StepKV
<1> QED  BY <1>1, <1>2, PTL DEF Spec

\* TypeOK: numbers, maps, stores and what the threads hold have their types, and a
\* server applies no more than its node has pushed (service_kv_grpc.hpp, kvserver.cpp).
THEOREM KVTypes == Spec => []TypeOK
<1>1. KVInv => TypeOK
  BY DEF KVInv
<1> QED  BY <1>1, KVInvariant, PTL

\* A handler that waits for a pending future has its promise in m_waitMap at its own
\* index, for all the handlers that clear an index they do not own.
THEOREM WaitersKept == Spec => []WaitersAreKept
<1>1. KVInv => WaitersAreKept
  BY DEF KVInv
<1> QED  BY <1>1, KVInvariant, PTL

\* A Get is answered with the value its own entry found at its index in the log, even
\* if the calls of a server do not lock m_mu in the order of their numbers.
THEOREM ReadsTrue == Spec => []ReadsAtItsIndex
<1>1. KVInv => ReadsAtItsIndex
  BY DEF KVInv
<1> QED  BY <1>1, KVInvariant, PTL

-----------------------------------------------------------------------------
(* The servers implement AtomicStore.                                      *)

\* The entry of a call has one index.
LEMMA OneIndex ==
  ASSUME TypeOK, LogsAreOrderly, NEW c \in Call, NEW i \in IndexesOf(c), NEW j \in IndexesOf(c)
  PROVE  i = j
<1>1. i \in DOMAIN chosen /\ j \in DOMAIN chosen /\ chosen[i] = chosen[j] /\ i \in Nat /\ j \in Nat
  BY DEF IndexesOf, TypeOK
<1>2. ~(i < j) /\ ~(j < i)
  BY <1>1 DEF LogsAreOrderly, Orderly
<1> QED  BY <1>1, <1>2

LEMMA SawIs ==
  ASSUME TypeOK, LogsAreOrderly, NEW c \in Call, NEW i \in IndexesOf(c),
         call[c].op # NoCall, call[c].op.kind = "Get"
  PROVE  Saw[c] = StoreAfter(i - 1)[call[c].op.key]
<1>1. (CHOOSE j \in IndexesOf(c) : TRUE) \in IndexesOf(c)
  OBVIOUS
<1>2. (CHOOSE j \in IndexesOf(c) : TRUE) = i
  BY <1>1, OneIndex
<1> QED  BY <1>2 DEF Saw

\* A command is a call's own.
LEMMA OwnCommand ==
  ASSUME CallsAreNumbered, NEW c \in Call, NEW d \in Call, Made(c), call[d].op = call[c].op
  PROVE  d = c
<1>1. call[c].op \in Op
  BY DEF CallsAreNumbered
<1>2. Made(d)
  <2>1. ~Made(d) => call[d].op = NoCall
    BY IdleIs DEF CallsAreNumbered
  <2> QED  BY <1>1, <2>1, RequestAssumption
<1>3. call[d].node = call[c].node
  BY <1>2 DEF CallsAreNumbered
<1> QED  BY <1>2, <1>3 DEF CallsAreNumbered

CommandsAreOwn == \A c, d \in Call : Made(c) /\ call[d].op = call[c].op => d = c

LEMMA OwnCommands == CallsAreNumbered => CommandsAreOwn
BY OwnCommand DEF CommandsAreOwn

LEMMA OwnCommandsNext == CallsAreNumbered' => CommandsAreOwn'
BY OwnCommands, PTL

\* In order, no number is known to a server before the call that bears it locks m_mu.
LEMMA NoDuplicates ==
  ASSUME InOrder, TypeOK, CallsAreNumbered, NumberedIsLast, LogsAreOrderly, StoresAreApplied,
         PushedIsChosen, NEW c \in Call, call[c].stage = "numbered"
  PROVE  ~Seen(call[c].node, call[c].op)
<1> SUFFICES ASSUME Seen(call[c].node, call[c].op) PROVE FALSE
  OBVIOUS
<1> DEFINE s == call[c].node
           q == call[c].op.seq
           k == lastSeq[s][s]
<1>1. /\ s \in Server /\ call[c].op.client = s /\ q \in 1 .. seq[s] /\ Made(c) /\ ~Entered(c)
      /\ q = seq[s]
  BY DEF CallsAreNumbered, NumberedIsLast, Made, Entered
<1>2. k >= q /\ k \in Nat /\ seq[s] \in Nat /\ k # 0
  <2>1. k >= q /\ k \in Nat /\ seq[s] \in Nat
    BY <1>1, NumberType DEF Seen
  <2> QED  BY <1>1, <2>1
<1>3. PICK j \in 1 .. done[s] : chosen[j].client = s /\ chosen[j].seq = k
  BY <1>1, <1>2 DEF StoresAreApplied, Highest
<1>4. j \in DOMAIN chosen
  <2>1. /\ done[s] \in Nat /\ pushed[s] \in Nat /\ chosen \in Seq(Op)
        /\ done[s] <= pushed[s] /\ pushed[s] <= Len(chosen)
    BY <1>1 DEF TypeOK, PushedIsChosen
  <2> QED  BY <2>1
<1>5. PICK d \in Call : Entered(d) /\ call[d].op = chosen[j]
  BY <1>4 DEF LogsAreOrderly, Orderly
<1>6. Made(d)
  BY <1>5 DEF Made, Entered
<1>7. call[d].node = s /\ k \in 1 .. seq[s]
  BY <1>3, <1>5, <1>6 DEF CallsAreNumbered
<1>8. k = q
  BY <1>1, <1>2, <1>7
<1>9. d = c
  BY <1>1, <1>3, <1>5, <1>6, <1>7, <1>8 DEF CallsAreNumbered
<1> QED  BY <1>1, <1>5, <1>9

\* Between entries the store is as it was, and the calls' requests with it.
LEMMA OldCalls ==
  ASSUME chosen' = chosen, NEW d \in Call, call'[d].op = call[d].op
  PROVE  AskedFor'[d] = AskedFor[d] /\ Taken'[d] = Taken[d] /\ Saw'[d] = Saw[d]
<1>1. IndexesOf(d)' = IndexesOf(d)
  BY DEF IndexesOf
<1> QED  BY <1>1 DEF AskedFor, Taken, Saw, StoreAfter

\* Receive is Ask.
LEMMA ReceiveAsks ==
  ASSUME KVInv, KVInv', chosen' = chosen, NEW c \in Call, NEW o \in Op, Arrives(c, o)
  PROVE  Linearized!Ask(c, RequestOf(o))
<1>0. TypeOK /\ CallsAreNumbered /\ CallsAreNumbered' /\ LogsAreOrderly
  BY DEF KVInv
<1>1. /\ call[c] = IdleCall /\ call'[c] = NumberedCall(o)
      /\ \A d \in Call \ {c} : call'[d] = call[d]
  BY <1>0, ArrivesDoes
<1>2. /\ call[c].op = NoCall /\ call'[c].op = o /\ call[c].err = "" /\ call[c].value = Empty
      /\ call'[c].err = "" /\ call'[c].value = Empty /\ call'[c].stage = "numbered"
      /\ call[c].stage = "idle" /\ o # NoCall
  <2>1. /\ IdleCall.op = NoCall /\ IdleCall.err = "" /\ IdleCall.value = Empty
        /\ IdleCall.stage = "idle" /\ o # NoCall
    BY IdleIs, RequestAssumption
  <2>2. /\ NumberedCall(o).op = o /\ NumberedCall(o).err = "" /\ NumberedCall(o).value = Empty
        /\ NumberedCall(o).stage = "numbered"
    BY NumberedIs
  <2> QED  BY <1>1, <2>1, <2>2
<1>3. IndexesOf(c)' = {}
  <2> SUFFICES ASSUME NEW i \in IndexesOf(c)' PROVE FALSE
    OBVIOUS
  <2>1. i \in DOMAIN chosen /\ chosen[i] = o
    BY <1>2 DEF IndexesOf
  <2>2. PICK d \in Call : Entered(d) /\ call[d].op = o
    BY <1>0, <2>1 DEF LogsAreOrderly, Orderly
  <2>3. d # c
    BY <1>2, <2>2 DEF Entered
  <2>4. call'[d].op = call'[c].op
    BY <1>1, <1>2, <2>2, <2>3
  <2>5. Made(c)'
    BY <1>2 DEF Made
  <2>6. CommandsAreOwn'
    BY <1>0, OwnCommandsNext
  <2> QED  BY <2>3, <2>4, <2>5, <2>6 DEF CommandsAreOwn
<1>4. AskedFor[c] = NoCall /\ AskedFor'[c] = RequestOf(o)
  BY <1>2 DEF AskedFor
<1>5. Taken[c] = FALSE /\ Taken'[c] = FALSE
  BY <1>2, <1>3 DEF Taken
<1>6. Saw[c] = Empty /\ Saw'[c] = Empty
  BY <1>2, <1>3 DEF Saw
<1>7. \A d \in Call \ {c} : AskedFor'[d] = AskedFor[d] /\ Taken'[d] = Taken[d] /\ Saw'[d] = Saw[d]
  BY <1>1, OldCalls
<1>8. AskedFor' = [AskedFor EXCEPT ![c] = RequestOf(o)]
  <2>1. AskedFor = [d \in Call |-> AskedFor[d]] /\ AskedFor' = [d \in Call |-> AskedFor'[d]]
    BY DEF AskedFor
  <2> QED  BY <1>4, <1>7, <2>1
<1>9. Taken' = Taken
  <2>1. Taken = [d \in Call |-> Taken[d]] /\ Taken' = [d \in Call |-> Taken'[d]]
    BY DEF Taken
  <2> QED  BY <1>5, <1>7, <2>1
<1>10. Saw' = Saw
  <2>1. Saw = [d \in Call |-> Saw[d]] /\ Saw' = [d \in Call |-> Saw'[d]]
    BY DEF Saw
  <2> QED  BY <1>6, <1>7, <2>1
<1>11. Answers' = Answers
  BY <1>1, <1>2 DEF Answers
<1>12. Content' = Content
  BY DEF Content, StoreAfter
<1> QED  BY <1>4, <1>8, <1>9, <1>10, <1>11, <1>12 DEF Linearized!Ask

\* An entry that is chosen is a call that takes effect.
LEMMA ChoosingTakes ==
  ASSUME InOrder, KVInv, KVInv', chosen' # chosen, [Next]_vars
  PROVE  \E c \in Call : Linearized!TakeEffect(c)
<1>0. /\ TypeOK /\ CallsAreNumbered /\ LogsAreOrderly /\ LogsAreOrderly' /\ PushedIsChosen /\ TypeOK'
      /\ CallsAreNumbered'
  BY DEF KVInv
<1>1. PICK s \in Server : /\ pushed[s] < Len(log[s]) /\ Deliver(s, pushed[s] + 1)
                          /\ UNCHANGED kvVars
  BY ChosenStep
<1>2. PICK n \in 1 .. Len(log[s]) : n = pushed[s] + 1
  BY <1>0, <1>1, DeliverDoes
<1>3. /\ log[s] \in Seq(Op) /\ n = Len(chosen) + 1 /\ chosen' = Append(chosen, log[s][n])
      /\ call' = call
  BY <1>0, <1>1, <1>2, DeliverDoes DEF kvVars
<1>4. PICK e \in Op : e = log[s][n]
  BY <1>3
<1>5. /\ chosen \in Seq(Op) /\ n \in Nat /\ n - 1 = Len(chosen) /\ n - 1 \in Nat /\ n # 0
      /\ DOMAIN chosen = 1 .. n - 1 /\ DOMAIN chosen' = 1 .. n /\ chosen'[n] = e
      /\ Len(chosen') = n /\ \A i \in 1 .. n - 1 : chosen'[i] = chosen[i]
  <2>1. chosen \in Seq(Op)
    BY <1>0 DEF TypeOK
  <2> QED  BY <1>3, <1>4, <2>1
<1>6. PICK c \in Call : Entered(c) /\ call[c].op = e
  <2>1. n \in DOMAIN log[s]
    BY <1>3
  <2> QED  BY <1>0, <1>4, <2>1 DEF LogsAreOrderly, Orderly
<1>7. /\ Made(c) /\ e.client \in Server /\ e # NoCall /\ RequestOf(e) # NoCall
      /\ e.kind \in Kind /\ e.key \in Key /\ e.value \in Text
  <2>1. e.kind \in Kind /\ e.key \in Key /\ e.value \in Text /\ e.client \in Server
    BY RequestAssumption DEF Op
  <2> QED  BY <1>6, <2>1, RequestAssumption DEF Made, Entered, RequestOf
<1>8. \A i \in 1 .. n - 1 : chosen[i] # e
  <2> SUFFICES ASSUME NEW i \in 1 .. n - 1, chosen[i] = e PROVE FALSE
    OBVIOUS
  <2>1. i \in DOMAIN chosen' /\ n \in DOMAIN chosen' /\ i < n /\ chosen'[i] = chosen'[n]
    BY <1>5
  <2> QED  BY <1>0, <2>1 DEF LogsAreOrderly, Orderly
<1>9. IndexesOf(c) = {} /\ IndexesOf(c)' = {n}
  <2>1. IndexesOf(c) = {}
    BY <1>5, <1>6, <1>8 DEF IndexesOf
  <2>2. \A i \in DOMAIN chosen' : chosen'[i] = e <=> i = n
    BY <1>5, <1>8
  <2>3. IndexesOf(c)' = {n}
    <3>1. IndexesOf(c)' = {i \in DOMAIN chosen' : chosen'[i] = e}
      BY <1>3, <1>6 DEF IndexesOf
    <3>2. n \in DOMAIN chosen'
      BY <1>5
    <3> QED  BY <2>2, <3>1, <3>2
  <2> QED  BY <2>1, <2>3
<1>10. ASSUME NEW d \in Call, d # c PROVE IndexesOf(d)' = IndexesOf(d)
  <2>1. call[d].op # e
    BY <1>0, <1>6, <1>7, <1>10, OwnCommand
  <2>2. \A i \in DOMAIN chosen' : chosen'[i] = call[d].op <=> i \in DOMAIN chosen /\ chosen[i] = call[d].op
    BY <1>5, <2>1
  <2>3. DOMAIN chosen \subseteq DOMAIN chosen'
    BY <1>5
  <2> QED  BY <1>3, <2>2, <2>3 DEF IndexesOf
<1>11. \A m \in Nat : m <= n - 1 => StoreAt(chosen', m) = StoreAt(chosen, m)
  BY <1>0, <1>5, ChosenGrows
<1>12. Content = StoreAt(chosen, n - 1) /\ Content' = NextStore(chosen', Content, n)
  <2>1. Content = StoreAt(chosen, n - 1) /\ Content' = StoreAt(chosen', n)
    BY <1>5 DEF Content, StoreAfter
  <2>2. StoreAt(chosen', n - 1) = StoreAt(chosen, n - 1)
    BY <1>5, <1>11
  <2>3. StoreAt(chosen', n) = NextStore(chosen', StoreAt(chosen', n - 1), n)
    BY <1>5, StoreAtNext
  <2> QED  BY <2>1, <2>2, <2>3
<1>13. Effective(chosen', n) <=> e.kind # "Get"
  <2>1. \A j \in 1 .. n - 1 : chosen'[j].client = e.client => chosen'[j].seq < e.seq
    <3>1. \A j \in 1 .. n - 1 : j \in DOMAIN chosen' /\ j < n
      BY <1>5
    <3>2. n \in DOMAIN chosen'
      BY <1>5
    <3> QED  BY <1>0, <1>5, <3>1, <3>2 DEF LogsAreOrderly, Orderly
  <2> QED  BY <1>5, <2>1 DEF Effective
<1>14. Content' = IF e.kind # "Get" THEN Written(Content, e) ELSE Content
  BY <1>5, <1>12, <1>13 DEF NextStore
<1>15. AskedFor[c] = RequestOf(e) /\ AskedFor' = AskedFor /\ Answers' = Answers
  BY <1>3, <1>6, <1>7 DEF AskedFor, Answers
<1>16. Taken[c] = FALSE /\ Taken' = [Taken EXCEPT ![c] = TRUE]
  <2>1. Taken = [d \in Call |-> Taken[d]] /\ Taken' = [d \in Call |-> Taken'[d]]
    BY DEF Taken
  <2>2. Taken[c] = FALSE /\ Taken'[c] = TRUE
    BY <1>3, <1>6, <1>7, <1>9 DEF Taken
  <2>3. \A d \in Call \ {c} : Taken'[d] = Taken[d]
    BY <1>3, <1>10 DEF Taken
  <2> QED  BY <2>1, <2>2, <2>3
<1>17. Saw' = IF e.kind = "Get" THEN [Saw EXCEPT ![c] = Content[e.key]] ELSE Saw
  <2>1. Saw = [d \in Call |-> Saw[d]] /\ Saw' = [d \in Call |-> Saw'[d]]
    BY DEF Saw
  <2>2. Saw[c] = Empty
    BY <1>9 DEF Saw
  <2>3. Saw'[c] = IF e.kind = "Get" THEN Content[e.key] ELSE Empty
    <3>1. (CHOOSE i \in {n} : TRUE) = n
      OBVIOUS
    <3>2. StoreAt(chosen', n - 1) = Content
      BY <1>5, <1>11, <1>12
    <3>3. Saw'[c] = IF call'[c].op # NoCall /\ call'[c].op.kind = "Get" /\ IndexesOf(c)' # {}
                    THEN StoreAt(chosen', (CHOOSE i \in IndexesOf(c)' : TRUE) - 1)[call'[c].op.key]
                    ELSE Empty
      BY DEF Saw, StoreAfter
    <3>4. call'[c].op = e /\ e # NoCall /\ IndexesOf(c)' # {}
      BY <1>3, <1>6, <1>7, <1>9
    <3>5. (CHOOSE i \in IndexesOf(c)' : TRUE) = n
      BY <1>9, <3>1
    <3> QED  BY <3>2, <3>3, <3>4, <3>5
  <2>4. ASSUME NEW d \in Call, d # c PROVE Saw'[d] = Saw[d]
    <3>1. IndexesOf(d)' = IndexesOf(d)
      BY <1>10, <2>4
    <3>2. CASE IndexesOf(d) = {}
      BY <1>3, <3>1, <3>2 DEF Saw
    <3>3. ASSUME NEW i \in IndexesOf(d), i = CHOOSE j \in IndexesOf(d) : TRUE
          PROVE  Saw'[d] = Saw[d]
      <4>1. i - 1 \in Nat /\ i - 1 <= n - 1
        <5>1. i \in DOMAIN chosen
          BY DEF IndexesOf
        <5> QED  BY <1>5, <5>1
      <4>2. StoreAt(chosen', i - 1) = StoreAt(chosen, i - 1)
        BY <1>11, <4>1
      <4> QED  BY <1>3, <3>1, <3>3, <4>2 DEF Saw, StoreAfter
    <3> QED  BY <3>2, <3>3
  <2> QED  BY <2>1, <2>2, <2>3, <2>4
<1>18. Linearized!TakeEffect(c)
  <2>1. RequestOf(e).kind = e.kind /\ RequestOf(e).key = e.key /\ RequestOf(e).value = e.value
    BY DEF RequestOf
  <2>2. AskedFor[c] # NoCall /\ ~Taken[c] /\ UNCHANGED <<AskedFor, Answers>>
    BY <1>7, <1>15, <1>16
  <2>3. CASE e.kind = "Get"
    BY <1>14, <1>15, <1>16, <1>17, <2>1, <2>2, <2>3 DEF Linearized!TakeEffect
  <2>4. CASE e.kind = "Put"
    <3>1. Content' = [Content EXCEPT ![e.key] = e.value]
      BY <1>14, <2>4 DEF Written
    <3> QED  BY <1>15, <1>16, <1>17, <2>1, <2>2, <2>4, <3>1 DEF Linearized!TakeEffect
  <2>5. CASE e.kind = "Append"
    <3>1. Content' = [Content EXCEPT ![e.key] = Content[e.key] \o e.value]
      BY <1>14, <2>5 DEF Written
    <3> QED  BY <1>15, <1>16, <1>17, <2>1, <2>2, <2>5, <3>1 DEF Linearized!TakeEffect
  <2> QED  BY <1>7, <2>3, <2>4, <2>5 DEF Kind
<1> QED  BY <1>18

\* A step answers one call at most.
LEMMA OneAnswers ==
  ASSUME TypeOK, CallsAreNumbered, FuturesAreTrue, WaitersAreKept, PushedIsChosen,
         StoresAreApplied, [Next]_vars
  PROVE  \/ UNCHANGED Answers
         \/ \E c \in Call : \A d \in Call \ {c} :
              call'[d].err = call[d].err /\ call'[d].value = call[d].value
<1>0. call \in [Call -> CallState] /\ Empty \in Text
  BY DEF TypeOK, Empty, Text
<1>1. ASSUME NEW d \in Call, call'[d] = Broken(call[d])
      PROVE  call'[d].err = call[d].err /\ call'[d].value = call[d].value
  BY <1>0, <1>1, BrokenIs
<1>2. ASSUME NEW c \in Call, \A d \in Call \ {c} : call'[d] \in {call[d], Broken(call[d])}
      PROVE  \A d \in Call \ {c} : call'[d].err = call[d].err /\ call'[d].value = call[d].value
  BY <1>1, <1>2
<1>3. ASSUME NEW c \in Call, NEW s \in Server, NEW q \in Request, Receive(c, s, q)
      PROVE  \A d \in Call \ {c} : call'[d] \in {call[d], Broken(call[d])}
  BY <1>3, ReceiveDoes, ArrivesDoes
<1>4. ASSUME NEW c \in Call, Enter(c)
      PROVE  \A d \in Call \ {c} : call'[d] \in {call[d], Broken(call[d])}
  <2>1. call[c].stage = "numbered"
    BY <1>4 DEF Enter
  <2>2. CASE Submit(c)
    BY <2>1, <2>2, SubmitDoes
  <2>3. CASE Refused(c)
    BY <1>0, <2>3 DEF Refused
  <2>4. CASE Duplicate(c)
    BY <1>0, <2>4 DEF Duplicate
  <2> QED  BY <1>4, <2>2, <2>3, <2>4 DEF Enter
<1>5. ASSUME NEW c \in Call, NEW e \in {"OK", "ErrNoKey", "ErrWrongLeader"}, NEW v \in Text,
             call[c].stage = "waiting", Leave(c, Reply(call[c], e, v))
      PROVE  \A d \in Call \ {c} : call'[d] \in {call[d], Broken(call[d])}
  <2>1. Reply(call[c], e, v) \in CallState
    BY <1>0, ReplyIs
  <2> QED  BY <1>5, <2>1, LeaveDoes
<1>6. ASSUME NEW c \in Call, GiveUp(c)
      PROVE  \A d \in Call \ {c} : call'[d] \in {call[d], Broken(call[d])}
  BY <1>0, <1>5, <1>6 DEF GiveUp
<1>7. ASSUME NEW c \in Call, Finish(c)
      PROVE  \A d \in Call \ {c} : call'[d] \in {call[d], Broken(call[d])}
  <2>1. call[c].stage = "waiting" /\ call[c].future # "pending" /\ Leave(c, Outcome(c))
    BY <1>7 DEF Finish
  <2>2. PICK e \in {"OK", "ErrNoKey", "ErrWrongLeader"}, v \in Text : Outcome(c) = Reply(call[c], e, v)
    BY <1>0, <2>1, OutcomeIs, AnswerIs
  <2> QED  BY <1>5, <2>1, <2>2
<1>8. ASSUME NEW s \in Server, Apply(s) PROVE UNCHANGED Answers
  <2>1. PICK g : \A d \in Call : call'[d] \in {call[d], Told(call[d], g)}
    BY <1>8, ApplyDoes
  <2>2. \A d \in Call : call'[d].err = call[d].err /\ call'[d].value = call[d].value
    BY <1>0, <2>1, ToldIs
  <2> QED  BY <2>2 DEF Answers
<1>9. ASSUME UNCHANGED call PROVE UNCHANGED Answers
  BY <1>9 DEF Answers
<1> QED  BY <1>2, <1>3, <1>4, <1>6, <1>7, <1>8, <1>9 DEF Next, Handler, Raft, kvVars, vars

\* What a thread does is to answer its call, to refuse it, or nothing.
LEMMA MovingTells ==
  ASSUME InOrder, KVInv, chosen' = chosen, CallsMove, NEW c \in Call,
         \A d \in Call \ {c} : call'[d].err = call[d].err /\ call'[d].value = call[d].value
  PROVE  Linearized!Tell(c) \/ Linearized!Refuse(c) \/ UNCHANGED Linearized!vars
<1>0. /\ TypeOK /\ CallsAreNumbered /\ LogsAreOrderly /\ PushedIsChosen /\ FuturesAreTrue
      /\ StoresAreApplied /\ NumberedIsLast
  BY DEF KVInv
<1>1. call[c] \in CallState /\ CallMoves(c) /\ Empty \in Text
  BY <1>0 DEF TypeOK, CallsMove, Empty, Text
<1>2. Content' = Content /\ AskedFor' = AskedFor /\ Taken' = Taken /\ Saw' = Saw
  <2>1. \A d \in Call : AskedFor'[d] = AskedFor[d] /\ Taken'[d] = Taken[d] /\ Saw'[d] = Saw[d]
    BY <1>0, MovesAre, OldCalls
  <2>2. AskedFor = [d \in Call |-> AskedFor[d]] /\ AskedFor' = [d \in Call |-> AskedFor'[d]]
    BY DEF AskedFor
  <2>3. Taken = [d \in Call |-> Taken[d]] /\ Taken' = [d \in Call |-> Taken'[d]]
    BY DEF Taken
  <2>4. Saw = [d \in Call |-> Saw[d]] /\ Saw' = [d \in Call |-> Saw'[d]]
    BY DEF Saw
  <2>5. Content' = Content
    BY DEF Content, StoreAfter
  <2> QED  BY <2>1, <2>2, <2>3, <2>4, <2>5
<1>3. CASE call'[c].err = call[c].err /\ call'[c].value = call[c].value
  <2>1. Answers' = Answers
    BY <1>3 DEF Answers
  <2> QED  BY <1>2, <2>1 DEF Linearized!vars
<1>4. ASSUME NEW e \in {"OK", "ErrNoKey", "ErrWrongLeader"}, NEW v \in Text,
             call[c].stage \in {"numbered", "waiting"}, call'[c] = Reply(call[c], e, v)
      PROVE  /\ Answers[c] = Linearized!Silence
             /\ Answers' = [Answers EXCEPT ![c] = [err |-> e, value |-> v]]
  <2>1. call[c].err = "" /\ call[c].value = Empty
    BY <1>0, <1>4 DEF CallsAreNumbered
  <2>2. Answers[c] = Linearized!Silence
    BY <2>1 DEF Answers, Linearized!Silence, Empty
  <2>3. call'[c].err = e /\ call'[c].value = v
    <3>1. PICK r \in CallState : r = call[c]
      BY <1>1
    <3>2. Reply(r, e, v).err = e /\ Reply(r, e, v).value = v
      BY ReplyIs
    <3> QED  BY <1>4, <3>1, <3>2
  <2>4. Answers' = [Answers EXCEPT ![c] = [err |-> e, value |-> v]]
    BY <2>3 DEF Answers
  <2> QED  BY <2>2, <2>4
<1>5. ASSUME call[c].stage \in {"numbered", "waiting"}
      PROVE  /\ call[c].op # NoCall /\ call[c].op \in Op /\ AskedFor[c] = RequestOf(call[c].op)
             /\ AskedFor[c] # NoCall
  <2>1. call[c].op \in Op
    BY <1>0, <1>5 DEF CallsAreNumbered, Made
  <2>2. call[c].op # NoCall /\ AskedFor[c] = RequestOf(call[c].op)
    BY <2>1, RequestAssumption DEF AskedFor
  <2>3. RequestOf(call[c].op) # NoCall
    <3>1. call[c].op.kind \in Kind /\ call[c].op.key \in Key /\ call[c].op.value \in Text
      BY <2>1, RequestAssumption DEF Op
    <3> QED  BY <3>1, RequestAssumption DEF RequestOf
  <2> QED  BY <2>1, <2>2, <2>3
<1>6. CASE /\ call[c].stage \in {"numbered", "waiting"}
           /\ call'[c] = Reply(call[c], "ErrWrongLeader", Empty)
  <2>1. /\ Answers[c] = Linearized!Silence
        /\ Answers' = [Answers EXCEPT ![c] = [err |-> "ErrWrongLeader", value |-> Empty]]
    BY <1>1, <1>4, <1>6
  <2>2. Linearized!Refuse(c)
    BY <1>2, <1>5, <1>6, <2>1 DEF Linearized!Refuse, Empty
  <2> QED  BY <2>2
<1>7. CASE /\ call[c].stage = "waiting" /\ call[c].future = "set" /\ Own(c, call[c].got)
           /\ call'[c] = Answer(call[c])
  <2>1. PICK i \in DOMAIN chosen :
          i \in IndexesOf(c) /\ chosen[i] = call[c].op /\ Tells(call[c].got, i)
    BY <1>0, <1>7, AnsweredFrom
  <2>2. Taken[c]
    BY <1>5, <1>7, <2>1 DEF Taken
  <2>3. AskedFor[c].kind = call[c].op.kind
    BY <1>5, <1>7 DEF RequestOf
  <2>4. CASE call[c].op.kind # "Get"
    <3>1. call'[c] = Reply(call[c], "OK", Empty)
      BY <1>7, <2>4 DEF Answer
    <3>2. Saw[c] = Empty
      BY <2>4 DEF Saw
    <3>3. /\ Answers[c] = Linearized!Silence
          /\ Answers' = [Answers EXCEPT ![c] = [err |-> "OK", value |-> Empty]]
      BY <1>1, <1>4, <1>7, <3>1
    <3> QED  BY <1>2, <2>2, <2>3, <2>4, <3>2, <3>3 DEF Linearized!Tell
  <2>5. CASE call[c].op.kind = "Get"
    <3> DEFINE v == call[c].got.value
               e == IF v = Empty THEN "ErrNoKey" ELSE "OK"
    <3>1. v \in Text /\ e \in {"OK", "ErrNoKey", "ErrWrongLeader"}
      BY <1>0, <1>7 DEF FuturesAreTrue, AppliedOp
    <3>2. call'[c] = Reply(call[c], e, v)
      BY <1>7, <2>5 DEF Answer
    <3>3. Saw[c] = v
      BY <1>0, <1>5, <1>7, <2>1, <2>5, SawIs DEF Tells
    <3>4. /\ Answers[c] = Linearized!Silence
          /\ Answers' = [Answers EXCEPT ![c] = [err |-> e, value |-> v]]
      <4> HIDE DEF e, v
      <4> QED  BY <1>4, <1>7, <3>1, <3>2
    <3>5. [err |-> e, value |-> v] = IF AskedFor[c].kind = "Get" /\ Saw[c] = << >>
                                     THEN [err |-> "ErrNoKey", value |-> << >>]
                                     ELSE [err |-> "OK", value |-> Saw[c]]
      BY <2>3, <2>5, <3>3 DEF Empty
    <3> HIDE DEF e, v
    <3> QED  BY <1>2, <2>2, <3>4, <3>5 DEF Linearized!Tell
  <2> QED  BY <2>4, <2>5
<1>8. CASE call[c].stage = "numbered" /\ Seen(call[c].node, call[c].op)
  BY <1>0, <1>8, NoDuplicates
<1>9. ASSUME call'[c] = Broken(call[c]) \/ \E g : call'[c] = Told(call[c], g)
      PROVE  call'[c].err = call[c].err /\ call'[c].value = call[c].value
  BY <1>1, <1>9, BrokenIs, ToldIs
<1>10. ASSUME NEW i \in 1 .. MaxLen, call'[c] = Waiting(call[c], i)
       PROVE  call'[c].err = call[c].err /\ call'[c].value = call[c].value
  BY <1>1, <1>10, WaitingIs
<1> QED  BY <1>1, <1>3, <1>6, <1>7, <1>8, <1>9, <1>10 DEF CallMoves

LEMMA InitLinear == ASSUME Init PROVE Linearized!Init
<1>1. chosen = << >> /\ call = [c \in Call |-> IdleCall]
  BY DEF Init, LogInit
<1>2. \A c \in Call : /\ call[c].op = NoCall /\ call[c].err = "" /\ call[c].value = Empty
  BY <1>1, IdleIs
<1>3. Content = Empties
  BY <1>1, StoreAtNone DEF Content, StoreAfter
<1>4. /\ AskedFor = [c \in Call |-> NoCall] /\ Taken = [c \in Call |-> FALSE]
      /\ Saw = [c \in Call |-> Empty]
  BY <1>2 DEF AskedFor, Taken, Saw
<1>5. Answers = [c \in Call |-> Linearized!Silence]
  BY <1>2 DEF Answers, Linearized!Silence, Empty
<1> QED  BY <1>3, <1>4, <1>5 DEF Linearized!Init, Empties, Empty, Key

LEMMA StepLinear ==
  ASSUME InOrder, KVInv, KVInv', [Next]_vars
  PROVE  [Linearized!Next]_(Linearized!vars)
<1>0. /\ TypeOK /\ CallsAreNumbered /\ LogsAreOrderly /\ PushedIsChosen /\ FuturesAreTrue
      /\ StoresAreApplied /\ WaitersAreKept
  BY DEF KVInv
<1>1. CASE chosen' # chosen
  BY <1>1, ChoosingTakes DEF Linearized!Next
<1>2. ASSUME chosen' = chosen, NEW c \in Call, NEW o \in Op, Arrives(c, o)
      PROVE  Linearized!Next
  <2>1. Linearized!Ask(c, RequestOf(o)) /\ RequestOf(o) \in Request
    BY <1>2, ReceiveAsks DEF Arrives
  <2> QED  BY <2>1 DEF Linearized!Next
<1>3. ASSUME chosen' = chosen, CallsMove PROVE [Linearized!Next]_(Linearized!vars)
  <2>1. ASSUME NEW c \in Call, \A d \in Call \ {c} :
                 call'[d].err = call[d].err /\ call'[d].value = call[d].value
        PROVE  [Linearized!Next]_(Linearized!vars)
    BY <1>3, <2>1, MovingTells DEF Linearized!Next
  <2>2. CASE UNCHANGED Answers
    <3>1. CASE Call = {}
      BY <1>3, <2>2, <3>1 DEF Linearized!vars, Content, AskedFor, Taken, Saw, StoreAfter
    <3>2. CASE Call # {}
      <4>1. PICK c \in Call : TRUE
        BY <3>2
      <4>2. \A d \in Call : Answers'[d] = Answers[d]
        BY <2>2
      <4>3. \A d \in Call : call'[d].err = call[d].err /\ call'[d].value = call[d].value
        BY <4>2 DEF Answers
      <4> QED  BY <2>1, <4>1, <4>3
    <3> QED  BY <3>1, <3>2
  <2> QED  BY <1>0, <2>1, <2>2, OneAnswers
<1> QED  BY <1>0, <1>1, <1>2, <1>3, CallsStep

\* Linearizable: the servers are one store whose calls take effect one at a time, if
\* the calls of a server lock m_mu in the order of their numbers (kvserver.cpp does
\* not see to it: run kv_order finds an acknowledged write lost).
THEOREM ServersAreLinearizable == ASSUME InOrder PROVE Spec => Linearizable
<1>1. Init => Linearized!Init
  BY InitLinear
<1>2. KVInv /\ KVInv' /\ [Next]_vars => [Linearized!Next]_(Linearized!vars)
  BY StepLinear
<1> QED  BY <1>1, <1>2, KVInvariant, PTL DEF Spec, Linearizable, Linearized!Spec
=============================================================================
