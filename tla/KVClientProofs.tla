--------------------------- MODULE KVClientProofs ---------------------------
(***************************************************************************)
(* The facts of KVClientInductive hold in every reachable state, and with  *)
(* them what KVClient says of the answers of get and put, for any number   *)
(* of servers, HTTP threads, requests and rounds.                          *)
(***************************************************************************)
EXTENDS KVClientInductive, KVProofs

LEMMA Stubs ==
  /\ Cardinality(Server) \in Nat \ {0} /\ MaxTries \in Nat \ {0} /\ 0 \in Server
  /\ \A x \in Nat : x % Cardinality(Server) \in Server
  /\ \A s \in Server : s \in Nat
<1>1. Cardinality(Server) \in Nat /\ Cardinality(Server) # 0
  BY StubAssumption, FS_CardinalityType, FS_EmptySet
<1>2. \A n \in Nat \ {0} : \A x \in Nat : x % n \in 0 .. n - 1
  OBVIOUS
<1>3. \A n \in Nat \ {0} : \A x \in Nat \ {0} : x * n \in Nat \ {0}
  OBVIOUS
<1>4. MaxTries \in Nat \ {0}
  BY <1>1, <1>3, PlanAssumption DEF MaxTries
<1>5. \A x \in Nat : x % Cardinality(Server) \in Server
  BY <1>1, <1>2, StubAssumption
<1>6. 0 \in Server /\ \A s \in Server : s \in Nat
  BY <1>1, StubAssumption
<1> QED  BY <1>1, <1>4, <1>5, <1>6

LEMMA CallsAreTries ==
  /\ \A j \in Job, k \in 1 .. MaxTries : <<j, k>> \in Call
  /\ \A c \in Call : \E j \in Job, k \in 1 .. MaxTries : c = <<j, k>>
BY PlanAssumption

\* What a request of job j asks does not change once it has begun.
LEMMA AskedSame ==
  ASSUME NEW j \in Job, \A i \in Before(j) : request'[i].ok = request[i].ok
  PROVE  Asked(j)' = Asked(j)
BY DEF Asked, Before

LEMMA AskedIs == ASSUME NEW j \in Job PROVE Asked(j) \in Request
<1>1. (\A i \in Before(j) : i[2] = j[2] - 1 => request[i].ok) \in BOOLEAN
  OBVIOUS
<1> QED  BY <1>1, PlanAssumption DEF Asked

-----------------------------------------------------------------------------
(* Steps.                                                                  *)

LEMMA ClientStep ==
  ASSUME RequestTypes, [ClientNext]_allVars
  PROVE  ThreadGoesOn \/ (\E j \in Job : TryArrives(j)) \/ ServersGoOn
<1>1. CASE UNCHANGED allVars
  BY <1>1 DEF allVars, clientVars, ServersGoOn, vars, kvVars
<1>2. ASSUME NEW j \in Job, Begin(j) PROVE ThreadGoesOn
  <2> DEFINE n == [request[j] EXCEPT !.stage = "asking", !.since = Len(chosen)]
  <2>1. UNCHANGED <<vars, leaderHint>> /\ Begun(j, n)
    BY <1>2 DEF Begin, Begun
  <2>2. request' = [request EXCEPT ![j] = n]
    BY <1>2 DEF Begin
  <2> QED  BY <2>1, <2>2 DEF ThreadGoesOn, RequestTypes
<1>3. ASSUME NEW j \in Job, Send(j) PROVE ThreadGoesOn
  <2> DEFINE attempt == request[j].tried % Cardinality(Server)
             s == (leaderHint + attempt) % Cardinality(Server)
             n == [request[j] EXCEPT !.stage = "sent", !.idx = s]
  <2>1. UNCHANGED <<vars, leaderHint>> /\ request[j].stage = "asking"
    BY <1>3 DEF Send
  <2>2. request' = [request EXCEPT ![j] = n]
    BY <1>3 DEF Send
  <2>3. s \in Server
    <3>1. request[j].tried \in Nat /\ leaderHint \in Server
      BY Stubs DEF RequestTypes, RequestState
    <3>2. attempt \in Nat /\ leaderHint \in Nat
      BY <3>1, Stubs
    <3> HIDE DEF attempt
    <3>3. leaderHint + attempt \in Nat
      BY <3>2
    <3> QED  BY <3>3, Stubs
  <2> HIDE DEF s
  <2>4. Sent(j, n)
    BY <2>1, <2>3 DEF Sent
  <2> QED  BY <2>1, <2>2, <2>4 DEF ThreadGoesOn, RequestTypes
<1>4. ASSUME NEW j \in Job, Arrive(j) PROVE TryArrives(j)
  BY <1>4 DEF Arrive, TryArrives
<1>5. ASSUME NEW j \in Job, TurnedAway(j) \/ Disconnected(j) PROVE ThreadGoesOn
  <2>1. UNCHANGED <<vars, leaderHint>> /\ request[j].stage \in {"sent", "received"}
    BY <1>5 DEF TurnedAway, Disconnected
  <2>2. CASE TurnedAway(j)
    <3> DEFINE n == [Continued(request[j]) EXCEPT !.cut = request[j].cut \/ FALSE]
    <3>1. request' = [request EXCEPT ![j] = Continued(request[j])] /\ request[j].stage = "sent"
      BY <2>2 DEF TurnedAway
    <3>2. n = Continued(request[j])
      <4>1. request[j] \in RequestState
        BY DEF RequestTypes
      <4> QED  BY <4>1 DEF Continued, RequestState
    <3>3. Over(j, n)
      BY <2>1, <3>1 DEF Over
    <3> HIDE DEF n
    <3> QED  BY <2>1, <3>1, <3>2, <3>3 DEF ThreadGoesOn, RequestTypes
  <2>3. CASE Disconnected(j)
    <3> DEFINE cut == request[j].stage = "received"
               n == [Continued(request[j]) EXCEPT !.cut = request[j].cut \/ cut]
    <3>1. request' = [request EXCEPT ![j] = n]
      BY <2>3 DEF Disconnected
    <3>2. Over(j, n)
      BY <2>1 DEF Over
    <3> HIDE DEF n
    <3> QED  BY <2>1, <3>1, <3>2 DEF ThreadGoesOn, RequestTypes
  <2> QED  BY <1>5, <2>2, <2>3
<1>6. ASSUME NEW j \in Job, Answered(j) PROVE ThreadGoesOn
  <2>1. UNCHANGED vars /\ request[j].stage = "received" /\ call[ThisTry(j)].stage = "answered"
    BY <1>6 DEF Answered
  <2>2. CASE Definitive(ThisTry(j))
    <3> DEFINE n == [request[j] EXCEPT !.stage = "returned", !.ok = TRUE,
                                       !.value = call[ThisTry(j)].value]
    <3>1. leaderHint' = request[j].idx /\ request' = [request EXCEPT ![j] = n]
      BY <1>6, <2>2 DEF Answered
    <3>2. leaderHint' \in Server
      BY <3>1 DEF RequestTypes, RequestState
    <3>3. GotAnswer(j, n)
      BY <2>1, <2>2 DEF GotAnswer
    <3> QED  BY <2>1, <3>1, <3>2, <3>3 DEF ThreadGoesOn
  <2>3. CASE ~Definitive(ThisTry(j))
    <3> DEFINE n == [Continued(request[j]) EXCEPT !.cut = request[j].cut \/ FALSE]
    <3>1. leaderHint' = leaderHint /\ request' = [request EXCEPT ![j] = Continued(request[j])]
      BY <1>6, <2>3 DEF Answered
    <3>2. n = Continued(request[j])
      <4>1. request[j] \in RequestState
        BY DEF RequestTypes
      <4> QED  BY <4>1 DEF Continued, RequestState
    <3>3. Over(j, n)
      BY <2>1 DEF Over
    <3> HIDE DEF n
    <3> QED  BY <2>1, <3>1, <3>2, <3>3 DEF ThreadGoesOn, RequestTypes
  <2> QED  BY <2>2, <2>3
<1>7. CASE Handlers
  <2>1. PICK c \in Call : Handler(c) /\ UNCHANGED clientVars
    BY <1>7 DEF Handlers
  <2>2. seq' = seq
    <3>1. CASE Enter(c)
      BY <3>1 DEF Enter, Refused, Duplicate, Submit
    <3>2. CASE Finish(c) \/ GiveUp(c)
      BY <3>2 DEF Finish, GiveUp, Leave
    <3> QED  BY <2>1, <3>1, <3>2 DEF Handler
  <2> QED  BY <2>1, <2>2 DEF ServersGoOn, Next, clientVars
<1>8. CASE (\E s \in Server : Apply(s) \/ Raft(s)) /\ UNCHANGED clientVars
  <2>1. PICK s \in Server : Apply(s) \/ Raft(s)
    BY <1>8
  <2>2. seq' = seq
    BY <2>1 DEF Apply, Raft, kvVars
  <2> QED  BY <1>8, <2>1, <2>2 DEF ServersGoOn, Next, clientVars
<1> QED  BY <1>1, <1>2, <1>3, <1>4, <1>5, <1>6, <1>7, <1>8 DEF ClientNext, Try

\* What becomes of a request whose thread goes on.
LEMMA MovedIs ==
  ASSUME TypeOK, RequestTypes, TriesAreCalls, NEW j \in Job, NEW n,
         Begun(j, n) \/ Sent(j, n) \/ Over(j, n) \/ GotAnswer(j, n)
  PROVE  LET r == request[j]
         IN /\ n \in RequestState /\ r.tried \in Nat /\ n.tried \in Nat
            /\ n.stage # "none" /\ r.stage # "returned" /\ ~r.ok
            /\ n.ok => n.stage = "returned"
            /\ n.stage \in {"asking", "sent", "received"} \/ n.ok => n.tried < MaxTries
            /\ \A i \in Before(j) : request[i].stage = "returned"
            /\ ~n.cut => ~r.cut
            /\ r.tried <= n.tried /\ (Trying(r) <= n.tried \/ Trying(r) = Trying(n))
            /\ ~n.cut => \A k \in 1 .. MaxTries : k <= n.tried =>
                 k <= r.tried \/ (k = r.tried + 1 /\ (r.stage = "sent" \/ call[ThisTry(j)].stage = "answered"))
            /\ n.since = r.since \/ (r.stage = "none" /\ n.since = Len(chosen))
            /\ n.ok => /\ n.tried = r.tried /\ call[ThisTry(j)].stage = "answered"
                       /\ Definitive(ThisTry(j)) /\ n.value = call[ThisTry(j)].value
<1> DEFINE r == request[j]
<1>1. r \in RequestState /\ MaxTries \in Nat \ {0}
  BY Stubs DEF RequestTypes
<1>2. /\ r.stage \in {"asking", "sent", "received"} \/ r.ok => r.tried < MaxTries
      /\ r.ok => r.stage = "returned"
      /\ r.stage = "none" => r.tried = 0
      /\ r.stage # "none" => \A i \in Before(j) : request[i].stage = "returned"
  BY DEF TriesAreCalls, OwnCalls
<1>3. chosen \in Seq(Op) /\ Len(chosen) \in Nat
  BY DEF TypeOK
<1>4. CASE Begun(j, n)
  <2>1. /\ r.stage = "none" /\ \A i \in Before(j) : request[i].stage = "returned"
        /\ n = [r EXCEPT !.stage = "asking", !.since = Len(chosen)]
    BY <1>4 DEF Begun
  <2>2. n \in RequestState
    BY <1>1, <1>3, <2>1 DEF RequestState
  <2>3. /\ n.stage = "asking" /\ n.since = Len(chosen) /\ n.tried = r.tried /\ n.ok = r.ok
        /\ n.cut = r.cut
    BY <1>1, <2>1 DEF RequestState
  <2>4. r.tried = 0 /\ ~r.ok
    BY <1>1, <1>2, <2>1 DEF RequestState
  <2> HIDE DEF r
  <2>5. Trying(r) = 0 /\ Trying(n) = 0
    BY <2>1, <2>3, <2>4 DEF Trying
  <2> QED  BY <1>1, <2>1, <2>2, <2>3, <2>4, <2>5 DEF r
<1>5. CASE Sent(j, n)
  <2>1. PICK s \in Server : r.stage = "asking" /\ n = [r EXCEPT !.stage = "sent", !.idx = s]
    BY <1>5 DEF Sent
  <2>2. n \in RequestState
    BY <1>1, <2>1 DEF RequestState
  <2>3. /\ n.stage = "sent" /\ n.since = r.since /\ n.tried = r.tried /\ n.ok = r.ok
        /\ n.cut = r.cut
    BY <1>1, <2>1 DEF RequestState
  <2>4. r.tried \in Nat /\ r.tried < MaxTries /\ ~r.ok
    BY <1>1, <1>2, <2>1 DEF RequestState
  <2>5. \A i \in Before(j) : request[i].stage = "returned"
    BY <1>2, <2>1
  <2> HIDE DEF r
  <2>6. Trying(r) = 0 /\ Trying(n) = 0
    BY <2>1, <2>3, <2>4 DEF Trying
  <2> QED  BY <1>1, <2>1, <2>2, <2>3, <2>4, <2>5, <2>6 DEF r
<1>6. CASE Over(j, n)
  <2>1. PICK cut \in BOOLEAN :
          /\ r.stage \in {"sent", "received"}
          /\ n = [Continued(r) EXCEPT !.cut = r.cut \/ cut]
          /\ r.stage = "received" => cut \/ call[ThisTry(j)].stage = "answered"
    BY <1>6 DEF Over
  <2>2. r.tried \in Nat /\ r.tried < MaxTries /\ ~r.ok
    BY <1>1, <1>2, <2>1 DEF RequestState
  <2>3. /\ n.tried = r.tried + 1 /\ n.ok = r.ok /\ n.since = r.since
        /\ n.cut = (r.cut \/ cut)
        /\ n.stage = IF r.tried + 1 < MaxTries THEN "asking" ELSE "returned"
    BY <1>1, <2>1 DEF RequestState, Continued
  <2>4. n \in RequestState
    <3> DEFINE t == r.tried + 1
               g == IF t < MaxTries THEN "asking" ELSE "returned"
    <3>0. t \in 0 .. MaxTries /\ g \in {"none", "asking", "sent", "received", "returned"}
      BY <1>1, <2>2
    <3>1. Continued(r) \in RequestState
      <4>1. Continued(r) = [r EXCEPT !.tried = t, !.stage = g]
        BY DEF Continued
      <4> HIDE DEF t, g, r
      <4> QED  BY <1>1, <3>0, <4>1 DEF RequestState
    <3>2. (r.cut \/ cut) \in BOOLEAN
      OBVIOUS
    <3> HIDE DEF r
    <3> QED  BY <2>1, <3>1, <3>2 DEF RequestState
  <2>5. \A i \in Before(j) : request[i].stage = "returned"
    BY <1>2, <2>1
  <2> HIDE DEF r
  <2>6. Trying(r) <= n.tried
    BY <2>2, <2>3 DEF Trying
  <2>7. \A k \in 1 .. MaxTries : k <= n.tried => k <= r.tried \/ k = r.tried + 1
    BY <1>1, <2>2, <2>3
  <2>8. ~n.cut => r.stage = "sent" \/ call[ThisTry(j)].stage = "answered"
    BY <2>1, <2>3
  <2>9. ~n.ok /\ r.tried <= n.tried /\ n.tried \in Nat
        /\ (n.stage \in {"asking", "sent", "received"} => n.tried < MaxTries)
        /\ n.stage # "none"
    BY <1>1, <2>2, <2>3
  <2> QED  BY <1>1, <2>1, <2>2, <2>3, <2>4, <2>5, <2>6, <2>7, <2>8, <2>9 DEF r
<1>7. CASE GotAnswer(j, n)
  <2>1. /\ r.stage = "received" /\ call[ThisTry(j)].stage = "answered" /\ Definitive(ThisTry(j))
        /\ n = [r EXCEPT !.stage = "returned", !.ok = TRUE, !.value = call[ThisTry(j)].value]
    BY <1>7 DEF GotAnswer
  <2>2. call[ThisTry(j)].value \in Text
    <3>1. ThisTry(j) \in Call
      BY <1>1, <1>2, <2>1, CallsAreTries DEF ThisTry, RequestState
    <3> QED  BY <3>1 DEF TypeOK, CallState
  <2>3. n \in RequestState
    BY <1>1, <2>1, <2>2 DEF RequestState
  <2>4. /\ n.stage = "returned" /\ n.since = r.since /\ n.tried = r.tried /\ n.ok
        /\ n.cut = r.cut /\ n.value = call[ThisTry(j)].value
    BY <1>1, <2>1 DEF RequestState
  <2>5. r.tried \in Nat /\ r.tried < MaxTries /\ ~r.ok
    BY <1>1, <1>2, <2>1 DEF RequestState
  <2>6. \A i \in Before(j) : request[i].stage = "returned"
    BY <1>2, <2>1
  <2> HIDE DEF r
  <2>7. Trying(r) = Trying(n)
    BY <2>1, <2>4 DEF Trying
  <2> QED  BY <1>1, <2>1, <2>3, <2>4, <2>5, <2>6, <2>7 DEF r
<1> QED  BY <1>4, <1>5, <1>6, <1>7

\* The calls that a step of the servers, or an arrival, makes and changes.
LEMMA CallsOf ==
  ASSUME KVInv, ServersGoOn
  PROVE  /\ CallsMove
         /\ \A c \in Call : /\ call'[c].op = call[c].op /\ (Made(c)' <=> Made(c))
                            /\ call[c].stage \in {"idle", "answered"} => call'[c] = call[c]
<1>1. [Next]_vars /\ seq' = seq
  BY DEF ServersGoOn
<1>2. CallsMove \/ \E c \in Call, o \in Op : Arrives(c, o)
  BY <1>1, CallsStep DEF KVInv
<1>3. ASSUME NEW c \in Call, NEW o \in Op, Arrives(c, o) PROVE FALSE
  <2>1. o.client \in Server /\ o.seq = seq[o.client] + 1 /\ seq'[o.client] = o.seq /\ seq[o.client] \in Nat
    BY <1>3, ArrivesDoes, NumberType DEF KVInv
  <2> QED  BY <1>1, <2>1
<1>4. CallsMove
  BY <1>2, <1>3
<1>5. ASSUME NEW c \in Call
      PROVE  /\ call'[c].op = call[c].op /\ (Made(c)' <=> Made(c))
             /\ call[c].stage \in {"idle", "answered"} => call'[c] = call[c]
  <2>1. /\ call[c] \in CallState /\ call'[c].op = call[c].op
        /\ call[c].stage \in {"idle", "answered"} => call'[c] = call[c]
        /\ call[c].stage = "numbered" => call'[c] = call[c] \/ call'[c].stage \in {"waiting", "answered"}
        /\ call[c].stage = "waiting" => call'[c].stage \in {"waiting", "answered"}
    BY <1>4, MovesAre DEF KVInv
  <2> QED  BY <2>1 DEF Made, CallState
<1> QED  BY <1>4, <1>5

LEMMA ArrivalDoes ==
  ASSUME KVInv, RequestTypes, TriesAreCalls, NEW j \in Job, TryArrives(j)
  PROVE  /\ ThisTry(j) \in Call /\ ~Made(ThisTry(j))
         /\ UNCHANGED raftVars /\ [Next]_vars
         /\ \E o \in Op : Arrives(ThisTry(j), o) /\ call'[ThisTry(j)].op = o /\ RequestOf(o) = Asked(j)
         /\ \A c \in Call : c # ThisTry(j) => call'[c] = call[c]
         /\ call'[ThisTry(j)].stage = "numbered"
<1> DEFINE c == ThisTry(j)
           s == request[j].idx
           q == Asked(j)
<1>1. request[j] \in RequestState /\ request[j].stage = "sent" /\ request[j].tried < MaxTries
  BY DEF RequestTypes, TryArrives, TriesAreCalls, OwnCalls
<1>2. c \in Call /\ s \in Server /\ q \in Request
  BY <1>1, Stubs, CallsAreTries, AskedIs DEF ThisTry, RequestState
<1>3. Receive(c, s, q)
  BY DEF TryArrives
<1> HIDE DEF c, s, q
<1>4. UNCHANGED raftVars /\ [Next]_vars
  BY <1>2, <1>3 DEF Receive, Next
<1>5. PICK o \in Op : Arrives(c, o) /\ o.kind = q.kind /\ o.key = q.key /\ o.value = q.value
  BY <1>2, <1>3, ReceiveDoes DEF KVInv
<1>6. RequestOf(o) = q
  <2>1. q = [kind |-> q.kind, key |-> q.key, value |-> q.value]
    BY <1>2, RequestAssumption
  <2> QED  BY <1>5, <2>1 DEF RequestOf
<1>7. /\ call[c].stage = "idle" /\ call'[c] = NumberedCall(o)
      /\ \A d \in Call \ {c} : call'[d] = call[d]
  BY <1>2, <1>5, ArrivesDoes DEF KVInv
<1>8. call'[c].stage = "numbered" /\ call'[c].op = o
  BY <1>7, NumberedIs
<1>9. ~Made(c)
  BY <1>7 DEF Made
<1> QED  BY <1>2, <1>4, <1>5, <1>6, <1>7, <1>8, <1>9 DEF c, q

-----------------------------------------------------------------------------
(* The invariant holds at first, and every step keeps it.                  *)

LEMMA InitClient == ASSUME ClientInit PROVE ClientInv
<1>1. /\ Init /\ leaderHint = 0 /\ request = [j \in Job |-> NoRequest]
      /\ call = [c \in Call |-> IdleCall] /\ chosen = << >> /\ started = {}
      /\ log = [s \in Server |-> << >>]
  BY DEF ClientInit, Init, LogInit
<1>2. KVInv
  BY <1>1, InitKV
<1>3. RequestTypes
  <2>1. NoRequest \in RequestState
    <3>1. 0 \in 0 .. MaxTries /\ 0 \in Server /\ Empty \in Text
      BY Stubs DEF Empty, Text
    <3> QED  BY <3>1 DEF NoRequest, RequestState
  <2> QED  BY <1>1, <2>1, Stubs DEF RequestTypes
<1>4. ASSUME NEW j \in Job
      PROVE  /\ request[j].stage = "none" /\ request[j].tried = 0 /\ ~request[j].ok
             /\ request[j].since = 0
  BY <1>1 DEF NoRequest
<1>5. \A j \in Job, k \in 1 .. MaxTries : ~Made(<<j, k>>)
  BY <1>1, CallsAreTries, IdleIs DEF Made
<1>6. TriesAreCalls
  <2>1. \A j \in Job, k \in 1 .. MaxTries : call[<<j, k>>].stage = "idle"
    BY <1>5 DEF Made
  <2> QED  BY <1>4, <1>5, <2>1 DEF TriesAreCalls, OwnCalls
<1>7. DOMAIN chosen = {} /\ Len(chosen) = 0
  BY <1>1
<1>8. TriesAreLater /\ AnswersAreTold
  BY <1>4, <1>7 DEF TriesAreLater, AnswersAreTold
<1>9. TriesInOrder(<< >>, call, request)
  BY DEF TriesInOrder
<1>10. LogsHaveTriesInOrder
  BY <1>1, <1>9 DEF LogsHaveTriesInOrder
<1> QED  BY <1>2, <1>3, <1>6, <1>8, <1>10 DEF ClientInv

\* To the servers, every step of the client is one of theirs.
LEMMA ServersStep ==
  ASSUME KVInv, RequestTypes, TriesAreCalls, [ClientNext]_allVars
  PROVE  [Next]_vars
<1>1. CASE ThreadGoesOn
  BY <1>1 DEF ThreadGoesOn
<1>2. CASE \E j \in Job : TryArrives(j)
  BY <1>2, ArrivalDoes
<1>3. CASE ServersGoOn
  BY <1>3 DEF ServersGoOn
<1> QED  BY <1>1, <1>2, <1>3, ClientStep

\* One request at most changes in a step, one that has not returned.
LEMMA RequestsStep ==
  ASSUME KVInv, RequestTypes, TriesAreCalls, [ClientNext]_allVars
  PROVE  /\ RequestTypes'
         /\ \/ request' = request
            \/ \E j \in Job : /\ request[j].stage # "returned"
                              /\ \A i \in Before(j) : request[i].stage = "returned"
                              /\ \A i \in Job : i # j => request'[i] = request[i]
<1>0. TypeOK
  BY DEF KVInv
<1>1. CASE ThreadGoesOn
  <2>0. PICK j \in Job : \E n :
          /\ Begun(j, n) \/ Sent(j, n) \/ Over(j, n) \/ GotAnswer(j, n)
          /\ request' = [request EXCEPT ![j] = n]
    BY <1>1 DEF ThreadGoesOn
  <2>1. PICK n :
          /\ Begun(j, n) \/ Sent(j, n) \/ Over(j, n) \/ GotAnswer(j, n)
          /\ request' = [request EXCEPT ![j] = n]
    BY <2>0
  <2>2. /\ n \in RequestState /\ request[j].stage # "returned"
        /\ \A i \in Before(j) : request[i].stage = "returned"
    BY <1>0, <2>1, MovedIs
  <2>3. RequestTypes' /\ \A i \in Job : i # j => request'[i] = request[i]
    BY <1>1, <2>1, <2>2 DEF RequestTypes, ThreadGoesOn
  <2> QED  BY <2>2, <2>3
<1>2. ASSUME NEW j \in Job, TryArrives(j)
      PROVE  /\ RequestTypes' /\ request[j].stage # "returned"
             /\ \A i \in Before(j) : request[i].stage = "returned"
             /\ \A i \in Job : i # j => request'[i] = request[i]
  <2>1. /\ request' = [request EXCEPT ![j] = [request[j] EXCEPT !.stage = "received"]]
        /\ request[j].stage = "sent" /\ leaderHint' = leaderHint
    BY <1>2 DEF TryArrives
  <2>2. [request[j] EXCEPT !.stage = "received"] \in RequestState
    BY DEF RequestTypes, RequestState
  <2> QED  BY <2>1, <2>2 DEF RequestTypes, TriesAreCalls, OwnCalls
<1>3. CASE ServersGoOn
  BY <1>3 DEF ServersGoOn, RequestTypes
<1> QED  BY <1>1, <1>2, <1>3, ClientStep

\* A request that has begun asks what it did.
LEMMA AskedKept ==
  ASSUME KVInv, RequestTypes, TriesAreCalls, [ClientNext]_allVars,
         NEW i \in Job, request[i].stage # "none"
  PROVE  Asked(i)' = Asked(i) /\ \A b \in Before(i) : request'[b] = request[b]
<1>1. \A b \in Before(i) : b \in Job /\ request[b].stage = "returned"
  BY DEF TriesAreCalls, OwnCalls, Before
<1>2. \A b \in Before(i) : request'[b] = request[b]
  BY <1>1, RequestsStep
<1> QED  BY <1>2, AskedSame

LEMMA TriesAreCallsStep ==
  ASSUME KVInv, RequestTypes, TriesAreCalls, [ClientNext]_allVars
  PROVE  TriesAreCalls'
<1>0. TypeOK /\ request' \in [Job -> RequestState] /\ MaxTries \in Nat
  BY RequestsStep, Stubs DEF KVInv, RequestTypes
<1>1. ASSUME NEW i \in Job, request'[i] = request[i],
             \A k \in 1 .. MaxTries :
               LET c == <<i, k>>
               IN /\ call'[c].op = call[c].op /\ (Made(c)' <=> Made(c))
                  /\ call[c].stage \in {"idle", "answered"} => call'[c] = call[c]
      PROVE  OwnCalls(i)'
  <2>1. /\ request[i].stage \in {"asking", "sent", "received"} \/ request[i].ok => request[i].tried < MaxTries
        /\ request[i].ok => request[i].stage = "returned"
        /\ request[i].stage = "none" => request[i].tried = 0
    BY DEF TriesAreCalls, OwnCalls
  <2>2. request[i].stage # "none" => \A b \in Before(i) : request'[b].stage = "returned"
    BY AskedKept DEF TriesAreCalls, OwnCalls
  <2>3. ASSUME NEW k \in 1 .. MaxTries
        PROVE  /\ Made(<<i, k>>)' => k <= request[i].tried \/ k = Trying(request[i])
               /\ Made(<<i, k>>)' => RequestOf(call'[<<i, k>>].op) = Asked(i)'
               /\ ~request[i].cut /\ k <= request[i].tried => call'[<<i, k>>].stage \in {"idle", "answered"}
    <3>1. /\ Made(<<i, k>>) => k <= request[i].tried \/ k = Trying(request[i])
          /\ Made(<<i, k>>) => RequestOf(call[<<i, k>>].op) = Asked(i)
          /\ ~request[i].cut /\ k <= request[i].tried => call[<<i, k>>].stage \in {"idle", "answered"}
      BY DEF TriesAreCalls, OwnCalls
    <3>2. Made(<<i, k>>) => request[i].stage # "none"
      <4>1. request[i].stage = "none" => Trying(request[i]) = 0
        BY <2>1 DEF Trying
      <4> QED  BY <2>1, <3>1, <4>1
    <3>3. Made(<<i, k>>) => Asked(i)' = Asked(i)
      BY <3>2, AskedKept
    <3>4. RequestOf(call'[<<i, k>>].op) = RequestOf(call[<<i, k>>].op)
      BY <1>1 DEF RequestOf
    <3> QED  BY <1>1, <3>1, <3>3, <3>4
  <2> QED  BY <1>1, <2>1, <2>2, <2>3 DEF OwnCalls
<1>2. CASE ThreadGoesOn
  <2>0. PICK j \in Job : \E n :
          /\ Begun(j, n) \/ Sent(j, n) \/ Over(j, n) \/ GotAnswer(j, n)
          /\ request' = [request EXCEPT ![j] = n]
    BY <1>2 DEF ThreadGoesOn
  <2>1. PICK n :
          /\ Begun(j, n) \/ Sent(j, n) \/ Over(j, n) \/ GotAnswer(j, n)
          /\ request' = [request EXCEPT ![j] = n]
    BY <2>0
  <2>2. request'[j] = n /\ (\A i \in Job : i # j => request'[i] = request[i]) /\ call' = call
    BY <1>2, <2>1 DEF RequestTypes, ThreadGoesOn, vars, kvVars
  <2>3. \A c : Made(c)' <=> Made(c)
    BY <2>2 DEF Made
  <2> DEFINE r == request[j]
  <2>4. /\ n.stage # "none" /\ r.stage # "returned" /\ n.tried \in Nat /\ r.tried \in Nat
        /\ n.ok => n.stage = "returned"
        /\ n.stage \in {"asking", "sent", "received"} \/ n.ok => n.tried < MaxTries
        /\ \A b \in Before(j) : request[b].stage = "returned"
    BY <1>0, <2>1, MovedIs
  <2>5. /\ r.tried <= n.tried /\ (Trying(r) <= n.tried \/ Trying(r) = Trying(n))
        /\ ~n.cut => ~r.cut
    BY <1>0, <2>1, MovedIs
  <2>6. ~n.cut => \A k \in 1 .. MaxTries : k <= n.tried =>
           k <= r.tried \/ (k = r.tried + 1 /\ (r.stage = "sent" \/ call[ThisTry(j)].stage = "answered"))
    BY <1>0, <2>1, MovedIs
  <2>7. \A b \in Before(j) : b \in Job /\ request'[b] = request[b]
    BY <2>2, <2>4 DEF Before
  <2>8. Asked(j)' = Asked(j)
    BY <2>7, AskedSame
  <2>9. ASSUME NEW k \in 1 .. MaxTries
        PROVE  /\ Made(<<j, k>>) => k <= n.tried \/ k = Trying(n)
               /\ Made(<<j, k>>) => RequestOf(call[<<j, k>>].op) = Asked(j)
               /\ ~n.cut /\ k <= n.tried => call[<<j, k>>].stage \in {"idle", "answered"}
    <3>1. /\ Made(<<j, k>>) => k <= r.tried \/ k = Trying(r)
          /\ Made(<<j, k>>) => RequestOf(call[<<j, k>>].op) = Asked(j)
          /\ ~r.cut /\ k <= r.tried => call[<<j, k>>].stage \in {"idle", "answered"}
          /\ r.ok => r.stage = "returned"
      BY DEF TriesAreCalls, OwnCalls
    <3> HIDE DEF r
    <3>2. Made(<<j, k>>) => k <= n.tried \/ k = Trying(n)
      BY <2>4, <2>5, <3>1
    <3>3. ASSUME r.stage = "sent", k = r.tried + 1 PROVE call[<<j, k>>].stage = "idle"
      <4>1. Trying(r) = 0
        BY <3>1, <3>3 DEF Trying
      <4>2. ~Made(<<j, k>>)
        BY <2>4, <3>1, <3>3, <4>1
      <4> QED  BY <4>2 DEF Made
    <3>4. k = r.tried + 1 => ThisTry(j) = <<j, k>>
      BY DEF ThisTry, r
    <3> QED  BY <2>5, <2>6, <3>1, <3>2, <3>3, <3>4
  <2> HIDE DEF r
  <2>10. ASSUME NEW i \in Job, i # j, NEW k \in 1 .. MaxTries
         PROVE  call'[<<i, k>>] = call[<<i, k>>]
    BY <2>2
  <2>11. OwnCalls(j)'
    BY <2>2, <2>3, <2>4, <2>7, <2>8, <2>9 DEF OwnCalls
  <2>12. ASSUME NEW i \in Job, i # j PROVE OwnCalls(i)'
    BY <1>1, <2>2, <2>3, <2>12
  <2> QED  BY <2>11, <2>12 DEF TriesAreCalls
<1>3. ASSUME NEW j \in Job, TryArrives(j) PROVE TriesAreCalls'
  <2>1. /\ request' = [request EXCEPT ![j] = [request[j] EXCEPT !.stage = "received"]]
        /\ request[j].stage = "sent"
    BY <1>3 DEF TryArrives
  <2> DEFINE r == request[j]
  <2>2. /\ request'[j].stage = "received" /\ request'[j].ok = r.ok /\ request'[j].tried = r.tried
        /\ request'[j].cut = r.cut /\ \A i \in Job : i # j => request'[i] = request[i]
    BY <2>1 DEF RequestTypes, RequestState
  <2>3. /\ ~Made(ThisTry(j)) /\ call'[ThisTry(j)].stage = "numbered"
        /\ RequestOf(call'[ThisTry(j)].op) = Asked(j)
        /\ \A c \in Call : c # ThisTry(j) => call'[c] = call[c]
    BY <1>3, ArrivalDoes
  <2>4. ThisTry(j) = <<j, r.tried + 1>> /\ r.tried \in Nat /\ r.tried < MaxTries
    BY <2>1 DEF ThisTry, RequestTypes, RequestState, TriesAreCalls, OwnCalls
  <2>5. ASSUME NEW i \in Job, NEW k \in 1 .. MaxTries, <<i, k>> # ThisTry(j)
        PROVE  call'[<<i, k>>] = call[<<i, k>>] /\ (Made(<<i, k>>)' <=> Made(<<i, k>>))
    BY <2>3, <2>5, CallsAreTries DEF Made
  <2>6. ASSUME NEW i \in Job, i # j PROVE OwnCalls(i)'
    <3>1. \A k \in 1 .. MaxTries : <<i, k>> # ThisTry(j)
      BY <2>4, <2>6
    <3> QED  BY <1>1, <2>2, <2>5, <2>6, <3>1
  <2>7. OwnCalls(j) /\ OwnCalls(j)'
    <3>1. OwnCalls(j) /\ ~r.ok /\ Asked(j)' = Asked(j)
          /\ \A b \in Before(j) : request[b].stage = "returned" /\ request'[b] = request[b]
      BY <2>1, AskedKept DEF TriesAreCalls, OwnCalls
    <3>2. ASSUME NEW k \in 1 .. MaxTries
          PROVE  /\ Made(<<j, k>>)' => k <= r.tried \/ k = r.tried + 1
                 /\ Made(<<j, k>>)' => RequestOf(call'[<<j, k>>].op) = Asked(j)
                 /\ ~r.cut /\ k <= r.tried => call'[<<j, k>>].stage \in {"idle", "answered"}
      <4>1. CASE k = r.tried + 1
        BY <2>3, <2>4, <4>1
      <4>2. CASE k # r.tried + 1
        <5>1. /\ Made(<<j, k>>) => k <= r.tried \/ k = Trying(r)
              /\ Made(<<j, k>>) => RequestOf(call[<<j, k>>].op) = Asked(j)
              /\ ~r.cut /\ k <= r.tried => call[<<j, k>>].stage \in {"idle", "answered"}
          BY <3>1 DEF OwnCalls
        <5>2. <<j, k>> # ThisTry(j)
          BY <2>4, <4>2
        <5>3. call'[<<j, k>>] = call[<<j, k>>] /\ (Made(<<j, k>>)' <=> Made(<<j, k>>))
          BY <2>5, <5>2
        <5>4. Trying(r) = 0
          BY <2>1, <3>1 DEF Trying
        <5> QED  BY <5>1, <5>3, <5>4
      <4> QED  BY <4>1, <4>2
    <3>3. Trying(request'[j]) = r.tried + 1
      BY <2>2 DEF Trying
    <3> HIDE DEF r
    <3>4. OwnCalls(j)'
      BY <2>2, <2>4, <3>1, <3>2, <3>3 DEF OwnCalls
    <3> QED  BY <3>1, <3>4
  <2> QED  BY <2>6, <2>7 DEF TriesAreCalls
<1>4. CASE ServersGoOn
  <2>1. request' = request
    BY <1>4 DEF ServersGoOn
  <2>2. ASSUME NEW i \in Job, NEW k \in 1 .. MaxTries
        PROVE  LET c == <<i, k>>
               IN /\ call'[c].op = call[c].op /\ (Made(c)' <=> Made(c))
                  /\ call[c].stage \in {"idle", "answered"} => call'[c] = call[c]
    BY <1>4, CallsOf, CallsAreTries
  <2> QED  BY <1>1, <2>1, <2>2 DEF TriesAreCalls
<1> QED  BY <1>2, <1>3, <1>4, ClientStep

-----------------------------------------------------------------------------
(* The commands of tries in the logs.                                      *)

\* Every entry is the command of a call.
OfCalls(l) == \A i \in DOMAIN l : \E d \in Call : Made(d) /\ call[d].op = l[i]

LEMMA OrderlyIsOfCalls == ASSUME NEW l, Orderly(l) PROVE OfCalls(l)
BY DEF Orderly, OfCalls, Entered, Made

\* No step makes a call whose command a log has already.
LEMMA OldCommands ==
  ASSUME KVInv, [Next]_vars, NEW l, OfCalls(l), NEW i \in DOMAIN l, NEW c \in Call,
         l[i] = call'[c].op
  PROVE  l[i] = call[c].op /\ Made(c)
<1>0. TypeOK /\ CallsAreNumbered /\ FuturesAreTrue /\ seq \in [Server -> Nat]
  BY NumberType DEF KVInv
<1>1. PICK d \in Call : Made(d) /\ call[d].op = l[i]
  BY DEF OfCalls
<1>2. /\ call[d].op \in Op /\ call[d].op.client \in Server
      /\ call[d].op.seq \in 1 .. seq[call[d].op.client]
  BY <1>0, <1>1 DEF CallsAreNumbered
<1>3. CallsMove \/ \E e \in Call, o \in Op : Arrives(e, o)
  BY CallsStep DEF KVInv
<1>4. l[i] = call[c].op
  <2>1. CASE CallsMove
    BY <1>0, <2>1, MovesAre
  <2>2. ASSUME NEW e \in Call, NEW o \in Op, Arrives(e, o), e # c PROVE l[i] = call[c].op
    BY <1>0, <2>2, ArrivesDoes
  <2>3. ASSUME NEW o \in Op, Arrives(c, o) PROVE FALSE
    <3>1. call'[c] = NumberedCall(o) /\ o.seq = seq[o.client] + 1 /\ o.client \in Server
      BY <1>0, <2>3, ArrivesDoes
    <3>2. call'[c].op = o
      BY <3>1, NumberedIs
    <3>3. o.seq \in 1 .. seq[o.client] /\ seq[o.client] \in Nat
      BY <1>0, <1>1, <1>2, <3>1, <3>2
    <3> QED  BY <3>1, <3>3
  <2> QED  BY <1>3, <2>1, <2>2, <2>3
<1>5. ~Made(c) => call[c].op = NoCall
  BY <1>0, IdleIs DEF CallsAreNumbered
<1> QED  BY <1>1, <1>2, <1>4, <1>5, RequestAssumption

\* A broken connection is not mended.
LEMMA CutKept ==
  ASSUME KVInv, RequestTypes, TriesAreCalls, [ClientNext]_allVars, NEW j \in Job, request[j].cut
  PROVE  request'[j].cut
<1>0. TypeOK
  BY DEF KVInv
<1>1. CASE ThreadGoesOn
  <2>1. PICK i \in Job : \E n :
          /\ Begun(i, n) \/ Sent(i, n) \/ Over(i, n) \/ GotAnswer(i, n)
          /\ request' = [request EXCEPT ![i] = n]
    BY <1>1 DEF ThreadGoesOn
  <2>2. PICK n :
          /\ Begun(i, n) \/ Sent(i, n) \/ Over(i, n) \/ GotAnswer(i, n)
          /\ request' = [request EXCEPT ![i] = n]
    BY <2>1
  <2>3. n \in RequestState /\ (~n.cut => ~request[i].cut)
    BY <1>0, <2>2, MovedIs
  <2>4. request'[i] = n /\ (j # i => request'[j] = request[j])
    BY <2>2 DEF RequestTypes
  <2> QED  BY <2>3, <2>4
<1>2. ASSUME NEW i \in Job, TryArrives(i) PROVE request'[j].cut
  <2>1. request' = [request EXCEPT ![i] = [request[i] EXCEPT !.stage = "received"]]
    BY <1>2 DEF TryArrives
  <2>2. request'[j].cut = request[j].cut
    BY <2>1 DEF RequestTypes, RequestState
  <2> QED  BY <2>2
<1>3. CASE ServersGoOn
  BY <1>3 DEF ServersGoOn
<1> QED  BY <1>1, <1>2, <1>3, ClientStep

LEMMA TriesKept ==
  ASSUME KVInv, RequestTypes, TriesAreCalls, [ClientNext]_allVars,
         NEW l, OfCalls(l), TriesInOrder(l, call, request)
  PROVE  TriesInOrder(l, call', request')
<1> SUFFICES ASSUME NEW j \in Job, ~request'[j].cut,
                    NEW k \in 1 .. MaxTries, NEW m \in 1 .. MaxTries, k < m,
                    NEW p \in DOMAIN l, NEW q \in DOMAIN l,
                    l[p] = call'[<<j, k>>].op, l[q] = call'[<<j, m>>].op
             PROVE  p < q
  BY DEF TriesInOrder
<1>1. ~request[j].cut
  BY CutKept
<1>2. <<j, k>> \in Call /\ <<j, m>> \in Call /\ [Next]_vars
  BY CallsAreTries, ServersStep
<1>3. l[p] = call[<<j, k>>].op /\ l[q] = call[<<j, m>>].op
  BY <1>2, OldCommands
<1> QED  BY <1>1, <1>3 DEF TriesInOrder

\* What a log begins with has the tries in their order if the log does.
LEMMA BeginningTries ==
  ASSUME NEW m, NEW l, DOMAIN l \subseteq DOMAIN m, \A i \in DOMAIN l : l[i] = m[i],
         NEW calls, NEW requests, TriesInOrder(m, calls, requests)
  PROVE  TriesInOrder(l, calls, requests)
BY DEF TriesInOrder

\* The command of a try comes after those of the tries before it.
LEMMA AppendTries ==
  ASSUME KVInv, RequestTypes, TriesAreCalls, NEW l \in Seq(Op), OfCalls(l),
         TriesInOrder(l, call, request), NEW c \in Call, call[c].stage = "numbered",
         NEW f \in Op, f = call[c].op
  PROVE  OfCalls(Append(l, f)) /\ TriesInOrder(Append(l, f), call, request)
<1> DEFINE a == Append(l, f)
           n == Len(l) + 1
<1>1. /\ DOMAIN a = 1 .. n /\ a[n] = f /\ n \in Nat /\ DOMAIN l = 1 .. n - 1
      /\ \A i \in DOMAIN l : a[i] = l[i]
  OBVIOUS
<1>2. Made(c) /\ CallsAreNumbered
  BY DEF Made, KVInv
<1> HIDE DEF a, n
<1>3. \A i \in DOMAIN a : i \in DOMAIN l \/ i = n
  BY <1>1
<1>4. OfCalls(a)
  BY <1>1, <1>2, <1>3 DEF OfCalls
<1>5. ASSUME NEW d \in Call, NEW i \in DOMAIN a, a[i] = call[d].op PROVE Made(d)
  <2>1. PICK e \in Call : Made(e) /\ call[e].op = a[i]
    BY <1>4 DEF OfCalls
  <2>2. call[e].op \in Op
    BY <1>2, <2>1 DEF CallsAreNumbered
  <2>3. ~Made(d) => call[d].op = NoCall
    BY <1>2, IdleIs DEF CallsAreNumbered
  <2> QED  BY <1>5, <2>1, <2>2, <2>3, RequestAssumption
<1>6. TriesInOrder(a, call, request)
  <2> SUFFICES ASSUME NEW j \in Job, ~request[j].cut,
                      NEW k \in 1 .. MaxTries, NEW m \in 1 .. MaxTries, k < m,
                      NEW p \in DOMAIN a, NEW q \in DOMAIN a,
                      a[p] = call[<<j, k>>].op, a[q] = call[<<j, m>>].op
               PROVE  p < q
    BY DEF TriesInOrder
  <2>1. <<j, k>> \in Call /\ <<j, m>> \in Call
    BY CallsAreTries
  <2>2. CASE p \in DOMAIN l /\ q \in DOMAIN l
    BY <1>1, <2>2 DEF TriesInOrder
  <2>3. CASE p \in DOMAIN l /\ q = n
    BY <1>1, <2>3
  <2>4. CASE p = n
    <3>1. <<j, k>> = c
      BY <1>1, <1>2, <2>1, <2>4, OwnCommand
    <3>2. Made(<<j, k>>) /\ Made(<<j, m>>) /\ call[<<j, k>>].stage = "numbered"
      BY <1>2, <1>5, <2>1, <3>1
    <3>3. request[j].tried \in Nat /\ MaxTries \in Nat
      BY Stubs DEF RequestTypes, RequestState
    <3>4. /\ k <= request[j].tried \/ k = Trying(request[j])
          /\ m <= request[j].tried \/ m = Trying(request[j])
          /\ ~(k <= request[j].tried)
      BY <3>2 DEF TriesAreCalls, OwnCalls
    <3>5. Trying(request[j]) \in {0, request[j].tried + 1}
      BY DEF Trying
    <3> QED  BY <3>3, <3>4, <3>5
  <2> QED  BY <1>3, <2>2, <2>3, <2>4
<1> QED  BY <1>4, <1>6 DEF a

LEMMA LogsTriesStep ==
  ASSUME KVInv, RequestTypes, TriesAreCalls, LogsHaveTriesInOrder, [ClientNext]_allVars
  PROVE  LogsHaveTriesInOrder'
<1>0. /\ TypeOK /\ CallsAreNumbered /\ WaitersAreKept /\ PushedIsChosen /\ LogsAreOrderly
      /\ [Next]_vars
  BY ServersStep DEF KVInv
<1>1. /\ log \in [Server -> Seq(Op)] /\ started \subseteq Seq(Op) /\ chosen \in Seq(Op)
  BY <1>0 DEF TypeOK
<1>2. /\ \A s \in Server : OfCalls(log[s]) /\ TriesInOrder(log[s], call, request)
      /\ \A l \in started : OfCalls(l) /\ TriesInOrder(l, call, request)
      /\ OfCalls(chosen) /\ TriesInOrder(chosen, call, request)
  BY <1>0, OrderlyIsOfCalls DEF LogsAreOrderly, LogsHaveTriesInOrder
<1>3. ASSUME NEW l, OfCalls(l), TriesInOrder(l, call, request)
      PROVE  TriesInOrder(l, call', request')
  BY <1>3, TriesKept
<1>4. /\ \A s \in Server : TriesInOrder(log'[s], call', request')
      /\ \A l \in started' : TriesInOrder(l, call', request')
  <2>1. CASE UNCHANGED <<log, started>>
    BY <1>2, <1>3, <2>1
  <2>2. ASSUME NEW s \in Server, Adopt(s)
        PROVE  /\ \A t \in Server : TriesInOrder(log'[t], call', request')
               /\ \A l \in started' : TriesInOrder(l, call', request')
    <3>1. started' = started /\ \E m \in started, k \in Nat :
            /\ m \in Seq(Op) /\ k <= Len(m) /\ log' = [log EXCEPT ![s] = SubSeq(m, 1, k)]
      BY <1>0, <2>2, AdoptDoes
    <3>2. PICK m \in started, k \in Nat :
            m \in Seq(Op) /\ k <= Len(m) /\ log' = [log EXCEPT ![s] = SubSeq(m, 1, k)]
      BY <3>1
    <3> DEFINE b == SubSeq(m, 1, k)
    <3>3. /\ b \in Seq(Op) /\ Len(b) = k /\ \A i \in 1 .. k : b[i] = m[i]
      BY <3>2, BeginningIs
    <3>4. log'[s] = b /\ \A t \in Server \ {s} : log'[t] = log[t]
      BY <1>1, <3>2
    <3> HIDE DEF b
    <3>5. DOMAIN b \subseteq DOMAIN m /\ \A i \in DOMAIN b : b[i] = m[i]
      BY <3>2, <3>3
    <3>6. TriesInOrder(m, call', request')
      BY <1>2, <1>3, <3>2
    <3>7. TriesInOrder(b, call', request')
      BY <3>5, <3>6, BeginningTries
    <3> QED  BY <1>2, <1>3, <3>1, <3>4, <3>7
  <2>3. ASSUME NEW c \in Call, call[c].stage = "numbered", Start(call[c].node, call[c].op),
               call[c].node \in Server, call[c].op \in Op
        PROVE  /\ \A t \in Server : TriesInOrder(log'[t], call', request')
               /\ \A l \in started' : TriesInOrder(l, call', request')
    <3> DEFINE s == call[c].node
               f == call[c].op
               a == Append(log[s], f)
    <3>1. s \in Server /\ f \in Op /\ Start(s, f)
      BY <2>3
    <3> HIDE DEF s, f
    <3>2. log' = [log EXCEPT ![s] = a] /\ started' = started \cup {a}
      BY <1>0, <3>1, StartDoes
    <3>3. OfCalls(a) /\ TriesInOrder(a, call, request)
      BY <1>1, <1>2, <2>3, <3>1, AppendTries DEF f
    <3> HIDE DEF a
    <3>4. log'[s] = a /\ \A t \in Server \ {s} : log'[t] = log[t]
      BY <1>1, <3>1, <3>2
    <3>5. TriesInOrder(a, call', request')
      BY <1>3, <3>3
    <3> QED  BY <1>2, <1>3, <3>2, <3>4, <3>5
  <2> QED  BY <1>0, <2>1, <2>2, <2>3, LogsStep
<1>5. TriesInOrder(chosen', call', request')
  <2>1. CASE chosen' = chosen
    BY <1>2, <1>3, <2>1
  <2>2. ASSUME NEW s \in Server, pushed[s] < Len(log[s]), Deliver(s, pushed[s] + 1), chosen' # chosen
        PROVE  TriesInOrder(chosen', call', request')
    <3> DEFINE n == pushed[s] + 1
    <3>1. /\ n \in 1 .. Len(log[s]) /\ log[s] \in Seq(Op) /\ \A i \in 1 .. n : log[s][i] = chosen'[i]
          /\ n = Len(chosen) + 1 /\ chosen' = Append(chosen, log[s][n])
      BY <1>0, <2>2, DeliverDoes
    <3> HIDE DEF n
    <3>2. DOMAIN chosen' = 1 .. n
      <4>1. Len(Append(chosen, log[s][n])) = Len(chosen) + 1
        BY <1>1, <3>1
      <4> QED  BY <1>1, <3>1, <4>1
    <3>3. DOMAIN chosen' \subseteq DOMAIN log[s] /\ \A i \in DOMAIN chosen' : chosen'[i] = log[s][i]
      BY <3>1, <3>2
    <3>4. TriesInOrder(log[s], call', request')
      BY <1>2, <1>3
    <3> QED  BY <3>3, <3>4, BeginningTries
  <2> QED  BY <1>0, <2>1, <2>2, ChosenStep
<1> QED  BY <1>4, <1>5 DEF LogsHaveTriesInOrder

\* How the beginning of a request is set, and that it is not set again.
LEMMA SinceStep ==
  ASSUME KVInv, RequestTypes, TriesAreCalls, [ClientNext]_allVars, NEW j \in Job
  PROVE  \/ request'[j].since = request[j].since
         \/ /\ UNCHANGED vars /\ request[j].stage = "none" /\ request'[j].since = Len(chosen)
<1>0. TypeOK
  BY DEF KVInv
<1>1. CASE ThreadGoesOn
  <2>1. PICK i \in Job : \E n :
          /\ Begun(i, n) \/ Sent(i, n) \/ Over(i, n) \/ GotAnswer(i, n)
          /\ request' = [request EXCEPT ![i] = n]
    BY <1>1 DEF ThreadGoesOn
  <2>2. PICK n :
          /\ Begun(i, n) \/ Sent(i, n) \/ Over(i, n) \/ GotAnswer(i, n)
          /\ request' = [request EXCEPT ![i] = n]
    BY <2>1
  <2>3. n.since = request[i].since \/ (request[i].stage = "none" /\ n.since = Len(chosen))
    BY <1>0, <2>2, MovedIs
  <2>4. request'[i] = n /\ (j # i => request'[j] = request[j])
    BY <2>2 DEF RequestTypes
  <2> QED  BY <1>1, <2>3, <2>4 DEF ThreadGoesOn
<1>2. ASSUME NEW i \in Job, TryArrives(i) PROVE request'[j].since = request[j].since
  <2>1. request' = [request EXCEPT ![i] = [request[i] EXCEPT !.stage = "received"]]
    BY <1>2 DEF TryArrives
  <2> QED  BY <2>1 DEF RequestTypes, RequestState
<1>3. CASE ServersGoOn
  BY <1>3 DEF ServersGoOn
<1> QED  BY <1>1, <1>2, <1>3, ClientStep

LEMMA TriesLaterStep ==
  ASSUME KVInv, RequestTypes, TriesAreCalls, TriesAreLater, [ClientNext]_allVars
  PROVE  TriesAreLater'
<1>0. /\ TypeOK /\ CallsAreNumbered /\ PushedIsChosen /\ LogsAreOrderly /\ [Next]_vars
      /\ OfCalls(chosen)
  BY ServersStep, OrderlyIsOfCalls DEF KVInv, LogsAreOrderly
<1>1. /\ chosen \in Seq(Op) /\ chosen' \in Seq(Op) /\ Len(chosen) <= Len(chosen')
      /\ \A i \in 1 .. Len(chosen) : chosen'[i] = chosen[i]
  BY <1>0, ChosenGrows
<1> SUFFICES ASSUME NEW j \in Job
             PROVE  /\ request'[j].since <= Len(chosen')
                    /\ \A k \in 1 .. MaxTries : \A i \in DOMAIN chosen' :
                         chosen'[i] = call'[<<j, k>>].op => i > request'[j].since
  BY DEF TriesAreLater
<1>2. request[j].since \in Nat /\ request[j].since <= Len(chosen)
  BY DEF RequestTypes, RequestState, TriesAreLater
<1>3. CASE request'[j].since = request[j].since
  <2>1. request'[j].since <= Len(chosen')
    BY <1>1, <1>2, <1>3
  <2>2. ASSUME NEW k \in 1 .. MaxTries, NEW i \in DOMAIN chosen', chosen'[i] = call'[<<j, k>>].op
        PROVE  i > request'[j].since
    <3>1. CASE i <= Len(chosen)
      <4>1. i \in DOMAIN chosen /\ chosen[i] = chosen'[i]
        BY <1>1, <3>1
      <4>2. <<j, k>> \in Call
        BY CallsAreTries
      <4>3. chosen[i] = call[<<j, k>>].op
        BY <1>0, <2>2, <4>1, <4>2, OldCommands
      <4> QED  BY <1>3, <4>1, <4>3 DEF TriesAreLater
    <3>2. CASE i > Len(chosen)
      <4>1. i \in Nat
        BY <1>1
      <4> QED  BY <1>1, <1>2, <1>3, <3>2, <4>1
    <3>3. i \in Nat /\ Len(chosen) \in Nat
      BY <1>1
    <3> QED  BY <3>1, <3>2, <3>3
  <2> QED  BY <2>1, <2>2
<1>4. CASE UNCHANGED vars /\ request[j].stage = "none" /\ request'[j].since = Len(chosen)
  <2>1. chosen' = chosen /\ call' = call
    BY <1>4 DEF vars, raftVars, kvVars
  <2>2. Len(chosen) \in Nat
    BY <1>1
  <2>3. ASSUME NEW k \in 1 .. MaxTries, NEW i \in DOMAIN chosen, chosen[i] = call[<<j, k>>].op
        PROVE  FALSE
    <3>1. <<j, k>> \in Call /\ chosen[i] = call'[<<j, k>>].op
      BY <2>1, <2>3, CallsAreTries
    <3>2. Made(<<j, k>>)
      BY <1>0, <3>1, OldCommands
    <3>3. /\ request[j].tried = 0 /\ ~request[j].ok
          /\ k <= request[j].tried \/ k = Trying(request[j])
      BY <1>4, <3>2 DEF TriesAreCalls, OwnCalls
    <3>4. Trying(request[j]) = 0
      BY <1>4, <3>3 DEF Trying
    <3> QED  BY <3>3, <3>4
  <2> QED  BY <1>4, <2>1, <2>2, <2>3
<1> QED  BY <1>3, <1>4, SinceStep

LEMMA AnswersToldStep ==
  ASSUME KVInv, RequestTypes, TriesAreCalls, AnswersAreTold, [ClientNext]_allVars
  PROVE  AnswersAreTold'
<1>0. TypeOK
  BY DEF KVInv
<1>1. ASSUME NEW j \in Job, request'[j] = request[j], request[j].ok,
             call[ThisTry(j)].stage = "answered" => call'[ThisTry(j)] = call[ThisTry(j)]
      PROVE  /\ call'[ThisTry(j)'].stage = "answered" /\ Definitive(ThisTry(j))'
             /\ request'[j].value = call'[ThisTry(j)'].value
  <2>1. ThisTry(j)' = ThisTry(j)
    BY <1>1 DEF ThisTry
  <2>2. /\ call[ThisTry(j)].stage = "answered" /\ Definitive(ThisTry(j))
        /\ request[j].value = call[ThisTry(j)].value
    BY <1>1 DEF AnswersAreTold
  <2> QED  BY <1>1, <2>1, <2>2 DEF Definitive
<1>2. CASE ThreadGoesOn
  <2>1. PICK i \in Job : \E n :
          /\ Begun(i, n) \/ Sent(i, n) \/ Over(i, n) \/ GotAnswer(i, n)
          /\ request' = [request EXCEPT ![i] = n]
    BY <1>2 DEF ThreadGoesOn
  <2>2. PICK n :
          /\ Begun(i, n) \/ Sent(i, n) \/ Over(i, n) \/ GotAnswer(i, n)
          /\ request' = [request EXCEPT ![i] = n]
    BY <2>1
  <2>3. n.ok => /\ n.tried = request[i].tried /\ call[ThisTry(i)].stage = "answered"
                /\ Definitive(ThisTry(i)) /\ n.value = call[ThisTry(i)].value
    BY <1>0, <2>2, MovedIs
  <2>4. request'[i] = n /\ (\A j \in Job : j # i => request'[j] = request[j]) /\ call' = call
    BY <1>2, <2>2 DEF RequestTypes, ThreadGoesOn, vars, kvVars
  <2>5. n.ok => /\ call'[ThisTry(i)'].stage = "answered" /\ Definitive(ThisTry(i))'
                /\ request'[i].value = call'[ThisTry(i)'].value
    <3>1. n.ok => ThisTry(i)' = ThisTry(i)
      BY <2>3, <2>4 DEF ThisTry
    <3> QED  BY <2>3, <2>4, <3>1 DEF Definitive
  <2> QED  BY <1>1, <2>4, <2>5 DEF AnswersAreTold
<1>3. ASSUME NEW i \in Job, TryArrives(i) PROVE AnswersAreTold'
  <2>1. request' = [request EXCEPT ![i] = [request[i] EXCEPT !.stage = "received"]]
        /\ request[i].stage = "sent"
    BY <1>3 DEF TryArrives
  <2>2. ~request[i].ok
    BY <2>1 DEF TriesAreCalls, OwnCalls
  <2>3. request'[i].ok = request[i].ok /\ \A j \in Job : j # i => request'[j] = request[j]
    BY <2>1 DEF RequestTypes, RequestState
  <2>4. ~Made(ThisTry(i)) /\ \A c \in Call : c # ThisTry(i) => call'[c] = call[c]
    BY <1>3, ArrivalDoes
  <2>5. ASSUME NEW j \in Job, request[j].ok
        PROVE  call[ThisTry(j)].stage = "answered" => call'[ThisTry(j)] = call[ThisTry(j)]
    <3>1. request[j].tried \in Nat /\ request[j].tried < MaxTries /\ MaxTries \in Nat
      BY <2>5, Stubs DEF TriesAreCalls, OwnCalls, RequestTypes, RequestState
    <3>2. ThisTry(j) \in Call
      BY <3>1, CallsAreTries DEF ThisTry
    <3> QED  BY <2>4, <3>2 DEF Made
  <2> QED  BY <1>1, <2>2, <2>3, <2>5 DEF AnswersAreTold
<1>4. CASE ServersGoOn
  <2>1. request' = request
    BY <1>4 DEF ServersGoOn
  <2>2. ASSUME NEW j \in Job, request[j].ok
        PROVE  call[ThisTry(j)].stage = "answered" => call'[ThisTry(j)] = call[ThisTry(j)]
    <3>1. request[j].tried \in Nat /\ request[j].tried < MaxTries /\ MaxTries \in Nat
      BY <2>2, Stubs DEF TriesAreCalls, OwnCalls, RequestTypes, RequestState
    <3>2. ThisTry(j) \in Call
      BY <3>1, CallsAreTries DEF ThisTry
    <3> QED  BY <1>4, <3>2, CallsOf
  <2> QED  BY <1>1, <2>1, <2>2 DEF AnswersAreTold
<1> QED  BY <1>2, <1>3, <1>4, ClientStep

LEMMA StepClient == ASSUME ClientInv, [ClientNext]_allVars PROVE ClientInv'
<1>1. /\ KVInv /\ RequestTypes /\ TriesAreCalls /\ TriesAreLater /\ AnswersAreTold
      /\ LogsHaveTriesInOrder
  BY DEF ClientInv
<1>2. KVInv'
  BY <1>1, ServersStep, StepKV
<1>3. RequestTypes' /\ TriesAreCalls'
  BY <1>1, RequestsStep, TriesAreCallsStep
<1>4. TriesAreLater' /\ AnswersAreTold' /\ LogsHaveTriesInOrder'
  BY <1>1, TriesLaterStep, AnswersToldStep, LogsTriesStep
<1> QED  BY <1>2, <1>3, <1>4 DEF ClientInv

-----------------------------------------------------------------------------
(* The answers.                                                            *)

LEMMA AcksStep ==
  ASSUME InOrder, KVInv, AcksAreTrue, [Next]_vars
  PROVE  AcksAreTrue'
<1>0. /\ TypeOK /\ CallsAreNumbered /\ NumberedIsLast /\ LogsAreOrderly /\ StoresAreApplied
      /\ PushedIsChosen /\ FuturesAreTrue
  BY DEF KVInv
<1>1. /\ chosen \in Seq(Op) /\ chosen' \in Seq(Op) /\ Len(chosen) <= Len(chosen')
      /\ \A i \in 1 .. Len(chosen) : chosen'[i] = chosen[i]
  BY <1>0, ChosenGrows
<1>2. ASSUME NEW i \in DOMAIN chosen
      PROVE  i \in DOMAIN chosen' /\ chosen'[i] = chosen[i]
             /\ (Effective(chosen', i) <=> Effective(chosen, i))
  <2>1. i \in Nat /\ i # 0 /\ i <= Len(chosen) /\ i \in DOMAIN chosen'
    BY <1>1
  <2>2. \A j \in 1 .. i : chosen'[j] = chosen[j]
    BY <1>1, <2>1
  <2> QED  BY <2>1, <2>2, EffectiveSame
<1> DEFINE True(c) ==
             /\ call[c].stage = "answered" /\ call[c].err = "OK" /\ call[c].op.kind # "Get" =>
                  \E i \in IndexesOf(c) : Effective(chosen, i)
             /\ call[c].err = "ErrNoKey" => call[c].op.kind = "Get"
           Stays(c) ==
             /\ call'[c].stage = "answered" /\ call'[c].err = "OK" /\ call'[c].op.kind # "Get" =>
                  \E i \in IndexesOf(c)' : Effective(chosen', i)
             /\ call'[c].err = "ErrNoKey" => call'[c].op.kind = "Get"
<1>3. ASSUME NEW c \in Call, NEW i \in IndexesOf(c), Effective(chosen, i), call'[c].op = call[c].op
      PROVE  \E k \in IndexesOf(c)' : Effective(chosen', k)
  <2>1. i \in DOMAIN chosen /\ chosen[i] = call[c].op
    BY DEF IndexesOf
  <2>2. i \in DOMAIN chosen' /\ chosen'[i] = call'[c].op /\ Effective(chosen', i)
    BY <1>2, <1>3, <2>1
  <2> QED  BY <2>2 DEF IndexesOf
<1>4. ASSUME NEW c \in Call, call'[c] = call[c] PROVE Stays(c)
  <2>1. /\ call[c].stage = "answered" /\ call[c].err = "OK" /\ call[c].op.kind # "Get" =>
             \E i \in IndexesOf(c) : Effective(chosen, i)
        /\ call[c].err = "ErrNoKey" => call[c].op.kind = "Get"
    BY DEF AcksAreTrue, AckedIsApplied
  <2> QED  BY <1>3, <1>4, <2>1
<1>5. ASSUME NEW c \in Call, CallMoves(c) PROVE Stays(c)
  <2>0. call[c] \in CallState /\ Empty \in Text
    BY <1>0 DEF TypeOK, Empty, Text
  <2>1. CASE call[c].stage = "waiting" /\ (call'[c] = Broken(call[c]) \/ \E g : call'[c] = Told(call[c], g))
    <3>1. call'[c].stage = "waiting" /\ call'[c].err = call[c].err
      BY <2>0, <2>1, BrokenIs, ToldIs
    <3>2. call[c].err = ""
      BY <1>0, <2>1 DEF CallsAreNumbered
    <3> QED  BY <3>1, <3>2
  <2>2. ASSUME call[c].stage = "numbered", NEW i \in 1 .. MaxLen, call'[c] = Waiting(call[c], i)
        PROVE  Stays(c)
    <3>1. call'[c].stage = "waiting" /\ call'[c].err = call[c].err
      BY <2>0, <2>2, WaitingIs
    <3>2. call[c].err = ""
      BY <1>0, <2>2 DEF CallsAreNumbered
    <3> QED  BY <3>1, <3>2
  <2>3. CASE call'[c] = Reply(call[c], "ErrWrongLeader", Empty)
    <3>1. call'[c].err = "ErrWrongLeader"
      BY <2>0, <2>3, ReplyIs
    <3> QED  BY <3>1
  <2>4. CASE call[c].stage = "numbered" /\ Seen(call[c].node, call[c].op)
    BY <1>0, <2>4, NoDuplicates
  <2>5. CASE /\ call[c].stage = "waiting" /\ call[c].future = "set" /\ Own(c, call[c].got)
             /\ call'[c] = Answer(call[c])
    <3>1. PICK i \in DOMAIN chosen : i \in IndexesOf(c) /\ chosen[i] = call[c].op
      BY <1>0, <2>5, AnsweredFrom
    <3>2. CASE call[c].op.kind # "Get"
      <4>1. call'[c] = Reply(call[c], "OK", Empty)
        BY <2>5, <3>2 DEF Answer
      <4>2. call'[c].err = "OK" /\ call'[c].op = call[c].op
        BY <2>0, <4>1, ReplyIs
      <4>3. Effective(chosen, i)
        <5>1. i \in Nat /\ \A j \in 1 .. i - 1 : j \in DOMAIN chosen /\ j < i
          BY <1>1
        <5> QED  BY <1>0, <3>1, <3>2, <5>1 DEF LogsAreOrderly, Orderly, Effective
      <4> QED  BY <1>3, <3>1, <4>2, <4>3
    <3>3. CASE call[c].op.kind = "Get"
      <4>1. PICK e \in {"OK", "ErrNoKey", "ErrWrongLeader"}, v \in Text : call'[c] = Reply(call[c], e, v)
        BY <1>0, <2>5, AnswerIs
      <4>2. Reply(call[c], e, v).op = call[c].op
        <5>1. e \in {"OK", "ErrNoKey", "ErrWrongLeader"} /\ v \in Text
          BY <4>1
        <5>2. \A r \in CallState : Reply(r, e, v).op = r.op
          BY <5>1, ReplyIs
        <5> QED  BY <2>0, <5>2
      <4>3. call'[c].op = call[c].op
        BY <4>1, <4>2
      <4> QED  BY <3>3, <4>3
    <3> QED  BY <3>2, <3>3
  <2> HIDE DEF Stays
  <2> QED  BY <1>4, <1>5, <2>1, <2>2, <2>3, <2>4, <2>5 DEF CallMoves
<1>6. ASSUME NEW d \in Call, NEW o \in Op, Arrives(d, o), NEW c \in Call PROVE Stays(c)
  <2>1. CASE c # d
    <3>1. call'[c] = call[c]
      BY <1>0, <1>6, <2>1, ArrivesDoes
    <3> HIDE DEF Stays
    <3> QED  BY <1>4, <3>1
  <2>2. CASE c = d
    <3>1. call'[c] = NumberedCall(o)
      BY <1>0, <1>6, <2>2, ArrivesDoes
    <3>2. NumberedCall(o).err = "" /\ NumberedCall(o).stage = "numbered"
      BY NumberedIs
    <3>3. call'[c].err = "" /\ call'[c].stage = "numbered"
      BY <3>1, <3>2
    <3> QED  BY <3>3
  <2> QED  BY <2>1, <2>2
<1>7. \A c \in Call : Stays(c)
  <2> HIDE DEF Stays
  <2>1. CallsMove \/ \E c \in Call, o \in Op : Arrives(c, o)
    BY CallsStep DEF KVInv
  <2> QED  BY <1>5, <1>6, <2>1 DEF CallsMove
<1> QED  BY <1>7 DEF AcksAreTrue, AckedIsApplied

\* What the facts about tries and the facts about answers say together.
LEMMA ServedIs ==
  ASSUME ClientInv, NEW j \in Served
  PROVE  LET c == <<j, LastTry(j)>>
         IN /\ j \in Job /\ LastTry(j) \in 1 .. MaxTries /\ c \in Call
            /\ call[c].stage = "answered" /\ call[c].err \in {"OK", "ErrNoKey"}
            /\ call[c].op \in Op /\ call[c].op # NoCall /\ RequestOf(call[c].op) = Asked(j)
            /\ request[j].value = call[c].value
<1> DEFINE c == <<j, LastTry(j)>>
<1>0. TypeOK /\ CallsAreNumbered /\ RequestTypes /\ TriesAreCalls /\ AnswersAreTold
  BY DEF ClientInv, KVInv
<1>1. j \in Job /\ request[j].ok
  BY DEF Served
<1>2. request[j].tried \in Nat /\ request[j].tried < MaxTries /\ MaxTries \in Nat
  BY <1>0, <1>1, Stubs DEF TriesAreCalls, OwnCalls, RequestTypes, RequestState
<1>3. LastTry(j) \in 1 .. MaxTries /\ ThisTry(j) = c
  BY <1>2 DEF LastTry, ThisTry
<1> HIDE DEF c
<1>4. c \in Call
  BY <1>1, <1>3, CallsAreTries DEF c
<1>5. call[c].stage = "answered" /\ Definitive(c) /\ request[j].value = call[c].value
  BY <1>0, <1>1, <1>3 DEF AnswersAreTold
<1>6. Made(c) /\ call[c].op \in Op /\ call[c].op # NoCall
  BY <1>0, <1>4, <1>5, RequestAssumption DEF Made, CallsAreNumbered
<1>7. RequestOf(call[c].op) = Asked(j)
  BY <1>0, <1>1, <1>3, <1>6 DEF TriesAreCalls, OwnCalls, c
<1>8. call[c].err \in {"OK", "ErrNoKey"}
  BY <1>0, <1>4, <1>5 DEF Definitive, TypeOK, CallState
<1> QED  BY <1>1, <1>3, <1>4, <1>5, <1>6, <1>7, <1>8 DEF c

LEMMA AnswersFollow ==
  ASSUME ClientInv, AcksAreTrue
  PROVE  AnswersAreFresh
<1> SUFFICES ASSUME NEW j \in Served
             PROVE  \E i \in IndexesOfTry(j, LastTry(j)) :
                      /\ i > request[j].since
                      /\ IF Asked(j).kind = "Get"
                         THEN request[j].value = StoreAfter(i - 1)[Asked(j).key]
                         ELSE Effective(chosen, i)
  BY DEF AnswersAreFresh
<1> DEFINE k == LastTry(j)
           c == <<j, k>>
<1>1. /\ j \in Job /\ k \in 1 .. MaxTries /\ c \in Call
      /\ call[c].stage = "answered" /\ call[c].err \in {"OK", "ErrNoKey"}
      /\ call[c].op \in Op /\ call[c].op # NoCall /\ RequestOf(call[c].op) = Asked(j)
      /\ request[j].value = call[c].value
  BY ServedIs
<1>2. call[c].op.kind = Asked(j).kind /\ call[c].op.key = Asked(j).key
  BY <1>1 DEF RequestOf
<1>3. IndexesOfTry(j, k) = IndexesOf(c)
  BY <1>1 DEF IndexesOfTry
<1>4. ReadsAtItsIndex /\ TriesAreLater
  BY DEF ClientInv, KVInv
<1> HIDE DEF k
<1>5. \A i \in IndexesOf(c) : i > request[j].since
  BY <1>1, <1>4 DEF TriesAreLater, IndexesOf
<1> HIDE DEF c
<1>6. CASE Asked(j).kind = "Get"
  <2>1. PICK i \in IndexesOf(c) : StoreAfter(i - 1)[call[c].op.key] = call[c].value
    BY <1>1, <1>2, <1>4, <1>6 DEF ReadsAtItsIndex
  <2> QED  BY <1>1, <1>2, <1>3, <1>5, <1>6, <2>1 DEF k
<1>7. CASE Asked(j).kind # "Get"
  <2>1. call[c].err = "OK"
    BY <1>1, <1>2, <1>7 DEF AcksAreTrue
  <2>2. PICK i \in IndexesOf(c) : Effective(chosen, i)
    BY <1>1, <1>2, <1>7, <2>1 DEF AcksAreTrue, AckedIsApplied
  <2> QED  BY <1>3, <1>5, <1>7, <2>2 DEF k
<1> QED  BY <1>6, <1>7

LEMMA LastFollows == ASSUME ClientInv PROVE LastTryIsLast
<1> SUFFICES ASSUME NEW j \in Served, ~request[j].cut,
                    NEW k \in 1 .. LastTry(j) - 1, NEW i \in IndexesOfTry(j, k),
                    NEW l \in IndexesOfTry(j, LastTry(j))
             PROVE  i < l
  BY DEF LastTryIsLast
<1>1. j \in Job /\ LastTry(j) \in 1 .. MaxTries
  BY ServedIs
<1>2. MaxTries \in Nat
  BY Stubs
<1>3. k \in 1 .. MaxTries /\ k < LastTry(j)
  BY <1>1, <1>2
<1>4. /\ i \in DOMAIN chosen /\ chosen[i] = call[<<j, k>>].op
      /\ l \in DOMAIN chosen /\ chosen[l] = call[<<j, LastTry(j)>>].op
  BY DEF IndexesOfTry, IndexesOf
<1>5. TriesInOrder(chosen, call, request)
  BY DEF ClientInv, LogsHaveTriesInOrder
<1> QED  BY <1>1, <1>3, <1>4, <1>5 DEF TriesInOrder

\* The facts of KVClientInductive hold in every reachable state.
THEOREM ClientInvariant == ClientSpec => []ClientInv
<1>1. ClientInit => ClientInv
  BY InitClient
<1>2. ClientInv /\ [ClientNext]_allVars => ClientInv'
  BY StepClient
<1> QED  BY <1>1, <1>2, PTL DEF ClientSpec

\* Retries of a put whose connections held change the store in the order of the
\* tries (kv_grpc_client.hpp), the answered one last: the next try is made when the
\* handler of the one before it has answered.
THEOREM TheLastTryIsLast == ClientSpec => []LastTryIsLast
<1>1. ClientInv => LastTryIsLast
  BY LastFollows
<1> QED  BY <1>1, ClientInvariant, PTL

\* An answer of get or put (kv_grpc_client.hpp) is of the request's own time: its last
\* try has an entry chosen after the request began, where a put changed the store and
\* a get read it, if the calls of a server lock m_mu in the order of their numbers.
THEOREM FreshAnswers == ASSUME InOrder PROVE ClientSpec => []AnswersAreFresh
<1>1. ClientInit => AcksAreTrue
  <2>1. ASSUME ClientInit PROVE AcksAreTrue
    <3>1. call = [c \in Call |-> IdleCall]
      BY <2>1 DEF ClientInit, Init
    <3>2. \A c \in Call : call[c].stage = "idle" /\ call[c].err = ""
      BY <3>1, IdleIs
    <3> QED  BY <3>2 DEF AcksAreTrue, AckedIsApplied
  <2> QED  BY <2>1
<1>2. ClientInv /\ AcksAreTrue /\ [ClientNext]_allVars => AcksAreTrue'
  BY AcksStep, ServersStep DEF ClientInv
<1>3. ClientInv /\ AcksAreTrue => AnswersAreFresh
  BY AnswersFollow
<1> QED  BY <1>1, <1>2, <1>3, ClientInvariant, PTL DEF ClientSpec
=============================================================================
