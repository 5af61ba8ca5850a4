------------------------- MODULE KVClientInductive -------------------------
(***************************************************************************)
(* The facts, true in every reachable state and kept by every step, that   *)
(* what KVClient says of the answers of get and put follows from.          *)
(***************************************************************************)
EXTENDS KVClient, KVInductive

RequestState ==
  [stage : {"none", "asking", "sent", "received", "returned"}, tried : 0 .. MaxTries,
   idx : Server, ok : BOOLEAN, value : Text, since : Nat, cut : BOOLEAN]

RequestTypes == leaderHint \in Server /\ request \in [Job -> RequestState]

\* The number of the try that has a call of its own already, or 0.
Trying(r) == IF r.stage = "received" \/ r.ok THEN r.tried + 1 ELSE 0

\* Tries have a call each, in their turn; a try that is over has its handler done,
\* unless a connection broke under it.
OwnCalls(j) ==
  LET r == request[j] IN
    /\ r.stage \in {"asking", "sent", "received"} \/ r.ok => r.tried < MaxTries
    /\ r.ok => r.stage = "returned"
    /\ r.stage = "none" => r.tried = 0
    /\ r.stage # "none" => \A i \in Before(j) : request[i].stage = "returned"
    /\ \A k \in 1 .. MaxTries :
         /\ Made(<<j, k>>) => k <= r.tried \/ k = Trying(r)
         /\ Made(<<j, k>>) => RequestOf(call[<<j, k>>].op) = Asked(j)
         /\ ~r.cut /\ k <= r.tried => call[<<j, k>>].stage \in {"idle", "answered"}
TriesAreCalls == \A j \in Job : OwnCalls(j)

\* What a request's tries did to the store came after its beginning.
TriesAreLater ==
  \A j \in Job :
    /\ request[j].since <= Len(chosen)
    /\ \A k \in 1 .. MaxTries : \A i \in DOMAIN chosen :
         chosen[i] = call[<<j, k>>].op => i > request[j].since

\* What a request returned is what its last try was told.
AnswersAreTold ==
  \A j \in Job : request[j].ok =>
    /\ call[ThisTry(j)].stage = "answered" /\ Definitive(ThisTry(j))
    /\ request[j].value = call[ThisTry(j)].value

\* In the log l the tries of each request are in their order.
TriesInOrder(l, calls, requests) ==
  \A j \in Job : ~requests[j].cut =>
    \A k, m \in 1 .. MaxTries : k < m =>
      \A p, q \in DOMAIN l : l[p] = calls[<<j, k>>].op /\ l[q] = calls[<<j, m>>].op => p < q

LogsHaveTriesInOrder ==
  /\ \A s \in Server : TriesInOrder(log[s], call, request)
  /\ \A l \in started : TriesInOrder(l, call, request)
  /\ TriesInOrder(chosen, call, request)

ClientInv ==
  /\ KVInv /\ RequestTypes /\ TriesAreCalls /\ TriesAreLater /\ AnswersAreTold
  /\ LogsHaveTriesInOrder

\* What an answer other than WRONG_LEADER says of the call.
AcksAreTrue ==
  /\ AckedIsApplied
  /\ \A c \in Call : call[c].err = "ErrNoKey" => call[c].op.kind = "Get"

-----------------------------------------------------------------------------
(* What every step does to the requests.                                   *)

Begun(j, n) ==
  /\ request[j].stage = "none" /\ \A i \in Before(j) : request[i].stage = "returned"
  /\ n = [request[j] EXCEPT !.stage = "asking", !.since = Len(chosen)]

Sent(j, n) ==
  /\ request[j].stage = "asking"
  /\ \E s \in Server : n = [request[j] EXCEPT !.stage = "sent", !.idx = s]

\* The try of j is over without an answer, or with WRONG_LEADER.
Over(j, n) ==
  /\ request[j].stage \in {"sent", "received"}
  /\ \E cut \in BOOLEAN :
       /\ n = [Continued(request[j]) EXCEPT !.cut = request[j].cut \/ cut]
       /\ request[j].stage = "received" => cut \/ call[ThisTry(j)].stage = "answered"

GotAnswer(j, n) ==
  /\ request[j].stage = "received" /\ call[ThisTry(j)].stage = "answered" /\ Definitive(ThisTry(j))
  /\ n = [request[j] EXCEPT !.stage = "returned", !.ok = TRUE, !.value = call[ThisTry(j)].value]

\* The thread of a request goes on, without the servers.
ThreadGoesOn ==
  /\ UNCHANGED vars /\ leaderHint' \in Server
  /\ \E j \in Job : \E n :
       /\ Begun(j, n) \/ Sent(j, n) \/ Over(j, n) \/ GotAnswer(j, n)
       /\ request' = [request EXCEPT ![j] = n]

\* A try arrives at its server.
TryArrives(j) ==
  /\ request[j].stage = "sent" /\ leaderHint' = leaderHint
  /\ Receive(ThisTry(j), request[j].idx, Asked(j))
  /\ request' = [request EXCEPT ![j] = [@ EXCEPT !.stage = "received"]]

\* The servers go on, without the threads of the client.
ServersGoOn == [Next]_vars /\ seq' = seq /\ UNCHANGED <<leaderHint, request>>
=============================================================================
