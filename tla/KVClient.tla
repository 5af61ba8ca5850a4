------------------------------ MODULE KVClient ------------------------------
(***************************************************************************)
(* KVStoreClient (clients/kv_grpc_client.hpp), which the HTTP threads of   *)
(* raftdrive share, over the servers of module KVServer.                   *)
(*                                                                         *)
(* get and put try one server after the other, from m_leaderHint on, until *)
(* one gives an answer other than WRONG_LEADER.  Every try is a call of    *)
(* its own to the servers, which give it a number of its own.  append() is *)
(* put() but for the kind of its calls.                                    *)
(***************************************************************************)
EXTENDS KVSafety

CONSTANTS
  Plan,         \* bound: Plan[<<t, n>>] is the n-th request of HTTP thread t, by
                \* whether the one before it got an answer
  kMaxRounds,   \* rounds over the servers before a request is given up
  MaxFailures   \* bound: tries that fail without an answer

Job == DOMAIN Plan
MaxTries == kMaxRounds * Cardinality(Server)

\* Servers are positions in m_stubs; a call is a try of a job.
ASSUME StubAssumption == /\ IsFiniteSet(Server) /\ Server # {}
                         /\ Server = 0 .. Cardinality(Server) - 1
ASSUME PlanAssumption == /\ kMaxRounds \in Nat \ {0} /\ MaxFailures \in Nat
                         /\ Plan \in [Job -> [BOOLEAN -> Request]]
                         /\ Call = Job \X (1 .. MaxTries)

VARIABLES
  leaderHint,   \* m_leaderHint, a plain int that all threads read and write
  request,      \* request[j]: where get or put is with job j
  failures      \* tries that failed without an answer

clientVars == <<leaderHint, request, failures>>
allVars == <<vars, clientVars>>

\* stage  "none", "asking" (between tries), "sent", "received", or "returned"
\* tried  tries that are over;  idx  the server of the present one
\* since  history: entries chosen when the request was made
\* cut    history: has a connection broken under a handler of this request?
NoRequest == [stage |-> "none", tried |-> 0, idx |-> 0, ok |-> FALSE, value |-> Empty,
              since |-> 0, cut |-> FALSE]

ClientInit ==
  /\ Init
  /\ leaderHint = 0 /\ failures = 0
  /\ request = [j \in Job |-> NoRequest]

ThisTry(j) == <<j, request[j].tried + 1>>

\* The requests its thread made before, and what it asks now.
Before(j) == {i \in Job : i[1] = j[1] /\ i[2] < j[2]}
Asked(j) == Plan[j][\A i \in Before(j) : i[2] = j[2] - 1 => request[i].ok]

-----------------------------------------------------------------------------
\* MetadataService calls get or put; a thread does so after its last request.
Begin(j) ==
  /\ request[j].stage = "none"
  /\ \A i \in Before(j) : request[i].stage = "returned"
  /\ request' = [request EXCEPT ![j].stage = "asking", ![j].since = Len(chosen)]
  /\ UNCHANGED <<vars, leaderHint, failures>>

\* The hint is read anew for every attempt: another thread may have moved it.
Send(j) ==
  LET attempt == request[j].tried % Cardinality(Server)
  IN /\ request[j].stage = "asking"
     /\ request' = [request EXCEPT ![j].stage = "sent",
                      ![j].idx = (leaderHint + attempt) % Cardinality(Server)]
     /\ UNCHANGED <<vars, leaderHint, failures>>

\* The handler of the service starts, in a node that leads.
Arrive(j) ==
  /\ request[j].stage = "sent"
  /\ Receive(ThisTry(j), request[j].idx, Asked(j))
  /\ request' = [request EXCEPT ![j].stage = "received"]
  /\ UNCHANGED <<leaderHint, failures>>

\* The loops go on with the next attempt or round; the last one ends with the
\* empty string or with false.  The 200 ms between rounds are left out.
Continued(r) ==
  [r EXCEPT !.tried = @ + 1,
            !.stage = IF r.tried + 1 < MaxTries THEN "asking" ELSE "returned"]

\* The service answers at once that its node does not lead.
TurnedAway(j) ==
  /\ request[j].stage = "sent" /\ ~leads[request[j].idx]
  /\ request' = [request EXCEPT ![j] = Continued(@)]
  /\ UNCHANGED <<vars, leaderHint, failures>>

\* The server cannot be reached, or the connection breaks and the handler runs on.
Disconnected(j) ==
  /\ request[j].stage \in {"sent", "received"} /\ failures < MaxFailures
  /\ failures' = failures + 1
  /\ LET r == request[j]
     IN request' = [request EXCEPT ![j] =
                      [Continued(r) EXCEPT !.cut = r.cut \/ r.stage = "received"]]
  /\ UNCHANGED <<vars, leaderHint>>

Definitive_any_bug(c) == call[c].err # ""
Definitive(c) == call[c].err \notin {"", "ErrWrongLeader"}

\* The handler has answered.  NOT_FOUND gives the empty string, as giving up does.
Answered(j) ==
  LET c == ThisTry(j)
  IN /\ request[j].stage = "received" /\ call[c].stage = "answered"
     /\ IF Definitive(c)
        THEN /\ leaderHint' = request[j].idx
             /\ request' = [request EXCEPT ![j].stage = "returned", ![j].ok = TRUE,
                                           ![j].value = call[c].value]
        ELSE request' = [request EXCEPT ![j] = Continued(@)] /\ UNCHANGED leaderHint
     /\ UNCHANGED <<vars, failures>>

-----------------------------------------------------------------------------
Try(j) == Send(j) \/ Arrive(j) \/ TurnedAway(j) \/ Answered(j)

Handlers == (\E c \in Call : Handler(c)) /\ UNCHANGED clientVars

ClientNext ==
  \/ \E j \in Job : Begin(j) \/ Try(j) \/ Disconnected(j)
  \/ Handlers
  \/ (\E s \in Server : Apply(s) \/ Raft(s)) /\ UNCHANGED clientVars

\* Some thread of the client runs on, and so does some handler, where the wait for a
\* future ends; nothing is assumed of Raft, of applierLoop or of connections.
ClientFairness ==
  /\ WF_allVars(\E j \in Job : Try(j))
  /\ WF_allVars(Handlers)

ClientSpec == ClientInit /\ [][ClientNext]_allVars /\ ClientFairness

-----------------------------------------------------------------------------
\* The jobs that got a definitive answer, and the indexes of a job's tries.
Served == {j \in Job : request[j].stage = "returned" /\ request[j].ok}
IndexesOfTry(j, k) == IF call[<<j, k>>].op = NoCall THEN {} ELSE IndexesOf(<<j, k>>)
LastTry(j) == request[j].tried + 1

\* What get and put return is of their own time: the try that was answered has an
\* entry that was chosen after the request was made, past everything that earlier
\* requests had done by then; a put changed the store there, a get read it.
AnswersAreFresh ==
  \A j \in Served : \E i \in IndexesOfTry(j, LastTry(j)) :
    /\ i > request[j].since
    /\ IF Asked(j).kind = "Get" THEN request[j].value = StoreAfter(i - 1)[Asked(j).key]
       ELSE Effective(chosen, i)

\* Retries of one put may all change the store, but none after the one that was
\* answered, then or ever: what is written next stays.  Not so when a connection
\* broke under a handler, which may then run at any time.
LastTryIsLast ==
  \A j \in Served : ~request[j].cut /\ Asked(j).kind # "Get" =>
    \A k \in 1 .. LastTry(j) - 1 : \A i \in IndexesOfTry(j, k) :
      \A l \in IndexesOfTry(j, LastTry(j)) : i < l

\* Once a get or put is begun a time comes when none is left and no handler runs, not
\* even one whose caller is gone: no call has a deadline, and none needs one, since
\* the handlers end on their own, whatever becomes of the leaders.
EveryRequestReturns ==
  (\E j \in Job : request[j].stage = "asking") ~>
    /\ \A j \in Job : request[j].stage \in {"none", "returned"}
    /\ \A c \in Call : ~Busy(c)
=============================================================================
