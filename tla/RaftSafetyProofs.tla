------------------------- MODULE RaftSafetyProofs -------------------------
(***************************************************************************)
(* Committed entries are in the log of every later leader, so that nodes   *)
(* push the same entries, and what was pushed stays with a majority.       *)
(*                                                                         *)
(* An entry of term t is committed when a majority stored it in term t.    *)
(* Suppose a later leader lacked it, and take the first that did.  A node  *)
(* of that majority voted for it; when it did, it still had the entry, as  *)
(* all leaders until then had, and a log at least as good as its own would *)
(* have it too.  Acked says this of one node, in a form that every step    *)
(* keeps.                                                                  *)
(***************************************************************************)
EXTENDS RaftReplicationProofs, RaftRefinement

Inv == TypeInv /\ ElectionInv /\ ReplicationInv

\* What every step does.
StepFacts ==
  /\ RolesMove /\ LogsMove /\ TermLogGrows /\ CastMoves /\ AppendCallsMove /\ IndexesMove
  /\ \A s \in Server : LogFollows(s)

LEMMA InvStep ==
  ASSUME TrustedElections, ~Preemptible, Inv, [Next]_vars
  PROVE  Inv' /\ StepFacts
BY StepReplicationInv DEF Inv, StepFacts

-----------------------------------------------------------------------------
(* Logs that have an entry, and logs that lack it.                         *)

LEMMA LogTypes ==
  ASSUME Inv
  PROVE  /\ TypeOK
         /\ \A s \in Server : /\ log[s] \in Seq(Entry) /\ currentTerm[s] \in Nat
                              /\ Sound(log[s], currentTerm[s], termLog)
         /\ \A t \in DOMAIN termLog : /\ t \in Nat /\ termLog[t] \in Seq(Entry)
                                      /\ Sound(termLog[t], t, termLog)
                                      /\ TermLog(t) = termLog[t]
BY DEF Inv, TypeInv, TypeOK, ReplicationInv, SoundLogs, TermLog, LogOf

\* Logs that have one entry agree up to it.
LEMMA HaveSame ==
  ASSUME TypeOK, NEW a \in Seq(Entry), NEW b \in Seq(Entry), NEW u, NEW w,
         Sound(a, u, termLog), Sound(b, w, termLog),
         NEW n, NEW t, Has(a, n, t), Has(b, n, t)
  PROVE  Agree(a, b, n) /\ n \in Nat
<1>1. n \in Nat /\ n \in DOMAIN a /\ n \in DOMAIN b /\ a[n].term = b[n].term
  BY DEF Has
<1> QED  BY <1>1, SameEntry

\* Leaders that lack an entry go on lacking it: they add entries of their own terms.
LEMMA StillLacked ==
  ASSUME TypeOK, TypeOK', TermLogGrows, NEW n \in Nat, NEW t \in Nat, NEW f \in DOMAIN termLog,
         t < f, ~Has(termLog[f], n, t)
  PROVE  f \in DOMAIN termLog' /\ ~Has(termLog'[f], n, t)
<1> DEFINE l == termLog[f]
           k == termLog'[f]
<1>1. /\ f \in Nat /\ l \in Seq(Entry) /\ k \in Seq(Entry) /\ f \in DOMAIN termLog'
      /\ Agree(l, k, Len(l)) /\ \A i \in DOMAIN k : i > Len(l) => k[i].term = f
  BY DEF TypeOK, TermLogGrows
<1> HIDE DEF l, k
<1>2. ~Has(l, n, t)
  BY DEF l
<1>3. ~Has(k, n, t)
  <2>1. CASE n \in 1..Len(l)
    BY <1>1, <1>2, <2>1 DEF Agree, Has
  <2>2. CASE n \notin 1..Len(l)
    BY <1>1, <2>2 DEF Has
  <2> QED  BY <2>1, <2>2
<1> QED  BY <1>1, <1>3 DEF k

LEMMA LackedStays ==
  ASSUME TypeOK, TypeOK', TermLogGrows, NEW n \in Nat, NEW t \in Nat, NEW u \in Nat, NEW w \in Nat,
         u <= w
  PROVE  /\ LackedBy(n, t, u, termLog) => LackedBy(n, t, w, termLog')
         /\ LackedBefore(n, t, u, termLog) => LackedBefore(n, t, w, termLog')
<1>1. DOMAIN termLog \subseteq Nat /\ DOMAIN termLog' \subseteq Nat
  BY DEF TypeOK
<1>2. \A f \in DOMAIN termLog : t < f /\ ~Has(termLog[f], n, t)
        => f \in DOMAIN termLog' /\ ~Has(termLog'[f], n, t)
  BY StillLacked
<1>3. ASSUME LackedBy(n, t, u, termLog) PROVE LackedBy(n, t, w, termLog')
  <2>1. PICK f \in DOMAIN termLog : t < f /\ f <= u /\ ~Has(termLog[f], n, t)
    BY <1>3 DEF LackedBy
  <2>2. f \in DOMAIN termLog' /\ ~Has(termLog'[f], n, t) /\ f <= w
    BY <1>1, <1>2, <2>1
  <2> QED  BY <2>1, <2>2 DEF LackedBy
<1>4. ASSUME LackedBefore(n, t, u, termLog) PROVE LackedBefore(n, t, w, termLog')
  <2>1. PICK f \in DOMAIN termLog : t < f /\ f < u /\ ~Has(termLog[f], n, t)
    BY <1>4 DEF LackedBefore
  <2>2. f \in DOMAIN termLog' /\ ~Has(termLog'[f], n, t) /\ f < w
    BY <1>1, <1>2, <2>1
  <2> QED  BY <2>1, <2>2 DEF LackedBefore
<1> QED  BY <1>3, <1>4

LEMMA LackedLater ==
  ASSUME TypeOK, NEW n, NEW t, NEW u \in Nat, NEW w \in Nat, u <= w,
         LackedBy(n, t, u, termLog)
  PROVE  LackedBy(n, t, w, termLog)
<1>1. DOMAIN termLog \subseteq Nat
  BY DEF TypeOK
<1> QED  BY <1>1 DEF LackedBy

\* What the check of requestVote is for: a log that is at least as good as one with the
\* entry has it too, unless a leader lacked it whose entries came to that log.
LEMMA BetterLogHas ==
  ASSUME Inv, NEW a \in Seq(Entry), NEW b \in Seq(Entry), NEW u, NEW w,
         Sound(a, u, termLog), Sound(b, w, termLog), NEW n \in Nat, NEW t \in Nat, Has(a, n, t),
         UpToDate(LastTerm(b), Len(b), a)
  PROVE  Has(b, n, t) \/ LackedBy(n, t, LastTerm(b), termLog)
<1> DEFINE p == LastTerm(b)
           m == TermLog(p)
<1>1. /\ n \in 1..Len(a) /\ a[n].term = t /\ Len(a) \in Nat /\ Len(b) \in Nat
      /\ LastTerm(a) = a[Len(a)].term
  BY DEF Has, LastTerm
<1>2. LastTerm(a) \in Nat /\ p \in Nat
  BY LastTermType
<1>3. t <= LastTerm(a)
  <2>1. n \in DOMAIN a /\ Len(a) \in DOMAIN a /\ n <= Len(a)
    BY <1>1
  <2> QED  BY <1>1, <2>1 DEF Sound
<1>4. m \in Seq(Entry) /\ TypeOK
  BY <1>2, LogTypes, TermLogType
<1>5. p > LastTerm(a) \/ (p = LastTerm(a) /\ Len(b) >= Len(a))
  BY DEF UpToDate
<1>6. b # << >> => Agree(b, m, Len(b)) /\ b[Len(b)].term = p
  <2>1. b # << >> => Len(b) \in DOMAIN b /\ p = b[Len(b)].term
    BY DEF LastTerm
  <2> QED  BY <2>1 DEF Sound, TermLog
<1>7. Agree(a, LogOf(termLog, LastTerm(a)), Len(a))
  <2>1. Len(a) \in DOMAIN a
    BY <1>1
  <2> QED  BY <1>1, <2>1 DEF Sound
<1>8. CASE p = LastTerm(a) /\ Len(b) >= Len(a)
  <2>1. b # << >>
    BY <1>1, <1>8
  <2>2. Agree(a, m, Len(a)) /\ Agree(b, m, Len(b))
    BY <1>6, <1>7, <1>8, <2>1 DEF TermLog
  <2> HIDE DEF m
  <2>3. Agree(a, b, Len(a))
    BY <1>1, <1>4, <1>8, <2>2, AgreeBack, AgreeVia
  <2> QED  BY <1>1, <2>3, HasVia
<1>9. CASE p > LastTerm(a)
  <2>1. b # << >> /\ p > t
    BY <1>2, <1>3, <1>9 DEF LastTerm
  <2>2. Agree(b, m, Len(b)) /\ b[Len(b)].term = p
    BY <1>6, <2>1
  <2>3. Len(b) > 0 /\ Len(b) <= Len(m)
    BY <1>1, <2>1, <2>2 DEF Agree
  <2>4. p \in DOMAIN termLog
    BY <2>3 DEF TermLog, LogOf
  <2>5. m = termLog[p] /\ Sound(m, p, termLog)
    BY <2>4, LogTypes
  <2> HIDE DEF m, p
  <2>6. CASE ~Has(m, n, t)
    BY <1>2, <2>1, <2>4, <2>5, <2>6 DEF LackedBy, p
  <2>7. CASE Has(m, n, t)
    <3>1. n <= Len(b)
      <4> SUFFICES ASSUME n > Len(b) PROVE FALSE
        BY <1>1
      <4>1. Len(b) \in DOMAIN m /\ n \in DOMAIN m /\ m[n].term = t
        BY <1>1, <1>4, <2>3, <2>7 DEF Has
      <4>2. m[Len(b)].term = p
        BY <2>2, <2>3, <1>1 DEF Agree
      <4>3. m[Len(b)].term <= m[n].term
        BY <1>1, <2>5, <4>1 DEF Sound
      <4> QED  BY <1>2, <2>1, <4>1, <4>2, <4>3
    <3> QED  BY <1>1, <1>4, <2>2, <2>7, <3>1, AgreeBack, HasVia
  <2> QED  BY <2>6, <2>7
<1> QED  BY <1>5, <1>8, <1>9

\* The last term of a sound log is no higher than its node's.
LEMMA SoundLastTerm ==
  ASSUME NEW l \in Seq(Entry), NEW t \in Nat, NEW logs, Sound(l, t, logs)
  PROVE  LastTerm(l) \in Nat /\ LastTerm(l) <= t
<1>1. CASE l = << >>
  BY <1>1 DEF LastTerm
<1>2. CASE l # << >>
  <2>1. Len(l) \in DOMAIN l
    BY <1>2
  <2> QED  BY <1>2, <2>1, LastTermType DEF LastTerm, Sound
<1> QED  BY <1>1, <1>2

-----------------------------------------------------------------------------
(* Acknowledged entries.                                                   *)

\* A node that has the entry in its term has acknowledged it.
LEMMA StoredIsAcked ==
  ASSUME Inv, NEW q \in Server, NEW n \in Nat, NEW t \in Nat, currentTerm[q] = t, Has(log[q], n, t)
  PROVE  Acked(q, n, t)
<1>1. t >= t
  OBVIOUS
<1>2. ASSUME NEW v \in cast, v.voter = q, v.term > t PROVE FALSE
  <2>1. v.term <= t /\ v.term \in Nat
    BY <1>2 DEF Inv, ElectionInv, CastRemembered, TypeInv, TypeOK
  <2> DEFINE u == v.term
  <2>2. u <= t /\ u > t /\ u \in Nat
    BY <1>2, <2>1
  <2> HIDE DEF u
  <2> QED  BY <2>2
<1>3. ASSUME NEW e \in elected, e.term > t, q \in e.votes PROVE FALSE
  <2> DEFINE v == [term |-> e.term, voter |-> q, candidate |-> e.leader]
  <2>1. v \in cast
    BY <1>3 DEF Inv, ElectionInv, ElectedByMajority
  <2> QED  BY <1>2, <1>3, <2>1
<1> QED  BY <1>1, <1>2, <1>3 DEF Acked

\* A node's log keeps the entry, or a leader it followed lacked it.
LEMMA HadStays ==
  ASSUME Inv, Inv', StepFacts, NEW q \in Server, NEW n \in Nat, NEW t \in Nat, t <= currentTerm[q],
         Has(log[q], n, t)
  PROVE  Has(log'[q], n, t) \/ LackedBy(n, t, currentTerm[q], termLog)
<1> DEFINE c == currentTerm[q]
           m == TermLog(c)
           a == log[q]
           b == log'[q]
<1>1. a \in Seq(Entry) /\ b \in Seq(Entry) /\ c \in Nat /\ Sound(a, c, termLog) /\ TypeOK
  BY LogTypes DEF Inv, TypeInv, TypeOK
<1>2. CASE b = a
  BY <1>2
<1>3. CASE b # a
  <2>1. c \in DOMAIN termLog /\ \A k \in Nat : Agree(a, m, k) => Agree(b, a, k)
    BY <1>3 DEF StepFacts, LogFollows
  <2>2. m = termLog[c] /\ m \in Seq(Entry) /\ Sound(m, c, termLog)
    BY <2>1, LogTypes
  <2> HIDE DEF a, b, m, c
  <2>3. Has(a, n, t) /\ t <= c
    BY DEF a, c
  <2>4. CASE Has(m, n, t)
    <3>1. Agree(a, m, n)
      BY <1>1, <2>2, <2>3, <2>4, HaveSame
    <3>2. Agree(a, b, n)
      BY <1>1, <2>1, <3>1, AgreeBack
    <3> QED  BY <1>1, <2>3, <3>2, HasVia DEF b
  <2>5. CASE ~Has(m, n, t)
    <3>1. t # c
      <4> SUFFICES ASSUME t = c PROVE FALSE
        OBVIOUS
      <4>1. n \in DOMAIN a /\ a[n].term = c
        BY <2>3 DEF Has
      <4>2. Agree(a, m, n)
        BY <1>1, <2>1, <2>2, <4>1 DEF Sound, LogOf
      <4>3. Has(m, n, t)
        BY <1>1, <2>2, <2>3, <4>2, HasVia
      <4> QED  BY <2>5, <4>3
    <3>2. t < c /\ c <= c
      BY <1>1, <2>3, <3>1
    <3>3. LackedBy(n, t, c, termLog)
      BY <2>1, <2>2, <2>5, <3>2 DEF LackedBy
    <3> QED  BY <3>3 DEF c
  <2> QED  BY <2>4, <2>5
<1> QED  BY <1>2, <1>3

\* A candidate's log stays as it is.
LEMMA CandidateLogStays ==
  ASSUME Inv, Inv', StepFacts, NEW s \in Server, Collecting(s)', currentTerm'[s] = currentTerm[s]
  PROVE  Collecting(s) /\ log'[s] = log[s]
<1>1. currentTerm[s] \in Nat
  BY LogTypes
<1>2. Collecting(s)
  BY <1>1 DEF StepFacts, RolesMove
<1> QED  BY <1>2 DEF Collecting, StepFacts, LogFollows

\* What a node has acknowledged stays so.
LEMMA AckedStays ==
  ASSUME Inv, Inv', StepFacts, NEW q \in Server, NEW n \in Nat, NEW t \in Nat, Acked(q, n, t)
  PROVE  Acked(q, n, t)'
<1>0. /\ TypeOK /\ TypeOK' /\ TermLogGrows
      /\ \A s \in Server : /\ currentTerm[s] \in Nat /\ currentTerm'[s] \in Nat
                           /\ currentTerm[s] <= currentTerm'[s] /\ log[s] \in Seq(Entry)
                           /\ Sound(log[s], currentTerm[s], termLog)
  BY LogTypes DEF Inv, TypeInv, TypeOK, StepFacts, RolesMove
<1>1. t <= currentTerm[q] /\ t <= currentTerm'[q]
  BY <1>0 DEF Acked
<1>2. Has(log'[q], n, t) \/ LackedBy(n, t, currentTerm'[q], termLog')
  <2>1. CASE LackedBy(n, t, currentTerm[q], termLog)
    BY <1>0, <2>1, LackedStays
  <2>2. CASE Has(log[q], n, t)
    BY <1>1, <2>1, <2>2, HadStays
  <2> QED  BY <2>1, <2>2 DEF Acked
<1>3. ASSUME NEW v \in cast', v.voter = q, v.term > t, Collecting(v.candidate)',
             currentTerm'[v.candidate] = v.term
      PROVE  Has(log'[v.candidate], n, t) \/ LackedBy(n, t, v.term, termLog')
  <2> DEFINE s == v.candidate
             u == v.term
  <2>1. s \in Server /\ u \in Nat /\ currentTerm'[s] = u
    BY <1>0, <1>3 DEF TypeOK
  <2>2. CASE v \in cast
    <3>1. currentTerm[s] = u
      <4>1. u <= currentTerm[s]
        BY <2>2 DEF Inv, ReplicationInv, CastIsBegun
      <4> HIDE DEF u, s
      <4> QED  BY <1>0, <2>1, <4>1
    <3>2. Collecting(s) /\ log'[s] = log[s]
      BY <1>3, <2>1, <3>1, CandidateLogStays
    <3>3. Has(log[s], n, t) \/ LackedBy(n, t, u, termLog)
      BY <1>3, <2>2, <3>1, <3>2 DEF Acked
    <3>4. LackedBy(n, t, u, termLog) => LackedBy(n, t, u, termLog')
      <4> HIDE DEF u
      <4>1. u <= u
        BY <2>1
      <4> QED  BY <1>0, <2>1, <4>1, LackedStays
    <3> QED  BY <3>2, <3>3, <3>4
  <2>3. CASE v \notin cast
    <3>1. /\ currentTerm[q] <= u
          /\ UpToDate(LastTerm(log[s]), Len(log[s]), log[q])
      BY <1>3, <2>3 DEF StepFacts, CastMoves
    <3> HIDE DEF u, s
    <3>2. LackedBy(n, t, currentTerm[q], termLog) => LackedBy(n, t, u, termLog')
      BY <1>0, <2>1, <3>1, LackedStays
    <3>3. ASSUME Has(log[q], n, t) PROVE Has(log[s], n, t) \/ LackedBy(n, t, u, termLog')
      <4>1. Has(log[s], n, t) \/ LackedBy(n, t, LastTerm(log[s]), termLog)
        BY <1>0, <2>1, <3>1, <3>3, BetterLogHas
      <4>2. LastTerm(log[s]) \in Nat /\ LastTerm(log[s]) <= currentTerm[s]
        BY <1>0, <2>1, SoundLastTerm
      <4>3. LastTerm(log[s]) <= u
        BY <1>0, <2>1, <4>2
      <4> QED  BY <1>0, <2>1, <4>1, <4>2, <4>3, LackedStays
    <3>4. ASSUME Has(log[s], n, t) PROVE Has(log'[s], n, t) \/ LackedBy(n, t, u, termLog')
      <4>1. CASE log'[s] = log[s]
        BY <3>4, <4>1
      <4>2. CASE log'[s] # log[s]
        <5>1. currentTerm'[s] = currentTerm[s] /\ Collecting(s)'
          BY <1>3, <2>1, <4>2 DEF StepFacts, LogFollows, s
        <5> QED  BY <2>1, <4>2, <5>1, CandidateLogStays
      <4> QED  BY <4>1, <4>2
    <3>5. Has(log[q], n, t) \/ LackedBy(n, t, currentTerm[q], termLog)
      BY DEF Acked
    <3>6. Has(log'[s], n, t) \/ LackedBy(n, t, u, termLog')
      BY <3>2, <3>3, <3>4, <3>5
    <3> QED  BY <3>6 DEF u, s
  <2> QED  BY <2>2, <2>3
<1>4. ASSUME NEW e \in elected', e.term > t, q \in e.votes
      PROVE  Has(TermLog(e.term)', n, t) \/ LackedBefore(n, t, e.term, termLog')
  <2> DEFINE u == e.term
  <2>1. u \in Nat
    BY <1>0 DEF TypeOK
  <2>2. LackedBefore(n, t, u, termLog) => LackedBefore(n, t, u, termLog')
    BY <1>0, <2>1, LackedStays
  <2>3. CASE e \in elected
    <3>1. u \in DOMAIN termLog
      BY <2>3 DEF Inv, ReplicationInv, ReignsOnce
    <3>2. Has(termLog[u], n, t) \/ LackedBefore(n, t, u, termLog)
      BY <1>4, <2>3, <3>1, LogTypes DEF Acked
    <3>3. Has(termLog[u], n, t) => Has(LogOf(termLog', u), n, t)
      <4> HIDE DEF u
      <4>1. u \in DOMAIN termLog' /\ Agree(termLog[u], termLog'[u], Len(termLog[u]))
            /\ termLog[u] \in Seq(Entry)
        BY <1>0, <3>1, LogTypes DEF TermLogGrows
      <4> QED  BY <4>1 DEF LogOf, Agree, Has
    <3> QED  BY <2>2, <3>2, <3>3 DEF TermLog
  <2>4. CASE e \notin elected
    <3>1. PICK s \in Server : BecomeLeader(s)
      BY <2>4 DEF StepFacts, LogsMove, Start, ballotVars
    <3>2. /\ e = [term |-> currentTerm[s], leader |-> s, votes |-> tally[s]]
          /\ termLog' = Recorded(currentTerm[s], log[s]) /\ Collecting(s)
      BY <2>4, <3>1 DEF BecomeLeader, Collecting
    <3>3. u = currentTerm[s] /\ q \in tally[s]
      BY <1>4, <3>2
    <3>4. [term |-> u, voter |-> q, candidate |-> s] \in cast
      BY <3>2, <3>3 DEF Inv, ElectionInv, TallyIsTrue
    <3>5. Has(log[s], n, t) \/ LackedBy(n, t, u, termLog)
      BY <1>4, <3>2, <3>3, <3>4 DEF Acked
    <3>6. LogOf(termLog', u) = log[s]
      BY <3>2, <3>3 DEF Recorded, LogOf
    <3>7. u \notin DOMAIN termLog
      BY <3>1, <3>3, NewReign DEF Inv, ReplicationInv
    <3> HIDE DEF u
    <3>8. LackedBy(n, t, u, termLog) => LackedBefore(n, t, u, termLog)
      <4>1. \A f \in DOMAIN termLog : f <= u => f < u
        BY <2>1, <3>7, LogTypes
      <4> QED  BY <4>1 DEF LackedBy, LackedBefore
    <3>9. Has(LogOf(termLog', u), n, t) \/ LackedBefore(n, t, u, termLog')
      BY <2>2, <3>5, <3>6, <3>8
    <3> QED  BY <3>9 DEF TermLog, u
  <2> QED  BY <2>3, <2>4
<1> QED  BY <1>0, <1>1, <1>2, <1>3, <1>4 DEF Acked

-----------------------------------------------------------------------------
(* Committed entries.                                                      *)

\* A leader of a later term has every committed entry: of the first that lacked it, a
\* node that acknowledged the entry was a voter.
LEMMA LeadersHaveCommitted ==
  ASSUME Inv, NEW n \in Nat, NEW t \in Nat, Committed(n, t), NEW u \in DOMAIN termLog, t <= u
  PROVE  Has(termLog[u], n, t)
<1> DEFINE Lacking == {f \in DOMAIN termLog : t < f /\ ~Has(termLog[f], n, t)}
<1>1. Lacking = {}
  <2> SUFFICES ASSUME Lacking # {} PROVE FALSE
    OBVIOUS
  <2>1. Lacking \in SUBSET Nat
    BY LogTypes
  <2> DEFINE f == Min(Lacking)
  <2>2. f \in Lacking /\ \A x \in Lacking : f <= x
    <3> HIDE DEF Lacking
    <3> QED  BY <2>1, MinIsLeast
  <2> HIDE DEF f
  <2>3. f \in DOMAIN termLog /\ f \in Nat /\ t < f /\ ~Has(termLog[f], n, t)
    BY <2>1, <2>2
  <2>4. PICK e \in elected : e.term = f
    BY <2>3 DEF Inv, ReplicationInv, ReignsOnce
  <2>5. PICK Q \in SUBSET Server : IsMajority(Cardinality(Q)) /\ \A q \in Q : Acked(q, n, t)
    BY DEF Committed
  <2>6. e.votes \in SUBSET Server /\ IsMajority(Cardinality(e.votes))
    BY DEF Inv, ElectionInv, ElectedByMajority, TypeInv, TypeOK
  <2>7. PICK q \in Server : q \in Q /\ q \in e.votes
    BY <2>5, <2>6, MajoritiesMeet
  <2>8. Has(TermLog(f), n, t) \/ LackedBefore(n, t, f, termLog)
    BY <2>3, <2>4, <2>5, <2>7 DEF Acked
  <2>9. LackedBefore(n, t, f, termLog)
    BY <2>3, <2>8, LogTypes
  <2>10. PICK g \in DOMAIN termLog : t < g /\ g < f /\ ~Has(termLog[g], n, t)
    BY <2>9 DEF LackedBefore
  <2>11. g \in Lacking /\ g \in Nat
    BY <2>1, <2>10
  <2> QED  BY <2>2, <2>3, <2>10, <2>11
<1>2. CASE u = t
  BY <1>2, LogTypes DEF Committed
<1>3. CASE u # t
  <2>1. t < u
    BY <1>3, LogTypes
  <2> QED  BY <1>1, <2>1
<1> QED  BY <1>2, <1>3

\* So no entry that is committed is lacked.
LEMMA CommittedNotLacked ==
  ASSUME Inv, NEW n \in Nat, NEW t \in Nat, Committed(n, t), NEW u
  PROVE  ~LackedBy(n, t, u, termLog)
<1> SUFFICES ASSUME NEW f \in DOMAIN termLog, t < f PROVE Has(termLog[f], n, t)
  BY DEF LackedBy
<1>1. t <= f
  BY LogTypes
<1> QED  BY <1>1, LeadersHaveCommitted

LEMMA CommittedStays ==
  ASSUME Inv, Inv', StepFacts, NEW n \in Nat, NEW t \in Nat, Committed(n, t)
  PROVE  Committed(n, t)'
<1>1. PICK Q \in SUBSET Server : IsMajority(Cardinality(Q)) /\ \A q \in Q : Acked(q, n, t)
  BY DEF Committed
<1>2. \A q \in Q : Acked(q, n, t)'
  BY <1>1, AckedStays
<1>3. Has(LogOf(termLog', t), n, t)
  <2>1. t \in DOMAIN termLog /\ Has(termLog[t], n, t)
    BY DEF Committed, Has, TermLog, LogOf
  <2>2. /\ t \in DOMAIN termLog' /\ Agree(termLog[t], termLog'[t], Len(termLog[t]))
        /\ termLog[t] \in Seq(Entry)
    BY <2>1, LogTypes DEF StepFacts, TermLogGrows
  <2> QED  BY <2>1, <2>2 DEF LogOf, Agree, Has
<1> QED  BY <1>1, <1>2, <1>3 DEF Committed, TermLog

-----------------------------------------------------------------------------
(* Covered logs.                                                           *)

\* The terms and the numbers of a cover.
LEMMA CoverIs ==
  ASSUME Inv, NEW l \in Seq(Entry), NEW c \in Nat, c # 0, NEW u, Covered(l, c, u)
  PROVE  \E t \in DOMAIN termLog : \E n \in DOMAIN termLog[t] :
           /\ t \in Nat /\ n \in Nat /\ t <= u /\ c <= n /\ n <= Len(termLog[t])
           /\ Committed(n, t) /\ Has(termLog[t], n, t) /\ Agree(l, termLog[t], c)
<1>1. PICK t \in DOMAIN termLog :
        \E n \in DOMAIN termLog[t] : t <= u /\ c <= n /\ Committed(n, t) /\ Agree(l, termLog[t], c)
  BY DEF Covered
<1>2. PICK n \in DOMAIN termLog[t] : t <= u /\ c <= n /\ Committed(n, t) /\ Agree(l, termLog[t], c)
  BY <1>1
<1>3. t \in Nat /\ termLog[t] \in Seq(Entry) /\ TermLog(t) = termLog[t]
  BY LogTypes
<1>4. n \in Nat /\ n <= Len(termLog[t]) /\ Has(termLog[t], n, t)
  BY <1>2, <1>3 DEF Committed
<1> QED  BY <1>2, <1>3, <1>4

\* The covered part of a log is in the log of every leader of the term up to which it is
\* covered, or of a later one.
LEMMA CoveredInLeader ==
  ASSUME Inv, NEW l \in Seq(Entry), NEW c \in Nat, NEW u \in Nat, Covered(l, c, u),
         NEW f \in DOMAIN termLog, u <= f
  PROVE  Agree(l, termLog[f], c)
<1>0. /\ f \in Nat /\ termLog[f] \in Seq(Entry) /\ Sound(termLog[f], f, termLog) /\ TypeOK
  BY LogTypes
<1>1. CASE c = 0
  BY <1>0, <1>1 DEF Agree
<1>2. CASE c # 0
  <2>1. PICK t \in DOMAIN termLog : \E n \in DOMAIN termLog[t] :
           /\ t \in Nat /\ n \in Nat /\ t <= u /\ c <= n /\ n <= Len(termLog[t])
           /\ Committed(n, t) /\ Has(termLog[t], n, t) /\ Agree(l, termLog[t], c)
    BY <1>2, CoverIs
  <2>2. PICK n \in DOMAIN termLog[t] :
           /\ t \in Nat /\ n \in Nat /\ t <= u /\ c <= n /\ n <= Len(termLog[t])
           /\ Committed(n, t) /\ Has(termLog[t], n, t) /\ Agree(l, termLog[t], c)
    BY <2>1
  <2>3. t <= f
    BY <1>0, <2>2
  <2>4. Has(termLog[f], n, t)
    BY <2>2, <2>3, LeadersHaveCommitted
  <2>5. termLog[t] \in Seq(Entry) /\ Sound(termLog[t], t, termLog)
    BY LogTypes
  <2>6. Agree(termLog[t], termLog[f], n)
    BY <1>0, <2>2, <2>4, <2>5, HaveSame
  <2> QED  BY <1>0, <2>2, <2>5, <2>6, AgreeVia
<1> QED  BY <1>1, <1>2

\* A log whose beginning is a covered one is covered as far.
LEMMA CoveredVia ==
  ASSUME Inv, NEW l \in Seq(Entry), NEW k \in Seq(Entry), NEW c \in Nat, NEW d \in Nat, d <= c,
         NEW u \in Nat, NEW w \in Nat, u <= w, Covered(l, c, u), Agree(k, l, d)
  PROVE  Covered(k, d, w)
<1>1. CASE d = 0
  BY <1>1 DEF Covered
<1>2. CASE d # 0
  <2>0. c # 0
    BY <1>2
  <2>1. PICK t \in DOMAIN termLog : \E n \in DOMAIN termLog[t] :
           /\ t \in Nat /\ n \in Nat /\ t <= u /\ c <= n /\ n <= Len(termLog[t])
           /\ Committed(n, t) /\ Has(termLog[t], n, t) /\ Agree(l, termLog[t], c)
    BY <2>0, CoverIs
  <2>2. PICK n \in DOMAIN termLog[t] :
           /\ t \in Nat /\ n \in Nat /\ t <= u /\ c <= n /\ n <= Len(termLog[t])
           /\ Committed(n, t) /\ Has(termLog[t], n, t) /\ Agree(l, termLog[t], c)
    BY <2>1
  <2>3. t <= w /\ d <= n
    BY <2>2
  <2>4. termLog[t] \in Seq(Entry)
    BY LogTypes
  <2>5. Agree(k, termLog[t], d)
    BY <2>2, <2>4, AgreeVia
  <2> QED  BY <2>2, <2>3, <2>5 DEF Covered
<1> QED  BY <1>1, <1>2

\* A covered log stays covered.
LEMMA CoveredStays ==
  ASSUME Inv, Inv', StepFacts, NEW l \in Seq(Entry), NEW c \in Nat, NEW u \in Nat,
         Covered(l, c, u)
  PROVE  Covered(l, c, u)'
<1>1. CASE c = 0
  BY <1>1 DEF Covered
<1>2. CASE c # 0
  <2>1. PICK t \in DOMAIN termLog : \E n \in DOMAIN termLog[t] :
           /\ t \in Nat /\ n \in Nat /\ t <= u /\ c <= n /\ n <= Len(termLog[t])
           /\ Committed(n, t) /\ Has(termLog[t], n, t) /\ Agree(l, termLog[t], c)
    BY <1>2, CoverIs
  <2>2. PICK n \in DOMAIN termLog[t] :
           /\ t \in Nat /\ n \in Nat /\ t <= u /\ c <= n /\ n <= Len(termLog[t])
           /\ Committed(n, t) /\ Has(termLog[t], n, t) /\ Agree(l, termLog[t], c)
    BY <2>1
  <2>3. Committed(n, t)'
    BY <2>2, CommittedStays
  <2>4. /\ t \in DOMAIN termLog' /\ Agree(termLog[t], termLog'[t], Len(termLog[t]))
        /\ termLog[t] \in Seq(Entry) /\ termLog'[t] \in Seq(Entry)
    BY LogTypes DEF StepFacts, TermLogGrows, Inv, TypeInv, TypeOK
  <2>5. c <= Len(termLog[t]) /\ Len(termLog[t]) \in Nat
    BY <2>2, <2>4
  <2>6. Agree(l, termLog'[t], c)
    BY <2>2, <2>4, <2>5, AgreeVia
  <2>7. n \in DOMAIN termLog'[t]
    BY <2>2, <2>4 DEF Agree
  <2> QED  BY <2>2, <2>3, <2>4, <2>6, <2>7 DEF Covered
<1> QED  BY <1>1, <1>2

-----------------------------------------------------------------------------
(* What nodes hold, and what a leader may commit.                          *)

LEMMA CommitsStep == ASSUME TypeInv, [Next]_vars PROVE CommitMoves
<1>1. CASE UNCHANGED <<commitIndex, applied>>
  BY <1>1 DEF CommitMoves
<1>2. ASSUME NEW r \in appendRpcs, FollowCommit(r) PROVE CommitMoves
  <2>1. \A s \in Server : s # r.to => commitIndex'[s] = commitIndex[s] /\ applied'[s] = applied[s]
    BY <1>2 DEF FollowCommit, TypeInv, TypeOK
  <2> QED  BY <1>2, <2>1 DEF CommitMoves
<1>3. ASSUME NEW r \in appendRpcs, CountSuccess(r) PROVE CommitMoves
  <2>1. \A s \in Server : s # r.from => commitIndex'[s] = commitIndex[s] /\ applied'[s] = applied[s]
    BY <1>3 DEF CountSuccess, TypeInv, TypeOK
  <2> QED  BY <1>3, <2>1 DEF CommitMoves
<1>4. ASSUME NEW s \in Server, Restart(s) PROVE CommitMoves
  <2>1. \A p \in Server : p # s => commitIndex'[p] = commitIndex[p] /\ applied'[p] = applied[p]
    BY <1>4 DEF Restart, Reboot, TypeInv, TypeOK
  <2> QED  BY <1>4, <2>1 DEF CommitMoves
<1>5. ASSUME NEW s \in Server, RaftThread(s) \/ \E c \in Command : Start(s, c)
      PROVE  UNCHANGED <<commitIndex, applied>>
  BY <1>5 DEF RaftThread, FollowerTimeout, CandidateTimeout, StartElection, BecomeLeader,
              AskForVote, SendAppendEntries, Start, logVars
<1>6. ASSUME NEW r \in voteRpcs, VoteCall(r) PROVE UNCHANGED <<commitIndex, applied>>
  BY <1>6 DEF VoteCall, RefuseStaleVote, HandleRequestVote, CountVote, RefusedByNewerTerm,
              DropVote, logVars
<1>7. ASSUME NEW r \in appendRpcs, AppendCall(r), ~FollowCommit(r), ~CountSuccess(r)
      PROVE  UNCHANGED <<commitIndex, applied>>
  BY <1>7 DEF AppendCall, RefuseStaleAppend, AcceptAppend, RefuseMismatch, PassMatch,
              StoreEntries, DeposedByReply, CheckReply, BackUp, DropAppend, logVars
<1>8. CASE UNCHANGED vars
  BY <1>1, <1>8 DEF vars, logVars
<1> QED  BY <1>1, <1>2, <1>3, <1>4, <1>5, <1>6, <1>7, <1>8 DEF Next

\* What a node holds it goes on holding.
LEMMA HoldsStays ==
  ASSUME Inv, Inv', StepFacts, NEW p \in Server, NEW t \in Nat, NEW m \in Nat, Holds(p, t, m)
  PROVE  Holds(p, t, m)'
<1>1. CASE m = 0
  BY <1>1 DEF Holds
<1>2. CASE m # 0
  <2> DEFINE l == termLog[t]
             k == termLog'[t]
             a == log[p]
             b == log'[p]
  <2>1. /\ currentTerm[p] >= t /\ m <= Len(TermLog(t))
        /\ currentTerm[p] = t => Agree(a, TermLog(t), m)
        /\ \A n \in 1..m : Has(TermLog(t), n, t) => Acked(p, n, t)
    BY <1>2 DEF Holds
  <2>2. t \in DOMAIN termLog
    BY <1>2, <2>1 DEF TermLog, LogOf
  <2>3. /\ TermLog(t) = l /\ l \in Seq(Entry) /\ k \in Seq(Entry) /\ Agree(l, k, Len(l))
        /\ LogOf(termLog', t) = k /\ a \in Seq(Entry) /\ b \in Seq(Entry)
        /\ currentTerm[p] \in Nat /\ currentTerm'[p] \in Nat /\ currentTerm[p] <= currentTerm'[p]
    BY <2>2, LogTypes DEF StepFacts, TermLogGrows, RolesMove, Inv, TypeInv, TypeOK, LogOf
  <2> HIDE DEF l, k
  <2>4. m <= Len(l) /\ m <= Len(k) /\ currentTerm'[p] >= t
    BY <2>1, <2>3 DEF Agree
  <2>5. ASSUME currentTerm'[p] = t PROVE Agree(b, k, m)
    <3>1. currentTerm[p] = t /\ Agree(a, l, m)
      BY <2>1, <2>3, <2>5
    <3>2. Agree(b, a, m)
      <4>1. CASE b = a
        <5>1. m <= Len(a)
          BY <3>1 DEF Agree
        <5> QED  BY <2>3, <4>1, <5>1, AgreeSelf
      <4>2. CASE b # a
        <5>1. Agree(a, TermLog(currentTerm[p]), m)
          BY <2>3, <3>1
        <5> QED  BY <4>2, <5>1 DEF StepFacts, LogFollows
      <4> QED  BY <4>1, <4>2
    <3> HIDE DEF a, b
    <3>3. Agree(b, l, m)
      BY <2>3, <3>1, <3>2, AgreeVia
    <3> QED  BY <2>3, <2>4, <3>3, AgreeVia
  <2>6. ASSUME NEW n \in 1..m, Has(k, n, t) PROVE Acked(p, n, t)'
    <3>1. n \in Nat /\ n <= Len(l)
      BY <2>3, <2>4
    <3>2. Has(l, n, t)
      BY <2>3, <2>6, <3>1 DEF Has, Agree
    <3>3. Acked(p, n, t)
      BY <2>1, <2>3, <3>2
    <3> QED  BY <3>1, <3>3, AckedStays
  <2> QED  BY <2>3, <2>4, <2>5, <2>6 DEF Holds, TermLog
<1> QED  BY <1>1, <1>2

\* A node in the leader's term that agrees with it holds what it agrees on.
LEMMA AgreesHolds ==
  ASSUME Inv, NEW p \in Server, NEW m \in Nat, Agree(log[p], TermLog(currentTerm[p]), m)
  PROVE  Holds(p, currentTerm[p], m)
<1> DEFINE t == currentTerm[p]
<1>1. t \in Nat /\ TermLog(t) \in Seq(Entry) /\ log[p] \in Seq(Entry)
  BY LogTypes, TermLogType
<1>2. ASSUME NEW n \in 1..m, Has(TermLog(t), n, t) PROVE Acked(p, n, t)
  <2>1. Has(log[p], n, t)
    BY <1>2 DEF Has, Agree
  <2> QED  BY <1>1, <2>1, StoredIsAcked
<1>3. m <= Len(TermLog(t)) /\ t >= t
  BY <1>1 DEF Agree
<1> QED  BY <1>2, <1>3 DEF Holds

\* An entry of the leader's term that a majority holds, as match tells, is committed.
LEMMA HeldIsCommitted ==
  ASSUME Inv, NEW s \in Server, state[s] = "Leader", NEW match \in [Server -> Nat],
         \A p \in Peers(s) : Holds(p, currentTerm[s], match[p]),
         NEW n \in Held(s, match), log[s][n].term = currentTerm[s]
  PROVE  /\ Committed(n, currentTerm[s]) /\ log[s] = termLog[currentTerm[s]]
         /\ currentTerm[s] \in DOMAIN termLog
<1> DEFINE t == currentTerm[s]
           P == {p \in Peers(s) : match[p] >= n}
           Q == P \cup {s}
<1>1. t \in Nat /\ n \in DOMAIN log[s] /\ n \in Nat /\ IsMajority(1 + Cardinality(P))
      /\ log[s] \in Seq(Entry)
  <2>1. log[s] \in Seq(Entry)
    BY LogTypes
  <2> QED  BY <2>1, LogTypes DEF Held
<1>2. LeadsTerm(s, t) /\ log[s] = TermLog(t)
  BY DEF Inv, ReplicationInv, LeaderHasTermLog
<1>3. t \in DOMAIN termLog
  BY <1>2 DEF LeadsTerm, Inv, ReplicationInv, ReignsOnce
<1>4. Has(TermLog(t), n, t)
  BY <1>1, <1>2 DEF Has
<1>5. ASSUME NEW p \in P PROVE Acked(p, n, t)
  <2>1. Holds(p, t, match[p]) /\ match[p] >= n /\ match[p] \in Nat
    BY DEF Peers
  <2>2. n \in 1..match[p] /\ match[p] # 0
    BY <1>1, <2>1
  <2> QED  BY <1>4, <2>1, <2>2 DEF Holds
<1>6. Acked(s, n, t)
  BY <1>1, <1>2, <1>4, StoredIsAcked
<1>7. IsMajority(Cardinality(Q)) /\ Q \in SUBSET Server
  <2>1. P \in SUBSET Server /\ s \notin P
    BY DEF Peers
  <2>2. IsFiniteSet(P)
    BY <2>1, ServerAssumption, FS_Subset
  <2>3. Cardinality(Q) = Cardinality(P) + 1
    <3> HIDE DEF P
    <3> QED  BY <2>1, <2>2, FS_AddElement
  <2>4. Cardinality(P) \in Nat
    BY <2>2, FS_CardinalityType
  <2> HIDE DEF P, Q
  <2>5. Cardinality(Q) = 1 + Cardinality(P)
    BY <2>3, <2>4
  <2> QED  BY <1>1, <2>1, <2>5 DEF Q
<1>8. \A q \in Q : Acked(q, n, t)
  BY <1>5, <1>6
<1> HIDE DEF Q
<1> QED  BY <1>2, <1>3, <1>4, <1>7, <1>8 DEF Committed, TermLog, LogOf

-----------------------------------------------------------------------------
(* How commit indexes and what was pushed move.                            *)

\* A covered log is as long as it is covered.
LEMMA CoveredBelow ==
  ASSUME Inv, NEW l \in Seq(Entry), NEW c \in Nat, NEW u \in Nat, Covered(l, c, u)
  PROVE  c <= Len(l)
BY DEF Covered, Agree

\* No step changes what a node has committed.
LEMMA CommittedPartStays ==
  ASSUME Inv, Inv', StepFacts, CommitInv, NEW s \in Server
  PROVE  Agree(log'[s], log[s], commitIndex[s])
<1> DEFINE t == currentTerm[s]
           c == commitIndex[s]
<1>1. /\ log[s] \in Seq(Entry) /\ log'[s] \in Seq(Entry) /\ t \in Nat /\ c \in Nat
      /\ Covered(log[s], c, t)
  BY DEF Inv, TypeInv, TypeOK, CommitInv, CommitsAreCovered
<1>2. CASE log'[s] = log[s]
  BY <1>1, <1>2, CoveredBelow, AgreeSelf
<1>3. CASE log'[s] # log[s]
  <2>1. /\ t \in DOMAIN termLog
        /\ \A n \in Nat : Agree(log[s], TermLog(t), n) => Agree(log'[s], log[s], n)
    BY <1>3 DEF StepFacts, LogFollows
  <2>2. t <= t
    BY <1>1
  <2>3. Agree(log[s], TermLog(t), c)
    BY <1>1, <2>1, <2>2, CoveredInLeader DEF TermLog, LogOf
  <2> QED  BY <1>1, <2>1, <2>3
<1> QED  BY <1>2, <1>3

\* The node's commit index moves forward in its own log, in its own term.
CommitGrows(s) ==
  /\ log'[s] = log[s] /\ currentTerm'[s] = currentTerm[s]
  /\ commitIndex'[s] >= commitIndex[s]
  /\ Covered(log[s], commitIndex'[s], currentTerm[s])
  /\ applied'[s] = PushedUpTo(commitIndex'[s], applied[s], log[s])

LEMMA FollowCommitGrows ==
  ASSUME Inv, CommitInv, NEW r \in appendRpcs, FollowCommit(r)
  PROVE  CommitGrows(r.to)
<1> DEFINE s == r.to
           c == commitIndex[s]
           k == r.leaderCommit
           n == LastNew(r)
           m == TermLog(r.term)
           d == FollowedCommit(c, k, n)
<1>1. /\ s \in Server /\ c \in Nat /\ k \in Nat /\ n \in Nat /\ r.term \in Nat
      /\ m \in Seq(Entry) /\ log[s] \in Seq(Entry) /\ applied \in [Server -> Seq(Entry \cup {Wild})]
      /\ commitIndex \in [Server -> Nat]
  BY CallType, TermLogType DEF Inv, TypeInv, TypeOK
<1>2. /\ log' = log /\ currentTerm' = currentTerm
      /\ commitIndex' = [commitIndex EXCEPT ![s] = d]
      /\ applied' = [applied EXCEPT ![s] = PushedUpTo(commitIndex'[s], applied[s], log[s])]
  BY DEF FollowCommit, electionVars, LastNew
<1>3. currentTerm[s] = r.term /\ Agree(log[s], m, n)
  BY DEF FollowCommit, Inv, ReplicationInv, SectionsHold
<1>4. Covered(m, k, r.term) /\ k <= n
  BY DEF CommitInv, CommitsAreCovered
<1>5. Covered(log[s], c, r.term)
  BY <1>1, <1>3 DEF CommitInv, CommitsAreCovered
<1> HIDE DEF c, k, n, m, d
<1>6. Covered(log[s], k, r.term)
  <2>1. Agree(log[s], m, k)
    BY <1>1, <1>3, <1>4, AgreeLess
  <2>2. k <= k /\ r.term <= r.term
    <3> DEFINE t == r.term
    <3> HIDE DEF t
    <3>1. t \in Nat => t <= t
      OBVIOUS
    <3> QED  BY <1>1, <3>1 DEF t
  <2> QED  BY <1>1, <1>4, <2>1, <2>2, CoveredVia
<1>7. d \in {c, k} /\ d >= c
  BY <1>1, <1>4, FollowedCommitIs DEF d
<1>8. commitIndex'[s] = d /\ applied'[s] = PushedUpTo(commitIndex'[s], applied[s], log[s])
  BY <1>1, <1>2
<1>9. Covered(log[s], d, r.term)
  BY <1>5, <1>6, <1>7
<1> QED  BY <1>2, <1>3, <1>7, <1>8, <1>9 DEF CommitGrows, c

\* With the reply counted, what a leader takes for stored still is.
LEMMA CountedHolds ==
  ASSUME Inv, CommitInv, NEW r \in appendRpcs, CountSuccess(r), NEW p \in Peers(r.from)
  PROVE  Holds(p, currentTerm[r.from], matchIndex'[r.from][p])
<1> DEFINE s == r.from
           q == r.to
           t == currentTerm[s]
           m == matchIndex[s][q]
           n == LastNew(r)
<1>1. /\ s \in Server /\ q \in Server /\ n \in Nat /\ m \in Nat /\ p \in Server
      /\ matchIndex \in [Server -> [Server -> Nat]]
  <2>1. TypeOK
    BY DEF Inv, TypeInv
  <2>2. s \in Server /\ q \in Server /\ n \in Nat
    BY <2>1, CallType
  <2>3. matchIndex \in [Server -> [Server -> Nat]]
    BY <2>1 DEF TypeOK
  <2> QED  BY <2>2, <2>3 DEF Peers
<1>2. /\ r.stage = "checked" /\ r.success /\ state[s] = "Leader"
      /\ matchIndex' = [matchIndex EXCEPT ![s][q] = Max({m, n})]
  BY DEF CountSuccess, LastNew
<1>3. t = r.term
  BY <1>2 DEF Inv, ReplicationInv, SectionsHold
<1>4. Holds(q, t, n)
  BY <1>2, <1>3 DEF CommitInv, AcksAreTrue
<1>5. Holds(p, t, matchIndex[s][p])
  BY <1>1, <1>2 DEF CommitInv, AcksAreTrue
<1> HIDE DEF n, t, s, q
<1>6. CASE p = q
  <2>1. matchIndex'[s][p] = Max({m, n})
    BY <1>1, <1>2, <1>6
  <2>2. matchIndex'[s][p] \in {m, n}
    BY <1>1, <2>1, MaxOfTwo
  <2>3. Holds(p, t, matchIndex'[s][p])
    BY <1>4, <1>5, <1>6, <2>2
  <2> QED  BY <2>3 DEF s, t
<1>7. CASE p # q
  <2>1. matchIndex'[s][p] = matchIndex[s][p]
    BY <1>1, <1>2, <1>7
  <2>2. Holds(p, t, matchIndex'[s][p])
    BY <1>5, <2>1
  <2> QED  BY <2>2 DEF s, t
<1> QED  BY <1>6, <1>7

LEMMA CountSuccessGrows ==
  ASSUME Inv, Inv', CommitInv, NEW r \in appendRpcs, CountSuccess(r)
  PROVE  CommitGrows(r.from)
<1> DEFINE s == r.from
           c == commitIndex[s]
           t == currentTerm[s]
           l == log[s]
           d == commitIndex'[s]
<1>1. /\ s \in Server /\ c \in Nat /\ t \in Nat /\ l \in Seq(Entry) /\ d \in Nat
      /\ matchIndex'[s] \in [Server -> Nat] /\ commitIndex \in [Server -> Nat]
      /\ applied \in [Server -> Seq(Entry \cup {Wild})]
  BY CallType DEF Inv, TypeInv, TypeOK
<1>2. PICK match \in [Server -> Nat] : match = matchIndex'[s]
  BY <1>1
<1>3. /\ log' = log /\ currentTerm' = currentTerm /\ state[s] = "Leader"
      /\ commitIndex' = [commitIndex EXCEPT ![s] = CommitRule(l, t, c, Held(s, match))]
      /\ applied' = [applied EXCEPT ![s] = PushedUpTo(d, applied[s], l)]
  BY <1>2 DEF CountSuccess, electionVars
<1>4. \A p \in Peers(s) : Holds(p, t, match[p])
  BY <1>2, CountedHolds
<1>5. Covered(l, c, t)
  BY <1>1 DEF CommitInv, CommitsAreCovered
<1>6. d = CommitRule(l, t, c, Held(s, match)) /\ applied'[s] = PushedUpTo(d, applied[s], l)
  BY <1>1, <1>3
<1>7. Held(s, match) \in SUBSET DOMAIN l
  BY DEF Held
<1>8. d = c \/ (d \in Held(s, match) /\ d > c /\ l[d].term = t)
  <2> HIDE DEF c, t, l, d
  <2> QED  BY <1>1, <1>6, <1>7, CommitRuleIs
<1>9. Covered(l, d, t)
  <2>1. CASE d = c
    BY <1>5, <2>1
  <2>2. CASE d \in Held(s, match) /\ l[d].term = t
    <3>1. PICK n \in Held(s, match) : n = d
      BY <2>2
    <3>2. Committed(n, t) /\ l = termLog[t] /\ t \in DOMAIN termLog
      BY <1>1, <1>3, <1>4, <2>2, <3>1, HeldIsCommitted
    <3>3. n \in DOMAIN termLog[t] /\ n \in Nat /\ n <= Len(l)
      BY <1>1, <1>7, <3>1, <3>2
    <3>4. Agree(l, termLog[t], n)
      BY <1>1, <3>2, <3>3, AgreeSelf
    <3>5. Covered(l, n, t)
      <4>1. t <= t /\ n <= n
        BY <1>1, <3>3
      <4> QED  BY <3>2, <3>3, <3>4, <4>1 DEF Covered
    <3> QED  BY <3>1, <3>5
  <2> QED  BY <1>8, <2>1, <2>2
<1>10. d >= c
  <2> HIDE DEF d, c, l, t
  <2> QED  BY <1>1, <1>8
<1> QED  BY <1>3, <1>6, <1>9, <1>10 DEF CommitGrows

\* A node's commit index stays, starts again, or grows; so does what it pushed.
LEMMA CommitCases ==
  ASSUME Inv, Inv', CommitInv, CommitMoves, NEW s \in Server
  PROVE  \/ commitIndex'[s] = commitIndex[s] /\ applied'[s] = applied[s]
         \/ commitIndex'[s] = 0 /\ applied'[s] = << >> /\ restarts' # restarts
         \/ CommitGrows(s)
<1>1. ASSUME Restart(s)
      PROVE  commitIndex'[s] = 0 /\ applied'[s] = << >> /\ restarts' # restarts
  <2>1. restarts \in Nat
    BY DEF Inv, TypeInv, TypeOK
  <2> QED  BY <1>1, <2>1 DEF Restart, Reboot, Inv, TypeInv, TypeOK
<1>2. \A r \in appendRpcs : r.to = s /\ FollowCommit(r) => CommitGrows(s)
  BY FollowCommitGrows
<1>3. \A r \in appendRpcs : r.from = s /\ CountSuccess(r) => CommitGrows(s)
  BY CountSuccessGrows
<1> QED  BY <1>1, <1>2, <1>3 DEF CommitMoves

-----------------------------------------------------------------------------
(* The invariant.                                                          *)

\* The beginning of a covered log is covered after the step too.
LEMMA CoveredNext ==
  ASSUME Inv, Inv', StepFacts, NEW l \in Seq(Entry), NEW c \in Nat, NEW u \in Nat,
         Covered(l, c, u), NEW k \in Seq(Entry), Agree(k, l, c), NEW w \in Nat, u <= w
  PROVE  Covered(k, c, w)'
<1>1. c <= c
  OBVIOUS
<1>2. Covered(k, c, w)
  BY <1>1, CoveredVia
<1> QED  BY <1>2, CoveredStays

LEMMA CommitsAreCoveredStep ==
  ASSUME Inv, Inv', StepFacts, CommitInv, CommitMoves
  PROVE  CommitsAreCovered'
<1>1. ASSUME NEW s \in Server
      PROVE  Covered(log[s], commitIndex[s], currentTerm[s])'
  <2>0. /\ log[s] \in Seq(Entry) /\ log'[s] \in Seq(Entry) /\ commitIndex[s] \in Nat
        /\ commitIndex'[s] \in Nat /\ currentTerm[s] \in Nat /\ currentTerm'[s] \in Nat
        /\ currentTerm[s] <= currentTerm'[s]
    BY DEF Inv, TypeInv, TypeOK, StepFacts, RolesMove
  <2>1. CASE commitIndex'[s] = 0
    BY <2>1 DEF Covered
  <2>2. ASSUME Covered(log[s], commitIndex'[s], currentTerm[s]),
               Agree(log'[s], log[s], commitIndex'[s])
        PROVE  Covered(log[s], commitIndex[s], currentTerm[s])'
    <3>1. PICK k \in Seq(Entry) : k = log'[s]
      BY <2>0
    <3>2. PICK c \in Nat : c = commitIndex'[s]
      BY <2>0
    <3>3. PICK w \in Nat : w = currentTerm'[s]
      BY <2>0
    <3>4. Covered(k, c, w)'
      BY <2>0, <2>2, <3>1, <3>2, <3>3, CoveredNext
    <3> QED  BY <3>1, <3>2, <3>3, <3>4 DEF Covered
  <2>3. CASE commitIndex'[s] = commitIndex[s]
    <3>1. Covered(log[s], commitIndex[s], currentTerm[s])
      BY DEF CommitInv, CommitsAreCovered
    <3> QED  BY <2>2, <2>3, <3>1, CommittedPartStays
  <2>4. CASE CommitGrows(s)
    <3>1. Covered(log[s], commitIndex'[s], currentTerm[s]) /\ log'[s] = log[s]
      BY <2>4 DEF CommitGrows
    <3>2. commitIndex'[s] <= Len(log[s])
      BY <2>0, <3>1, CoveredBelow
    <3> QED  BY <2>0, <2>2, <3>1, <3>2, AgreeSelf
  <2> QED  BY <2>1, <2>3, <2>4, CommitCases
<1>2. ASSUME NEW x \in appendRpcs', NEW r \in appendRpcs, SameCall(x, r)
      PROVE  Covered(TermLog(x.term), x.leaderCommit, x.term)' /\ x.leaderCommit <= LastNew(x)
  <2> DEFINE t == r.term
             c == r.leaderCommit
             m == TermLog(t)
             k == LogOf(termLog', t)
  <2>1. x.term = t /\ x.leaderCommit = c /\ LastNew(x) = LastNew(r)
    BY <1>2 DEF SameCall, LastNew
  <2>2. t \in Nat /\ c \in Nat /\ Covered(m, c, t) /\ c <= LastNew(r)
    BY CallType DEF CommitInv, CommitsAreCovered, Inv, TypeInv
  <2>3. t \in DOMAIN termLog /\ m = termLog[t] /\ m \in Seq(Entry)
    <3>1. LeadsTerm(r.from, r.term)
      BY DEF Inv, ReplicationInv, AppendCallsTellLog
    <3> QED  BY <3>1, CallLog DEF Inv, TypeInv, ReplicationInv
  <2>4. Agree(m, k, Len(m)) /\ k \in Seq(Entry)
    BY <2>3 DEF StepFacts, TermLogGrows, LogOf, Inv, TypeInv, TypeOK
  <2>5. PICK l \in Seq(Entry) : l = k
    BY <2>4
  <2>6. PICK a \in Seq(Entry) : a = m
    BY <2>3
  <2> HIDE DEF m, k, c, t
  <2>7. Agree(l, a, c)
    <3>1. c <= Len(a) /\ Len(a) \in Nat
      BY <2>2, <2>6, CoveredBelow
    <3>2. Agree(a, l, c)
      BY <2>2, <2>4, <2>5, <2>6, <3>1, AgreeLess
    <3> QED  BY <2>2, <3>2, AgreeBack
  <2>8. t <= t
    BY <2>2
  <2>9. Covered(l, c, t)'
    BY <2>2, <2>6, <2>7, <2>8, CoveredNext
  <2>10. Covered(TermLog(x.term), x.leaderCommit, x.term)'
    BY <2>1, <2>5, <2>9 DEF Covered, TermLog, k
  <2> QED  BY <2>1, <2>2, <2>10
<1>3. ASSUME NEW s \in Server, NEW p \in Peers(s), SendAppendEntries(s, p),
             NEW x \in appendRpcs', x = NewCall(s, p)
      PROVE  Covered(TermLog(x.term), x.leaderCommit, x.term)' /\ x.leaderCommit <= LastNew(x)
  <2>1. /\ state[s] = "Leader"
        /\ UNCHANGED <<currentTerm, log, commitIndex, termLog>>
    BY <1>3 DEF SendAppendEntries, electionVars, logVars, historyVars, takenVars
  <2>2. x.term = currentTerm[s] /\ x.leaderCommit = commitIndex[s]
    BY <1>3 DEF NewCall
  <2>3. log[s] = TermLog(currentTerm[s])
    BY <2>1 DEF Inv, ReplicationInv, LeaderHasTermLog
  <2>4. Covered(log[s], commitIndex[s], currentTerm[s])'
    BY <1>1
  <2>5. Covered(TermLog(x.term), x.leaderCommit, x.term)'
    BY <2>1, <2>2, <2>3, <2>4 DEF Covered, TermLog
  <2>6. LastNew(x) = Len(log[s])
    <3> DEFINE prev == nextIndex[s][p] - 1
               l == log[s]
    <3>1. nextIndex[s][p] \in 1 .. Len(l) + 1 /\ l \in Seq(Entry)
      BY <2>1 DEF Inv, ReplicationInv, NextIndexInLog, TypeInv, TypeOK
    <3>2. prev \in 0..Len(l)
      BY <3>1
    <3>3. LastNew(x) = prev + Len(SubSeq(l, prev + 1, Len(l)))
      BY <1>3 DEF NewCall, LastNew
    <3> HIDE DEF prev, l
    <3>4. LastNew(x) = Len(l)
      BY <3>1, <3>2, <3>3
    <3> QED  BY <3>4 DEF l
  <2>7. commitIndex[s] <= Len(log[s])
    BY CoveredBelow DEF Inv, TypeInv, TypeOK, CommitInv, CommitsAreCovered
  <2> QED  BY <2>2, <2>5, <2>6, <2>7
<1>4. ASSUME NEW x \in appendRpcs'
      PROVE  Covered(TermLog(x.term), x.leaderCommit, x.term)' /\ x.leaderCommit <= LastNew(x)
  <2>1. CASE \E s \in Server : \E p \in Peers(s) : SendAppendEntries(s, p) /\ x = NewCall(s, p)
    <3>1. PICK s \in Server : \E p \in Peers(s) : SendAppendEntries(s, p) /\ x = NewCall(s, p)
      BY <2>1
    <3>2. PICK p \in Peers(s) : SendAppendEntries(s, p) /\ x = NewCall(s, p)
      BY <3>1
    <3> QED  BY <1>3, <3>2
  <2>2. CASE \E r \in appendRpcs : SameCall(x, r)
    BY <1>2, <2>2
  <2> QED  BY <2>1, <2>2 DEF StepFacts, AppendCallsMove
<1> QED  BY <1>1, <1>4 DEF CommitsAreCovered

LEMMA AppliesCommittedStep ==
  ASSUME Inv, Inv', StepFacts, CommitInv, CommitMoves
  PROVE  AppliesCommitted'
<1> SUFFICES ASSUME NEW s \in Server
             PROVE  /\ Agree(applied'[s], log'[s], Len(applied'[s]))
                    /\ Len(applied'[s]) <= commitIndex'[s]
  BY DEF AppliesCommitted
<1> DEFINE a == applied[s]
           b == applied'[s]
           l == log[s]
           m == log'[s]
           c == commitIndex[s]
           d == commitIndex'[s]
<1>1. /\ a \in Seq(Entry \cup {Wild}) /\ b \in Seq(Entry \cup {Wild})
      /\ l \in Seq(Entry) /\ m \in Seq(Entry) /\ c \in Nat /\ d \in Nat
  BY DEF Inv, TypeInv, TypeOK
<1>2. Agree(a, l, Len(a)) /\ Len(a) <= c
  BY DEF CommitInv, AppliesCommitted
<1>3. Agree(m, l, c)
  BY CommittedPartStays
<1>4. CASE b = a /\ d = c
  <2> HIDE DEF a, b, c, d, l, m
  <2>1. Agree(b, m, Len(b)) /\ Len(b) <= d
    BY <1>1, <1>2, <1>3, <1>4 DEF Agree
  <2> QED  BY <2>1 DEF b, m, d
<1>5. CASE b = << >>
  <2> HIDE DEF a, b, c, d, l, m
  <2>1. Agree(b, m, Len(b)) /\ Len(b) <= d
    BY <1>1, <1>5 DEF Agree
  <2> QED  BY <2>1 DEF b, m, d
<1>6. CASE CommitGrows(s)
  <2>1. m = l /\ d >= c /\ Covered(l, d, currentTerm[s]) /\ b = PushedUpTo(d, a, l)
    BY <1>6 DEF CommitGrows
  <2>2. d <= Len(l)
    BY <1>1, <2>1, CoveredBelow DEF Inv, TypeInv, TypeOK
  <2> HIDE DEF a, b, c, d, l, m
  <2>3. Len(a) <= d
    BY <1>1, <1>2, <2>1
  <2>4. Agree(b, l, d) /\ Len(b) = d
    BY <1>1, <1>2, <2>1, <2>2, <2>3, PushedUpToIs
  <2>5. Agree(b, m, Len(b)) /\ Len(b) <= d
    BY <1>1, <2>1, <2>4
  <2> QED  BY <2>5 DEF b, m, d
<1>7. (b = a /\ d = c) \/ b = << >> \/ CommitGrows(s)
  BY CommitCases
<1> QED  BY <1>4, <1>5, <1>6, <1>7

LEMMA AcksAreTrueStep ==
  ASSUME Inv, Inv', StepFacts, CommitInv
  PROVE  AcksAreTrue'
<1>1. ASSUME NEW s \in Server, NEW p \in Peers(s), state'[s] = "Leader"
      PROVE  Holds(p, currentTerm[s], matchIndex[s][p])'
  <2>0. /\ p \in Server /\ currentTerm'[s] = currentTerm[s] /\ currentTerm[s] \in Nat
        /\ matchIndex'[s][p] \in Nat
    BY <1>1 DEF Peers, Inv, TypeInv, TypeOK, StepFacts, RolesMove
  <2>1. CASE BecomeLeader(s)
    <3>1. matchIndex'[s][p] = 0
      BY <2>0, <2>1 DEF BecomeLeader, Inv, TypeInv, TypeOK
    <3> QED  BY <3>1 DEF Holds
  <2>2. ASSUME Holds(p, currentTerm[s], matchIndex'[s][p])
        PROVE  Holds(p, currentTerm[s], matchIndex[s][p])'
    <3>1. PICK t \in Nat : t = currentTerm[s]
      BY <2>0
    <3>2. PICK m \in Nat : m = matchIndex'[s][p]
      BY <2>0
    <3>3. Holds(p, t, m)'
      BY <2>0, <2>2, <3>1, <3>2, HoldsStays
    <3> QED  BY <2>0, <3>1, <3>2, <3>3 DEF Holds, TermLog
  <2>3. CASE state[s] = "Leader" /\ matchIndex'[s][p] = matchIndex[s][p]
    <3>1. Holds(p, currentTerm[s], matchIndex[s][p])
      BY <2>3 DEF CommitInv, AcksAreTrue
    <3> QED  BY <2>2, <2>3, <3>1
  <2>4. ASSUME NEW r \in appendRpcs, r.from = s, CountSuccess(r)
        PROVE  Holds(p, currentTerm[s], matchIndex'[s][p])
    BY <2>4, CountedHolds
  <2> QED  BY <1>1, <2>1, <2>2, <2>3, <2>4 DEF StepFacts, IndexesMove
<1>2. ASSUME NEW x \in appendRpcs', NEW r \in appendRpcs, SameCall(x, r),
             Holds(r.to, r.term, LastNew(r))
      PROVE  Holds(x.to, x.term, LastNew(x))'
  <2>1. r.to \in Server /\ r.term \in Nat /\ LastNew(r) \in Nat
    BY CallType DEF Inv, TypeInv
  <2>2. Holds(r.to, r.term, LastNew(r))'
    BY <1>2, <2>1, HoldsStays
  <2>3. x.to = r.to /\ x.term = r.term /\ LastNew(x) = LastNew(r)
    BY <1>2 DEF SameCall, LastNew
  <2> QED  BY <2>2, <2>3
<1>3. ASSUME NEW x \in appendRpcs', NEW r \in appendRpcs, SameCall(x, r),
             x.stage \in {"replied", "checked"}, x.success,
             (x.stage = r.stage /\ x.success = r.success) \/ Proceeds(r, x)
      PROVE  Holds(r.to, r.term, LastNew(r))
  <2>1. CASE r.stage \in {"replied", "checked"} /\ r.success
    BY <2>1 DEF CommitInv, AcksAreTrue
  <2>2. CASE FollowCommit(r)
    <3>1. currentTerm[r.to] = r.term /\ Agree(log[r.to], TermLog(r.term), LastNew(r))
      BY <2>2 DEF FollowCommit, Inv, ReplicationInv, SectionsHold
    <3>2. r.to \in Server /\ LastNew(r) \in Nat
      BY CallType DEF Inv, TypeInv
    <3> QED  BY <3>1, <3>2, AgreesHolds
  <2>3. CheckReply(r) => r.stage = "replied"
    BY DEF CheckReply, CurrentReply
  <2> QED  BY <1>3, <2>1, <2>2, <2>3 DEF Proceeds
<1>4. ASSUME NEW x \in appendRpcs', x.stage \in {"replied", "checked"}, x.success
      PROVE  Holds(x.to, x.term, LastNew(x))'
  <2>1. ASSUME NEW s \in Server, NEW p \in Peers(s), x = NewCall(s, p) PROVE FALSE
    BY <1>4, <2>1 DEF NewCall
  <2> QED  BY <1>2, <1>3, <1>4, <2>1 DEF StepFacts, AppendCallsMove
<1> QED  BY <1>1, <1>4 DEF AcksAreTrue, Peers

LEMMA InitCommitInv == Init => CommitInv
BY DEF Init, CommitInv, CommitsAreCovered, Covered, AppliesCommitted, Agree, AcksAreTrue,
       Holds, Peers

LEMMA StepCommitInv ==
  ASSUME TrustedElections, ~Preemptible, Inv, CommitInv, [Next]_vars
  PROVE  Inv' /\ CommitInv' /\ StepFacts /\ CommitMoves
<1>1. Inv' /\ StepFacts
  BY InvStep
<1>2. CommitMoves
  BY CommitsStep DEF Inv
<1>3. CommitsAreCovered' /\ AppliesCommitted' /\ AcksAreTrue'
  BY <1>1, <1>2, CommitsAreCoveredStep, AppliesCommittedStep, AcksAreTrueStep
<1> QED  BY <1>1, <1>2, <1>3 DEF CommitInv

-----------------------------------------------------------------------------

FullInv == Inv /\ CommitInv

LEMMA InitFullInv == Init => FullInv
BY InitTypeInv, InitElectionInv, InitReplicationInv, InitCommitInv DEF FullInv, Inv

LEMMA StepFullInv ==
  ASSUME TrustedElections, ~Preemptible
  PROVE  FullInv /\ [Next]_vars => FullInv'
BY StepCommitInv DEF FullInv

-----------------------------------------------------------------------------
(* What was pushed.                                                        *)

\* What a node has pushed is its log as far as it goes, and no more than it committed.
LEMMA AppliedIs ==
  ASSUME FullInv, NEW s \in Server
  PROVE  /\ applied[s] \in Seq(Entry \cup {Wild}) /\ log[s] \in Seq(Entry)
         /\ commitIndex[s] \in Nat /\ currentTerm[s] \in Nat
         /\ Agree(applied[s], log[s], Len(applied[s])) /\ Len(applied[s]) <= commitIndex[s]
         /\ Covered(log[s], commitIndex[s], currentTerm[s])
BY DEF FullInv, Inv, TypeInv, TypeOK, CommitInv, CommitsAreCovered, AppliesCommitted

\* The log of some leader, up to an entry of its own that is committed, has all of it.
LEMMA AppliedIsCommitted ==
  ASSUME FullInv, NEW s \in Server, applied[s] # << >>
  PROVE  \E t \in DOMAIN termLog : \E n \in DOMAIN termLog[t] :
           /\ t \in Nat /\ n \in Nat /\ t <= currentTerm[s] /\ Committed(n, t)
           /\ Has(termLog[t], n, t)
           /\ Agree(applied[s], termLog[t], Len(applied[s])) /\ Len(applied[s]) <= n
<1> DEFINE a == applied[s]
           l == log[s]
           c == commitIndex[s]
<1>1. /\ a \in Seq(Entry \cup {Wild}) /\ l \in Seq(Entry) /\ c \in Nat
      /\ Agree(a, l, Len(a)) /\ Len(a) <= c /\ Covered(l, c, currentTerm[s])
  BY AppliedIs
<1>2. c # 0
  BY <1>1
<1> HIDE DEF a, l, c
<1>3. PICK t \in DOMAIN termLog : \E n \in DOMAIN termLog[t] :
        /\ t \in Nat /\ n \in Nat /\ t <= currentTerm[s] /\ c <= n /\ n <= Len(termLog[t])
        /\ Committed(n, t) /\ Has(termLog[t], n, t) /\ Agree(l, termLog[t], c)
  BY <1>1, <1>2, CoverIs DEF FullInv
<1>4. PICK n \in DOMAIN termLog[t] :
        /\ t \in Nat /\ n \in Nat /\ t <= currentTerm[s] /\ c <= n /\ n <= Len(termLog[t])
        /\ Committed(n, t) /\ Has(termLog[t], n, t) /\ Agree(l, termLog[t], c)
  BY <1>3
<1>5. Agree(a, termLog[t], Len(a)) /\ Len(a) <= n
  BY <1>1, <1>4 DEF Agree
<1> QED  BY <1>4, <1>5 DEF a

\* So every log with that entry begins with what was pushed.
LEMMA AppliedIn ==
  ASSUME FullInv, NEW s \in Server, NEW t \in DOMAIN termLog, NEW n \in Nat,
         Has(termLog[t], n, t), Agree(applied[s], termLog[t], Len(applied[s])),
         Len(applied[s]) <= n,
         NEW k \in Seq(Entry), NEW u, Sound(k, u, termLog), Has(k, n, t)
  PROVE  IsPrefix(applied[s], k)
<1> DEFINE a == applied[s]
           m == termLog[t]
<1>1. a \in Seq(Entry \cup {Wild}) /\ k \in Seq(Entry \cup {Wild})
  BY AppliedIs
<1>2. m \in Seq(Entry) /\ Sound(m, t, termLog) /\ TypeOK
  BY LogTypes DEF FullInv
<1>3. Agree(m, k, n)
  BY <1>2, HaveSame
<1> HIDE DEF a, m
<1>4. Agree(a, m, Len(a)) /\ Len(a) <= n
  BY DEF a, m
<1>5. Agree(a, k, Len(a))
  BY <1>1, <1>2, <1>3, <1>4 DEF Agree
<1>6. IsPrefix(a, k)
  BY <1>1, <1>5, AgreeIsPrefix
<1> QED  BY <1>6 DEF a

LEMMA NothingIsPrefix ==
  ASSUME NEW l \in Seq(Entry \cup {Wild})
  PROVE  IsPrefix(<< >>, l)
BY DEF IsPrefix

\* The nodes that acknowledged a committed entry have it.
LEMMA HaveCommitted ==
  ASSUME FullInv, NEW n \in Nat, NEW t \in Nat, Committed(n, t)
  PROVE  \E Q \in SUBSET Server : /\ IsMajority(Cardinality(Q))
                                  /\ \A q \in Q : Has(log[q], n, t)
<1>1. PICK Q \in SUBSET Server : IsMajority(Cardinality(Q)) /\ \A q \in Q : Acked(q, n, t)
  BY DEF Committed
<1>2. ASSUME NEW q \in Q PROVE Has(log[q], n, t)
  BY <1>1, CommittedNotLacked DEF Acked, FullInv
<1> QED  BY <1>1, <1>2

-----------------------------------------------------------------------------
(* The properties.                                                         *)

LEMMA AcksAreStored == FullInv => AckedEntriesAreStored
<1> SUFFICES ASSUME FullInv, NEW s \in Server, NEW p \in Peers(s),
                    state[s] = "Leader", currentTerm[p] <= currentTerm[s]
             PROVE  /\ matchIndex[s][p] <= Len(log[p])
                    /\ IsPrefix(SubSeq(log[p], 1, matchIndex[s][p]), log[s])
  BY DEF AckedEntriesAreStored
<1> DEFINE t == currentTerm[s]
           m == matchIndex[s][p]
           a == log[p]
           l == log[s]
<1>1. /\ p \in Server /\ t \in Nat /\ currentTerm[p] \in Nat /\ m \in Nat
      /\ a \in Seq(Entry) /\ l \in Seq(Entry) /\ l = TermLog(t)
  BY DEF FullInv, Inv, TypeInv, TypeOK, ReplicationInv, LeaderHasTermLog, Peers
<1>2. Holds(p, t, m)
  BY DEF FullInv, CommitInv, AcksAreTrue
<1> HIDE DEF t, m, a, l
<1>3. Agree(a, l, m)
  <2>1. CASE m = 0
    BY <1>1, <2>1 DEF Agree
  <2>2. CASE m # 0
    <3>1. currentTerm[p] >= t /\ (currentTerm[p] = t => Agree(a, l, m))
      BY <1>1, <1>2, <2>2 DEF Holds, a
    <3>2. currentTerm[p] <= t
      BY DEF t
    <3> QED  BY <1>1, <3>1, <3>2
  <2> QED  BY <2>1, <2>2
<1>4. m <= Len(a)
  BY <1>3 DEF Agree
<1>5. SubSeq(a, 1, m) \in Seq(Entry) /\ Len(SubSeq(a, 1, m)) = m /\ Agree(SubSeq(a, 1, m), a, m)
  BY <1>1, <1>4, SubSeqAgrees
<1>6. m <= m
  BY <1>1
<1>7. Agree(SubSeq(a, 1, m), l, m)
  BY <1>1, <1>3, <1>5, <1>6, AgreeVia
<1>8. IsPrefix(SubSeq(a, 1, m), l)
  BY <1>1, <1>5, <1>7, PrefixIsAgree
<1> QED  BY <1>4, <1>8 DEF a, l, m

LEMMA AppliedAreOwn == FullInv => AppliesOwnLog
<1> SUFFICES ASSUME FullInv, NEW s \in Server PROVE IsPrefix(applied[s], log[s])
  BY DEF AppliesOwnLog
<1>1. /\ applied[s] \in Seq(Entry \cup {Wild}) /\ log[s] \in Seq(Entry \cup {Wild})
      /\ Agree(applied[s], log[s], Len(applied[s]))
  BY AppliedIs
<1> QED  BY <1>1, AgreeIsPrefix

\* Of two leaders' logs, the later has what was committed in the earlier.
LEMMA AppliedBefore ==
  ASSUME FullInv, NEW s \in Server, NEW t \in DOMAIN termLog, NEW n \in Nat, Committed(n, t),
         Has(termLog[t], n, t), Agree(applied[s], termLog[t], Len(applied[s])),
         Len(applied[s]) <= n, NEW u \in DOMAIN termLog, t <= u
  PROVE  IsPrefix(applied[s], termLog[u])
<1>1. t \in Nat /\ termLog[u] \in Seq(Entry) /\ Sound(termLog[u], u, termLog)
  BY LogTypes DEF FullInv
<1>2. Has(termLog[u], n, t)
  BY <1>1, LeadersHaveCommitted DEF FullInv
<1> QED  BY <1>1, <1>2, AppliedIn

LEMMA AppliedAgree == FullInv => StateMachineSafety
<1> SUFFICES ASSUME FullInv, NEW s \in Server, NEW p \in Server
             PROVE  IsPrefix(applied[s], applied[p]) \/ IsPrefix(applied[p], applied[s])
  BY DEF StateMachineSafety
<1>1. applied[s] \in Seq(Entry \cup {Wild}) /\ applied[p] \in Seq(Entry \cup {Wild})
  BY AppliedIs
<1>2. CASE applied[s] = << >> \/ applied[p] = << >>
  BY <1>1, <1>2, NothingIsPrefix
<1>3. CASE applied[s] # << >> /\ applied[p] # << >>
  <2>1. PICK t \in DOMAIN termLog : \E n \in DOMAIN termLog[t] :
           /\ t \in Nat /\ n \in Nat /\ t <= currentTerm[s] /\ Committed(n, t)
           /\ Has(termLog[t], n, t)
           /\ Agree(applied[s], termLog[t], Len(applied[s])) /\ Len(applied[s]) <= n
    BY <1>3, AppliedIsCommitted
  <2>2. PICK n \in DOMAIN termLog[t] :
           /\ t \in Nat /\ n \in Nat /\ t <= currentTerm[s] /\ Committed(n, t)
           /\ Has(termLog[t], n, t)
           /\ Agree(applied[s], termLog[t], Len(applied[s])) /\ Len(applied[s]) <= n
    BY <2>1
  <2>3. PICK u \in DOMAIN termLog : \E i \in DOMAIN termLog[u] :
           /\ u \in Nat /\ i \in Nat /\ u <= currentTerm[p] /\ Committed(i, u)
           /\ Has(termLog[u], i, u)
           /\ Agree(applied[p], termLog[u], Len(applied[p])) /\ Len(applied[p]) <= i
    BY <1>3, AppliedIsCommitted
  <2>4. PICK i \in DOMAIN termLog[u] :
           /\ u \in Nat /\ i \in Nat /\ u <= currentTerm[p] /\ Committed(i, u)
           /\ Has(termLog[u], i, u)
           /\ Agree(applied[p], termLog[u], Len(applied[p])) /\ Len(applied[p]) <= i
    BY <2>3
  <2>5. t <= t /\ u <= u /\ (t <= u \/ u <= t)
    BY <2>2, <2>4
  <2>6. ASSUME NEW f \in DOMAIN termLog, t <= f, u <= f
        PROVE  IsPrefix(applied[s], applied[p]) \/ IsPrefix(applied[p], applied[s])
    <3>1. IsPrefix(applied[s], termLog[f])
      BY <2>2, <2>6, AppliedBefore
    <3>2. IsPrefix(applied[p], termLog[f])
      BY <2>4, <2>6, AppliedBefore
    <3>3. termLog[f] \in Seq(Entry \cup {Wild})
      BY LogTypes DEF FullInv
    <3> QED  BY <1>1, <3>1, <3>2, <3>3, TwoPrefixes
  <2> QED  BY <2>5, <2>6
<1> QED  BY <1>2, <1>3

LEMMA LeadersComplete == FullInv => LeaderCompleteness
<1> SUFFICES ASSUME FullInv, NEW s \in Server, NEW p \in Server,
                    state[s] = "Leader", currentTerm[p] <= currentTerm[s]
             PROVE  IsPrefix(applied[p], log[s])
  BY DEF LeaderCompleteness
<1>1. log[s] \in Seq(Entry \cup {Wild}) /\ currentTerm[s] \in Nat /\ currentTerm[p] \in Nat
  BY AppliedIs
<1>2. CASE applied[p] = << >>
  BY <1>1, <1>2, NothingIsPrefix
<1>3. CASE applied[p] # << >>
  <2>1. PICK t \in DOMAIN termLog : \E n \in DOMAIN termLog[t] :
           /\ t \in Nat /\ n \in Nat /\ t <= currentTerm[p] /\ Committed(n, t)
           /\ Has(termLog[t], n, t)
           /\ Agree(applied[p], termLog[t], Len(applied[p])) /\ Len(applied[p]) <= n
    BY <1>3, AppliedIsCommitted
  <2>2. PICK n \in DOMAIN termLog[t] :
           /\ t \in Nat /\ n \in Nat /\ t <= currentTerm[p] /\ Committed(n, t)
           /\ Has(termLog[t], n, t)
           /\ Agree(applied[p], termLog[t], Len(applied[p])) /\ Len(applied[p]) <= n
    BY <2>1
  <2>3. LeadsTerm(s, currentTerm[s]) /\ log[s] = TermLog(currentTerm[s])
    BY DEF FullInv, Inv, ReplicationInv, LeaderHasTermLog
  <2>4. currentTerm[s] \in DOMAIN termLog
    BY <2>3 DEF LeadsTerm, FullInv, Inv, ReplicationInv, ReignsOnce
  <2>5. log[s] = termLog[currentTerm[s]]
    BY <2>3, <2>4 DEF TermLog, LogOf
  <2>6. t <= currentTerm[s]
    BY <1>1, <2>2
  <2> QED  BY <2>2, <2>4, <2>5, <2>6, AppliedBefore
<1> QED  BY <1>2, <1>3

LEMMA ElectableHave == FullInv => ElectableHasApplied
<1> SUFFICES ASSUME FullInv, NEW s \in Server, NEW p \in Server,
                    IsMajority(Cardinality({q \in Server :
                      UpToDate(LastTerm(log[s]), Len(log[s]), log[q])}))
             PROVE  IsPrefix(applied[p], log[s])
  BY DEF ElectableHasApplied
<1>1. log[s] \in Seq(Entry \cup {Wild})
  BY AppliedIs
<1>2. CASE applied[p] = << >>
  BY <1>1, <1>2, NothingIsPrefix
<1>3. CASE applied[p] # << >>
  <2>1. PICK t \in DOMAIN termLog : \E n \in DOMAIN termLog[t] :
           /\ t \in Nat /\ n \in Nat /\ t <= currentTerm[p] /\ Committed(n, t)
           /\ Has(termLog[t], n, t)
           /\ Agree(applied[p], termLog[t], Len(applied[p])) /\ Len(applied[p]) <= n
    BY <1>3, AppliedIsCommitted
  <2>2. PICK n \in DOMAIN termLog[t] :
           /\ t \in Nat /\ n \in Nat /\ t <= currentTerm[p] /\ Committed(n, t)
           /\ Has(termLog[t], n, t)
           /\ Agree(applied[p], termLog[t], Len(applied[p])) /\ Len(applied[p]) <= n
    BY <2>1
  <2>3. PICK Q \in SUBSET Server : IsMajority(Cardinality(Q)) /\ \A q \in Q : Has(log[q], n, t)
    BY <2>2, HaveCommitted
  <2>4. PICK q \in Server : /\ q \in Q
                            /\ UpToDate(LastTerm(log[s]), Len(log[s]), log[q])
    <3> DEFINE R == {q \in Server : UpToDate(LastTerm(log[s]), Len(log[s]), log[q])}
    <3>1. R \in SUBSET Server /\ IsMajority(Cardinality(R))
      OBVIOUS
    <3>2. \A q \in R : UpToDate(LastTerm(log[s]), Len(log[s]), log[q])
      OBVIOUS
    <3> HIDE DEF R
    <3>3. PICK q \in Server : q \in Q /\ q \in R
      BY <2>3, <3>1, MajoritiesMeet
    <3> QED  BY <3>2, <3>3
  <2>5. /\ log[q] \in Seq(Entry) /\ log[s] \in Seq(Entry)
        /\ Sound(log[q], currentTerm[q], termLog) /\ Sound(log[s], currentTerm[s], termLog)
    BY LogTypes DEF FullInv
  <2>6. Has(log[s], n, t) \/ LackedBy(n, t, LastTerm(log[s]), termLog)
    BY <2>2, <2>3, <2>4, <2>5, BetterLogHas DEF FullInv
  <2>7. Has(log[s], n, t)
    BY <2>2, <2>6, CommittedNotLacked DEF FullInv
  <2> QED  BY <2>2, <2>5, <2>7, AppliedIn
<1> QED  BY <1>2, <1>3

LEMMA AppliedIsStored == FullInv => AppliedIsDurable
<1> SUFFICES ASSUME FullInv, NEW s \in Server
             PROVE  IsMajority(Cardinality({q \in Server : IsPrefix(applied[s], persisted[q].log)}))
  BY DEF AppliedIsDurable
<1> DEFINE R == {q \in Server : IsPrefix(applied[s], persisted[q].log)}
<1>0. \A q \in Server : persisted[q].log = log[q] /\ log[q] \in Seq(Entry \cup {Wild})
  BY AppliedIs DEF FullInv, Inv, ReplicationInv, LogPersisted
<1>1. CASE applied[s] = << >>
  <2>1. R = Server
    BY <1>0, <1>1, NothingIsPrefix
  <2> DEFINE n == Cardinality(Server)
  <2>2. n \in Nat /\ n # 0
    BY ServerAssumption, FS_CardinalityType, FS_EmptySet
  <2> HIDE DEF n
  <2>3. n > n \div 2
    BY <2>2
  <2> QED  BY <2>1, <2>3 DEF IsMajority, n
<1>2. CASE applied[s] # << >>
  <2>1. PICK t \in DOMAIN termLog : \E n \in DOMAIN termLog[t] :
           /\ t \in Nat /\ n \in Nat /\ t <= currentTerm[s] /\ Committed(n, t)
           /\ Has(termLog[t], n, t)
           /\ Agree(applied[s], termLog[t], Len(applied[s])) /\ Len(applied[s]) <= n
    BY <1>2, AppliedIsCommitted
  <2>2. PICK n \in DOMAIN termLog[t] :
           /\ t \in Nat /\ n \in Nat /\ t <= currentTerm[s] /\ Committed(n, t)
           /\ Has(termLog[t], n, t)
           /\ Agree(applied[s], termLog[t], Len(applied[s])) /\ Len(applied[s]) <= n
    BY <2>1
  <2>3. PICK Q \in SUBSET Server : IsMajority(Cardinality(Q)) /\ \A q \in Q : Has(log[q], n, t)
    BY <2>2, HaveCommitted
  <2>4. ASSUME NEW q \in Q PROVE q \in R
    <3>1. log[q] \in Seq(Entry) /\ Sound(log[q], currentTerm[q], termLog)
      BY LogTypes DEF FullInv
    <3>2. IsPrefix(applied[s], log[q])
      BY <2>2, <2>3, <3>1, AppliedIn
    <3> QED  BY <1>0, <3>2
  <2>5. R \in SUBSET Server
    OBVIOUS
  <2> HIDE DEF R
  <2>6. IsMajority(Cardinality(R))
    BY <2>3, <2>4, <2>5, LargerMajority
  <2> QED  BY <2>6 DEF R
<1> QED  BY <1>1, <1>2

-----------------------------------------------------------------------------
(* The theorems.                                                           *)

\* What m_matchIndex says of a follower is in the follower's log, in whatever order the
\* replies of appendEntries came, for as long as the follower stays in the term.
THEOREM AcksHold ==
  ASSUME TrustedElections, ~Preemptible PROVE Spec => []AckedEntriesAreStored
<1>1. FullInv /\ [Next]_vars => FullInv'
  BY StepFullInv
<1> QED  BY <1>1, InitFullInv, AcksAreStored, PTL DEF Spec

\* The apply loops push entries of the node's own log, and never one that is not there.
THEOREM AppliesOwn ==
  ASSUME TrustedElections, ~Preemptible PROVE Spec => []AppliesOwnLog
<1>1. FullInv /\ [Next]_vars => FullInv'
  BY StepFullInv
<1> QED  BY <1>1, InitFullInv, AppliedAreOwn, PTL DEF Spec

\* What KVServer relies on: all nodes push the same entries in the same order.
THEOREM StateMachinesAgree ==
  ASSUME TrustedElections, ~Preemptible PROVE Spec => []StateMachineSafety
<1>1. FullInv /\ [Next]_vars => FullInv'
  BY StepFullInv
<1> QED  BY <1>1, InitFullInv, AppliedAgree, PTL DEF Spec

\* Whoever leads has every entry that a node of its term or a lower one has pushed.
THEOREM LeadersAreComplete ==
  ASSUME TrustedElections, ~Preemptible PROVE Spec => []LeaderCompleteness
<1>1. FullInv /\ [Next]_vars => FullInv'
  BY StepFullInv
<1> QED  BY <1>1, InitFullInv, LeadersComplete, PTL DEF Spec

\* No node that lacks a pushed entry finds a majority whose logs are no better than its
\* own: the check of requestVote lets only nodes that have them all be elected.
THEOREM ElectableComplete ==
  ASSUME TrustedElections, ~Preemptible PROVE Spec => []ElectableHasApplied
<1>1. FullInv /\ [Next]_vars => FullInv'
  BY StepFullInv
<1> QED  BY <1>1, InitFullInv, ElectableHave, PTL DEF Spec

\* Whatever a node has pushed is in the Persisters of a majority, and stays there: what
\* section 3 of appendEntries cuts was pushed by nobody.
THEOREM AppliedStaysStored ==
  ASSUME TrustedElections, ~Preemptible PROVE Spec => []AppliedIsDurable
<1>1. FullInv /\ [Next]_vars => FullInv'
  BY StepFullInv
<1> QED  BY <1>1, InitFullInv, AppliedIsStored, PTL DEF Spec

\* m_commitIndex moves back by a restart only, whatever calls arrive late.
THEOREM CommitsAdvance ==
  ASSUME TrustedElections, ~Preemptible PROVE Spec => CommitAdvances
<1>1. FullInv /\ [Next]_vars => FullInv'
  BY StepFullInv
<1> DEFINE Advances == restarts' = restarts =>
                         \A s \in Server : commitIndex'[s] >= commitIndex[s]
<1>2. FullInv /\ [Next]_vars => Advances
  <2> SUFFICES ASSUME FullInv, [Next]_vars, restarts' = restarts, NEW s \in Server
               PROVE  commitIndex'[s] >= commitIndex[s]
    OBVIOUS
  <2>1. Inv' /\ CommitMoves
    BY StepCommitInv DEF FullInv
  <2>2. commitIndex'[s] = commitIndex[s] \/ CommitGrows(s)
    BY <2>1, CommitCases DEF FullInv
  <2>3. commitIndex[s] \in Nat
    BY AppliedIs
  <2> QED  BY <2>2, <2>3 DEF CommitGrows
<1> QED  BY <1>1, <1>2, InitFullInv, PTL DEF Spec, CommitAdvances

-----------------------------------------------------------------------------
(* The nodes of module Raft implement module ReplicatedLog, which is all   *)
(* that the key-value servers know of them: every step of a node is a step *)
(* of the replicated log, or none, as long as no node restarts.            *)


\* What the mapping needs besides: terms and logs within the bounds, and every log a
\* part of one that start() made.
WithinBounds ==
  /\ \A s \in Server : currentTerm[s] <= MaxTerm /\ (electing[s] => currentTerm[s] < MaxTerm)
  /\ \A r \in voteRpcs \cup appendRpcs : r.term <= MaxTerm /\ r.replyTerm <= MaxTerm
  /\ \A s \in Server : Len(log[s]) <= MaxLogLen
  /\ \A t \in DOMAIN termLog : Len(termLog[t]) <= MaxLogLen

WasStarted(l) == l = << >> \/ \E x \in started : IsPrefix(l, x)

LogsWereStarted ==
  /\ \A s \in Server : WasStarted(log[s])
  /\ \A t \in DOMAIN termLog : WasStarted(termLog[t])

RefInv == FullInv /\ WithinBounds /\ LogsWereStarted

LEMMA InitRefInv == Init => RefInv
<1>1. Init => WithinBounds /\ LogsWereStarted
  BY BoundAssumption DEF Init, WithinBounds, LogsWereStarted, WasStarted
<1> QED  BY <1>1, InitFullInv DEF RefInv

-----------------------------------------------------------------------------
(* The bounds.                                                             *)

\* A node that leaves an election, or takes a term that is within the bound.
LEMMA FollowerInBounds ==
  ASSUME TypeOK, TypeOK', WithinBounds, NEW s \in Server, BecomeFollower(s), NEW t \in Nat,
         t <= MaxTerm, currentTerm' = currentTerm \/ currentTerm' = [currentTerm EXCEPT ![s] = t]
  PROVE  \A p \in Server : /\ currentTerm'[p] <= MaxTerm
                           /\ electing'[p] => currentTerm'[p] < MaxTerm
<1> SUFFICES ASSUME NEW p \in Server
             PROVE  currentTerm'[p] <= MaxTerm /\ (electing'[p] => currentTerm'[p] < MaxTerm)
  OBVIOUS
<1>1. CASE p = s
  <2>1. ~electing'[p] /\ currentTerm'[p] \in {currentTerm[p], t}
    BY <1>1 DEF BecomeFollower, TypeOK
  <2> QED  BY <2>1 DEF WithinBounds
<1>2. CASE p # s
  <2>1. electing'[p] = electing[p]
    BY <1>2 DEF BecomeFollower, TypeOK
  <2>2. currentTerm'[p] = currentTerm[p]
    BY <1>2 DEF TypeOK
  <2> QED  BY <2>1, <2>2 DEF WithinBounds
<1> QED  BY <1>1, <1>2

LEMMA TermsInBounds ==
  ASSUME TypeInv, TypeInv', WithinBounds, MaxRestarts = 0, [Next]_vars
  PROVE  \A p \in Server : /\ currentTerm'[p] <= MaxTerm
                           /\ electing'[p] => currentTerm'[p] < MaxTerm
<1>0. TypeOK /\ TypeOK'
  BY DEF TypeInv
<1>1. CASE UNCHANGED <<currentTerm, electing>>
  BY <1>1 DEF WithinBounds
<1>2. ASSUME NEW s \in Server, FollowerTimeout(s) \/ CandidateTimeout(s)
      PROVE  \A p \in Server : /\ currentTerm'[p] <= MaxTerm
                               /\ electing'[p] => currentTerm'[p] < MaxTerm
  <2>1. /\ currentTerm' = currentTerm /\ electing' = [electing EXCEPT ![s] = TRUE]
        /\ currentTerm[s] < MaxTerm
    BY <1>2 DEF FollowerTimeout, CandidateTimeout, MayElect
  <2>2. \A p \in Server : p # s => electing'[p] = electing[p]
    BY <1>0, <2>1 DEF TypeOK
  <2> QED  BY <2>1, <2>2 DEF WithinBounds
<1>3. ASSUME NEW s \in Server, StartElection(s)
      PROVE  \A p \in Server : /\ currentTerm'[p] <= MaxTerm
                               /\ electing'[p] => currentTerm'[p] < MaxTerm
  <2>1. /\ currentTerm' = [currentTerm EXCEPT ![s] = @ + 1] /\ electing[s]
        /\ electing' = [electing EXCEPT ![s] = FALSE]
    BY <1>3 DEF StartElection
  <2>2. currentTerm'[s] = currentTerm[s] + 1 /\ ~electing'[s]
    BY <1>0, <2>1 DEF TypeOK
  <2>3. currentTerm[s] < MaxTerm /\ currentTerm[s] \in Nat
    BY <1>0, <2>1 DEF WithinBounds, TypeOK
  <2>4. \A p \in Server : p # s => electing'[p] = electing[p] /\ currentTerm'[p] = currentTerm[p]
    BY <1>0, <2>1 DEF TypeOK
  <2>5. currentTerm'[s] <= MaxTerm
    BY <2>2, <2>3, BoundAssumption
  <2> QED  BY <2>2, <2>4, <2>5 DEF WithinBounds
<1>4. ASSUME NEW s \in Server,
             \/ BecomeLeader(s) \/ \E p \in Peers(s) : AskForVote(s, p) \/ SendAppendEntries(s, p)
             \/ \E c \in Command : Start(s, c)
      PROVE  UNCHANGED <<currentTerm, electing>>
  BY <1>4 DEF BecomeLeader, AskForVote, SendAppendEntries, Start, electionVars
<1>5. ASSUME NEW r \in voteRpcs, VoteCall(r)
      PROVE  \A p \in Server : /\ currentTerm'[p] <= MaxTerm
                               /\ electing'[p] => currentTerm'[p] < MaxTerm
  <2>0. /\ r.to \in Server /\ r.from \in Server /\ r.term \in Nat /\ r.replyTerm \in Nat
        /\ r.term <= MaxTerm /\ r.replyTerm <= MaxTerm
    BY <1>0 DEF TypeOK, VoteRpc, WithinBounds
  <2>1. CASE UNCHANGED <<currentTerm, electing>>
    BY <1>1, <2>1
  <2>2. CASE HandleRequestVote(r)
    <3>1. currentTerm' = [currentTerm EXCEPT ![r.to] = r.term]
      BY <2>2 DEF HandleRequestVote
    <3>2. CASE Newer(r)
      <4>1. BecomeFollower(r.to)
        BY <2>2, <3>2 DEF HandleRequestVote
      <4> QED  BY <1>0, <2>0, <3>1, <4>1, FollowerInBounds
    <3>3. CASE ~Newer(r)
      <4>1. electing' = electing
        BY <2>2, <3>3 DEF HandleRequestVote
      <4>3. r.term = currentTerm[r.to]
        <5>1. PICK n \in Nat : n = currentTerm[r.to]
          BY <1>0, <2>0 DEF TypeOK
        <5>2. PICK t \in Nat : t = r.term
          BY <2>0
        <5>3. t >= n /\ ~(t > n)
          BY <2>2, <3>3, <5>1, <5>2 DEF HandleRequestVote, Newer
        <5> QED  BY <5>1, <5>2, <5>3
      <4>2. currentTerm' = currentTerm
        BY <1>0, <2>0, <3>1, <4>3 DEF TypeOK
      <4> QED  BY <1>1, <4>1, <4>2
    <3> QED  BY <3>2, <3>3
  <2>3. CASE RefusedByNewerTerm(r)
    <3>1. BecomeFollower(r.from) /\ currentTerm' = [currentTerm EXCEPT ![r.from] = r.replyTerm]
      BY <2>3 DEF RefusedByNewerTerm, StepDown
    <3> QED  BY <1>0, <2>0, <3>1, FollowerInBounds
  <2>4. RefuseStaleVote(r) \/ CountVote(r) \/ DropVote(r) => UNCHANGED <<currentTerm, electing>>
    BY DEF RefuseStaleVote, CountVote, DropVote, electionVars
  <2> QED  BY <1>5, <2>1, <2>2, <2>3, <2>4 DEF VoteCall
<1>6. ASSUME NEW r \in appendRpcs, AppendCall(r)
      PROVE  \A p \in Server : /\ currentTerm'[p] <= MaxTerm
                               /\ electing'[p] => currentTerm'[p] < MaxTerm
  <2>0. /\ r.to \in Server /\ r.from \in Server /\ r.term \in Nat /\ r.replyTerm \in Nat
        /\ r.term <= MaxTerm /\ r.replyTerm <= MaxTerm
    BY <1>0, CallType DEF WithinBounds
  <2>1. CASE UNCHANGED <<currentTerm, electing>>
    BY <1>1, <2>1
  <2>2. CASE AcceptAppend(r)
    <3>1. \/ UNCHANGED <<currentTerm, electing>>
          \/ /\ BecomeFollower(r.to)
             /\ \/ currentTerm' = currentTerm
                \/ currentTerm' = [currentTerm EXCEPT ![r.to] = r.term]
      BY <2>2 DEF AcceptAppend, StepDown
    <3> QED  BY <1>0, <2>0, <2>1, <3>1, FollowerInBounds
  <2>3. CASE DeposedByReply(r)
    <3>1. BecomeFollower(r.from) /\ currentTerm' = [currentTerm EXCEPT ![r.from] = r.replyTerm]
      BY <2>3 DEF DeposedByReply, StepDown
    <3> QED  BY <1>0, <2>0, <3>1, FollowerInBounds
  <2>4. \/ RefuseStaleAppend(r) \/ RefuseMismatch(r) \/ PassMatch(r) \/ StoreEntries(r)
        \/ FollowCommit(r) \/ CheckReply(r) \/ CountSuccess(r) \/ BackUp(r) \/ DropAppend(r)
        => UNCHANGED <<currentTerm, electing>>
    BY DEF RefuseStaleAppend, RefuseMismatch, PassMatch, StoreEntries, FollowCommit, CheckReply,
           CountSuccess, BackUp, DropAppend, electionVars
  <2> QED  BY <1>6, <2>1, <2>2, <2>3, <2>4 DEF AppendCall
<1>7. ASSUME NEW s \in Server, Restart(s) PROVE FALSE
  BY <1>0, <1>7 DEF Restart, Reboot, TypeOK
<1>8. CASE UNCHANGED vars
  BY <1>1, <1>8 DEF vars, electionVars
<1> QED
  BY <1>1, <1>2, <1>3, <1>4, <1>5, <1>6, <1>7, <1>8 DEF Next, RaftThread

Bounded(x) == x.term <= MaxTerm /\ x.replyTerm <= MaxTerm

LEMMA AnswerInBounds ==
  ASSUME TypeOK, NEW r \in appendRpcs, NEW t \in Nat, t <= MaxTerm, NEW ok, NEW k,
         \A x \in appendRpcs : Bounded(x)
  PROVE  /\ Answer(r, t, ok, k) => \A x \in appendRpcs' : Bounded(x)
         /\ \A g : Advance(r, [r EXCEPT !.stage = g]) => \A x \in appendRpcs' : Bounded(x)
         /\ \A g : Advance(r, [r EXCEPT !.stage = g, !.replyTerm = t])
                     => \A x \in appendRpcs' : Bounded(x)
<1>1. r \in AppendRpc /\ Bounded(r)
  BY DEF TypeOK
<1>2. Bounded([r EXCEPT !.stage = "replied", !.replyTerm = t, !.success = ok,
                        !.conflictIndex = k])
  BY <1>1 DEF Bounded, AppendRpc
<1>3. \A g : Bounded([r EXCEPT !.stage = g]) /\ Bounded([r EXCEPT !.stage = g, !.replyTerm = t])
  BY <1>1 DEF Bounded, AppendRpc
<1> QED  BY <1>2, <1>3 DEF Answer, Advance

LEMMA AnswerVoteInBounds ==
  ASSUME TypeOK, NEW r \in voteRpcs, NEW t \in Nat, t <= MaxTerm, NEW ok,
         \A x \in voteRpcs : Bounded(x), AnswerVote(r, t, ok)
  PROVE  \A x \in voteRpcs' : Bounded(x)
<1>1. r \in VoteRpc /\ Bounded(r)
  BY DEF TypeOK
<1>2. Bounded([r EXCEPT !.stage = "replied", !.replyTerm = t, !.granted = ok])
  BY <1>1 DEF Bounded, VoteRpc
<1> QED  BY <1>2 DEF AnswerVote

LEMMA CallsInBounds ==
  ASSUME TypeInv, WithinBounds, MaxRestarts = 0, [Next]_vars
  PROVE  \A x \in voteRpcs' \cup appendRpcs' : Bounded(x)
<1>0. /\ TypeOK /\ \A x \in voteRpcs : Bounded(x)
      /\ \A x \in appendRpcs : Bounded(x)
      /\ \A s \in Server : currentTerm[s] \in Nat /\ currentTerm[s] <= MaxTerm
      /\ 0 <= MaxTerm
  <2>1. 0 <= MaxTerm
    BY BoundAssumption
  <2>2. \A s \in Server : currentTerm[s] \in Nat /\ currentTerm[s] <= MaxTerm
    BY DEF TypeInv, TypeOK, WithinBounds
  <2> QED  BY <2>1, <2>2 DEF TypeInv, WithinBounds, Bounded
<1>1. CASE voteRpcs' \subseteq voteRpcs /\ appendRpcs' \subseteq appendRpcs
  BY <1>0, <1>1
<1>2. ASSUME NEW s \in Server, NEW p \in Peers(s), AskForVote(s, p)
      PROVE  \A x \in voteRpcs' \cup appendRpcs' : Bounded(x)
  <2>1. /\ appendRpcs' = appendRpcs
        /\ voteRpcs' = voteRpcs \cup
             {[from |-> s, to |-> p, live |-> TRUE, stage |-> "sent", term |-> currentTerm[s],
               lastLogIndex |-> Len(log[s]), lastLogTerm |-> LastTerm(log[s]),
               replyTerm |-> 0, granted |-> FALSE]}
    BY <1>2 DEF AskForVote
  <2> QED  BY <1>0, <2>1 DEF Bounded
<1>3. ASSUME NEW s \in Server, NEW p \in Peers(s), SendAppendEntries(s, p)
      PROVE  \A x \in voteRpcs' \cup appendRpcs' : Bounded(x)
  <2>1. voteRpcs' = voteRpcs /\ appendRpcs' = appendRpcs \cup {NewCall(s, p)}
    BY <1>3 DEF SendAppendEntries, NewCall
  <2>2. Bounded(NewCall(s, p))
    BY <1>0 DEF NewCall, Bounded
  <2> QED  BY <1>0, <2>1, <2>2
<1>4. ASSUME NEW s \in Server,
             \/ FollowerTimeout(s) \/ CandidateTimeout(s) \/ StartElection(s) \/ BecomeLeader(s)
             \/ \E c \in Command : Start(s, c)
      PROVE  UNCHANGED <<voteRpcs, appendRpcs>>
  BY <1>4 DEF FollowerTimeout, CandidateTimeout, StartElection, BecomeLeader, Start
<1>5. ASSUME NEW r \in voteRpcs, VoteCall(r)
      PROVE  \A x \in voteRpcs' \cup appendRpcs' : Bounded(x)
  <2>0. r.to \in Server
    BY <1>0 DEF TypeOK, VoteRpc
  <2>1. CASE RefuseStaleVote(r) \/ HandleRequestVote(r)
    <3>1. appendRpcs' = appendRpcs /\ \E ok : AnswerVote(r, currentTerm[r.to], ok)
      BY <2>1 DEF RefuseStaleVote, HandleRequestVote
    <3> QED  BY <1>0, <2>0, <3>1, AnswerVoteInBounds
  <2>2. CASE CountVote(r) \/ RefusedByNewerTerm(r) \/ DropVote(r)
    <3>1. appendRpcs' = appendRpcs /\ voteRpcs' = voteRpcs \ {r}
      BY <2>2 DEF CountVote, RefusedByNewerTerm, DropVote
    <3> QED  BY <1>0, <3>1
  <2> QED  BY <1>5, <2>1, <2>2 DEF VoteCall
<1>6. ASSUME NEW r \in appendRpcs, AppendCall(r)
      PROVE  \A x \in voteRpcs' \cup appendRpcs' : Bounded(x)
  <2>0. /\ r.to \in Server /\ r.replyTerm \in Nat /\ r.replyTerm <= MaxTerm
        /\ currentTerm[r.to] \in Nat /\ currentTerm[r.to] <= MaxTerm
    BY <1>0, CallType DEF Bounded
  <2>1. voteRpcs' = voteRpcs
    BY <1>6 DEF AppendCall, RefuseStaleAppend, AcceptAppend, RefuseMismatch, PassMatch,
                StoreEntries, FollowCommit, DeposedByReply, CheckReply, CountSuccess, BackUp,
                DropAppend
  <2>2. CASE RefuseStaleAppend(r) \/ AcceptAppend(r)
    <3>1. \/ Answer(r, currentTerm[r.to], FALSE, 0)
          \/ Advance(r, [r EXCEPT !.stage = "match", !.replyTerm = currentTerm[r.to]])
      BY <2>2 DEF RefuseStaleAppend, AcceptAppend
    <3> QED  BY <1>0, <2>0, <2>1, <3>1, AnswerInBounds
  <2>3. CASE RefuseMismatch(r) \/ FollowCommit(r)
    <3>1. \E ok, k : Answer(r, r.replyTerm, ok, k)
      BY <2>3 DEF RefuseMismatch, FollowCommit
    <3> QED  BY <1>0, <2>0, <2>1, <3>1, AnswerInBounds
  <2>4. CASE PassMatch(r) \/ StoreEntries(r) \/ CheckReply(r)
    <3>1. \E g : Advance(r, [r EXCEPT !.stage = g])
      BY <2>4 DEF PassMatch, StoreEntries, CheckReply
    <3> QED  BY <1>0, <2>0, <2>1, <3>1, AnswerInBounds
  <2>5. CASE DeposedByReply(r) \/ CountSuccess(r) \/ BackUp(r) \/ DropAppend(r)
    <3>1. appendRpcs' = appendRpcs \ {r}
      BY <2>5 DEF DeposedByReply, CountSuccess, BackUp, DropAppend
    <3> QED  BY <1>0, <2>1, <3>1
  <2> QED  BY <1>6, <2>2, <2>3, <2>4, <2>5 DEF AppendCall
<1>7. ASSUME NEW s \in Server, Restart(s) PROVE FALSE
  BY <1>0, <1>7 DEF Restart, Reboot, TypeOK
<1>8. CASE UNCHANGED vars
  BY <1>1, <1>8 DEF vars
<1> QED
  BY <1>1, <1>2, <1>3, <1>4, <1>5, <1>6, <1>7, <1>8 DEF Next, RaftThread

-----------------------------------------------------------------------------
(* Logs.                                                                   *)

\* Only start() adds to the logs that were started.
LEMMA StartedGrows ==
  ASSUME [Next]_vars
  PROVE  started' = started \/ \E s \in Server, c \in Command : Start(s, c)
<1>1. ASSUME NEW s \in Server, RaftThread(s) PROVE started' = started
  BY <1>1 DEF RaftThread, FollowerTimeout, CandidateTimeout, StartElection, BecomeLeader,
              AskForVote, SendAppendEntries, historyVars, takenVars
<1>2. ASSUME NEW r \in voteRpcs, VoteCall(r) PROVE started' = started
  BY <1>2 DEF VoteCall, RefuseStaleVote, HandleRequestVote, CountVote, RefusedByNewerTerm,
              DropVote, historyVars, takenVars
<1>3. ASSUME NEW r \in appendRpcs, AppendCall(r) PROVE started' = started
  BY <1>3 DEF AppendCall, RefuseStaleAppend, AcceptAppend, RefuseMismatch, PassMatch,
              StoreEntries, FollowCommit, DeposedByReply, CheckReply, CountSuccess, BackUp,
              DropAppend, historyVars, takenVars
<1>4. ASSUME NEW s \in Server, Restart(s) PROVE started' = started
  BY <1>4 DEF Restart, Reboot, takenVars
<1>5. CASE UNCHANGED vars
  BY <1>5 DEF vars, historyVars, takenVars
<1> QED  BY <1>1, <1>2, <1>3, <1>4, <1>5 DEF Next

\* The beginning of a log that was started was started.
BeginningsWereStarted ==
  \A a, l \in Seq(Entry) : WasStarted(l) /\ Agree(a, l, Len(a)) => WasStarted(a)

LEMMA BeginningsStarted == TypeOK => BeginningsWereStarted
<1> SUFFICES ASSUME TypeOK, NEW a \in Seq(Entry), NEW l \in Seq(Entry), WasStarted(l),
                    Agree(a, l, Len(a))
             PROVE  WasStarted(a)
  BY DEF BeginningsWereStarted
<1>1. CASE l = << >>
  <2>1. a = << >>
    BY <1>1 DEF Agree
  <2> QED  BY <2>1 DEF WasStarted
<1>2. CASE l # << >>
  <2>1. PICK x \in started : IsPrefix(l, x)
    BY <1>2 DEF WasStarted
  <2>2. x \in Seq(Entry)
    BY DEF TypeOK
  <2>3. Agree(l, x, Len(l))
    BY <2>1, <2>2, PrefixIsAgree
  <2>4. Len(a) <= Len(l) /\ Len(a) \in Nat /\ Len(l) \in Nat /\ Len(a) <= Len(a)
    BY DEF Agree
  <2>5. Agree(a, x, Len(a))
    BY <2>2, <2>3, <2>4, AgreeVia
  <2>6. IsPrefix(a, x)
    BY <2>2, <2>5, PrefixIsAgree
  <2> QED  BY <2>1, <2>6 DEF WasStarted
<1> QED  BY <1>1, <1>2

LEMMA BeginningsStartedNext == TypeOK' => BeginningsWereStarted'
<1>1. TypeOK => BeginningsWereStarted
  BY BeginningsStarted
<1> QED  BY <1>1, PTL

\* The logs of leaders.
LEMMA TermLogsStep ==
  ASSUME Inv, Inv', StepFacts, WithinBounds, LogsWereStarted, [Next]_vars
  PROVE  /\ started \subseteq started'
         /\ \A t \in DOMAIN termLog' : Len(termLog'[t]) <= MaxLogLen /\ WasStarted(termLog[t])'
<1>0. \A t \in DOMAIN termLog : Len(termLog[t]) <= MaxLogLen /\ WasStarted(termLog[t])
  BY DEF WithinBounds, LogsWereStarted
<1>1. started' = started \/ \E s \in Server, c \in Command : Start(s, c)
  BY StartedGrows
<1>2. started \subseteq started'
  BY <1>1 DEF Start
<1>3. ASSUME NEW t \in DOMAIN termLog', t \in DOMAIN termLog, termLog'[t] = termLog[t]
      PROVE  Len(termLog'[t]) <= MaxLogLen /\ WasStarted(termLog[t])'
  BY <1>0, <1>2, <1>3 DEF WasStarted
<1>4. ASSUME NEW s \in Server, BecomeLeader(s), NEW t \in DOMAIN termLog'
      PROVE  Len(termLog'[t]) <= MaxLogLen /\ WasStarted(termLog[t])'
  <2>1. termLog' = Recorded(currentTerm[s], log[s])
    BY <1>4 DEF BecomeLeader
  <2>2. CASE t = currentTerm[s]
    <3>1. termLog'[t] = log[s]
      BY <2>1, <2>2 DEF Recorded
    <3>2. Len(log[s]) <= MaxLogLen /\ WasStarted(log[s])
      BY DEF WithinBounds, LogsWereStarted
    <3> QED  BY <1>2, <3>1, <3>2 DEF WasStarted
  <2>3. CASE t # currentTerm[s]
    BY <1>3, <2>1, <2>3 DEF Recorded
  <2> QED  BY <2>2, <2>3
<1>5. ASSUME NEW s \in Server, NEW c \in Command, Start(s, c), NEW t \in DOMAIN termLog'
      PROVE  Len(termLog'[t]) <= MaxLogLen /\ WasStarted(termLog[t])'
  <2> DEFINE u == currentTerm[s]
             l == Append(log[s], [term |-> u, command |-> c])
  <2>1. /\ log' = [log EXCEPT ![s] = l] /\ termLog' = Recorded(u, l)
        /\ l \in Seq(Entry) /\ Len(l) = Len(log[s]) + 1
    BY <1>5, StartDoes DEF Inv, ReplicationInv
  <2> HIDE DEF l, u
  <2>2. log'[s] = l /\ log[s] \in Seq(Entry)
    BY <2>1 DEF Inv, TypeInv, TypeOK
  <2>3. l \in started' /\ Len(log[s]) < MaxLogLen
    BY <1>5, <2>2 DEF Start
  <2>4. Len(l) <= MaxLogLen
    BY <2>1, <2>2, <2>3, BoundAssumption
  <2>5. IsPrefix(l, l)
    BY <2>1 DEF IsPrefix
  <2>6. CASE t = u
    <3>1. termLog'[t] = l
      BY <2>1, <2>6 DEF Recorded
    <3> QED  BY <2>3, <2>4, <2>5, <3>1 DEF WasStarted
  <2>7. CASE t # u
    BY <1>3, <2>1, <2>7 DEF Recorded
  <2> QED  BY <2>6, <2>7
<1> QED  BY <1>2, <1>3, <1>4, <1>5 DEF StepFacts, LogsMove

LEMMA StepRefInv ==
  ASSUME TrustedElections, ~Preemptible, MaxRestarts = 0, RefInv, [Next]_vars
  PROVE  RefInv' /\ StepFacts /\ CommitMoves
<1>1. FullInv /\ Inv /\ WithinBounds /\ LogsWereStarted
  BY DEF RefInv, FullInv
<1>2. FullInv' /\ Inv' /\ StepFacts /\ CommitMoves
  BY <1>1, StepCommitInv DEF FullInv
<1>3. /\ started \subseteq started'
      /\ \A t \in DOMAIN termLog' : Len(termLog'[t]) <= MaxLogLen /\ WasStarted(termLog[t])'
  BY <1>1, <1>2, TermLogsStep
<1>4. ASSUME NEW s \in Server PROVE Len(log'[s]) <= MaxLogLen /\ WasStarted(log[s])'
  <2>1. CASE log'[s] = log[s]
    BY <1>1, <1>3, <2>1 DEF WithinBounds, LogsWereStarted, WasStarted
  <2>2. CASE log'[s] # log[s]
    <3>1. PICK t : t = currentTerm[s]
      OBVIOUS
    <3>2. t \in DOMAIN termLog /\ Agree(log'[s], LogOf(termLog', t), Len(log'[s]))
      BY <1>2, <2>2, <3>1 DEF StepFacts, LogFollows
    <3>3. t \in DOMAIN termLog'
      BY <1>2, <3>2 DEF StepFacts, TermLogGrows
    <3>4. Agree(log'[s], termLog'[t], Len(log'[s]))
      BY <3>2, <3>3 DEF LogOf
    <3>5. /\ TypeOK' /\ log'[s] \in Seq(Entry) /\ termLog'[t] \in Seq(Entry)
      BY <1>2, <3>3 DEF Inv, TypeInv, TypeOK
    <3>6. WasStarted(log[s])'
      <4>1. PICK a \in Seq(Entry) : a = log'[s]
        BY <3>5
      <4>2. PICK l \in Seq(Entry) : l = termLog'[t]
        BY <3>5
      <4>3. WasStarted(l)'
        BY <1>3, <3>3, <4>2 DEF WasStarted
      <4>4. WasStarted(a)'
        BY <3>4, <3>5, <4>1, <4>2, <4>3, BeginningsStartedNext DEF BeginningsWereStarted
      <4> QED  BY <4>1, <4>4 DEF WasStarted
    <3>7. Len(log'[s]) <= MaxLogLen
      <4>1. Len(log'[s]) <= Len(termLog'[t]) /\ Len(termLog'[t]) <= MaxLogLen
        BY <1>3, <3>3, <3>4 DEF Agree
      <4> QED  BY <3>5, <4>1, BoundAssumption
    <3> QED  BY <3>6, <3>7
  <2> QED  BY <2>1, <2>2
<1>5. WithinBounds'
  BY <1>1, <1>2, <1>3, <1>4, TermsInBounds, CallsInBounds DEF WithinBounds, Bounded, Inv
<1>6. LogsWereStarted'
  BY <1>3, <1>4 DEF LogsWereStarted
<1> QED  BY <1>2, <1>5, <1>6 DEF RefInv
-----------------------------------------------------------------------------
(* The chosen entries.                                                     *)

Pushed == Seq(Entry \cup {Wild})

LEMMA LogsArePushed == Seq(Entry) \subseteq Pushed
BY DEF Pushed

LEMMA PrefixOfPrefix ==
  ASSUME NEW a \in Pushed, NEW b \in Pushed, NEW c \in Pushed, IsPrefix(a, b), IsPrefix(b, c)
  PROVE  IsPrefix(a, c)
BY DEF IsPrefix, Pushed

LEMMA PrefixesBothWays ==
  ASSUME NEW a \in Pushed, NEW b \in Pushed, IsPrefix(a, b), IsPrefix(b, a)
  PROVE  a = b
BY DEF IsPrefix, Pushed

LEMMA ShorterIsPrefix ==
  ASSUME NEW a \in Pushed, NEW b \in Pushed, IsPrefix(b, a) \/ IsPrefix(a, b), Len(a) <= Len(b)
  PROVE  IsPrefix(a, b)
BY DEF IsPrefix, Pushed

\* Every node has pushed a prefix of the chosen entries, and one of them all of them.
ChosenIsAll ==
  /\ \E q \in Server : Chosen = applied[q]
  /\ \A s \in Server : IsPrefix(applied[s], Chosen)

LEMMA ChosenIsLongest == RefInv => ChosenIsAll
<1> SUFFICES ASSUME RefInv PROVE ChosenIsAll
  OBVIOUS
<1> DEFINE lengths == {Len(applied[s]) : s \in Server}
<1>1. \A s \in Server : applied[s] \in Pushed /\ IsPrefix(applied[s], log[s])
                        /\ log[s] \in Seq(Entry)
  BY AppliedIs, AppliedAreOwn DEF RefInv, Pushed, AppliesOwnLog
<1>2. \A s \in Server : Len(applied[s]) \in Nat /\ Len(applied[s]) <= MaxLogLen
  <2> TAKE s \in Server
  <2>1. Len(applied[s]) \in Nat /\ Len(log[s]) \in Nat /\ Len(applied[s]) <= Len(log[s])
    BY <1>1 DEF IsPrefix, Pushed
  <2> QED  BY <2>1, BoundAssumption DEF RefInv, WithinBounds
<1>3. lengths \in SUBSET Nat /\ lengths # {} /\ \A x \in lengths : x <= MaxLogLen
  BY <1>2, ServerAssumption
<1>4. Max(lengths) \in lengths /\ \A x \in lengths : x <= Max(lengths)
  BY <1>3, BoundAssumption, MaxIsGreatest
<1>5. PICK q \in Server : \A s \in Server : Len(applied[s]) <= Len(applied[q])
  BY <1>4
<1>6. /\ Chosen \in {applied[s] : s \in Server}
      /\ \A s \in Server : Len(applied[s]) <= Len(Chosen)
  BY <1>5 DEF Chosen
<1>7. PICK p \in Server : Chosen = applied[p]
  BY <1>6
<1>8. ASSUME NEW s \in Server PROVE IsPrefix(applied[s], applied[p])
  <2>1. IsPrefix(applied[s], applied[p]) \/ IsPrefix(applied[p], applied[s])
    BY AppliedAgree DEF RefInv, StateMachineSafety
  <2> QED  BY <1>1, <1>6, <1>7, <2>1, ShorterIsPrefix
<1> QED  BY <1>7, <1>8 DEF ChosenIsAll

LEMMA ChosenIsLongestNext == RefInv' => ChosenIsAll'
<1>1. RefInv => ChosenIsAll
  BY ChosenIsLongest
<1> QED  BY <1>1, PTL

LEMMA AppliedAreOwnNext == RefInv' => AppliesOwnLog'
<1>1. RefInv => AppliesOwnLog
  BY AppliedAreOwn DEF RefInv
<1> QED  BY <1>1, PTL

\* What a node pushes fits what is chosen, or is chosen by that.
LEMMA ChosenGrows ==
  ASSUME RefInv, RefInv', NEW s \in Server, NEW a \in Pushed,
         applied' = [applied EXCEPT ![s] = a], IsPrefix(applied[s], a)
  PROVE  \/ IsPrefix(a, Chosen) /\ Chosen' = Chosen
         \/ IsPrefix(Chosen, a) /\ Chosen' = a
<1>1. \A p \in Server : applied[p] \in Pushed /\ applied'[p] = IF p = s THEN a ELSE applied[p]
  BY AppliedIs DEF RefInv, FullInv, Inv, TypeInv, TypeOK, Pushed
<1>2. PICK p \in Server : Chosen = applied[p]
  BY ChosenIsLongest DEF ChosenIsAll
<1>3. PICK q \in Server : Chosen' = applied'[q]
  BY ChosenIsLongestNext DEF ChosenIsAll
<1>4. PICK old \in Pushed : old = Chosen
  BY <1>1, <1>2
<1>5. PICK new \in Pushed : new = Chosen'
  BY <1>1, <1>3
<1>6. \A x \in Server : IsPrefix(applied[x], old)
  BY <1>4, ChosenIsLongest DEF ChosenIsAll
<1>7. \A x \in Server : IsPrefix(applied'[x], new)
  BY <1>5, ChosenIsLongestNext DEF ChosenIsAll
<1>8. IsPrefix(a, new) /\ IsPrefix(old, new)
  <2>1. IsPrefix(a, new)
    BY <1>1, <1>7
  <2>2. CASE p = s
    BY <1>1, <1>2, <1>4, <2>1, <2>2, PrefixOfPrefix
  <2>3. CASE p # s
    BY <1>1, <1>2, <1>4, <1>7, <2>3
  <2> QED  BY <2>1, <2>2, <2>3
<1>9. CASE q = s
  BY <1>1, <1>3, <1>4, <1>5, <1>8, <1>9
<1>10. CASE q # s
  <2>1. IsPrefix(new, old)
    BY <1>1, <1>3, <1>5, <1>6, <1>10
  <2>2. new = old
    BY <1>8, <2>1, PrefixesBothWays
  <2> QED  BY <1>4, <1>5, <1>8, <2>2
<1> QED  BY <1>9, <1>10

-----------------------------------------------------------------------------
(* The steps.                                                              *)

\* Steps that neither add to a log nor push: at most one node's role changes.
Quiet ==
  /\ UNCHANGED <<log, started, applied>>
  /\ \/ state' = state
     \/ \E s \in Server : \E x \in {"Follower", "Candidate", "Leader"} :
          state' = [state EXCEPT ![s] = x]

LEMMA StepKinds ==
  ASSUME TypeOK, MaxRestarts = 0, [Next]_vars
  PROVE  \/ Quiet
         \/ \E s \in Server, c \in Command : Start(s, c)
         \/ \E r \in appendRpcs : StoreEntries(r) \/ FollowCommit(r) \/ CountSuccess(r)
<1>1. ASSUME NEW s \in Server, RaftThread(s) PROVE Quiet
  <2>1. CASE FollowerTimeout(s) \/ BecomeLeader(s)
    <3>1. /\ UNCHANGED <<log, started, applied>>
          /\ \E x \in {"Candidate", "Leader"} : state' = [state EXCEPT ![s] = x]
      BY <2>1 DEF FollowerTimeout, BecomeLeader, logVars, historyVars, takenVars
    <3> QED  BY <3>1 DEF Quiet
  <2>2. CASE \/ CandidateTimeout(s) \/ StartElection(s)
             \/ \E p \in Peers(s) : AskForVote(s, p) \/ SendAppendEntries(s, p)
    <3>1. UNCHANGED <<log, started, applied, state>>
      BY <2>2 DEF CandidateTimeout, StartElection, AskForVote, SendAppendEntries,
                  electionVars, logVars, historyVars, takenVars
    <3> QED  BY <3>1 DEF Quiet
  <2> QED  BY <1>1, <2>1, <2>2 DEF RaftThread
<1>2. ASSUME NEW r \in voteRpcs, VoteCall(r) PROVE Quiet
  <2>0. r.from \in Server /\ r.to \in Server
    BY DEF TypeOK, VoteRpc
  <2>1. CASE RefuseStaleVote(r) \/ CountVote(r) \/ DropVote(r)
    <3>1. UNCHANGED <<log, started, applied, state>>
      BY <2>1 DEF RefuseStaleVote, CountVote, DropVote, electionVars, logVars,
                  historyVars, takenVars
    <3> QED  BY <3>1 DEF Quiet
  <2>2. CASE HandleRequestVote(r)
    <3>1. /\ UNCHANGED <<log, started, applied>>
          /\ state' = [state EXCEPT ![r.to] = "Follower"] \/ state' = state
      BY <2>2 DEF HandleRequestVote, BecomeFollower, logVars, takenVars
    <3> QED  BY <2>0, <3>1 DEF Quiet
  <2>3. CASE RefusedByNewerTerm(r)
    <3>1. /\ UNCHANGED <<log, started, applied>>
          /\ state' = [state EXCEPT ![r.from] = "Follower"]
      BY <2>3 DEF RefusedByNewerTerm, StepDown, BecomeFollower, logVars, historyVars, takenVars
    <3> QED  BY <2>0, <3>1 DEF Quiet
  <2> QED  BY <1>2, <2>1, <2>2, <2>3 DEF VoteCall
<1>3. ASSUME NEW r \in appendRpcs, AppendCall(r),
             ~(StoreEntries(r) \/ FollowCommit(r) \/ CountSuccess(r))
      PROVE  Quiet
  <2>0. r.from \in Server /\ r.to \in Server
    BY CallType
  <2>1. CASE \/ RefuseStaleAppend(r) \/ RefuseMismatch(r) \/ PassMatch(r) \/ CheckReply(r)
             \/ BackUp(r) \/ DropAppend(r)
    <3>1. UNCHANGED <<log, started, applied, state>>
      BY <2>1 DEF RefuseStaleAppend, RefuseMismatch, PassMatch, CheckReply, BackUp,
                  DropAppend, electionVars, logVars, historyVars, takenVars
    <3> QED  BY <3>1 DEF Quiet
  <2>2. CASE AcceptAppend(r)
    <3>1. /\ UNCHANGED <<log, started, applied>>
          /\ state' = [state EXCEPT ![r.to] = "Follower"] \/ state' = state
      BY <2>2 DEF AcceptAppend, StepDown, BecomeFollower, logVars, historyVars, takenVars
    <3> QED  BY <2>0, <3>1 DEF Quiet
  <2>3. CASE DeposedByReply(r)
    <3>1. /\ UNCHANGED <<log, started, applied>>
          /\ state' = [state EXCEPT ![r.from] = "Follower"]
      BY <2>3 DEF DeposedByReply, StepDown, BecomeFollower, logVars, historyVars, takenVars
    <3> QED  BY <2>0, <3>1 DEF Quiet
  <2> QED  BY <1>3, <2>1, <2>2, <2>3 DEF AppendCall
<1>4. ASSUME NEW s \in Server, Restart(s) PROVE FALSE
  BY <1>4 DEF Restart, Reboot, TypeOK
<1>5. CASE UNCHANGED vars
  BY <1>5 DEF vars, electionVars, logVars, historyVars, takenVars, Quiet
<1> QED  BY <1>1, <1>2, <1>3, <1>4, <1>5 DEF Next

LEMMA SamePrefix == \A a, b : Promise!IsPrefix(a, b) <=> IsPrefix(a, b)
BY DEF IsPrefix, Promise!IsPrefix

Maps == Promise!LogNext \/ UNCHANGED Promise!logVars

\* An election, or the end of a reign, or nothing.
LEMMA QuietMaps ==
  ASSUME TypeOK, TypeOK', Quiet
  PROVE  Maps
<1> DEFINE L == [s \in Server |-> state[s] = "Leader"]
           P == [s \in Server |-> Len(applied[s])]
<1>1. UNCHANGED <<log, started, applied>> /\ Chosen' = Chosen /\ P' = P
  BY DEF Quiet, Chosen
<1>2. CASE L' = L
  <2>1. UNCHANGED Promise!logVars
    BY <1>1, <1>2 DEF Promise!logVars
  <2> QED  BY <2>1 DEF Maps
<1>3. CASE L' # L
  <2>1. PICK s \in Server : \E x \in {"Follower", "Candidate", "Leader"} :
               state' = [state EXCEPT ![s] = x]
    BY <1>3 DEF Quiet
  <2>2. L' = [L EXCEPT ![s] = (state'[s] = "Leader")]
    BY <2>1 DEF TypeOK
  <2>3. L[s] = (state[s] = "Leader") /\ L[s] # (state'[s] = "Leader")
    BY <1>3, <2>2
  <2>4. CASE state'[s] = "Leader"
    <3>1. Promise!Elected(s)
      BY <1>1, <2>2, <2>3, <2>4 DEF Promise!Elected
    <3> QED  BY <3>1 DEF Maps, Promise!LogNext
  <2>5. CASE state'[s] # "Leader"
    <3>1. Promise!Deposed(s)
      BY <1>1, <2>2, <2>3, <2>5 DEF Promise!Deposed
    <3> QED  BY <3>1 DEF Maps, Promise!LogNext
  <2> QED  BY <2>4, <2>5
<1> QED  BY <1>2, <1>3

LEMMA StartMaps ==
  ASSUME RefInv, NEW s \in Server, NEW c \in Command, Start(s, c)
  PROVE  Maps
<1> DEFINE e == [term |-> currentTerm[s], command |-> c]
<1>1. UNCHANGED <<state, applied>> /\ Chosen' = Chosen
  BY DEF Start, electionVars, Chosen
<1>2. /\ state[s] = "Leader" /\ Len(log[s]) < MaxLogLen
      /\ log' = [log EXCEPT ![s] = Append(log[s], e)] /\ started' = started \cup {log'[s]}
  BY DEF Start
<1>3. e \in [term : 0 .. MaxTerm, command : Command]
  <2>1. currentTerm[s] \in Nat /\ currentTerm[s] <= MaxTerm
    BY DEF RefInv, FullInv, Inv, TypeInv, TypeOK, WithinBounds
  <2>2. currentTerm[s] \in 0 .. MaxTerm
    BY <2>1, BoundAssumption
  <2> QED  BY <2>2
<1> HIDE DEF e
<1>4. Promise!Start(s, e)
  BY <1>1, <1>2 DEF Promise!Start
<1> QED  BY <1>3, <1>4 DEF Maps, Promise!LogNext

\* Section 3 of appendEntries keeps a log or takes over a part of one that was started,
\* with all that the node has pushed.
LEMMA StoreMaps ==
  ASSUME RefInv, RefInv', NEW r \in appendRpcs, StoreEntries(r)
  PROVE  Maps
<1>0. /\ TypeInv /\ TypeOK /\ ElectionInv /\ ReplicationInv /\ TypeOK'
      /\ LogsWereStarted' /\ WithinBounds'
  BY DEF RefInv, FullInv, Inv, TypeInv
<1>1. PICK s \in Server : s = r.to
  BY <1>0, CallType
<1>2. UNCHANGED <<state, started, applied, termLog>> /\ Chosen' = Chosen
  BY DEF StoreEntries, electionVars, historyVars, takenVars, Chosen
<1>3. PICK m \in Seq(Entry) : m = TermLog(r.term)
  BY <1>0, StoreDoes
<1>4. PICK l \in Seq(Entry) : l = log'[s]
  BY <1>0 DEF TypeOK
<1>5. /\ state[s] = "Follower" /\ log' = [log EXCEPT ![s] = l]
      /\ Agree(l, m, LastNew(r))
  BY <1>0, <1>1, <1>3, <1>4, StoreDoes
<1>6. CASE l = log[s]
  <2>1. log' = log
    BY <1>0, <1>5, <1>6 DEF TypeOK
  <2>2. UNCHANGED Promise!logVars
    BY <1>2, <2>1 DEF Promise!logVars
  <2> QED  BY <2>2 DEF Maps
<1>7. CASE l # log[s]
  <2>1. l # << >>
    <3> SUFFICES ASSUME l = << >> PROVE FALSE
      OBVIOUS
    <3>1. r.prevLogIndex \in Nat /\ r.entries \in Seq(Entry) /\ Len(r.entries) \in Nat
      BY <1>0, CallType
    <3>2. r.prevLogIndex + Len(r.entries) <= 0
      BY <1>5 DEF Agree, LastNew
    <3>3. r.prevLogIndex = 0 /\ r.entries = << >>
      BY <3>1, <3>2
    <3>4. log[s] \in Seq(Entry) /\ << >> \in Seq(Entry)
      BY <1>0 DEF TypeOK
    <3>5. Stored(log[s], 0, << >>) = log[s]
      <4> DEFINE k == log[s]
      <4>1. PICK none \in Seq(Entry) : none = << >>
        BY <3>4
      <4> HIDE DEF k
      <4>2. Len(none) = 0 /\ DOMAIN none = {}
        BY <4>1
      <4>3. k \in Seq(Entry) /\ Agree(k, none, 0)
        BY <3>4, <4>2 DEF k, Agree
      <4>4. \A i \in DOMAIN k : ~(i <= 0)
        BY <4>3
      <4>5. Len(none) = 0 + Len(none) /\ 0 \in Nat
        BY <4>2
      <4>6. Stored(k, 0, none) = IF Agree(k, none, Len(none)) THEN k ELSE none
        BY <4>2, <4>3, <4>4, <4>5, StoredIs
      <4> QED  BY <4>1, <4>2, <4>3, <4>6 DEF k
    <3>6. l = Stored(log[s], r.prevLogIndex, r.entries)
      BY <1>0, <1>1, <1>4 DEF StoreEntries, TypeOK
    <3> QED  BY <1>7, <3>3, <3>5, <3>6
  <2>2. PICK x \in started : IsPrefix(l, x)
    BY <1>0, <1>2, <1>4, <2>1 DEF LogsWereStarted, WasStarted
  <2>3. x \in Seq(Entry)
    BY <1>0 DEF TypeOK
  <2> DEFINE done == applied[s]
             n == Len(done)
             k == Len(l)
  <2>4. /\ done \in Pushed /\ log[s] \in Seq(Entry) /\ IsPrefix(done, log[s])
        /\ IsPrefix(done, l)
    <3>1. IsPrefix(applied'[s], log'[s])
      BY AppliedAreOwnNext DEF AppliesOwnLog
    <3> QED  BY <1>2, <1>4, <3>1, AppliedIs, AppliedAreOwn DEF RefInv, AppliesOwnLog, Pushed
  <2>5. n \in Nat /\ k \in Nat /\ n <= k /\ k <= Len(x) /\ done = SubSeq(log[s], 1, n)
    BY <2>2, <2>3, <2>4 DEF IsPrefix, Pushed
  <2>6. IsPrefix(done, x)
    BY <2>2, <2>3, <2>4, LogsArePushed, PrefixOfPrefix
  <2>7. l = SubSeq(x, 1, k)
    BY <2>2, <2>3 DEF IsPrefix
  <2> HIDE DEF done, n, k
  <2>8. k \in n .. Len(x)
    BY <2>3, <2>5
  <2>9. l \in Promise!Beginnings(SubSeq(log[s], 1, n), n)
    BY <2>5, <2>6, <2>7, <2>8, SamePrefix DEF Promise!Beginnings
  <2>10. Promise!Adopt(s)
    <3> DEFINE L == [p \in Server |-> state[p] = "Leader"]
               P == [p \in Server |-> Len(applied[p])]
    <3>1. L' = L /\ P' = P /\ ~L[s] /\ P[s] = n
      BY <1>2, <1>5 DEF n, done
    <3> QED  BY <1>2, <1>5, <1>7, <2>9, <3>1 DEF Promise!Adopt
  <2> QED  BY <2>10 DEF Maps, Promise!LogNext
<1> QED  BY <1>6, <1>7

LEMMA PushedIsKept ==
  ASSUME NEW c \in Nat, NEW done \in Pushed, NEW l \in Seq(Entry)
  PROVE  Len(PushedUpTo(c, done, l)) >= Len(done)
<1>1. CASE c > Len(done)
  <2> DEFINE more == [k \in 1..(c - Len(done)) |-> EntryAt(l, Len(done) + k)]
  <2>1. more \in Pushed
    BY <1>1 DEF EntryAt, Pushed
  <2>2. PushedUpTo(c, done, l) = done \o more
    BY <1>1 DEF PushedUpTo
  <2> HIDE DEF more
  <2>3. Len(done \o more) = Len(done) + Len(more) /\ Len(more) \in Nat /\ Len(done) \in Nat
    BY <2>1 DEF Pushed
  <2> QED  BY <2>2, <2>3
<1>2. CASE ~(c > Len(done))
  BY <1>2 DEF PushedUpTo, Pushed
<1> QED  BY <1>1, <1>2

\* The pushes of section 4 of appendEntries, and of the leader when it commits.
LEMMA PushMaps ==
  ASSUME RefInv, RefInv', UNCHANGED <<state, log, started>>, NEW s \in Server,
         NEW c \in Nat, applied' = [applied EXCEPT ![s] = PushedUpTo(c, applied[s], log[s])]
  PROVE  Maps
<1>0. TypeOK /\ TypeOK'
  BY DEF RefInv, FullInv, Inv, TypeInv
<1>1. PICK a \in Pushed : a = PushedUpTo(c, applied[s], log[s])
  BY <1>0, PushedUpToType DEF TypeOK, Pushed
<1>2. PICK done \in Pushed : done = applied[s]
  BY <1>0 DEF TypeOK, Pushed
<1>3. PICK l \in Seq(Entry) : l = log[s]
  BY <1>0 DEF TypeOK
<1>4. applied' = [applied EXCEPT ![s] = a] /\ applied'[s] = a
  BY <1>0, <1>1 DEF TypeOK
<1>5. IsPrefix(done, l) /\ IsPrefix(a, l)
  <2>1. IsPrefix(applied'[s], log'[s])
    BY AppliedAreOwnNext DEF AppliesOwnLog
  <2>2. IsPrefix(applied[s], log[s])
    BY AppliedAreOwn DEF RefInv, AppliesOwnLog
  <2> QED  BY <1>2, <1>3, <1>4, <2>1, <2>2
<1>6. IsPrefix(done, a)
  <2>1. l \in Pushed /\ Len(done) <= Len(a)
    BY <1>1, <1>2, <1>3, PushedIsKept, LogsArePushed
  <2>2. IsPrefix(done, a) \/ IsPrefix(a, done)
    BY <1>5, <2>1, TwoPrefixes DEF Pushed
  <2> QED  BY <2>1, <2>2, ShorterIsPrefix
<1>7. CASE a = done
  <2>1. applied' = applied
    BY <1>0, <1>2, <1>4, <1>7 DEF TypeOK
  <2>2. Chosen' = Chosen
    BY <2>1 DEF Chosen
  <2> QED  BY <2>1, <2>2 DEF Maps, Promise!logVars
<1>8. CASE a # done
  <2> DEFINE n == Len(a)
             k == Len(done)
  <2>1. n \in Nat /\ k \in Nat /\ k <= n /\ n <= Len(l) /\ SubSeq(l, 1, n) = a
    BY <1>3, <1>5, <1>6 DEF IsPrefix, Pushed
  <2>2. k # n
    BY <1>6, <1>8 DEF IsPrefix, Pushed
  <2>3. n \in k + 1 .. Len(l)
    <3> HIDE DEF n, k
    <3> QED  BY <2>1, <2>2
  <2>4. \/ IsPrefix(a, Chosen) /\ Chosen' = Chosen
        \/ IsPrefix(Chosen, a) /\ Chosen' = a
    BY <1>2, <1>4, <1>6, ChosenGrows
  <2> DEFINE P == [p \in Server |-> Len(applied[p])]
  <2>5. P' = [P EXCEPT ![s] = n] /\ P[s] = k
    BY <1>0, <1>2, <1>4 DEF TypeOK
  <2> HIDE DEF n, k
  <2>6. Promise!Deliver(s, n)
    BY <1>3, <2>1, <2>4, <2>5, SamePrefix DEF Promise!Deliver
  <2>7. n \in P[s] + 1 .. Len(log[s])
    BY <1>3, <2>3, <2>5
  <2> QED  BY <2>6, <2>7 DEF Maps, Promise!LogNext
<1> QED  BY <1>7, <1>8

LEMMA StepMaps ==
  ASSUME RefInv, RefInv', MaxRestarts = 0, [Next]_vars
  PROVE  Maps
<1>0. TypeOK /\ TypeOK'
  BY DEF RefInv, FullInv, Inv, TypeInv
<1>1. ASSUME NEW r \in appendRpcs, FollowCommit(r) PROVE Maps
  <2>1. PICK s \in Server : s = r.to
    BY <1>0, CallType
  <2>2. PICK c \in Nat : c = commitIndex'[s]
    BY <1>0 DEF TypeOK
  <2>3. /\ UNCHANGED <<state, log, started>>
        /\ applied' = [applied EXCEPT ![s] = PushedUpTo(c, applied[s], log[s])]
    BY <1>1, <2>1, <2>2 DEF FollowCommit, electionVars, historyVars, takenVars
  <2> QED  BY <2>3, PushMaps
<1>2. ASSUME NEW r \in appendRpcs, CountSuccess(r) PROVE Maps
  <2>1. PICK s \in Server : s = r.from
    BY <1>0, CallType
  <2>2. PICK c \in Nat : c = commitIndex'[s]
    BY <1>0 DEF TypeOK
  <2>3. /\ UNCHANGED <<state, log, started>>
        /\ applied' = [applied EXCEPT ![s] = PushedUpTo(c, applied[s], log[s])]
    BY <1>2, <2>1, <2>2 DEF CountSuccess, electionVars, historyVars, takenVars
  <2> QED  BY <2>3, PushMaps
<1> QED  BY <1>0, <1>1, <1>2, StepKinds, QuietMaps, StartMaps, StoreMaps

LEMMA InitMaps == Init => Promise!LogInit
<1> SUFFICES ASSUME Init PROVE Promise!LogInit
  OBVIOUS
<1>1. \A s \in Server : applied[s] = << >> /\ state[s] = "Follower"
  BY DEF Init
<1>2. Chosen = << >>
  <2>1. {applied[s] : s \in Server} = {<< >>}
    BY <1>1, ServerAssumption
  <2>2. \E a \in {applied[s] : s \in Server} : \A s \in Server : Len(applied[s]) <= Len(a)
    BY <1>1, <2>1
  <2> QED  BY <2>1, <2>2 DEF Chosen
<1> QED  BY <1>1, <1>2 DEF Init, Promise!LogInit

\* What the key-value servers see of the nodes is one replicated log: each step of a
\* handler or of the Raft thread is a step of ReplicatedLog or none.
THEOREM NodesKeepPromise ==
  ASSUME TrustedElections, ~Preemptible, MaxRestarts = 0 PROVE Spec => KeepsPromise
<1>1. RefInv /\ [Next]_vars => RefInv'
  BY StepRefInv
<1>2. RefInv /\ RefInv' /\ [Next]_vars => [Promise!LogNext]_(Promise!logVars)
  BY StepMaps DEF Maps
<1> QED  BY <1>1, <1>2, InitRefInv, InitMaps, PTL DEF Spec, KeepsPromise, Promise!LogSpec

=============================================================================
