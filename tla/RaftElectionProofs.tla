------------------------ MODULE RaftElectionProofs ------------------------
(***************************************************************************)
(* What the operators of RaftLog return; every variable of module Raft     *)
(* keeps its type; and election safety, for every set of servers and every *)
(* bound, when votes are counted in the election they were cast in, and a  *)
(* restarted node, if there is one, finds its Persister.                   *)
(***************************************************************************)
EXTENDS RaftInductive, FiniteSetTheorems, WellFoundedInduction, SequenceTheorems, TLAPS

(* Logs.                                                                   *)

\* Min picks an element of the set, and none is smaller: the segments 0..x of the
\* elements x are finite sets, and one of them includes no other.
LEMMA MinIsLeast ==
  ASSUME NEW S \in SUBSET Nat, S # {}
  PROVE  Min(S) \in S /\ \A x \in S : Min(S) <= x
<1> DEFINE segments == {0..x : x \in S}
<1>1. segments \subseteq FiniteSubsetsOf(Nat) /\ segments # {}
  <2>1. ASSUME NEW x \in S PROVE 0..x \in FiniteSubsetsOf(Nat)
    <3>1. IsFiniteSet(0..x)
      BY FS_Interval
    <3> QED  BY <3>1 DEF FiniteSubsetsOf
  <2> QED  BY <2>1
<1>2. PICK g \in segments : \A h \in segments : <<h, g>> \notin StrictSubsetOrdering(Nat)
  BY <1>1, FS_StrictSubsetOrderingWellFounded, WFMin
<1>3. PICK m \in S : g = 0..m
  OBVIOUS
<1>4. ASSUME NEW x \in S PROVE m <= x
  <2> SUFFICES ASSUME x < m PROVE FALSE
    OBVIOUS
  <2>1. 0..x \subseteq 0..m /\ 0..x # 0..m
    <3>1. m \in 0..m /\ m \notin 0..x
      OBVIOUS
    <3> QED  BY <3>1
  <2>2. 0..x \in segments /\ 0..m \in segments
    OBVIOUS
  <2>3. <<0..x, 0..m>> \in StrictSubsetOrdering(Nat)
    <3>1. 0..x \in SUBSET Nat /\ 0..m \in SUBSET Nat
      OBVIOUS
    <3> HIDE DEF segments
    <3> QED  BY <2>1, <3>1 DEF StrictSubsetOrdering
  <2> QED  BY <2>2, <2>3, <1>2, <1>3
<1> QED  BY <1>4 DEF Min

\* Max picks an element of a bounded set, and none is larger.
LEMMA MaxIsGreatest ==
  ASSUME NEW S \in SUBSET Nat, S # {}, NEW b \in Nat, \A x \in S : x <= b
  PROVE  Max(S) \in S /\ \A x \in S : x <= Max(S)
<1> DEFINE U == {m \in Nat : \A x \in S : x <= m}
<1>1. PICK m \in U : \A u \in U : m <= u
  <2>1. b \in U /\ U \in SUBSET Nat
    OBVIOUS
  <2> QED  BY <2>1, MinIsLeast
<1>2. m \in S
  <2> SUFFICES ASSUME m \notin S PROVE FALSE
    OBVIOUS
  <2>1. PICK x \in S : x \in Nat
    OBVIOUS
  <2>2. \A y \in S : y \in Nat /\ y < m
    OBVIOUS
  <2>3. m - 1 \in Nat /\ m - 1 < m
    BY <2>1, <2>2
  <2>4. m - 1 \in U
    BY <2>2, <2>3
  <2> QED  BY <2>3, <2>4, <1>1
<1>3. \E x \in S : \A y \in S : x >= y
  BY <1>2
<1> QED  BY <1>3 DEF Max

LEMMA MaxOfTwo == ASSUME NEW a \in Nat, NEW b \in Nat PROVE Max({a, b}) \in {a, b}
<1>1. PICK m \in {a, b} : a <= m /\ b <= m
  OBVIOUS
<1> QED  BY <1>1, MaxIsGreatest

LEMMA LastTermType == ASSUME NEW l \in Seq(Entry) PROVE LastTerm(l) \in Nat
<1>1. CASE l = << >>
  BY <1>1 DEF LastTerm
<1>2. CASE l # << >>
  <2>1. l[Len(l)] \in Entry
    BY <1>2
  <2> QED  BY <1>2, <2>1 DEF LastTerm, Entry
<1> QED  BY <1>1, <1>2

LEMMA TermAtType == ASSUME NEW l \in Seq(Entry), NEW i \in Nat PROVE TermAt(l, i) \in Nat
<1>1. CASE i \in DOMAIN l
  <2>1. l[i] \in Entry
    BY <1>1
  <2> QED  BY <1>1, <2>1 DEF TermAt, Entry
<1>2. CASE i \notin DOMAIN l
  BY <1>2 DEF TermAt
<1> QED  BY <1>1, <1>2

\* A refused follower names an index of its log, or 0.
LEMMA ConflictIndexType ==
  ASSUME NEW l \in Seq(Entry), NEW prev \in Nat \ {0}
  PROVE  ConflictIndex(l, prev) \in 0 .. Len(l)
<1>1. CASE prev > Len(l)
  BY <1>1 DEF ConflictIndex
<1>2. CASE prev <= Len(l)
  <2> DEFINE run == {k \in 1..prev : \A j \in k..prev : l[j].term = l[prev].term}
  <2>1. prev \in run /\ run \subseteq Nat
    OBVIOUS
  <2>2. Min(run) \in run
    BY <2>1, MinIsLeast
  <2> QED  BY <1>2, <2>2 DEF ConflictIndex
<1> QED  BY <1>1, <1>2

\* Storing entries in a log makes a log.
LEMMA StoredType ==
  ASSUME NEW l \in Seq(Entry), NEW prev \in Nat, NEW es \in Seq(Entry)
  PROVE  Stored(l, prev, es) \in Seq(Entry)
<1> DEFINE overlap == {k \in DOMAIN es : prev + k <= Len(l)}
           clash   == {k \in overlap : l[prev + k].term # es[k].term}
           same    == {k \in overlap : l[prev + k] = es[k]}
<1>1. same \subseteq 1..Len(es) /\ clash \subseteq 1..Len(es)
  OBVIOUS
<1>2. Cardinality(same) \in 0..Len(es)
  <2>1. IsFiniteSet(1..Len(es))
    BY FS_Interval
  <2>2. IsFiniteSet(same)
    BY <1>1, <2>1, FS_Subset
  <2>3. Cardinality(1..Len(es)) = Len(es)
    <3>1. ASSUME NEW n \in Nat PROVE Cardinality(1..n) = n
      <4>1. 1 \in Int /\ n \in Int
        OBVIOUS
      <4>2. Cardinality(1..n) = IF 1 > n THEN 0 ELSE n - 1 + 1
        BY <4>1, FS_Interval
      <4> QED  BY <4>2
    <3> QED  BY <3>1
  <2>4. Cardinality(same) <= Cardinality(1..Len(es))
    <3> HIDE DEF same
    <3> QED  BY <1>1, <2>1, FS_Subset
  <2> QED  BY <2>2, <2>3, <2>4, FS_CardinalityType
<1>3. CASE clash = {}
  <2>1. SubSeq(es, Cardinality(same) + 1, Len(es)) \in Seq(Entry)
    <3> HIDE DEF same
    <3> QED  BY <1>2, SubSeqProperties
  <2> QED  BY <1>3, <2>1 DEF Stored
<1>4. CASE clash # {}
  <2> DEFINE k == Min(clash)
  <2>1. k \in clash
    <3>1. clash \in SUBSET Nat
      OBVIOUS
    <3> HIDE DEF clash
    <3> QED  BY <3>1, <1>4, MinIsLeast
  <2>2. k \in 1..Len(es) /\ prev + k <= Len(l)
    BY <2>1
  <2>3. SubSeq(l, 1, prev + k - 1) \in Seq(Entry) /\ SubSeq(es, k, Len(es)) \in Seq(Entry)
    <3> HIDE DEF k
    <3>1. prev + k - 1 \in 0..Len(l)
      BY <2>2
    <3> QED  BY <2>2, <3>1, SubSeqProperties
  <2> QED  BY <1>4, <2>3 DEF Stored
<1> QED  BY <1>3, <1>4

LEMMA FollowedCommitType ==
  ASSUME NEW c \in Nat, NEW k \in Nat, NEW n \in Nat
  PROVE  FollowedCommit(c, k, n) \in Nat
<1>1. Min({k, n}) \in {k, n}
  BY MinIsLeast
<1> QED  BY <1>1 DEF FollowedCommit

\* The commit rule never moves the commit index back, nor beyond the log.
LEMMA CommitRuleType ==
  ASSUME NEW l \in Seq(Entry), NEW t \in Nat, NEW c \in Nat,
         NEW held \in SUBSET DOMAIN l
  PROVE  CommitRule(l, t, c, held) \in Nat /\ CommitRule(l, t, c, held) >= c
<1> DEFINE new == {n \in held : n > c /\ l[n].term = t}
<1>1. CASE new = {}
  BY <1>1 DEF CommitRule
<1>2. CASE new # {}
  <2>1. new \in SUBSET Nat /\ \A x \in new : x <= Len(l)
    OBVIOUS
  <2>3. Len(l) \in Nat
    OBVIOUS
  <2>2. Max(new) \in new
    <3> HIDE DEF new
    <3> QED  BY <1>2, <2>1, <2>3, MaxIsGreatest
  <2> QED  BY <1>2, <2>2 DEF CommitRule
<1> QED  BY <1>1, <1>2

LEMMA PushedUpToType ==
  ASSUME NEW c \in Nat, NEW done \in Seq(Entry \cup {Wild}), NEW l \in Seq(Entry)
  PROVE  PushedUpTo(c, done, l) \in Seq(Entry \cup {Wild})
<1>1. CASE c > Len(done)
  <2> DEFINE more == [k \in 1..(c - Len(done)) |-> EntryAt(l, Len(done) + k)]
  <2>1. \A k \in 1..(c - Len(done)) : EntryAt(l, Len(done) + k) \in Entry \cup {Wild}
    BY DEF EntryAt
  <2>2. more \in Seq(Entry \cup {Wild})
    BY <1>1, <2>1
  <2>3. PushedUpTo(c, done, l) = done \o more
    BY <1>1 DEF PushedUpTo
  <2> HIDE DEF more
  <2> QED  BY <2>2, <2>3, ConcatProperties
<1>2. CASE ~(c > Len(done))
  BY <1>2 DEF PushedUpTo
<1> QED  BY <1>1, <1>2

-----------------------------------------------------------------------------
(* Logs that agree.                                                        *)

LEMMA AgreeBack ==
  ASSUME NEW a \in Seq(Entry), NEW b \in Seq(Entry), NEW n \in Nat, Agree(a, b, n)
  PROVE  Agree(b, a, n)
BY DEF Agree

\* Two logs that agree with a third agree as far as both do.
LEMMA AgreeVia ==
  ASSUME NEW a \in Seq(Entry), NEW b \in Seq(Entry), NEW c \in Seq(Entry),
         NEW m \in Nat, NEW n \in Nat, NEW k \in Nat, Agree(a, b, m), Agree(b, c, n),
         k <= m, k <= n
  PROVE  Agree(a, c, k)
BY DEF Agree

LEMMA AgreeLess ==
  ASSUME NEW a \in Seq(Entry), NEW b \in Seq(Entry), NEW m \in Nat, NEW n \in Nat,
         Agree(a, b, m), n <= m
  PROVE  Agree(a, b, n)
BY DEF Agree

LEMMA AgreeSelf ==
  ASSUME NEW a \in Seq(Entry), NEW n \in Nat, n <= Len(a)
  PROVE  Agree(a, a, n)
BY DEF Agree

\* An entry of the part that agrees is in both.
LEMMA HasVia ==
  ASSUME NEW a \in Seq(Entry), NEW b \in Seq(Entry), NEW m \in Nat, Agree(a, b, m),
         NEW n \in Nat, NEW t \in Nat, n <= m, Has(a, n, t)
  PROVE  Has(b, n, t)
BY DEF Agree, Has

LEMMA AgreeIsSubSeq ==
  ASSUME NEW a \in Seq(Entry), NEW b \in Seq(Entry), NEW n \in Nat, Agree(a, b, n)
  PROVE  SubSeq(a, 1, n) = SubSeq(b, 1, n)
BY DEF Agree

LEMMA PrefixIsAgree ==
  ASSUME NEW a \in Seq(Entry), NEW b \in Seq(Entry)
  PROVE  IsPrefix(a, b) <=> Agree(a, b, Len(a))
BY DEF Agree, IsPrefix

LEMMA AgreeIsPrefix ==
  ASSUME NEW a \in Seq(Entry \cup {Wild}), NEW b \in Seq(Entry \cup {Wild}), Agree(a, b, Len(a))
  PROVE  IsPrefix(a, b)
BY DEF Agree, IsPrefix

LEMMA TwoPrefixes ==
  ASSUME NEW a \in Seq(Entry \cup {Wild}), NEW b \in Seq(Entry \cup {Wild}),
         NEW l \in Seq(Entry \cup {Wild}), IsPrefix(a, l), IsPrefix(b, l)
  PROVE  IsPrefix(a, b) \/ IsPrefix(b, a)
<1>1. Agree(a, l, Len(a)) /\ Agree(b, l, Len(b))
  BY DEF IsPrefix, Agree
<1>2. CASE Len(a) <= Len(b)
  <2>1. Agree(a, b, Len(a))
    BY <1>1, <1>2 DEF Agree
  <2> QED  BY <2>1, AgreeIsPrefix
<1>3. CASE Len(b) <= Len(a)
  <2>1. Agree(b, a, Len(b))
    BY <1>1, <1>3 DEF Agree
  <2> QED  BY <2>1, AgreeIsPrefix
<1>4. Len(a) <= Len(b) \/ Len(b) <= Len(a)
  OBVIOUS
<1> QED  BY <1>2, <1>3, <1>4

\* Adding an entry leaves those before it.
LEMMA AgreeAppend ==
  ASSUME NEW a \in Seq(Entry), NEW e \in Entry
  PROVE  /\ Append(a, e) \in Seq(Entry) /\ Len(Append(a, e)) = Len(a) + 1
         /\ Agree(a, Append(a, e), Len(a)) /\ Append(a, e)[Len(a) + 1] = e
BY DEF Agree

LEMMA SubSeqAgrees ==
  ASSUME NEW a \in Seq(Entry), NEW n \in Nat, n <= Len(a)
  PROVE  SubSeq(a, 1, n) \in Seq(Entry) /\ Len(SubSeq(a, 1, n)) = n /\ Agree(SubSeq(a, 1, n), a, n)
BY SubSeqProperties DEF Agree

LEMMA SizeOfInterval == ASSUME NEW n \in Nat PROVE Cardinality(1..n) = n
<1>1. 1 \in Int /\ n \in Int
  OBVIOUS
<1>2. Cardinality(1..n) = IF 1 > n THEN 0 ELSE n - 1 + 1
  BY <1>1, FS_Interval
<1> QED  BY <1>2

\* What section 3 of appendEntries makes of a log l, when the entries es are those of
\* m after prev, and entries of one index and term come after the same entries: l
\* itself if m was there already, and m if not.
LEMMA StoredIs ==
  ASSUME NEW l \in Seq(Entry), NEW m \in Seq(Entry), NEW es \in Seq(Entry), NEW prev \in Nat,
         Len(m) = prev + Len(es), \A k \in DOMAIN es : es[k] = m[prev + k],
         Agree(l, m, prev),
         \A i \in DOMAIN l : i <= Len(m) /\ l[i].term = m[i].term => Agree(l, m, i)
  PROVE  Stored(l, prev, es) = IF Agree(l, m, Len(m)) THEN l ELSE m
<1> DEFINE overlap == {k \in DOMAIN es : prev + k <= Len(l)}
           clash   == {k \in overlap : l[prev + k].term # es[k].term}
           same    == {k \in overlap : l[prev + k] = es[k]}
<1>0. prev <= Len(l) /\ Len(l) \in Nat /\ Len(es) \in Nat
  BY DEF Agree
<1>1. ASSUME NEW k \in overlap, k \notin clash PROVE Agree(l, m, prev + k) /\ k \in same
  <2>1. k \in Nat \ {0} /\ k <= Len(es) /\ prev + k <= Len(l) /\ prev + k <= Len(m)
    OBVIOUS
  <2>2. prev + k \in DOMAIN l /\ l[prev + k].term = m[prev + k].term
    BY <1>1, <2>1
  <2>3. Agree(l, m, prev + k)
    BY <2>1, <2>2
  <2>4. l[prev + k] = m[prev + k]
    BY <2>1, <2>3 DEF Agree
  <2> QED  BY <2>3, <2>4
<1>2. CASE clash = {} /\ Len(m) <= Len(l)
  <2>1. overlap = 1..Len(es)
    BY <1>2, <1>0
  <2>2. same = 1..Len(es)
    <3>1. \A k \in overlap : k \in same
      BY <1>1, <1>2
    <3> HIDE DEF clash
    <3> QED  BY <2>1, <3>1
  <2>3. Agree(l, m, Len(m))
    <3>1. CASE Len(es) = 0
      BY <3>1
    <3>2. CASE Len(es) # 0
      <4>1. Len(es) \in overlap /\ Len(es) \notin clash
        BY <1>0, <1>2, <2>1, <3>2
      <4> HIDE DEF overlap, clash
      <4> QED  BY <1>1, <4>1
    <3> QED  BY <3>1, <3>2
  <2>4. SubSeq(es, Cardinality(same) + 1, Len(es)) = << >>
    <3>1. Cardinality(same) = Len(es)
      BY <1>0, <2>2, SizeOfInterval
    <3> HIDE DEF same
    <3> QED  BY <1>0, <3>1, SubSeqEmpty
  <2>5. Stored(l, prev, es) = l \o << >>
    BY <1>2, <2>4 DEF Stored
  <2> QED  BY <2>3, <2>5, ConcatEmptySeq
<1>3. CASE clash = {} /\ ~(Len(m) <= Len(l))
  <2> DEFINE d == Len(l) - prev
  <2>1. d \in Nat /\ d < Len(es) /\ overlap = 1..d
    BY <1>3, <1>0
  <2>2. same = 1..d
    <3>1. \A k \in overlap : k \in same
      BY <1>1, <1>3
    <3> HIDE DEF clash, d
    <3> QED  BY <2>1, <3>1
  <2>3. Agree(l, m, Len(l))
    <3>1. CASE d = 0
      BY <1>0, <3>1
    <3>2. CASE d # 0
      <4>1. d \in overlap /\ d \notin clash /\ prev + d = Len(l)
        BY <1>0, <1>3, <2>1, <3>2
      <4> HIDE DEF overlap, clash, d
      <4> QED  BY <1>1, <4>1
    <3> QED  BY <3>1, <3>2
  <2>4. Stored(l, prev, es) = l \o SubSeq(es, d + 1, Len(es))
    <3>1. Cardinality(same) = d
      <4> HIDE DEF d
      <4> QED  BY <2>1, <2>2, SizeOfInterval
    <3> QED  BY <1>3, <3>1 DEF Stored
  <2> DEFINE rest == SubSeq(es, d + 1, Len(es))
  <2>5. /\ rest \in Seq(Entry) /\ Len(rest) = Len(es) - d
        /\ \A i \in 1 .. Len(es) - d : rest[i] = es[d + i]
    <3>1. \A i \in d + 1 .. Len(es) : es[i] \in Entry
      BY <2>1
    <3>2. d + 1 \in Int /\ Len(es) \in Int /\ d + 1 <= Len(es)
      BY <2>1, <1>0
    <3>3. /\ rest \in Seq(Entry)
          /\ Len(rest) = IF d + 1 <= Len(es) THEN Len(es) - (d + 1) + 1 ELSE 0
          /\ \A i \in 1 .. Len(es) - (d + 1) + 1 : rest[i] = es[d + 1 + i - 1]
      <4> HIDE DEF d
      <4> QED  BY <3>1, <3>2, SubSeqProperties
    <3> QED  BY <1>0, <2>1, <3>2, <3>3
  <2>6. l \o rest = m
    <3>1. Len(l \o rest) = Len(m) /\ l \o rest \in Seq(Entry)
      <4>1. Len(l) + Len(rest) = Len(m)
        BY <1>0, <2>5
      <4> HIDE DEF rest
      <4> QED  BY <2>5, <4>1, ConcatProperties
    <3>2. ASSUME NEW i \in 1..Len(m) PROVE (l \o rest)[i] = m[i]
      <4>1. CASE i <= Len(l)
        <5>1. (l \o rest)[i] = l[i]
          <6> HIDE DEF rest
          <6> QED  BY <2>5, <4>1
        <5> QED  BY <2>3, <4>1, <5>1 DEF Agree
      <4>2. CASE i > Len(l)
        <5>1. (l \o rest)[i] = rest[i - Len(l)]
          <6> HIDE DEF rest
          <6> QED  BY <1>0, <2>5, <3>1, <4>2
        <5>2. i - Len(l) \in 1 .. Len(es) - d /\ d + (i - Len(l)) = i - prev /\ i - prev \in 1..Len(es)
          BY <1>0, <4>2
        <5>3. rest[i - Len(l)] = es[i - prev]
          BY <2>5, <5>2
        <5>4. es[i - prev] = m[i]
          <6>1. es[i - prev] = m[prev + (i - prev)]
            BY <5>2
          <6>2. prev + (i - prev) = i
            OBVIOUS
          <6> QED  BY <6>1, <6>2
        <5> QED  BY <5>1, <5>3, <5>4
      <4> QED  BY <1>0, <4>1, <4>2
    <3> HIDE DEF rest
    <3> QED  BY <3>1, <3>2, SeqEqual
  <2>7. ~Agree(l, m, Len(m))
    BY <1>3 DEF Agree
  <2> QED  BY <2>4, <2>6, <2>7
<1>4. CASE clash # {}
  <2> DEFINE k == Min(clash)
             cut == SubSeq(l, 1, prev + k - 1)
             rest == SubSeq(es, k, Len(es))
  <2>1. k \in clash /\ \A j \in clash : k <= j
    <3>1. clash \in SUBSET Nat
      OBVIOUS
    <3> HIDE DEF clash
    <3> QED  BY <3>1, <1>4, MinIsLeast
  <2>2. k \in 1..Len(es) /\ prev + k <= Len(l)
    BY <2>1
  <2>3. Stored(l, prev, es) = cut \o rest
    BY <1>4 DEF Stored
  <2>4. ~Agree(l, m, Len(m))
    <3>1. l[prev + k].term # es[k].term
      BY <2>1
    <3>2. l[prev + k] # m[prev + k]
      BY <2>2, <3>1
    <3>3. prev + k \in 1..Len(m)
      BY <2>2
    <3> HIDE DEF k
    <3> QED  BY <3>2, <3>3 DEF Agree
  <2>5. Agree(l, m, prev + k - 1)
    <3>1. CASE k = 1
      BY <3>1
    <3>2. CASE k # 1
      <4>1. k - 1 \in overlap /\ k - 1 \notin clash
        <5>1. k - 1 \in 1..Len(es) /\ prev + (k - 1) <= Len(l)
          BY <2>2, <3>2, <1>0
        <5>2. ~(k <= k - 1)
          BY <2>2
        <5>3. k - 1 \in overlap
          BY <5>1
        <5> HIDE DEF k, clash, overlap
        <5> QED  BY <2>1, <5>2, <5>3
      <4>2. prev + (k - 1) = prev + k - 1
        BY <2>2
      <4> HIDE DEF k, clash, overlap
      <4> QED  BY <1>1, <4>1, <4>2
    <3> QED  BY <3>1, <3>2
  <2> HIDE DEF k
  <2>6. cut \in Seq(Entry) /\ Len(cut) = prev + k - 1 /\ Agree(cut, l, prev + k - 1)
    <3>1. prev + k - 1 \in Nat /\ prev + k - 1 <= Len(l)
      BY <1>0, <2>2
    <3> QED  BY <3>1, SubSeqAgrees
  <2>7. /\ rest \in Seq(Entry) /\ Len(rest) = Len(es) - k + 1
        /\ \A i \in 1 .. Len(es) - k + 1 : rest[i] = es[k + i - 1]
    <3>1. \A i \in k .. Len(es) : es[i] \in Entry
      BY <2>2
    <3>2. k \in Int /\ Len(es) \in Int /\ k <= Len(es)
      BY <2>2
    <3> QED  BY <3>1, <3>2, SubSeqProperties
  <2> HIDE DEF cut, rest
  <2>8. cut \o rest = m
    <3>1. Len(cut \o rest) = Len(m) /\ cut \o rest \in Seq(Entry)
      <4>1. Len(cut) + Len(rest) = Len(m)
        BY <1>0, <2>2, <2>6, <2>7
      <4> QED  BY <2>6, <2>7, <4>1, ConcatProperties
    <3>2. ASSUME NEW i \in 1..Len(m) PROVE (cut \o rest)[i] = m[i]
      <4>1. CASE i <= Len(cut)
        <5>1. (cut \o rest)[i] = cut[i]
          BY <2>6, <2>7, <4>1
        <5>2. cut[i] = l[i] /\ l[i] = m[i]
          BY <2>5, <2>6, <4>1 DEF Agree
        <5> QED  BY <5>1, <5>2
      <4>2. CASE i > Len(cut)
        <5> DEFINE j == i - Len(cut)
        <5>1. (cut \o rest)[i] = rest[j]
          BY <1>0, <2>6, <2>7, <3>1, <4>2
        <5>2. j \in 1 .. Len(es) - k + 1 /\ k + j - 1 = i - prev /\ i - prev \in 1..Len(es)
          BY <1>0, <2>2, <2>6, <4>2
        <5>3. rest[j] = es[i - prev]
          <6>1. rest[j] = es[k + j - 1]
            BY <2>7, <5>2
          <6> QED  BY <5>2, <6>1
        <5>4. es[i - prev] = m[i]
          <6> DEFINE x == i - prev
          <6>1. x \in DOMAIN es /\ prev + x = i
            BY <5>2
          <6> HIDE DEF x, j
          <6>2. es[x] = m[prev + x]
            BY <6>1
          <6> QED  BY <6>1, <6>2 DEF x
        <5> QED  BY <5>1, <5>3, <5>4
      <4>3. i <= Len(cut) \/ i > Len(cut)
        BY <2>6
      <4> QED  BY <4>1, <4>2, <4>3
    <3> QED  BY <3>1, <3>2, SeqEqual
  <2> QED  BY <2>3, <2>4, <2>8
<1> QED  BY <1>2, <1>3, <1>4

\* A refusal names no index beyond the one that was refused.
LEMMA ConflictIndexBelow ==
  ASSUME NEW l \in Seq(Entry), NEW prev \in Nat, prev # 0
  PROVE  ConflictIndex(l, prev) <= prev
<1>1. CASE prev > Len(l)
  BY <1>1 DEF ConflictIndex
<1>2. CASE prev <= Len(l)
  <2> DEFINE run == {k \in 1..prev : \A j \in k..prev : l[j].term = l[prev].term}
  <2>1. prev \in run /\ run \subseteq Nat
    OBVIOUS
  <2>2. Min(run) <= prev
    BY <2>1, MinIsLeast
  <2> QED  BY <1>2, <2>2 DEF ConflictIndex
<1> QED  BY <1>1, <1>2

\* The commit index stays, or becomes that of an entry of the leader's own term that
\* enough nodes hold.
LEMMA CommitRuleIs ==
  ASSUME NEW l \in Seq(Entry), NEW t \in Nat, NEW c \in Nat,
         NEW held \in SUBSET DOMAIN l, NEW n, n = CommitRule(l, t, c, held)
  PROVE  n = c \/ (n \in held /\ n \in Nat /\ n > c /\ l[n].term = t)
<1> DEFINE new == {k \in held : k > c /\ l[k].term = t}
<1>1. CASE new = {}
  BY <1>1 DEF CommitRule
<1>2. CASE new # {}
  <2>1. new \in SUBSET Nat /\ \A x \in new : x <= Len(l)
    OBVIOUS
  <2>2. Max(new) \in new
    <3> HIDE DEF new
    <3>1. Len(l) \in Nat
      OBVIOUS
    <3> QED  BY <1>2, <2>1, <3>1, MaxIsGreatest
  <2>3. n = Max(new)
    BY <1>2 DEF CommitRule
  <2> QED  BY <2>1, <2>2, <2>3
<1> QED  BY <1>1, <1>2

\* When a leader's commit index is no higher than the last entry of its call, it is
\* what a follower moves to, and none moves back.
LEMMA FollowedCommitIs ==
  ASSUME NEW c \in Nat, NEW k \in Nat, NEW n \in Nat, k <= n
  PROVE  FollowedCommit(c, k, n) \in {c, k} /\ FollowedCommit(c, k, n) >= c
<1>1. Min({k, n}) \in {k, n} /\ Min({k, n}) <= k
  BY MinIsLeast
<1>2. Min({k, n}) = k
  BY <1>1
<1> QED  BY <1>2 DEF FollowedCommit

\* What was pushed before, and the entries of l up to the commit index, are pushed.
LEMMA PushedUpToIs ==
  ASSUME NEW c \in Nat, NEW done \in Seq(Entry \cup {Wild}), NEW l \in Seq(Entry),
         Agree(done, l, Len(done)), Len(done) <= c, c <= Len(l)
  PROVE  Agree(PushedUpTo(c, done, l), l, c) /\ Len(PushedUpTo(c, done, l)) = c
<1>1. CASE c > Len(done)
  <2> DEFINE more == [k \in 1..(c - Len(done)) |-> EntryAt(l, Len(done) + k)]
  <2>0. Len(done) \in Nat /\ c - Len(done) \in Nat
    BY <1>1
  <2>1. ASSUME NEW k \in 1..(c - Len(done))
        PROVE  EntryAt(l, Len(done) + k) = l[Len(done) + k] /\ l[Len(done) + k] \in Entry
    <3>1. Len(done) + k \in DOMAIN l
      BY <2>0
    <3> QED  BY <3>1 DEF EntryAt
  <2>2. more \in Seq(Entry) /\ Len(more) = c - Len(done)
    <3>1. \A k \in 1..(c - Len(done)) : more[k] \in Entry
      BY <2>1
    <3> QED  BY <2>0, <3>1
  <2>3. \A k \in 1..(c - Len(done)) : more[k] = l[Len(done) + k]
    BY <2>1
  <2> HIDE DEF more
  <2>4. /\ Len(done \o more) = c
        /\ \A i \in 1..c : (done \o more)[i] = IF i <= Len(done) THEN done[i]
                                               ELSE more[i - Len(done)]
    BY <1>1, <2>2
  <2>5. \A i \in 1..c : (done \o more)[i] = l[i]
    <3> SUFFICES ASSUME NEW i \in 1..c PROVE (done \o more)[i] = l[i]
      OBVIOUS
    <3>0. i \in Nat /\ (i <= Len(done) \/ i > Len(done))
      BY <2>0
    <3>1. CASE i <= Len(done)
      BY <2>4, <3>1 DEF Agree
    <3>2. CASE i > Len(done)
      <4>1. i - Len(done) \in 1..(c - Len(done)) /\ Len(done) + (i - Len(done)) = i
        BY <3>2
      <4>2. (done \o more)[i] = more[i - Len(done)]
        BY <2>0, <2>4, <3>2
      <4>3. more[i - Len(done)] = l[Len(done) + (i - Len(done))]
        BY <2>3, <4>1
      <4> QED  BY <4>1, <4>2, <4>3
    <3> QED  BY <3>0, <3>1, <3>2
  <2>6. PushedUpTo(c, done, l) = done \o more
    BY <1>1 DEF PushedUpTo, more
  <2> QED  BY <2>4, <2>5, <2>6 DEF Agree
<1>2. CASE ~(c > Len(done))
  <2>1. c = Len(done) /\ PushedUpTo(c, done, l) = done
    BY <1>2 DEF PushedUpTo
  <2> QED  BY <2>1
<1> QED  BY <1>1, <1>2

-----------------------------------------------------------------------------
(* Types.                                                                  *)

LEMMA InitTypeInv == Init => TypeInv
<1> SUFFICES ASSUME Init PROVE TypeInv
  OBVIOUS
<1> USE DEF Init
<1>1. TypeOK
  BY DEF TypeOK, TermAndVote
<1>2. LeaderHasNextIndexes
  BY DEF LeaderHasNextIndexes
<1> QED  BY <1>1, <1>2 DEF TypeInv

\* An answered call is a call.
LEMMA AnswerVoteType ==
  ASSUME voteRpcs \subseteq VoteRpc, NEW r \in voteRpcs, NEW t \in Nat, NEW ok \in BOOLEAN,
         AnswerVote(r, t, ok)
  PROVE  voteRpcs' \subseteq VoteRpc
<1>1. [r EXCEPT !.stage = "replied", !.replyTerm = t, !.granted = ok] \in VoteRpc
  BY DEF VoteRpc
<1> QED  BY <1>1 DEF AnswerVote

LEMMA AnswerType ==
  ASSUME appendRpcs \subseteq AppendRpc, NEW r \in appendRpcs,
         NEW t \in Nat, NEW ok \in BOOLEAN, NEW k \in Nat, Answer(r, t, ok, k)
  PROVE  appendRpcs' \subseteq AppendRpc
<1>1. [r EXCEPT !.stage = "replied", !.replyTerm = t, !.success = ok,
                !.conflictIndex = k] \in AppendRpc
  BY DEF AppendRpc
<1> QED  BY <1>1 DEF Answer

\* The record of leaders' logs stays one.
LEMMA RecordedType ==
  ASSUME DOMAIN termLog \subseteq Nat, \A u \in DOMAIN termLog : termLog[u] \in Seq(Entry),
         NEW t \in Nat, NEW l \in Seq(Entry)
  PROVE  /\ DOMAIN Recorded(t, l) \subseteq Nat
         /\ \A u \in DOMAIN Recorded(t, l) : Recorded(t, l)[u] \in Seq(Entry)
BY DEF Recorded

\* A restarted node has what it finds in its Persister, and is given done.
LEMMA RebootTypeInv ==
  ASSUME TypeInv, NEW s \in Server, NEW done \in Seq(Entry \cup {Wild}), Reboot(s, done)
  PROVE  TypeInv'
<1> USE DEF TypeInv
<1> DEFINE kept == IF PersisterSurvives THEN persisted[s]
                   ELSE [term |-> 0, votedFor |-> Nil, log |-> << >>]
<1>1. kept \in TermAndVote
  BY DEF TypeOK, TermAndVote
<1>2. /\ persisted' = [persisted EXCEPT ![s] = kept]
      /\ currentTerm' = [currentTerm EXCEPT ![s] = kept.term]
      /\ votedFor' = [votedFor EXCEPT ![s] = kept.votedFor]
      /\ log' = [log EXCEPT ![s] = kept.log]
  BY DEF Reboot
<1>3. /\ persisted' \in [Server -> TermAndVote]
      /\ currentTerm' \in [Server -> Nat]
      /\ votedFor' \in [Server -> Server \cup {Nil}]
      /\ log' \in [Server -> Seq(Entry)]
  <2> HIDE DEF kept
  <2> QED  BY <1>1, <1>2 DEF TypeOK, TermAndVote
<1>4. /\ state' \in [Server -> {"Follower", "Candidate", "Leader"}]
      /\ electing' \in [Server -> BOOLEAN]
      /\ toAsk' \in [Server -> SUBSET Server]
      /\ votesGranted' \in [Server -> Nat]
      /\ tally' \in [Server -> SUBSET Server]
  BY DEF Reboot, BecomeFollower, TypeOK
<1>5. commitIndex' \in [Server -> Nat] /\ applied' \in [Server -> Seq(Entry \cup {Wild})]
  BY DEF Reboot, TypeOK
<1>10. /\ nextIndex' \in [Server -> [Server -> Nat]]
       /\ matchIndex' \in [Server -> [Server -> Nat]]
  <2>1. [p \in Server |-> 0] \in [Server -> Nat]
    OBVIOUS
  <2> QED  BY <2>1 DEF Reboot, TypeOK
<1>6. LeaderHasNextIndexes'
  <2>1. /\ state \in [Server -> {"Follower", "Candidate", "Leader"}]
        /\ nextIndex \in [Server -> [Server -> Nat]]
    BY DEF TypeOK
  <2>2. /\ state' = [state EXCEPT ![s] = "Follower"]
        /\ nextIndex' = [nextIndex EXCEPT ![s] = [p \in Server |-> 0]]
    BY DEF Reboot, BecomeFollower
  <2>3. \A q \in Server : state'[q] = "Leader" => q # s /\ state[q] = "Leader"
    BY <2>1, <2>2
  <2>4. \A q \in Server : q # s => nextIndex'[q] = nextIndex[q]
    BY <2>1, <2>2
  <2> QED  BY <2>3, <2>4 DEF LeaderHasNextIndexes
<1>7. voteRpcs' \subseteq VoteRpc
  <2>1. ASSUME NEW r \in voteRpcs PROVE [r EXCEPT !.live = FALSE] \in VoteRpc
    <3>1. r \in VoteRpc
      BY DEF TypeOK
    <3> QED  BY <3>1 DEF VoteRpc
  <2> QED  BY <2>1 DEF Reboot, Orphaned, TypeOK
<1>8. appendRpcs' \subseteq AppendRpc
  <2>1. ASSUME NEW r \in appendRpcs PROVE [r EXCEPT !.live = FALSE] \in AppendRpc
    <3>1. r \in AppendRpc
      BY DEF TypeOK
    <3> QED  BY <3>1 DEF AppendRpc
  <2> QED  BY <2>1 DEF Reboot, Orphaned, TypeOK
<1>9. restarts' \in Nat
  BY DEF Reboot, TypeOK
<1> QED
  BY <1>3, <1>4, <1>5, <1>6, <1>7, <1>8, <1>9, <1>10 DEF TypeOK, Reboot, takenVars

\* The reply term, the conflict and the new indexes are natural numbers.
LEMMA StepTypeInv == TypeInv /\ [Next]_vars => TypeInv'
<1> SUFFICES ASSUME TypeInv, [Next]_vars PROVE TypeInv'
  OBVIOUS
<1> USE DEF TypeInv
<1>1. ASSUME NEW s \in Server, FollowerTimeout(s) \/ CandidateTimeout(s) PROVE TypeInv'
  <2>1. /\ state' = state \/ state' = [state EXCEPT ![s] = "Candidate"]
        /\ electing' = [electing EXCEPT ![s] = TRUE]
        /\ UNCHANGED <<currentTerm, votedFor, votesGranted, toAsk, logVars, leaderVars,
                       persisted, voteRpcs, appendRpcs, restarts, historyVars>>
    BY <1>1 DEF FollowerTimeout, CandidateTimeout
  <2>2. /\ state' \in [Server -> {"Follower", "Candidate", "Leader"}]
        /\ electing' \in [Server -> BOOLEAN]
    BY <2>1 DEF TypeOK
  <2>3. LeaderHasNextIndexes'
    <3>1. nextIndex' = nextIndex /\ state \in [Server -> {"Follower", "Candidate", "Leader"}]
      BY <2>1 DEF leaderVars, TypeOK
    <3> QED  BY <2>1, <3>1 DEF LeaderHasNextIndexes
  <2> QED
    BY <2>1, <2>2, <2>3 DEF TypeOK, logVars, leaderVars, historyVars, ballotVars, takenVars
<1>3. ASSUME NEW s \in Server, StartElection(s) PROVE TypeInv'
  <2>1. /\ currentTerm' \in [Server -> Nat]
        /\ votedFor' \in [Server -> Server \cup {Nil}]
        /\ log' = log
    BY <1>3 DEF StartElection, TypeOK, logVars
  <2>2. persisted' \in [Server -> TermAndVote]
    <3>1. /\ currentTerm'[s] \in Nat /\ votedFor'[s] \in Server \cup {Nil}
          /\ log'[s] \in Seq(Entry)
      BY <2>1 DEF TypeOK
    <3>2. [term |-> currentTerm'[s], votedFor |-> votedFor'[s], log |-> log'[s]]
            \in TermAndVote
      BY <3>1 DEF TermAndVote
    <3>3. persisted \in [Server -> TermAndVote]
      BY DEF TypeOK
    <3> QED  BY <1>3, <3>2, <3>3 DEF StartElection, Persist
  <2>3. /\ votesGranted' \in [Server -> Nat]
        /\ electing' \in [Server -> BOOLEAN]
        /\ toAsk' \in [Server -> SUBSET Server]
        /\ tally' \in [Server -> SUBSET Server]
    <3>1. Peers(s) \subseteq Server
      BY DEF Peers
    <3> QED  BY <1>3, <3>1 DEF StartElection, TypeOK
  <2>4. cast' \subseteq [term : Nat, voter : Server, candidate : Server]
    <3>1. /\ currentTerm'[s] \in Nat
          /\ cast \subseteq [term : Nat, voter : Server, candidate : Server]
      BY <2>1 DEF TypeOK
    <3> QED  BY <1>3, <3>1 DEF StartElection
  <2>5. LeaderHasNextIndexes'
    BY <1>3 DEF StartElection, LeaderHasNextIndexes, leaderVars
  <2> QED
    BY <1>3, <2>1, <2>2, <2>3, <2>4, <2>5
       DEF TypeOK, StartElection, logVars, leaderVars, takenVars
<1>4. ASSUME NEW s \in Server, NEW p \in Peers(s), AskForVote(s, p) PROVE TypeInv'
  <2>1. s # p /\ p \in Server
    BY DEF Peers
  <2>2. LastTerm(log[s]) \in Nat /\ Len(log[s]) \in Nat
    BY LastTermType DEF TypeOK
  <2>3. voteRpcs' \subseteq VoteRpc
    <3> DEFINE new == [from |-> s, to |-> p, live |-> TRUE, stage |-> "sent",
                       term |-> currentTerm[s], lastLogIndex |-> Len(log[s]),
                       lastLogTerm |-> LastTerm(log[s]), replyTerm |-> 0, granted |-> FALSE]
    <3>1. currentTerm[s] \in Nat
      BY DEF TypeOK
    <3>2. new \in VoteRpc
      BY <2>1, <2>2, <3>1 DEF VoteRpc
    <3>3. voteRpcs' = voteRpcs \cup {new}
      BY <1>4 DEF AskForVote
    <3> QED  BY <3>2, <3>3 DEF TypeOK
  <2>4. toAsk' \in [Server -> SUBSET Server]
    BY <1>4 DEF AskForVote, TypeOK
  <2> QED
    BY <1>4, <2>3, <2>4
       DEF TypeOK, LeaderHasNextIndexes, AskForVote, logVars, leaderVars, ballotVars,
           historyVars, takenVars
<1>5. ASSUME NEW s \in Server, BecomeLeader(s) PROVE TypeInv'
  <2>1. Len(log[s]) + 1 \in Nat \ {0}
    BY DEF TypeOK
  <2>2. nextIndex' \in [Server -> [Server -> Nat]] /\ matchIndex' \in [Server -> [Server -> Nat]]
    BY <1>5, <2>1 DEF BecomeLeader, TypeOK
  <2>3. LeaderHasNextIndexes'
    BY <1>5, <2>1 DEF BecomeLeader, TypeOK, LeaderHasNextIndexes
  <2>4. elected' \subseteq [term : Nat, leader : Server, votes : SUBSET Server]
    BY <1>5 DEF BecomeLeader, TypeOK
  <2>5. state' \in [Server -> {"Follower", "Candidate", "Leader"}]
    BY <1>5 DEF BecomeLeader, TypeOK
  <2>6. DOMAIN termLog' \subseteq Nat /\ \A t \in DOMAIN termLog' : termLog'[t] \in Seq(Entry)
    BY <1>5, RecordedType DEF BecomeLeader, TypeOK
  <2>7. UNCHANGED <<currentTerm, votedFor, votesGranted, electing, toAsk, log, commitIndex,
                    applied, persisted, voteRpcs, appendRpcs, restarts, cast, tally, started>>
    BY <1>5 DEF BecomeLeader, logVars
  <2> QED  BY <1>5, <2>2, <2>3, <2>4, <2>5, <2>6, <2>7 DEF TypeOK
<1>6. ASSUME NEW s \in Server, NEW p \in Peers(s), SendAppendEntries(s, p) PROVE TypeInv'
  <2> DEFINE prev == nextIndex[s][p] - 1
             sent == SubSeq(log[s], prev + 1, Len(log[s]))
  <2>1. prev \in Nat /\ log[s] \in Seq(Entry) /\ p \in Server
    <3>1. state[s] = "Leader" /\ p \in Server
      BY <1>6 DEF SendAppendEntries, Peers
    <3>2. nextIndex[s][p] \in Nat /\ log[s] \in Seq(Entry)
      BY <3>1 DEF TypeOK
    <3> QED  BY <3>1, <3>2 DEF LeaderHasNextIndexes
  <2>2. sent \in Seq(Entry)
    <3> HIDE DEF prev
    <3>1. \A i \in prev + 1 .. Len(log[s]) : log[s][i] \in Entry
      BY <2>1
    <3> QED  BY <2>1, <3>1, SubSeqProperties
  <2>3. TermAt(log[s], prev) \in Nat
    BY <2>1, TermAtType
  <2>4. appendRpcs' \subseteq AppendRpc
    <3> HIDE DEF sent
    <3>1. appendRpcs' = appendRpcs \cup
            {[from |-> s, to |-> p, live |-> TRUE, stage |-> "sent",
              term |-> currentTerm[s], prevLogIndex |-> prev,
              prevLogTerm |-> TermAt(log[s], prev), entries |-> sent,
              leaderCommit |-> commitIndex[s],
              replyTerm |-> 0, success |-> FALSE, conflictIndex |-> 0]}
      BY <1>6 DEF SendAppendEntries, sent
    <3>2. currentTerm[s] \in Nat /\ commitIndex[s] \in Nat
      BY DEF TypeOK
    <3> HIDE DEF prev
    <3>3. [from |-> s, to |-> p, live |-> TRUE, stage |-> "sent",
           term |-> currentTerm[s], prevLogIndex |-> prev,
           prevLogTerm |-> TermAt(log[s], prev), entries |-> sent,
           leaderCommit |-> commitIndex[s],
           replyTerm |-> 0, success |-> FALSE, conflictIndex |-> 0] \in AppendRpc
      BY <2>1, <2>2, <2>3, <3>2 DEF AppendRpc
    <3> QED  BY <3>1, <3>3 DEF TypeOK
  <2> QED
    BY <1>6, <2>4 DEF TypeOK, LeaderHasNextIndexes, SendAppendEntries, electionVars, logVars,
                      leaderVars, ballotVars, historyVars, takenVars
<1>7. ASSUME NEW s \in Server, NEW c \in Command, Start(s, c) PROVE TypeInv'
  <2>1. [term |-> currentTerm[s], command |-> c] \in Entry
    BY DEF TypeOK, Entry
  <2>2. log' \in [Server -> Seq(Entry)]
    BY <1>7, <2>1 DEF Start, TypeOK
  <2>3. persisted' \in [Server -> TermAndVote]
    BY <1>7, <2>2 DEF Start, Persist, TypeOK, TermAndVote, electionVars
  <2>4. started' \subseteq Seq(Entry)
    BY <1>7, <2>2 DEF Start, TypeOK
  <2>5. DOMAIN termLog' \subseteq Nat /\ \A t \in DOMAIN termLog' : termLog'[t] \in Seq(Entry)
    BY <1>7, <2>2, RecordedType DEF Start, TypeOK, electionVars
  <2> QED
    BY <1>7, <2>2, <2>3, <2>4, <2>5 DEF TypeOK, LeaderHasNextIndexes, Start, electionVars,
                                  leaderVars, ballotVars
<1>8. ASSUME NEW r \in voteRpcs, RefuseStaleVote(r) PROVE TypeInv'
  <2>1. voteRpcs' \subseteq VoteRpc
    BY <1>8, AnswerVoteType DEF RefuseStaleVote, TypeOK, VoteRpc
  <2> QED
    BY <1>8, <2>1 DEF TypeOK, LeaderHasNextIndexes, RefuseStaleVote, electionVars, logVars,
                      leaderVars, ballotVars, historyVars, takenVars
<1>9. ASSUME NEW r \in voteRpcs, HandleRequestVote(r) PROVE TypeInv'
  <2> DEFINE grant == VoteIsFree(r) /\ UpToDate(r.lastLogTerm, r.lastLogIndex, log[r.to])
  <2>1. r.to \in Server /\ r.from \in Server /\ r.term \in Nat
    BY DEF TypeOK, VoteRpc
  <2>2. AnswerVote(r, currentTerm[r.to], grant)
    BY <1>9 DEF HandleRequestVote
  <2>3. grant \in BOOLEAN /\ currentTerm[r.to] \in Nat
    BY <2>1 DEF TypeOK, VoteIsFree, UpToDate
  <2>4. voteRpcs' \subseteq VoteRpc
    <3> HIDE DEF grant
    <3> QED  BY <2>2, <2>3, AnswerVoteType DEF TypeOK
  <2>5. /\ currentTerm' \in [Server -> Nat]
        /\ votedFor' \in [Server -> Server \cup {Nil}]
        /\ log' = log
    BY <1>9, <2>1 DEF HandleRequestVote, TypeOK, logVars
  <2>6. persisted' \in [Server -> TermAndVote]
    BY <1>9, <2>1, <2>5 DEF HandleRequestVote, Persist, TypeOK, TermAndVote
  <2>7. /\ state' \in [Server -> {"Follower", "Candidate", "Leader"}]
        /\ electing' \in [Server -> BOOLEAN]
        /\ toAsk' \in [Server -> SUBSET Server]
        /\ LeaderHasNextIndexes'
    BY <1>9, <2>1 DEF HandleRequestVote, BecomeFollower, TypeOK, LeaderHasNextIndexes,
                      leaderVars
  <2>8. cast' \subseteq [term : Nat, voter : Server, candidate : Server]
    <3>1. cast' \subseteq cast \cup {[term |-> r.term, voter |-> r.to, candidate |-> r.from]}
      BY <1>9 DEF HandleRequestVote
    <3>2. [term |-> r.term, voter |-> r.to, candidate |-> r.from]
            \in [term : Nat, voter : Server, candidate : Server]
      BY <2>1
    <3>3. cast \subseteq [term : Nat, voter : Server, candidate : Server]
      BY DEF TypeOK
    <3> QED  BY <3>1, <3>2, <3>3
  <2> QED
    BY <1>9, <2>4, <2>5, <2>6, <2>7, <2>8
       DEF TypeOK, HandleRequestVote, logVars, leaderVars, takenVars
<1>10. ASSUME NEW r \in voteRpcs, CountVote(r) PROVE TypeInv'
  <2>1. r.to \in Server /\ r.from \in Server
    BY DEF TypeOK, VoteRpc
  <2>2. votesGranted' \in [Server -> Nat]
    <3>1. votesGranted' = [votesGranted EXCEPT ![r.from] = @ + 1]
      BY <1>10 DEF CountVote
    <3>2. votesGranted \in [Server -> Nat]
      BY DEF TypeOK
    <3>3. votesGranted[r.from] + 1 \in Nat
      BY <2>1, <3>2
    <3> QED  BY <2>1, <3>1, <3>2, <3>3
  <2>3. tally' = [tally EXCEPT ![r.from] = @ \cup {r.to}]
    BY <1>10 DEF CountVote
  <2>4. tally' \in [Server -> SUBSET Server]
    <3>1. /\ tally \in [Server -> SUBSET Server]
          /\ tally[r.from] \cup {r.to} \in SUBSET Server
      BY <2>1 DEF TypeOK
    <3> QED  BY <2>1, <2>3, <3>1
  <2>5. voteRpcs' \subseteq VoteRpc
    BY <1>10 DEF CountVote, TypeOK
  <2> QED
    BY <1>10, <2>2, <2>4, <2>5 DEF TypeOK, LeaderHasNextIndexes, CountVote, logVars, leaderVars,
                                  takenVars
<1>11. ASSUME NEW r \in voteRpcs, RefusedByNewerTerm(r) PROVE TypeInv'
  BY <1>11 DEF TypeOK, LeaderHasNextIndexes, RefusedByNewerTerm, StepDown, BecomeFollower,
               VoteRpc, Persist, TermAndVote, logVars, leaderVars, ballotVars, historyVars,
               takenVars
<1>12. ASSUME NEW r \in voteRpcs, DropVote(r) PROVE TypeInv'
  BY <1>12 DEF TypeOK, LeaderHasNextIndexes, DropVote, electionVars, logVars, leaderVars,
               ballotVars, historyVars, takenVars
<1>13. ASSUME NEW r \in appendRpcs, RefuseStaleAppend(r) PROVE TypeInv'
  <2>1. currentTerm[r.to] \in Nat
    BY DEF TypeOK, AppendRpc
  <2>2. appendRpcs' \subseteq AppendRpc
    BY <1>13, <2>1, AnswerType DEF RefuseStaleAppend, TypeOK
  <2>3. UNCHANGED <<electionVars, logVars, leaderVars, persisted, voteRpcs, restarts,
                    historyVars>>
    BY <1>13 DEF RefuseStaleAppend
  <2>4. LeaderHasNextIndexes'
    BY <2>3 DEF LeaderHasNextIndexes, electionVars, leaderVars
  <2> QED
    BY <2>2, <2>3, <2>4 DEF TypeOK, electionVars, logVars, leaderVars, ballotVars,
                            historyVars, takenVars
<1>14. ASSUME NEW r \in appendRpcs, AcceptAppend(r) PROVE TypeInv'
  <2>1. r.to \in Server /\ r.term \in Nat /\ currentTerm[r.to] \in Nat
    <3>1. r \in AppendRpc /\ currentTerm \in [Server -> Nat]
      BY DEF TypeOK
    <3>2. r.to \in Server /\ r.term \in Nat
      BY <3>1 DEF AppendRpc
    <3> QED  BY <3>1, <3>2
  <2>2. appendRpcs' \subseteq AppendRpc
    BY <1>14, <2>1 DEF AcceptAppend, Advance, TypeOK, AppendRpc
  <2>3. /\ currentTerm' \in [Server -> Nat]
        /\ votedFor' \in [Server -> Server \cup {Nil}]
        /\ log' = log
    <3>1. currentTerm \in [Server -> Nat] /\ votedFor \in [Server -> Server \cup {Nil}]
      BY DEF TypeOK
    <3> QED  BY <1>14, <2>1, <3>1 DEF AcceptAppend, StepDown, logVars
  <2>4. persisted' \in [Server -> TermAndVote]
    <3>1. persisted' = persisted \/ Persist(r.to)
      BY <1>14 DEF AcceptAppend
    <3>2. /\ currentTerm'[r.to] \in Nat /\ votedFor'[r.to] \in Server \cup {Nil}
          /\ log'[r.to] \in Seq(Entry)
      BY <2>1, <2>3 DEF TypeOK
    <3>3. [term |-> currentTerm'[r.to], votedFor |-> votedFor'[r.to], log |-> log'[r.to]]
            \in TermAndVote
      BY <3>2 DEF TermAndVote
    <3>4. persisted \in [Server -> TermAndVote]
      BY DEF TypeOK
    <3> QED  BY <2>1, <3>1, <3>3, <3>4 DEF Persist
  <2>5. /\ state' \in [Server -> {"Follower", "Candidate", "Leader"}]
        /\ electing' \in [Server -> BOOLEAN]
        /\ toAsk' \in [Server -> SUBSET Server]
    BY <1>14, <2>1 DEF AcceptAppend, StepDown, BecomeFollower, TypeOK
  <2>6. LeaderHasNextIndexes'
    <3>1. state' = [state EXCEPT ![r.to] = "Follower"] \/ state' = state
      BY <1>14 DEF AcceptAppend, StepDown, BecomeFollower
    <3>2. nextIndex' = nextIndex
      BY <1>14 DEF AcceptAppend, leaderVars
    <3> QED  BY <3>1, <3>2, <2>1 DEF TypeOK, LeaderHasNextIndexes
  <2> QED
    BY <1>14, <2>2, <2>3, <2>4, <2>5, <2>6
       DEF TypeOK, AcceptAppend, logVars, leaderVars, ballotVars, historyVars, takenVars
<1>15. ASSUME NEW r \in appendRpcs, RefuseMismatch(r) PROVE TypeInv'
  <2>1. /\ log[r.to] \in Seq(Entry) /\ r.replyTerm \in Nat
        /\ r.prevLogIndex \in Nat \ {0}
    BY <1>15 DEF RefuseMismatch, Matches, TypeOK, AppendRpc
  <2>2. ConflictIndex(log[r.to], r.prevLogIndex) \in Nat
    BY <2>1, ConflictIndexType
  <2>3. appendRpcs' \subseteq AppendRpc
    BY <1>15, <2>1, <2>2, AnswerType DEF RefuseMismatch, TypeOK
  <2> QED
    BY <1>15, <2>3 DEF TypeOK, LeaderHasNextIndexes, RefuseMismatch, electionVars, logVars,
                       leaderVars, ballotVars, historyVars, takenVars
<1>16. ASSUME NEW r \in appendRpcs, PassMatch(r) PROVE TypeInv'
  BY <1>16 DEF TypeOK, LeaderHasNextIndexes, PassMatch, Advance, AppendRpc, electionVars,
               logVars, leaderVars, ballotVars, historyVars, takenVars
<1>17. ASSUME NEW r \in appendRpcs, StoreEntries(r) PROVE TypeInv'
  <2>1. /\ r.to \in Server /\ log[r.to] \in Seq(Entry)
        /\ r.prevLogIndex \in Nat /\ r.entries \in Seq(Entry)
    BY DEF TypeOK, AppendRpc
  <2>2. Stored(log[r.to], r.prevLogIndex, r.entries) \in Seq(Entry)
    BY <2>1, StoredType
  <2>3. log' \in [Server -> Seq(Entry)]
    BY <1>17, <2>2 DEF StoreEntries, TypeOK
  <2>4. persisted' \in [Server -> TermAndVote]
    BY <1>17, <2>1, <2>3 DEF StoreEntries, Persist, TypeOK, TermAndVote, electionVars
  <2>5. appendRpcs' \subseteq AppendRpc
    BY <1>17 DEF StoreEntries, Advance, TypeOK, AppendRpc
  <2> QED
    BY <1>17, <2>3, <2>4, <2>5 DEF TypeOK, LeaderHasNextIndexes, StoreEntries, electionVars,
                                   leaderVars, ballotVars, historyVars, takenVars
<1>18. ASSUME NEW r \in appendRpcs, FollowCommit(r) PROVE TypeInv'
  <2> DEFINE c == FollowedCommit(commitIndex[r.to], r.leaderCommit,
                                 r.prevLogIndex + Len(r.entries))
             done == PushedUpTo(c, applied[r.to], log[r.to])
  <2>0. /\ r.to \in Server /\ r.replyTerm \in Nat /\ r.leaderCommit \in Nat
        /\ r.prevLogIndex \in Nat /\ r.entries \in Seq(Entry)
    BY DEF TypeOK, AppendRpc
  <2>1. /\ r.to \in Server /\ r.replyTerm \in Nat /\ r.leaderCommit \in Nat
        /\ commitIndex[r.to] \in Nat /\ r.prevLogIndex + Len(r.entries) \in Nat
        /\ applied[r.to] \in Seq(Entry \cup {Wild}) /\ log[r.to] \in Seq(Entry)
    BY <2>0 DEF TypeOK
  <2>2. c \in Nat
    BY <2>1, FollowedCommitType
  <2>3. done \in Seq(Entry \cup {Wild})
    <3> HIDE DEF c
    <3> QED  BY <2>1, <2>2, PushedUpToType
  <2>4. commitIndex' = [commitIndex EXCEPT ![r.to] = c]
    BY <1>18 DEF FollowCommit
  <2>5. applied' = [applied EXCEPT ![r.to] = done]
    BY <1>18, <2>1, <2>4 DEF FollowCommit, TypeOK
  <2>6. commitIndex' \in [Server -> Nat] /\ applied' \in [Server -> Seq(Entry \cup {Wild})]
    <3> HIDE DEF c, done
    <3> QED  BY <2>2, <2>3, <2>4, <2>5 DEF TypeOK
  <2>7. appendRpcs' \subseteq AppendRpc
    BY <1>18, <2>1, AnswerType DEF FollowCommit, TypeOK
  <2> QED
    BY <1>18, <2>6, <2>7 DEF TypeOK, LeaderHasNextIndexes, FollowCommit, electionVars,
                             leaderVars, ballotVars, historyVars, takenVars
<1>19. ASSUME NEW r \in appendRpcs, DeposedByReply(r) PROVE TypeInv'
  BY <1>19 DEF TypeOK, LeaderHasNextIndexes, DeposedByReply, CurrentReply, StepDown,
               BecomeFollower, AppendRpc, Persist, TermAndVote, logVars, leaderVars,
               ballotVars, historyVars, takenVars
<1>20. ASSUME NEW r \in appendRpcs, CheckReply(r) PROVE TypeInv'
  BY <1>20 DEF TypeOK, LeaderHasNextIndexes, CheckReply, Advance, AppendRpc, electionVars,
               logVars, leaderVars, ballotVars, historyVars, takenVars
<1>21. ASSUME NEW r \in appendRpcs, CountSuccess(r) PROVE TypeInv'
  <2> DEFINE s == r.from
             m == Max({matchIndex[s][r.to], r.prevLogIndex + Len(r.entries)})
             c == CommitRule(log[s], currentTerm[s], commitIndex[s], Held(s, matchIndex'[s]))
             done == PushedUpTo(c, applied[s], log[s])
  <2>0. /\ s \in Server /\ r.to \in Server
        /\ r.prevLogIndex \in Nat /\ r.entries \in Seq(Entry)
    BY DEF TypeOK, AppendRpc
  <2>1. /\ s \in Server /\ r.to \in Server
        /\ matchIndex[s][r.to] \in Nat /\ r.prevLogIndex + Len(r.entries) \in Nat
        /\ currentTerm[s] \in Nat /\ commitIndex[s] \in Nat
        /\ applied[s] \in Seq(Entry \cup {Wild}) /\ log[s] \in Seq(Entry)
    <3> HIDE DEF s
    <3>1. matchIndex[s] \in [Server -> Nat]
      BY <2>0 DEF TypeOK
    <3>2. matchIndex[s][r.to] \in Nat
      BY <2>0, <3>1
    <3>3. r.prevLogIndex + Len(r.entries) \in Nat
      BY <2>0
    <3>4. currentTerm[s] \in Nat /\ commitIndex[s] \in Nat
      BY <2>0 DEF TypeOK
    <3>5. applied[s] \in Seq(Entry \cup {Wild}) /\ log[s] \in Seq(Entry)
      BY <2>0 DEF TypeOK
    <3> QED  BY <2>0, <3>2, <3>3, <3>4, <3>5
  <2>2. m \in Nat
    BY <2>1, MaxOfTwo
  <2>3. matchIndex' = [matchIndex EXCEPT ![s][r.to] = m]
    BY <1>21 DEF CountSuccess
  <2>4. matchIndex' \in [Server -> [Server -> Nat]] /\ matchIndex'[s][r.to] = m
    <3> HIDE DEF m, s
    <3> QED  BY <2>1, <2>2, <2>3 DEF TypeOK
  <2>5. nextIndex' = [nextIndex EXCEPT ![s][r.to] = m + 1]
    <3> HIDE DEF m
    <3> QED  BY <1>21, <2>4 DEF CountSuccess
  <2>6. nextIndex' \in [Server -> [Server -> Nat]] /\ LeaderHasNextIndexes'
    <3>1. state' = state
      BY <1>21 DEF CountSuccess, electionVars
    <3> HIDE DEF m, s
    <3>2. m + 1 \in Nat \ {0}
      BY <2>2
    <3> QED  BY <2>1, <2>5, <3>1, <3>2 DEF TypeOK, LeaderHasNextIndexes
  <2>7. c \in Nat
    <3>1. Held(s, matchIndex'[s]) \in SUBSET DOMAIN log[s]
      BY DEF Held
    <3> QED  BY <2>1, <3>1, CommitRuleType
  <2>8. done \in Seq(Entry \cup {Wild})
    <3> HIDE DEF c, s
    <3> QED  BY <2>1, <2>7, PushedUpToType
  <2>9. commitIndex' = [commitIndex EXCEPT ![s] = c]
    BY <1>21 DEF CountSuccess
  <2>10. applied' = [applied EXCEPT ![s] = done]
    <3>1. commitIndex'[s] = c
      <4> HIDE DEF c, s
      <4> QED  BY <2>1, <2>9 DEF TypeOK
    <3> QED  BY <1>21, <3>1 DEF CountSuccess
  <2>11. commitIndex' \in [Server -> Nat] /\ applied' \in [Server -> Seq(Entry \cup {Wild})]
    <3> HIDE DEF c, done, s
    <3> QED  BY <2>1, <2>7, <2>8, <2>9, <2>10 DEF TypeOK
  <2>12. appendRpcs' \subseteq AppendRpc
    BY <1>21 DEF CountSuccess, TypeOK
  <2> QED
    BY <1>21, <2>4, <2>6, <2>11, <2>12
       DEF TypeOK, CountSuccess, electionVars, ballotVars, historyVars, takenVars
<1>22. ASSUME NEW r \in appendRpcs, BackUp(r) PROVE TypeInv'
  <2> DEFINE n == BackedUp(nextIndex[r.from][r.to], r.conflictIndex)
  <2>1. /\ r.from \in Server /\ r.to \in Server /\ state[r.from] = "Leader"
        /\ nextIndex[r.from][r.to] \in Nat \ {0} /\ r.conflictIndex \in Nat
    <3>1. r \in AppendRpc
      BY DEF TypeOK
    <3>2. r.from \in Server /\ r.to \in Server /\ r.conflictIndex \in Nat
      BY <3>1 DEF AppendRpc
    <3> QED  BY <1>22, <3>2 DEF BackUp, TypeOK, LeaderHasNextIndexes
  <2>2. n \in Nat \ {0}
    BY <2>1 DEF BackedUp
  <2>3. nextIndex' = [nextIndex EXCEPT ![r.from][r.to] = n] /\ state' = state
    BY <1>22 DEF BackUp, electionVars
  <2>4. nextIndex' \in [Server -> [Server -> Nat]] /\ LeaderHasNextIndexes'
    <3> HIDE DEF n
    <3> QED  BY <2>1, <2>2, <2>3 DEF TypeOK, LeaderHasNextIndexes
  <2>5. appendRpcs' \subseteq AppendRpc
    BY <1>22 DEF BackUp, TypeOK
  <2> QED
    BY <1>22, <2>4, <2>5 DEF TypeOK, BackUp, electionVars, logVars, ballotVars,
                             historyVars, takenVars
<1>23. ASSUME NEW r \in appendRpcs, DropAppend(r) PROVE TypeInv'
  BY <1>23 DEF TypeOK, LeaderHasNextIndexes, DropAppend, AppendRpc, electionVars, logVars,
               leaderVars, ballotVars, historyVars, takenVars
<1>24. ASSUME NEW s \in Server, Restart(s) PROVE TypeInv'
  <2>1. << >> \in Seq(Entry \cup {Wild})
    OBVIOUS
  <2> QED  BY <1>24, <2>1, RebootTypeInv DEF Restart
<1>25. CASE UNCHANGED vars
  BY <1>25 DEF TypeOK, LeaderHasNextIndexes, vars, electionVars, logVars, leaderVars,
               ballotVars, historyVars, takenVars
<1> QED
  BY <1>1, <1>3, <1>4, <1>5, <1>6, <1>7, <1>8, <1>9, <1>10, <1>11, <1>12, <1>13,
     <1>14, <1>15, <1>16, <1>17, <1>18, <1>19, <1>20, <1>21, <1>22, <1>23, <1>24, <1>25
     DEF Next, RaftThread, VoteCall, AppendCall

\* TypeOK holds in every reachable state: no handler of raft.cpp produces an index
\* below 0, a conflict outside the log, or an entry that is none.
THEOREM TypeCorrect == Spec => []TypeOK
<1>1. TypeInv => TypeOK
  BY DEF TypeInv
<1> QED  BY <1>1, InitTypeInv, StepTypeInv, PTL DEF Spec

-----------------------------------------------------------------------------
(* Elections.                                                              *)

\* The two conditions: see runs MCRaftStaleVotes and MCRaftVolatile for what
\* happens without them.
TrustedElections == PromptVotes /\ (PersisterSurvives \/ MaxRestarts = 0)

LEMMA InitElectionInv == Init => ElectionInv
BY DEF Init, ElectionInv, VotePersisted, CastRemembered, OneVotePerTerm, GrantIsCast,
       OneCallPerPeer, AskedOnce, Collecting, TallyIsTrue, ElectedByMajority

-----------------------------------------------------------------------------
(* Steps that leave elections alone, and steps that make a node a follower. *)

LEMMA QuietStep ==
  ASSUME ElectionInv, UNCHANGED <<electionVars, ballotVars>>,
         voteRpcs' \subseteq voteRpcs, VotePersisted'
  PROVE  ElectionInv'
BY DEF ElectionInv, CastRemembered, OneVotePerTerm, GrantIsCast, OneCallPerPeer, AskedOnce,
       Collecting, TallyIsTrue, ElectedByMajority, electionVars, ballotVars

\* The terms of a node that steps down, or of one that keeps its term.
LEMMA TermsGrow ==
  ASSUME TypeOK, NEW s \in Server,
         \/ UNCHANGED <<currentTerm, votedFor>>
         \/ \E t \in Nat : t > currentTerm[s] /\ StepDown(s, t)
  PROVE  \A p \in Server : /\ currentTerm[p] \in Nat /\ currentTerm'[p] \in Nat
                           /\ currentTerm'[p] >= currentTerm[p]
                           /\ currentTerm'[p] = currentTerm[p] => votedFor'[p] = votedFor[p]
                           /\ p # s => currentTerm'[p] = currentTerm[p]
<1>1. currentTerm \in [Server -> Nat] /\ votedFor \in [Server -> Server \cup {Nil}]
  BY DEF TypeOK
<1>2. CASE UNCHANGED <<currentTerm, votedFor>>
  BY <1>1, <1>2
<1>3. ASSUME NEW t \in Nat, t > currentTerm[s], StepDown(s, t)
      PROVE  \A p \in Server : /\ currentTerm'[p] \in Nat
                               /\ currentTerm'[p] >= currentTerm[p]
                               /\ p = s => currentTerm'[p] # currentTerm[p]
                               /\ p # s => /\ currentTerm'[p] = currentTerm[p]
                                           /\ votedFor'[p] = votedFor[p]
  BY <1>1, <1>3 DEF StepDown
<1> QED  BY <1>1, <1>2, <1>3

\* A term begun is new.
LEMMA NewTerm == \A x, y \in Nat : x <= y => x <= y + 1 /\ x < y + 1 /\ x # y + 1
OBVIOUS

LEMMA FollowerStep ==
  ASSUME TypeInv, ElectionInv, NEW s \in Server, BecomeFollower(s),
         \/ UNCHANGED <<currentTerm, votedFor>>
         \/ \E t \in Nat : t > currentTerm[s] /\ StepDown(s, t),
         UNCHANGED <<votesGranted, historyVars>>,
         voteRpcs' \subseteq voteRpcs, VotePersisted'
  PROVE  ElectionInv'
<1>1. \A p \in Server : /\ currentTerm[p] \in Nat /\ currentTerm'[p] \in Nat
                        /\ currentTerm'[p] >= currentTerm[p]
                        /\ currentTerm'[p] = currentTerm[p] => votedFor'[p] = votedFor[p]
                        /\ p # s => currentTerm'[p] = currentTerm[p]
  BY TermsGrow DEF TypeInv
<1>2. /\ ~Collecting(s)' /\ toAsk'[s] = {}
      /\ \A p \in Server \ {s} : (Collecting(p)' <=> Collecting(p)) /\ toAsk'[p] = toAsk[p]
  BY DEF BecomeFollower, Collecting, TypeInv, TypeOK
<1>3. CastRemembered'
  <2> SUFFICES ASSUME NEW v \in cast
               PROVE  /\ v.term <= currentTerm'[v.voter]
                      /\ v.term = currentTerm'[v.voter] => votedFor'[v.voter] = v.candidate
    BY DEF CastRemembered, ballotVars, historyVars
  <2> DEFINE t == v.term
             p == v.voter
  <2>1. p \in Server /\ t \in Nat
    BY DEF TypeInv, TypeOK
  <2>2. t <= currentTerm[p] /\ (t = currentTerm[p] => votedFor[p] = v.candidate)
    BY DEF ElectionInv, CastRemembered
  <2> HIDE DEF t, p
  <2>3. t <= currentTerm'[p] /\ (t = currentTerm'[p] => votedFor'[p] = v.candidate)
    BY <1>1, <2>1, <2>2
  <2> QED  BY <2>3 DEF t, p
<1>4. OneVotePerTerm' /\ GrantIsCast' /\ ElectedByMajority'
  BY DEF ElectionInv, OneVotePerTerm, GrantIsCast, ElectedByMajority, ballotVars, historyVars
<1>5. OneCallPerPeer'
  <2>1. ASSUME NEW r \in voteRpcs' PROVE r.term <= currentTerm'[r.from]
    <3> DEFINE t == r.term
               p == r.from
    <3>1. p \in Server /\ t \in Nat
      BY DEF VoteRpc, TypeInv, TypeOK
    <3>2. t <= currentTerm[p]
      BY DEF ElectionInv, OneCallPerPeer
    <3> HIDE DEF t, p
    <3>3. t <= currentTerm'[p]
      BY <1>1, <3>1, <3>2
    <3> QED  BY <3>3 DEF t, p
  <2> QED  BY <2>1 DEF ElectionInv, OneCallPerPeer
<1>6. AskedOnce'
  <2>1. \A r \in voteRpcs' : r \in voteRpcs /\ r.from \in Server
    BY DEF VoteRpc, TypeInv, TypeOK
  <2> QED  BY <1>1, <1>2, <2>1 DEF ElectionInv, AskedOnce, ballotVars, historyVars
<1>7. TallyIsTrue'
  BY <1>1, <1>2 DEF ElectionInv, TallyIsTrue, ballotVars, historyVars
<1> QED  BY <1>3, <1>4, <1>5, <1>6, <1>7 DEF ElectionInv

\* Saving the state leaves memory and Persister in agreement.
LEMMA PersistAgrees ==
  ASSUME TypeInv, TypeInv', VotePersisted, NEW s \in Server, Persist(s),
         \A p \in Server \ {s} : currentTerm'[p] = currentTerm[p] /\ votedFor'[p] = votedFor[p]
  PROVE  VotePersisted'
BY DEF TypeInv, TypeOK, VotePersisted, Persist

-----------------------------------------------------------------------------
(* The steps of an election.                                               *)

LEMMA TimeoutStep ==
  ASSUME TypeInv, ElectionInv, NEW s \in Server, FollowerTimeout(s) \/ CandidateTimeout(s)
  PROVE  ElectionInv'
<1> USE DEF TypeInv, TypeOK, ElectionInv
<1>1. /\ UNCHANGED <<currentTerm, votedFor, votesGranted, toAsk, persisted, voteRpcs,
                    cast, tally, elected>>
      /\ electing' = [electing EXCEPT ![s] = TRUE]
      /\ \A p \in Server \ {s} : state'[p] = state[p]
      /\ toAsk[s] = {}
  BY DEF FollowerTimeout, CandidateTimeout, ballotVars, historyVars, AskedOnce, Collecting
<1>2. /\ ~Collecting(s)'
      /\ \A p \in Server \ {s} : Collecting(p)' <=> Collecting(p)
  BY <1>1 DEF Collecting
<1>3. VotePersisted' /\ CastRemembered' /\ OneVotePerTerm' /\ GrantIsCast' /\ OneCallPerPeer'
  BY <1>1 DEF VotePersisted, CastRemembered, OneVotePerTerm, GrantIsCast, OneCallPerPeer
<1>4. AskedOnce'
  <2>1. \A r \in voteRpcs : r.from \in Server
    BY DEF VoteRpc
  <2> QED  BY <1>1, <1>2, <2>1 DEF AskedOnce
<1>5. TallyIsTrue' /\ ElectedByMajority'
  BY <1>1, <1>2 DEF TallyIsTrue, ElectedByMajority
<1> QED  BY <1>3, <1>4, <1>5

\* A new term: no vote was cast in it by s, no call made in it by s.
LEMMA StartElectionStep ==
  ASSUME TypeInv, TypeInv', ElectionInv, NEW s \in Server, StartElection(s)
  PROVE  ElectionInv'
<1> USE DEF TypeInv, TypeOK, ElectionInv
<1> DEFINE vote == [term |-> currentTerm[s] + 1, voter |-> s, candidate |-> s]
<1>1. /\ currentTerm' = [currentTerm EXCEPT ![s] = currentTerm[s] + 1]
      /\ votedFor' = [votedFor EXCEPT ![s] = s]
      /\ votesGranted' = [votesGranted EXCEPT ![s] = 1]
      /\ toAsk' = [toAsk EXCEPT ![s] = Peers(s)]
      /\ tally' = [tally EXCEPT ![s] = {s}]
      /\ cast' = cast \cup {vote}
      /\ voteRpcs' = voteRpcs /\ elected' = elected
  BY DEF StartElection
<1>2. Collecting(s)' /\ \A p \in Server \ {s} : Collecting(p)' <=> Collecting(p)
  BY DEF StartElection, Collecting
<1>3. VotePersisted'
  <2>1. Persist(s)
    BY DEF StartElection
  <2> QED  BY <1>1, <2>1, PersistAgrees
<1>4. ASSUME NEW v \in cast PROVE v.voter = s => v.term < currentTerm[s] + 1 /\ v.term # currentTerm[s] + 1
  <2> DEFINE t == v.term
  <2>1. t \in Nat /\ currentTerm[s] \in Nat /\ (v.voter = s => t <= currentTerm[s])
    BY DEF CastRemembered
  <2> HIDE DEF t
  <2>2. v.voter = s => t < currentTerm[s] + 1 /\ t # currentTerm[s] + 1
    BY <2>1, NewTerm
  <2> QED  BY <2>2 DEF t
<1>0. /\ currentTerm'[s] = currentTerm[s] + 1 /\ currentTerm[s] \in Nat
      /\ \A p \in Server \ {s} : currentTerm'[p] = currentTerm[p]
      /\ votedFor'[s] = s /\ \A p \in Server \ {s} : votedFor'[p] = votedFor[p]
  BY <1>1
<1>5. CastRemembered'
  <2> SUFFICES ASSUME NEW v \in cast'
               PROVE  /\ v.term <= currentTerm'[v.voter]
                      /\ v.term = currentTerm'[v.voter] => votedFor'[v.voter] = v.candidate
    BY DEF CastRemembered
  <2>1. CASE v = vote
    BY <1>0, <2>1
  <2>2. CASE v \in cast /\ v.voter = s
    <3> DEFINE t == v.term
    <3>1. PICK n \in Nat : n = currentTerm[s]
      BY <1>0
    <3>2. t \in Nat /\ t <= n
      BY <2>2, <3>1 DEF CastRemembered
    <3> HIDE DEF t
    <3>3. t <= n + 1 /\ t # n + 1
      BY <3>2, NewTerm
    <3>4. t <= currentTerm'[s] /\ t # currentTerm'[s]
      BY <1>0, <3>1, <3>3
    <3> QED  BY <2>2, <3>4 DEF t
  <2>3. CASE v \in cast /\ v.voter # s
    BY <1>0, <2>3 DEF CastRemembered
  <2> QED  BY <1>1, <2>1, <2>2, <2>3
<1>6. OneVotePerTerm'
  BY <1>1, <1>4 DEF OneVotePerTerm
<1>7. GrantIsCast'
  BY <1>1 DEF GrantIsCast
<1>8. ASSUME NEW r \in voteRpcs PROVE r.from = s => r.term < currentTerm[s] + 1 /\ r.term # currentTerm[s] + 1
  <2> DEFINE t == r.term
  <2>1. t \in Nat /\ currentTerm[s] \in Nat /\ (r.from = s => t <= currentTerm[s])
    BY DEF OneCallPerPeer, VoteRpc
  <2> HIDE DEF t
  <2>2. r.from = s => t < currentTerm[s] + 1 /\ t # currentTerm[s] + 1
    BY <2>1, NewTerm
  <2> QED  BY <2>2 DEF t
<1>9. OneCallPerPeer'
  <2> SUFFICES ASSUME NEW r \in voteRpcs PROVE r.term <= currentTerm'[r.from]
    BY <1>1 DEF OneCallPerPeer
  <2>1. r.from \in Server
    BY DEF VoteRpc
  <2>2. CASE r.from # s
    BY <1>0, <2>1, <2>2 DEF OneCallPerPeer
  <2>3. CASE r.from = s
    <3> DEFINE t == r.term
    <3>1. t \in Nat /\ t < currentTerm[s] + 1
      BY <1>8, <2>3 DEF VoteRpc
    <3> HIDE DEF t
    <3>2. t <= currentTerm'[s]
      BY <1>0, <3>1
    <3> QED  BY <2>3, <3>2 DEF t
  <2> QED  BY <2>2, <2>3
<1>10. AskedOnce'
  <2>1. ASSUME NEW p \in Server, toAsk'[p] # {} PROVE Collecting(p)'
    <3>1. CASE p = s
      BY <1>2, <3>1
    <3>2. CASE p # s
      <4>1. toAsk'[p] = toAsk[p]
        BY <1>1, <3>2
      <4> QED  BY <1>2, <2>1, <3>2, <4>1 DEF AskedOnce
    <3> QED  BY <3>1, <3>2
  <2>2. ASSUME NEW p \in Server, Collecting(p)' PROVE toAsk'[p] \cap tally'[p] = {}
    BY <1>1, <1>2, <2>2 DEF AskedOnce, Peers
  <2>3. ASSUME NEW r \in voteRpcs', r.term = currentTerm'[r.from], Collecting(r.from)'
        PROVE  r.to \notin toAsk'[r.from] \cup tally'[r.from]
    <3>1. r \in voteRpcs /\ r.from \in Server
      BY <1>1 DEF VoteRpc
    <3>2. r.from # s
      BY <1>0, <1>8, <2>3, <3>1
    <3>3. /\ toAsk'[r.from] = toAsk[r.from] /\ tally'[r.from] = tally[r.from]
          /\ currentTerm'[r.from] = currentTerm[r.from] /\ Collecting(r.from)
      BY <1>0, <1>1, <1>2, <2>3, <3>1, <3>2
    <3> QED  BY <2>3, <3>1, <3>3 DEF AskedOnce
  <2> QED  BY <2>1, <2>2, <2>3 DEF AskedOnce
<1>11. TallyIsTrue'
  <2>1. Cardinality({s}) = 1
    BY FS_Singleton
  <2> SUFFICES ASSUME NEW p \in Server, Collecting(p)'
               PROVE  /\ votesGranted'[p] = Cardinality(tally'[p])
                      /\ \A q \in tally'[p] : [term |-> currentTerm'[p], voter |-> q,
                                               candidate |-> p] \in cast'
    BY DEF TallyIsTrue
  <2>2. CASE p = s
    <3>1. votesGranted'[s] = 1 /\ tally'[s] = {s} /\ vote \in cast'
      BY <1>1
    <3> QED  BY <1>0, <2>1, <2>2, <3>1
  <2>3. CASE p # s
    <3>1. /\ votesGranted'[p] = votesGranted[p] /\ tally'[p] = tally[p]
          /\ currentTerm'[p] = currentTerm[p] /\ Collecting(p) /\ cast \subseteq cast'
      BY <1>0, <1>1, <1>2, <2>3
    <3> QED  BY <3>1 DEF TallyIsTrue
  <2> QED  BY <2>2, <2>3
<1>12. ElectedByMajority'
  BY <1>1 DEF ElectedByMajority
<1> QED  BY <1>3, <1>5, <1>6, <1>7, <1>9, <1>10, <1>11, <1>12

\* p was not asked before in this term, or it would be no longer to be asked.
LEMMA AskForVoteStep ==
  ASSUME TypeInv, ElectionInv, NEW s \in Server, NEW p \in Peers(s), AskForVote(s, p)
  PROVE  ElectionInv'
<1> USE DEF TypeInv, TypeOK, ElectionInv
<1> DEFINE new == [from |-> s, to |-> p, live |-> TRUE, stage |-> "sent",
                   term |-> currentTerm[s], lastLogIndex |-> Len(log[s]),
                   lastLogTerm |-> LastTerm(log[s]), replyTerm |-> 0, granted |-> FALSE]
<1>1. /\ UNCHANGED <<currentTerm, votedFor, state, votesGranted, electing, persisted,
                     cast, tally, elected>>
      /\ toAsk' = [toAsk EXCEPT ![s] = toAsk[s] \ {p}]
      /\ p \in toAsk[s]
      /\ voteRpcs' = voteRpcs \cup {new}
  BY DEF AskForVote, ballotVars, historyVars
<1>2. /\ \A q \in Server : Collecting(q)' <=> Collecting(q)
      /\ Collecting(s)
  BY <1>1 DEF Collecting, AskedOnce
<1>3. /\ new.from = s /\ new.to = p /\ new.term = currentTerm[s] /\ ~new.granted
      /\ \A r \in voteRpcs : r.from \in Server
  BY DEF VoteRpc
<1> HIDE DEF new
<1>4. \A r \in voteRpcs : ~(r.from = s /\ r.to = p /\ r.term = currentTerm[s])
  BY <1>1, <1>2 DEF AskedOnce
<1>5. VotePersisted' /\ CastRemembered' /\ OneVotePerTerm' /\ ElectedByMajority'
  BY <1>1 DEF VotePersisted, CastRemembered, OneVotePerTerm, ElectedByMajority
<1>6. GrantIsCast'
  BY <1>1, <1>3 DEF GrantIsCast
<1>7. OneCallPerPeer'
  <2>1. new.term <= currentTerm[new.from]
    <3>1. currentTerm[s] \in Nat
      OBVIOUS
    <3>2. \A n \in Nat : n <= n
      OBVIOUS
    <3> QED  BY <1>3, <3>1, <3>2
  <2>2. \A r \in voteRpcs' : r \in voteRpcs \/ r = new
    BY <1>1
  <2>3. \A r \in voteRpcs' : r.term <= currentTerm'[r.from]
    <3>1. currentTerm' = currentTerm
      BY <1>1
    <3> QED  BY <2>1, <2>2, <3>1 DEF OneCallPerPeer
  <2>4. \A q, r \in voteRpcs' : q.from = r.from /\ q.to = r.to /\ q.term = r.term => q = r
    BY <2>2, <1>3, <1>4 DEF OneCallPerPeer
  <2> QED  BY <2>3, <2>4 DEF OneCallPerPeer
<1>8. AskedOnce'
  BY <1>1, <1>2, <1>3 DEF AskedOnce
<1>9. TallyIsTrue'
  BY <1>1, <1>2 DEF TallyIsTrue
<1> QED  BY <1>5, <1>6, <1>7, <1>8, <1>9

LEMMA BecomeLeaderStep ==
  ASSUME TypeInv, ElectionInv, NEW s \in Server, BecomeLeader(s)
  PROVE  ElectionInv'
<1> USE DEF TypeInv, TypeOK, ElectionInv
<1> DEFINE new == [term |-> currentTerm[s], leader |-> s, votes |-> tally[s]]
<1>1. /\ UNCHANGED <<currentTerm, votedFor, votesGranted, electing, toAsk, persisted,
                     voteRpcs, cast, tally>>
      /\ state' = [state EXCEPT ![s] = "Leader"]
      /\ elected' = elected \cup {new}
      /\ toAsk[s] = {} /\ Collecting(s) /\ IsMajority(votesGranted[s])
  BY DEF BecomeLeader, Collecting
<1>2. ~Collecting(s)' /\ \A p \in Server \ {s} : Collecting(p)' <=> Collecting(p)
  BY <1>1 DEF Collecting
<1>3. VotePersisted' /\ CastRemembered' /\ OneVotePerTerm' /\ GrantIsCast' /\ OneCallPerPeer'
  BY <1>1 DEF VotePersisted, CastRemembered, OneVotePerTerm, GrantIsCast, OneCallPerPeer
<1>4. AskedOnce'
  <2>1. \A r \in voteRpcs : r.from \in Server
    BY DEF VoteRpc
  <2> QED  BY <1>1, <1>2, <2>1 DEF AskedOnce
<1>5. TallyIsTrue'
  BY <1>1, <1>2 DEF TallyIsTrue
<1>6. ElectedByMajority'
  <2>1. /\ IsMajority(Cardinality(new.votes))
        /\ \A p \in new.votes : [term |-> new.term, voter |-> p, candidate |-> new.leader]
                                  \in cast
    BY <1>1 DEF TallyIsTrue
  <2> HIDE DEF new
  <2> QED  BY <1>1, <2>1 DEF ElectedByMajority
<1> QED  BY <1>3, <1>4, <1>5, <1>6
-----------------------------------------------------------------------------
(* The steps of a RequestVote call.                                        *)

\* Answering a call takes nothing from what is known of calls: the answered one
\* has the caller, the callee and the term of the one it replaces.
LEMMA AnsweredCalls ==
  ASSUME voteRpcs \subseteq VoteRpc, OneCallPerPeer, NEW r \in voteRpcs, NEW t \in Nat,
         NEW ok \in BOOLEAN, AnswerVote(r, t, ok),
         \A p \in Server : currentTerm[p] \in Nat /\ currentTerm'[p] \in Nat
                           /\ currentTerm[p] <= currentTerm'[p]
  PROVE  /\ OneCallPerPeer'
         /\ \A x \in voteRpcs' : \E y \in voteRpcs :
              /\ x.from = y.from /\ x.to = y.to /\ x.term = y.term
              /\ x.granted => y.granted \/ (ok /\ y = r)
<1> DEFINE new == [r EXCEPT !.stage = "replied", !.replyTerm = t, !.granted = ok]
<1>1. /\ new.from = r.from /\ new.to = r.to /\ new.term = r.term /\ new.granted = ok
      /\ \A x \in voteRpcs : x.from \in Server /\ x.term \in Nat
  BY DEF VoteRpc
<1>2. \A x \in voteRpcs' : x = new \/ (x \in voteRpcs /\ x # r)
  BY DEF AnswerVote
<1> HIDE DEF new
<1>3. \A x \in voteRpcs' : \E y \in voteRpcs :
        /\ x.from = y.from /\ x.to = y.to /\ x.term = y.term
        /\ x.granted => y.granted \/ (ok /\ y = r)
  BY <1>1, <1>2
<1>4. ASSUME NEW x \in voteRpcs' PROVE x.term <= currentTerm'[x.from]
  <2>1. PICK y \in voteRpcs : x.from = y.from /\ x.term = y.term
    BY <1>3
  <2> DEFINE k == y.term
             p == y.from
  <2>2. k \in Nat /\ p \in Server /\ k <= currentTerm[p]
    BY <1>1 DEF OneCallPerPeer
  <2> HIDE DEF k, p
  <2>3. k <= currentTerm'[p]
    BY <2>2
  <2> QED  BY <2>1, <2>3 DEF k, p
<1>5. \A x, y \in voteRpcs' : x.from = y.from /\ x.to = y.to /\ x.term = y.term => x = y
  BY <1>1, <1>2 DEF OneCallPerPeer
<1> QED  BY <1>3, <1>4, <1>5 DEF OneCallPerPeer

LEMMA RefuseStaleVoteStep ==
  ASSUME TypeInv, ElectionInv, NEW r \in voteRpcs, RefuseStaleVote(r)
  PROVE  ElectionInv'
<1> USE DEF ElectionInv
<1>1. /\ UNCHANGED <<electionVars, persisted, historyVars>>
      /\ AnswerVote(r, currentTerm[r.to], FALSE)
  BY DEF RefuseStaleVote
<1>2. voteRpcs \subseteq VoteRpc /\ currentTerm[r.to] \in Nat
  BY DEF TypeInv, TypeOK, VoteRpc
<1>7. \A p \in Server : currentTerm[p] \in Nat /\ currentTerm'[p] \in Nat
                        /\ currentTerm[p] <= currentTerm'[p]
  BY <1>1 DEF TypeInv, TypeOK, electionVars
<1>3. /\ OneCallPerPeer'
      /\ \A x \in voteRpcs' : \E y \in voteRpcs :
           /\ x.from = y.from /\ x.to = y.to /\ x.term = y.term
           /\ x.granted => y.granted
  BY <1>1, <1>2, <1>7, AnsweredCalls
<1>4. VotePersisted' /\ CastRemembered' /\ OneVotePerTerm' /\ TallyIsTrue' /\ ElectedByMajority'
  BY <1>1 DEF VotePersisted, CastRemembered, OneVotePerTerm, TallyIsTrue, ElectedByMajority,
              Collecting, electionVars, ballotVars, historyVars
<1>5. GrantIsCast'
  BY <1>1, <1>3 DEF GrantIsCast, ballotVars, historyVars
<1>6. AskedOnce'
  BY <1>1, <1>3 DEF AskedOnce, Collecting, electionVars, ballotVars, historyVars
<1> QED  BY <1>3, <1>4, <1>5, <1>6

\* A vote is granted when none was cast in the call's term, or when it was cast
\* for the same candidate.
LEMMA HandleRequestVoteStep ==
  ASSUME TypeInv, TypeInv', ElectionInv, NEW r \in voteRpcs, HandleRequestVote(r)
  PROVE  ElectionInv'
<1> DEFINE s == r.to
           t == r.term
           grant == VoteIsFree(r) /\ UpToDate(r.lastLogTerm, r.lastLogIndex, log[s])
           vote == [term |-> t, voter |-> s, candidate |-> r.from]
<1>1. s \in Server /\ r.from \in Server /\ t \in Nat /\ currentTerm[s] \in Nat /\ t >= currentTerm[s]
      /\ Nil \notin Server
  BY ServerAssumption DEF HandleRequestVote, TypeInv, TypeOK, VoteRpc
<1>2. /\ currentTerm' = [currentTerm EXCEPT ![s] = t]
      /\ votedFor' = [votedFor EXCEPT ![s] = IF grant THEN r.from
                                             ELSE IF t > currentTerm[s] THEN Nil ELSE @]
      /\ \/ t > currentTerm[s] /\ BecomeFollower(s)
         \/ t = currentTerm[s] /\ UNCHANGED <<state, electing, toAsk>>
      /\ cast' = IF grant THEN cast \cup {vote} ELSE cast
      /\ AnswerVote(r, currentTerm[s], grant)
      /\ UNCHANGED <<votesGranted, tally, elected>>
      /\ Persist(s)
  BY <1>1 DEF HandleRequestVote, Newer
<1>3. grant \in BOOLEAN /\ (grant => t > currentTerm[s] \/ votedFor[s] \in {Nil, r.from})
  BY DEF VoteIsFree, UpToDate, Newer
<1>4. /\ currentTerm \in [Server -> Nat] /\ votedFor \in [Server -> Server \cup {Nil}]
      /\ state \in [Server -> {"Follower", "Candidate", "Leader"}]
      /\ electing \in [Server -> BOOLEAN] /\ toAsk \in [Server -> SUBSET Server]
      /\ voteRpcs \subseteq VoteRpc
      /\ cast \subseteq [term : Nat, voter : Server, candidate : Server]
  BY DEF TypeInv, TypeOK
<1> HIDE DEF grant
<1>5. /\ currentTerm'[s] = t /\ \A p \in Server \ {s} : /\ currentTerm'[p] = currentTerm[p]
                                                       /\ votedFor'[p] = votedFor[p]
      /\ grant => votedFor'[s] = r.from
      /\ ~grant /\ t = currentTerm[s] => votedFor'[s] = votedFor[s]
  BY <1>1, <1>2, <1>4
<1>6. \A p \in Server : currentTerm[p] \in Nat /\ currentTerm'[p] \in Nat
                        /\ currentTerm[p] <= currentTerm'[p]
  BY <1>1, <1>4, <1>5
<1>7. /\ OneCallPerPeer'
      /\ \A x \in voteRpcs' : \E y \in voteRpcs :
           /\ x.from = y.from /\ x.to = y.to /\ x.term = y.term
           /\ x.granted => y.granted \/ (grant /\ y = r)
  BY <1>1, <1>2, <1>3, <1>4, <1>6, AnsweredCalls DEF ElectionInv
<1>8. VotePersisted'
  BY <1>1, <1>2, <1>5, PersistAgrees DEF ElectionInv
\* What s has cast in the term of the call before is a vote for the caller.
<1>9. ASSUME NEW v \in cast, v.voter = s
      PROVE  /\ v.term <= t
             /\ grant /\ v.term = t => v.candidate = r.from
             /\ t > currentTerm[s] => v.term # t
             /\ t = currentTerm[s] /\ v.term = t => v.candidate = votedFor[s]
  <2> DEFINE k == v.term
  <2>1. k \in Nat /\ v.candidate \in Server /\ k <= currentTerm[s]
        /\ (k = currentTerm[s] => votedFor[s] = v.candidate)
    BY <1>4, <1>9 DEF ElectionInv, CastRemembered
  <2> HIDE DEF k, s, t
  <2>2. k <= t /\ (k = t => k = currentTerm[s] /\ ~(t > currentTerm[s]))
    BY <1>1, <2>1
  <2>3. grant /\ k = t => v.candidate = r.from
    BY <1>1, <1>3, <2>1, <2>2
  <2> QED  BY <2>1, <2>2, <2>3 DEF k
<1>10. CastRemembered'
  <2> SUFFICES ASSUME NEW v \in cast'
               PROVE  /\ v.term <= currentTerm'[v.voter]
                      /\ v.term = currentTerm'[v.voter] => votedFor'[v.voter] = v.candidate
    BY DEF CastRemembered
  <2>1. CASE v \notin cast
    <3>1. v = vote /\ grant
      BY <1>2, <2>1
    <3>2. \A n \in Nat : n <= n
      OBVIOUS
    <3> QED  BY <1>1, <1>5, <3>1, <3>2
  <2>2. CASE v \in cast /\ v.voter = s
    BY <1>1, <1>5, <1>9, <2>2
  <2>3. CASE v \in cast /\ v.voter # s
    <3>1. v.voter \in Server
      BY <1>4, <2>3
    <3> QED  BY <1>5, <2>3, <3>1 DEF ElectionInv, CastRemembered
  <2> QED  BY <2>1, <2>2, <2>3
<1>11. OneVotePerTerm'
  <2>1. \A v \in cast' : v \in cast \/ (grant /\ v = vote)
    BY <1>2
  <2> HIDE DEF s, t
  <2> QED  BY <1>9, <2>1 DEF ElectionInv, OneVotePerTerm
<1>12. GrantIsCast'
  <2>1. cast \subseteq cast' /\ (grant => vote \in cast')
    BY <1>2
  <2> QED  BY <1>7, <2>1 DEF ElectionInv, GrantIsCast
<1>13. \A p \in Server : /\ Collecting(p)' => /\ Collecting(p)
                                             /\ toAsk'[p] = toAsk[p]
                                             /\ currentTerm'[p] = currentTerm[p]
                         /\ toAsk'[p] # {} => Collecting(p)' \/ ~Collecting(p)
                         /\ toAsk'[p] # {} => toAsk'[p] = toAsk[p]
  BY <1>1, <1>2, <1>4, <1>5 DEF BecomeFollower, Collecting
<1>14. AskedOnce'
  <2>1. \A x \in voteRpcs' : \E y \in voteRpcs :
           x.from = y.from /\ x.to = y.to /\ x.term = y.term /\ y.from \in Server
    BY <1>4, <1>7 DEF VoteRpc
  <2> QED  BY <1>2, <1>13, <2>1 DEF ElectionInv, AskedOnce
<1>15. TallyIsTrue'
  BY <1>2, <1>13 DEF ElectionInv, TallyIsTrue
<1>16. ElectedByMajority'
  BY <1>2 DEF ElectionInv, ElectedByMajority
<1> QED  BY <1>7, <1>8, <1>10, <1>11, <1>12, <1>14, <1>15, <1>16 DEF ElectionInv

\* The counted vote is of the candidate's term, and of a node not counted before.
LEMMA CountVoteStep ==
  ASSUME PromptVotes, TypeInv, ElectionInv, NEW r \in voteRpcs, CountVote(r)
  PROVE  ElectionInv'
<1> DEFINE s == r.from
<1>1. /\ s \in Server /\ r.to \in Server
      /\ r.granted /\ state[s] = "Candidate" /\ r.term = currentTerm[s]
      /\ votesGranted' = [votesGranted EXCEPT ![s] = @ + 1]
      /\ tally' = [tally EXCEPT ![s] = @ \cup {r.to}]
      /\ voteRpcs' = voteRpcs \ {r}
      /\ UNCHANGED <<currentTerm, votedFor, state, electing, toAsk, persisted, cast, elected>>
  BY DEF CountVote, TypeInv, TypeOK, VoteRpc
<1>2. /\ tally \in [Server -> SUBSET Server] /\ votesGranted \in [Server -> Nat]
      /\ \A x \in voteRpcs : x.from \in Server
  BY DEF TypeInv, TypeOK, VoteRpc
<1>3. \A p \in Server : Collecting(p)' <=> Collecting(p)
  BY <1>1 DEF Collecting
<1>4. VotePersisted' /\ CastRemembered' /\ OneVotePerTerm' /\ GrantIsCast' /\ OneCallPerPeer'
      /\ ElectedByMajority'
  BY <1>1 DEF ElectionInv, VotePersisted, CastRemembered, OneVotePerTerm, GrantIsCast,
              OneCallPerPeer, ElectedByMajority
<1>5. Collecting(s) => r.to \notin toAsk[s] \cup tally[s]
  BY <1>1 DEF ElectionInv, AskedOnce
<1>6. /\ tally'[s] = tally[s] \cup {r.to} /\ votesGranted'[s] = votesGranted[s] + 1
      /\ \A p \in Server \ {s} : tally'[p] = tally[p] /\ votesGranted'[p] = votesGranted[p]
  BY <1>1, <1>2
<1> HIDE DEF s
<1>7. AskedOnce'
  <2>1. \A p \in Server : toAsk'[p] # {} => Collecting(p)'
    BY <1>1, <1>3 DEF ElectionInv, AskedOnce
  <2>2. \A p \in Server : Collecting(p)' => toAsk'[p] \cap tally'[p] = {}
    BY <1>1, <1>3, <1>5, <1>6 DEF ElectionInv, AskedOnce
  <2>3. ASSUME NEW x \in voteRpcs', x.term = currentTerm'[x.from], Collecting(x.from)'
        PROVE  x.to \notin toAsk'[x.from] \cup tally'[x.from]
    <3>1. x \in voteRpcs /\ x # r /\ x.from \in Server
      BY <1>1, <1>2
    <3>2. x.to \notin toAsk[x.from] \cup tally[x.from]
      BY <1>1, <1>3, <2>3, <3>1 DEF ElectionInv, AskedOnce
    <3>3. x.from = s => x.to # r.to
      BY <1>1, <2>3, <3>1 DEF ElectionInv, OneCallPerPeer, s
    <3> QED  BY <1>1, <1>6, <3>1, <3>2, <3>3
  <2> QED  BY <2>1, <2>2, <2>3 DEF AskedOnce
<1>8. TallyIsTrue'
  <2> SUFFICES ASSUME NEW p \in Server, Collecting(p)'
               PROVE  /\ votesGranted'[p] = Cardinality(tally'[p])
                      /\ \A q \in tally'[p] : [term |-> currentTerm'[p], voter |-> q,
                                               candidate |-> p] \in cast'
    BY DEF TallyIsTrue
  <2>1. /\ votesGranted[p] = Cardinality(tally[p]) /\ currentTerm' = currentTerm /\ cast' = cast
        /\ \A q \in tally[p] : [term |-> currentTerm[p], voter |-> q, candidate |-> p] \in cast
    BY <1>1, <1>3 DEF ElectionInv, TallyIsTrue
  <2>2. CASE p # s
    BY <1>6, <2>1, <2>2
  <2>3. CASE p = s
    <3>1. IsFiniteSet(tally[s]) /\ r.to \notin tally[s]
      BY <1>1, <1>2, <1>3, <1>5, <2>3, ServerAssumption, FS_Subset
    <3>2. Cardinality(tally[s] \cup {r.to}) = Cardinality(tally[s]) + 1
      BY <3>1, FS_AddElement
    <3>3. [term |-> currentTerm[s], voter |-> r.to, candidate |-> s] \in cast
      BY <1>1 DEF ElectionInv, GrantIsCast, s
    <3> QED  BY <1>6, <2>1, <2>3, <3>2, <3>3
  <2> QED  BY <2>2, <2>3
<1> QED  BY <1>4, <1>7, <1>8 DEF ElectionInv

\* What a process leaves behind when it dies are calls that were there before.
LEMMA OrphanedCalls ==
  ASSUME voteRpcs \subseteq VoteRpc, NEW s \in Server
  PROVE  \A x \in Orphaned(voteRpcs, s) : \E y \in voteRpcs :
           /\ x.from = y.from /\ x.to = y.to /\ x.term = y.term /\ x.granted = y.granted
           /\ x = IF y.from = s THEN [y EXCEPT !.live = FALSE] ELSE y
BY DEF Orphaned, VoteRpc

\* A node that finds its Persister starts with the term and the vote it had.
LEMMA RestartStep ==
  ASSUME TrustedElections, TypeInv, ElectionInv, NEW s \in Server, Restart(s)
  PROVE  ElectionInv'
<1>1. PersisterSurvives
  BY BoundAssumption DEF TrustedElections, Restart, Reboot, TypeInv, TypeOK
<1>2. /\ persisted' = [persisted EXCEPT ![s] = persisted[s]]
      /\ currentTerm' = [currentTerm EXCEPT ![s] = persisted[s].term]
      /\ votedFor' = [votedFor EXCEPT ![s] = persisted[s].votedFor]
      /\ BecomeFollower(s)
      /\ votesGranted' = [votesGranted EXCEPT ![s] = 0]
      /\ tally' = [tally EXCEPT ![s] = {}]
      /\ voteRpcs' = Orphaned(voteRpcs, s)
      /\ UNCHANGED <<cast, elected>>
  BY <1>1 DEF Restart, Reboot
<1>3. /\ persisted' = persisted /\ currentTerm' = currentTerm /\ votedFor' = votedFor
  BY <1>2 DEF ElectionInv, VotePersisted, TypeInv, TypeOK
<1>4. /\ ~Collecting(s)' /\ toAsk'[s] = {}
      /\ \A p \in Server \ {s} : /\ Collecting(p)' <=> Collecting(p)
                                 /\ toAsk'[p] = toAsk[p] /\ tally'[p] = tally[p]
                                 /\ votesGranted'[p] = votesGranted[p]
  BY <1>2 DEF BecomeFollower, Collecting, TypeInv, TypeOK
<1>5. \A x \in voteRpcs' : \E y \in voteRpcs :
        /\ x.from = y.from /\ x.to = y.to /\ x.term = y.term /\ x.granted = y.granted
        /\ x = IF y.from = s THEN [y EXCEPT !.live = FALSE] ELSE y
  BY <1>2, OrphanedCalls DEF TypeInv, TypeOK
<1>6. VotePersisted' /\ CastRemembered' /\ OneVotePerTerm' /\ ElectedByMajority'
  BY <1>2, <1>3 DEF ElectionInv, VotePersisted, CastRemembered, OneVotePerTerm,
                    ElectedByMajority
<1>7. GrantIsCast'
  BY <1>2, <1>5 DEF ElectionInv, GrantIsCast
<1>8. OneCallPerPeer'
  <2>1. \A x \in voteRpcs' : x.term <= currentTerm'[x.from]
    BY <1>3, <1>5 DEF ElectionInv, OneCallPerPeer
  <2>2. ASSUME NEW x \in voteRpcs', NEW y \in voteRpcs',
               x.from = y.from /\ x.to = y.to /\ x.term = y.term
        PROVE  x = y
    <3>1. PICK u \in voteRpcs : /\ x.from = u.from /\ x.to = u.to /\ x.term = u.term
                                /\ x = IF u.from = s THEN [u EXCEPT !.live = FALSE] ELSE u
      BY <1>5
    <3>2. PICK v \in voteRpcs : /\ y.from = v.from /\ y.to = v.to /\ y.term = v.term
                                /\ y = IF v.from = s THEN [v EXCEPT !.live = FALSE] ELSE v
      BY <1>5
    <3>3. u = v
      BY <2>2, <3>1, <3>2 DEF ElectionInv, OneCallPerPeer
    <3> QED  BY <3>1, <3>2, <3>3
  <2> QED  BY <2>1, <2>2 DEF OneCallPerPeer
<1>9. AskedOnce'
  <2>1. \A y \in voteRpcs : y.from \in Server
    BY DEF TypeInv, TypeOK, VoteRpc
  <2> QED  BY <1>3, <1>4, <1>5, <2>1 DEF ElectionInv, AskedOnce
<1>10. TallyIsTrue'
  BY <1>2, <1>3, <1>4 DEF ElectionInv, TallyIsTrue
<1> QED  BY <1>6, <1>7, <1>8, <1>9, <1>10 DEF ElectionInv

-----------------------------------------------------------------------------
LEMMA StepElectionInv ==
  ASSUME TrustedElections, TypeInv, TypeInv', ElectionInv, [Next]_vars
  PROVE  ElectionInv'
<1>1. ASSUME NEW s \in Server, FollowerTimeout(s) \/ CandidateTimeout(s) PROVE ElectionInv'
  BY <1>1, TimeoutStep
<1>2. ASSUME NEW s \in Server, StartElection(s) PROVE ElectionInv'
  BY <1>2, StartElectionStep
<1>3. ASSUME NEW s \in Server, NEW p \in Peers(s), AskForVote(s, p) PROVE ElectionInv'
  BY <1>3, AskForVoteStep
<1>4. ASSUME NEW s \in Server, BecomeLeader(s) PROVE ElectionInv'
  BY <1>4, BecomeLeaderStep
<1>5. ASSUME NEW s \in Server, NEW p \in Peers(s), SendAppendEntries(s, p) PROVE ElectionInv'
  <2>1. VotePersisted'
    BY <1>5 DEF SendAppendEntries, electionVars, ElectionInv, VotePersisted
  <2> QED  BY <1>5, <2>1, QuietStep DEF SendAppendEntries, historyVars
<1>6. ASSUME NEW s \in Server, NEW c \in Command, Start(s, c) PROVE ElectionInv'
  <2>1. VotePersisted'
    BY <1>6, PersistAgrees DEF Start, electionVars, ElectionInv
  <2> QED  BY <1>6, <2>1, QuietStep DEF Start
<1>7. ASSUME NEW r \in voteRpcs, RefuseStaleVote(r) PROVE ElectionInv'
  BY <1>7, RefuseStaleVoteStep
<1>8. ASSUME NEW r \in voteRpcs, HandleRequestVote(r) PROVE ElectionInv'
  BY <1>8, HandleRequestVoteStep
<1>9. ASSUME NEW r \in voteRpcs, CountVote(r) PROVE ElectionInv'
  BY <1>9, CountVoteStep DEF TrustedElections
<1>10. ASSUME NEW r \in voteRpcs, RefusedByNewerTerm(r) PROVE ElectionInv'
  <2>1. /\ r.from \in Server /\ r.replyTerm \in Nat
        /\ r.replyTerm > currentTerm[r.from] /\ StepDown(r.from, r.replyTerm)
        /\ BecomeFollower(r.from) /\ Persist(r.from)
        /\ UNCHANGED <<votesGranted, historyVars>> /\ voteRpcs' \subseteq voteRpcs
    BY <1>10 DEF RefusedByNewerTerm, StepDown, TypeInv, TypeOK, VoteRpc
  <2>2. VotePersisted'
    BY <2>1, PersistAgrees DEF StepDown, ElectionInv, TypeInv, TypeOK
  <2> QED  BY <2>1, <2>2, FollowerStep
<1>11. ASSUME NEW r \in voteRpcs, DropVote(r) PROVE ElectionInv'
  <2>1. VotePersisted'
    BY <1>11 DEF DropVote, electionVars, ElectionInv, VotePersisted
  <2> QED  BY <1>11, <2>1, QuietStep DEF DropVote, historyVars
<1>12. ASSUME NEW r \in appendRpcs, AcceptAppend(r) PROVE ElectionInv'
  <2>1. /\ r.to \in Server /\ r.term \in Nat
        /\ UNCHANGED <<votesGranted, voteRpcs, historyVars>>
    BY <1>12 DEF AcceptAppend, TypeInv, TypeOK, AppendRpc
  <2>2. CASE r.term > currentTerm[r.to] /\ StepDown(r.to, r.term) /\ Persist(r.to)
    <3>1. VotePersisted'
      BY <2>1, <2>2, PersistAgrees DEF StepDown, ElectionInv, TypeInv, TypeOK
    <3>2. BecomeFollower(r.to)
      BY <2>2 DEF StepDown
    <3> QED  BY <2>1, <2>2, <3>1, <3>2, FollowerStep
  <2>3. CASE BecomeFollower(r.to) /\ UNCHANGED <<currentTerm, votedFor, persisted>>
    <3>1. VotePersisted'
      BY <2>3 DEF ElectionInv, VotePersisted
    <3> QED  BY <2>1, <2>3, <3>1, FollowerStep
  <2>4. CASE UNCHANGED <<currentTerm, votedFor, state, electing, toAsk, persisted>>
    <3>1. VotePersisted'
      BY <2>4 DEF ElectionInv, VotePersisted
    <3> QED  BY <2>1, <2>4, <3>1, QuietStep DEF electionVars, historyVars
  <2> QED  BY <1>12, <2>2, <2>3, <2>4 DEF AcceptAppend
<1>13. ASSUME NEW r \in appendRpcs, StoreEntries(r) PROVE ElectionInv'
  <2>1. r.to \in Server
    BY DEF TypeInv, TypeOK, AppendRpc
  <2>2. VotePersisted'
    BY <1>13, <2>1, PersistAgrees DEF StoreEntries, electionVars, ElectionInv
  <2> QED  BY <1>13, <2>2, QuietStep DEF StoreEntries, historyVars
<1>14. ASSUME NEW r \in appendRpcs, DeposedByReply(r) PROVE ElectionInv'
  <2>1. /\ r.from \in Server /\ r.replyTerm \in Nat
        /\ r.replyTerm > currentTerm[r.from] /\ StepDown(r.from, r.replyTerm)
        /\ BecomeFollower(r.from) /\ Persist(r.from)
        /\ UNCHANGED <<votesGranted, voteRpcs, historyVars>>
    BY <1>14 DEF DeposedByReply, StepDown, TypeInv, TypeOK, AppendRpc
  <2>2. VotePersisted'
    BY <2>1, PersistAgrees DEF StepDown, ElectionInv, TypeInv, TypeOK
  <2> QED  BY <2>1, <2>2, FollowerStep
\* The other steps of an AppendEntries call touch no election.
<1>15. ASSUME NEW r \in appendRpcs,
              \/ RefuseStaleAppend(r) \/ RefuseMismatch(r) \/ PassMatch(r) \/ FollowCommit(r)
              \/ CheckReply(r) \/ CountSuccess(r) \/ BackUp(r) \/ DropAppend(r)
       PROVE  ElectionInv'
  <2>1. UNCHANGED <<electionVars, historyVars, persisted, voteRpcs>>
    BY <1>15 DEF RefuseStaleAppend, RefuseMismatch, PassMatch, FollowCommit, CheckReply,
                 CountSuccess, BackUp, DropAppend
  <2>2. VotePersisted'
    BY <2>1 DEF electionVars, ElectionInv, VotePersisted
  <2> QED  BY <2>1, <2>2, QuietStep DEF historyVars
<1>16. ASSUME NEW s \in Server, Restart(s) PROVE ElectionInv'
  BY <1>16, RestartStep
<1>17. CASE UNCHANGED vars
  <2>1. UNCHANGED <<electionVars, historyVars, persisted, voteRpcs>>
    BY <1>17 DEF vars
  <2>2. VotePersisted'
    BY <2>1 DEF electionVars, ElectionInv, VotePersisted
  <2> QED  BY <2>1, <2>2, QuietStep DEF historyVars
<1> QED
  BY <1>1, <1>2, <1>3, <1>4, <1>5, <1>6, <1>7, <1>8, <1>9, <1>10, <1>11, <1>12, <1>13, <1>14,
     <1>15, <1>16, <1>17 DEF Next, RaftThread, VoteCall, AppendCall

\* Two majorities share a voter, who voted once in the term.
\* Two majorities have a node in common.
LEMMA MajoritiesMeet ==
  ASSUME NEW Q \in SUBSET Server, NEW R \in SUBSET Server,
         IsMajority(Cardinality(Q)), IsMajority(Cardinality(R))
  PROVE  \E p \in Server : p \in Q /\ p \in R
<1>1. IsFiniteSet(Server) /\ IsFiniteSet(Q) /\ IsFiniteSet(R)
  BY ServerAssumption, FS_Subset
<1>2. Cardinality(Q) + Cardinality(R) > Cardinality(Server)
  <2> DEFINE n == Cardinality(Server)
             i == Cardinality(Q)
             j == Cardinality(R)
  <2>1. n \in Nat /\ i \in Nat /\ j \in Nat /\ i > n \div 2 /\ j > n \div 2
    BY <1>1, FS_CardinalityType DEF IsMajority
  <2> HIDE DEF n, i, j
  <2>2. i + j > n
    BY <2>1
  <2> QED  BY <2>2 DEF n, i, j
<1>3. Q \cap R # {}
  BY <1>1, <1>2, FS_MajoritiesIntersect
<1> QED  BY <1>3

\* More than a majority is one.
LEMMA LargerMajority ==
  ASSUME NEW Q \in SUBSET Server, NEW R \in SUBSET Server, Q \subseteq R,
         IsMajority(Cardinality(Q))
  PROVE  IsMajority(Cardinality(R))
<1>1. IsFiniteSet(Server) /\ IsFiniteSet(Q) /\ IsFiniteSet(R)
  BY ServerAssumption, FS_Subset
<1>2. Cardinality(Q) <= Cardinality(R)
  BY <1>1, FS_Subset
<1> DEFINE n == Cardinality(Server)
           i == Cardinality(Q)
           j == Cardinality(R)
<1>3. n \in Nat /\ i \in Nat /\ j \in Nat /\ i > n \div 2 /\ i <= j
  BY <1>1, <1>2, FS_CardinalityType DEF IsMajority
<1> HIDE DEF n, i, j
<1>4. j > n \div 2
  BY <1>3
<1> QED  BY <1>4 DEF n, j, IsMajority

LEMMA MajoritiesDecide == ElectionInv /\ TypeInv => ElectionSafety
<1> SUFFICES ASSUME ElectionInv, TypeInv, NEW e \in elected, NEW f \in elected,
                    e.term = f.term
             PROVE  e.leader = f.leader
  BY DEF ElectionSafety
<1>1. e.votes \in SUBSET Server /\ f.votes \in SUBSET Server
  BY DEF TypeInv, TypeOK
<1>2. IsMajority(Cardinality(e.votes)) /\ IsMajority(Cardinality(f.votes))
  BY DEF ElectionInv, ElectedByMajority
<1>3. PICK p \in Server : p \in e.votes /\ p \in f.votes
  BY <1>1, <1>2, MajoritiesMeet
<1>4. /\ [term |-> e.term, voter |-> p, candidate |-> e.leader] \in cast
      /\ [term |-> f.term, voter |-> p, candidate |-> f.leader] \in cast
  BY <1>3 DEF ElectionInv, ElectedByMajority
<1> QED  BY <1>4 DEF ElectionInv, OneVotePerTerm

\* Votes counted in their own election, by nodes that do not forget: no two
\* leaders of a term (the promotion in startRaft, the tally of startElection).
THEOREM ElectionSafe == ASSUME TrustedElections PROVE Spec => []ElectionSafety
<1>1. Init => TypeInv /\ ElectionInv
  BY InitTypeInv, InitElectionInv
<1>2. TypeInv /\ ElectionInv /\ [Next]_vars => (TypeInv /\ ElectionInv)'
  BY StepTypeInv, StepElectionInv
<1>3. TypeInv /\ ElectionInv => ElectionSafety
  BY MajoritiesDecide
<1> QED  BY <1>1, <1>2, <1>3, PTL DEF Spec

\* A node never votes twice in a term, through step downs (votedFor cleared by
\* helperStepDownToFollower) and restarts (reloaded by helperReadPersist).
THEOREM VotesOnce == ASSUME TrustedElections PROVE Spec => []OneVotePerTerm
<1>1. Init => TypeInv /\ ElectionInv
  BY InitTypeInv, InitElectionInv
<1>2. TypeInv /\ ElectionInv /\ [Next]_vars => (TypeInv /\ ElectionInv)'
  BY StepTypeInv, StepElectionInv
<1>3. ElectionInv => OneVotePerTerm
  BY DEF ElectionInv
<1> QED  BY <1>1, <1>2, <1>3, PTL DEF Spec
=============================================================================
