----------------------------- MODULE DriveProofs -----------------------------
(***************************************************************************)
(* Every reachable state of module Drive satisfies the invariants of       *)
(* DriveInductive, for every tree of paths and every set of threads.       *)
(***************************************************************************)
EXTENDS DriveInductive, FiniteSetTheorems, WellFoundedInduction, SequenceTheorems, TLAPS

-----------------------------------------------------------------------------
(* Paths.                                                                  *)

Segment == UNION {ToSet(p) : p \in Path}

LEMMA PathType ==
  /\ Path \subseteq Seq(Segment)
  /\ Root \in Path /\ \A p \in Path \ {Root} : Parent(p) \in Path
BY PathAssumption DEF Segment

LEMMA PrefixIs ==
  ASSUME NEW p \in Path, NEW q \in Path
  PROVE  IsPrefix(p, q) <=> Len(p) <= Len(q) /\ \A i \in 1 .. Len(p) : p[i] = q[i]
<1>1. p \in Seq(Segment) /\ q \in Seq(Segment)
  BY PathType
<1>2. SubSeq(p, 1, Len(p)) \in Seq(Segment) /\ Len(SubSeq(p, 1, Len(p))) = Len(p)
      /\ \A i \in 1 .. Len(p) : SubSeq(p, 1, Len(p))[i] = p[i]
  BY <1>1
<1>3. ASSUME Len(p) <= Len(q)
      PROVE  /\ SubSeq(q, 1, Len(p)) \in Seq(Segment) /\ Len(SubSeq(q, 1, Len(p))) = Len(p)
             /\ \A i \in 1 .. Len(p) : SubSeq(q, 1, Len(p))[i] = q[i]
  BY <1>1, <1>3
<1>4. ASSUME Len(p) <= Len(q)
      PROVE  SubSeq(p, 1, Len(p)) = SubSeq(q, 1, Len(p)) <=> \A i \in 1 .. Len(p) : p[i] = q[i]
  BY <1>2, <1>3, <1>4, SeqEqual
<1> QED  BY <1>4 DEF IsPrefix

LEMMA PrefixSelf == ASSUME NEW p \in Path PROVE IsPrefix(p, p)
<1>1. Len(p) \in Nat
  BY PathType
<1> QED  BY <1>1, PrefixIs

LEMMA PrefixThrough ==
  ASSUME NEW p \in Path, NEW q \in Path, NEW r \in Path, IsPrefix(p, q), IsPrefix(q, r)
  PROVE  IsPrefix(p, r)
<1>1. Len(p) \in Nat /\ Len(q) \in Nat /\ Len(r) \in Nat
  BY PathType
<1> QED  BY <1>1, PrefixIs

\* Two paths above one are above one another.
LEMMA PrefixesCompare ==
  ASSUME NEW p \in Path, NEW q \in Path, NEW r \in Path, IsPrefix(p, r), IsPrefix(q, r)
  PROVE  IsPrefix(p, q) \/ IsPrefix(q, p)
<1>1. Len(p) \in Nat /\ Len(q) \in Nat /\ Len(r) \in Nat
  BY PathType
<1> QED  BY <1>1, PrefixIs

\* The parent of a path, and what is above it.
LEMMA ParentIs ==
  ASSUME NEW p \in Path, p # Root
  PROVE  /\ Parent(p) \in Path /\ Len(p) \in Nat /\ Len(p) # 0
         /\ Len(Parent(p)) = Len(p) - 1 /\ \A i \in 1 .. Len(p) - 1 : Parent(p)[i] = p[i]
         /\ Append(Parent(p), Name(p)) = p /\ Parent(p) # p
<1>1. p \in Seq(Segment) /\ p # << >> /\ Parent(p) \in Path
  BY PathType DEF Root
<1>2. Len(p) \in Nat /\ Len(p) # 0
  BY <1>1
<1>3. /\ Parent(p) \in Seq(Segment) /\ Len(Parent(p)) = Len(p) - 1
      /\ \A i \in 1 .. Len(p) - 1 : Parent(p)[i] = p[i]
  <2> DEFINE m == Len(p) - 1
  <2>1. m \in Nat /\ m <= Len(p) /\ Parent(p) = SubSeq(p, 1, m)
    BY <1>2 DEF Parent, Front
  <2>2. m \in 1 - 1 .. Len(p) /\ 1 \in 1 .. Len(p) + 1
    BY <1>2, <2>1
  <2> HIDE DEF m
  <2>3. /\ SubSeq(p, 1, m) \in Seq(Segment) /\ Len(SubSeq(p, 1, m)) = m
        /\ \A i \in 1 .. m : SubSeq(p, 1, m)[i] = p[i]
    BY <1>1, <2>1
  <2> QED  BY <2>1, <2>3 DEF m
<1>4. Name(p) = p[Len(p)] /\ Name(p) \in Segment
  BY <1>1, <1>2 DEF Name, Last
<1>5. Append(Parent(p), Name(p)) = p
  <2>1. /\ Append(Parent(p), Name(p)) \in Seq(Segment)
        /\ Len(Append(Parent(p), Name(p))) = Len(p)
        /\ \A i \in 1 .. Len(p) : Append(Parent(p), Name(p))[i] = p[i]
    BY <1>1, <1>2, <1>3, <1>4
  <2> QED  BY <1>1, <2>1, SeqEqual
<1> QED  BY <1>1, <1>2, <1>3, <1>5

LEMMA ParentAbove == ASSUME NEW p \in Path, p # Root PROVE IsPrefix(Parent(p), p)
<1>1. Len(Parent(p)) <= Len(p)
  BY ParentIs
<1> QED  BY <1>1, ParentIs, PrefixIs

LEMMA AboveParent ==
  ASSUME NEW p \in Path, NEW q \in Path, p # q, IsPrefix(p, q)
  PROVE  q # Root /\ IsPrefix(p, Parent(q))
<1>1. p \in Seq(Segment) /\ q \in Seq(Segment) /\ Len(p) \in Nat /\ Len(q) \in Nat
  BY PathType
<1>2. Len(p) <= Len(q) /\ \A i \in 1 .. Len(p) : p[i] = q[i]
  BY PrefixIs
<1>3. Len(p) # Len(q)
  BY <1>1, <1>2, SeqEqual
<1>4. q # Root
  <2>1. Len(q) # 0
    BY <1>1, <1>2, <1>3
  <2> QED  BY <2>1 DEF Root
<1> QED  BY <1>1, <1>2, <1>3, <1>4, ParentIs, PrefixIs

\* A child of a path.
LEMMA ChildIs ==
  ASSUME NEW p \in Path, NEW n, Append(p, n) \in Path, n \in Names
  PROVE  /\ Append(p, n) # Root /\ Parent(Append(p, n)) = p /\ Name(Append(p, n)) = n
         /\ IsPrefix(p, Append(p, n)) /\ ~IsPrefix(Append(p, n), p)
<1>1. p \in Seq(Segment) /\ n \in Segment /\ Len(p) \in Nat
  <2>0. p \in Seq(Segment) /\ Append(p, n) \in Seq(Segment)
    BY PathType
  <2>1. p \in Seq(Segment \cup {n}) /\ Append(p, n) \in Seq(Segment)
    BY <2>0
  <2>2. Append(p, n)[Len(p) + 1] = n /\ Len(Append(p, n)) = Len(p) + 1 /\ Len(p) \in Nat
    BY <2>1
  <2>3. Append(p, n)[Len(p) + 1] \in Segment
    BY <2>1, <2>2
  <2> QED  BY <2>2, <2>3, PathType
<1>2. /\ Len(Append(p, n)) = Len(p) + 1 /\ Append(p, n)[Len(p) + 1] = n
      /\ \A i \in 1 .. Len(p) : Append(p, n)[i] = p[i]
  BY <1>1
<1>3. Append(p, n) # Root /\ Name(Append(p, n)) = n
  BY <1>1, <1>2 DEF Root, Name, Last
<1> DEFINE q == Append(p, n)
<1> HIDE DEF q
<1>4. q \in Path /\ q # Root
  BY <1>3 DEF q
<1>5. Len(q) = Len(p) + 1 /\ \A i \in 1 .. Len(p) : q[i] = p[i]
  BY <1>2 DEF q
<1>6. Parent(q) = p
  <2>1. /\ Parent(q) \in Seq(Segment) /\ Len(Parent(q)) = Len(p)
        /\ \A i \in 1 .. Len(p) : Parent(q)[i] = p[i]
    BY <1>1, <1>4, <1>5, ParentIs, PathType
  <2> QED  BY <1>1, <2>1, SeqEqual
<1>7. IsPrefix(p, q) /\ ~IsPrefix(q, p)
  BY <1>1, <1>4, <1>5, PrefixIs
<1> QED  BY <1>3, <1>6, <1>7 DEF q

-----------------------------------------------------------------------------
(* Lists, keys.                                                            *)

\* A set of numbers that has 0, and the next of each it has, has them all.
LEMMA AllNumbers ==
  ASSUME NEW S \in SUBSET Nat, 0 \in S, \A n \in S : n + 1 \in S
  PROVE  S = Nat
<1> SUFFICES ASSUME Nat \ S # {} PROVE FALSE
  OBVIOUS
<1> DEFINE T == Nat \ S
           segments == {0..x : x \in T}
<1>1. segments \subseteq FiniteSubsetsOf(Nat) /\ segments # {}
  <2>1. ASSUME NEW x \in T PROVE 0..x \in FiniteSubsetsOf(Nat)
    <3>1. IsFiniteSet(0..x)
      BY FS_Interval
    <3> QED  BY <3>1 DEF FiniteSubsetsOf
  <2> QED  BY <2>1
<1>2. PICK g \in segments : \A h \in segments : <<h, g>> \notin StrictSubsetOrdering(Nat)
  BY <1>1, FS_StrictSubsetOrderingWellFounded, WFMin
<1>3. PICK m \in T : g = 0..m
  OBVIOUS
<1>4. m - 1 \in T /\ m \in Nat
  <2>1. m \in Nat /\ m # 0 /\ m - 1 \in Nat /\ m - 1 + 1 = m
    OBVIOUS
  <2> QED  BY <2>1
<1>5. <<0..m - 1, 0..m>> \in StrictSubsetOrdering(Nat)
  <2>1. 0..m - 1 \in SUBSET Nat /\ 0..m \in SUBSET Nat
    BY <1>4
  <2>2. 0..m - 1 \subseteq 0..m /\ m \in 0..m /\ m \notin 0..m - 1
    BY <1>4
  <2> HIDE DEF segments
  <2> QED  BY <2>1, <2>2 DEF StrictSubsetOrdering
<1> QED  BY <1>2, <1>3, <1>4, <1>5

\* What createChild and deleteChild write back.
Kept(l, n, k, f) ==
  f = [i \in 0 .. k |-> IF i = 0 THEN << >> ELSE IF l[i] = n THEN f[i - 1]
                        ELSE Append(f[i - 1], l[i])]

LEMMA KeptExists == \A l, n : \A k \in Nat : \E f : Kept(l, n, k, f)
<1> SUFFICES ASSUME NEW l, NEW n PROVE \A k \in Nat : \E f : Kept(l, n, k, f)
  OBVIOUS
<1> DEFINE S == {k \in Nat : \E f : Kept(l, n, k, f)}
           Add(x, i) == IF l[i] = n THEN x ELSE Append(x, l[i])
<1> HIDE DEF Add
<1>0. \A k, f : Kept(l, n, k, f) <=>
        f = [i \in 0 .. k |-> IF i = 0 THEN << >> ELSE Add(f[i - 1], i)]
  BY DEF Kept, Add
<1>1. 0 \in S
  <2> DEFINE f == [i \in 0 .. 0 |-> << >>]
  <2>1. f = [i \in 0 .. 0 |-> IF i = 0 THEN << >> ELSE Add(f[i - 1], i)]
    OBVIOUS
  <2>2. Kept(l, n, 0, f)
    BY <1>0, <2>1
  <2> QED  BY <2>2
<1>2. ASSUME NEW k \in S PROVE k + 1 \in S
  <2>1. PICK f : Kept(l, n, k, f)
    OBVIOUS
  <2> DEFINE g == [i \in 0 .. k + 1 |-> IF i <= k THEN f[i] ELSE Add(f[k], k + 1)]
  <2>2. ASSUME NEW i \in 0 .. k + 1
        PROVE  g[i] = IF i = 0 THEN << >> ELSE Add(g[i - 1], i)
    <3>1. CASE i <= k
      <4>1. f[i] = IF i = 0 THEN << >> ELSE Add(f[i - 1], i)
        BY <1>0, <2>1, <3>1
      <4>2. i # 0 => g[i - 1] = f[i - 1]
        BY <3>1
      <4> QED  BY <3>1, <4>1, <4>2
    <3>2. CASE ~(i <= k)
      <4>1. i = k + 1 /\ i # 0 /\ i - 1 = k /\ k \in 0 .. k + 1
        BY <3>2
      <4>2. g[k] = f[k]
        BY <4>1
      <4> QED  BY <3>2, <4>1, <4>2
    <3> QED  BY <3>1, <3>2
  <2>3. g = [i \in 0 .. k + 1 |-> g[i]]
    OBVIOUS
  <2> HIDE DEF g
  <2>4. Kept(l, n, k + 1, g)
    BY <1>0, <2>2, <2>3
  <2> QED  BY <2>4
<1> HIDE DEF S
<1>3. S = Nat
  <2>1. S \in SUBSET Nat
    BY DEF S
  <2> QED  BY <1>1, <1>2, <2>1, AllNumbers
<1> QED  BY <1>3 DEF S

LEMMA ErasedIs ==
  ASSUME NEW T, NEW l \in Seq(T), NEW n
  PROVE  /\ Erased(l, n) \in Seq(T)
         /\ \A m : m \in ToSet(Erased(l, n)) <=> m \in ToSet(l) /\ m # n
<1>1. PICK f : Kept(l, n, Len(l), f) /\ Erased(l, n) = f[Len(l)]
  <2>0. Len(l) \in Nat
    OBVIOUS
  <2>1. \E f : Kept(l, n, Len(l), f)
    BY <2>0, KeptExists
  <2> QED  BY <2>1 DEF Erased, Kept
<1> DEFINE Right(k) == /\ f[k] \in Seq(T)
                       /\ \A m : m \in ToSet(f[k]) <=> \E i \in 1 .. k : l[i] = m /\ m # n
           S == {k \in Nat : k <= Len(l) => Right(k)}
<1>2. 0 \in S
  <2>1. f[0] = << >>
    <3>1. 0 \in 0 .. Len(l)
      OBVIOUS
    <3> QED  BY <1>1, <3>1 DEF Kept
  <2>2. ToSet(<< >>) = {} /\ << >> \in Seq(T)
    BY DEF ToSet
  <2>3. 1 .. 0 = {}
    OBVIOUS
  <2>4. \A m : m \in ToSet(f[0]) <=> \E i \in 1 .. 0 : l[i] = m /\ m # n
    BY <2>1, <2>2, <2>3
  <2>5. Right(0)
    BY <2>1, <2>2, <2>4
  <2> QED  BY <2>5
<1>3. ASSUME NEW k \in S PROVE k + 1 \in S
  <2> SUFFICES ASSUME k + 1 <= Len(l) PROVE Right(k + 1)
    OBVIOUS
  <2>1. Right(k) /\ k + 1 \in 1 .. Len(l) /\ k \in Nat
    OBVIOUS
  <2>2. f[k + 1] = IF l[k + 1] = n THEN f[k] ELSE Append(f[k], l[k + 1])
    <3>1. k + 1 \in 0 .. Len(l) /\ k + 1 # 0 /\ (k + 1) - 1 = k
      BY <2>1
    <3> QED  BY <1>1, <3>1 DEF Kept
  <2>3. \A i \in 1 .. k + 1 : i \in 1 .. k \/ i = k + 1
    BY <2>1
  <2>4. \A i \in 1 .. k : i \in 1 .. k + 1
    BY <2>1
  <2>5. CASE l[k + 1] = n
    BY <2>1, <2>2, <2>3, <2>4, <2>5
  <2>6. CASE l[k + 1] # n
    <3>1. PICK x \in Seq(T) : x = f[k]
      BY <2>1
    <3>2. PICK y \in T : y = l[k + 1]
      BY <2>1
    <3>3. Append(x, y) \in Seq(T) /\ \A m : m \in ToSet(Append(x, y)) <=> m \in ToSet(x) \/ m = y
      <4>1. /\ Append(x, y) \in Seq(T) /\ Len(Append(x, y)) = Len(x) + 1 /\ Len(x) \in Nat
            /\ Append(x, y)[Len(x) + 1] = y /\ \A i \in 1 .. Len(x) : Append(x, y)[i] = x[i]
        OBVIOUS
      <4>2. DOMAIN Append(x, y) = 1 .. Len(x) + 1 /\ DOMAIN x = 1 .. Len(x)
        BY <4>1
      <4> QED  BY <4>1, <4>2 DEF ToSet
    <3>4. f[k + 1] = Append(x, y)
      BY <2>2, <2>6, <3>1, <3>2
    <3> QED  BY <2>1, <2>3, <2>4, <2>6, <3>1, <3>2, <3>3, <3>4
  <2> QED  BY <2>5, <2>6
<1>4. S \in SUBSET Nat
  OBVIOUS
<1> HIDE DEF S
<1>5. S = Nat
  BY <1>2, <1>3, <1>4, AllNumbers
<1>6. Len(l) \in S /\ Len(l) \in Nat
  BY <1>5
<1>7. Right(Len(l))
  BY <1>6 DEF S
<1> QED  BY <1>1, <1>7 DEF ToSet

\* The list a thread goes on with.
LEMMA GoingOn ==
  ASSUME NEW C, NEW d \in Seq(C), d # << >>, NEW cs \in Seq(C)
  PROVE  LET n == cs \o Tail(d)
         IN /\ n \in Seq(C) /\ Len(n) = Len(cs) + Len(d) - 1 /\ Len(d) \in Nat \ {0}
            /\ Len(cs) \in Nat /\ DOMAIN n = 1 .. Len(n)
            /\ \A i \in 1 .. Len(cs) : n[i] = cs[i]
            /\ \A i \in 2 .. Len(d) : n[Len(cs) + i - 1] = d[i]
            /\ \A i \in 1 .. Len(n) : i > Len(cs) =>
                 n[i] = d[i - Len(cs) + 1] /\ i - Len(cs) + 1 \in 2 .. Len(d)
<1>1. /\ Tail(d) \in Seq(C) /\ Len(Tail(d)) = Len(d) - 1 /\ Len(d) \in Nat \ {0}
      /\ \A i \in 1 .. Len(d) - 1 : Tail(d)[i] = d[i + 1]
  <2>1. Len(d) \in Nat \ {0}
    OBVIOUS
  <2> QED  BY <2>1
<1> DEFINE e == Tail(d)
           n == cs \o e
<1> HIDE DEF e
<1>2. e \in Seq(C) /\ Len(e) = Len(d) - 1 /\ \A i \in 1 .. Len(d) - 1 : e[i] = d[i + 1]
  BY <1>1 DEF e
<1>3. /\ n \in Seq(C) /\ Len(n) = Len(cs) + Len(e) /\ Len(cs) \in Nat
      /\ \A i \in 1 .. Len(cs) + Len(e) :
           n[i] = IF i <= Len(cs) THEN cs[i] ELSE e[i - Len(cs)]
  BY <1>2, ConcatProperties
<1> HIDE DEF n
<1>4. Len(n) = Len(cs) + Len(d) - 1
  BY <1>1, <1>2, <1>3
<1>5. \A i \in 1 .. Len(cs) : n[i] = cs[i]
  BY <1>1, <1>2, <1>3
<1>6. \A i \in 2 .. Len(d) : n[Len(cs) + i - 1] = d[i]
  <2> SUFFICES ASSUME NEW i \in 2 .. Len(d) PROVE n[Len(cs) + i - 1] = d[i]
    OBVIOUS
  <2> DEFINE k == Len(cs) + i - 1
  <2>1. /\ k \in 1 .. Len(cs) + Len(e) /\ ~(k <= Len(cs)) /\ k - Len(cs) = i - 1
        /\ i - 1 \in 1 .. Len(d) - 1 /\ (i - 1) + 1 = i
    BY <1>1, <1>2, <1>3
  <2> HIDE DEF k
  <2>2. n[k] = e[i - 1] /\ e[i - 1] = d[i]
    BY <1>2, <1>3, <2>1
  <2> QED  BY <2>2 DEF k
<1>7. \A i \in 1 .. Len(n) : i > Len(cs) =>
        n[i] = d[i - Len(cs) + 1] /\ i - Len(cs) + 1 \in 2 .. Len(d)
  <2> SUFFICES ASSUME NEW i \in 1 .. Len(n), i > Len(cs)
               PROVE  n[i] = d[i - Len(cs) + 1] /\ i - Len(cs) + 1 \in 2 .. Len(d)
    OBVIOUS
  <2>1. n[i] = e[i - Len(cs)] /\ i - Len(cs) \in 1 .. Len(d) - 1
    BY <1>1, <1>2, <1>3, <1>4
  <2> QED  BY <1>1, <1>2, <1>3, <2>1
<1> QED  BY <1>1, <1>3, <1>4, <1>5, <1>6, <1>7 DEF n, e

LEMMA FiniteImage ==
  ASSUME NEW S, IsFiniteSet(S), NEW f, DOMAIN f = S
  PROVE  IsFiniteSet({f[x] : x \in S})
<1> DEFINE T == {f[x] : x \in S}
           g == [x \in S |-> f[x]]
<1>1. g \in Surjection(S, T)
  BY DEF Surjection
<1> HIDE DEF g
<1> QED  BY <1>1, FS_Surjection

LEMMA FiniteKeys == ASSUME DriveTypes PROVE IsFiniteSet(KeysInUse)
<1> DEFINE Held(t) == {c.object : c \in ToSet(thread[t].todo)}
           held == [t \in Thread |-> Held(t)]
           Files == {file[p] : p \in Path}
           LateKeys == {c.object : c \in late}
           Pending == {held[t] : t \in Thread}
<1>1. IsFiniteSet(Files)
  BY PathAssumption, FiniteImage DEF DriveTypes
<1>2. IsFiniteSet(Thread)
  BY ThreadAssumption, FS_AddElement DEF Thread
<1>3. ASSUME NEW t \in Thread PROVE IsFiniteSet(Held(t))
  <2> DEFINE d == thread[t].todo
             o == [i \in DOMAIN d |-> d[i].object]
  <2>1. d \in Seq(AnyCall)
    BY DEF DriveTypes, ThreadState
  <2>2. IsFiniteSet(DOMAIN d)
    <3>1. DOMAIN d = 1 .. Len(d) /\ 1 \in Int /\ Len(d) \in Int
      BY <2>1
    <3> QED  BY <3>1, FS_Interval
  <2>3. Held(t) = {o[i] : i \in DOMAIN d}
    BY DEF ToSet
  <2>4. DOMAIN o = DOMAIN d
    OBVIOUS
  <2> HIDE DEF o, d
  <2> QED  BY <2>2, <2>3, <2>4, FiniteImage
<1> HIDE DEF Held
<1>4. IsFiniteSet(Pending) /\ \A T \in Pending : IsFiniteSet(T)
  <2>1. DOMAIN held = Thread
    OBVIOUS
  <2>2. \A t \in Thread : held[t] = Held(t)
    OBVIOUS
  <2> HIDE DEF held
  <2> QED  BY <1>2, <1>3, <2>1, <2>2, FiniteImage
<1>5. IsFiniteSet(UNION Pending)
  BY <1>4, FS_UNION
<1>6. UNION Pending = UNION {Held(t) : t \in Thread}
  OBVIOUS
<1>7. KeysInUse = objects \cup Files \cup LateKeys \cup UNION {Held(t) : t \in Thread}
  BY DEF KeysInUse, Held
<1>8. IsFiniteSet(objects)
  BY DEF DriveTypes
<1>9. IsFiniteSet(LateKeys)
  <2> DEFINE o == [c \in late |-> c.object]
  <2>1. DOMAIN o = late /\ LateKeys = {o[c] : c \in late} /\ IsFiniteSet(late)
    BY DEF DriveTypes
  <2> HIDE DEF o, LateKeys
  <2> QED  BY <2>1, FiniteImage
<1> HIDE DEF Files, LateKeys, Pending
<1>10. IsFiniteSet(objects \cup Files)
  BY <1>1, <1>8, FS_Union
<1>11. IsFiniteSet(objects \cup Files \cup LateKeys)
  BY <1>9, <1>10, FS_Union
<1> QED  BY <1>5, <1>6, <1>7, <1>11, FS_Union

\* generateS3Key's key is new: there are more numbers than keys in use.
LEMMA NewKeyIs ==
  ASSUME DriveTypes, NEW p \in Path
  PROVE  NewKey(p) \in KeysOf(p) /\ NewKey(p) \notin KeysInUse
<1> DEFINE K == KeysInUse
           N == Cardinality(K) + 1
           S == {k \in Nat : \A n \in 1 .. k : <<p, n>> \in K}
<1>1. IsFiniteSet(K) /\ Cardinality(K) \in Nat
  BY FiniteKeys, FS_CardinalityType
<1> HIDE DEF K
<1>2. N \notin S
  <2> SUFFICES ASSUME N \in S PROVE FALSE
    OBVIOUS
  <2> DEFINE f == [n \in 1 .. N |-> <<p, n>>]
             T == {<<p, n>> : n \in 1 .. N}
  <2>1. IsFiniteSet(1 .. N) /\ Cardinality(1 .. N) = N
    <3>1. 1 \in Int /\ N \in Int /\ ~(1 > N) /\ N - 1 + 1 = N
      BY <1>1
    <3> HIDE DEF N
    <3> QED  BY <3>1, FS_Interval
  <2>2. f \in Bijection(1 .. N, T)
    BY DEF Bijection, Injection, Surjection, IsInjective
  <2>3. Cardinality(T) = N
    BY <2>1, <2>2, FS_Bijection DEF ExistsBijection
  <2>4. T \subseteq K
    OBVIOUS
  <2>5. Cardinality(T) <= Cardinality(K)
    BY <1>1, <2>4, FS_Subset
  <2> QED  BY <1>1, <2>3, <2>5
<1>3. PICK k \in S : k + 1 \notin S
  <2> SUFFICES ASSUME \A k \in S : k + 1 \in S PROVE FALSE
    OBVIOUS
  <2>1. 0 \in S /\ S \in SUBSET Nat
    OBVIOUS
  <2>2. S = Nat
    BY <2>1, AllNumbers
  <2> QED  BY <1>1, <1>2, <2>2
<1>4. k \in Nat /\ \A n \in 1 .. k : <<p, n>> \in K
  OBVIOUS
<1>5. <<p, k + 1>> \notin K
  <2>1. PICK n \in 1 .. k + 1 : <<p, n>> \notin K
    BY <1>3, <1>4
  <2>2. n = k + 1
    BY <1>4, <2>1
  <2> QED  BY <2>1, <2>2
<1>6. k + 1 \in 1 .. N
  <2>1. N \in Nat
    BY <1>1
  <2>2. k < N
    <3> HIDE DEF N
    <3> SUFFICES ASSUME N <= k PROVE FALSE
      BY <1>4, <2>1
    <3>1. \A n \in 1 .. N : <<p, n>> \in K
      BY <1>4, <2>1
    <3> QED  BY <1>2, <2>1, <3>1
  <2> QED  BY <1>4, <2>1, <2>2
<1> DEFINE Least(o) == o \notin K /\ \A n \in 1 .. o[2] - 1 : <<p, n>> \in K
<1>7. \E o \in {p} \X (1 .. N) : Least(o)
  <2> DEFINE o == <<p, k + 1>>
  <2>1. o \in {p} \X (1 .. N) /\ o[2] - 1 = k
    BY <1>4, <1>6
  <2> QED  BY <1>4, <1>5, <2>1
<1>8. NewKey(p) = CHOOSE o \in {p} \X (1 .. N) : Least(o)
  BY DEF NewKey, K
<1>9. NewKey(p) \in {p} \X (1 .. N) /\ NewKey(p) \notin K
  BY <1>7, <1>8
<1>10. {p} \X (1 .. N) \subseteq KeysOf(p)
  BY <1>1 DEF KeysOf
<1> QED  BY <1>9, <1>10 DEF K

-----------------------------------------------------------------------------
(* The calls that come after a call.                                       *)

LEMMA Joins ==
  /\ \A a, b : <<a>> \o <<b>> = <<a, b>>
  /\ \A a, b, c : <<a, b>> \o <<c>> = <<a, b, c>>
  /\ \A a, b : <<a, b>> \o << >> = <<a, b>>
  /\ \A a, b, c : <<a>> \o <<b, c>> = <<a, b, c>>
  /\ \A a, b, c, d : <<a>> \o <<b, c, d>> = <<a, b, c, d>>
<1>1. ASSUME NEW S, NEW s \in Seq(S), NEW t \in Seq(S), NEW r \in Seq(S),
             Len(r) = Len(s) + Len(t),
             \A i \in 1 .. Len(r) : r[i] = IF i <= Len(s) THEN s[i] ELSE t[i - Len(s)]
      PROVE  s \o t = r
  <2>1. s \o t \in Seq(S) /\ Len(s \o t) = Len(r)
    BY <1>1, ConcatProperties
  <2>2. \A i \in 1 .. Len(s \o t) : (s \o t)[i] = r[i]
    BY <1>1, <2>1, ConcatProperties
  <2> QED  BY <2>1, <2>2, SeqEqual
<1>2. ASSUME NEW a, NEW b, NEW c PROVE <<a, b>> \o <<c>> = <<a, b, c>>
  <2> DEFINE l == <<a, b>>
             m == <<c>>
             r == <<a, b, c>>
             S == {a, b, c}
  <2>1. l \in Seq(S) /\ m \in Seq(S) /\ r \in Seq(S)
    OBVIOUS
  <2>2. Len(l) = 2 /\ Len(m) = 1 /\ Len(r) = 3
    OBVIOUS
  <2>3. r[1] = l[1] /\ r[2] = l[2] /\ r[3] = m[1]
    OBVIOUS
  <2> HIDE DEF l, m, r, S
  <2>4. \A i \in 1 .. 3 : r[i] = IF i <= 2 THEN l[i] ELSE m[i - 2]
    <3>1. \A i \in 1 .. 3 : i = 1 \/ i = 2 \/ i = 3
      OBVIOUS
    <3>2. 3 - 2 = 1
      OBVIOUS
    <3> QED  BY <2>3, <3>1, <3>2
  <2>5. Len(r) = Len(l) + Len(m)
    BY <2>2
  <2>6. \A i \in 1 .. Len(r) : r[i] = IF i <= Len(l) THEN l[i] ELSE m[i - Len(l)]
    BY <2>2, <2>4
  <2>7. l \o m = r
    BY ONLY <1>1, <2>1, <2>5, <2>6
  <2> QED  BY <2>7 DEF l, m, r
<1>6. ASSUME NEW a, NEW b PROVE <<a>> \o <<b>> = <<a, b>>
  <2> DEFINE l == <<a>>
             m == <<b>>
             r == <<a, b>>
             S == {a, b}
  <2>1. l \in Seq(S) /\ m \in Seq(S) /\ r \in Seq(S)
    OBVIOUS
  <2>2. Len(l) = 1 /\ Len(m) = 1 /\ Len(r) = 2
    OBVIOUS
  <2>3. r[1] = l[1] /\ r[2] = m[1]
    OBVIOUS
  <2> HIDE DEF l, m, r, S
  <2>4. \A i \in 1 .. 2 : r[i] = IF i <= 1 THEN l[i] ELSE m[i - 1]
    <3>1. \A i \in 1 .. 2 : i = 1 \/ i = 2
      OBVIOUS
    <3> QED  BY <2>3, <3>1
  <2>5. Len(r) = Len(l) + Len(m)
    BY <2>2
  <2>6. \A i \in 1 .. Len(r) : r[i] = IF i <= Len(l) THEN l[i] ELSE m[i - Len(l)]
    BY <2>2, <2>4
  <2>7. l \o m = r
    BY ONLY <1>1, <2>1, <2>5, <2>6
  <2> QED  BY <2>7 DEF l, m, r
<1>3. ASSUME NEW a, NEW b PROVE <<a, b>> \o << >> = <<a, b>>
  <2>1. <<a, b>> \in Seq({a, b}) /\ << >> \in Seq({a, b})
    OBVIOUS
  <2> QED  BY <1>1, <2>1
<1>4. ASSUME NEW a, NEW b, NEW c PROVE <<a>> \o <<b, c>> = <<a, b, c>>
  <2> DEFINE l == <<a>>
             m == <<b, c>>
             r == <<a, b, c>>
             S == {a, b, c}
  <2>1. l \in Seq(S) /\ m \in Seq(S) /\ r \in Seq(S)
    OBVIOUS
  <2>2. Len(l) = 1 /\ Len(m) = 2 /\ Len(r) = 3
    OBVIOUS
  <2>3. r[1] = l[1] /\ r[2] = m[1] /\ r[3] = m[2]
    OBVIOUS
  <2> HIDE DEF l, m, r, S
  <2>4. \A i \in 1 .. 3 : r[i] = IF i <= 1 THEN l[i] ELSE m[i - 1]
    <3>1. \A i \in 1 .. 3 : i = 1 \/ i = 2 \/ i = 3
      OBVIOUS
    <3>2. 2 - 1 = 1 /\ 3 - 1 = 2
      OBVIOUS
    <3> QED  BY <2>3, <3>1, <3>2
  <2>5. Len(r) = Len(l) + Len(m)
    BY <2>2
  <2>6. \A i \in 1 .. Len(r) : r[i] = IF i <= Len(l) THEN l[i] ELSE m[i - Len(l)]
    BY <2>2, <2>4
  <2>7. l \o m = r
    BY ONLY <1>1, <2>1, <2>5, <2>6
  <2> QED  BY <2>7 DEF l, m, r
<1>5. ASSUME NEW a, NEW b, NEW c, NEW d PROVE <<a>> \o <<b, c, d>> = <<a, b, c, d>>
  <2> DEFINE l == <<a>>
             m == <<b, c, d>>
             r == <<a, b, c, d>>
             S == {a, b, c, d}
  <2>1. l \in Seq(S) /\ m \in Seq(S) /\ r \in Seq(S)
    OBVIOUS
  <2>2. Len(l) = 1 /\ Len(m) = 3 /\ Len(r) = 4
    OBVIOUS
  <2>3. r[1] = l[1] /\ r[2] = m[1] /\ r[3] = m[2] /\ r[4] = m[3]
    OBVIOUS
  <2> HIDE DEF l, m, r, S
  <2>4. \A i \in 1 .. 4 : r[i] = IF i <= 1 THEN l[i] ELSE m[i - 1]
    <3>1. \A i \in 1 .. 4 : i = 1 \/ i = 2 \/ i = 3 \/ i = 4
      OBVIOUS
    <3>2. 2 - 1 = 1 /\ 3 - 1 = 2 /\ 4 - 1 = 3
      OBVIOUS
    <3> QED  BY <2>3, <3>1, <3>2
  <2>5. Len(r) = Len(l) + Len(m)
    BY <2>2
  <2>6. \A i \in 1 .. Len(r) : r[i] = IF i <= Len(l) THEN l[i] ELSE m[i - Len(l)]
    BY <2>2, <2>4
  <2>7. l \o m = r
    BY ONLY <1>1, <2>1, <2>5, <2>6
  <2> QED  BY <2>7 DEF l, m, r
<1> QED  BY <1>2, <1>3, <1>4, <1>5, <1>6

LEMMA MakeDirIs ==
  ASSUME NEW p
  PROVE  /\ p = Root => MakeDir(p) = <<Call("putDir", p), Call("putList", p)>>
         /\ p # Root => /\ MakeDir(p) = <<Call("putDir", p), Call("putList", p), Call("addName", p)>>
                        /\ CreateDir(p) = <<Call("needNoDir", p), Call("putDir", p),
                                            Call("putList", p), Call("addName", p)>>
                        /\ \A o : Store(p, o) = <<With(o, "putObject", p), With(o, "putFile", p),
                                                  Call("addName", p)>>
<1>1. Register(p) = IF p = Root THEN << >> ELSE <<Call("addName", p)>>
  BY DEF Register
<1>2. MakeDir(p) = <<Call("putDir", p), Call("putList", p)>> \o Register(p)
  BY DEF MakeDir
<1>3. CreateDir(p) = <<Call("needNoDir", p)>> \o MakeDir(p)
  BY DEF CreateDir
<1>4. \A o : Store(p, o) = <<With(o, "putObject", p), With(o, "putFile", p)>> \o Register(p)
  BY DEF Store
<1>5. CASE p = Root
  BY <1>1, <1>2, <1>5, Joins
<1>6. CASE p # Root
  <2>1. MakeDir(p) = <<Call("putDir", p), Call("putList", p), Call("addName", p)>>
    BY <1>1, <1>2, <1>6, Joins
  <2>2. ASSUME NEW o
        PROVE  Store(p, o) = <<With(o, "putObject", p), With(o, "putFile", p), Call("addName", p)>>
    <3>1. Store(p, o) = <<With(o, "putObject", p), With(o, "putFile", p)>> \o <<Call("addName", p)>>
      BY <1>1, <1>4, <1>6
    <3> QED  BY <3>1, Joins
  <2> QED  BY <1>3, <1>6, <2>1, <2>2, Joins
<1> QED  BY <1>5, <1>6

LEMMA CallIs ==
  ASSUME NEW do \in Doing, NEW p \in Path, NEW o \in {NoFile} \cup KeysOf(p),
         p = Root => do \in {"ensureRoot", "putDir", "putList"},
         do = "ensureRoot" => p = Root,
         do \in {"putObject", "putFile"} => o # NoFile
  PROVE  /\ Call(do, p).do = do /\ Call(do, p).path = p /\ Call(do, p).list = << >>
         /\ With(o, do, p) \in AnyCall /\ With(o, do, p).do = do /\ With(o, do, p).path = p
         /\ With(o, do, p).object = o
         /\ o = NoFile => Call(do, p) \in AnyCall
<1>1. << >> \in Seq(Names) /\ NameChildren(p, << >>)
  BY DEF NameChildren
<1>2. KeysOf(p) \subseteq Path \X (Nat \ {0})
  BY DEF KeysOf
<1>3. /\ With(o, do, p) = [do |-> do, path |-> p, list |-> << >>, object |-> o]
      /\ o = NoFile => Call(do, p) = With(o, do, p)
  BY DEF With, Call
<1> QED  BY <1>1, <1>2, <1>3 DEF AnyCall, Call

\* The calls that call c, when it is answered, has come before those left.
Answer(c, cs) ==
  LET p == c.path
  IN \/ cs = << >>
     \/ c.do = "ensureRoot" /\ cs = MakeDir(p)
     \/ c.do = "visitDir" /\ cs = DeleteDir(p)
     \/ c.do = "stillDir" /\ cs = <<Call("clearDir", p), Call("putList", p), Call("dropName", p)>>
     \/ c.do = "stillFile" /\ cs = <<Call("clearFile", p), Call("dropName", p)>>
     \/ c.do = "needNoFile" /\ \E o \in KeysOf(p) : cs = Store(p, o)
     \/ c.do = "needFile" /\ \E o \in KeysOf(p) : cs = <<With(o, "dropObject", p)>>
     \/ c.do = "visitFile" /\ cs \in {DeleteFile(p), <<Call("visitDir", p)>>}
     \/ c.do = "walk" /\ \E names \in Seq(Names) : NameChildren(p, names) /\ cs = Visits(p, names)
     \/ c.do \in {"addName", "dropName"} /\ \E names \in Seq(Names) :
          NameChildren(Parent(p), names) /\ cs = <<PutList(Parent(p), names)>>

\* They are about what is below, or write the list back that was read.
Follow(c, cs) ==
  \A j \in DOMAIN cs :
    \/ /\ IsPrefix(c.path, cs[j].path)
       /\ c.do \in {"needDir", "walk", "putList"} => cs[j].path # c.path
    \/ /\ c.do \in {"addName", "dropName"}
       /\ cs[j].path = Parent(c.path) /\ cs[j].do = "putList"

LEMMA VisitsAre ==
  ASSUME NEW p \in Path, p # Root, NEW names \in Seq(Names), NameChildren(p, names)
  PROVE  /\ Visits(p, names) \in Seq(AnyCall) /\ DOMAIN Visits(p, names) = DOMAIN names
         /\ \A i \in DOMAIN names :
              /\ Visits(p, names)[i].do = "visitFile"
              /\ Visits(p, names)[i].path = Append(p, names[i])
              /\ Append(p, names[i]) \in Path /\ Append(p, names[i]) # p
              /\ IsPrefix(p, Append(p, names[i]))
<1>1. ASSUME NEW i \in DOMAIN names
      PROVE  /\ Call("visitFile", Append(p, names[i])) \in AnyCall
             /\ Call("visitFile", Append(p, names[i])).do = "visitFile"
             /\ Call("visitFile", Append(p, names[i])).path = Append(p, names[i])
             /\ Append(p, names[i]) \in Path /\ Append(p, names[i]) # p
             /\ IsPrefix(p, Append(p, names[i]))
  <2>1. Append(p, names[i]) \in Path /\ names[i] \in Names
    BY DEF NameChildren
  <2> DEFINE q == Append(p, names[i])
  <2>2. q \in Path /\ q # Root /\ IsPrefix(p, q) /\ ~IsPrefix(q, p)
    BY <2>1, ChildIs
  <2> HIDE DEF q
  <2>3. q # p
    BY <2>2
  <2>4. "visitFile" \in Doing /\ NoFile \in {NoFile} \cup KeysOf(q)
    BY DEF Doing
  <2>5. Call("visitFile", q) \in AnyCall /\ Call("visitFile", q).do = "visitFile" /\ Call("visitFile", q).path = q
    BY <2>2, <2>4, CallIs
  <2> QED  BY <2>2, <2>3, <2>5 DEF q
<1>2. Visits(p, names) = [i \in 1 .. Len(names) |-> Call("visitFile", Append(p, names[i]))]
      /\ DOMAIN names = 1 .. Len(names) /\ Len(names) \in Nat
  BY DEF Visits
<1>3. Visits(p, names) \in [1 .. Len(names) -> AnyCall]
  BY <1>1, <1>2
<1>4. Visits(p, names) \in Seq(AnyCall)
  BY <1>2, <1>3
<1> QED  BY <1>1, <1>2, <1>4

LEMMA PutListIs ==
  ASSUME NEW p \in Path, NEW names \in Seq(Names), NameChildren(p, names)
  PROVE  /\ PutList(p, names) \in AnyCall /\ PutList(p, names).do = "putList"
         /\ PutList(p, names).path = p /\ PutList(p, names).list = names
<1>1. PutList(p, names) = [do |-> "putList", path |-> p, list |-> names, object |-> NoFile]
  BY DEF PutList, Call
<1> QED  BY <1>1 DEF AnyCall, Doing

\* The fixed lists of calls.
LEMMA AnswerListIs ==
  ASSUME NEW p \in Path, NEW o \in KeysOf(p), NoFile \notin KeysOf(p),
         NEW cs, NEW F,
         F \in {"ensureRoot", "visitDir", "stillDir", "stillFile", "needNoFile", "needFile", "visitFile"},
         p = Root <=> F = "ensureRoot",
         \/ F = "ensureRoot" /\ cs = MakeDir(p)
         \/ F = "visitDir" /\ cs = DeleteDir(p)
         \/ F = "stillDir" /\ cs = <<Call("clearDir", p), Call("putList", p), Call("dropName", p)>>
         \/ F = "stillFile" /\ cs = <<Call("clearFile", p), Call("dropName", p)>>
         \/ F = "needNoFile" /\ cs = Store(p, o)
         \/ F = "needFile" /\ cs = <<With(o, "dropObject", p)>>
         \/ F = "visitFile" /\ cs \in {DeleteFile(p), <<Call("visitDir", p)>>}
  PROVE  /\ cs \in Seq(AnyCall) /\ \A j \in DOMAIN cs : cs[j].path = p
         /\ \A j \in DOMAIN cs : cs[j].do = "stillDir" =>
              j = 3 /\ cs[1].do = "needDir" /\ cs[2].do = "walk"
<1> DEFINE K(do) == Call(do, p)
           W(do) == With(o, do, p)
<1>1. ASSUME NEW do \in Doing, p = Root => do \in {"ensureRoot", "putDir", "putList"},
             do = "ensureRoot" => p = Root
      PROVE  /\ W(do) \in AnyCall /\ W(do).do = do /\ W(do).path = p
             /\ do \notin {"putObject", "putFile"} => K(do) \in AnyCall /\ K(do).do = do /\ K(do).path = p
  <2>1. o # NoFile /\ o \in {NoFile} \cup KeysOf(p) /\ NoFile \in {NoFile} \cup KeysOf(p)
    OBVIOUS
  <2>2. W(do) \in AnyCall /\ W(do).do = do /\ W(do).path = p
    BY <1>1, <2>1, CallIs
  <2>3. ASSUME do \notin {"putObject", "putFile"} PROVE K(do) \in AnyCall /\ K(do).do = do /\ K(do).path = p
    BY <1>1, <2>1, <2>3, CallIs
  <2> QED  BY <2>2, <2>3
<1> HIDE DEF K, W
<1>2. ASSUME NEW do \in {"putDir", "putList"}
      PROVE  K(do) \in AnyCall /\ K(do).do = do /\ K(do).path = p
  BY <1>1 DEF Doing
<1>3. ASSUME p # Root,
             NEW do \in {"addName", "dropName", "needDir", "walk", "stillDir", "clearDir", "clearFile",
                         "needFile", "stillFile", "visitDir"}
      PROVE  K(do) \in AnyCall /\ K(do).do = do /\ K(do).path = p
  BY <1>1, <1>3 DEF Doing
<1>4. ASSUME p # Root, NEW do \in {"putObject", "putFile", "dropObject"}
      PROVE  W(do) \in AnyCall /\ W(do).do = do /\ W(do).path = p
  BY <1>1, <1>4 DEF Doing
<1>5. CASE F = "ensureRoot"
  <2>1. cs = <<K("putDir"), K("putList")>>
    BY <1>5, MakeDirIs DEF K
  <2> QED  BY <1>2, <2>1
<1>6. CASE F = "visitDir"
  <2>1. cs = <<K("needDir"), K("walk"), K("stillDir")>>
    BY <1>6 DEF K, DeleteDir
  <2> QED  BY <1>3, <1>6, <2>1
<1>7. CASE F = "stillDir"
  <2>1. cs = <<K("clearDir"), K("putList"), K("dropName")>>
    BY <1>7 DEF K
  <2> QED  BY <1>2, <1>3, <1>7, <2>1
<1>8. CASE F = "stillFile"
  <2>1. cs = <<K("clearFile"), K("dropName")>>
    BY <1>8 DEF K
  <2> QED  BY <1>3, <1>8, <2>1
<1>9. CASE F = "needNoFile"
  <2>1. cs = <<W("putObject"), W("putFile"), K("addName")>>
    BY <1>9, MakeDirIs DEF K, W
  <2> QED  BY <1>3, <1>4, <1>9, <2>1
<1>10. CASE F = "needFile"
  <2>1. cs = <<W("dropObject")>>
    BY <1>10 DEF W
  <2> QED  BY <1>4, <1>10, <2>1
<1>11. CASE F = "visitFile"
  <2>1. cs = <<K("needFile"), K("stillFile")>> \/ cs = <<K("visitDir")>>
    BY <1>11 DEF K, DeleteFile
  <2>2. p # Root
    BY <1>11
  <2>3. CASE cs = <<K("needFile"), K("stillFile")>>
    BY <1>3, <2>2, <2>3
  <2>4. CASE cs = <<K("visitDir")>>
    BY <1>3, <2>2, <2>4
  <2> QED  BY <2>1, <2>3, <2>4
<1> QED  BY <1>5, <1>6, <1>7, <1>8, <1>9, <1>10, <1>11

LEMMA NoKeyIsNone == \A p \in Path : NoFile \notin KeysOf(p) /\ KeysOf(p) # {}
<1> SUFFICES ASSUME NEW p \in Path PROVE NoFile \notin KeysOf(p) /\ KeysOf(p) # {}
  OBVIOUS
<1>1. KeysOf(p) \subseteq Path \X (Nat \ {0}) /\ <<p, 1>> \in KeysOf(p)
  BY DEF KeysOf
<1> QED  BY <1>1, KeyAssumption

LEMMA AnswerIs ==
  ASSUME NEW c \in AnyCall, NEW cs, Answer(c, cs)
  PROVE  cs \in Seq(AnyCall) /\ Follow(c, cs) /\ Nested(cs)
<1> DEFINE p == c.path
<1>1. /\ p \in Path
      /\ p = Root => c.do \in {"ensureRoot", "putDir", "putList"}
      /\ c.do = "ensureRoot" => p = Root
  BY DEF AnyCall
<1>2. CASE cs = << >>
  <2>1. DOMAIN cs = {}
    BY <1>2
  <2>2. cs \in Seq(AnyCall)
    BY <1>2
  <2> QED  BY <2>1, <2>2 DEF Follow, Nested
<1>3. CASE c.do \in {"ensureRoot", "visitDir", "stillDir", "stillFile", "needNoFile", "needFile", "visitFile"}
           /\ cs # << >>
  <2>1. p = Root <=> c.do = "ensureRoot"
    BY <1>1, <1>3
  <2>2. PICK o \in KeysOf(p) :
          \/ c.do = "ensureRoot" /\ cs = MakeDir(p)
          \/ c.do = "visitDir" /\ cs = DeleteDir(p)
          \/ c.do = "stillDir" /\ cs = <<Call("clearDir", p), Call("putList", p), Call("dropName", p)>>
          \/ c.do = "stillFile" /\ cs = <<Call("clearFile", p), Call("dropName", p)>>
          \/ c.do = "needNoFile" /\ cs = Store(p, o)
          \/ c.do = "needFile" /\ cs = <<With(o, "dropObject", p)>>
          \/ c.do = "visitFile" /\ cs \in {DeleteFile(p), <<Call("visitDir", p)>>}
    BY <1>1, <1>3, NoKeyIsNone DEF Answer
  <2>3. /\ cs \in Seq(AnyCall) /\ \A j \in DOMAIN cs : cs[j].path = p
        /\ \A j \in DOMAIN cs : cs[j].do = "stillDir" =>
             j = 3 /\ cs[1].do = "needDir" /\ cs[2].do = "walk"
    <3>1. p \in Path /\ NoFile \notin KeysOf(p)
      BY <1>1, NoKeyIsNone
    <3> DEFINE F == c.do
    <3>2. F \in {"ensureRoot", "visitDir", "stillDir", "stillFile", "needNoFile", "needFile", "visitFile"}
      BY <1>3
    <3>3. p = Root <=> F = "ensureRoot"
      BY <2>1
    <3> HIDE DEF F, p
    <3> QED  BY <2>2, <3>1, <3>2, <3>3, AnswerListIs DEF F
  <2>4. Follow(c, cs)
    BY <1>1, <1>3, <2>3, PrefixSelf DEF Follow
  <2>5. Nested(cs)
    <3> SUFFICES ASSUME NEW i \in DOMAIN cs, NEW j \in 1 .. i - 1, cs[i].do = "stillDir"
                 PROVE  /\ IsPrefix(cs[i].path, cs[j].path)
                        /\ cs[i].path = cs[j].path => cs[j].do \in {"needDir", "walk", "putList"}
      BY DEF Nested
    <3>1. i = 3 /\ cs[1].do = "needDir" /\ cs[2].do = "walk"
      BY <2>3
    <3>2. j = 1 \/ j = 2
      BY <3>1
    <3>3. j \in DOMAIN cs
      <4>1. DOMAIN cs = 1 .. Len(cs) /\ Len(cs) \in Nat
        BY <2>3
      <4> QED  BY <4>1
    <3>4. cs[i].path = p /\ cs[j].path = p
      BY <2>3, <3>3
    <3> QED  BY <1>1, <3>1, <3>2, <3>4, PrefixSelf
  <2> QED  BY <2>3, <2>4, <2>5
<1>4. CASE c.do = "walk" /\ cs # << >>
  <2>1. PICK names \in Seq(Names) : NameChildren(p, names) /\ cs = Visits(p, names)
    BY <1>4 DEF Answer
  <2>2. p # Root
    BY <1>1, <1>4
  <2>3. /\ cs \in Seq(AnyCall) /\ DOMAIN cs = DOMAIN names
        /\ \A i \in DOMAIN names :
              /\ cs[i].do = "visitFile" /\ cs[i].path = Append(p, names[i])
              /\ Append(p, names[i]) # p /\ IsPrefix(p, Append(p, names[i]))
    BY <1>1, <2>1, <2>2, VisitsAre
  <2>4. Follow(c, cs)
    BY <1>4, <2>3 DEF Follow
  <2>5. Nested(cs)
    BY <2>3 DEF Nested
  <2> QED  BY <2>3, <2>4, <2>5
<1>5. CASE c.do \in {"addName", "dropName"} /\ cs # << >>
  <2>1. PICK names \in Seq(Names) :
          NameChildren(Parent(p), names) /\ cs = <<PutList(Parent(p), names)>>
    BY <1>5 DEF Answer
  <2>2. Parent(p) \in Path
    BY <1>1, <1>5, PathType
  <2> DEFINE l == PutList(Parent(p), names)
  <2>3. l \in AnyCall /\ l.do = "putList" /\ l.path = Parent(p)
    BY <2>1, <2>2, PutListIs
  <2> HIDE DEF l
  <2>4. cs = <<l>>
    BY <2>1 DEF l
  <2>5. cs \in Seq(AnyCall) /\ DOMAIN cs = {1} /\ cs[1] = l
    BY <2>3, <2>4
  <2>6. Follow(c, cs)
    BY <1>5, <2>3, <2>5 DEF Follow
  <2>7. Nested(cs)
    BY <2>3, <2>5 DEF Nested
  <2> QED  BY <2>5, <2>6, <2>7
<1> QED  BY <1>2, <1>3, <1>4, <1>5 DEF Answer

LEMMA NestedOn ==
  ASSUME NEW d \in Seq(AnyCall), d # << >>, Scripted(d), Nested(d),
         NEW cs, Answer(d[1], cs)
  PROVE  Nested(cs \o Tail(d))
<1> DEFINE n == cs \o Tail(d)
           c == d[1]
<1>1. c \in AnyCall
  <2>1. 1 \in DOMAIN d /\ DOMAIN d = 1 .. Len(d) /\ Len(d) \in Nat
    OBVIOUS
  <2> QED  BY <2>1
<1>2. cs \in Seq(AnyCall) /\ Follow(c, cs) /\ Nested(cs)
  BY <1>1, AnswerIs
<1> DEFINE k == Len(cs)
<1>3. /\ n \in Seq(AnyCall) /\ DOMAIN n = 1 .. Len(n) /\ Len(n) = k + Len(d) - 1
      /\ k \in Nat /\ Len(d) \in Nat \ {0}
      /\ \A i \in 1 .. k : n[i] = cs[i]
      /\ \A i \in 1 .. Len(n) : i > k => n[i] = d[i - k + 1] /\ i - k + 1 \in 2 .. Len(d)
  BY <1>2, GoingOn
<1>4. DOMAIN cs = 1 .. k /\ DOMAIN d = 1 .. Len(d)
  BY <1>2
<1>5. \A i \in 1 .. k : cs[i].path \in Path
  BY <1>2, <1>4 DEF AnyCall
<1>6. c.path \in Path /\ \A i \in 1 .. Len(d) : d[i].path \in Path
  BY <1>1, <1>4 DEF AnyCall
<1> HIDE DEF n, c, k
<1> SUFFICES ASSUME NEW i \in 1 .. Len(n), NEW j \in 1 .. i - 1, n[i].do = "stillDir"
             PROVE  /\ IsPrefix(n[i].path, n[j].path)
                    /\ n[i].path = n[j].path => n[j].do \in {"needDir", "walk", "putList"}
  BY <1>3 DEF Nested, n
<1>7. CASE i <= k
  <2>1. i \in 1 .. k /\ j \in 1 .. k
    BY <1>3, <1>7
  <2> QED  BY <1>2, <1>3, <1>4, <2>1 DEF Nested
<1>8. CASE i > k /\ j > k
  <2> DEFINE i2 == i - k + 1
             j2 == j - k + 1
  <2>1. j \in 1 .. Len(n)
    BY <1>3
  <2>2. i2 \in DOMAIN d /\ j2 \in 1 .. i2 - 1 /\ n[i] = d[i2] /\ n[j] = d[j2]
    BY <1>3, <1>4, <1>8, <2>1
  <2> HIDE DEF i2, j2
  <2> QED  BY <2>2 DEF Nested
<1>9. CASE i > k /\ ~(j > k)
  <2> DEFINE i2 == i - k + 1
  <2>1. i2 \in DOMAIN d /\ 1 \in 1 .. i2 - 1 /\ n[i] = d[i2] /\ j \in 1 .. k /\ i2 # 1
    BY <1>3, <1>4, <1>9
  <2> HIDE DEF i2
  <2> DEFINE q == n[i].path
  <2>2. IsPrefix(q, c.path) /\ (q = c.path => c.do \in {"needDir", "walk", "putList"})
    BY <2>1 DEF Nested, c
  <2>3. q \in Path
    BY <1>4, <1>6, <2>1
  <2>4. n[j] = cs[j] /\ cs[j].path \in Path
    BY <1>3, <1>5, <2>1
  <2>5. CASE /\ IsPrefix(c.path, cs[j].path)
             /\ c.do \in {"needDir", "walk", "putList"} => cs[j].path # c.path
    <3> HIDE DEF q
    <3>1. IsPrefix(q, cs[j].path)
      BY <1>6, <2>2, <2>3, <2>4, <2>5, PrefixThrough
    <3>2. q # cs[j].path
      <4> SUFFICES ASSUME q = cs[j].path PROVE FALSE
        OBVIOUS
      <4>1. IsPrefix(c.path, q) /\ IsPrefix(q, c.path)
        BY <2>2, <2>5
      <4>2. q = c.path
        <5>1. Len(q) \in Nat /\ Len(c.path) \in Nat /\ q \in Seq(Segment) /\ c.path \in Seq(Segment)
          BY <1>6, <2>3, PathType
        <5>2. Len(q) = Len(c.path)
          BY <1>6, <2>3, <4>1, <5>1, PrefixIs
        <5> QED  BY <1>6, <2>3, <4>1, <5>1, <5>2, PrefixIs, SeqEqual
      <4> QED  BY <2>2, <2>5, <4>2
    <3> QED  BY <2>4, <3>1, <3>2 DEF q
  <2>6. CASE /\ c.do \in {"addName", "dropName"}
             /\ cs[j].path = Parent(c.path) /\ cs[j].do = "putList"
    <3>1. q # c.path
      BY <2>2, <2>6
    <3> HIDE DEF q
    <3>2. IsPrefix(q, Parent(c.path))
      BY <1>6, <2>2, <2>3, <3>1, AboveParent
    <3> QED  BY <2>4, <2>6, <3>2 DEF q
  <2> QED  BY <1>2, <1>4, <2>1, <2>5, <2>6 DEF Follow
<1> QED  BY <1>3, <1>7, <1>8, <1>9

LEMMA WithinOn ==
  ASSUME NEW P \in Path, P # Root, NEW d \in Seq(AnyCall), d # << >>,
         NEW cs, Answer(d[1], cs),
         \A i \in DOMAIN d : Within(P, d[i])
  PROVE  LET n == cs \o Tail(d) IN \A i \in DOMAIN n : Within(P, n[i])
<1> DEFINE n == cs \o Tail(d)
           c == d[1]
           k == Len(cs)
<1>1. 1 \in DOMAIN d /\ DOMAIN d = 1 .. Len(d) /\ Len(d) \in Nat /\ c \in AnyCall
  <2>1. 1 \in DOMAIN d /\ DOMAIN d = 1 .. Len(d) /\ Len(d) \in Nat
    OBVIOUS
  <2> QED  BY <2>1
<1>2. cs \in Seq(AnyCall) /\ Follow(c, cs)
  BY <1>1, AnswerIs
<1>3. /\ DOMAIN n = 1 .. Len(n) /\ k \in Nat
      /\ \A i \in 1 .. k : n[i] = cs[i]
      /\ \A i \in 1 .. Len(n) : i > k => n[i] = d[i - k + 1] /\ i - k + 1 \in 2 .. Len(d)
      /\ DOMAIN cs = 1 .. k /\ Len(n) \in Nat
  <2>1. n \in Seq(AnyCall)
    BY <1>2, GoingOn
  <2> QED  BY <1>2, <2>1, GoingOn
<1>4. \A i \in 1 .. k : cs[i].path \in Path
  BY <1>2, <1>3 DEF AnyCall
<1>5. c.path \in Path
  BY <1>1 DEF AnyCall
<1> HIDE DEF n, k, c
<1> SUFFICES ASSUME NEW i \in 1 .. Len(n)
             PROVE  IsPrefix(P, n[i].path) \/ (n[i].do = "putList" /\ n[i].path = Parent(P))
  BY <1>3 DEF n, Within
<1>6. CASE i > k
  <2>1. n[i] = d[i - k + 1] /\ i - k + 1 \in DOMAIN d
    BY <1>1, <1>3, <1>6
  <2> QED  BY <2>1 DEF Within
<1>7. CASE ~(i > k)
  <2>1. i \in 1 .. k /\ n[i] = cs[i]
    BY <1>3, <1>7
  <2>2. IsPrefix(P, c.path) \/ (c.do = "putList" /\ c.path = Parent(P))
    BY <1>1 DEF c, Within
  <2>3. c.do # "putList"
    <3>1. ASSUME c.do = "putList" PROVE cs = << >>
      BY <3>1 DEF Answer, c
    <3> QED  BY <2>1, <3>1 DEF k
  <2>4. CASE IsPrefix(c.path, cs[i].path)
    BY <1>4, <1>5, <2>1, <2>2, <2>3, <2>4, PrefixThrough
  <2>5. CASE cs[i].path = Parent(c.path) /\ cs[i].do = "putList"
    <3>1. CASE P = c.path
      BY <2>1, <2>5, <3>1
    <3>2. CASE P # c.path
      BY <1>5, <2>1, <2>2, <2>3, <2>5, <3>2, AboveParent
    <3> QED  BY <3>1, <3>2
  <2> QED  BY <1>2, <1>3, <2>1, <2>4, <2>5 DEF Follow
<1> QED  BY <1>3, <1>6, <1>7

\* A list that begins with a few given calls.
LEMMA ShapeIs ==
  ASSUME NEW d \in Seq(AnyCall)
  PROVE  /\ \A a : /\ Begins(d, <<a>>) <=> Len(d) >= 1 /\ d[1] = a
                   /\ Continues(d, <<a>>) <=> Begins(d, <<a>>) /\ Queued(d, 1)
                   /\ Ends(d, <<a>>) <=> Begins(d, <<a>>) /\ Len(d) = 1
         /\ \A a, b : /\ Begins(d, <<a, b>>) <=> Len(d) >= 2 /\ d[1] = a /\ d[2] = b
                      /\ Continues(d, <<a, b>>) <=> Begins(d, <<a, b>>) /\ Queued(d, 2)
                      /\ Ends(d, <<a, b>>) <=> Begins(d, <<a, b>>) /\ Len(d) = 2
         /\ \A a, b, c : /\ Begins(d, <<a, b, c>>) <=> Len(d) >= 3 /\ d[1] = a /\ d[2] = b /\ d[3] = c
                         /\ Continues(d, <<a, b, c>>) <=> Begins(d, <<a, b, c>>) /\ Queued(d, 3)
                         /\ Ends(d, <<a, b, c>>) <=> Begins(d, <<a, b, c>>) /\ Len(d) = 3
         /\ \A a, b, c, e :
              /\ Begins(d, <<a, b, c, e>>) <=>
                   Len(d) >= 4 /\ d[1] = a /\ d[2] = b /\ d[3] = c /\ d[4] = e
              /\ Ends(d, <<a, b, c, e>>) <=> Begins(d, <<a, b, c, e>>) /\ Len(d) = 4
<1>0. Len(d) \in Nat
  OBVIOUS
<1>1. ASSUME NEW a PROVE Begins(d, <<a>>) <=> Len(d) >= 1 /\ d[1] = a
  <2>1. Len(<<a>>) = 1 /\ DOMAIN <<a>> = {1} /\ <<a>>[1] = a
    OBVIOUS
  <2> QED  BY <1>0, <2>1 DEF Begins
<1>2. ASSUME NEW a, NEW b PROVE Begins(d, <<a, b>>) <=> Len(d) >= 2 /\ d[1] = a /\ d[2] = b
  <2>1. Len(<<a, b>>) = 2 /\ DOMAIN <<a, b>> = {1, 2} /\ <<a, b>>[1] = a /\ <<a, b>>[2] = b
    OBVIOUS
  <2> QED  BY <1>0, <2>1 DEF Begins
<1>3. ASSUME NEW a, NEW b, NEW c
      PROVE  Begins(d, <<a, b, c>>) <=> Len(d) >= 3 /\ d[1] = a /\ d[2] = b /\ d[3] = c
  <2> DEFINE f == <<a, b, c>>
  <2>1. Len(f) = 3 /\ DOMAIN f = {1, 2, 3} /\ f[1] = a /\ f[2] = b /\ f[3] = c
    OBVIOUS
  <2> HIDE DEF f
  <2>2. Begins(d, f) <=> Len(d) >= 3 /\ d[1] = a /\ d[2] = b /\ d[3] = c
    BY <1>0, <2>1 DEF Begins
  <2> QED  BY <2>2 DEF f
<1>4. ASSUME NEW a, NEW b, NEW c, NEW e
      PROVE  Begins(d, <<a, b, c, e>>) <=>
               Len(d) >= 4 /\ d[1] = a /\ d[2] = b /\ d[3] = c /\ d[4] = e
  <2> DEFINE f == <<a, b, c, e>>
  <2>1. Len(f) = 4 /\ DOMAIN f = {1, 2, 3, 4} /\ f[1] = a /\ f[2] = b /\ f[3] = c /\ f[4] = e
    OBVIOUS
  <2> HIDE DEF f
  <2>2. Begins(d, f) <=> Len(d) >= 4 /\ d[1] = a /\ d[2] = b /\ d[3] = c /\ d[4] = e
    BY <1>0, <2>1 DEF Begins
  <2> QED  BY <2>2 DEF f
<1>5. /\ \A a : Len(<<a>>) = 1
      /\ \A a, b : Len(<<a, b>>) = 2
      /\ \A a, b, c : Len(<<a, b, c>>) = 3
      /\ \A a, b, c, e : Len(<<a, b, c, e>>) = 4
  OBVIOUS
<1> QED  BY <1>1, <1>2, <1>3, <1>4, <1>5 DEF Continues, Ends

LEMMA QueuedOn ==
  ASSUME NEW d \in Seq(AnyCall), d # << >>, NEW cs \in Seq(AnyCall),
         NEW m \in Nat \ {0}, Queued(d, m)
  PROVE  Queued(cs \o Tail(d), Len(cs) + m - 1)
<1> DEFINE n == cs \o Tail(d)
           k == Len(cs)
<1>1. /\ DOMAIN n = 1 .. Len(n) /\ k \in Nat /\ DOMAIN d = 1 .. Len(d) /\ Len(n) \in Nat
      /\ \A i \in 1 .. Len(n) : i > k => n[i] = d[i - k + 1] /\ i - k + 1 \in 2 .. Len(d)
  <2>1. n \in Seq(AnyCall) /\ DOMAIN d = 1 .. Len(d)
    BY GoingOn
  <2> QED  BY <2>1, GoingOn
<1> HIDE DEF n, k
<1>2. ASSUME NEW i \in 1 .. Len(n), i > k + m - 1
      PROVE  n[i].do \in {"visitFile", "stillDir"}
  <2> DEFINE j == i - k + 1
  <2>1. n[i] = d[j] /\ j \in DOMAIN d /\ j > m
    BY <1>1, <1>2
  <2> HIDE DEF j
  <2> QED  BY <2>1 DEF Queued
<1> QED  BY <1>1, <1>2 DEF Queued, n, k

LEMMA ScriptedQueue ==
  ASSUME NEW n \in Seq(AnyCall), Queued(n, 0)
  PROVE  Scripted(n)
<1> SUFFICES ASSUME n # << >> PROVE Scripted(n)
  BY DEF Scripted
<1>1. Len(n) \in Nat /\ Len(n) >= 1 /\ DOMAIN n = 1 .. Len(n)
  OBVIOUS
<1>2. n[1].do \in {"visitFile", "stillDir"} /\ Queued(n, 1)
  BY <1>1 DEF Queued
<1>3. Continues(n, <<n[1]>>)
  BY <1>1, <1>2, ShapeIs
<1> QED  BY <1>2, <1>3 DEF Scripted

\* One call, then those of the queue.
LEMMA ScriptedOne ==
  ASSUME NEW n \in Seq(AnyCall), n # << >>,
         \/ /\ n[1].do \in {"stillFile", "stillDir", "visitFile", "visitDir", "dropName", "putList"}
            /\ Queued(n, 1)
         \/ n[1].do \in {"ensureRoot", "addName", "needNoFile", "putList"} /\ Len(n) = 1
  PROVE  Scripted(n)
<1>1. Len(n) \in Nat /\ Len(n) >= 1 /\ DOMAIN n = 1 .. Len(n)
  OBVIOUS
<1>2. Begins(n, <<n[1]>>)
  BY <1>1, ShapeIs
<1>3. Len(n) = 1 => Ends(n, <<n[1]>>) /\ Queued(n, 1)
  BY <1>1, <1>2, ShapeIs DEF Queued
<1>4. Queued(n, 1) => Continues(n, <<n[1]>>)
  BY <1>2, ShapeIs
<1> QED  BY <1>3, <1>4 DEF Scripted

\* A call and the one that must follow it.
LEMMA ScriptedTwo ==
  ASSUME NEW n \in Seq(AnyCall), Len(n) >= 2, Queued(n, 2),
         LET c == n[1]  b == n[2]  p == n[1].path
         IN \/ c.do = "putFile" /\ b = Call("addName", p) /\ Len(n) = 2
            \/ c.do = "putList" /\ c.list = << >> /\ b = Call("addName", p) /\ Len(n) = 2
            \/ c.do = "putList" /\ c.list = << >> /\ b = Call("dropName", p)
            \/ c.do \in {"needFile", "dropObject"} /\ b = Call("stillFile", p)
            \/ c.do = "clearFile" /\ b = Call("dropName", p)
            \/ c.do = "walk" /\ b = Call("stillDir", p)
  PROVE  Scripted(n)
<1>1. Continues(n, <<n[1], n[2]>>)
  BY ShapeIs
<1>2. Len(n) = 2 => Ends(n, <<n[1], n[2]>>)
  BY ShapeIs
<1> QED  BY <1>1, <1>2 DEF Scripted

\* A thread's list keeps its shape when its first call is answered.
LEMMA ScriptedOn ==
  ASSUME NEW d \in Seq(AnyCall), d # << >>, Scripted(d),
         NEW cs \in Seq(AnyCall), Answer(d[1], cs)
  PROVE  Scripted(cs \o Tail(d))
<1> DEFINE n == cs \o Tail(d)
           c == d[1]
           p == c.path
           k == Len(cs)
<1>1. /\ n \in Seq(AnyCall) /\ Len(n) = k + Len(d) - 1 /\ k \in Nat /\ Len(d) \in Nat /\ Len(d) >= 1
      /\ \A i \in 1 .. k : n[i] = cs[i]
      /\ \A i \in 2 .. Len(d) : n[k + i - 1] = d[i]
  BY GoingOn
<1>2. c \in AnyCall
  BY <1>1
<1>3. c \in AnyCall /\ p \in Path /\ c.do \in Doing
      /\ (p = Root => c.do \in {"ensureRoot", "putDir", "putList"})
  BY <1>2 DEF AnyCall
<1>4. \A m \in Nat \ {0} : Queued(d, m) => Queued(n, k + m - 1)
  BY QueuedOn
<1>5. \A a : /\ Begins(d, <<a>>) => d[1] = a
             /\ Continues(d, <<a>>) => Queued(n, k)
             /\ Ends(d, <<a>>) => Len(n) = k
  <2>1. 1 \in Nat \ {0} /\ k + 1 - 1 = k
    BY <1>1
  <2>2. Queued(d, 1) => Queued(n, k)
    BY <1>4, <2>1
  <2>3. Len(d) = 1 => Len(n) = k
    BY <1>1
  <2> HIDE DEF n, k
  <2> QED  BY <2>2, <2>3, ShapeIs
<1>6. \A a, b : /\ Begins(d, <<a, b>>) => n[k + 1] = b /\ Len(n) >= k + 1
                /\ Continues(d, <<a, b>>) => Begins(d, <<a, b>>) /\ Queued(n, k + 1)
                /\ Ends(d, <<a, b>>) => Begins(d, <<a, b>>) /\ Len(n) = k + 1
  <2>1. 2 \in Nat \ {0} /\ k + 2 - 1 = k + 1
    BY <1>1
  <2>2. Queued(d, 2) => Queued(n, k + 1)
    BY <1>4, <2>1
  <2>3. Len(d) = 2 => Len(n) = k + 1
    BY <1>1
  <2>4. Len(d) >= 2 => n[k + 1] = d[2] /\ Len(n) >= k + 1
    BY <1>1, <2>1
  <2> HIDE DEF n, k
  <2> SUFFICES ASSUME NEW a, NEW b
               PROVE  /\ Begins(d, <<a, b>>) => n[k + 1] = b /\ Len(n) >= k + 1
                      /\ Continues(d, <<a, b>>) => Begins(d, <<a, b>>) /\ Queued(n, k + 1)
                      /\ Ends(d, <<a, b>>) => Begins(d, <<a, b>>) /\ Len(n) = k + 1
    OBVIOUS
  <2>5. /\ Begins(d, <<a, b>>) => Len(d) >= 2 /\ d[2] = b
        /\ Continues(d, <<a, b>>) => Begins(d, <<a, b>>) /\ Queued(d, 2)
        /\ Ends(d, <<a, b>>) => Begins(d, <<a, b>>) /\ Len(d) = 2
    BY ShapeIs
  <2> QED  BY <2>2, <2>3, <2>4, <2>5
<1>7. \A a, b, e : /\ Begins(d, <<a, b, e>>) => n[k + 1] = b /\ n[k + 2] = e /\ Len(n) >= k + 2
                   /\ Continues(d, <<a, b, e>>) => Begins(d, <<a, b, e>>) /\ Queued(n, k + 2)
                   /\ Ends(d, <<a, b, e>>) => Begins(d, <<a, b, e>>) /\ Len(n) = k + 2
  <2>1. 3 \in Nat \ {0} /\ k + 3 - 1 = k + 2 /\ k + 2 - 1 = k + 1
    BY <1>1
  <2>2. Queued(d, 3) => Queued(n, k + 2)
    BY <1>4, <2>1
  <2>3. Len(d) = 3 => Len(n) = k + 2
    BY <1>1
  <2>4. Len(d) >= 3 => n[k + 1] = d[2] /\ n[k + 2] = d[3] /\ Len(n) >= k + 2
    BY <1>1, <2>1
  <2> HIDE DEF n, k
  <2> SUFFICES ASSUME NEW a, NEW b, NEW e
               PROVE  /\ Begins(d, <<a, b, e>>) => n[k + 1] = b /\ n[k + 2] = e /\ Len(n) >= k + 2
                      /\ Continues(d, <<a, b, e>>) => Begins(d, <<a, b, e>>) /\ Queued(n, k + 2)
                      /\ Ends(d, <<a, b, e>>) => Begins(d, <<a, b, e>>) /\ Len(n) = k + 2
    OBVIOUS
  <2>5. /\ Begins(d, <<a, b, e>>) => Len(d) >= 3 /\ d[2] = b /\ d[3] = e
        /\ Continues(d, <<a, b, e>>) => Begins(d, <<a, b, e>>) /\ Queued(d, 3)
        /\ Ends(d, <<a, b, e>>) => Begins(d, <<a, b, e>>) /\ Len(d) = 3
    BY ShapeIs
  <2> QED  BY <2>2, <2>3, <2>4, <2>5
<1>8. \A a, b, e, f : Ends(d, <<a, b, e, f>>) =>
        n[k + 1] = b /\ n[k + 2] = e /\ n[k + 3] = f /\ Len(n) = k + 3
  <2>1. k + 4 - 1 = k + 3 /\ k + 3 - 1 = k + 2 /\ k + 2 - 1 = k + 1
    BY <1>1
  <2>2. Len(d) = 4 => n[k + 1] = d[2] /\ n[k + 2] = d[3] /\ n[k + 3] = d[4] /\ Len(n) = k + 3
    BY <1>1, <2>1
  <2> HIDE DEF n, k
  <2> SUFFICES ASSUME NEW a, NEW b, NEW e, NEW f, Ends(d, <<a, b, e, f>>)
               PROVE  n[k + 1] = b /\ n[k + 2] = e /\ n[k + 3] = f /\ Len(n) = k + 3
    OBVIOUS
  <2>3. Len(d) = 4 /\ d[2] = b /\ d[3] = e /\ d[4] = f
    BY ShapeIs
  <2> QED  BY <2>2, <2>3
<1>9. \A m : Len(n) <= m /\ m \in Nat => Queued(n, m)
  <2>1. DOMAIN n = 1 .. Len(n) /\ Len(n) \in Nat
    BY <1>1
  <2> QED  BY <2>1 DEF Queued
<1>10. Len(n) = 0 => Scripted(n)
  BY <1>1 DEF Scripted
<1>11. Queued(n, 0) => Scripted(n)
  BY <1>1, ScriptedQueue
<1>12. \A do, q : Call(do, q).do = do /\ Call(do, q).path = q /\ Call(do, q).list = << >>
  BY DEF Call
<1>13. \A o, do, q : With(o, do, q) = [do |-> do, path |-> q, list |-> << >>, object |-> o]
  BY DEF Call, With
<1>14. Answer(c, cs) /\ Scripted(d) /\ d # << >>
  OBVIOUS
<1>15. cs = << >> => k = 0
  OBVIOUS
<1> SUFFICES Scripted(n)
  OBVIOUS
<1> HIDE DEF n, k, c, p
<1>20. CASE c.do = "ensureRoot"
  <2>1. Len(n) = k
    BY <1>5, <1>14, <1>20 DEF Scripted, c
  <2>2. CASE cs = << >>
    BY <1>10, <1>15, <2>1, <2>2
  <2>3. CASE cs # << >>
    <3>1. cs = MakeDir(p)
      BY <1>14, <1>20, <2>3 DEF Answer, p
    <3>2. p = Root
      BY <1>3, <1>20 DEF AnyCall, p
    <3>3. cs = <<Call("putDir", p), Call("putList", p)>>
      BY <3>1, <3>2, MakeDirIs
    <3>4. k = 2 /\ n[1] = Call("putDir", p) /\ n[2] = Call("putList", p)
      BY <1>1, <3>3 DEF k
    <3>5. Ends(n, MakeDir(p))
      BY <1>1, <2>1, <3>1, <3>3, <3>4, ShapeIs
    <3> QED  BY <1>12, <3>4, <3>5 DEF Scripted
  <2> QED  BY <2>2, <2>3
<1>21. CASE c.do = "needNoDir"
  <2>1. cs = << >> /\ k = 0 /\ p # Root
    BY <1>3, <1>14, <1>15, <1>21 DEF Answer
  <2>2. Ends(d, CreateDir(p))
    BY <1>14, <1>21 DEF Scripted, c, p
  <2>3. Ends(d, <<Call("needNoDir", p), Call("putDir", p), Call("putList", p), Call("addName", p)>>)
    BY <2>1, <2>2, MakeDirIs
  <2>4. n[1] = Call("putDir", p) /\ n[2] = Call("putList", p) /\ n[3] = Call("addName", p) /\ Len(n) = 3
    BY <1>8, <2>1, <2>3
  <2>5. Ends(n, MakeDir(p))
    BY <1>1, <2>1, <2>4, ShapeIs, MakeDirIs
  <2> QED  BY <1>12, <2>4, <2>5 DEF Scripted
<1>22. CASE c.do = "putDir"
  <2>1. cs = << >> /\ k = 0
    BY <1>14, <1>15, <1>22 DEF Answer
  <2>2. Ends(d, MakeDir(p))
    BY <1>14, <1>22 DEF Scripted, c, p
  <2>3. CASE p = Root
    <3>1. Ends(d, <<Call("putDir", p), Call("putList", p)>>)
      BY <2>2, <2>3, MakeDirIs
    <3>2. n[1] = Call("putList", p) /\ Len(n) = 1
      BY <1>6, <2>1, <3>1
    <3>3. n # << >>
      BY <1>1, <3>2
    <3>4. n[1].do = "putList"
      BY <1>12, <3>2
    <3> QED  BY <1>1, <3>2, <3>3, <3>4, ScriptedOne
  <2>4. CASE p # Root
    <3>1. Ends(d, <<Call("putDir", p), Call("putList", p), Call("addName", p)>>)
      BY <2>2, <2>4, MakeDirIs
    <3>2. n[1] = Call("putList", p) /\ n[2] = Call("addName", p) /\ Len(n) = 2
      BY <1>7, <2>1, <3>1
    <3>3. Queued(n, 2)
      BY <1>9, <3>2
    <3>4. n[1].do = "putList" /\ n[1].path = p /\ n[1].list = << >>
      BY <1>12, <3>2
    <3> QED  BY <1>1, <3>2, <3>3, <3>4, ScriptedTwo
  <2> QED  BY <2>3, <2>4
<1>23. CASE c.do = "putList"
  <2>1. cs = << >> /\ k = 0
    BY <1>14, <1>15, <1>23 DEF Answer
  <2>2. \/ Ends(d, <<c, Call("addName", p)>>)
        \/ Continues(d, <<c, Call("dropName", p)>>)
        \/ Continues(d, <<c>>)
    BY <1>14, <1>23 DEF Scripted, c, p
  <2>3. CASE Ends(d, <<c, Call("addName", p)>>)
    <3>1. n[1] = Call("addName", p) /\ Len(n) = 1
      BY <1>6, <2>1, <2>3
    <3>2. n # << >> /\ n[1].do = "addName"
      BY <1>12, <3>1
    <3> QED  BY <1>1, <3>1, <3>2, ScriptedOne
  <2>4. CASE Continues(d, <<c, Call("dropName", p)>>)
    <3>1. n[1] = Call("dropName", p) /\ Len(n) >= 1 /\ Queued(n, 1)
      BY <1>6, <2>1, <2>4
    <3>2. n # << >> /\ n[1].do = "dropName"
      BY <1>12, <3>1
    <3> QED  BY <1>1, <3>1, <3>2, ScriptedOne
  <2>5. CASE Continues(d, <<c>>)
    BY <1>5, <1>11, <2>1, <2>5
  <2> QED  BY <2>2, <2>3, <2>4, <2>5
<1>24. CASE c.do \in {"addName", "dropName"}
  <2>1. Len(n) = k \/ Queued(n, k)
    BY <1>5, <1>14, <1>24 DEF Scripted, c
  <2>2. CASE cs = << >>
    BY <1>1, <1>9, <1>11, <1>15, <2>1, <2>2
  <2>3. CASE cs # << >>
    <3>1. PICK names : cs = <<PutList(Parent(p), names)>>
      BY <1>14, <1>24, <2>3 DEF Answer, p
    <3>2. k = 1 /\ n[1] = PutList(Parent(p), names)
      BY <1>1, <3>1 DEF k
    <3>3. n[1].do = "putList" /\ n # << >>
      <4>1. PutList(Parent(p), names).do = "putList"
        BY DEF PutList, Call
      <4>2. Len(n) >= 1
        BY <1>1, <3>2
      <4> QED  BY <3>2, <4>1, <4>2
    <3> QED  BY <1>1, <1>9, <2>1, <3>2, <3>3, ScriptedOne
  <2> QED  BY <2>2, <2>3
<1>25. CASE c.do = "needNoFile"
  <2>1. Len(n) = k
    BY <1>5, <1>14, <1>25 DEF Scripted, c
  <2>2. CASE cs = << >>
    BY <1>10, <1>15, <2>1, <2>2
  <2>3. CASE cs # << >>
    <3>1. PICK o : cs = Store(p, o)
      BY <1>14, <1>25, <2>3 DEF Answer, p
    <3>2. p # Root
      BY <1>3, <1>25
    <3>3. cs = <<With(o, "putObject", p), With(o, "putFile", p), Call("addName", p)>>
      BY <3>1, <3>2, MakeDirIs
    <3>4. k = 3 /\ n[1] = With(o, "putObject", p) /\ n[2] = With(o, "putFile", p)
          /\ n[3] = Call("addName", p)
      BY <1>1, <3>3 DEF k
    <3>5. Ends(n, Store(p, o))
      BY <1>1, <2>1, <3>1, <3>3, <3>4, ShapeIs
    <3>6. n[1].do = "putObject" /\ n[1].path = p /\ n[1].object = o
      BY <1>13, <3>4
    <3> QED  BY <3>5, <3>6 DEF Scripted
  <2> QED  BY <2>2, <2>3
<1>26. CASE c.do = "putObject"
  <2>1. cs = << >> /\ k = 0 /\ p # Root
    BY <1>3, <1>14, <1>15, <1>26 DEF Answer
  <2> DEFINE o == c.object
  <2>2. Ends(d, Store(p, o))
    BY <1>14, <1>26 DEF Scripted, c, p
  <2>3. Ends(d, <<With(o, "putObject", p), With(o, "putFile", p), Call("addName", p)>>)
    BY <2>1, <2>2, MakeDirIs
  <2>4. n[1] = With(o, "putFile", p) /\ n[2] = Call("addName", p) /\ Len(n) = 2
    BY <1>7, <2>1, <2>3
  <2>5. n[1].do = "putFile" /\ n[1].path = p
    BY <1>13, <2>4
  <2>6. Queued(n, 2)
    BY <1>9, <2>4
  <2> QED  BY <1>1, <2>4, <2>5, <2>6, ScriptedTwo
<1>27. CASE c.do = "putFile"
  <2>1. cs = << >> /\ k = 0
    BY <1>14, <1>15, <1>27 DEF Answer
  <2>2. Ends(d, <<c, Call("addName", p)>>)
    BY <1>14, <1>27 DEF Scripted, c, p
  <2>3. n[1] = Call("addName", p) /\ Len(n) = 1
    BY <1>6, <2>1, <2>2
  <2>4. n # << >> /\ n[1].do = "addName"
    BY <1>12, <2>3
  <2> QED  BY <1>1, <2>3, <2>4, ScriptedOne
<1>28. CASE c.do = "needFile"
  <2>1. n[k + 1] = Call("stillFile", p) /\ Len(n) >= k + 1 /\ Queued(n, k + 1)
    BY <1>6, <1>14, <1>28 DEF Scripted, c, p
  <2>2. CASE cs = << >>
    <3>1. n[1] = Call("stillFile", p) /\ Len(n) >= 1 /\ Queued(n, 1)
      BY <1>15, <2>1, <2>2
    <3>2. n # << >> /\ n[1].do = "stillFile"
      BY <1>12, <3>1
    <3> QED  BY <1>1, <3>1, <3>2, ScriptedOne
  <2>3. CASE cs # << >>
    <3>1. PICK o : cs = <<With(o, "dropObject", p)>>
      BY <1>14, <1>28, <2>3 DEF Answer, p
    <3>2. k = 1 /\ n[1] = With(o, "dropObject", p)
      BY <1>1, <3>1 DEF k
    <3>3. n[1].do = "dropObject" /\ n[1].path = p
      BY <1>13, <3>2
    <3> QED  BY <1>1, <2>1, <3>2, <3>3, ScriptedTwo
  <2> QED  BY <2>2, <2>3
<1>29. CASE c.do \in {"dropObject", "clearFile"}
  <2>1. cs = << >> /\ k = 0
    BY <1>14, <1>15, <1>29 DEF Answer
  <2>2. \E do \in {"stillFile", "dropName"} : Continues(d, <<c, Call(do, p)>>)
    BY <1>14, <1>29 DEF Scripted, c, p
  <2>3. PICK do \in {"stillFile", "dropName"} : n[1] = Call(do, p) /\ Len(n) >= 1 /\ Queued(n, 1)
    BY <1>6, <2>1, <2>2
  <2>4. n # << >> /\ n[1].do \in {"stillFile", "dropName"}
    BY <1>12, <2>3
  <2> QED  BY <1>1, <2>3, <2>4, ScriptedOne
<1>30. CASE c.do = "needDir"
  <2>1. cs = << >> /\ k = 0
    BY <1>14, <1>15, <1>30 DEF Answer
  <2>2. Continues(d, <<Call("needDir", p), Call("walk", p), Call("stillDir", p)>>)
    BY <1>14, <1>30 DEF Scripted, c, p, DeleteDir
  <2>3. n[1] = Call("walk", p) /\ n[2] = Call("stillDir", p) /\ Len(n) >= 2 /\ Queued(n, 2)
    BY <1>7, <2>1, <2>2
  <2> QED  BY <1>1, <1>12, <2>3, ScriptedTwo
<1>31. CASE c.do = "walk"
  <2>1. n[k + 1] = Call("stillDir", p) /\ Len(n) >= k + 1 /\ Queued(n, k + 1)
    BY <1>6, <1>14, <1>31 DEF Scripted, c, p
  <2>2. \A i \in 1 .. k : cs[i].do = "visitFile"
    <3>1. CASE cs = << >>
      BY <1>15, <3>1
    <3>2. CASE cs # << >>
      <4>1. PICK names \in Seq(Names) : NameChildren(p, names) /\ cs = Visits(p, names)
        BY <1>14, <1>31, <3>2 DEF Answer, p
      <4>2. p # Root
        BY <1>3, <1>31
      <4>3. DOMAIN cs = DOMAIN names /\ \A i \in DOMAIN names : cs[i].do = "visitFile"
        BY <1>3, <4>1, <4>2, VisitsAre
      <4>4. DOMAIN cs = 1 .. k
        BY DEF k
      <4> QED  BY <4>3, <4>4
    <3> QED  BY <3>1, <3>2
  <2>3. Queued(n, 0)
    <3> SUFFICES ASSUME NEW i \in DOMAIN n PROVE n[i].do \in {"visitFile", "stillDir"}
      BY DEF Queued
    <3>1. i \in Nat /\ i >= 1
      BY <1>1
    <3>2. CASE i <= k
      BY <1>1, <2>2, <3>1, <3>2
    <3>3. CASE i = k + 1
      BY <1>12, <2>1, <3>3
    <3>4. CASE i > k + 1
      BY <2>1, <3>4 DEF Queued
    <3> QED  BY <1>1, <3>1, <3>2, <3>3, <3>4
  <2> QED  BY <1>11, <2>3
<1>32. CASE c.do = "clearDir"
  <2>1. cs = << >> /\ k = 0
    BY <1>14, <1>15, <1>32 DEF Answer
  <2>2. Continues(d, <<c, Call("putList", p), Call("dropName", p)>>)
    BY <1>14, <1>32 DEF Scripted, c, p
  <2>3. n[1] = Call("putList", p) /\ n[2] = Call("dropName", p) /\ Len(n) >= 2 /\ Queued(n, 2)
    BY <1>7, <2>1, <2>2
  <2> QED  BY <1>1, <1>12, <2>3, ScriptedTwo
<1>33. CASE c.do = "stillFile"
  <2>1. Queued(n, k) /\ Len(n) >= k
    BY <1>1, <1>5, <1>14, <1>33 DEF Scripted, c
  <2>2. CASE cs = << >>
    BY <1>11, <1>15, <2>1, <2>2
  <2>3. CASE cs # << >>
    <3>1. cs = <<Call("clearFile", p), Call("dropName", p)>>
      BY <1>14, <1>33, <2>3 DEF Answer, p
    <3>2. k = 2 /\ n[1] = Call("clearFile", p) /\ n[2] = Call("dropName", p)
      BY <1>1, <3>1 DEF k
    <3> QED  BY <1>1, <1>12, <2>1, <3>2, ScriptedTwo
  <2> QED  BY <2>2, <2>3
<1>34. CASE c.do = "stillDir"
  <2>1. Queued(n, k) /\ Len(n) >= k
    BY <1>1, <1>5, <1>14, <1>34 DEF Scripted, c
  <2>2. CASE cs = << >>
    BY <1>11, <1>15, <2>1, <2>2
  <2>3. CASE cs # << >>
    <3>1. cs = <<Call("clearDir", p), Call("putList", p), Call("dropName", p)>>
      BY <1>14, <1>34, <2>3 DEF Answer, p
    <3>2. k = 3 /\ n[1] = Call("clearDir", p) /\ n[2] = Call("putList", p) /\ n[3] = Call("dropName", p)
      BY <1>1, <3>1 DEF k
    <3>3. Continues(n, <<n[1], Call("putList", p), Call("dropName", p)>>)
      <4>1. Len(n) >= 3 /\ Queued(n, 3)
        BY <2>1, <3>2
      <4> QED  BY <1>1, <3>2, <4>1, ShapeIs
    <3>4. n[1].do = "clearDir" /\ n[1].path = p
      BY <1>12, <3>2
    <3>5. Continues(n, <<n[1], Call("putList", n[1].path), Call("dropName", n[1].path)>>)
      BY <3>3, <3>4
    <3> QED  BY <3>4, <3>5 DEF Scripted
  <2> QED  BY <2>2, <2>3
<1>35. CASE c.do = "visitFile"
  <2>1. Queued(n, k) /\ Len(n) >= k
    BY <1>1, <1>5, <1>14, <1>35 DEF Scripted, c
  <2>2. CASE cs = << >>
    BY <1>11, <1>15, <2>1, <2>2
  <2>3. CASE cs = DeleteFile(p)
    <3>1. cs = <<Call("needFile", p), Call("stillFile", p)>>
      BY <2>3 DEF DeleteFile
    <3>2. k = 2 /\ n[1] = Call("needFile", p) /\ n[2] = Call("stillFile", p)
      BY <1>1, <3>1 DEF k
    <3> QED  BY <1>1, <1>12, <2>1, <3>2, ScriptedTwo
  <2>4. CASE cs = <<Call("visitDir", p)>>
    <3>1. k = 1 /\ n[1] = Call("visitDir", p)
      BY <1>1, <2>4 DEF k
    <3>2. n # << >> /\ n[1].do = "visitDir"
      BY <1>1, <1>12, <2>1, <3>1
    <3> QED  BY <1>1, <2>1, <3>1, <3>2, ScriptedOne
  <2> QED  BY <1>14, <1>35, <2>2, <2>3, <2>4 DEF Answer, p
<1>36. CASE c.do = "visitDir"
  <2>1. Queued(n, k) /\ Len(n) >= k
    BY <1>1, <1>5, <1>14, <1>36 DEF Scripted, c
  <2>2. CASE cs = << >>
    BY <1>11, <1>15, <2>1, <2>2
  <2>3. CASE cs # << >>
    <3>1. cs = DeleteDir(p)
      BY <1>14, <1>36, <2>3 DEF Answer, p
    <3>2. cs = <<Call("needDir", p), Call("walk", p), Call("stillDir", p)>>
      BY <3>1 DEF DeleteDir
    <3>3. k = 3 /\ n[1] = Call("needDir", p) /\ n[2] = Call("walk", p) /\ n[3] = Call("stillDir", p)
      BY <1>1, <3>2 DEF k
    <3>4. Continues(n, DeleteDir(p))
      BY <1>1, <2>1, <3>1, <3>2, <3>3, ShapeIs
    <3> QED  BY <1>12, <3>3, <3>4 DEF Scripted
  <2> QED  BY <2>2, <2>3
<1> QED
  BY <1>3, <1>20, <1>21, <1>22, <1>23, <1>24, <1>25, <1>26, <1>27, <1>28, <1>29, <1>30, <1>31,
     <1>32, <1>33, <1>34, <1>35, <1>36 DEF Doing

LEMMA ListsAre ==
  ASSUME NEW p \in Path \ {Root}, NEW names \in Seq(Names), NameChildren(Parent(p), names)
  PROVE  /\ Extended(names, Name(p)) \in Seq(Names) /\ NameChildren(Parent(p), Extended(names, Name(p)))
         /\ Erased(names, Name(p)) \in Seq(Names) /\ NameChildren(Parent(p), Erased(names, Name(p)))
         /\ \A m : m \in ToSet(Extended(names, Name(p))) <=> m \in ToSet(names) \/ m = Name(p)
         /\ \A m : m \in ToSet(Erased(names, Name(p))) <=> m \in ToSet(names) /\ m # Name(p)
<1> DEFINE n == Name(p)
<1>1. n \in Names
  BY DEF Names
<1>2. Append(Parent(p), n) \in Path
  BY ParentIs
<1> HIDE DEF n
<1> DEFINE x == Append(names, n)
<1>3. /\ x \in Seq(Names) /\ Len(x) = Len(names) + 1 /\ Len(names) \in Nat
      /\ x[Len(names) + 1] = n /\ \A i \in 1 .. Len(names) : x[i] = names[i]
      /\ DOMAIN x = 1 .. Len(names) + 1 /\ DOMAIN names = 1 .. Len(names)
  <2>1. x \in Seq(Names) /\ Len(x) = Len(names) + 1 /\ Len(names) \in Nat
        /\ x[Len(names) + 1] = n /\ \A i \in 1 .. Len(names) : x[i] = names[i]
    BY <1>1
  <2> QED  BY <2>1
<1> HIDE DEF x
<1>4. Extended(names, n) = x
  BY DEF Extended, x
<1>5. \A m : m \in ToSet(x) <=> m \in ToSet(names) \/ m = n
  BY <1>3 DEF ToSet
<1>6. NameChildren(Parent(p), x)
  BY <1>2, <1>3 DEF NameChildren
<1>7. /\ Erased(names, n) \in Seq(Names)
      /\ \A m : m \in ToSet(Erased(names, n)) <=> m \in ToSet(names) /\ m # n
  BY <1>1, ErasedIs
<1>8. NameChildren(Parent(p), Erased(names, n))
  <2> SUFFICES ASSUME NEW i \in DOMAIN Erased(names, n)
               PROVE  Append(Parent(p), Erased(names, n)[i]) \in Path
    BY DEF NameChildren
  <2>1. Erased(names, n)[i] \in ToSet(Erased(names, n))
    BY DEF ToSet
  <2>2. Erased(names, n)[i] \in ToSet(names)
    BY <1>7, <2>1
  <2> QED  BY <2>2 DEF ToSet, NameChildren
<1> QED  BY <1>3, <1>4, <1>5, <1>6, <1>7, <1>8 DEF n

-----------------------------------------------------------------------------
(* What a step of a thread does to its list.                               *)

Advances(t) ==
  \/ thread' = [thread EXCEPT ![t] = Idle]
  \/ /\ thread[t].todo # << >>
     /\ \E cs : Answer(Head(thread[t].todo), cs) /\ thread' = [thread EXCEPT ![t] = Going(t, cs)]

LEMMA TodoIs ==
  ASSUME DriveTypes, NEW t \in Thread, thread[t].todo # << >>
  PROVE  /\ thread[t].todo \in Seq(AnyCall) /\ thread[t].todo[1] = Head(thread[t].todo)
         /\ This(t) = thread[t].todo[1] /\ This(t) \in AnyCall
         /\ PathOf(t) = thread[t].todo[1].path /\ PathOf(t) \in Path
         /\ 1 \in DOMAIN thread[t].todo
         /\ \A do : At(t, do) <=> thread[t].todo[1].do = do
<1>1. thread[t].todo \in Seq(AnyCall)
  BY DEF DriveTypes, ThreadState
<1>2. 1 \in DOMAIN thread[t].todo /\ thread[t].todo[1] = Head(thread[t].todo)
  BY <1>1
<1>3. thread[t].todo[1] \in AnyCall
  BY <1>1, <1>2
<1> QED  BY <1>1, <1>2, <1>3 DEF This, PathOf, At, AnyCall

LEMMA StepAdvances ==
  ASSUME DriveTypes, NEW t \in Thread, Step(t)
  PROVE  Advances(t)
<1> DEFINE c == Head(thread[t].todo)
           p == c.path
<1>1. \A do : At(t, do) => thread[t].todo # << >> /\ c.do = do
  BY DEF At
<1>2. thread[t].todo # << >> => c \in AnyCall /\ p \in Path /\ PathOf(t) = p /\ This(t) = c
  BY TodoIs DEF AnyCall
<1>3. \A do : At(t, do) => p \in Path
  BY <1>1, <1>2
<1>4. ASSUME NEW do, At(t, do), NEW x, x = Idle \/ \E cs : Answer(c, cs) /\ x = Going(t, cs),
             thread' = [thread EXCEPT ![t] = x]
      PROVE  Advances(t)
  BY <1>1, <1>4 DEF Advances
<1>5. \A do, cs : /\ At(t, do) /\ Goes(t, cs) /\ Answer(c, cs)
                  => Advances(t)
  BY <1>1, <1>4 DEF Goes
<1>6. Answer(c, << >>)
  BY DEF Answer
<1> HIDE DEF c, p
<1>7. ASSUME EnsureRoot(t) \/ NeedNoDir(t) \/ NeedDir(t) \/ VisitDir(t) \/ StillDir(t)
      PROVE  Advances(t)
  <2>1. \A cs : cs = << >> => \E ds : Answer(c, ds) /\ Going(t, cs) = Going(t, ds)
    BY <1>6
  <2>2. CASE EnsureRoot(t)
    <3>1. c.do = "ensureRoot" /\ p = Root /\ At(t, "ensureRoot")
      BY <1>1, <1>2, <2>2 DEF EnsureRoot, GetDir, AnyCall, p
    <3>2. Answer(c, MakeDir(Root))
      BY <3>1 DEF Answer, p
    <3>3. \E x \in {Going(t, << >>), Going(t, MakeDir(Root))} : thread' = [thread EXCEPT ![t] = x]
      BY <2>2 DEF EnsureRoot, GetDir
    <3> QED  BY <1>4, <1>6, <3>1, <3>2, <3>3
  <2>3. CASE NeedNoDir(t)
    <3>1. At(t, "needNoDir") /\ \E x \in {Idle, Going(t, << >>)} : thread' = [thread EXCEPT ![t] = x]
      BY <2>3 DEF NeedNoDir, GetDir
    <3> QED  BY <1>4, <1>6, <3>1
  <2>4. CASE NeedDir(t)
    <3>1. At(t, "needDir") /\ \E x \in {Idle, Going(t, << >>)} : thread' = [thread EXCEPT ![t] = x]
      BY <2>4 DEF NeedDir, GetDir
    <3> QED  BY <1>4, <1>6, <3>1
  <2>5. CASE VisitDir(t)
    <3>1. /\ At(t, "visitDir")
          /\ \E x \in {Going(t, DeleteDir(PathOf(t))), Going(t, << >>)} : thread' = [thread EXCEPT ![t] = x]
      BY <2>5 DEF VisitDir, GetDir
    <3>2. Answer(c, DeleteDir(PathOf(t)))
      BY <1>1, <1>2, <3>1 DEF Answer, p
    <3> QED  BY <1>4, <1>6, <3>1, <3>2
  <2>6. CASE StillDir(t)
    <3> DEFINE cs == <<Call("clearDir", PathOf(t)), Call("putList", PathOf(t))>> \o Unregister(PathOf(t))
    <3>1. /\ At(t, "stillDir")
          /\ \E x \in {Going(t, cs), Going(t, << >>)} : thread' = [thread EXCEPT ![t] = x]
      BY <2>6 DEF StillDir, GetDir
    <3>2. cs = <<Call("clearDir", p), Call("putList", p), Call("dropName", p)>>
      <4>1. PathOf(t) = p
        BY <1>1, <1>2, <3>1
      <4>2. cs = <<Call("clearDir", p), Call("putList", p)>> \o <<Call("dropName", p)>>
        BY <4>1 DEF Unregister
      <4> QED  BY <4>2, Joins
    <3> HIDE DEF cs
    <3>3. Answer(c, cs)
      BY <1>1, <3>1, <3>2 DEF Answer, p
    <3> QED  BY <1>4, <1>6, <3>1, <3>3
  <2> QED  BY <1>7, <2>2, <2>3, <2>4, <2>5, <2>6
<1>8. ASSUME NeedNoFile(t) \/ NeedFile(t) \/ VisitFile(t) \/ StillFile(t)
      PROVE  Advances(t)
  <2>1. CASE NeedNoFile(t)
    <3> DEFINE cs == Store(PathOf(t), NewKey(PathOf(t)))
    <3>1. At(t, "needNoFile") /\ \E x \in {Idle, Going(t, cs)} : thread' = [thread EXCEPT ![t] = x]
      BY <2>1 DEF NeedNoFile, GetFile
    <3>2. PathOf(t) = p /\ NewKey(p) \in KeysOf(p) /\ c.do = "needNoFile"
      BY <1>1, <1>2, <3>1, NewKeyIs
    <3>3. Answer(c, cs)
      BY <3>2 DEF Answer, p
    <3> HIDE DEF cs
    <3> QED  BY <1>4, <3>1, <3>3
  <2>2. CASE NeedFile(t)
    <3> DEFINE cs == <<With(file[PathOf(t)], "dropObject", PathOf(t))>>
    <3>1. /\ At(t, "needFile")
          /\ \/ thread' = [thread EXCEPT ![t] = Idle]
             \/ file[PathOf(t)] # NoFile /\ thread' = [thread EXCEPT ![t] = Going(t, cs)]
      BY <2>2 DEF NeedFile, GetFile
    <3>2. PathOf(t) = p /\ c.do = "needFile" /\ p \in Path
      BY <1>1, <1>2, <3>1
    <3>3. file[p] # NoFile => file[p] \in KeysOf(p)
      BY <3>2 DEF DriveTypes, TypeOK, KeysOf
    <3>4. file[p] # NoFile => Answer(c, cs)
      BY <3>2, <3>3 DEF Answer, p
    <3> HIDE DEF cs
    <3> QED  BY <1>4, <3>1, <3>2, <3>4
  <2>3. CASE VisitFile(t)
    <3> DEFINE cs == <<Call("visitDir", PathOf(t))>>
    <3>1. /\ At(t, "visitFile")
          /\ \E x \in {Going(t, DeleteFile(PathOf(t))), Going(t, cs)} : thread' = [thread EXCEPT ![t] = x]
      BY <2>3 DEF VisitFile, GetFile
    <3>2. Answer(c, DeleteFile(PathOf(t))) /\ Answer(c, cs)
      BY <1>1, <1>2, <3>1 DEF Answer, p
    <3> HIDE DEF cs
    <3> QED  BY <1>4, <3>1, <3>2
  <2>4. CASE StillFile(t)
    <3> DEFINE cs == <<Call("clearFile", PathOf(t))>> \o Unregister(PathOf(t))
    <3>1. /\ At(t, "stillFile")
          /\ \E x \in {Going(t, cs), Going(t, << >>)} : thread' = [thread EXCEPT ![t] = x]
      BY <2>4 DEF StillFile, GetFile
    <3>2. cs = <<Call("clearFile", p), Call("dropName", p)>>
      <4>1. PathOf(t) = p
        BY <1>1, <1>2, <3>1
      <4>2. cs = <<Call("clearFile", p)>> \o <<Call("dropName", p)>>
        BY <4>1 DEF Unregister
      <4> QED  BY <4>2, Joins
    <3> HIDE DEF cs
    <3>3. Answer(c, cs)
      BY <1>1, <3>1, <3>2 DEF Answer, p
    <3> QED  BY <1>4, <1>6, <3>1, <3>3
  <2> QED  BY <1>8, <2>1, <2>2, <2>3, <2>4
<1>9. ASSUME Walk(t) PROVE Advances(t)
  <2> DEFINE cs == Visits(PathOf(t), children[PathOf(t)])
  <2>1. At(t, "walk") /\ (Goes(t, cs) \/ Goes(t, << >>))
    BY <1>9 DEF Walk, GetChildren
  <2>2. PathOf(t) = p /\ p \in Path /\ c.do = "walk"
    BY <1>1, <1>2, <2>1
  <2>3. children[p] \in Seq(Names) /\ NameChildren(p, children[p])
    BY <2>2 DEF DriveTypes, TypeOK
  <2>4. Answer(c, cs)
    BY <2>2, <2>3 DEF Answer, p
  <2> HIDE DEF cs
  <2> QED  BY <1>5, <1>6, <2>1, <2>4
<1>10. ASSUME AddName(t) \/ DropName(t) PROVE Advances(t)
  <2> DEFINE q == Parent(PathOf(t))
             n == Name(PathOf(t))
  <2>1. PICK do \in {"addName", "dropName"} : At(t, do)
    BY <1>10 DEF AddName, DropName, GetChildren
  <2>2. PathOf(t) = p /\ p \in Path /\ c.do = do /\ p # Root
    BY <1>1, <1>2, <2>1 DEF AnyCall, p
  <2>3. PICK names \in {children[q], << >>} :
          Goes(t, <<PutList(q, Extended(names, n))>>) \/ Goes(t, <<PutList(q, Erased(names, n))>>)
    BY <1>10 DEF AddName, DropName, GetChildren
  <2>4. q = Parent(p) /\ n = Name(p) /\ q \in Path
    BY <2>2, PathType
  <2>5. names \in Seq(Names) /\ NameChildren(q, names)
    <3>1. children[q] \in Seq(Names) /\ NameChildren(q, children[q])
      BY <2>4 DEF DriveTypes, TypeOK
    <3>2. << >> \in Seq(Names) /\ NameChildren(q, << >>)
      BY DEF NameChildren
    <3> HIDE DEF q, n
    <3> QED  BY <3>1, <3>2
  <2>6. \A x \in {Extended(names, n), Erased(names, n)} : x \in Seq(Names) /\ NameChildren(q, x)
    BY <2>2, <2>4, <2>5, ListsAre
  <2> HIDE DEF q, n
  <2>7. \A x \in {Extended(names, n), Erased(names, n)} : Answer(c, <<PutList(q, x)>>)
    BY <2>1, <2>2, <2>4, <2>6 DEF Answer, p
  <2> QED  BY <1>5, <2>1, <2>3, <2>7
<1>11. ASSUME \/ PutDir(t) \/ ClearDir(t) \/ PutFile(t) \/ ClearFile(t) \/ PutNames(t)
              \/ PutObject(t) \/ DropObject(t)
       PROVE  Advances(t)
  <2>1. Goes(t, << >>) /\ \E do : At(t, do)
    BY <1>11 DEF PutDir, ClearDir, PutFile, ClearFile, PutNames, Put, PutObject, DropObject
  <2> QED  BY <1>5, <1>6, <2>1
<1>12. ASSUME S3Error(t) \/ Done(t) PROVE Advances(t)
  BY <1>12 DEF S3Error, Done, Fails, Advances
<1> QED  BY <1>7, <1>8, <1>9, <1>10, <1>11, <1>12 DEF Step

LEMMA ThreadGoes ==
  ASSUME NEW r \in ThreadState, r.todo # << >>, Scripted(r.todo), Nested(r.todo),
         NEW cs, Answer(Head(r.todo), cs)
  PROVE  LET s == [r EXCEPT !.todo = cs \o Tail(@)]
         IN /\ s \in ThreadState /\ s.kind = r.kind /\ s.path = r.path /\ s.saw = r.saw
            /\ s.todo = cs \o Tail(r.todo) /\ Scripted(s.todo) /\ Nested(s.todo)
<1> DEFINE s == [r EXCEPT !.todo = cs \o Tail(@)]
<1>1. r.todo \in Seq(AnyCall) /\ Head(r.todo) = r.todo[1] /\ r.todo[1] \in AnyCall
  <2>1. r.todo \in Seq(AnyCall)
    BY DEF ThreadState
  <2>2. Head(r.todo) = r.todo[1] /\ 1 \in DOMAIN r.todo
    BY <2>1
  <2> QED  BY <2>1, <2>2
<1>2. cs \in Seq(AnyCall) /\ Answer(r.todo[1], cs)
  BY <1>1, AnswerIs
<1>3. cs \o Tail(r.todo) \in Seq(AnyCall)
  BY <1>1, <1>2, GoingOn
<1>4. s.kind = r.kind /\ s.path = r.path /\ s.saw = r.saw /\ s.todo = cs \o Tail(r.todo)
  BY DEF ThreadState
<1>5. s \in ThreadState
  BY <1>3, <1>4 DEF ThreadState
<1>6. Scripted(cs \o Tail(r.todo)) /\ Nested(cs \o Tail(r.todo))
  BY <1>1, <1>2, ScriptedOn, NestedOn
<1> QED  BY <1>4, <1>5, <1>6

LEMMA IdleIs ==
  /\ Idle \in ThreadState /\ Idle.todo = << >> /\ Idle.kind = "idle" /\ Idle.path = Root
  /\ Booting \in ThreadState /\ Booting.kind = "boot" /\ Booting.path = Root
  /\ Booting.todo = <<Call("ensureRoot", Root)>> /\ Booting.todo \in Seq(AnyCall)
  /\ Idle # Booting
<1>1. Idle = [kind |-> "idle", path |-> Root, todo |-> << >>, saw |-> << >>]
  BY DEF Idle
<1>2. Root \in Path /\ << >> \in Seen /\ << >> \in Seq(AnyCall)
  BY PathType DEF Seen
<1>3. Call("ensureRoot", Root) \in AnyCall
  BY <1>2, CallIs DEF Doing
<1>4. <<Call("ensureRoot", Root)>> \in Seq(AnyCall)
  BY <1>3
<1>5. Idle \in ThreadState
  BY <1>1, <1>2 DEF ThreadState
<1>6. /\ Idle.todo = << >> /\ Idle.kind = "idle" /\ Idle.path = Root
  BY <1>1
<1> DEFINE todo == <<Call("ensureRoot", Root)>>
<1>7. Booting = [[Idle EXCEPT !.kind = "boot"] EXCEPT !.todo = todo]
  BY DEF Booting
<1> HIDE DEF todo
<1>8. PICK r \in ThreadState : r = Idle
  BY <1>5
<1>9. PICK b : b = [[r EXCEPT !.kind = "boot"] EXCEPT !.todo = todo]
  OBVIOUS
<1>10. b \in ThreadState /\ b.kind = "boot" /\ b.path = r.path /\ b.todo = todo
  BY <1>4, <1>9 DEF ThreadState, todo
<1>11. b = Booting
  BY <1>7, <1>8, <1>9
<1>12. b # Idle
  BY <1>6, <1>10
<1> QED  BY <1>4, <1>5, <1>6, <1>8, <1>10, <1>11, <1>12 DEF todo

LEMMA NoCalls ==
  ASSUME NEW d, d = << >> PROVE Scripted(d) /\ Nested(d) /\ DOMAIN d = {}
BY DEF Scripted, Nested

\* A step of one thread keeps the lists of all.
LEMMA AdvanceKeeps ==
  ASSUME ThreadInv, NEW t \in Thread, Advances(t)
  PROVE  thread' \in [Thread -> ThreadState] /\ ThreadsAreScripted'
<1>1. thread \in [Thread -> ThreadState] /\ ThreadsAreScripted
  BY DEF ThreadInv, DriveTypes
<1>2. PICK r \in ThreadState : r = thread[t]
  BY <1>1
<1>3. PICK s : s = thread'[t] /\ thread' = [thread EXCEPT ![t] = s]
  BY <1>1 DEF Advances
<1>4. \A u \in Thread : u # t => thread'[u] = thread[u]
  BY <1>1, <1>3
<1>5. CASE s = Idle
  <2>1. thread' \in [Thread -> ThreadState]
    BY <1>1, <1>3, <1>5, IdleIs
  <2>2. ASSUME NEW u \in Thread
        PROVE  Orderly(thread'[u])
    <3>1. CASE u = t
      BY <1>3, <1>5, <3>1, IdleIs, NoCalls DEF Orderly
    <3>2. CASE u # t
      BY <1>1, <1>4, <3>2 DEF ThreadsAreScripted
    <3> QED  BY <3>1, <3>2
  <2>3. \A u \in Thread : thread'[u] # Idle => thread[u] = thread'[u]
    BY <1>3, <1>4, <1>5
  <2>4. Main \in Thread /\ Worker \subseteq Thread
    BY DEF Thread
  <2>5. \A u \in Worker : thread'[u] # Idle => thread'[u].path # Root
    BY <1>1, <2>3, <2>4 DEF ThreadsAreScripted
  <2>6. thread'[Main] # Idle =>
          /\ thread'[Main].path = Root /\ \A u \in Worker : thread'[u] = Idle
          /\ \A i \in DOMAIN thread'[Main].todo : thread'[Main].todo[i].path = Root
    <3> SUFFICES ASSUME thread'[Main] # Idle
                 PROVE  /\ thread'[Main].path = Root /\ \A u \in Worker : thread'[u] = Idle
                        /\ \A i \in DOMAIN thread'[Main].todo : thread'[Main].todo[i].path = Root
      OBVIOUS
    <3>1. thread'[Main] = thread[Main]
      BY <2>3, <2>4
    <3>2. \A u \in Worker : thread[u] = Idle
      BY <1>1, <3>1 DEF ThreadsAreScripted
    <3>3. \A u \in Worker : thread'[u] = Idle
      BY <2>3, <2>4, <3>2
    <3> QED  BY <1>1, <3>1, <3>3 DEF ThreadsAreScripted
  <2>7. Apart => \A u, w \in Worker :
          u # w /\ thread'[u] # Idle /\ thread'[w] # Idle => AreApart(thread'[u].path, thread'[w].path)
    BY <1>1, <2>3, <2>4 DEF ThreadsAreScripted
  <2>8. ThreadsAreScripted'
    BY <2>2, <2>5, <2>6, <2>7 DEF ThreadsAreScripted
  <2> QED  BY <2>1, <2>8
<1>6. CASE s # Idle
  <2>1. PICK cs : r.todo # << >> /\ Answer(Head(r.todo), cs) /\ s = [r EXCEPT !.todo = cs \o Tail(@)]
    <3>1. PICK cs : /\ thread[t].todo # << >> /\ Answer(Head(thread[t].todo), cs)
                    /\ thread' = [thread EXCEPT ![t] = Going(t, cs)]
      BY <1>1, <1>3, <1>6 DEF Advances
    <3>2. s = Going(t, cs)
      BY <1>1, <1>3, <3>1
    <3> QED  BY <1>2, <3>1, <3>2 DEF Going
  <2>2. Scripted(r.todo) /\ Nested(r.todo)
    BY <1>1, <1>2 DEF ThreadsAreScripted, Orderly
  <2>3. /\ s \in ThreadState /\ s.kind = r.kind /\ s.path = r.path /\ s.saw = r.saw
        /\ s.todo = cs \o Tail(r.todo) /\ Scripted(s.todo) /\ Nested(s.todo)
    BY <2>1, <2>2, ThreadGoes
  <2>4. thread' \in [Thread -> ThreadState]
    BY <1>1, <1>3, <2>3
  <2>5. r # Idle /\ r.kind # "idle"
    <3>1. r # Idle
      BY <2>1, IdleIs
    <3> QED  BY <1>1, <1>2, <3>1 DEF ThreadsAreScripted, Orderly
  <2>6. r.todo \in Seq(AnyCall) /\ r.path \in Path /\ Head(r.todo) = r.todo[1] /\ 1 \in DOMAIN r.todo
    <3>1. r.todo \in Seq(AnyCall) /\ r.path \in Path
      BY DEF ThreadState
    <3> QED  BY <2>1, <3>1
  <2>7. Main \in Thread /\ Worker \subseteq Thread /\ Main \notin Worker /\ (t # Main => t \in Worker)
    BY ThreadAssumption DEF Thread
  <2>8. t = Main => r.path = Root /\ \A i \in DOMAIN s.todo : s.todo[i].path = Root
    <3> SUFFICES ASSUME t = Main PROVE r.path = Root /\ \A i \in DOMAIN s.todo : s.todo[i].path = Root
      OBVIOUS
    <3>1. r.path = Root /\ \A i \in DOMAIN r.todo : r.todo[i].path = Root
      BY <1>1, <1>2, <2>5 DEF ThreadsAreScripted
    <3>2. r.todo[1].path = Root /\ r.todo[1] \in AnyCall
      BY <2>6, <3>1
    <3>3. cs = << >> \/ cs = MakeDir(Root)
      BY <2>1, <2>6, <3>2 DEF Answer, AnyCall
    <3>4. cs \in Seq(AnyCall) /\ \A i \in 1 .. Len(cs) : cs[i].path = Root
      <4>1. CASE cs = << >>
        BY <4>1
      <4>2. CASE cs = MakeDir(Root)
        <5>1. cs = <<Call("putDir", Root), Call("putList", Root)>>
          BY <4>2, MakeDirIs
        <5>2. \A do : Call(do, Root).path = Root
          BY DEF Call
        <5>3. cs \in Seq(AnyCall)
          BY <2>1, <2>6, <3>2, AnswerIs
        <5> QED  BY <5>1, <5>2, <5>3
      <4> QED  BY <3>3, <4>1, <4>2
    <3>5. DOMAIN s.todo = 1 .. Len(s.todo) /\ DOMAIN r.todo = 1 .. Len(r.todo) /\ Len(cs) \in Nat
      BY <2>1, <2>3, <2>6, <3>4, GoingOn
    <3>6. \A i \in 1 .. Len(s.todo) : i > Len(cs) =>
             s.todo[i] = r.todo[i - Len(cs) + 1] /\ i - Len(cs) + 1 \in 2 .. Len(r.todo)
      BY <2>1, <2>3, <2>6, <3>4, GoingOn
    <3>7. \A i \in 1 .. Len(cs) : s.todo[i] = cs[i]
      BY <2>1, <2>3, <2>6, <3>4, GoingOn
    <3>8. ASSUME NEW i \in DOMAIN s.todo PROVE s.todo[i].path = Root
      <4>1. CASE i > Len(cs)
        <5>1. i - Len(cs) + 1 \in DOMAIN r.todo
          BY <3>5, <3>6, <4>1
        <5> QED  BY <3>1, <3>5, <3>6, <4>1, <5>1
      <4>2. CASE ~(i > Len(cs))
        <5>1. i \in 1 .. Len(cs)
          BY <3>5, <4>2
        <5> QED  BY <3>4, <3>7, <5>1
      <4> QED  BY <4>1, <4>2
    <3> QED  BY <3>1, <3>8
  <2>9. \A i \in DOMAIN s.todo : Within(r.path, s.todo[i])
    <3>1. CASE t = Main
      BY <2>6, <2>8, <3>1, PrefixSelf DEF Within
    <3>2. CASE t # Main
      <4>1. r.path # Root
        BY <1>1, <1>2, <2>5, <2>7, <3>2 DEF ThreadsAreScripted
      <4>2. \A i \in DOMAIN r.todo : Within(r.path, r.todo[i])
        BY <1>1, <1>2 DEF ThreadsAreScripted, Orderly
      <4> QED  BY <2>1, <2>3, <2>6, <4>1, <4>2, WithinOn
    <3> QED  BY <3>1, <3>2
  <2>10. ASSUME NEW u \in Thread
         PROVE  Orderly(thread'[u])
    <3>1. CASE u = t
      BY <1>3, <2>3, <2>5, <2>9, <3>1 DEF Orderly
    <3>2. CASE u # t
      BY <1>1, <1>4, <3>2 DEF ThreadsAreScripted
    <3> QED  BY <3>1, <3>2
  <2>11. \A u \in Thread : /\ thread'[u].path = thread[u].path
                           /\ thread'[u] # Idle => thread[u] # Idle
    <3> SUFFICES ASSUME NEW u \in Thread
                 PROVE  thread'[u].path = thread[u].path /\ (thread'[u] # Idle => thread[u] # Idle)
      OBVIOUS
    <3>1. CASE u = t
      BY <1>2, <1>3, <2>3, <2>5, <3>1
    <3>2. CASE u # t
      BY <1>4, <3>2
    <3> QED  BY <3>1, <3>2
  <2>12. \A u \in Worker : thread'[u] # Idle => thread'[u].path # Root
    BY <1>1, <2>7, <2>11 DEF ThreadsAreScripted
  <2>13. thread'[Main] # Idle =>
          /\ thread'[Main].path = Root /\ \A u \in Worker : thread'[u] = Idle
          /\ \A i \in DOMAIN thread'[Main].todo : thread'[Main].todo[i].path = Root
    <3> SUFFICES ASSUME thread'[Main] # Idle
                 PROVE  /\ thread'[Main].path = Root /\ \A u \in Worker : thread'[u] = Idle
                        /\ \A i \in DOMAIN thread'[Main].todo : thread'[Main].todo[i].path = Root
      OBVIOUS
    <3>1. thread[Main] # Idle
      BY <2>7, <2>11
    <3>2. thread[Main].path = Root /\ \A u \in Worker : thread[u] = Idle
      BY <1>1, <3>1 DEF ThreadsAreScripted
    <3>3. thread'[Main].path = Root /\ \A u \in Worker : thread'[u] = Idle
      BY <2>7, <2>11, <3>2
    <3>4. t = Main
      BY <1>2, <2>5, <2>7, <3>2
    <3> QED  BY <1>3, <2>8, <3>3, <3>4
  <2>14. Apart => \A u, w \in Worker :
          u # w /\ thread'[u] # Idle /\ thread'[w] # Idle => AreApart(thread'[u].path, thread'[w].path)
    BY <1>1, <2>7, <2>11 DEF ThreadsAreScripted
  <2>15. ThreadsAreScripted'
    BY <2>10, <2>12, <2>13, <2>14 DEF ThreadsAreScripted
  <2> QED  BY <2>4, <2>15
<1> QED  BY <1>5, <1>6

-----------------------------------------------------------------------------
(* What a request begins with.                                             *)

LEMMA CallsAre ==
  ASSUME NEW kind \in Requests, NEW p \in Path, p # Root
  PROVE  LET d == CallsOf(kind, p)
         IN /\ d \in Seq(AnyCall) /\ d # << >> /\ Scripted(d) /\ Nested(d)
            /\ \A i \in DOMAIN d : d[i].path = p
            /\ d[1].do \in {"needNoDir", "needDir", "needNoFile", "needFile"}
            /\ kind \in {"createDir", "uploadFile"} <=> d[1].do \in {"needNoDir", "needNoFile"}
            /\ \A i \in DOMAIN d : d[i].do = "stillDir" => i > 1 /\ d[1].do = "needDir" /\ d[1].path = p
<1> DEFINE d == CallsOf(kind, p)
           K(do) == Call(do, p)
<1>1. ASSUME NEW do \in {"needNoDir", "putDir", "putList", "addName", "needNoFile", "needFile",
                         "stillFile", "needDir", "walk", "stillDir"}
      PROVE  K(do) \in AnyCall /\ K(do).do = do /\ K(do).path = p
  <2>1. do \in Doing /\ NoFile \in {NoFile} \cup KeysOf(p)
    BY DEF Doing
  <2> QED  BY <2>1, CallIs
<1> HIDE DEF K
<1>2. CASE kind = "createDir"
  <2>1. d = <<K("needNoDir"), K("putDir"), K("putList"), K("addName")>>
    BY <1>2, MakeDirIs DEF CallsOf, K
  <2>2. d \in Seq(AnyCall) /\ Len(d) = 4 /\ DOMAIN d = {1, 2, 3, 4}
        /\ d[1] = K("needNoDir") /\ d[2] = K("putDir") /\ d[3] = K("putList") /\ d[4] = K("addName")
    BY <1>1, <2>1
  <2> HIDE DEF d
  <2>3. Ends(d, <<K("needNoDir"), K("putDir"), K("putList"), K("addName")>>)
    BY <2>2, ShapeIs
  <2>4. Ends(d, CreateDir(p))
    BY <2>3, MakeDirIs DEF K
  <2>5. d[1].do = "needNoDir" /\ d[1].path = p
    BY <1>1, <2>2
  <2>6. Scripted(d)
    BY <2>4, <2>5 DEF Scripted
  <2>7. \A i \in DOMAIN d : d[i].path = p /\ d[i].do # "stillDir"
    BY <1>1, <2>2
  <2>8. Nested(d)
    BY <2>7 DEF Nested
  <2>9. d # << >>
    BY <2>2
  <2> QED  BY <1>2, <2>2, <2>5, <2>6, <2>7, <2>8, <2>9 DEF d
<1>3. CASE kind = "deleteDir"
  <2>1. d = <<K("needDir"), K("walk"), K("stillDir")>>
    BY <1>3 DEF CallsOf, K, DeleteDir
  <2>2. d \in Seq(AnyCall) /\ Len(d) = 3 /\ DOMAIN d = {1, 2, 3}
        /\ d[1] = K("needDir") /\ d[2] = K("walk") /\ d[3] = K("stillDir")
    BY <1>1, <2>1
  <2> HIDE DEF d
  <2>3. Queued(d, 3)
    BY <2>2 DEF Queued
  <2>4. Continues(d, DeleteDir(p))
    BY <2>2, <2>3, ShapeIs DEF DeleteDir, K
  <2>5. d[1].do = "needDir" /\ d[1].path = p /\ d[2].do = "walk" /\ d[2].path = p
        /\ d[3].do = "stillDir" /\ d[3].path = p
    BY <1>1, <2>2
  <2>6. Scripted(d)
    BY <2>4, <2>5 DEF Scripted
  <2>7. Nested(d)
    <3> SUFFICES ASSUME NEW i \in DOMAIN d, NEW j \in 1 .. i - 1
                 PROVE  IsPrefix(d[i].path, d[j].path) /\ d[j].do \in {"needDir", "walk", "putList"}
      BY DEF Nested
    <3>1. j = 1 \/ j = 2
      BY <2>2
    <3> QED  BY <2>2, <2>5, <3>1, PrefixSelf
  <2>8. d # << >>
    BY <2>2
  <2> QED  BY <1>3, <2>2, <2>5, <2>6, <2>7, <2>8 DEF d
<1>4. CASE kind = "uploadFile"
  <2>1. d = <<K("needNoFile")>>
    BY <1>4 DEF CallsOf, K
  <2>2. d \in Seq(AnyCall) /\ Len(d) = 1 /\ DOMAIN d = {1} /\ d[1] = K("needNoFile")
    BY <1>1, <2>1
  <2> HIDE DEF d
  <2>3. d[1].do = "needNoFile" /\ d[1].path = p /\ d # << >>
    <3>1. d[1].do = "needNoFile" /\ d[1].path = p
      BY <1>1, <2>2
    <3>2. d # << >>
      BY <2>2
    <3> QED  BY <3>1, <3>2
  <2>4. Scripted(d)
    BY <2>2, <2>3, ScriptedOne
  <2>5. Nested(d)
    BY <2>2 DEF Nested
  <2> QED  BY <1>4, <2>2, <2>3, <2>4, <2>5 DEF d
<1>5. CASE kind = "deleteFile"
  <2>1. d = <<K("needFile"), K("stillFile")>>
    BY <1>5 DEF CallsOf, K, DeleteFile
  <2>2. d \in Seq(AnyCall) /\ Len(d) = 2 /\ DOMAIN d = {1, 2}
        /\ d[1] = K("needFile") /\ d[2] = K("stillFile")
    BY <1>1, <2>1
  <2> HIDE DEF d
  <2>3. /\ d[1].do = "needFile" /\ d[1].path = p /\ d[2].do = "stillFile" /\ d[2].path = p /\ d # << >>
        /\ d[2] = Call("stillFile", d[1].path)
    <3>1. d[1].do = "needFile" /\ d[1].path = p /\ d[2].do = "stillFile" /\ d[2].path = p
      BY <1>1, <2>2
    <3>2. d # << >>
      BY <2>2
    <3>3. d[2] = Call("stillFile", p)
      BY <2>2 DEF K
    <3> QED  BY <3>1, <3>2, <3>3
  <2>4. Queued(d, 2)
    BY <2>2 DEF Queued
  <2>5. Scripted(d)
    BY <2>2, <2>3, <2>4, ScriptedTwo
  <2>6. Nested(d)
    BY <2>2, <2>3 DEF Nested
  <2> QED  BY <1>5, <2>2, <2>3, <2>5, <2>6 DEF d
<1> QED  BY <1>2, <1>3, <1>4, <1>5 DEF Requests

\* A request begins.
LEMMA ReceiveKeeps ==
  ASSUME ThreadInv, NEW t \in Worker, NEW kind \in Requests, NEW p \in Path, Receive(t, kind, p)
  PROVE  thread' \in [Thread -> ThreadState] /\ ThreadsAreScripted'
<1> DEFINE saw == [q \in Below(p) |-> Shown(q)]
           r == [kind |-> kind, path |-> p, todo |-> CallsOf(kind, p), saw |-> saw]
<1>1. thread \in [Thread -> ThreadState] /\ ThreadsAreScripted
  BY DEF ThreadInv, DriveTypes
<1>2. t \in Thread /\ Main \in Thread /\ Main \notin Worker /\ Worker \subseteq Thread
  BY ThreadAssumption DEF Thread
<1>3. p # Root /\ thread' = [thread EXCEPT ![t] = r] /\ thread[Main] = Idle
      /\ (Apart => \A u \in Worker : thread[u] # Idle => AreApart(p, thread[u].path))
  BY DEF Receive
<1>4. saw \in Seen
  <2>1. \A q : Shown(q) \in {"dir", "file", "none"}
    BY DEF Shown
  <2>2. saw \in [Below(p) -> {"dir", "file", "none"}]
    BY <2>1
  <2> HIDE DEF saw
  <2> QED  BY <2>2 DEF Seen
<1> HIDE DEF saw
<1>5. /\ CallsOf(kind, p) \in Seq(AnyCall) /\ Scripted(CallsOf(kind, p)) /\ Nested(CallsOf(kind, p))
      /\ \A i \in DOMAIN CallsOf(kind, p) : CallsOf(kind, p)[i].path = p
  BY <1>3, CallsAre
<1>6. r.kind = kind /\ r.path = p /\ r.todo = CallsOf(kind, p) /\ r \in ThreadState
  BY <1>4, <1>5 DEF ThreadState
<1> HIDE DEF r
<1>7. r # Idle /\ r.kind # "idle"
  <2>1. r.kind # "idle"
    BY <1>6 DEF Requests
  <2> QED  BY <2>1, IdleIs
<1>8. Orderly(r)
  BY <1>5, <1>6, <1>7, PrefixSelf DEF Orderly, Within
<1>9. thread'[t] = r /\ \A u \in Thread : u # t => thread'[u] = thread[u]
  BY <1>1, <1>2, <1>3
<1>10. thread' \in [Thread -> ThreadState]
  BY <1>1, <1>2, <1>3, <1>6
<1>11. \A u \in Thread : Orderly(thread'[u])
  BY <1>1, <1>8, <1>9 DEF ThreadsAreScripted
<1>12. \A u \in Worker : thread'[u] # Idle => thread'[u].path # Root
  BY <1>1, <1>2, <1>3, <1>6, <1>9 DEF ThreadsAreScripted
<1>13. thread'[Main] = Idle
  BY <1>2, <1>3, <1>9
<1>14. ASSUME Apart, NEW u \in Worker, NEW w \in Worker, u # w, thread'[u] # Idle, thread'[w] # Idle
       PROVE  AreApart(thread'[u].path, thread'[w].path)
  <2>1. CASE u = t
    BY <1>2, <1>3, <1>6, <1>9, <1>14, <2>1
  <2>2. CASE w = t
    <3>1. AreApart(p, thread[u].path)
      BY <1>2, <1>3, <1>9, <1>14, <2>2
    <3>2. AreApart(thread[u].path, p)
      BY <3>1 DEF AreApart
    <3> QED  BY <1>2, <1>6, <1>9, <1>14, <2>2, <3>2
  <2>3. CASE u # t /\ w # t
    BY <1>1, <1>2, <1>9, <1>14, <2>3 DEF ThreadsAreScripted
  <2> QED  BY <2>1, <2>2, <2>3
<1>15. ThreadsAreScripted'
  BY <1>11, <1>12, <1>13, <1>14 DEF ThreadsAreScripted
<1> QED  BY <1>10, <1>15

\* At the start, and when the process starts again.
Started == [t \in Thread |-> IF t = Main THEN Booting ELSE Idle]

LEMMA StartedKeeps ==
  ASSUME thread = Started
  PROVE  thread \in [Thread -> ThreadState] /\ ThreadsAreScripted
<1>1. Main \in Thread /\ Main \notin Worker /\ Worker \subseteq Thread
  BY ThreadAssumption DEF Thread
<1>2. thread \in [Thread -> ThreadState]
  BY IdleIs DEF Started
<1>3. thread[Main] = Booting /\ \A t \in Thread : t # Main => thread[t] = Idle
  BY <1>1 DEF Started
<1>4. Orderly(Idle)
  BY IdleIs, NoCalls DEF Orderly
<1> DEFINE d == Booting.todo
<1>5. d \in Seq(AnyCall) /\ Len(d) = 1 /\ DOMAIN d = {1} /\ d[1] = Call("ensureRoot", Root) /\ d # << >>
  BY IdleIs
<1>6. d[1].do = "ensureRoot" /\ d[1].path = Root
  BY <1>5 DEF Call
<1> HIDE DEF d
<1>7. Scripted(d)
  BY <1>5, <1>6, ScriptedOne
<1>8. Nested(d)
  BY <1>5 DEF Nested
<1>9. Orderly(Booting)
  BY <1>5, <1>6, <1>7, <1>8, IdleIs, PathType, PrefixSelf DEF Orderly, Within, d
<1>10. \A i \in DOMAIN thread[Main].todo : thread[Main].todo[i].path = Root
  BY <1>3, <1>5, <1>6 DEF d
<1>11. ThreadsAreScripted
  BY <1>1, <1>3, <1>4, <1>9, <1>10, IdleIs DEF ThreadsAreScripted
<1> QED  BY <1>2, <1>11

-----------------------------------------------------------------------------
(* The types of the store and of the bucket.                               *)

StoreTypes ==
  /\ dirs \subseteq Path
  /\ DOMAIN file = Path /\ \A p \in Path : file[p] = NoFile \/ file[p] \in KeysOf(p)
  /\ children \in [Path -> Seq(Names)] /\ \A p \in Path : NameChildren(p, children[p])
  /\ objects \subseteq Path \X (Nat \ {0}) /\ IsFiniteSet(objects)
  /\ late \subseteq {c \in AnyCall : c.do \in Writes} /\ IsFiniteSet(late)
  /\ late # {} => broken
  /\ faults \in Nat /\ broken \in BOOLEAN

LEMMA TypesAre ==
  DriveTypes <=> StoreTypes /\ thread \in [Thread -> ThreadState]
<1>1. ASSUME thread \in [Thread -> ThreadState], NEW t \in Thread, NEW c \in ToSet(thread[t].todo)
      PROVE  /\ c.path \in Path
             /\ c.object = NoFile \/ c.object \in {c.path} \X (Nat \ {0})
             /\ c.list \in Seq(Names)
  <2>1. thread[t].todo \in Seq(AnyCall)
    BY <1>1 DEF ThreadState
  <2>2. c \in AnyCall
    BY <2>1 DEF ToSet
  <2> QED  BY <2>2 DEF AnyCall, KeysOf
<1>2. ASSUME late \subseteq AnyCall, NEW c \in late
      PROVE  /\ c.path \in Path
             /\ c.object = NoFile \/ c.object \in {c.path} \X (Nat \ {0})
             /\ c.list \in Seq(Names)
  BY <1>2 DEF AnyCall, KeysOf
<1> QED  BY <1>1, <1>2 DEF DriveTypes, StoreTypes, TypeOK, KeysOf

LEMMA TypesPrimed ==
  StoreTypes' /\ (thread \in [Thread -> ThreadState])' => DriveTypes'
BY TypesAre, PTL

\* A step of a thread counts a failure or not, and leaves behind nothing or the put or
\* the call to S3 that it makes.
LEMMA StepLeaves ==
  ASSUME NEW t \in Thread, Step(t)
  PROVE  /\ faults' = faults \/ faults' = faults + 1
         /\ \/ late' = late /\ (broken' = broken \/ broken' = TRUE)
            \/ /\ \E do \in Writes : At(t, do)
               /\ late' = late \cup {This(t)} /\ broken' = TRUE
<1> DEFINE Goal == /\ faults' = faults \/ faults' = faults + 1
                   /\ \/ late' = late /\ (broken' = broken \/ broken' = TRUE)
                      \/ /\ \E do \in Writes : At(t, do)
                         /\ late' = late \cup {This(t)} /\ broken' = TRUE
<1> SUFFICES Goal
  OBVIOUS
<1>1. \A h : Counted(h) => Goal
  BY DEF Counted
<1>2. UNCHANGED <<faults, broken, late>> => Goal
  OBVIOUS
<1>3. ASSUME NEW do \in Writes, At(t, do), Leaves({This(t)}) PROVE Goal
  BY <1>3 DEF Leaves
<1>4. CASE \/ EnsureRoot(t) \/ NeedNoDir(t) \/ NeedDir(t) \/ NeedNoFile(t) \/ NeedFile(t)
           \/ StillDir(t) \/ StillFile(t) \/ VisitFile(t) \/ VisitDir(t) \/ Walk(t)
           \/ AddName(t) \/ DropName(t)
  <2>1. \E h \in Heard : Counted(h)
    BY <1>4 DEF EnsureRoot, NeedNoDir, NeedDir, NeedNoFile, NeedFile, StillDir, StillFile,
       VisitFile, VisitDir, Walk, AddName, DropName, GetDir, GetFile, GetChildren
  <2> HIDE DEF Goal
  <2> QED  BY <1>1, <2>1
<1>5. CASE PutDir(t) \/ ClearDir(t) \/ PutFile(t) \/ ClearFile(t) \/ PutNames(t)
  <2>1. /\ \E do \in Writes : At(t, do)
        /\ UNCHANGED <<faults, broken, late>> \/ Leaves({This(t)})
    BY <1>5 DEF PutDir, ClearDir, PutFile, ClearFile, PutNames, Put, Writes, Puts
  <2> HIDE DEF Goal
  <2> QED  BY <1>2, <1>3, <2>1
<1>6. CASE PutObject(t) \/ DropObject(t) \/ Done(t)
  BY <1>2, <1>6 DEF PutObject, DropObject, Done
<1>7. CASE S3Error(t)
  <2>1. \E do \in Writes : At(t, do)
    BY <1>7 DEF S3Error, Writes
  <2>2. Leaves({This(t)}) \/ (faults' = faults + 1 /\ UNCHANGED <<broken, late>>)
    BY <1>7 DEF S3Error
  <2>3. faults' = faults + 1 /\ UNCHANGED <<broken, late>> => Goal
    OBVIOUS
  <2> HIDE DEF Goal
  <2> QED  BY <1>3, <2>1, <2>2, <2>3
<1> QED  BY <1>4, <1>5, <1>6, <1>7 DEF Step

LEMMA StoreStep ==
  ASSUME DriveTypes, NEW t \in Thread, Step(t)
  PROVE  StoreTypes'
<1>1. StoreTypes
  BY TypesAre
<1>2. /\ faults' \in Nat /\ broken' \in BOOLEAN
      /\ late' \subseteq {c \in AnyCall : c.do \in Writes} /\ IsFiniteSet(late')
      /\ late' # {} => broken'
  <2>1. /\ faults \in Nat /\ broken \in BOOLEAN /\ IsFiniteSet(late)
        /\ late \subseteq {c \in AnyCall : c.do \in Writes} /\ (late # {} => broken)
    BY <1>1 DEF StoreTypes
  <2>2. faults' \in Nat
    <3>1. faults' = faults \/ faults' = faults + 1
      BY StepLeaves
    <3> QED  BY <2>1, <3>1
  <2>3. CASE late' = late /\ (broken' = broken \/ broken' = TRUE)
    BY <2>1, <2>2, <2>3
  <2>4. ASSUME NEW do \in Writes, At(t, do), late' = late \cup {This(t)}, broken' = TRUE
        PROVE  /\ faults' \in Nat /\ broken' \in BOOLEAN
               /\ late' \subseteq {c \in AnyCall : c.do \in Writes} /\ IsFiniteSet(late')
               /\ late' # {} => broken'
    <3>1. This(t) \in AnyCall /\ This(t).do \in Writes
      BY <2>4, TodoIs DEF At, This
    <3>2. IsFiniteSet(late \cup {This(t)})
      BY <2>1, FS_AddElement
    <3> QED  BY <2>1, <2>2, <2>4, <3>1, <3>2
  <2> QED  BY <2>3, <2>4, StepLeaves
<1>3. \A do : At(t, do) => /\ PathOf(t) \in Path /\ This(t) \in AnyCall /\ PathOf(t) = This(t).path
                           /\ This(t).do = do
  <2>1. \A do : At(t, do) => thread[t].todo # << >>
    BY DEF At
  <2> QED  BY <2>1, TodoIs DEF At, This, PathOf
<1>4. CASE UNCHANGED <<storeVars, objects>>
  BY <1>1, <1>2, <1>4 DEF StoreTypes, storeVars
<1>5. CASE UNCHANGED storeVars /\ \E o \in Path \X (Nat \ {0}) : objects' \in {objects \cup {o}, objects \ {o}, objects}
  <2>1. PICK o \in Path \X (Nat \ {0}) : objects' \in {objects \cup {o}, objects \ {o}, objects}
    BY <1>5
  <2>2. objects' \subseteq Path \X (Nat \ {0})
    BY <1>1, <2>1 DEF StoreTypes
  <2>3. IsFiniteSet(objects \cup {o}) /\ IsFiniteSet(objects \ {o})
    BY <1>1, FS_AddElement, FS_RemoveElement DEF StoreTypes
  <2> QED  BY <1>1, <1>2, <1>5, <2>1, <2>2, <2>3 DEF StoreTypes, storeVars
<1>6. CASE \/ EnsureRoot(t) \/ NeedNoDir(t) \/ NeedDir(t) \/ NeedNoFile(t) \/ NeedFile(t)
           \/ StillDir(t) \/ StillFile(t) \/ VisitFile(t) \/ VisitDir(t) \/ Walk(t)
           \/ AddName(t) \/ DropName(t) \/ S3Error(t) \/ Done(t)
  BY <1>4, <1>6 DEF EnsureRoot, NeedNoDir, NeedDir, NeedNoFile, NeedFile, StillDir, StillFile,
     VisitFile, VisitDir, Walk, AddName, DropName, S3Error, Done, GetDir, GetFile, GetChildren
<1>7. CASE PutObject(t)
  <2>1. This(t).object \in Path \X (Nat \ {0})
    BY <1>3, <1>7 DEF PutObject, AnyCall
  <2> QED  BY <1>5, <1>7, <2>1 DEF PutObject
<1>8. CASE DropObject(t)
  <2>1. This(t).object \in Path \X (Nat \ {0}) \/ This(t).object = NoFile
    BY <1>3, <1>8 DEF DropObject, AnyCall
  <2>2. UNCHANGED storeVars /\ objects' = objects \ {This(t).object}
    BY <1>8 DEF DropObject
  <2>3. NoFile \notin objects
    BY <1>1, KeyAssumption DEF StoreTypes
  <2>4. CASE This(t).object \in Path \X (Nat \ {0})
    BY <1>5, <2>2, <2>4
  <2>5. CASE This(t).object = NoFile
    BY <1>4, <2>2, <2>3, <2>5
  <2> QED  BY <2>1, <2>4, <2>5
<1>9. CASE PutDir(t) \/ ClearDir(t)
  <2>1. /\ PathOf(t) \in Path /\ dirs' \subseteq dirs \cup {PathOf(t)}
        /\ UNCHANGED <<file, children, objects>>
    BY <1>3, <1>9 DEF PutDir, ClearDir, Put, storeVars
  <2> QED  BY <1>1, <1>2, <2>1 DEF StoreTypes
<1>10. CASE PutFile(t) \/ ClearFile(t)
  <2>1. PICK p \in Path : \E o \in {NoFile} \cup KeysOf(p) :
          /\ file' = file \/ file' = [file EXCEPT ![p] = o]
          /\ UNCHANGED <<dirs, children, objects>>
    <3>1. This(t).object \in {NoFile} \cup KeysOf(PathOf(t)) /\ PathOf(t) \in Path
      BY <1>3, <1>10 DEF PutFile, ClearFile, Put, AnyCall
    <3> QED  BY <1>10, <3>1 DEF PutFile, ClearFile, Put, storeVars
  <2>2. DOMAIN file' = Path /\ \A q \in Path : file'[q] = NoFile \/ file'[q] \in KeysOf(q)
    BY <1>1, <2>1 DEF StoreTypes
  <2> QED  BY <1>1, <1>2, <2>1, <2>2 DEF StoreTypes
<1>11. CASE PutNames(t)
  <2>1. PICK p \in Path : \E l \in Seq(Names) :
          /\ NameChildren(p, l)
          /\ children' = children \/ children' = [children EXCEPT ![p] = l]
          /\ UNCHANGED <<dirs, file, objects>>
    <3>1. This(t).list \in Seq(Names) /\ NameChildren(PathOf(t), This(t).list) /\ PathOf(t) \in Path
      BY <1>3, <1>11 DEF PutNames, Put, AnyCall
    <3> QED  BY <1>11, <3>1 DEF PutNames, Put, storeVars
  <2>2. children' \in [Path -> Seq(Names)] /\ \A q \in Path : NameChildren(q, children'[q])
    BY <1>1, <2>1 DEF StoreTypes
  <2> QED  BY <1>1, <1>2, <2>1, <2>2 DEF StoreTypes
<1> QED  BY <1>6, <1>7, <1>8, <1>9, <1>10, <1>11 DEF Step

-----------------------------------------------------------------------------
(* What threads hold, and in which order.                                  *)

LEMMA StartedPrimed ==
  (thread = Started)' => (thread \in [Thread -> ThreadState] /\ ThreadsAreScripted)'
<1>1. thread = Started => thread \in [Thread -> ThreadState] /\ ThreadsAreScripted
  BY StartedKeeps
<1> QED  BY <1>1, PTL

LEMMA ThreadInvStart == ASSUME Init PROVE ThreadInv
<1>1. StoreTypes
  <2>1. << >> \in Seq(Names) /\ \A p : NameChildren(p, << >>)
    BY DEF NameChildren
  <2>2. IsFiniteSet({})
    BY FS_EmptySet
  <2> QED  BY <2>1, <2>2 DEF Init, StoreTypes
<1>2. thread = Started
  BY DEF Init, Started
<1> QED  BY <1>1, <1>2, StartedKeeps, TypesAre DEF ThreadInv

\* A call that takes effect late does to the store and to the bucket what its types
\* allow, and nothing to threads.
LEMMA LandTypes == ASSUME StoreTypes, NEW c \in late, Land(c) PROVE StoreTypes'
<1>1. /\ c \in AnyCall /\ c.do \in Writes /\ c.path \in Path /\ c.list \in Seq(Names)
      /\ c.object = NoFile \/ c.object \in KeysOf(c.path)
      /\ NameChildren(c.path, c.list) /\ (c.do = "putObject" => c.object # NoFile)
  BY DEF StoreTypes, AnyCall
<1>2. faults' \in Nat /\ UNCHANGED <<late, broken>>
  BY DEF Land, StoreTypes
<1>3. CASE dirs' \in {dirs \cup {c.path}, dirs \ {c.path}} /\ UNCHANGED <<file, children, objects>>
  BY <1>1, <1>2, <1>3 DEF StoreTypes
<1>4. CASE /\ \E o \in {c.object, NoFile} : file' = [file EXCEPT ![c.path] = o]
           /\ UNCHANGED <<dirs, children, objects>>
  <2>1. DOMAIN file' = Path /\ \A q \in Path : file'[q] = NoFile \/ file'[q] \in KeysOf(q)
    BY <1>1, <1>4 DEF StoreTypes
  <2> QED  BY <1>2, <1>4, <2>1 DEF StoreTypes
<1>5. CASE children' = [children EXCEPT ![c.path] = c.list] /\ UNCHANGED <<dirs, file, objects>>
  <2>1. children' \in [Path -> Seq(Names)] /\ \A q \in Path : NameChildren(q, children'[q])
    BY <1>1, <1>5 DEF StoreTypes
  <2> QED  BY <1>2, <1>5, <2>1 DEF StoreTypes
<1>6. CASE /\ \/ c.do = "putObject" /\ objects' = objects \cup {c.object}
              \/ objects' = objects \ {c.object}
           /\ UNCHANGED <<dirs, file, children>>
  <2>1. c.do = "putObject" => c.object \in Path \X (Nat \ {0})
    BY <1>1 DEF KeysOf
  <2>2. objects' \subseteq Path \X (Nat \ {0})
    BY <1>6, <2>1 DEF StoreTypes
  <2>3. IsFiniteSet(objects \cup {c.object}) /\ IsFiniteSet(objects \ {c.object})
    BY FS_AddElement, FS_RemoveElement DEF StoreTypes
  <2>4. IsFiniteSet(objects')
    BY <1>6, <2>3
  <2> QED  BY <1>2, <1>6, <2>2, <2>4 DEF StoreTypes
<1> QED  BY <1>3, <1>4, <1>5, <1>6 DEF Land, storeVars

\* A restart leaves the calls that were sent to take effect late.
LEMMA RestartTypes == ASSUME StoreTypes, DriveTypes, Restart PROVE StoreTypes'
<1>1. PICK sent \in SUBSET {This(t) : t \in AtWork} :
        /\ late' = late \cup sent
        /\ broken' = (broken \/ sent # {} \/ \E t \in Worker : thread[t] # Idle)
  BY DEF Restart
<1>2. ASSUME NEW c \in sent PROVE c \in AnyCall /\ c.do \in Writes
  <2>1. PICK t \in AtWork : c = This(t)
    OBVIOUS
  <2>2. PICK do \in Writes : At(t, do)
    BY DEF AtWork
  <2>3. t \in Thread /\ thread[t].todo # << >>
    BY <2>2 DEF At, AtWork
  <2> QED  BY <2>1, <2>2, <2>3, TodoIs
<1>3. IsFiniteSet(sent)
  <2> DEFINE f == [t \in Thread |-> This(t)]
  <2>1. IsFiniteSet(Thread)
    BY ThreadAssumption, FS_AddElement DEF Thread
  <2>2. DOMAIN f = Thread /\ sent \subseteq {f[t] : t \in Thread}
    BY DEF AtWork
  <2> HIDE DEF f
  <2>3. IsFiniteSet({f[t] : t \in Thread})
    BY <2>1, <2>2, FiniteImage
  <2> QED  BY <2>2, <2>3, FS_Subset
<1>4. IsFiniteSet(late \cup sent)
  BY <1>3, FS_Union DEF StoreTypes
<1>5. /\ faults' \in Nat /\ broken' \in BOOLEAN
      /\ late' \subseteq {c \in AnyCall : c.do \in Writes} /\ IsFiniteSet(late')
      /\ late' # {} => broken'
  <2>1. faults' \in Nat
    BY DEF Restart, StoreTypes
  <2>2. broken' \in BOOLEAN /\ (late' # {} => broken')
    BY <1>1 DEF StoreTypes
  <2>3. late' \subseteq {c \in AnyCall : c.do \in Writes} /\ IsFiniteSet(late')
    BY <1>1, <1>2, <1>4 DEF StoreTypes
  <2> QED  BY <2>1, <2>2, <2>3
<1>6. UNCHANGED <<dirs, file, children, objects>>
  BY DEF Restart, storeVars
<1> QED  BY <1>5, <1>6 DEF StoreTypes

LEMMA ThreadInvStep == ASSUME ThreadInv, [Next]_vars PROVE ThreadInv'
<1>1. StoreTypes /\ DriveTypes
  BY TypesAre DEF ThreadInv
<1>2. CASE UNCHANGED vars
  BY <1>2 DEF vars, storeVars, ThreadInv, DriveTypes, TypeOK, ThreadsAreScripted
<1>3. ASSUME NEW t \in Thread, Step(t) PROVE ThreadInv'
  BY <1>1, <1>3, StepAdvances, AdvanceKeeps, StoreStep, TypesPrimed DEF ThreadInv
<1>4. ASSUME NEW t \in Worker, NEW kind \in Requests, NEW p \in Path, Receive(t, kind, p)
      PROVE  ThreadInv'
  <2>1. StoreTypes'
    BY <1>1, <1>4 DEF Receive, StoreTypes, storeVars
  <2>2. thread' \in [Thread -> ThreadState] /\ ThreadsAreScripted'
    BY <1>4, ReceiveKeeps
  <2> QED  BY <2>1, <2>2, TypesPrimed DEF ThreadInv
<1>5. CASE Restart
  <2>1. StoreTypes'
    BY <1>1, <1>5, RestartTypes
  <2>2. thread' = Started
    BY <1>5 DEF Restart, Started
  <2>3. thread' \in [Thread -> ThreadState] /\ ThreadsAreScripted'
    BY <2>2, StartedPrimed
  <2> QED  BY <2>1, <2>3, TypesPrimed DEF ThreadInv
<1>6. ASSUME NEW c \in late, Land(c) PROVE ThreadInv'
  <2>1. StoreTypes'
    BY <1>1, <1>6, LandTypes
  <2>2. UNCHANGED thread
    BY <1>6 DEF Land
  <2>3. thread' \in [Thread -> ThreadState] /\ ThreadsAreScripted'
    BY <2>2 DEF ThreadInv, DriveTypes, ThreadsAreScripted
  <2> QED  BY <2>1, <2>3, TypesPrimed DEF ThreadInv
<1> QED  BY <1>2, <1>3, <1>4, <1>5, <1>6 DEF Next

\* Every value in the store, in the bucket and in a thread has its type, and every
\* thread makes the calls of its request in their order (service_fs.cpp,
\* service_metadata.cpp), in every reachable state.
THEOREM DriveType == Spec => []TypeOK
<1>1. Init => ThreadInv
  BY ThreadInvStart
<1>2. ThreadInv /\ [Next]_vars => ThreadInv'
  BY ThreadInvStep
<1>3. ThreadInv => TypeOK
  BY DEF ThreadInv, DriveTypes
<1> QED  BY <1>1, <1>2, <1>3, PTL DEF Spec

-----------------------------------------------------------------------------
(* Requests in flight do not meet.                                         *)

LEMMA ApartPaths ==
  ASSUME NEW P \in Path \ {Root}, NEW Q \in Path \ {Root}, AreApart(P, Q),
         NEW p \in Path, NEW q \in Path, IsPrefix(P, p), IsPrefix(Q, q)
  PROVE  /\ ~IsPrefix(p, q) /\ ~IsPrefix(q, p) /\ p # q /\ p # Root /\ q # Root
         /\ p # Parent(q) /\ q # Parent(p) /\ Parent(p) # Parent(q)
<1>1. Parent(P) # Parent(Q) /\ ~IsPrefix(P, Q) /\ ~IsPrefix(Q, P)
  BY DEF AreApart
<1>2. ASSUME NEW x \in Path, IsPrefix(P, x), IsPrefix(Q, x) PROVE FALSE
  BY <1>1, <1>2, PrefixesCompare
<1>3. p # Root /\ q # Root
  <2>1. ASSUME NEW x \in Path, NEW X \in Path \ {Root}, IsPrefix(X, x) PROVE x # Root
    <3>1. CASE X = x
      BY <3>1
    <3>2. CASE X # x
      BY <2>1, <3>2, AboveParent
    <3> QED  BY <3>1, <3>2
  <2> QED  BY <2>1
<1>4. Parent(p) \in Path /\ Parent(q) \in Path /\ Parent(P) \in Path /\ Parent(Q) \in Path
  BY <1>3, PathType
<1>5. Parent(p) = Parent(P) \/ IsPrefix(P, Parent(p))
  BY AboveParent
<1>6. Parent(q) = Parent(Q) \/ IsPrefix(Q, Parent(q))
  BY AboveParent
<1>7. IsPrefix(Parent(P), P) /\ IsPrefix(Parent(Q), Q)
  BY ParentAbove
<1>8. ~IsPrefix(p, q) /\ ~IsPrefix(q, p)
  BY <1>2, PrefixThrough
<1>9. p # q
  BY <1>2
<1>10. p # Parent(q)
  <2> SUFFICES ASSUME p = Parent(q) PROVE FALSE
    OBVIOUS
  <2>1. CASE Parent(q) = Parent(Q)
    BY <1>1, <1>4, <1>7, <2>1, PrefixThrough
  <2>2. CASE IsPrefix(Q, Parent(q))
    BY <1>2, <2>2
  <2> QED  BY <1>6, <2>1, <2>2
<1>11. q # Parent(p)
  <2> SUFFICES ASSUME q = Parent(p) PROVE FALSE
    OBVIOUS
  <2>1. CASE Parent(p) = Parent(P)
    BY <1>1, <1>4, <1>7, <2>1, PrefixThrough
  <2>2. CASE IsPrefix(P, Parent(p))
    BY <1>2, <2>2
  <2> QED  BY <1>5, <2>1, <2>2
<1>12. Parent(p) # Parent(q)
  <2> SUFFICES ASSUME Parent(p) = Parent(q) PROVE FALSE
    OBVIOUS
  <2>1. CASE Parent(p) = Parent(P) /\ IsPrefix(Q, Parent(q))
    BY <1>1, <1>4, <1>7, <2>1, PrefixThrough
  <2>2. CASE IsPrefix(P, Parent(p)) /\ Parent(q) = Parent(Q)
    BY <1>1, <1>4, <1>7, <2>2, PrefixThrough
  <2>3. CASE IsPrefix(P, Parent(p)) /\ IsPrefix(Q, Parent(q))
    BY <1>2, <1>4, <2>3
  <2>4. CASE Parent(p) = Parent(P) /\ Parent(q) = Parent(Q)
    BY <1>1, <2>4
  <2> QED  BY <1>5, <1>6, <2>1, <2>2, <2>3, <2>4
<1> QED  BY <1>3, <1>8, <1>9, <1>10, <1>11, <1>12

Busy(t) == thread[t].todo # << >>

LEMMA ApartThreads ==
  ASSUME Apart, ThreadInv, NEW t \in Thread, NEW u \in Thread, t # u, Busy(t), Busy(u)
  PROVE  /\ t \in Worker /\ u \in Worker /\ AreApart(thread[t].path, thread[u].path)
         /\ thread[t].path \in Path \ {Root} /\ thread[u].path \in Path \ {Root}
<1>1. ThreadsAreScripted /\ thread \in [Thread -> ThreadState]
  BY DEF ThreadInv, DriveTypes
<1>2. thread[t] # Idle /\ thread[u] # Idle
  BY IdleIs DEF Busy
<1>3. t \in Worker /\ u \in Worker
  BY <1>1, <1>2 DEF ThreadsAreScripted, Thread
<1> QED  BY <1>1, <1>2, <1>3 DEF ThreadsAreScripted, ThreadState

\* Where the calls of a busy thread are.
LEMMA CallWithin ==
  ASSUME ThreadInv, NEW t \in Thread, NEW i \in DOMAIN thread[t].todo
  PROVE  /\ Within(thread[t].path, thread[t].todo[i]) /\ thread[t].todo[i] \in AnyCall
         /\ thread[t].todo[i].path \in Path /\ thread[t].path \in Path
         /\ thread[t].todo \in Seq(AnyCall) /\ Scripted(thread[t].todo) /\ Nested(thread[t].todo)
<1>1. thread[t].todo \in Seq(AnyCall) /\ thread[t].path \in Path
  BY DEF ThreadInv, DriveTypes, ThreadState
<1>2. Orderly(thread[t])
  BY DEF ThreadInv, ThreadsAreScripted
<1>3. thread[t].todo[i] \in AnyCall
  BY <1>1
<1> QED  BY <1>1, <1>2, <1>3 DEF Orderly, AnyCall

LEMMA SecondIs ==
  ASSUME NEW d \in Seq(AnyCall), Scripted(d), Len(d) >= 2
  PROVE  LET c == d[1]  b == d[2]  p == d[1].path
         IN /\ c.do \notin {"ensureRoot", "addName", "needNoFile"}
            /\ c.do = "needNoDir" => b = Call("putDir", p)
            /\ c.do = "putDir" => b = Call("putList", p)
            /\ c.do = "putObject" => b = With(c.object, "putFile", p)
            /\ c.do = "putFile" => b = Call("addName", p)
            /\ c.do = "putList" => \/ c.list = << >> /\ b \in {Call("addName", p), Call("dropName", p)}
                                   \/ b.do \in {"visitFile", "stillDir"}
            /\ c.do \in {"needFile", "dropObject"} => b = Call("stillFile", p)
            /\ c.do = "clearFile" => b = Call("dropName", p)
            /\ c.do = "needDir" => b = Call("walk", p)
            /\ c.do = "walk" => b = Call("stillDir", p)
            /\ c.do = "clearDir" => b = Call("putList", p)
            /\ c.do \in {"stillFile", "stillDir", "visitFile", "visitDir", "dropName"} =>
                 b.do \in {"visitFile", "stillDir"}
<1> DEFINE c == d[1]
           b == d[2]
           p == d[1].path
<1>0. d # << >> /\ Len(d) # 1 /\ 1 \in DOMAIN d /\ 2 \in DOMAIN d
  OBVIOUS
<1>1. \A a : ~Ends(d, <<a>>)
  BY <1>0, ShapeIs
<1>2. \A a : Continues(d, <<a>>) => b.do \in {"visitFile", "stillDir"}
  BY <1>0, ShapeIs DEF Queued
<1>3. \A a, x : Continues(d, <<a, x>>) \/ Ends(d, <<a, x>>) => b = x
  BY ShapeIs
<1>4. \A a, x, y : Continues(d, <<a, x, y>>) \/ Ends(d, <<a, x, y>>) => b = x
  BY ShapeIs
<1>5. \A a, x, y, z : Ends(d, <<a, x, y, z>>) => b = x
  BY ShapeIs
<1>6. c \in AnyCall
  BY <1>0
<1>7. p # Root \/ c.do \in {"ensureRoot", "putDir", "putList"}
  BY <1>6 DEF AnyCall
<1> HIDE DEF b
<1>8. c.do = "needNoDir" => b = Call("putDir", p)
  BY <1>0, <1>5, <1>7, MakeDirIs DEF Scripted
<1>9. c.do = "putDir" => b = Call("putList", p)
  BY <1>0, <1>3, <1>4, MakeDirIs DEF Scripted
<1>10. c.do = "putObject" => b = With(c.object, "putFile", p)
  BY <1>0, <1>4, <1>7, MakeDirIs DEF Scripted
<1>11. c.do = "needDir" => b = Call("walk", p)
  BY <1>0, <1>4 DEF Scripted, DeleteDir
<1>12. c.do = "clearDir" => b = Call("putList", p)
  BY <1>0, <1>4 DEF Scripted
<1>13. /\ c.do = "putFile" => b = Call("addName", p)
       /\ c.do \in {"needFile", "dropObject"} => b = Call("stillFile", p)
       /\ c.do = "clearFile" => b = Call("dropName", p)
       /\ c.do = "walk" => b = Call("stillDir", p)
  BY <1>0, <1>3 DEF Scripted
<1>14. c.do = "putList" => \/ c.list = << >> /\ b \in {Call("addName", p), Call("dropName", p)}
                           \/ b.do \in {"visitFile", "stillDir"}
  BY <1>0, <1>2, <1>3 DEF Scripted
<1>15. c.do \in {"stillFile", "stillDir", "visitFile", "visitDir", "dropName"} =>
         b.do \in {"visitFile", "stillDir"}
  BY <1>0, <1>2 DEF Scripted
<1>16. c.do \notin {"ensureRoot", "addName", "needNoFile"}
  BY <1>0, <1>1 DEF Scripted
<1> QED  BY <1>8, <1>9, <1>10, <1>11, <1>12, <1>13, <1>14, <1>15, <1>16 DEF b

-----------------------------------------------------------------------------
(* Steps of which every call is answered.                                  *)

\* The store answers every call of this step.
Answered == ~broken' \/ "silent" \notin Faults

LEMMA ToldAll ==
  ASSUME Answered, NEW t \in Thread
  PROVE  /\ \A do, x, y : GetDir(t, do, x, y) =>
              /\ At(t, do) /\ broken' = broken /\ UNCHANGED <<dirs, file, children, objects>>
              /\ thread' = [thread EXCEPT ![t] = IF PathOf(t) \in dirs THEN x ELSE y]
         /\ \A do, x, y : GetFile(t, do, x, y) =>
              /\ At(t, do) /\ broken' = broken /\ UNCHANGED <<dirs, file, children, objects>>
              /\ thread' = [thread EXCEPT ![t] = IF file[PathOf(t)] # NoFile THEN x ELSE y]
         /\ \A do, x, y : GetChildren(t, do, x, y) =>
              /\ At(t, do) /\ broken' = broken /\ UNCHANGED <<dirs, file, children, objects>>
              /\ Goes(t, x)
         /\ \A do, nd, nf, nc : Put(t, do, nd, nf, nc) =>
              /\ At(t, do) /\ (broken' = broken \/ broken' = TRUE) /\ dirs' = nd /\ file' = nf /\ children' = nc
              /\ objects' = objects /\ Goes(t, << >>)
<1>1. \A h \in Heard : Counted(h) => h = TRUE /\ broken' = broken
  <2> SUFFICES ASSUME NEW h \in Heard, Counted(h) PROVE h = TRUE /\ broken' = broken
    OBVIOUS
  <2>1. h = TRUE \/ h = FALSE
    BY DEF Heard
  <2>2. h # FALSE
    BY DEF Counted, Answered, Heard, MayFail
  <2> QED  BY <2>1, <2>2 DEF Counted
<1>2. UNCHANGED <<storeVars, objects>> => UNCHANGED <<dirs, file, children, objects>>
  BY DEF storeVars
<1>3. ASSUME NEW do, NEW x, NEW y, GetDir(t, do, x, y)
      PROVE  /\ At(t, do) /\ broken' = broken /\ UNCHANGED <<dirs, file, children, objects>>
             /\ thread' = [thread EXCEPT ![t] = IF PathOf(t) \in dirs THEN x ELSE y]
  BY <1>1, <1>2, <1>3 DEF GetDir
<1>4. ASSUME NEW do, NEW x, NEW y, GetFile(t, do, x, y)
      PROVE  /\ At(t, do) /\ broken' = broken /\ UNCHANGED <<dirs, file, children, objects>>
             /\ thread' = [thread EXCEPT ![t] = IF file[PathOf(t)] # NoFile THEN x ELSE y]
  BY <1>1, <1>2, <1>4 DEF GetFile
<1>5. ASSUME NEW do, NEW x, NEW y, GetChildren(t, do, x, y)
      PROVE  /\ At(t, do) /\ broken' = broken /\ UNCHANGED <<dirs, file, children, objects>>
             /\ Goes(t, x)
  BY <1>1, <1>2, <1>5 DEF GetChildren
<1>6. ASSUME NEW do, NEW nd, NEW nf, NEW nc, Put(t, do, nd, nf, nc)
      PROVE  /\ At(t, do) /\ (broken' = broken \/ broken' = TRUE)
             /\ dirs' = nd /\ file' = nf /\ children' = nc
             /\ objects' = objects /\ Goes(t, << >>)
  <2>1. ~(MayFail("silent") /\ Leaves({This(t)}))
    BY DEF Answered, MayFail, Leaves
  <2>2. UNCHANGED broken \/ broken' = TRUE
    BY <1>6, <2>1 DEF Put, Leaves
  <2> QED  BY <1>6, <2>1, <2>2 DEF Put
<1> QED  BY <1>3, <1>4, <1>5, <1>6

LEMMA Told ==
  ASSUME ~broken', NEW t \in Thread
  PROVE  /\ \A do, x, y : GetDir(t, do, x, y) =>
              /\ At(t, do) /\ ~broken /\ UNCHANGED <<dirs, file, children, objects>>
              /\ thread' = [thread EXCEPT ![t] = IF PathOf(t) \in dirs THEN x ELSE y]
         /\ \A do, x, y : GetFile(t, do, x, y) =>
              /\ At(t, do) /\ ~broken /\ UNCHANGED <<dirs, file, children, objects>>
              /\ thread' = [thread EXCEPT ![t] = IF file[PathOf(t)] # NoFile THEN x ELSE y]
         /\ \A do, x, y : GetChildren(t, do, x, y) =>
              /\ At(t, do) /\ ~broken /\ UNCHANGED <<dirs, file, children, objects>>
              /\ Goes(t, x)
         /\ \A do, nd, nf, nc : Put(t, do, nd, nf, nc) =>
              /\ At(t, do) /\ ~broken /\ dirs' = nd /\ file' = nf /\ children' = nc
              /\ objects' = objects /\ Goes(t, << >>)
<1>1. Answered
  BY DEF Answered
<1> QED  BY <1>1, ToldAll

\* The thread of t after it goes on with cs.
LEMMA GoesIs ==
  ASSUME ThreadInv, NEW t \in Thread, Busy(t), NEW cs \in Seq(AnyCall),
         thread' = [thread EXCEPT ![t] = Going(t, cs)]
  PROVE  LET d == thread[t].todo
             n == thread'[t].todo
         IN /\ n = cs \o Tail(d) /\ n \in Seq(AnyCall) /\ d \in Seq(AnyCall)
            /\ Len(n) = Len(cs) + Len(d) - 1 /\ Len(d) \in Nat /\ Len(d) >= 1
            /\ cs # << >> => n # << >> /\ n[1] = cs[1]
            /\ cs = << >> /\ n # << >> => Len(d) >= 2 /\ n[1] = d[2]
            /\ thread'[t].path = thread[t].path /\ thread'[t].kind = thread[t].kind
            /\ thread'[t].saw = thread[t].saw
            /\ \A u \in Thread : u # t => thread'[u] = thread[u]
<1>1. thread \in [Thread -> ThreadState]
  BY DEF ThreadInv, DriveTypes
<1>2. PICK r \in ThreadState : r = thread[t]
  BY <1>1
<1>3. thread'[t] = [r EXCEPT !.todo = cs \o Tail(@)]
  BY <1>1, <1>2 DEF Going
<1>4. thread'[t].todo = cs \o Tail(r.todo) /\ thread'[t].path = r.path /\ thread'[t].kind = r.kind
      /\ thread'[t].saw = r.saw
  BY <1>3 DEF ThreadState
<1> DEFINE d == r.todo
           n == cs \o Tail(d)
<1>5. d \in Seq(AnyCall) /\ d # << >>
  BY <1>2 DEF ThreadState, Busy
<1>6. /\ n \in Seq(AnyCall) /\ Len(n) = Len(cs) + Len(d) - 1 /\ Len(cs) \in Nat /\ Len(d) \in Nat \ {0}
      /\ \A i \in 1 .. Len(cs) : n[i] = cs[i]
      /\ \A i \in 2 .. Len(d) : n[Len(cs) + i - 1] = d[i]
  BY <1>5, GoingOn
<1> HIDE DEF n, d
<1>7. cs # << >> => n # << >> /\ n[1] = cs[1]
  <2> SUFFICES ASSUME cs # << >> PROVE n # << >> /\ n[1] = cs[1]
    OBVIOUS
  <2>1. Len(cs) >= 1
    BY <1>6
  <2>2. n[1] = cs[1] /\ Len(n) >= 1
    BY <1>6, <2>1
  <2> QED  BY <1>6, <2>2
<1>8. cs = << >> /\ n # << >> => Len(d) >= 2 /\ n[1] = d[2]
  <2> SUFFICES ASSUME cs = << >>, n # << >> PROVE Len(d) >= 2 /\ n[1] = d[2]
    OBVIOUS
  <2>1. Len(cs) = 0
    OBVIOUS
  <2>2. Len(n) # 0
    BY <1>6
  <2>3. Len(d) >= 2 /\ 2 \in 2 .. Len(d) /\ Len(cs) + 2 - 1 = 1
    BY <1>6, <2>1, <2>2
  <2> QED  BY <1>6, <2>3
<1>9. \A u \in Thread : u # t => thread'[u] = thread[u]
  BY <1>1
<1>10. Len(n) = Len(cs) + Len(d) - 1 /\ Len(d) \in Nat /\ Len(d) >= 1
  BY <1>6
<1> QED  BY <1>2, <1>4, <1>5, <1>6, <1>7, <1>8, <1>9, <1>10 DEF n, d

\* The first of the calls that come after a call.
LEMMA AnswerHead ==
  ASSUME NEW c \in AnyCall, NEW cs, Answer(c, cs), cs # << >>
  PROVE  /\ c.do = "ensureRoot" => cs[1] = Call("putDir", c.path)
         /\ c.do = "visitDir" => cs[1] = Call("needDir", c.path)
         /\ c.do = "stillDir" => cs[1] = Call("clearDir", c.path)
         /\ c.do = "stillFile" => cs[1] = Call("clearFile", c.path)
         /\ c.do = "needNoFile" => cs[1].do = "putObject"
         /\ c.do = "needFile" => cs[1].do = "dropObject"
         /\ c.do = "visitFile" => cs[1] \in {Call("needFile", c.path), Call("visitDir", c.path)}
         /\ c.do = "walk" => cs[1].do = "visitFile"
         /\ c.do \in {"addName", "dropName"} => cs[1].do = "putList"
         /\ c.do \in {"ensureRoot", "visitDir", "stillDir", "stillFile", "needNoFile", "needFile",
                      "visitFile", "walk", "addName", "dropName"}
<1> DEFINE p == c.path
<1>1. p \in Path /\ (p = Root => c.do \in {"ensureRoot", "putDir", "putList"})
      /\ (c.do = "ensureRoot" => p = Root)
  BY DEF AnyCall
<1>2. c.do = "ensureRoot" => cs[1] = Call("putDir", p)
  BY <1>1, MakeDirIs DEF Answer
<1>3. c.do = "needNoFile" => cs[1].do = "putObject"
  <2> SUFFICES ASSUME c.do = "needNoFile" PROVE cs[1].do = "putObject"
    OBVIOUS
  <2>1. PICK o : cs = Store(p, o)
    BY DEF Answer
  <2>2. cs = <<With(o, "putObject", p), With(o, "putFile", p), Call("addName", p)>>
    BY <1>1, <2>1, MakeDirIs
  <2>3. cs[1] = With(o, "putObject", p)
    BY <2>2
  <2> QED  BY <2>3 DEF With, Call
<1>4. c.do = "needFile" => cs[1].do = "dropObject"
  BY DEF Answer, With, Call
<1>5. c.do = "walk" => cs[1].do = "visitFile"
  <2> SUFFICES ASSUME c.do = "walk" PROVE cs[1].do = "visitFile"
    OBVIOUS
  <2>1. PICK names \in Seq(Names) : NameChildren(p, names) /\ cs = Visits(p, names)
    BY DEF Answer
  <2>2. cs \in Seq(AnyCall) /\ DOMAIN cs = DOMAIN names /\ \A i \in DOMAIN names : cs[i].do = "visitFile"
    BY <1>1, <2>1, VisitsAre
  <2>3. 1 \in DOMAIN cs
    BY <2>2
  <2> QED  BY <2>2, <2>3
<1>6. c.do \in {"addName", "dropName"} => cs[1].do = "putList"
  BY DEF Answer, PutList, Call
<1>7. /\ c.do = "visitDir" => cs[1] = Call("needDir", p)
      /\ c.do = "stillDir" => cs[1] = Call("clearDir", p)
      /\ c.do = "stillFile" => cs[1] = Call("clearFile", p)
      /\ c.do = "visitFile" => cs[1] \in {Call("needFile", p), Call("visitDir", p)}
  BY DEF Answer, DeleteDir, DeleteFile
<1>8. c.do \in {"ensureRoot", "visitDir", "stillDir", "stillFile", "needNoFile", "needFile",
                "visitFile", "walk", "addName", "dropName"}
  BY DEF Answer
<1> QED  BY <1>2, <1>3, <1>4, <1>5, <1>6, <1>7, <1>8

-----------------------------------------------------------------------------
(* The bucket.                                                             *)

BucketDo == {"putObject", "putFile", "dropObject", "stillFile", "clearFile"}

FoundAt(c, f, O) ==
  /\ c.do = "putObject" => f[c.path] = NoFile /\ c.object \notin O
  /\ c.do = "putFile" => f[c.path] = NoFile /\ c.object \in O
  /\ c.do = "dropObject" => f[c.path] = c.object /\ c.object # NoFile
  /\ c.do \in {"stillFile", "clearFile"} => f[c.path] \notin O \cup {NoFile}

ToldAt(f, O, th) ==
  /\ \A t \in Thread : th[t].todo # << >> => FoundAt(th[t].todo[1], f, O)
  /\ \A p \in Path : f[p] \notin O \cup {NoFile} =>
       \E t \in Thread : /\ th[t].todo # << >>
                         /\ th[t].todo[1].do \in {"stillFile", "clearFile"}
                         /\ th[t].todo[1].path = p
  /\ \A o \in O : \/ \E p \in Path : f[p] = o
                  \/ \E t \in Thread : /\ th[t].todo # << >>
                                       /\ th[t].todo[1].do = "putFile"
                                       /\ th[t].todo[1].object = o

LEMMA ToldIs ==
  /\ BucketIsTold <=> ToldAt(file, objects, thread)
  /\ BucketIsTold' <=> ToldAt(file', objects', thread')
BY DEF BucketIsTold, BucketFound, ToldAt, FoundAt

\* A step that touches neither the bucket nor a key of a file.
LEMMA BucketQuiet ==
  ASSUME ThreadInv, BucketIsTold, NEW t \in Thread, NEW s, thread' = [thread EXCEPT ![t] = s],
         UNCHANGED <<file, objects>>,
         Busy(t) => thread[t].todo[1].do \notin {"stillFile", "clearFile", "putFile"},
         s.todo # << >> => FoundAt(s.todo[1], file, objects)
  PROVE  BucketIsTold'
<1>1. thread \in [Thread -> ThreadState]
  BY DEF ThreadInv, DriveTypes
<1>2. thread'[t] = s /\ \A u \in Thread : u # t => thread'[u] = thread[u]
  BY <1>1
<1>3. ToldAt(file, objects, thread)
  BY ToldIs
<1>4. \A u \in Thread : thread'[u].todo # << >> => FoundAt(thread'[u].todo[1], file, objects)
  BY <1>2, <1>3 DEF ToldAt
<1>5. ASSUME NEW p \in Path, file[p] \notin objects \cup {NoFile}
      PROVE  \E u \in Thread : /\ thread'[u].todo # << >>
                               /\ thread'[u].todo[1].do \in {"stillFile", "clearFile"}
                               /\ thread'[u].todo[1].path = p
  BY <1>2, <1>3, <1>5 DEF ToldAt, Busy
<1>6. ASSUME NEW o \in objects
      PROVE  \/ \E p \in Path : file[p] = o
             \/ \E u \in Thread : /\ thread'[u].todo # << >>
                                  /\ thread'[u].todo[1].do = "putFile"
                                  /\ thread'[u].todo[1].object = o
  BY <1>2, <1>3, <1>6 DEF ToldAt, Busy
<1>7. ToldAt(file, objects, thread')
  BY <1>4, <1>5, <1>6 DEF ToldAt
<1> QED  BY <1>7, ToldIs

\* Other requests do not notice a step that touches one file and its object.
LEMMA BucketOthers ==
  ASSUME Apart, ThreadInv, BucketIsTold, NEW t \in Thread, Busy(t), NEW p \in Path,
         p = thread[t].todo[1].path, thread[t].todo[1].do # "putList",
         \A u \in Thread : u # t => thread'[u] = thread[u],
         \A q \in Path : q # p => file'[q] = file[q],
         \A o \in Path \X (Nat \ {0}) : o \notin KeysOf(p) => (o \in objects' <=> o \in objects)
  PROVE  /\ \A u \in Thread : u # t /\ thread'[u].todo # << >> =>
              FoundAt(thread'[u].todo[1], file', objects')
         /\ \A q \in Path : q # p /\ file'[q] \notin objects' \cup {NoFile} =>
              \E u \in Thread : /\ u # t /\ thread'[u].todo # << >>
                                /\ thread'[u].todo[1].do \in {"stillFile", "clearFile"}
                                /\ thread'[u].todo[1].path = q
<1>1. ToldAt(file, objects, thread)
  BY ToldIs
<1>2. \A q \in Path : KeysOf(q) \subseteq Path \X (Nat \ {0}) /\ (q # p => KeysOf(q) \cap KeysOf(p) = {})
  BY DEF KeysOf
<1>3. \A q \in Path : file[q] = NoFile \/ file[q] \in KeysOf(q)
  BY TypesAre DEF ThreadInv, StoreTypes
<1>4. ASSUME NEW u \in Thread, u # t, thread'[u].todo # << >>
      PROVE  FoundAt(thread'[u].todo[1], file', objects')
  <2> DEFINE e == thread[u].todo[1]
  <2>1. thread'[u] = thread[u] /\ Busy(u) /\ FoundAt(e, file, objects)
    BY <1>1, <1>4 DEF Busy, ToldAt
  <2>2. 1 \in DOMAIN thread[u].todo /\ 1 \in DOMAIN thread[t].todo
    BY <2>1, TodoIs DEF Busy, ThreadInv
  <2>3. e \in AnyCall /\ e.path \in Path /\ Within(thread[u].path, e) /\ Within(thread[t].path, thread[t].todo[1])
    BY <2>2, CallWithin
  <2>4. e.do \in BucketDo => e.path # p
    <3> SUFFICES ASSUME e.do \in BucketDo PROVE e.path # p
      OBVIOUS
    <3>1. IsPrefix(thread[u].path, e.path) /\ IsPrefix(thread[t].path, p)
      BY <2>3 DEF Within, BucketDo
    <3>2. AreApart(thread[t].path, thread[u].path) /\ thread[t].path \in Path \ {Root}
          /\ thread[u].path \in Path \ {Root}
      BY <1>4, <2>1, ApartThreads
    <3> HIDE DEF e
    <3> QED  BY <2>3, <3>1, <3>2, ApartPaths
  <2>5. /\ e.object # NoFile => e.object \in KeysOf(e.path)
        /\ e.do \in {"putObject", "putFile"} => e.object # NoFile
    BY <2>3 DEF AnyCall
  <2> HIDE DEF e
  <2>6. e.do \in BucketDo => file'[e.path] = file[e.path]
    BY <2>3, <2>4
  <2>7. e.path # p => \A o \in KeysOf(e.path) : o \in objects' <=> o \in objects
    BY <1>2, <2>3
  <2>8. FoundAt(e, file', objects')
    BY <1>3, <2>1, <2>3, <2>4, <2>5, <2>6, <2>7 DEF FoundAt, BucketDo
  <2> QED  BY <2>1, <2>8 DEF e
<1>5. ASSUME NEW q \in Path, q # p, file'[q] \notin objects' \cup {NoFile}
      PROVE  \E u \in Thread : /\ u # t /\ thread'[u].todo # << >>
                               /\ thread'[u].todo[1].do \in {"stillFile", "clearFile"}
                               /\ thread'[u].todo[1].path = q
  <2>1. file[q] \notin objects \cup {NoFile}
    BY <1>2, <1>3, <1>5
  <2>2. PICK u \in Thread : /\ thread[u].todo # << >>
                            /\ thread[u].todo[1].do \in {"stillFile", "clearFile"}
                            /\ thread[u].todo[1].path = q
    BY <1>1, <2>1 DEF ToldAt
  <2>3. u # t
    BY <1>5, <2>2
  <2> QED  BY <2>2, <2>3
<1> QED  BY <1>4, <1>5

\* Steps that have nothing to do with the bucket.
LEMMA BucketOtherDo ==
  ASSUME Apart, ThreadInv, BucketIsTold, NEW t \in Thread, Advances(t), UNCHANGED <<file, objects>>,
         \/ thread' = [thread EXCEPT ![t] = Idle] /\
              (Busy(t) => thread[t].todo[1].do \notin {"stillFile", "clearFile", "putFile"})
         \/ Busy(t) /\ thread[t].todo[1].do \in
              Doing \ {"needNoFile", "putObject", "putFile", "needFile", "dropObject", "stillFile", "clearFile"}
  PROVE  BucketIsTold'
<1> DEFINE d == thread[t].todo
<1>1. CASE thread' = [thread EXCEPT ![t] = Idle]
  <2>1. Idle.todo = << >>
    BY IdleIs
  <2> QED  BY <1>1, <2>1, BucketQuiet
<1>2. CASE thread' # [thread EXCEPT ![t] = Idle]
  <2>1. PICK cs : /\ Busy(t) /\ Answer(Head(d), cs) /\ thread' = [thread EXCEPT ![t] = Going(t, cs)]
    BY <1>2 DEF Advances, Busy
  <2>2. d \in Seq(AnyCall) /\ Head(d) = d[1] /\ d[1] \in AnyCall /\ 1 \in DOMAIN d
    BY <2>1, TodoIs DEF Busy, This, ThreadInv
  <2>3. d[1].do \in Doing \ {"needNoFile", "putObject", "putFile", "needFile", "dropObject", "stillFile", "clearFile"}
    BY <1>2
  <2>4. cs \in Seq(AnyCall) /\ Answer(d[1], cs)
    BY <2>1, <2>2, AnswerIs
  <2> DEFINE n == thread'[t].todo
  <2>5. /\ cs # << >> => n # << >> /\ n[1] = cs[1]
        /\ cs = << >> /\ n # << >> => Len(d) >= 2 /\ n[1] = d[2]
    BY <2>1, <2>4, GoesIs
  <2>6. Scripted(d)
    BY <2>2, CallWithin
  <2>7. n # << >> => n[1].do \notin BucketDo
    <3>1. \A do, p : Call(do, p).do = do
      BY DEF Call
    <3>2. CASE cs # << >>
      <4>1. \/ cs[1].do = "visitFile" \/ cs[1].do = "putList"
            \/ \E p : cs[1] \in {Call("putDir", p), Call("needDir", p), Call("clearDir", p),
                                 Call("needFile", p), Call("visitDir", p)}
        BY <2>2, <2>3, <2>4, <3>2, AnswerHead
      <4>2. cs[1].do \notin BucketDo
        BY <3>1, <4>1 DEF BucketDo
      <4> QED  BY <2>5, <3>2, <4>2
    <3>3. CASE cs = << >> /\ n # << >>
      <4>1. Len(d) >= 2 /\ n[1] = d[2]
        BY <2>5, <3>3
      <4> HIDE DEF n
      <4>2. \/ d[2].do \in {"visitFile", "stillDir"}
            \/ \E p : d[2] \in {Call("putDir", p), Call("putList", p), Call("addName", p),
                                Call("dropName", p), Call("walk", p), Call("stillDir", p)}
        BY <2>2, <2>3, <2>6, <4>1, SecondIs DEF Doing
      <4>3. d[2].do \notin BucketDo
        BY <3>1, <4>2 DEF BucketDo
      <4> QED  BY <4>1, <4>3
    <3> QED  BY <3>2, <3>3
  <2>8. n # << >> => FoundAt(n[1], file, objects)
    BY <2>7 DEF FoundAt, BucketDo
  <2>9. thread' = [thread EXCEPT ![t] = thread'[t]]
    BY <2>1
  <2>10. d[1].do \notin {"stillFile", "clearFile", "putFile"}
    BY <2>3
  <2> QED  BY <2>8, <2>9, <2>10, BucketQuiet
<1> QED  BY <1>1, <1>2

LEMMA BucketStep ==
  ASSUME Apart, ThreadInv, BucketIsTold, ~broken', NEW t \in Thread, Step(t)
  PROVE  BucketIsTold'
<1> DEFINE d == thread[t].todo
           c == d[1]
           p == c.path
<1>1. Advances(t)
  BY StepAdvances DEF ThreadInv
<1>2. /\ thread \in [Thread -> ThreadState] /\ ToldAt(file, objects, thread) /\ NoFile \notin objects
      /\ \A q \in Path : file[q] = NoFile \/ file[q] \in KeysOf(q)
      /\ DOMAIN file = Path
  <2>1. StoreTypes /\ thread \in [Thread -> ThreadState]
    BY TypesAre DEF ThreadInv
  <2> QED  BY <2>1, ToldIs, KeyAssumption DEF StoreTypes
<1>3. ASSUME Busy(t)
      PROVE  /\ d \in Seq(AnyCall) /\ c \in AnyCall /\ p \in Path /\ This(t) = c /\ PathOf(t) = p
             /\ Scripted(d) /\ Within(thread[t].path, c)
             /\ (\A do : At(t, do) <=> c.do = do)
  <2>1. d \in Seq(AnyCall) /\ c \in AnyCall /\ p \in Path /\ This(t) = c /\ PathOf(t) = p /\ 1 \in DOMAIN d
        /\ (\A do : At(t, do) <=> c.do = do)
    BY <1>3, TodoIs DEF Busy, ThreadInv
  <2> QED  BY <2>1, CallWithin
<1>4. \A do : At(t, do) => Busy(t) /\ c.do = do
  <2>1. \A do : At(t, do) => Busy(t)
    BY DEF At, Busy
  <2> QED  BY <1>3, <2>1
<1>5. Busy(t) => FoundAt(c, file, objects)
  BY <1>2 DEF ToldAt, Busy
<1>6. c \in AnyCall => /\ c.object # NoFile => c.object \in KeysOf(p)
                       /\ c.do \in {"putObject", "putFile"} => c.object # NoFile
  BY DEF AnyCall
<1>7. << >> \in Seq(AnyCall)
  OBVIOUS
<1> HIDE DEF d, c, p
<1>10. CASE \/ EnsureRoot(t) \/ NeedNoDir(t) \/ NeedDir(t) \/ StillDir(t) \/ VisitFile(t)
            \/ VisitDir(t) \/ Walk(t) \/ AddName(t) \/ DropName(t)
            \/ PutDir(t) \/ ClearDir(t) \/ PutNames(t)
  <2>1. UNCHANGED <<file, objects>>
    BY <1>10, Told DEF EnsureRoot, NeedNoDir, NeedDir, StillDir, VisitFile, VisitDir, Walk,
       AddName, DropName, PutDir, ClearDir, PutNames
  <2>2. \E do \in Doing \ {"needNoFile", "putObject", "putFile", "needFile", "dropObject", "stillFile", "clearFile"} :
          At(t, do)
    BY <1>10, Told DEF EnsureRoot, NeedNoDir, NeedDir, StillDir, VisitFile, VisitDir, Walk,
       AddName, DropName, PutDir, ClearDir, PutNames, Doing
  <2>3. Busy(t) /\ c.do \in
          Doing \ {"needNoFile", "putObject", "putFile", "needFile", "dropObject", "stillFile", "clearFile"}
    BY <1>4, <2>2
  <2> QED  BY <1>1, <2>1, <2>3, BucketOtherDo DEF c, d
<1>11. CASE Done(t)
  <2>1. thread' = [thread EXCEPT ![t] = Idle] /\ ~Busy(t) /\ UNCHANGED <<file, objects>>
    BY <1>11 DEF Done, Busy, storeVars
  <2> QED  BY <1>1, <2>1, BucketOtherDo
<1>12. CASE S3Error(t)
  <2>1. thread' = [thread EXCEPT ![t] = Idle] /\ UNCHANGED <<file, objects>>
        /\ (At(t, "putObject") \/ At(t, "dropObject"))
    BY <1>12 DEF S3Error, Fails, storeVars
  <2>2. Busy(t) /\ c.do \notin {"stillFile", "clearFile", "putFile"}
    BY <1>4, <2>1
  <2> QED  BY <1>1, <2>1, <2>2, BucketOtherDo DEF c, d
<1>13. CASE NeedNoFile(t)
  <2> DEFINE cs == Store(PathOf(t), NewKey(PathOf(t)))
  <2>1. /\ At(t, "needNoFile") /\ UNCHANGED <<file, objects>>
        /\ thread' = [thread EXCEPT ![t] = IF file[PathOf(t)] # NoFile THEN Idle ELSE Going(t, cs)]
    BY <1>13, Told DEF NeedNoFile
  <2>2. Busy(t) /\ c.do = "needNoFile" /\ PathOf(t) = p /\ p \in Path /\ c \in AnyCall
    BY <1>3, <1>4, <2>1
  <2>3. CASE file[p] # NoFile
    <3>1. thread' = [thread EXCEPT ![t] = Idle]
      BY <2>1, <2>2, <2>3
    <3> QED  BY <1>1, <2>1, <2>2, <3>1, BucketOtherDo DEF c, d
  <2>4. CASE file[p] = NoFile
    <3> DEFINE o == NewKey(p)
    <3>1. o \in KeysOf(p) /\ o \notin objects
      <4>1. DriveTypes
        BY DEF ThreadInv
      <4>2. o \in KeysOf(p) /\ o \notin KeysInUse
        BY <2>2, <4>1, NewKeyIs
      <4> QED  BY <4>2 DEF KeysInUse
    <3> HIDE DEF o
    <3>2. cs = Store(p, o) /\ p # Root
      BY <2>2 DEF o, AnyCall, p
    <3>3. cs = <<With(o, "putObject", p), With(o, "putFile", p), Call("addName", p)>>
      BY <3>2, MakeDirIs
    <3> HIDE DEF cs
    <3>4. cs \in Seq(AnyCall) /\ cs # << >> /\ cs[1] = With(o, "putObject", p)
      <4>1. Answer(c, cs)
        BY <2>2, <3>1, <3>2 DEF Answer, p
      <4>2. cs \in Seq(AnyCall)
        BY <2>2, <4>1, AnswerIs
      <4> QED  BY <3>3, <4>2
    <3>5. thread' = [thread EXCEPT ![t] = Going(t, cs)]
      BY <2>1, <2>2, <2>4
    <3>6. thread'[t].todo[1] = With(o, "putObject", p)
      BY <2>2, <3>4, <3>5, GoesIs
    <3>7. FoundAt(thread'[t].todo[1], file, objects)
      BY <2>4, <3>1, <3>6 DEF FoundAt, With, Call
    <3>8. thread' = [thread EXCEPT ![t] = thread'[t]]
      BY <1>2, <3>5
    <3>9. d[1].do \notin {"stillFile", "clearFile", "putFile"}
      BY <2>2 DEF c
    <3> QED  BY <2>1, <3>7, <3>8, <3>9, BucketQuiet DEF d
  <2> QED  BY <2>3, <2>4
<1>14. CASE NeedFile(t)
  <2> DEFINE cs == <<With(file[PathOf(t)], "dropObject", PathOf(t))>>
  <2>1. /\ At(t, "needFile") /\ UNCHANGED <<file, objects>>
        /\ thread' = [thread EXCEPT ![t] = IF file[PathOf(t)] # NoFile THEN Going(t, cs) ELSE Idle]
    BY <1>14, Told DEF NeedFile
  <2>2. Busy(t) /\ c.do = "needFile" /\ PathOf(t) = p /\ p \in Path /\ c \in AnyCall
    BY <1>3, <1>4, <2>1
  <2>3. CASE file[p] = NoFile
    <3>1. thread' = [thread EXCEPT ![t] = Idle]
      BY <2>1, <2>2, <2>3
    <3> QED  BY <1>1, <2>1, <2>2, <3>1, BucketOtherDo DEF c, d
  <2>4. CASE file[p] # NoFile
    <3> DEFINE o == file[p]
    <3>1. o \in KeysOf(p)
      BY <1>2, <2>2, <2>4
    <3>2. cs = <<With(o, "dropObject", p)>>
      BY <2>2
    <3>3. Answer(c, cs)
      BY <2>2, <3>1, <3>2 DEF Answer, p
    <3> HIDE DEF cs
    <3>4. cs \in Seq(AnyCall) /\ cs # << >> /\ cs[1] = With(o, "dropObject", p)
      <4>1. cs \in Seq(AnyCall)
        BY <2>2, <3>3, AnswerIs
      <4> QED  BY <3>2, <4>1
    <3>5. thread' = [thread EXCEPT ![t] = Going(t, cs)]
      BY <2>1, <2>2, <2>4
    <3>6. thread'[t].todo[1] = With(o, "dropObject", p)
      BY <2>2, <3>4, <3>5, GoesIs
    <3>7. FoundAt(thread'[t].todo[1], file, objects)
      BY <2>4, <3>6 DEF FoundAt, With, Call
    <3>8. thread' = [thread EXCEPT ![t] = thread'[t]]
      BY <1>2, <3>5
    <3>9. d[1].do \notin {"stillFile", "clearFile", "putFile"}
      BY <2>2 DEF c
    <3> QED  BY <2>1, <3>7, <3>8, <3>9, BucketQuiet DEF d
  <2> QED  BY <2>3, <2>4
<1>15. ASSUME Busy(t), c.do \in BucketDo,
              \A u \in Thread : u # t => thread'[u] = thread[u],
              \A q \in Path : q # p => file'[q] = file[q],
              \A o \in Path \X (Nat \ {0}) : o \notin KeysOf(p) => (o \in objects' <=> o \in objects)
       PROVE  /\ \A u \in Thread : u # t /\ thread'[u].todo # << >> =>
                   FoundAt(thread'[u].todo[1], file', objects')
              /\ \A q \in Path : q # p /\ file'[q] \notin objects' \cup {NoFile} =>
                   \E u \in Thread : /\ u # t /\ thread'[u].todo # << >>
                                     /\ thread'[u].todo[1].do \in {"stillFile", "clearFile"}
                                     /\ thread'[u].todo[1].path = q
  <2>1. p \in Path /\ thread[t].todo[1].path = p /\ thread[t].todo[1].do # "putList"
    BY <1>3, <1>15 DEF p, c, d, BucketDo
  <2> QED  BY <1>15, <2>1, BucketOthers
<1>16. ASSUME Busy(t), NEW cs \in Seq(AnyCall), thread' = [thread EXCEPT ![t] = Going(t, cs)]
       PROVE  /\ \A u \in Thread : u # t => thread'[u] = thread[u]
              /\ cs # << >> => thread'[t].todo # << >> /\ thread'[t].todo[1] = cs[1]
              /\ cs = << >> /\ thread'[t].todo # << >> => Len(d) >= 2 /\ thread'[t].todo[1] = d[2]
  BY <1>16, GoesIs DEF d
<1>17. CASE PutObject(t)
  <2> DEFINE o == c.object
  <2>1. /\ Busy(t) /\ c.do = "putObject" /\ objects' = objects \cup {o} /\ file' = file
        /\ thread' = [thread EXCEPT ![t] = Going(t, << >>)]
    BY <1>3, <1>4, <1>17 DEF PutObject, Goes, storeVars
  <2>2. o \in KeysOf(p) /\ p \in Path /\ file[p] = NoFile
    BY <1>3, <1>5, <1>6, <2>1 DEF FoundAt, p
  <2> DEFINE e == thread'[t].todo[1]
  <2>3. thread'[t].todo # << >> => e = With(o, "putFile", p)
    BY <1>3, <1>7, <1>16, <2>1, SecondIs DEF c, p
  <2>4. thread'[t].todo # << >>
    <3>2. p # Root /\ Ends(d, Store(p, o))
      BY <1>3, <2>1 DEF AnyCall, Scripted, c, p, d, Busy
    <3>3. Ends(d, <<With(o, "putObject", p), With(o, "putFile", p), Call("addName", p)>>)
      BY <3>2, MakeDirIs
    <3>4. Len(d) = 3
      BY <1>3, <2>1, <3>3, ShapeIs
    <3>5. Len(thread'[t].todo) = Len(<< >>) + Len(d) - 1 /\ Len(<< >>) = 0
      BY <1>7, <2>1, GoesIs DEF d
    <3>6. thread'[t].todo \in Seq(AnyCall)
      BY <1>7, <2>1, GoesIs
    <3>7. Len(thread'[t].todo) = 2
      BY <3>4, <3>5
    <3> QED  BY <3>6, <3>7
  <2>5. e.do = "putFile" /\ e.path = p /\ e.object = o
    BY <2>3, <2>4 DEF With, Call
  <2>6. FoundAt(e, file', objects')
    BY <2>1, <2>2, <2>5 DEF FoundAt
  <2>7. \A u \in Thread : u # t => thread'[u] = thread[u]
    BY <1>7, <1>16, <2>1
  <2>8. /\ \A u \in Thread : u # t /\ thread'[u].todo # << >> =>
             FoundAt(thread'[u].todo[1], file', objects')
        /\ \A q \in Path : q # p /\ file'[q] \notin objects' \cup {NoFile} =>
              \E u \in Thread : /\ u # t /\ thread'[u].todo # << >>
                                /\ thread'[u].todo[1].do \in {"stillFile", "clearFile"}
                                /\ thread'[u].todo[1].path = q
    <3>1. c.do \in BucketDo
      BY <2>1 DEF BucketDo
    <3> QED  BY <1>15, <2>1, <2>2, <2>7, <3>1
  <2>9. \A x \in objects' : \/ \E q \in Path : file'[q] = x
                           \/ \E u \in Thread : /\ thread'[u].todo # << >>
                                                /\ thread'[u].todo[1].do = "putFile"
                                                /\ thread'[u].todo[1].object = x
    <3> SUFFICES ASSUME NEW x \in objects'
                 PROVE  \/ \E q \in Path : file'[q] = x
                        \/ \E u \in Thread : /\ thread'[u].todo # << >>
                                             /\ thread'[u].todo[1].do = "putFile"
                                             /\ thread'[u].todo[1].object = x
      OBVIOUS
    <3>1. CASE x = o
      BY <2>4, <2>5, <3>1
    <3>2. CASE x \in objects
      <4>1. ~(thread[t].todo[1].do = "putFile")
        BY <2>1 DEF c, d
      <4> QED  BY <1>2, <2>1, <2>7, <3>2, <4>1 DEF ToldAt
    <3> QED  BY <2>1, <3>1, <3>2
  <2>10. ToldAt(file', objects', thread')
    <3>1. \A u \in Thread : thread'[u].todo # << >> => FoundAt(thread'[u].todo[1], file', objects')
      BY <2>6, <2>8
    <3>2. \A q \in Path : file'[q] \notin objects' \cup {NoFile} =>
            \E u \in Thread : /\ thread'[u].todo # << >>
                              /\ thread'[u].todo[1].do \in {"stillFile", "clearFile"}
                              /\ thread'[u].todo[1].path = q
      BY <2>1, <2>2, <2>8
    <3> QED  BY <2>9, <3>1, <3>2 DEF ToldAt
  <2> QED  BY <2>10, ToldIs
<1>18. CASE PutFile(t)
  <2> DEFINE o == c.object
  <2>1. /\ At(t, "putFile") /\ objects' = objects /\ file' = [file EXCEPT ![PathOf(t)] = This(t).object]
        /\ thread' = [thread EXCEPT ![t] = Going(t, << >>)]
    BY <1>18, Told DEF PutFile, Goes
  <2>2. Busy(t) /\ c.do = "putFile" /\ p \in Path /\ file' = [file EXCEPT ![p] = o]
    BY <1>3, <1>4, <2>1
  <2>3. o \in KeysOf(p) /\ file[p] = NoFile /\ o \in objects
    BY <1>3, <1>5, <1>6, <2>2 DEF FoundAt, p
  <2> DEFINE e == thread'[t].todo[1]
  <2>4. thread'[t].todo # << >> => e = Call("addName", p)
    BY <1>3, <1>7, <1>16, <2>1, <2>2, SecondIs DEF c, p
  <2>5. thread'[t].todo # << >> => FoundAt(e, file', objects')
    BY <2>4 DEF FoundAt, Call
  <2>6. \A u \in Thread : u # t => thread'[u] = thread[u]
    BY <1>7, <1>16, <2>1, <2>2
  <2>7. /\ \A u \in Thread : u # t /\ thread'[u].todo # << >> =>
             FoundAt(thread'[u].todo[1], file', objects')
        /\ \A q \in Path : q # p /\ file'[q] \notin objects' \cup {NoFile} =>
              \E u \in Thread : /\ u # t /\ thread'[u].todo # << >>
                                /\ thread'[u].todo[1].do \in {"stillFile", "clearFile"}
                                /\ thread'[u].todo[1].path = q
    <3>1. c.do \in BucketDo
      BY <2>2 DEF BucketDo
    <3>2. \A q \in Path : q # p => file'[q] = file[q]
      BY <1>2, <2>2
    <3> QED  BY <1>15, <2>1, <2>2, <2>6, <3>1, <3>2
  <2>8. file'[p] = o /\ \A q \in Path : q # p => file'[q] = file[q]
    BY <1>2, <2>2
  <2>9. \A x \in objects' : \/ \E q \in Path : file'[q] = x
                           \/ \E u \in Thread : /\ thread'[u].todo # << >>
                                                /\ thread'[u].todo[1].do = "putFile"
                                                /\ thread'[u].todo[1].object = x
    <3> SUFFICES ASSUME NEW x \in objects, \A q \in Path : file'[q] # x
                 PROVE  \E u \in Thread : /\ thread'[u].todo # << >>
                                          /\ thread'[u].todo[1].do = "putFile"
                                          /\ thread'[u].todo[1].object = x
      BY <2>1
    <3>1. x # o /\ x # NoFile
      BY <1>2, <2>2, <2>8
    <3>2. \A q \in Path : file[q] # x
      BY <2>3, <2>8, <3>1
    <3>3. PICK u \in Thread : /\ thread[u].todo # << >>
                              /\ thread[u].todo[1].do = "putFile"
                              /\ thread[u].todo[1].object = x
      BY <1>2, <3>2 DEF ToldAt
    <3>4. u # t
      BY <3>1, <3>3 DEF c, d
    <3> QED  BY <2>6, <3>3, <3>4
  <2>10. file'[p] \in objects'
    BY <2>1, <2>3, <2>8
  <2>11. ToldAt(file', objects', thread')
    BY <2>5, <2>7, <2>9, <2>10 DEF ToldAt
  <2> QED  BY <2>11, ToldIs
<1>19. CASE DropObject(t)
  <2> DEFINE o == c.object
  <2>1. /\ Busy(t) /\ c.do = "dropObject" /\ objects' = objects \ {o} /\ file' = file
        /\ thread' = [thread EXCEPT ![t] = Going(t, << >>)]
    BY <1>3, <1>4, <1>19 DEF DropObject, Goes, storeVars
  <2>2. o \in KeysOf(p) /\ p \in Path /\ file[p] = o /\ o # NoFile
    BY <1>3, <1>5, <1>6, <2>1 DEF FoundAt, p
  <2> DEFINE e == thread'[t].todo[1]
  <2>3. thread'[t].todo # << >> => e = Call("stillFile", p)
    BY <1>3, <1>7, <1>16, <2>1, SecondIs DEF c, p
  <2>4. thread'[t].todo # << >>
    <3>2. Begins(d, <<c, Call("stillFile", p)>>)
      BY <1>3, <2>1 DEF Scripted, c, p, d, Busy, Continues
    <3>3. Len(d) >= 2
      BY <1>3, <2>1, <3>2, ShapeIs
    <3>4. Len(thread'[t].todo) = Len(<< >>) + Len(d) - 1 /\ Len(<< >>) = 0 /\ Len(d) \in Nat
      BY <1>7, <2>1, GoesIs DEF d
    <3>5. thread'[t].todo \in Seq(AnyCall)
      BY <1>7, <2>1, GoesIs
    <3> QED  BY <3>3, <3>4, <3>5
  <2>5. e.do = "stillFile" /\ e.path = p
    BY <2>3, <2>4 DEF Call
  <2>6. FoundAt(e, file', objects')
    BY <2>1, <2>2, <2>5 DEF FoundAt
  <2>7. \A u \in Thread : u # t => thread'[u] = thread[u]
    BY <1>7, <1>16, <2>1
  <2>8. /\ \A u \in Thread : u # t /\ thread'[u].todo # << >> =>
             FoundAt(thread'[u].todo[1], file', objects')
        /\ \A q \in Path : q # p /\ file'[q] \notin objects' \cup {NoFile} =>
              \E u \in Thread : /\ u # t /\ thread'[u].todo # << >>
                                /\ thread'[u].todo[1].do \in {"stillFile", "clearFile"}
                                /\ thread'[u].todo[1].path = q
    <3>1. c.do \in BucketDo
      BY <2>1 DEF BucketDo
    <3> QED  BY <1>15, <2>1, <2>2, <2>7, <3>1
  <2>9. \A x \in objects' : \/ \E q \in Path : file'[q] = x
                           \/ \E u \in Thread : /\ thread'[u].todo # << >>
                                                /\ thread'[u].todo[1].do = "putFile"
                                                /\ thread'[u].todo[1].object = x
    <3>1. ~(thread[t].todo[1].do = "putFile")
      BY <2>1 DEF c, d
    <3> QED  BY <1>2, <2>1, <2>7, <3>1 DEF ToldAt
  <2>10. ToldAt(file', objects', thread')
    <3>1. \A u \in Thread : thread'[u].todo # << >> => FoundAt(thread'[u].todo[1], file', objects')
      BY <2>6, <2>8
    <3>2. \A q \in Path : file'[q] \notin objects' \cup {NoFile} =>
            \E u \in Thread : /\ thread'[u].todo # << >>
                              /\ thread'[u].todo[1].do \in {"stillFile", "clearFile"}
                              /\ thread'[u].todo[1].path = q
      BY <2>4, <2>5, <2>8
    <3> QED  BY <2>9, <3>1, <3>2 DEF ToldAt
  <2> QED  BY <2>10, ToldIs
<1>20. CASE StillFile(t)
  <2> DEFINE cs == <<Call("clearFile", PathOf(t))>> \o Unregister(PathOf(t))
  <2>1. /\ At(t, "stillFile") /\ UNCHANGED <<file, objects>>
        /\ thread' = [thread EXCEPT ![t] = IF file[PathOf(t)] # NoFile THEN Going(t, cs)
                                           ELSE Going(t, << >>)]
    BY <1>20, Told DEF StillFile
  <2>2. Busy(t) /\ c.do = "stillFile" /\ PathOf(t) = p /\ p \in Path /\ c \in AnyCall
    BY <1>3, <1>4, <2>1
  <2>3. file[p] \notin objects \cup {NoFile}
    BY <1>5, <2>2 DEF FoundAt, p
  <2>4. cs = <<Call("clearFile", p), Call("dropName", p)>>
    <3>1. cs = <<Call("clearFile", p)>> \o <<Call("dropName", p)>>
      BY <2>2 DEF Unregister
    <3> QED  BY <3>1, Joins
  <2> HIDE DEF cs
  <2>5. cs \in Seq(AnyCall) /\ cs # << >> /\ cs[1] = Call("clearFile", p)
    <3>1. Answer(c, cs)
      BY <2>2, <2>4 DEF Answer, p
    <3>2. cs \in Seq(AnyCall)
      BY <2>2, <3>1, AnswerIs
    <3> QED  BY <2>4, <3>2
  <2>6. thread' = [thread EXCEPT ![t] = Going(t, cs)]
    BY <2>1, <2>2, <2>3
  <2> DEFINE e == thread'[t].todo[1]
  <2>7. thread'[t].todo # << >> /\ e.do = "clearFile" /\ e.path = p
        /\ \A u \in Thread : u # t => thread'[u] = thread[u]
    <3>1. thread'[t].todo # << >> /\ e = Call("clearFile", p)
          /\ \A u \in Thread : u # t => thread'[u] = thread[u]
      BY <1>16, <2>2, <2>5, <2>6
    <3> QED  BY <3>1 DEF Call
  <2>8. FoundAt(e, file, objects)
    BY <2>3, <2>7 DEF FoundAt
  <2> HIDE DEF e
  <2>9. \A q \in Path : file[q] \notin objects \cup {NoFile} =>
          \E u \in Thread : /\ thread'[u].todo # << >>
                            /\ thread'[u].todo[1].do \in {"stillFile", "clearFile"}
                            /\ thread'[u].todo[1].path = q
    <3> SUFFICES ASSUME NEW q \in Path, file[q] \notin objects \cup {NoFile}
                 PROVE  \E u \in Thread : /\ thread'[u].todo # << >>
                                          /\ thread'[u].todo[1].do \in {"stillFile", "clearFile"}
                                          /\ thread'[u].todo[1].path = q
      OBVIOUS
    <3>1. PICK u \in Thread : /\ thread[u].todo # << >>
                              /\ thread[u].todo[1].do \in {"stillFile", "clearFile"}
                              /\ thread[u].todo[1].path = q
      BY <1>2 DEF ToldAt
    <3>2. CASE u = t
      BY <2>7, <3>1, <3>2 DEF c, d, p, e
    <3>3. CASE u # t
      BY <2>7, <3>1, <3>3
    <3> QED  BY <3>2, <3>3
  <2>10. \A x \in objects : \/ \E q \in Path : file[q] = x
                           \/ \E u \in Thread : /\ thread'[u].todo # << >>
                                                /\ thread'[u].todo[1].do = "putFile"
                                                /\ thread'[u].todo[1].object = x
    <3>1. ~(thread[t].todo[1].do = "putFile")
      BY <2>2 DEF c, d
    <3> QED  BY <1>2, <2>7, <3>1 DEF ToldAt
  <2>11. \A u \in Thread : thread'[u].todo # << >> => FoundAt(thread'[u].todo[1], file, objects)
    BY <1>2, <2>7, <2>8 DEF ToldAt, e
  <2>12. ToldAt(file', objects', thread')
    BY <2>1, <2>9, <2>10, <2>11 DEF ToldAt
  <2> QED  BY <2>12, ToldIs
<1>21. CASE ClearFile(t)
  <2>1. /\ At(t, "clearFile") /\ objects' = objects /\ file' = [file EXCEPT ![PathOf(t)] = NoFile]
        /\ thread' = [thread EXCEPT ![t] = Going(t, << >>)]
    BY <1>21, Told DEF ClearFile, Goes
  <2>2. Busy(t) /\ c.do = "clearFile" /\ p \in Path /\ file' = [file EXCEPT ![p] = NoFile]
    BY <1>3, <1>4, <2>1
  <2>3. file[p] \notin objects \cup {NoFile}
    BY <1>5, <2>2 DEF FoundAt, p
  <2> DEFINE e == thread'[t].todo[1]
  <2>4. thread'[t].todo # << >> => e = Call("dropName", p)
    BY <1>3, <1>7, <1>16, <2>1, <2>2, SecondIs DEF c, p
  <2>5. thread'[t].todo # << >> => FoundAt(e, file', objects')
    BY <2>4 DEF FoundAt, Call
  <2>6. \A u \in Thread : u # t => thread'[u] = thread[u]
    BY <1>7, <1>16, <2>1, <2>2
  <2>7. file'[p] = NoFile /\ \A q \in Path : q # p => file'[q] = file[q]
    BY <1>2, <2>2
  <2>8. /\ \A u \in Thread : u # t /\ thread'[u].todo # << >> =>
             FoundAt(thread'[u].todo[1], file', objects')
        /\ \A q \in Path : q # p /\ file'[q] \notin objects' \cup {NoFile} =>
              \E u \in Thread : /\ u # t /\ thread'[u].todo # << >>
                                /\ thread'[u].todo[1].do \in {"stillFile", "clearFile"}
                                /\ thread'[u].todo[1].path = q
    <3>1. c.do \in BucketDo
      BY <2>2 DEF BucketDo
    <3> QED  BY <1>15, <2>1, <2>2, <2>6, <2>7, <3>1
  <2>9. \A x \in objects' : \/ \E q \in Path : file'[q] = x
                           \/ \E u \in Thread : /\ thread'[u].todo # << >>
                                                /\ thread'[u].todo[1].do = "putFile"
                                                /\ thread'[u].todo[1].object = x
    <3>1. ~(thread[t].todo[1].do = "putFile")
      BY <2>2 DEF c, d
    <3>2. \A x \in objects : file[p] # x
      BY <2>3
    <3> QED  BY <1>2, <2>1, <2>6, <2>7, <3>1, <3>2 DEF ToldAt
  <2>10. ToldAt(file', objects', thread')
    BY <2>5, <2>7, <2>8, <2>9 DEF ToldAt
  <2> QED  BY <2>10, ToldIs
<1> QED  BY <1>10, <1>11, <1>12, <1>13, <1>14, <1>17, <1>18, <1>19, <1>20, <1>21 DEF Step

\* What main does before it serves.
LEMMA MainDoes ==
  ASSUME ThreadInv, Busy(Main)
  PROVE  /\ thread[Main].todo[1].do \in {"ensureRoot", "putDir", "putList"}
         /\ thread[Main].todo[1].path = Root /\ \A t \in Worker : thread[t] = Idle
<1>1. Main \in Thread
  BY DEF Thread
<1>2. 1 \in DOMAIN thread[Main].todo /\ thread[Main].todo[1] \in AnyCall
  BY <1>1, TodoIs DEF ThreadInv, This, Busy
<1>3. thread[Main] # Idle
  BY IdleIs DEF Busy
<1>4. /\ \A i \in DOMAIN thread[Main].todo : thread[Main].todo[i].path = Root
      /\ \A t \in Worker : thread[t] = Idle
  BY <1>3 DEF ThreadInv, ThreadsAreScripted
<1> QED  BY <1>2, <1>4 DEF AnyCall

\* A restart that interrupts no request finds no worker busy.
LEMMA RestartFinds ==
  ASSUME ThreadInv, Restart, ~broken'
  PROVE  /\ ~broken /\ thread' = Started
         /\ \A t \in Thread : Busy(t) => /\ t = Main /\ thread[t].todo[1].path = Root
                                         /\ thread[t].todo[1].do \in {"ensureRoot", "putDir", "putList"}
<1>1. thread' = Started /\ ~broken /\ \A t \in Worker : thread[t] = Idle
  BY DEF Restart, Started
<1>2. \A t \in Worker : ~Busy(t)
  BY <1>1, IdleIs DEF Busy
<1> QED  BY <1>1, <1>2, MainDoes DEF Thread

LEMMA StepUnbroken == ASSUME ~broken', NEW t \in Thread, Step(t) PROVE ~broken
BY StepLeaves

\* A call that takes effect late was left behind by a call that failed.
LEMMA LandBroken == ASSUME ThreadInv, NEW c \in late, Land(c) PROVE broken /\ broken'
BY DEF ThreadInv, DriveTypes, Land

LEMMA BucketInvStep == ASSUME Apart, BucketInv, [Next]_vars PROVE BucketInv'
<1>1. ThreadInv /\ ThreadInv'
  BY ThreadInvStep DEF BucketInv
<1> SUFFICES ASSUME ~broken' PROVE BucketIsTold'
  BY <1>1 DEF BucketInv
<1>2. CASE UNCHANGED vars
  <2>1. file' = file /\ objects' = objects /\ thread' = thread /\ ~broken
    BY <1>2 DEF vars, storeVars
  <2> QED  BY <2>1, ToldIs DEF BucketInv
<1>3. ASSUME NEW t \in Thread, Step(t) PROVE BucketIsTold'
  <2>1. ~broken
    BY <1>3, StepUnbroken
  <2> QED  BY <1>1, <1>3, <2>1, BucketStep DEF BucketInv
<1>4. ASSUME NEW t \in Worker, NEW kind \in Requests, NEW p \in Path, Receive(t, kind, p)
      PROVE  BucketIsTold'
  <2> DEFINE r == [kind |-> kind, path |-> p, todo |-> CallsOf(kind, p),
                   saw |-> [q \in Below(p) |-> Shown(q)]]
  <2>1. /\ UNCHANGED <<file, objects>> /\ ~broken /\ thread[t] = Idle /\ p # Root
        /\ thread' = [thread EXCEPT ![t] = r]
    BY <1>4 DEF Receive, storeVars
  <2>2. r.todo = CallsOf(kind, p)
    OBVIOUS
  <2>3. r.todo[1].do \in {"needNoDir", "needDir", "needNoFile", "needFile"}
    BY <2>1, <2>2, CallsAre
  <2> HIDE DEF r
  <2>4. FoundAt(r.todo[1], file, objects)
    BY <2>3 DEF FoundAt
  <2>5. ~Busy(t) /\ t \in Thread /\ BucketIsTold
    BY <2>1, IdleIs DEF Busy, Thread, BucketInv
  <2> QED  BY <1>1, <2>1, <2>4, <2>5, BucketQuiet
<1>5. CASE Restart
  <2>1. /\ ~broken /\ thread' = Started
        /\ \A t \in Thread : Busy(t) => thread[t].todo[1].do \in {"ensureRoot", "putDir", "putList"}
    BY <1>1, <1>5, RestartFinds
  <2>2. UNCHANGED <<file, objects>>
    BY <1>5 DEF Restart, storeVars
  <2>3. ToldAt(file, objects, thread)
    BY <2>1, ToldIs DEF BucketInv
  <2>4. \A t \in Thread : thread'[t].todo # << >> => thread'[t].todo[1] = Call("ensureRoot", Root)
    BY <2>1, IdleIs DEF Started
  <2>5. \A t \in Thread : thread'[t].todo # << >> => FoundAt(thread'[t].todo[1], file, objects)
    BY <2>4 DEF FoundAt, Call
  <2>6. ToldAt(file, objects, thread')
    BY <2>1, <2>3, <2>5 DEF ToldAt, Busy
  <2> QED  BY <2>2, <2>6, ToldIs
<1>6. ASSUME NEW c \in late, Land(c) PROVE BucketIsTold'
  BY <1>6, LandBroken DEF BucketInv
<1> QED  BY <1>2, <1>3, <1>4, <1>5, <1>6 DEF Next

LEMMA BucketInvStart == ASSUME Init PROVE BucketInv
<1>1. thread = Started /\ objects = {} /\ file = [p \in Path |-> NoFile]
  BY DEF Init, Started
<1>2. \A t \in Thread : thread[t].todo # << >> => thread[t].todo[1] = Call("ensureRoot", Root)
  BY <1>1, IdleIs DEF Started
<1>3. \A t \in Thread : thread[t].todo # << >> => FoundAt(thread[t].todo[1], file, objects)
  BY <1>2 DEF FoundAt, Call
<1>4. ToldAt(file, objects, thread)
  BY <1>1, <1>3 DEF ToldAt
<1> QED  BY <1>4, ToldIs, ThreadInvStart DEF BucketInv

\* When requests in flight are on different directories, every file in the store has its
\* object in the bucket and every object its file, whenever no request is in flight and
\* none was cut short: uploadFile and deleteFile (service_fs.cpp) touch both in an order
\* that leaves no difference behind, a failed call to S3 included.
THEOREM BucketMatches == ASSUME Apart PROVE Spec => []ObjectsMatchFiles
<1>1. Init => BucketInv
  BY BucketInvStart
<1>2. BucketInv /\ [Next]_vars => BucketInv'
  BY BucketInvStep
<1>3. BucketInv => ObjectsMatchFiles
  <2> SUFFICES ASSUME BucketInv, Quiet, ~broken
               PROVE  objects = {file[p] : p \in Path} \ {NoFile}
    BY DEF ObjectsMatchFiles
  <2>1. ToldAt(file, objects, thread) /\ \A t \in Thread : thread[t].todo = << >>
    BY ToldIs, IdleIs DEF BucketInv, Quiet
  <2>2. NoFile \notin objects
    BY KeyAssumption, TypesAre DEF BucketInv, ThreadInv, StoreTypes
  <2> QED  BY <2>1, <2>2 DEF ToldAt
<1> QED  BY <1>1, <1>2, <1>3, PTL DEF Spec
=============================================================================
