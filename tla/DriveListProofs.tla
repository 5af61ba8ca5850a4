------------------------- MODULE DriveListProofs --------------------------
(***************************************************************************)
(* Every file and directory in the store of module Drive is named in its   *)
(* parent's list, when no request is in flight and none was cut short, for *)
(* every set of paths and every number of threads; the drive is the tree   *)
(* of module FileTree; and nothing that clients see vanishes.              *)
(***************************************************************************)
EXTENDS DriveProofs

(* The lists.                                                              *)

LEMMA ListsIs ==
  /\ ListsAreTold <=> ListsToldIn(dirs, file, children, thread)
  /\ ListsAreTold' <=> ListsToldIn(dirs', file', children', thread')
BY DEF ListsAreTold

LEMMA SamePath ==
  ASSUME NEW p \in Path \ {Root}, NEW q \in Path \ {Root}, Parent(p) = Parent(q), Name(p) = Name(q)
  PROVE  p = q
BY ParentIs

\* A thread that adds a name to a list has that list for itself.
LEMMA NobodyElseLists ==
  ASSUME Apart, ThreadInv, NEW t \in Thread, NEW u \in Thread, t # u, Busy(t),
         NEW p \in Path, IsPrefix(thread[t].path, p), NEW q \in Path \ {Root},
         Listing(thread[u].todo, q)
  PROVE  p # Root /\ Parent(q) # p /\ Parent(q) # Parent(p)
<1> DEFINE d == thread[u].todo
           P == thread[t].path
           Q == thread[u].path
<1>1. Busy(u)
  BY DEF Listing, Busy
<1>2. AreApart(P, Q) /\ P \in Path \ {Root} /\ Q \in Path \ {Root}
  BY <1>1, ApartThreads
<1>3. 1 \in DOMAIN d /\ d \in Seq(AnyCall)
  BY <1>1, TodoIs DEF Busy, ThreadInv
<1>4. Within(Q, d[1]) /\ d[1].path \in Path /\ Scripted(d)
  BY <1>3, CallWithin
<1>5. Parent(q) \in Path
  BY PathType
<1> HIDE DEF P, Q
<1>6. IsPrefix(Q, q) => Parent(q) = Parent(Q) \/ IsPrefix(Q, Parent(q))
  BY <1>2, AboveParent
<1>7. IsPrefix(Q, q) \/ Parent(q) = Parent(Q) \/ IsPrefix(Q, Parent(q))
  <2>1. CASE d[1].do = "addName" /\ d[1].path = q
    BY <1>4, <2>1 DEF Within
  <2>2. CASE d[1].do = "putList" /\ d[1].path = q /\ Len(d) > 1 /\ d[2].do = "addName"
    <3>1. 2 \in DOMAIN d /\ Len(d) >= 2
      BY <1>3, <2>2
    <3>2. d[2] = Call("addName", q) \/ d[2] = Call("dropName", q)
      BY <1>3, <1>4, <2>2, <3>1, SecondIs
    <3>3. d[2].path = q
      BY <3>2 DEF Call
    <3>4. Within(Q, d[2])
      BY <3>1, CallWithin DEF Q
    <3> QED  BY <2>2, <3>3, <3>4 DEF Within
  <2>3. CASE d[1].do = "putList" /\ d[1].path = Parent(q)
    BY <1>4, <2>3 DEF Within
  <2> QED  BY <2>1, <2>2, <2>3 DEF Listing
<1>8. IsPrefix(P, p)
  BY DEF P
<1>9. CASE Parent(q) = Parent(Q)
  BY <1>2, <1>8, <1>9, PrefixSelf, ApartPaths
<1>10. CASE IsPrefix(Q, Parent(q))
  BY <1>2, <1>5, <1>8, <1>10, ApartPaths
<1> QED  BY <1>6, <1>7, <1>9, <1>10

\* Two stores that differ in what is at p.
Differ(D, F, G, H, p) == \A q \in Path : q # p => (q \in D <=> q \in G) /\ F[q] = H[q]

LEMMA ElsewhereSame ==
  ASSUME NEW D, NEW F, NEW G, NEW H, NEW p \in Path \ {Root}, Differ(D, F, G, H, p)
  PROVE  /\ \A q \in Path : q # p => (Exists(q, D, F) <=> Exists(q, G, H))
         /\ \A x \in Path : Parent(p) # x => ChildrenOf(x, D, F) = ChildrenOf(x, G, H)
<1>1. \A q \in Path : q # p => (Exists(q, D, F) <=> Exists(q, G, H))
  BY DEF Differ, Exists
<1> QED  BY <1>1 DEF ChildrenOf

\* Other requests do not notice a step that puts or clears what is at one path.
LEMMA ListOthers ==
  ASSUME Apart, ThreadInv, ListsAreTold, NEW t \in Thread, Busy(t),
         NEW p \in Path, p = thread[t].todo[1].path, thread[t].todo[1].do # "putList",
         NEW D, NEW F, Differ(dirs, file, D, F, p), NEW u \in Thread, u # t
  PROVE  /\ thread[u].todo # << >> => ListFound(thread[u].todo, D, F)
         /\ Emptied(thread[u].todo, D, F)
<1> DEFINE e == thread[u].todo
           P == thread[t].path
           Q == thread[u].path
<1>0. e # << >> => ListFound(e, dirs, file)
  BY ListsIs DEF ListsToldIn
<1>1. Emptied(e, dirs, file)
  BY ListsIs DEF ListsToldIn
<1>2. CASE e = << >>
  BY <1>2 DEF Emptied
<1>3. CASE e # << >>
  <2>1. Busy(u) /\ AreApart(P, Q) /\ P \in Path \ {Root} /\ Q \in Path \ {Root}
    BY <1>3, ApartThreads DEF Busy
  <2>2. 1 \in DOMAIN thread[t].todo /\ 1 \in DOMAIN e /\ e \in Seq(AnyCall)
    BY <1>3, TodoIs DEF Busy, ThreadInv
  <2>3. IsPrefix(P, p)
    BY <2>2, CallWithin DEF Within
  <2>4. \A i \in DOMAIN e : e[i].path \in Path /\ Within(Q, e[i])
    BY CallWithin
  <2>5. Scripted(e)
    BY <2>2, CallWithin
  <2> HIDE DEF P, Q
  <2>6. p # Root
    BY <2>1, <2>3, PrefixSelf, ApartPaths
  <2>7. ASSUME NEW x \in Path, IsPrefix(Q, x)
        PROVE  /\ x # p /\ x # Root /\ Parent(x) # p /\ Parent(x) \in Path /\ Parent(p) # x
    BY <2>1, <2>3, <2>7, ApartPaths, PathType
  <2>8. ASSUME NEW x \in Path, IsPrefix(Q, x)
        PROVE  /\ Exists(x, D, F) <=> Exists(x, dirs, file)
               /\ F[x] = file[x] /\ (x \in D <=> x \in dirs)
               /\ Parent(x) \in D <=> Parent(x) \in dirs
               /\ ChildrenOf(x, D, F) = ChildrenOf(x, dirs, file)
    <3>1. x # p /\ Parent(x) # p /\ Parent(x) \in Path /\ Parent(p) # x
      BY <2>7, <2>8
    <3>2. Exists(x, D, F) <=> Exists(x, dirs, file)
      BY <2>6, <3>1, ElsewhereSame
    <3>3. ChildrenOf(x, D, F) = ChildrenOf(x, dirs, file)
      BY <2>6, <3>1, ElsewhereSame
    <3>4. F[x] = file[x] /\ (x \in D <=> x \in dirs) /\ (Parent(x) \in D <=> Parent(x) \in dirs)
      BY <3>1 DEF Differ
    <3> QED  BY <3>2, <3>3, <3>4
  <2>9. ChildrenOf(Parent(Q), D, F) = ChildrenOf(Parent(Q), dirs, file)
    <3>1. Parent(p) # Parent(Q) /\ Parent(Q) \in Path
      BY <2>1, <2>3, PrefixSelf, ApartPaths, PathType
    <3> QED  BY <2>6, <3>1, ElsewhereSame
  <2>10. e[1].path \in Path /\ (IsPrefix(Q, e[1].path) \/ (e[1].do = "putList" /\ e[1].path = Parent(Q)))
    BY <2>2, <2>4 DEF Within
  <2>11. e[1].do = "putList" /\ Len(e) > 1 /\ e[2].do = "dropName" =>
            e[2].path \in Path /\ IsPrefix(Q, e[2].path)
    <3> SUFFICES ASSUME e[1].do = "putList", Len(e) > 1, e[2].do = "dropName"
                 PROVE  e[2].path \in Path /\ IsPrefix(Q, e[2].path)
      OBVIOUS
    <3>1. 2 \in DOMAIN e
      BY <2>2
    <3> QED  BY <2>4, <3>1 DEF Within
  <2>12. ListFound(e, D, F)
    <3> HIDE DEF e
    <3>1. CASE IsPrefix(Q, e[1].path)
      BY <1>0, <1>3, <2>8, <2>10, <2>11, <3>1 DEF ListFound
    <3>2. CASE e[1].do = "putList" /\ e[1].path = Parent(Q)
      BY <1>0, <1>3, <2>8, <2>9, <2>11, <3>2 DEF ListFound
    <3> QED  BY <2>10, <3>1, <3>2
  <2>13. Emptied(e, D, F)
    <3> HIDE DEF e
    <3> SUFFICES ASSUME NEW i \in DOMAIN e, e[i].do = "stillDir"
                 PROVE  /\ e[i].path \in D \/ (e[1].do = "needDir" /\ e[1].path = e[i].path)
                        /\ \A q \in ChildrenOf(e[i].path, D, F) : \E j \in 1 .. i - 1 : Deletes(e[j], q)
      BY DEF Emptied
    <3>1. e[i].path \in Path /\ IsPrefix(Q, e[i].path)
      BY <2>4 DEF Within, e
    <3> QED  BY <1>1, <2>8, <3>1 DEF Emptied
  <2> QED  BY <2>12, <2>13 DEF e
<1> QED  BY <1>2, <1>3 DEF e

\* A thread that goes on with cs still empties every directory before it deletes it,
\* when cs and what follows see to all that its first call saw to.
LEMMA EmptiedOn ==
  ASSUME NEW d \in Seq(AnyCall), d # << >>, NEW cs \in Seq(AnyCall),
         NEW D, NEW F, NEW G, NEW H, Emptied(d, D, F), Emptied(cs, G, H),
         \A q \in Path : Exists(q, G, H) => Exists(q, D, F),
         \A i \in DOMAIN d : i > 1 /\ d[i].do = "stillDir" => d[i].path \in G,
         \A i \in DOMAIN d : i > 1 /\ d[i].do = "stillDir" =>
           \A q \in ChildrenOf(d[i].path, G, H) : Deletes(d[1], q) =>
             \/ \E j \in DOMAIN cs : Deletes(cs[j], q)
             \/ i > 2 /\ Deletes(d[2], q)
  PROVE  Emptied(cs \o Tail(d), G, H)
<1> DEFINE n == cs \o Tail(d)
           k == Len(cs)
<1>1. /\ DOMAIN n = 1 .. Len(n) /\ k \in Nat /\ Len(n) \in Nat /\ Len(d) \in Nat \ {0}
      /\ \A i \in 1 .. k : n[i] = cs[i]
      /\ \A i \in 2 .. Len(d) : n[k + i - 1] = d[i]
      /\ \A i \in 1 .. Len(n) : i > k => n[i] = d[i - k + 1] /\ i - k + 1 \in 2 .. Len(d)
      /\ DOMAIN d = 1 .. Len(d) /\ DOMAIN cs = 1 .. k
  <2>1. n \in Seq(AnyCall)
    BY GoingOn
  <2> QED  BY <2>1, GoingOn
<1> HIDE DEF n, k
<1> SUFFICES ASSUME NEW m \in 1 .. Len(n), n[m].do = "stillDir"
             PROVE  /\ n[m].path \in G \/ (n[1].do = "needDir" /\ n[1].path = n[m].path)
                    /\ \A q \in ChildrenOf(n[m].path, G, H) : \E j \in 1 .. m - 1 : Deletes(n[j], q)
  BY <1>1 DEF Emptied, n
<1>2. CASE m <= k
  <2>1. m \in DOMAIN cs /\ n[m] = cs[m] /\ n[1] = cs[1]
    BY <1>1, <1>2
  <2>2. \A j \in 1 .. m - 1 : n[j] = cs[j]
    BY <1>1, <1>2
  <2> QED  BY <2>1, <2>2 DEF Emptied
<1>3. CASE m > k
  <2> DEFINE i == m - k + 1
  <2>1. n[m] = d[i] /\ i \in DOMAIN d /\ i > 1 /\ i \in Nat /\ m = k + i - 1
    BY <1>1, <1>3
  <2> HIDE DEF i
  <2>2. n[m].path \in G
    BY <2>1
  <2>3. ASSUME NEW q \in ChildrenOf(n[m].path, G, H) PROVE \E j \in 1 .. m - 1 : Deletes(n[j], q)
    <3>1. q \in ChildrenOf(d[i].path, D, F)
      BY <2>1, <2>3 DEF ChildrenOf
    <3>2. PICK j \in 1 .. i - 1 : Deletes(d[j], q)
      BY <2>1, <3>1 DEF Emptied
    <3>3. ASSUME NEW l \in 2 .. i - 1, Deletes(d[l], q) PROVE \E x \in 1 .. m - 1 : Deletes(n[x], q)
      <4>1. l \in 2 .. Len(d) /\ k + l - 1 \in 1 .. m - 1
        BY <1>1, <2>1
      <4>2. n[k + l - 1] = d[l]
        BY <1>1, <4>1
      <4> QED  BY <3>3, <4>1, <4>2
    <3>4. CASE j # 1
      <4>1. j \in 2 .. i - 1
        BY <2>1, <3>4
      <4> QED  BY <3>2, <3>3, <4>1
    <3>5. CASE j = 1
      <4>1. \/ \E x \in DOMAIN cs : Deletes(cs[x], q)
            \/ i > 2 /\ Deletes(d[2], q)
        BY <2>1, <2>3, <3>2, <3>5
      <4>2. CASE \E x \in DOMAIN cs : Deletes(cs[x], q)
        <5>1. PICK x \in 1 .. k : Deletes(cs[x], q)
          BY <1>1, <4>2
        <5>2. n[x] = cs[x] /\ x \in 1 .. m - 1
          BY <1>1, <2>1, <1>3
        <5> QED  BY <5>1, <5>2
      <4>3. CASE i > 2 /\ Deletes(d[2], q)
        <5>1. 2 \in 2 .. i - 1
          BY <2>1, <4>3
        <5> QED  BY <3>3, <4>3, <5>1
      <4> QED  BY <4>1, <4>2, <4>3
    <3> QED  BY <3>4, <3>5
  <2> QED  BY <2>2, <2>3
<1> QED  BY <1>1, <1>2, <1>3

\* Requests that create something delete no directory.
LEMMA NothingEmptied ==
  ASSUME NEW d \in Seq(AnyCall), d # << >>, Scripted(d), d[1].do \in {"putDir", "putFile"},
         NEW D, NEW F
  PROVE  Emptied(<< >> \o Tail(d), D, F)
<1> DEFINE p == d[1].path
<1>1. Len(d) \in Nat \ {0} /\ DOMAIN d = 1 .. Len(d)
  OBVIOUS
<1>2. \A i \in 2 .. Len(d) : d[i] = Call("putList", p) \/ d[i] = Call("addName", p)
  <2>1. CASE d[1].do = "putDir" /\ p = Root
    <3>1. Ends(d, <<Call("putDir", p), Call("putList", p)>>)
      BY <2>1, MakeDirIs DEF Scripted
    <3>2. Len(d) = 2 /\ d[2] = Call("putList", p)
      BY <3>1, ShapeIs
    <3>3. \A i \in 2 .. 2 : i = 2
      OBVIOUS
    <3> QED  BY <3>2, <3>3
  <2>2. CASE d[1].do = "putDir" /\ p # Root
    <3>1. Ends(d, <<Call("putDir", p), Call("putList", p), Call("addName", p)>>)
      BY <2>2, MakeDirIs DEF Scripted
    <3>2. Len(d) = 3 /\ d[2] = Call("putList", p) /\ d[3] = Call("addName", p)
      BY <3>1, ShapeIs
    <3>3. \A i \in 2 .. 3 : i = 2 \/ i = 3
      OBVIOUS
    <3> QED  BY <3>2, <3>3
  <2>3. CASE d[1].do = "putFile"
    <3>1. Ends(d, <<d[1], Call("addName", p)>>)
      BY <2>3 DEF Scripted
    <3>2. Len(d) = 2 /\ d[2] = Call("addName", p)
      BY <3>1, ShapeIs
    <3>3. \A i \in 2 .. 2 : i = 2
      OBVIOUS
    <3> QED  BY <3>2, <3>3
  <2> QED  BY <2>1, <2>2, <2>3
<1> DEFINE n == << >> \o Tail(d)
<1>3. /\ DOMAIN n = 1 .. Len(n)
      /\ \A i \in 1 .. Len(n) : \E j \in 2 .. Len(d) : n[i] = d[j]
  <2>1. << >> \in Seq(AnyCall) /\ Len(<< >>) = 0
    OBVIOUS
  <2>2. /\ DOMAIN n = 1 .. Len(n)
        /\ \A i \in 1 .. Len(n) : i > 0 => n[i] = d[i - 0 + 1] /\ i - 0 + 1 \in 2 .. Len(d)
    BY <2>1, GoingOn
  <2> QED  BY <2>2
<1> HIDE DEF n
<1>4. \A i \in DOMAIN n : n[i].do # "stillDir"
  <2> SUFFICES ASSUME NEW i \in DOMAIN n PROVE n[i].do # "stillDir"
    OBVIOUS
  <2>1. PICK j \in 2 .. Len(d) : n[i] = d[j]
    BY <1>3
  <2>2. n[i] = Call("putList", p) \/ n[i] = Call("addName", p)
    BY <1>2, <2>1
  <2> QED  BY <2>2 DEF Call
<1> QED  BY <1>4 DEF Emptied, n

\* What a step of t makes of the lists, from what it makes of t's own.
ListedIn(D, F, C, th) ==
  \A q \in Path : Exists(q, D, F) =>
    Name(q) \in ToSet(C[Parent(q)]) \/ \E t \in Thread : Listing(th[t].todo, q)

LEMMA ListCarried ==
  ASSUME ListsAreTold, NEW t \in Thread, Busy(t), thread[t].todo[1].do \notin {"addName", "putList"},
         NEW p \in Path, NEW D, NEW F, NEW th, Differ(dirs, file, D, F, p),
         \A u \in Thread : u # t => th[u] = thread[u],
         Exists(p, D, F) => Exists(p, dirs, file) \/ Listing(th[t].todo, p)
  PROVE  ListedIn(D, F, children, th)
<1> SUFFICES ASSUME NEW q \in Path, Exists(q, D, F), Name(q) \notin ToSet(children[Parent(q)])
             PROVE  \E u \in Thread : Listing(th[u].todo, q)
  BY DEF ListedIn
<1>1. CASE Exists(q, dirs, file)
  <2>1. PICK u \in Thread : Listing(thread[u].todo, q)
    BY <1>1, ListsIs DEF ListsToldIn
  <2>2. u # t
    BY <2>1 DEF Listing
  <2> QED  BY <2>1, <2>2
<1>2. CASE ~Exists(q, dirs, file)
  <2>1. q = p
    BY <1>2 DEF Differ, Exists
  <2> QED  BY <1>2, <2>1
<1> QED  BY <1>1, <1>2

LEMMA RootOthers ==
  ASSUME ThreadInv, ListsAreTold, NEW t \in Worker, Busy(t), NEW D, NEW F,
         Root \in dirs => Root \in D
  PROVE  t # Main /\ RootIsMade(thread[Main].todo, D, F)
<1>1. thread[t] # Idle
  BY IdleIs DEF Busy
<1>2. thread[Main] = Idle
  BY <1>1 DEF ThreadInv, ThreadsAreScripted
<1>3. thread[Main].todo = << >>
  BY <1>2, IdleIs
<1>4. Root \in dirs
  BY <1>3, ListsIs DEF ListsToldIn, RootIsMade
<1> QED  BY <1>3, <1>4, ThreadAssumption DEF RootIsMade

LEMMA ListJoin ==
  ASSUME Apart, ThreadInv, ListsAreTold, NEW t \in Thread, Busy(t),
         NEW p \in Path, p = thread[t].todo[1].path,
         NEW D, NEW F, NEW C, NEW th, Differ(dirs, file, D, F, p),
         thread[t].todo[1].do = "putList" => D = dirs /\ F = file,
         \A u \in Thread : u # t => th[u] = thread[u],
         F[Root] = NoFile, p \in D => F[p] = NoFile, D \subseteq Path,
         Exists(p, D, F) => Parent(p) \in D,
         p \in dirs /\ p \notin D => ChildrenOf(p, dirs, file) = {},
         Root \in dirs => Root \in D,
         ListedIn(D, F, C, th),
         th[t].todo # << >> => ListFound(th[t].todo, D, F),
         Emptied(th[t].todo, D, F),
         t = Main => RootIsMade(th[Main].todo, D, F)
  PROVE  ListsToldIn(D, F, C, th)
<1>1. ListsToldIn(dirs, file, children, thread)
  BY ListsIs
<1>2. \A q \in D : F[q] = NoFile
  BY <1>1 DEF ListsToldIn, Differ
<1>3. ASSUME NEW q \in Path, Exists(q, D, F) PROVE Parent(q) \in D
  <2>1. CASE q = p
    BY <1>3, <2>1
  <2>2. CASE q # p
    <3>1. Exists(q, dirs, file) /\ q # Root
      BY <1>3, <2>2 DEF Differ, Exists
    <3>2. Parent(q) \in dirs /\ Parent(q) \in Path
      BY <1>1, <3>1, PathType DEF ListsToldIn
    <3>3. Parent(q) = p => q \in ChildrenOf(p, dirs, file)
      BY <3>1 DEF ChildrenOf
    <3> QED  BY <3>2, <3>3 DEF Differ
  <2> QED  BY <2>1, <2>2
<1>4. ASSUME NEW u \in Thread, u # t
      PROVE  /\ thread[u].todo # << >> => ListFound(thread[u].todo, D, F)
             /\ Emptied(thread[u].todo, D, F)
  <2>1. CASE thread[t].todo[1].do = "putList"
    BY <1>1, <2>1 DEF ListsToldIn
  <2>2. CASE thread[t].todo[1].do # "putList"
    BY <1>4, <2>2, ListOthers
  <2> QED  BY <2>1, <2>2
<1>5. RootIsMade(th[Main].todo, D, F)
  <2>1. CASE t = Main
    BY <2>1
  <2>2. CASE t # Main
    <3>1. t \in Worker /\ Main \in Thread
      BY <2>2 DEF Thread
    <3>2. RootIsMade(thread[Main].todo, D, F)
      BY <3>1, RootOthers
    <3> QED  BY <2>2, <3>1, <3>2
  <2> QED  BY <2>1, <2>2
<1>6. \A u \in Thread : /\ th[u].todo # << >> => ListFound(th[u].todo, D, F)
                        /\ Emptied(th[u].todo, D, F)
  BY <1>4
<1> QED  BY <1>2, <1>3, <1>5, <1>6 DEF ListsToldIn, ListedIn

\* A step that does not touch the store.
LEMMA ListQuiet ==
  ASSUME ThreadInv, ListsAreTold, NEW t \in Thread, NEW s, thread' = [thread EXCEPT ![t] = s],
         UNCHANGED <<dirs, file, children>>,
         \A q \in Path : Listing(thread[t].todo, q) => Listing(s.todo, q),
         s.todo # << >> => ListFound(s.todo, dirs, file),
         Emptied(s.todo, dirs, file),
         t = Main => RootIsMade(s.todo, dirs, file)
  PROVE  ListsAreTold'
<1>1. thread \in [Thread -> ThreadState] /\ ListsToldIn(dirs, file, children, thread)
  BY ListsIs DEF ThreadInv, DriveTypes
<1>2. thread'[t] = s /\ \A u \in Thread : u # t => thread'[u] = thread[u]
  BY <1>1
<1>3. \A u \in Thread : /\ thread'[u].todo # << >> => ListFound(thread'[u].todo, dirs, file)
                        /\ Emptied(thread'[u].todo, dirs, file)
  BY <1>1, <1>2 DEF ListsToldIn
<1>4. RootIsMade(thread'[Main].todo, dirs, file)
  BY <1>1, <1>2 DEF ListsToldIn, Thread
<1>5. \A q \in Path : \A u \in Thread : Listing(thread[u].todo, q) => Listing(thread'[u].todo, q)
  BY <1>2
<1>6. ListsToldIn(dirs, file, children, thread')
  BY <1>1, <1>3, <1>4, <1>5 DEF ListsToldIn
<1> QED  BY <1>6, ListsIs

LEMMA ListIdle ==
  ASSUME ThreadInv, ListsAreTold, NEW t \in Thread, thread' = [thread EXCEPT ![t] = Idle],
         UNCHANGED <<dirs, file, children>>,
         Busy(t) => thread[t].todo[1].do \notin {"ensureRoot", "putDir", "addName", "putList"}
  PROVE  ListsAreTold'
<1>1. Idle.todo = << >>
  BY IdleIs
<1>2. Emptied(Idle.todo, dirs, file)
  BY <1>1 DEF Emptied
<1>3. \A q \in Path : ~Listing(thread[t].todo, q)
  BY DEF Listing, Busy
<1>4. t = Main => RootIsMade(Idle.todo, dirs, file)
  <2>1. RootIsMade(thread[Main].todo, dirs, file)
    BY ListsIs DEF ListsToldIn
  <2> QED  BY <1>1, <2>1 DEF RootIsMade, Busy
<1> QED  BY <1>1, <1>2, <1>3, <1>4, ListQuiet

\* A call that reads, and does not add to a list.
LEMMA ListRead ==
  ASSUME ThreadInv, ListsAreTold, NEW t \in Thread, Busy(t), NEW cs, Answer(thread[t].todo[1], cs),
         thread' = [thread EXCEPT ![t] = Going(t, cs)], UNCHANGED <<dirs, file, children>>,
         LET d == thread[t].todo
             n == thread'[t].todo
         IN /\ d[1].do # "putList"
            /\ \A q \in Path : Listing(d, q) => Listing(n, q)
            /\ n # << >> => ListFound(n, dirs, file)
            /\ Emptied(cs, dirs, file)
            /\ d[1].do = "needDir" => d[1].path \in dirs
            /\ \A q \in Path : Exists(q, dirs, file) /\ Deletes(d[1], q) =>
                 \/ \E j \in DOMAIN cs : Deletes(cs[j], q)
                 \/ \A i \in DOMAIN d : d[i].do = "stillDir" /\ d[i].path = Parent(q) =>
                      i > 2 /\ Deletes(d[2], q)
            /\ t = Main => RootIsMade(n, dirs, file)
  PROVE  ListsAreTold'
<1> DEFINE d == thread[t].todo
           n == thread'[t].todo
<1>1. d \in Seq(AnyCall) /\ d[1] \in AnyCall
  BY TodoIs DEF Busy, ThreadInv
<1>2. cs \in Seq(AnyCall)
  BY <1>1, AnswerIs
<1>3. n = cs \o Tail(d)
  BY <1>2, GoesIs
<1>4. Emptied(d, dirs, file)
  BY ListsIs DEF ListsToldIn
<1>5. d # << >>
  BY DEF Busy
<1>6. \A i \in DOMAIN d : i > 1 /\ d[i].do = "stillDir" => d[i].path \in dirs
  BY <1>4 DEF Emptied
<1>7. \A i \in DOMAIN d : i > 1 /\ d[i].do = "stillDir" =>
        \A q \in ChildrenOf(d[i].path, dirs, file) : Deletes(d[1], q) =>
          \/ \E j \in DOMAIN cs : Deletes(cs[j], q)
          \/ i > 2 /\ Deletes(d[2], q)
  BY DEF ChildrenOf
<1>8. Emptied(cs, dirs, file)
  OBVIOUS
<1>9. Emptied(n, dirs, file)
  <2> HIDE DEF d, n
  <2> QED  BY <1>1, <1>2, <1>3, <1>4, <1>5, <1>6, <1>7, <1>8, EmptiedOn
<1>10. thread' = [thread EXCEPT ![t] = thread'[t]]
  BY DEF ThreadInv, DriveTypes
<1> QED  BY <1>9, <1>10, ListQuiet

LEMMA CallGives ==
  \A do, p : Call(do, p).do = do /\ Call(do, p).path = p /\ Call(do, p).list = << >>
BY DEF Call

LEMMA DeleteDirEmpties == \A p, D, F : Emptied(DeleteDir(p), D, F)
<1> SUFFICES ASSUME NEW p, NEW D, NEW F PROVE Emptied(DeleteDir(p), D, F)
  OBVIOUS
<1> DEFINE cs == DeleteDir(p)
<1>1. /\ DOMAIN cs = {1, 2, 3} /\ cs[1] = Call("needDir", p) /\ cs[2] = Call("walk", p)
      /\ cs[3] = Call("stillDir", p)
  BY DEF DeleteDir
<1> HIDE DEF cs
<1>2. /\ cs[1].do = "needDir" /\ cs[1].path = p /\ cs[2].do = "walk" /\ cs[3].path = p
      /\ 1 \in 1 .. 3 - 1
  BY <1>1, CallGives
<1>3. ASSUME NEW i \in DOMAIN cs, cs[i].do = "stillDir" PROVE i = 3
  BY <1>1, <1>2, <1>3
<1>4. \A q \in ChildrenOf(p, D, F) : Deletes(cs[1], q)
  BY <1>2 DEF ChildrenOf, Deletes
<1> QED  BY <1>2, <1>3, <1>4 DEF Emptied, cs

LEMMA AnswerEmpties ==
  ASSUME NEW c \in AnyCall, NEW cs, Answer(c, cs), NEW D, NEW F
  PROVE  Emptied(cs, D, F)
<1> DEFINE p == c.path
           Safe(l) == \A i \in DOMAIN l : l[i].do # "stillDir"
<1>1. \A l : Safe(l) => Emptied(l, D, F)
  BY DEF Emptied
<1>2. p \in Path /\ (p = Root => c.do \in {"ensureRoot", "putDir", "putList"}) /\ (c.do = "ensureRoot" => p = Root)
  BY DEF AnyCall
<1>3. \A o, do, q : With(o, do, q).do = do
  BY DEF With, Call
<1> HIDE DEF p
<1>4. CASE cs = << >>
  BY <1>1, <1>4
<1>5. CASE c.do = "ensureRoot" /\ cs = MakeDir(p)
  <2>1. cs = <<Call("putDir", p), Call("putList", p)>>
    BY <1>2, <1>5, MakeDirIs
  <2>2. DOMAIN cs = {1, 2} /\ cs[1].do = "putDir" /\ cs[2].do = "putList"
    BY <2>1, CallGives
  <2>3. Safe(cs)
    BY <2>2
  <2> QED  BY <1>1, <2>3
<1>6. CASE c.do = "visitDir" /\ cs = DeleteDir(p)
  BY <1>6, DeleteDirEmpties
<1>7. CASE c.do = "stillDir" /\ cs = <<Call("clearDir", p), Call("putList", p), Call("dropName", p)>>
  <2>1. DOMAIN cs = {1, 2, 3} /\ cs[1].do = "clearDir" /\ cs[2].do = "putList" /\ cs[3].do = "dropName"
    BY <1>7, CallGives
  <2>2. Safe(cs)
    BY <2>1
  <2> QED  BY <1>1, <2>2
<1>8. CASE c.do = "stillFile" /\ cs = <<Call("clearFile", p), Call("dropName", p)>>
  <2>1. DOMAIN cs = {1, 2} /\ cs[1].do = "clearFile" /\ cs[2].do = "dropName"
    BY <1>8, CallGives
  <2>2. Safe(cs)
    BY <2>1
  <2> QED  BY <1>1, <2>2
<1>9. CASE c.do = "needNoFile" /\ \E o \in KeysOf(p) : cs = Store(p, o)
  <2>1. PICK o : cs = Store(p, o)
    BY <1>9
  <2>2. cs = <<With(o, "putObject", p), With(o, "putFile", p), Call("addName", p)>>
    BY <1>2, <1>9, <2>1, MakeDirIs
  <2>3. DOMAIN cs = {1, 2, 3} /\ cs[1].do = "putObject" /\ cs[2].do = "putFile" /\ cs[3].do = "addName"
    BY <1>3, <2>2, CallGives
  <2>4. Safe(cs)
    BY <2>3
  <2> QED  BY <1>1, <2>4
<1>10. CASE c.do = "needFile" /\ \E o \in KeysOf(p) : cs = <<With(o, "dropObject", p)>>
  <2>1. DOMAIN cs = {1} /\ cs[1].do = "dropObject"
    BY <1>3, <1>10
  <2>2. Safe(cs)
    BY <2>1
  <2> QED  BY <1>1, <2>2
<1>11. CASE c.do = "visitFile" /\ cs \in {DeleteFile(p), <<Call("visitDir", p)>>}
  <2>1. CASE cs = DeleteFile(p)
    <3>1. DOMAIN cs = {1, 2} /\ cs[1].do = "needFile" /\ cs[2].do = "stillFile"
      BY <2>1, CallGives DEF DeleteFile
    <3>2. Safe(cs)
      BY <3>1
    <3> QED  BY <1>1, <3>2
  <2>2. CASE cs = <<Call("visitDir", p)>>
    <3>1. DOMAIN cs = {1} /\ cs[1].do = "visitDir"
      BY <2>2, CallGives
    <3>2. Safe(cs)
      BY <3>1
    <3> QED  BY <1>1, <3>2
  <2> QED  BY <1>11, <2>1, <2>2
<1>12. CASE c.do = "walk" /\ \E names \in Seq(Names) : NameChildren(p, names) /\ cs = Visits(p, names)
  <2>1. PICK names \in Seq(Names) : NameChildren(p, names) /\ cs = Visits(p, names)
    BY <1>12
  <2>2. Safe(cs)
    BY <1>2, <1>12, <2>1, VisitsAre
  <2> QED  BY <1>1, <2>2
<1>13. CASE c.do \in {"addName", "dropName"} /\ \E names \in Seq(Names) :
              NameChildren(Parent(p), names) /\ cs = <<PutList(Parent(p), names)>>
  <2>1. PICK names : cs = <<PutList(Parent(p), names)>>
    BY <1>13
  <2>2. PutList(Parent(p), names).do = "putList"
    BY DEF PutList, Call
  <2>3. DOMAIN cs = {1} /\ cs[1].do = "putList"
    BY <2>1, <2>2
  <2>4. Safe(cs)
    BY <2>3
  <2> QED  BY <1>1, <2>4
<1> QED  BY <1>4, <1>5, <1>6, <1>7, <1>8, <1>9, <1>10, <1>11, <1>12, <1>13 DEF Answer, p

\* The call of t that comes first.
LEMMA HeadIs ==
  ASSUME ThreadInv, NEW t \in Thread
  PROVE  LET d == thread[t].todo  c == d[1]  p == c.path
         IN /\ \A do : At(t, do) => Busy(t) /\ c.do = do
            /\ Busy(t) => /\ d # << >> /\ d \in Seq(AnyCall) /\ 1 \in DOMAIN d /\ Len(d) \in Nat \ {0}
                          /\ DOMAIN d = 1 .. Len(d)
                          /\ c \in AnyCall /\ p \in Path /\ This(t) = c /\ PathOf(t) = p
                          /\ Scripted(d) /\ Nested(d) /\ Within(thread[t].path, c)
                          /\ t = Main => c.do \in {"ensureRoot", "putDir", "putList"} /\ p = Root
                          /\ p = Root => c.do \in {"ensureRoot", "putDir", "putList"}
                          /\ c.do = "ensureRoot" => p = Root
<1> DEFINE d == thread[t].todo
           c == d[1]
           p == c.path
<1>1. ASSUME Busy(t)
      PROVE  /\ d # << >> /\ d \in Seq(AnyCall) /\ c \in AnyCall /\ p \in Path /\ This(t) = c /\ PathOf(t) = p
             /\ 1 \in DOMAIN d /\ Scripted(d) /\ Nested(d) /\ Within(thread[t].path, c)
             /\ (\A do : At(t, do) <=> c.do = do)
  <2>1. d \in Seq(AnyCall) /\ c \in AnyCall /\ p \in Path /\ This(t) = c /\ PathOf(t) = p /\ 1 \in DOMAIN d
        /\ (\A do : At(t, do) <=> c.do = do)
    BY <1>1, TodoIs DEF Busy, ThreadInv
  <2> QED  BY <1>1, <2>1, CallWithin DEF Busy
<1>2. \A do : At(t, do) => Busy(t)
  BY DEF At, Busy
<1>3. Busy(t) => Len(d) \in Nat \ {0} /\ DOMAIN d = 1 .. Len(d)
  BY <1>1
<1>4. Busy(t) /\ t = Main => c.do \in {"ensureRoot", "putDir", "putList"} /\ p = Root
  BY MainDoes
<1>5. Busy(t) => /\ p = Root => c.do \in {"ensureRoot", "putDir", "putList"}
                 /\ c.do = "ensureRoot" => p = Root
  BY <1>1 DEF AnyCall
<1> HIDE DEF d
<1> QED  BY <1>1, <1>2, <1>3, <1>4, <1>5 DEF d

\* The calls of a request that read the store.
LEMMA ListReads ==
  ASSUME Apart, ThreadInv, ListsAreTold, ~broken', NEW t \in Thread,
         \/ EnsureRoot(t) \/ NeedNoDir(t) \/ NeedDir(t) \/ NeedNoFile(t) \/ NeedFile(t)
         \/ StillDir(t) \/ StillFile(t) \/ VisitFile(t) \/ VisitDir(t)
  PROVE  ListsAreTold'
<1> DEFINE d == thread[t].todo
           c == d[1]
           p == c.path
           n == thread'[t].todo
           Sees(cs) == \A q \in Path : Exists(q, dirs, file) /\ Deletes(c, q) =>
                         \/ \E j \in DOMAIN cs : Deletes(cs[j], q)
                         \/ \A i \in DOMAIN d : d[i].do = "stillDir" /\ d[i].path = Parent(q) =>
                              i > 2 /\ Deletes(d[2], q)
<1>1. /\ \A do : At(t, do) => Busy(t) /\ c.do = do
      /\ Busy(t) => /\ d # << >> /\ d \in Seq(AnyCall) /\ 1 \in DOMAIN d /\ Len(d) \in Nat \ {0}
                    /\ DOMAIN d = 1 .. Len(d)
                    /\ c \in AnyCall /\ p \in Path /\ This(t) = c /\ PathOf(t) = p
                    /\ Scripted(d) /\ Nested(d) /\ Within(thread[t].path, c)
                    /\ t = Main => c.do \in {"ensureRoot", "putDir", "putList"} /\ p = Root
                    /\ p = Root => c.do \in {"ensureRoot", "putDir", "putList"}
                    /\ c.do = "ensureRoot" => p = Root
  BY HeadIs
<1>2. ListsToldIn(dirs, file, children, thread)
  BY ListsIs
<1>3. Busy(t) => ListFound(d, dirs, file) /\ Emptied(d, dirs, file)
  BY <1>2 DEF ListsToldIn, Busy
<1>4. ASSUME Busy(t), NEW cs, Answer(c, cs), thread' = [thread EXCEPT ![t] = Going(t, cs)],
             UNCHANGED <<dirs, file, children>>, c.do \notin {"ensureRoot", "putList", "addName"},
             n # << >> => ListFound(n, dirs, file), c.do = "needDir" => p \in dirs, Sees(cs)
      PROVE  ListsAreTold'
  <2>1. t # Main \/ c.do = "putDir"
    BY <1>1, <1>4
  <2>2. c.do # "putDir"
    <3> SUFFICES ASSUME c.do = "putDir" PROVE FALSE
      OBVIOUS
    <3>1. At(t, "putDir")
      BY <1>4, TodoIs DEF Busy, ThreadInv
    <3>2. \E do \in {"ensureRoot", "needNoDir", "needDir", "needNoFile", "needFile", "stillDir",
                     "stillFile", "visitFile", "visitDir"} : At(t, do)
      BY Told DEF EnsureRoot, NeedNoDir, NeedDir, NeedNoFile, NeedFile, StillDir,
         StillFile, VisitFile, VisitDir
    <3>3. PICK do \in {"ensureRoot", "needNoDir", "needDir", "needNoFile", "needFile", "stillDir",
                       "stillFile", "visitFile", "visitDir"} : At(t, do)
      BY <3>2
    <3>4. c.do = do
      BY <1>1, <3>3
    <3> QED  BY <3>3, <3>4
  <2>3. Emptied(cs, dirs, file)
    BY <1>1, <1>4, AnswerEmpties
  <2>4. \A q \in Path : Listing(d, q) => Listing(n, q)
    BY <1>4 DEF Listing
  <2>5. c.do # "putList" /\ t # Main
    BY <1>4, <2>1, <2>2
  <2> QED  BY <1>4, <2>3, <2>4, <2>5, ListRead
<1>5. ASSUME Busy(t), NEW cs, Answer(c, cs), thread' = [thread EXCEPT ![t] = Going(t, cs)]
      PROVE  /\ cs \in Seq(AnyCall)
             /\ cs # << >> => n # << >> /\ n[1] = cs[1] /\ 1 \in DOMAIN cs
             /\ cs = << >> /\ n # << >> => Len(d) >= 2 /\ n[1] = d[2] /\ 2 \in DOMAIN d
             /\ n \in Seq(AnyCall) /\ Len(n) = Len(cs) + Len(d) - 1
  <2>1. cs \in Seq(AnyCall)
    BY <1>1, <1>5, AnswerIs
  <2>2. cs # << >> => 1 \in DOMAIN cs
    BY <2>1
  <2>3. Len(d) >= 2 => 2 \in DOMAIN d
    BY <1>1, <1>5
  <2> QED  BY <1>5, <2>1, <2>2, <2>3, GoesIs
<1>6. \A q : Deletes(c, q) => \/ c.path = q /\ c.do \in {"visitFile", "visitDir", "needFile",
                                 "dropObject", "stillFile", "clearFile", "needDir", "walk", "stillDir", "clearDir"}
                              \/ c.path = Parent(q) /\ c.do \in {"needDir", "walk"}
  BY DEF Deletes
<1>7. \A do \in {"visitFile", "visitDir", "needFile", "dropObject", "stillFile", "clearFile", "needDir", "walk",
                 "stillDir", "clearDir"} : \A o : \A q : Deletes(Call(do, q), q) /\ Deletes(With(o, do, q), q)
  BY DEF Deletes, Call, With
<1> HIDE DEF d, c, p, n
<1>10. CASE EnsureRoot(t)
  <2>1. /\ At(t, "ensureRoot") /\ UNCHANGED <<dirs, file, children>>
        /\ thread' = [thread EXCEPT ![t] = IF PathOf(t) \in dirs THEN Going(t, << >>)
                                           ELSE Going(t, MakeDir(Root))]
    BY <1>10, Told DEF EnsureRoot
  <2>2. Busy(t) /\ c.do = "ensureRoot" /\ p = Root /\ PathOf(t) = Root
    BY <1>1, <2>1
  <2> DEFINE cs == IF Root \in dirs THEN << >> ELSE MakeDir(Root)
  <2>3. Answer(c, cs) /\ thread' = [thread EXCEPT ![t] = Going(t, cs)]
    BY <2>1, <2>2 DEF Answer, p
  <2>4. Len(d) = 1
    <3>1. Ends(d, <<c>>)
      BY <1>1, <2>2 DEF Scripted, c
    <3> QED  BY <1>1, <2>2, <3>1, ShapeIs
  <2>5. cs # << >> => Root \notin dirs /\ n # << >> /\ n[1] = Call("putDir", Root)
    <3>1. cs # << >> => cs[1] = Call("putDir", Root)
      BY <1>1, <2>2, <2>3, AnswerHead DEF p
    <3> QED  BY <1>5, <2>2, <2>3, <3>1
  <2>6. cs = << >> => Root \in dirs /\ n = << >>
    <3>1. MakeDir(Root) # << >>
      BY MakeDirIs
    <3>2. cs = << >> => n = << >>
      <4> HIDE DEF cs
      <4>1. n \in Seq(AnyCall) /\ Len(n) = Len(cs) + Len(d) - 1
        BY <1>5, <2>2, <2>3
      <4>2. cs = << >> => Len(cs) = 0
        OBVIOUS
      <4>3. cs = << >> => Len(n) = 0
        BY <2>4, <4>1, <4>2
      <4>4. Len(n) = 0 => n = << >>
        BY <4>1
      <4> QED  BY <4>3, <4>4
    <3> QED  BY <3>1, <3>2
  <2> HIDE DEF cs
  <2>7. ChildrenOf(Root, dirs, file) = {} \/ Root \in dirs
    BY <1>2 DEF ListsToldIn, ChildrenOf
  <2>8. n # << >> => ListFound(n, dirs, file)
    BY <2>5, <2>6, <2>7, CallGives DEF ListFound
  <2>9. RootIsMade(n, dirs, file)
    BY <2>5, <2>6, CallGives DEF RootIsMade
  <2>10. Emptied(cs, dirs, file)
    BY <1>1, <2>2, <2>3, AnswerEmpties
  <2>11. \A q \in Path : ~Listing(d, q) /\ ~Deletes(c, q)
    BY <1>6, <2>2 DEF Listing, c
  <2> QED  BY <2>1, <2>2, <2>3, <2>8, <2>9, <2>10, <2>11, ListRead DEF d, c, p, n
<1>11. CASE NeedNoDir(t)
  <2>1. /\ At(t, "needNoDir") /\ UNCHANGED <<dirs, file, children>>
        /\ thread' = [thread EXCEPT ![t] = IF PathOf(t) \in dirs THEN Idle ELSE Going(t, << >>)]
    BY <1>11, Told DEF NeedNoDir
  <2>2. Busy(t) /\ c.do = "needNoDir" /\ p \in Path \ {Root} /\ PathOf(t) = p
    BY <1>1, <2>1
  <2>3. CASE p \in dirs
    BY <2>1, <2>2, <2>3, ListIdle DEF c, d
  <2>4. CASE p \notin dirs
    <3>1. thread' = [thread EXCEPT ![t] = Going(t, << >>)] /\ Answer(c, << >>)
      BY <2>1, <2>2, <2>4 DEF Answer
    <3>2. ~Exists(p, dirs, file) /\ Parent(p) \in dirs
      BY <1>3, <2>2 DEF ListFound, c, p
    <3>3. ChildrenOf(p, dirs, file) = {}
      BY <1>2, <2>4 DEF ListsToldIn, ChildrenOf
    <3>4. n # << >> => n[1] = Call("putDir", p)
      BY <1>1, <1>5, <2>2, <3>1, SecondIs DEF c, p
    <3>5. n # << >> => ListFound(n, dirs, file)
      BY <2>4, <3>2, <3>3, <3>4, CallGives DEF ListFound
    <3>6. Sees(<< >>)
      BY <1>6, <2>2
    <3> QED  BY <1>4, <2>1, <2>2, <3>1, <3>5, <3>6
  <2> QED  BY <2>3, <2>4
<1>12. CASE NeedDir(t)
  <2>1. /\ At(t, "needDir") /\ UNCHANGED <<dirs, file, children>>
        /\ thread' = [thread EXCEPT ![t] = IF PathOf(t) \in dirs THEN Going(t, << >>) ELSE Idle]
    BY <1>12, Told DEF NeedDir
  <2>2. Busy(t) /\ c.do = "needDir" /\ p \in Path /\ PathOf(t) = p
    BY <1>1, <2>1
  <2>3. CASE p \notin dirs
    BY <2>1, <2>2, <2>3, ListIdle DEF c, d
  <2>4. CASE p \in dirs
    <3>1. thread' = [thread EXCEPT ![t] = Going(t, << >>)] /\ Answer(c, << >>)
      BY <2>1, <2>2, <2>4 DEF Answer
    <3>2. Continues(d, DeleteDir(p))
      BY <1>1, <2>2 DEF Scripted, c, p
    <3>3. d[2] = Call("walk", p) /\ Len(d) >= 3
      BY <1>1, <2>2, <3>2, ShapeIs DEF DeleteDir
    <3>4. n # << >> => n[1] = Call("walk", p)
      BY <1>5, <2>2, <3>1, <3>3
    <3>5. n # << >> => ListFound(n, dirs, file)
      BY <2>4, <3>4, CallGives DEF ListFound
    <3>6. Sees(<< >>)
      <4> SUFFICES ASSUME NEW q \in Path, Deletes(c, q), NEW i \in DOMAIN d, d[i].do = "stillDir"
                   PROVE  i > 2 /\ Deletes(d[2], q)
        OBVIOUS
      <4>1. p = q \/ p = Parent(q)
        BY <1>6 DEF p
      <4>2. Deletes(d[2], q)
        BY <3>3, <4>1, CallGives DEF Deletes
      <4>3. i # 1 /\ i # 2
        BY <2>2, <3>3, CallGives DEF c
      <4>4. i \in Nat \ {0}
        BY <1>1, <2>2
      <4> QED  BY <4>2, <4>3, <4>4
    <3> QED  BY <1>4, <2>1, <2>2, <2>4, <3>1, <3>5, <3>6
  <2> QED  BY <2>3, <2>4
<1>13. CASE NeedNoFile(t)
  <2>1. /\ At(t, "needNoFile") /\ UNCHANGED <<dirs, file, children>>
        /\ thread' = [thread EXCEPT ![t] = IF file[PathOf(t)] # NoFile THEN Idle
                                           ELSE Going(t, Store(PathOf(t), NewKey(PathOf(t))))]
    BY <1>13, Told DEF NeedNoFile
  <2>2. Busy(t) /\ c.do = "needNoFile" /\ p \in Path \ {Root} /\ PathOf(t) = p
    BY <1>1, <2>1
  <2>3. CASE file[p] # NoFile
    BY <2>1, <2>2, <2>3, ListIdle DEF c, d
  <2>4. CASE file[p] = NoFile
    <3> DEFINE o == NewKey(p)
               cs == Store(p, o)
    <3>1. o \in KeysOf(p)
      BY <2>2, NewKeyIs DEF ThreadInv
    <3>2. thread' = [thread EXCEPT ![t] = Going(t, cs)]
      BY <2>1, <2>2, <2>4
    <3>3. Answer(c, cs)
      BY <2>2, <3>1 DEF Answer, p
    <3>4. cs = <<With(o, "putObject", p), With(o, "putFile", p), Call("addName", p)>>
      BY <2>2, MakeDirIs
    <3> HIDE DEF o, cs
    <3>5. n[1] = With(o, "putObject", p)
      <4>1. cs # << >> /\ cs[1] = With(o, "putObject", p)
        BY <3>4
      <4> QED  BY <1>5, <2>2, <3>2, <3>3, <4>1
    <3>6. ~Exists(p, dirs, file) /\ Parent(p) \in dirs
      BY <1>3, <2>2 DEF ListFound, c, p
    <3>7. n # << >> => ListFound(n, dirs, file)
      BY <3>5, <3>6 DEF ListFound, With, Call
    <3>8. Sees(cs)
      BY <1>6, <2>2
    <3> QED  BY <1>4, <2>1, <2>2, <3>2, <3>3, <3>7, <3>8
  <2> QED  BY <2>3, <2>4
<1>14. CASE NeedFile(t)
  <2>1. /\ At(t, "needFile") /\ UNCHANGED <<dirs, file, children>>
        /\ thread' = [thread EXCEPT ![t] = IF file[PathOf(t)] # NoFile
                                           THEN Going(t, <<With(file[PathOf(t)], "dropObject", PathOf(t))>>)
                                           ELSE Idle]
    BY <1>14, Told DEF NeedFile
  <2>2. Busy(t) /\ c.do = "needFile" /\ p \in Path \ {Root} /\ PathOf(t) = p
    BY <1>1, <2>1
  <2>3. CASE file[p] = NoFile
    BY <2>1, <2>2, <2>3, ListIdle DEF c, d
  <2>4. CASE file[p] # NoFile
    <3> DEFINE o == file[p]
               cs == <<With(o, "dropObject", p)>>
    <3>1. o \in KeysOf(p)
      BY <2>2, <2>4, TypesAre DEF ThreadInv, StoreTypes
    <3>2. thread' = [thread EXCEPT ![t] = Going(t, cs)]
      BY <2>1, <2>2, <2>4
    <3>3. Answer(c, cs)
      BY <2>2, <3>1 DEF Answer, p
    <3>4. cs # << >> /\ cs[1] = With(o, "dropObject", p) /\ 1 \in DOMAIN cs
      OBVIOUS
    <3> HIDE DEF o, cs
    <3>5. n[1] = With(o, "dropObject", p)
      BY <1>5, <2>2, <3>2, <3>3, <3>4
    <3>7. n # << >> => ListFound(n, dirs, file)
      BY <2>4, <3>5 DEF ListFound, With, Call
    <3>8. Sees(cs)
      BY <1>6, <1>7, <2>2, <3>4 DEF p
    <3> QED  BY <1>4, <2>1, <2>2, <3>2, <3>3, <3>7, <3>8
  <2> QED  BY <2>3, <2>4
<1>15. CASE StillDir(t)
  <2> DEFINE cs == <<Call("clearDir", p), Call("putList", p), Call("dropName", p)>>
  <2>1. /\ At(t, "stillDir") /\ UNCHANGED <<dirs, file, children>>
        /\ thread' = [thread EXCEPT ![t] =
                        IF PathOf(t) \in dirs
                        THEN Going(t, <<Call("clearDir", PathOf(t)), Call("putList", PathOf(t))>>
                                        \o Unregister(PathOf(t)))
                        ELSE Going(t, << >>)]
    BY <1>15, Told DEF StillDir
  <2>2. Busy(t) /\ c.do = "stillDir" /\ p \in Path \ {Root} /\ PathOf(t) = p
    BY <1>1, <2>1
  <2>3. p \in dirs /\ ChildrenOf(p, dirs, file) = {}
    <3>1. Emptied(d, dirs, file) /\ 1 \in DOMAIN d /\ d[1].do = "stillDir" /\ d[1].path = p
      BY <1>1, <1>3, <2>2 DEF c, p
    <3>2. 1 .. 1 - 1 = {}
      OBVIOUS
    <3> QED  BY <3>1, <3>2 DEF Emptied
  <2>4. thread' = [thread EXCEPT ![t] = Going(t, cs)]
    <3>1. <<Call("clearDir", p), Call("putList", p)>> \o Unregister(p) = cs
      BY Joins DEF Unregister
    <3> QED  BY <2>1, <2>2, <2>3, <3>1
  <2>5. Answer(c, cs)
    BY <2>2 DEF Answer, p
  <2>6. cs # << >> /\ cs[1] = Call("clearDir", p)
    OBVIOUS
  <2> HIDE DEF cs
  <2>7. n[1] = Call("clearDir", p) /\ 1 \in DOMAIN cs
    BY <1>5, <2>2, <2>4, <2>5, <2>6
  <2>8. n # << >> => ListFound(n, dirs, file)
    BY <2>3, <2>7, CallGives DEF ListFound
  <2>9. Sees(cs)
    BY <1>6, <1>7, <2>2, <2>6, <2>7 DEF p
  <2> QED  BY <1>4, <2>1, <2>2, <2>4, <2>5, <2>8, <2>9
<1>16. CASE StillFile(t)
  <2> DEFINE cs == <<Call("clearFile", p), Call("dropName", p)>>
  <2>1. /\ At(t, "stillFile") /\ UNCHANGED <<dirs, file, children>>
        /\ thread' = [thread EXCEPT ![t] =
                        IF file[PathOf(t)] # NoFile
                        THEN Going(t, <<Call("clearFile", PathOf(t))>> \o Unregister(PathOf(t)))
                        ELSE Going(t, << >>)]
    BY <1>16, Told DEF StillFile
  <2>2. Busy(t) /\ c.do = "stillFile" /\ p \in Path \ {Root} /\ PathOf(t) = p
    BY <1>1, <2>1
  <2>3. file[p] # NoFile
    BY <1>3, <2>2 DEF ListFound, c, p
  <2>4. thread' = [thread EXCEPT ![t] = Going(t, cs)]
    <3>1. <<Call("clearFile", p)>> \o Unregister(p) = cs
      BY Joins DEF Unregister
    <3> QED  BY <2>1, <2>2, <2>3, <3>1
  <2>5. Answer(c, cs)
    BY <2>2 DEF Answer, p
  <2>6. cs # << >> /\ cs[1] = Call("clearFile", p)
    OBVIOUS
  <2> HIDE DEF cs
  <2>7. n[1] = Call("clearFile", p) /\ 1 \in DOMAIN cs
    BY <1>5, <2>2, <2>4, <2>5, <2>6
  <2>8. n # << >> => ListFound(n, dirs, file)
    BY <2>3, <2>7, CallGives DEF ListFound
  <2>9. Sees(cs)
    BY <1>6, <1>7, <2>2, <2>6, <2>7 DEF p
  <2> QED  BY <1>4, <2>1, <2>2, <2>4, <2>5, <2>8, <2>9
<1>17. CASE VisitFile(t)
  <2>1. /\ At(t, "visitFile") /\ UNCHANGED <<dirs, file, children>>
        /\ thread' = [thread EXCEPT ![t] = IF file[PathOf(t)] # NoFile THEN Going(t, DeleteFile(PathOf(t)))
                                           ELSE Going(t, <<Call("visitDir", PathOf(t))>>)]
    BY <1>17, Told DEF VisitFile
  <2>2. Busy(t) /\ c.do = "visitFile" /\ p \in Path \ {Root} /\ PathOf(t) = p
    BY <1>1, <2>1
  <2> DEFINE cs == IF file[p] # NoFile THEN DeleteFile(p) ELSE <<Call("visitDir", p)>>
  <2>4. thread' = [thread EXCEPT ![t] = Going(t, cs)]
    BY <2>1, <2>2
  <2>5. Answer(c, cs)
    BY <2>2 DEF Answer, p
  <2>6. /\ cs # << >>
        /\ cs[1] = IF file[p] # NoFile THEN Call("needFile", p) ELSE Call("visitDir", p)
    BY DEF DeleteFile
  <2> HIDE DEF cs
  <2>7. n[1] = cs[1] /\ 1 \in DOMAIN cs
    BY <1>5, <2>2, <2>4, <2>5, <2>6
  <2>8. n # << >> => ListFound(n, dirs, file)
    BY <2>6, <2>7, CallGives DEF ListFound
  <2>9. Sees(cs)
    BY <1>6, <1>7, <2>2, <2>6, <2>7 DEF p
  <2> QED  BY <1>4, <2>1, <2>2, <2>4, <2>5, <2>8, <2>9
<1>18. CASE VisitDir(t)
  <2>1. /\ At(t, "visitDir") /\ UNCHANGED <<dirs, file, children>>
        /\ thread' = [thread EXCEPT ![t] = IF PathOf(t) \in dirs THEN Going(t, DeleteDir(PathOf(t)))
                                           ELSE Going(t, << >>)]
    BY <1>18, Told DEF VisitDir
  <2>2. Busy(t) /\ c.do = "visitDir" /\ p \in Path \ {Root} /\ PathOf(t) = p
    BY <1>1, <2>1
  <2>3. CASE p \in dirs
    <3> DEFINE cs == DeleteDir(p)
    <3>1. thread' = [thread EXCEPT ![t] = Going(t, cs)]
      BY <2>1, <2>2, <2>3
    <3>2. Answer(c, cs)
      BY <2>2 DEF Answer, p
    <3>3. cs # << >> /\ cs[1] = Call("needDir", p)
      BY DEF DeleteDir
    <3> HIDE DEF cs
    <3>4. n[1] = cs[1] /\ 1 \in DOMAIN cs
      BY <1>5, <2>2, <3>1, <3>2, <3>3
    <3>5. n # << >> => ListFound(n, dirs, file)
      BY <3>3, <3>4, CallGives DEF ListFound
    <3>6. Sees(cs)
      BY <1>6, <1>7, <2>2, <3>3, <3>4 DEF p
    <3> QED  BY <1>4, <2>1, <2>2, <3>1, <3>2, <3>5, <3>6
  <2>4. CASE p \notin dirs
    <3>1. thread' = [thread EXCEPT ![t] = Going(t, << >>)] /\ Answer(c, << >>)
      BY <2>1, <2>2, <2>4 DEF Answer
    <3>2. n # << >> => n[1].do \in {"visitFile", "stillDir"}
      BY <1>1, <1>5, <2>2, <3>1, SecondIs DEF c
    <3>3. n # << >> => ListFound(n, dirs, file)
      BY <3>2 DEF ListFound
    <3>4. ~Exists(p, dirs, file)
      BY <1>3, <2>2, <2>4 DEF ListFound, Exists, c, p
    <3>5. Sees(<< >>)
      BY <1>6, <2>2, <3>4 DEF p
    <3> QED  BY <1>4, <2>1, <2>2, <3>1, <3>3, <3>5
  <2> QED  BY <2>3, <2>4
<1> QED  BY <1>10, <1>11, <1>12, <1>13, <1>14, <1>15, <1>16, <1>17, <1>18

\* The calls that read a list: nobody else is about to write it.
LEMMA ListNames ==
  ASSUME Apart, ThreadInv, ListsAreTold, ~broken', NEW t \in Thread,
         Walk(t) \/ AddName(t) \/ DropName(t)
  PROVE  ListsAreTold'
<1> DEFINE d == thread[t].todo
           c == d[1]
           p == c.path
           n == thread'[t].todo
<1>1. /\ \A do : At(t, do) => Busy(t) /\ c.do = do
      /\ Busy(t) => /\ d # << >> /\ d \in Seq(AnyCall) /\ 1 \in DOMAIN d /\ Len(d) \in Nat \ {0}
                    /\ DOMAIN d = 1 .. Len(d)
                    /\ c \in AnyCall /\ p \in Path /\ This(t) = c /\ PathOf(t) = p
                    /\ Scripted(d) /\ Nested(d) /\ Within(thread[t].path, c)
                    /\ t = Main => c.do \in {"ensureRoot", "putDir", "putList"} /\ p = Root
                    /\ p = Root => c.do \in {"ensureRoot", "putDir", "putList"}
  BY HeadIs
<1>2. ListsToldIn(dirs, file, children, thread)
  BY ListsIs
<1>3. Busy(t) => ListFound(d, dirs, file)
  BY <1>2 DEF ListsToldIn, Busy
<1>4. \A q \in Path : Exists(q, dirs, file) => q \in Path \ {Root} /\ Parent(q) \in Path
  BY PathType DEF Exists
<1>5. \A q \in Path \ {Root} : children[q] \in Seq(Names) /\ NameChildren(q, children[q])
                              /\ children[Parent(q)] \in Seq(Names) /\ NameChildren(Parent(q), children[Parent(q)])
  BY PathType, TypesAre DEF ThreadInv, StoreTypes
<1>6. ASSUME Busy(t), NEW cs, Answer(c, cs), thread' = [thread EXCEPT ![t] = Going(t, cs)]
      PROVE  /\ cs \in Seq(AnyCall) /\ Emptied(cs, dirs, file)
             /\ cs # << >> => n # << >> /\ n[1] = cs[1] /\ 1 \in DOMAIN cs
             /\ cs = << >> /\ n # << >> => Len(d) >= 2 /\ n[1] = d[2] /\ 2 \in DOMAIN d
             /\ n = cs \o Tail(d) /\ n \in Seq(AnyCall) /\ Len(n) = Len(cs) + Len(d) - 1
  <2>1. cs \in Seq(AnyCall) /\ Emptied(cs, dirs, file)
    BY <1>1, <1>6, AnswerIs, AnswerEmpties
  <2>2. cs # << >> => 1 \in DOMAIN cs
    BY <2>1
  <2>3. Len(d) >= 2 => 2 \in DOMAIN d
    BY <1>1, <1>6
  <2> QED  BY <1>6, <2>1, <2>2, <2>3, GoesIs
<1>7. ASSUME Busy(t), c.do \in {"walk", "addName", "dropName"}, NEW q \in Path, Exists(q, dirs, file),
             Parent(q) = p \/ Parent(q) = Parent(p)
      PROVE  \/ Name(q) \in ToSet(children[Parent(q)])
             \/ c.do = "addName" /\ q = p
  <2>1. CASE Name(q) \in ToSet(children[Parent(q)])
    BY <2>1
  <2>2. CASE Name(q) \notin ToSet(children[Parent(q)])
    <3>1. PICK u \in Thread : Listing(thread[u].todo, q)
      BY <1>2, <1>7, <2>2 DEF ListsToldIn
    <3>2. IsPrefix(thread[t].path, p)
      BY <1>1, <1>7 DEF Within
    <3>3. u = t
      BY <1>1, <1>4, <1>7, <3>1, <3>2, NobodyElseLists
    <3> QED  BY <1>7, <3>1, <3>3 DEF Listing
  <2> QED  BY <2>1, <2>2
<1>8. ASSUME NEW q \in Path \ {Root}, NEW r \in Path \ {Root}, Parent(q) = Parent(r), Name(q) = Name(r)
      PROVE  q = r
  BY <1>8, SamePath
<1> HIDE DEF d, c, p, n
<1>10. CASE Walk(t)
  <2> DEFINE names == children[p]
             cs == Visits(p, names)
  <2>1. /\ At(t, "walk") /\ UNCHANGED <<dirs, file, children>>
        /\ thread' = [thread EXCEPT ![t] = Going(t, Visits(PathOf(t), children[PathOf(t)]))]
    BY <1>10, Told DEF Walk, Goes
  <2>2. Busy(t) /\ c.do = "walk" /\ p \in Path \ {Root} /\ PathOf(t) = p
    BY <1>1, <2>1
  <2>3. thread' = [thread EXCEPT ![t] = Going(t, cs)]
    BY <2>1, <2>2
  <2>4. names \in Seq(Names) /\ NameChildren(p, names)
    BY <1>5, <2>2
  <2>5. Answer(c, cs)
    BY <2>2, <2>4 DEF Answer, p
  <2>6. /\ DOMAIN cs = DOMAIN names
        /\ \A i \in DOMAIN names : cs[i].do = "visitFile" /\ cs[i].path = Append(p, names[i])
    BY <2>2, <2>4, VisitsAre
  <2> HIDE DEF cs, names
  <2>7. Continues(d, <<c, Call("stillDir", p)>>)
    BY <1>1, <2>2 DEF Scripted, c, p
  <2>8. Len(d) >= 2 /\ d[2] = Call("stillDir", p)
    BY <1>1, <2>2, <2>7, ShapeIs
  <2>9. n # << >> => n[1].do \in {"visitFile", "stillDir"}
    <3>1. CASE cs = << >>
      <4>1. cs = << >> /\ n # << >> => n[1] = d[2]
        BY <1>6, <2>2, <2>3, <2>5
      <4> QED  BY <2>8, <3>1, <4>1, CallGives
    <3>2. CASE cs # << >>
      BY <1>6, <2>2, <2>3, <2>5, <2>6, <3>2
    <3> QED  BY <3>1, <3>2
  <2>10. n # << >> => ListFound(n, dirs, file)
    BY <2>9 DEF ListFound
  <2>11. ASSUME NEW q \in Path, Exists(q, dirs, file), Deletes(c, q)
         PROVE  \/ \E j \in DOMAIN cs : Deletes(cs[j], q)
                \/ \A i \in DOMAIN d : d[i].do = "stillDir" /\ d[i].path = Parent(q) =>
                     i > 2 /\ Deletes(d[2], q)
    <3>1. CASE Parent(q) = p
      <4>1. Name(q) \in ToSet(names)
        BY <1>7, <2>2, <2>11, <3>1 DEF names
      <4>2. PICK i \in DOMAIN names : names[i] = Name(q)
        BY <4>1 DEF ToSet
      <4>3. Append(p, Name(q)) = q
        BY <1>4, <2>11, <3>1, ParentIs
      <4>4. Deletes(cs[i], q)
        BY <2>6, <4>2, <4>3 DEF Deletes
      <4> QED  BY <2>6, <4>4
    <3>2. CASE q = p
      <4>1. Deletes(d[2], q)
        BY <2>8, <3>2, CallGives DEF Deletes
      <4>2. Parent(p) # p
        BY <2>2, ParentIs
      <4>3. ASSUME NEW i \in DOMAIN d, d[i].do = "stillDir", d[i].path = Parent(q) PROVE i > 2
        <5>1. i # 1
          BY <2>2, <4>3 DEF c
        <5>2. i # 2
          BY <2>8, <3>2, <4>2, <4>3, CallGives
        <5> QED  BY <1>1, <2>2, <5>1, <5>2
      <4> QED  BY <4>1, <4>3
    <3> QED  BY <2>2, <2>11, <3>1, <3>2 DEF Deletes, p
  <2>12. \A q \in Path : Listing(d, q) => Listing(n, q)
    BY <2>2 DEF Listing, c
  <2>13. t # Main
    BY <1>1, <2>2
  <2>14. Emptied(cs, dirs, file)
    BY <1>6, <2>2, <2>3, <2>5
  <2> QED  BY <2>1, <2>2, <2>3, <2>5, <2>10, <2>11, <2>12, <2>13, <2>14, ListRead DEF d, c, p, n
<1>11. CASE AddName(t) \/ DropName(t)
  <2> DEFINE old == children[Parent(p)]
             l == IF c.do = "addName" THEN Extended(old, Name(p)) ELSE Erased(old, Name(p))
             a == PutList(Parent(p), l)
             cs == <<a>>
  <2>1. /\ At(t, "addName") \/ At(t, "dropName")
        /\ UNCHANGED <<dirs, file, children>>
    BY <1>11, Told DEF AddName, DropName
  <2>2. Busy(t) /\ c.do \in {"addName", "dropName"} /\ p \in Path \ {Root} /\ PathOf(t) = p
    BY <1>1, <2>1
  <2>3. thread' = [thread EXCEPT ![t] = Going(t, cs)]
    <3>1. CASE AddName(t)
      <4>1. /\ At(t, "addName")
            /\ Goes(t, <<PutList(Parent(PathOf(t)), Extended(children[Parent(PathOf(t))], Name(PathOf(t))))>>)
        BY <3>1, Told DEF AddName
      <4>2. c.do = "addName"
        BY <1>1, <4>1
      <4> QED  BY <2>2, <4>1, <4>2 DEF Goes
    <3>2. CASE DropName(t)
      <4>1. /\ At(t, "dropName")
            /\ Goes(t, <<PutList(Parent(PathOf(t)), Erased(children[Parent(PathOf(t))], Name(PathOf(t))))>>)
        BY <3>2, Told DEF DropName
      <4>2. c.do = "dropName"
        BY <1>1, <4>1
      <4> QED  BY <2>2, <4>1, <4>2 DEF Goes
    <3> QED  BY <1>11, <3>1, <3>2
  <2>4. old \in Seq(Names) /\ NameChildren(Parent(p), old)
    BY <1>5, <2>2
  <2>5. /\ l \in Seq(Names) /\ NameChildren(Parent(p), l)
        /\ c.do = "addName" => \A m : m \in ToSet(l) <=> m \in ToSet(old) \/ m = Name(p)
        /\ c.do = "dropName" => \A m : m \in ToSet(l) <=> m \in ToSet(old) /\ m # Name(p)
    BY <2>2, <2>4, ListsAre
  <2>6. Parent(p) \in Path
    BY <2>2, PathType
  <2> HIDE DEF l
  <2>7. Answer(c, cs)
    BY <2>2, <2>5 DEF Answer, p
  <2>8. a \in AnyCall /\ a.do = "putList" /\ a.path = Parent(p) /\ a.list = l
    BY <2>5, <2>6, PutListIs
  <2> HIDE DEF a
  <2>9. cs # << >> /\ cs[1] = a /\ Len(cs) = 1
    OBVIOUS
  <2> HIDE DEF cs
  <2>10. n # << >> /\ n[1] = a /\ n \in Seq(AnyCall) /\ Len(n) = Len(d)
    <3>1. n = cs \o Tail(d) /\ cs \in Seq(AnyCall) /\ n \in Seq(AnyCall)
      BY <1>6, <2>2, <2>3, <2>7
    <3>2. n[1] = cs[1] /\ n # << >>
      <4>1. cs # << >>
        BY <2>9
      <4>2. n # << >> /\ n[1] = cs[1] /\ 1 \in DOMAIN cs
        BY <1>6, <2>2, <2>3, <2>7, <4>1, Zenon
      <4> QED  BY <4>2
    <3>3. Len(n) = Len(cs) + Len(d) - 1
      BY <1>1, <2>2, <3>1, GoingOn
    <3>4. Len(n) = Len(d)
      BY <1>1, <2>2, <2>9, <3>3
    <3> QED  BY <2>9, <3>1, <3>2, <3>4
  <2>11. ASSUME NEW q \in ChildrenOf(Parent(p), dirs, file) PROVE Name(q) \in ToSet(l)
    <3>1. q \in Path \ {Root} /\ Exists(q, dirs, file) /\ Parent(q) = Parent(p)
      BY <2>11 DEF ChildrenOf
    <3>2. Name(q) \in ToSet(old) \/ (c.do = "addName" /\ q = p)
      BY <1>7, <2>2, <3>1
    <3>3. CASE c.do = "addName"
      BY <2>5, <3>2, <3>3
    <3>4. CASE c.do = "dropName"
      <4>1. ~Exists(p, dirs, file)
        BY <1>3, <2>2, <3>4 DEF ListFound, c, p
      <4>2. Name(q) # Name(p)
        BY <1>8, <2>2, <3>1, <4>1
      <4> QED  BY <2>5, <3>2, <3>4, <4>2
    <3> QED  BY <2>2, <3>3, <3>4
  <2>12. Len(n) > 1 => n[2].do # "dropName"
    <3> SUFFICES ASSUME Len(n) > 1 PROVE n[2].do # "dropName"
      OBVIOUS
    <3>1. Len(d) >= 2 /\ 2 \in 2 .. Len(d)
      BY <1>1, <2>2, <2>10
    <3>2. d[2].do \in {"visitFile", "stillDir"}
      BY <1>1, <2>2, <3>1, SecondIs DEF c
    <3>3. n = cs \o Tail(d) /\ cs \in Seq(AnyCall)
      BY <1>6, <2>2, <2>3, <2>7
    <3>4. n[Len(cs) + 2 - 1] = d[2]
      BY <1>1, <2>2, <3>1, <3>3, GoingOn
    <3>5. Len(cs) + 2 - 1 = 2
      BY <2>9
    <3> QED  BY <3>2, <3>4, <3>5
  <2>13. ListFound(n, dirs, file)
    BY <2>8, <2>10, <2>11, <2>12 DEF ListFound
  <2>14. \A q \in Path : Listing(d, q) => Listing(n, q)
    <3> SUFFICES ASSUME NEW q \in Path, Listing(d, q) PROVE Listing(n, q)
      OBVIOUS
    <3>1. c.do = "addName" /\ q = p
      BY <2>2 DEF Listing, c, p
    <3>2. Name(q) \in ToSet(l)
      BY <2>5, <3>1
    <3> QED  BY <2>8, <2>10, <3>1, <3>2 DEF Listing
  <2>15. t # Main
    BY <1>1, <2>2
  <2>16. Emptied(cs, dirs, file)
    BY <1>6, <2>2, <2>3, <2>7
  <2>17. \A q \in Path : ~Deletes(c, q)
    BY <2>2 DEF Deletes
  <2> QED  BY <2>1, <2>2, <2>3, <2>7, <2>13, <2>14, <2>15, <2>16, <2>17, ListRead DEF d, c, p, n
<1> QED  BY <1>10, <1>11

\* A thread that goes on with the calls it had left.
LEMMA NextIs ==
  ASSUME ThreadInv, NEW t \in Thread, Busy(t), Goes(t, << >>)
  PROVE  LET d == thread[t].todo  n == thread'[t].todo
         IN /\ n = << >> \o Tail(d) /\ n \in Seq(AnyCall) /\ Len(n) = Len(d) - 1
            /\ \A i \in 1 .. Len(n) : n[i] = d[i + 1]
            /\ n # << >> <=> Len(d) >= 2
            /\ \A u \in Thread : u # t => thread'[u] = thread[u]
<1> DEFINE d == thread[t].todo
           n == thread'[t].todo
<1>1. << >> \in Seq(AnyCall) /\ Len(<< >>) = 0 /\ thread' = [thread EXCEPT ![t] = Going(t, << >>)]
  BY DEF Goes
<1>2. /\ n = << >> \o Tail(d) /\ n \in Seq(AnyCall) /\ d \in Seq(AnyCall)
      /\ \A u \in Thread : u # t => thread'[u] = thread[u]
  BY <1>1, GoesIs
<1>3. d # << >>
  BY DEF Busy
<1>4a. /\ Len(n) = Len(<< >>) + Len(d) - 1 /\ Len(d) \in Nat \ {0} /\ DOMAIN n = 1 .. Len(n)
       /\ \A i \in 2 .. Len(d) : n[Len(<< >>) + i - 1] = d[i]
  <2> HIDE DEF d
  <2> USE <1>2, <1>3
  <2>0. << >> \in Seq(AnyCall)
    BY <1>1
  <2>1. Len(n) = Len(<< >>) + Len(d) - 1 /\ Len(d) \in Nat \ {0}
    BY <2>0, GoingOn DEF d
  <2>2. DOMAIN n = 1 .. Len(n)
    OBVIOUS
  <2>3. \A i \in 2 .. Len(d) : n[Len(<< >>) + i - 1] = d[i]
    BY <2>0, GoingOn DEF d
  <2> QED  BY <2>1, <2>2, <2>3
<1>4. /\ Len(n) = 0 + Len(d) - 1 /\ Len(d) \in Nat \ {0} /\ DOMAIN n = 1 .. Len(n)
      /\ \A i \in 2 .. Len(d) : n[0 + i - 1] = d[i]
  BY <1>1, <1>4a
<1> HIDE DEF n, d
<1>5. \A i \in 1 .. Len(n) : n[i] = d[i + 1]
  <2> SUFFICES ASSUME NEW i \in 1 .. Len(n) PROVE n[i] = d[i + 1]
    OBVIOUS
  <2>1. i + 1 \in 2 .. Len(d) /\ 0 + (i + 1) - 1 = i
    BY <1>4
  <2> QED  BY <1>4, <2>1
<1>6. n # << >> <=> Len(d) >= 2
  <2>1. n \in Seq(AnyCall)
    BY <1>2
  <2>2. n = << >> <=> Len(n) = 0
    BY <2>1
  <2> QED  BY <1>4, <2>2
<1> QED  BY <1>2, <1>4, <1>5, <1>6 DEF n, d

\* The calls that write the store.
LEMMA ListWrites ==
  ASSUME Apart, ThreadInv, ListsAreTold, ~broken', NEW t \in Thread,
         PutDir(t) \/ ClearDir(t) \/ PutFile(t) \/ ClearFile(t) \/ PutNames(t)
  PROVE  ListsAreTold'
<1> DEFINE d == thread[t].todo
           c == d[1]
           p == c.path
           n == thread'[t].todo
<1>0. /\ \A do : At(t, do) => Busy(t) /\ c.do = do
      /\ Busy(t) => /\ d # << >> /\ d \in Seq(AnyCall) /\ 1 \in DOMAIN d /\ Len(d) \in Nat \ {0}
                    /\ DOMAIN d = 1 .. Len(d)
                    /\ c \in AnyCall /\ p \in Path /\ This(t) = c /\ PathOf(t) = p
                    /\ Scripted(d) /\ Nested(d) /\ Within(thread[t].path, c)
                    /\ t = Main => c.do \in {"ensureRoot", "putDir", "putList"} /\ p = Root
                    /\ p = Root => c.do \in {"ensureRoot", "putDir", "putList"}
  BY HeadIs
<1>1. \E do \in {"putDir", "clearDir", "putFile", "clearFile", "putList"} : At(t, do) /\ Goes(t, << >>)
  BY Told DEF PutDir, ClearDir, PutFile, ClearFile, PutNames
<1>2. /\ Busy(t) /\ Goes(t, << >>) /\ d # << >> /\ d \in Seq(AnyCall) /\ 1 \in DOMAIN d /\ Len(d) \in Nat \ {0}
      /\ DOMAIN d = 1 .. Len(d)
      /\ c \in AnyCall /\ p \in Path /\ This(t) = c /\ PathOf(t) = p
      /\ Scripted(d) /\ Nested(d)
      /\ t = Main => c.do \in {"putDir", "putList"} /\ p = Root
      /\ p = Root => c.do \in {"putDir", "putList"}
  BY <1>0, <1>1
<1>3. /\ n = << >> \o Tail(d) /\ n \in Seq(AnyCall) /\ Len(n) = Len(d) - 1
      /\ \A i \in 1 .. Len(n) : n[i] = d[i + 1]
      /\ n # << >> <=> Len(d) >= 2
      /\ \A u \in Thread : u # t => thread'[u] = thread[u]
  BY <1>2, NextIs
<1>4. n # << >> => n[1] = d[2] /\ 2 \in DOMAIN d
  <2> SUFFICES ASSUME n # << >> PROVE n[1] = d[2] /\ 2 \in DOMAIN d
    OBVIOUS
  <2>1. Len(d) >= 2 /\ 1 \in 1 .. Len(n) /\ 1 + 1 = 2
    BY <1>2, <1>3
  <2>2. 2 \in DOMAIN d
    BY <1>2, <2>1
  <2> QED  BY <1>3, <2>1, <2>2
<1>5. Len(d) >= 3 => Len(n) >= 2 /\ n[2] = d[3]
  <2> SUFFICES ASSUME Len(d) >= 3 PROVE Len(n) >= 2 /\ n[2] = d[3]
    OBVIOUS
  <2>1. Len(n) >= 2 /\ 2 \in 1 .. Len(n) /\ 2 + 1 = 3
    BY <1>2, <1>3
  <2> QED  BY <1>3, <2>1
<1>6. /\ ListsToldIn(dirs, file, children, thread) /\ ListFound(d, dirs, file) /\ Emptied(d, dirs, file)
      /\ file[Root] = NoFile /\ (\A q \in dirs : file[q] = NoFile)
  BY <1>2, ListsIs DEF ListsToldIn
<1>7. /\ dirs \subseteq Path /\ DOMAIN file = Path /\ DOMAIN children = Path
  BY TypesAre DEF ThreadInv, StoreTypes
<1>8. ASSUME c.do \in {"clearDir", "clearFile", "putList"}, ~Exists(p, dirs', file') \/ c.do = "putList",
             \A q \in Path : Exists(q, dirs', file') => Exists(q, dirs, file),
             dirs' = dirs \/ (dirs' = dirs \ {p} /\ c.do = "clearDir")
      PROVE  Emptied(n, dirs', file')
  <2>1. ASSUME NEW i \in DOMAIN d, i > 1, d[i].do = "stillDir" PROVE d[i].path \in dirs'
    <3>1. d[i].path \in dirs
      BY <1>6, <1>8, <2>1 DEF Emptied
    <3>2. c.do = "clearDir" => d[i].path # p
      <4>1. 1 \in 1 .. i - 1
        BY <1>2, <2>1
      <4> QED  BY <1>2, <2>1, <4>1 DEF Nested
    <3> QED  BY <1>8, <3>1, <3>2
  <2>2. ASSUME NEW q \in Path, Exists(q, dirs', file') PROVE ~Deletes(d[1], q)
    BY <1>8, <2>2 DEF Deletes
  <2>3. << >> \in Seq(AnyCall) /\ Emptied(<< >>, dirs', file')
    BY DEF Emptied
  <2>4. \A i \in DOMAIN d : i > 1 /\ d[i].do = "stillDir" =>
          \A q \in ChildrenOf(d[i].path, dirs', file') : Deletes(d[1], q) =>
            \/ \E j \in DOMAIN << >> : Deletes(<< >>[j], q)
            \/ i > 2 /\ Deletes(d[2], q)
    BY <2>2 DEF ChildrenOf
  <2> HIDE DEF d, n
  <2> QED  BY <1>2, <1>3, <1>6, <1>8, <2>1, <2>3, <2>4, EmptiedOn
<1> HIDE DEF d, c, p, n
<1>9. ASSUME Differ(dirs, file, dirs', file', p), c.do = "putList" => UNCHANGED <<dirs, file>>,
             file'[Root] = NoFile, p \in dirs' => file'[p] = NoFile, dirs' \subseteq Path,
             Exists(p, dirs', file') => Parent(p) \in dirs',
             p \in dirs /\ p \notin dirs' => ChildrenOf(p, dirs, file) = {},
             Root \in dirs => Root \in dirs',
             ListedIn(dirs', file', children', thread'),
             n # << >> => ListFound(n, dirs', file'), Emptied(n, dirs', file'),
             t = Main => RootIsMade(n, dirs', file')
      PROVE  ListsAreTold'
  <2>1. ListsToldIn(dirs', file', children', thread')
    BY <1>2, <1>3, <1>9, ListJoin DEF d, c, p, n
  <2> QED  BY <2>1, ListsIs
<1>10. ASSUME c.do \notin {"addName", "putList"}, children' = children, Differ(dirs, file, dirs', file', p),
              Exists(p, dirs', file') => Exists(p, dirs, file) \/ Listing(n, p)
       PROVE  ListedIn(dirs', file', children', thread')
  BY <1>2, <1>3, <1>10, ListCarried DEF d, c, p, n
<1>11. CASE PutDir(t)
  <2>1. At(t, "putDir") /\ dirs' = dirs \cup {PathOf(t)} /\ file' = file /\ children' = children
    BY <1>11, Told DEF PutDir
  <2>2. c.do = "putDir" /\ dirs' = dirs \cup {p}
    BY <1>0, <1>2, <2>1 DEF c, d
  <2>3. /\ p # Root => ~Exists(p, dirs, file) /\ Parent(p) \in dirs
        /\ ChildrenOf(p, dirs, file) = {}
    BY <1>6, <2>2 DEF ListFound, c, p
  <2>4. Differ(dirs, file, dirs', file', p)
    BY <2>1, <2>2 DEF Differ
  <2>5. p # Root => Len(d) = 3 /\ d[2] = Call("putList", p) /\ d[3] = Call("addName", p)
    <3>1. p # Root => Ends(d, <<Call("putDir", p), Call("putList", p), Call("addName", p)>>)
      BY <1>2, <2>2, MakeDirIs DEF Scripted, c, p
    <3> QED  BY <1>2, <3>1, ShapeIs
  <2>6. p = Root => Len(d) = 2 /\ d[2] = Call("putList", p)
    <3>1. p = Root => Ends(d, <<Call("putDir", p), Call("putList", p)>>)
      BY <1>2, <2>2, MakeDirIs DEF Scripted, c, p
    <3> QED  BY <1>2, <3>1, ShapeIs
  <2>7. n # << >> /\ n[1].do = "putList" /\ n[1].path = p
    BY <1>3, <1>4, <2>5, <2>6, CallGives
  <2>8. p # Root => Len(n) > 1 /\ n[2].do = "addName"
    BY <1>5, <2>5, CallGives
  <2>9. p = Root => ~(Len(n) > 1)
    BY <1>3, <2>6
  <2>10. ChildrenOf(p, dirs', file') = {}
    <3> SUFFICES ASSUME NEW q \in ChildrenOf(p, dirs', file') PROVE FALSE
      OBVIOUS
    <3>1. q \in Path \ {Root} /\ Exists(q, dirs', file') /\ Parent(q) = p
      BY DEF ChildrenOf
    <3>2. q # p
      BY <1>2, <3>1, ParentIs
    <3>3. Exists(q, dirs, file)
      BY <2>1, <2>2, <3>1, <3>2 DEF Exists
    <3> QED  BY <2>3, <3>1, <3>3 DEF ChildrenOf
  <2>11. ListFound(n, dirs', file')
    BY <2>7, <2>8, <2>9, <2>10 DEF ListFound
  <2>12. Exists(p, dirs', file') => Listing(n, p)
    BY <2>7, <2>8 DEF Exists, Listing
  <2>13. Emptied(n, dirs', file')
    BY <1>2, <1>3, <2>2, NothingEmptied DEF c
  <2>14. RootIsMade(n, dirs', file') \/ p # Root
    BY <2>2, <2>7, <2>10 DEF RootIsMade
  <2>15. file'[p] = NoFile /\ file'[Root] = NoFile
    BY <1>6, <2>1, <2>3 DEF Exists
  <2>16. dirs' \subseteq Path /\ (Exists(p, dirs', file') => Parent(p) \in dirs') /\ ~(p \in dirs /\ p \notin dirs')
         /\ (Root \in dirs => Root \in dirs')
    BY <1>2, <1>7, <2>2, <2>3 DEF Exists
  <2>17. ListedIn(dirs', file', children', thread')
    BY <1>10, <2>1, <2>2, <2>4, <2>12
  <2> QED  BY <1>2, <1>9, <2>2, <2>4, <2>11, <2>13, <2>14, <2>15, <2>16, <2>17
<1>12. CASE ClearDir(t)
  <2>1. At(t, "clearDir") /\ dirs' = dirs \ {PathOf(t)} /\ file' = file /\ children' = children
    BY <1>12, Told DEF ClearDir
  <2>2. c.do = "clearDir" /\ dirs' = dirs \ {p} /\ p # Root
    BY <1>0, <1>2, <2>1 DEF c, d
  <2>3. p \in dirs /\ ChildrenOf(p, dirs, file) = {}
    BY <1>6, <2>2 DEF ListFound, c, p
  <2>4. Differ(dirs, file, dirs', file', p)
    BY <2>1, <2>2 DEF Differ
  <2>5. ~Exists(p, dirs', file') /\ \A q \in Path : Exists(q, dirs', file') => Exists(q, dirs, file)
    BY <1>6, <2>1, <2>2, <2>3 DEF Exists
  <2>6. Len(d) >= 3 /\ d[2] = Call("putList", p) /\ d[3] = Call("dropName", p)
    <3>1. Continues(d, <<c, Call("putList", p), Call("dropName", p)>>)
      BY <1>2, <2>2 DEF Scripted, c, p
    <3> QED  BY <1>2, <3>1, ShapeIs
  <2>7. n[1].do = "putList" /\ n[1].path = p /\ n[2].path = p
    <3>1. Len(d) >= 2
      BY <1>2, <2>6
    <3> QED  BY <1>3, <1>4, <1>5, <2>6, <3>1, CallGives
  <2>8. ChildrenOf(p, dirs', file') = {}
    BY <2>3, <2>5 DEF ChildrenOf
  <2>9. ListFound(n, dirs', file')
    BY <2>5, <2>7, <2>8 DEF ListFound
  <2>10. Emptied(n, dirs', file')
    BY <1>8, <2>2, <2>5 DEF c, p
  <2>11. ListedIn(dirs', file', children', thread')
    BY <1>10, <2>1, <2>2, <2>4, <2>5
  <2>12. file'[Root] = NoFile /\ p \notin dirs' /\ dirs' \subseteq Path /\ (Root \in dirs => Root \in dirs')
    BY <1>6, <1>7, <2>1, <2>2
  <2>13. t # Main
    BY <1>2, <2>2
  <2> QED  BY <1>9, <2>2, <2>3, <2>4, <2>5, <2>9, <2>10, <2>11, <2>12, <2>13
<1>13. CASE PutFile(t)
  <2> DEFINE o == c.object
  <2>1. At(t, "putFile") /\ dirs' = dirs /\ file' = [file EXCEPT ![PathOf(t)] = This(t).object] /\ children' = children
    BY <1>13, Told DEF PutFile
  <2>2. c.do = "putFile" /\ file' = [file EXCEPT ![p] = o] /\ p # Root
    BY <1>0, <1>2, <2>1 DEF c, d
  <2>3. ~Exists(p, dirs, file) /\ Parent(p) \in dirs
    BY <1>6, <2>2 DEF ListFound, c, p
  <2>4. Differ(dirs, file, dirs', file', p)
    BY <2>1, <2>2 DEF Differ
  <2>5. Len(d) = 2 /\ d[2] = Call("addName", p)
    <3>1. Ends(d, <<c, Call("addName", p)>>)
      BY <1>2, <2>2 DEF Scripted, c, p
    <3> QED  BY <1>2, <3>1, ShapeIs
  <2>6. n # << >> /\ n[1].do = "addName" /\ n[1].path = p
    BY <1>3, <1>4, <2>5, CallGives
  <2>7. ListFound(n, dirs', file') /\ Listing(n, p)
    BY <2>6 DEF ListFound, Listing
  <2>8. Emptied(n, dirs', file')
    BY <1>2, <1>3, <2>2, NothingEmptied DEF c
  <2>9. ListedIn(dirs', file', children', thread')
    BY <1>10, <2>1, <2>2, <2>4, <2>7
  <2>10. file'[Root] = NoFile /\ p \notin dirs
    BY <1>6, <1>7, <2>2, <2>3 DEF Exists
  <2>11. t # Main
    BY <1>2, <2>2
  <2> QED  BY <1>7, <1>9, <2>1, <2>2, <2>3, <2>4, <2>7, <2>8, <2>9, <2>10, <2>11
<1>14. CASE ClearFile(t)
  <2>1. At(t, "clearFile") /\ dirs' = dirs /\ file' = [file EXCEPT ![PathOf(t)] = NoFile] /\ children' = children
    BY <1>14, Told DEF ClearFile
  <2>2. c.do = "clearFile" /\ file' = [file EXCEPT ![p] = NoFile] /\ p # Root
    BY <1>0, <1>2, <2>1 DEF c, d
  <2>3. file[p] # NoFile
    BY <1>6, <2>2 DEF ListFound, c, p
  <2>4. Differ(dirs, file, dirs', file', p)
    BY <2>1, <2>2 DEF Differ
  <2>5. file'[p] = NoFile /\ \A q \in Path : q # p => file'[q] = file[q]
    BY <1>2, <1>7, <2>2
  <2>6. p \notin dirs
    BY <1>6, <2>3
  <2>7. ~Exists(p, dirs', file') /\ \A q \in Path : Exists(q, dirs', file') => Exists(q, dirs, file)
    BY <2>1, <2>5, <2>6 DEF Exists
  <2>8. n # << >> => n[1] = Call("dropName", p)
    BY <1>2, <1>3, <1>4, <2>2, SecondIs DEF c, p
  <2>9. n # << >> => ListFound(n, dirs', file')
    BY <2>7, <2>8, CallGives DEF ListFound
  <2>10. Emptied(n, dirs', file')
    BY <1>8, <2>1, <2>2, <2>7 DEF c, p
  <2>11. ListedIn(dirs', file', children', thread')
    BY <1>10, <2>1, <2>2, <2>4, <2>7
  <2>12. file'[Root] = NoFile
    BY <1>6, <1>7, <2>2
  <2>13. t # Main
    BY <1>2, <2>2
  <2> QED  BY <1>7, <1>9, <2>1, <2>2, <2>4, <2>5, <2>6, <2>7, <2>9, <2>10, <2>11, <2>12, <2>13
<1>15. CASE PutNames(t)
  <2> DEFINE l == c.list
  <2>1. At(t, "putList") /\ dirs' = dirs /\ file' = file /\ children' = [children EXCEPT ![PathOf(t)] = This(t).list]
    BY <1>15, Told DEF PutNames
  <2>2. c.do = "putList" /\ children' = [children EXCEPT ![p] = l]
    BY <1>0, <1>2, <2>1 DEF c, d
  <2>3. children'[p] = l /\ \A q \in Path : q # p => children'[q] = children[q]
    BY <1>2, <1>7, <2>2
  <2>4. /\ \A q \in ChildrenOf(p, dirs, file) : Name(q) \in ToSet(l)
        /\ Len(d) > 1 /\ d[2].do = "dropName" => ~Exists(d[2].path, dirs, file)
    BY <1>6, <2>2 DEF ListFound, c, p
  <2>5. n # << >> => /\ n[1] = d[2] /\ Len(d) > 1
                     /\ \/ d[2] \in {Call("addName", p), Call("dropName", p)}
                        \/ d[2].do \in {"visitFile", "stillDir"}
    BY <1>2, <1>3, <1>4, <2>2, SecondIs DEF c, p
  <2>6. n # << >> => n[1].do \in {"addName", "dropName", "visitFile", "stillDir"}
    BY <2>5, CallGives
  <2>7. n # << >> => ListFound(n, dirs', file')
    BY <2>1, <2>4, <2>5, <2>6 DEF ListFound
  <2>8. Emptied(n, dirs', file')
    BY <1>8, <2>1, <2>2 DEF c, p
  <2>9. t = Main => RootIsMade(n, dirs', file')
    <3> SUFFICES ASSUME t = Main PROVE RootIsMade(n, dirs', file')
      OBVIOUS
    <3>1. RootIsMade(d, dirs, file)
      BY <1>6 DEF ListsToldIn, d
    <3> QED  BY <1>2, <2>1, <2>2, <2>6, <3>1 DEF RootIsMade, c
  <2>10. ASSUME NEW q \in Path, Exists(q, dirs', file')
         PROVE  Name(q) \in ToSet(children'[Parent(q)]) \/ \E u \in Thread : Listing(thread'[u].todo, q)
    <3>1. Exists(q, dirs, file) /\ q \in Path \ {Root} /\ Parent(q) \in Path
      BY <2>1, <2>10, PathType DEF Exists
    <3>2. CASE Parent(q) = p
      <4>1. q \in ChildrenOf(p, dirs, file)
        BY <3>1, <3>2 DEF ChildrenOf
      <4> QED  BY <2>3, <2>4, <3>2, <4>1
    <3>3. CASE Parent(q) # p /\ Name(q) \in ToSet(children[Parent(q)])
      BY <2>3, <3>1, <3>3
    <3>4. CASE Parent(q) # p /\ Name(q) \notin ToSet(children[Parent(q)])
      <4>1. PICK u \in Thread : Listing(thread[u].todo, q)
        BY <1>6, <3>1, <3>4 DEF ListsToldIn
      <4>2. CASE u # t
        BY <1>3, <4>1, <4>2
      <4>3. CASE u = t
        <5>1. p = q /\ Len(d) > 1 /\ d[2].do = "addName"
          BY <2>2, <3>4, <4>1, <4>3 DEF Listing, d, c, p
        <5>2. n # << >>
          BY <1>2, <1>3, <5>1
        <5>3. n[1].do = "addName" /\ n[1].path = q
          BY <2>5, <5>1, <5>2, CallGives
        <5>4. Listing(n, q)
          BY <5>2, <5>3 DEF Listing
        <5> QED  BY <5>4 DEF n
      <4> QED  BY <4>2, <4>3
    <3> QED  BY <3>2, <3>3, <3>4
  <2>11. ListedIn(dirs', file', children', thread')
    BY <2>10 DEF ListedIn
  <2>12. Differ(dirs, file, dirs', file', p)
    BY <2>1 DEF Differ
  <2>13. /\ file'[Root] = NoFile /\ (p \in dirs' => file'[p] = NoFile) /\ dirs' \subseteq Path
         /\ (Exists(p, dirs', file') => Parent(p) \in dirs')
    BY <1>2, <1>6, <1>7, <2>1 DEF ListsToldIn
  <2> QED  BY <1>9, <2>1, <2>7, <2>8, <2>9, <2>11, <2>12, <2>13
<1> QED  BY <1>11, <1>12, <1>13, <1>14, <1>15


\* The calls to S3 that succeed.
LEMMA ListObjects ==
  ASSUME ThreadInv, ListsAreTold, NEW t \in Thread, PutObject(t) \/ DropObject(t)
  PROVE  ListsAreTold'
<1> DEFINE d == thread[t].todo
           c == d[1]
           p == c.path
           n == thread'[t].todo
<1>1. /\ At(t, "putObject") \/ At(t, "dropObject")
      /\ Goes(t, << >>) /\ UNCHANGED <<dirs, file, children>>
  BY DEF PutObject, DropObject, storeVars
<1>2. /\ Busy(t) /\ c.do \in {"putObject", "dropObject"}
      /\ d # << >> /\ d \in Seq(AnyCall) /\ Len(d) \in Nat /\ DOMAIN d = 1 .. Len(d)
      /\ c \in AnyCall /\ p \in Path /\ p # Root /\ Scripted(d) /\ t # Main
  BY <1>1, HeadIs
<1>3. /\ thread' = [thread EXCEPT ![t] = Going(t, << >>)] /\ Answer(c, << >>)
      /\ << >> \in Seq(AnyCall)
  BY <1>1, <1>2 DEF Goes, Answer
<1>4. /\ n # << >> <=> Len(d) >= 2
      /\ n \in Seq(AnyCall) /\ Len(n) = Len(d) - 1
      /\ \A i \in 1 .. Len(n) : n[i] = d[i + 1]
  BY <1>1, <1>2, NextIs
<1>5. /\ Len(d) >= 2
      /\ c.do = "putObject" => d[2] = With(c.object, "putFile", p)
      /\ c.do = "dropObject" => d[2] = Call("stillFile", p)
  <2>1. c.do = "putObject" => Ends(d, Store(p, c.object))
    BY <1>2 DEF Scripted
  <2>2. c.do = "dropObject" => Continues(d, <<c, Call("stillFile", p)>>)
    BY <1>2 DEF Scripted
  <2>3. p # Root => Store(p, c.object) = <<With(c.object, "putObject", p),
                                           With(c.object, "putFile", p), Call("addName", p)>>
    BY MakeDirIs
  <2> HIDE DEF d, c, p
  <2>4. c.do = "putObject" => Len(d) = 3 /\ d[2] = With(c.object, "putFile", p)
    <3>1. c.do = "putObject" => Ends(d, <<With(c.object, "putObject", p),
                                          With(c.object, "putFile", p), Call("addName", p)>>)
      BY <1>2, <2>1, <2>3
    <3> QED  BY <1>2, <3>1, ShapeIs
  <2>5. c.do = "dropObject" => Len(d) >= 2 /\ d[2] = Call("stillFile", p)
    BY <1>2, <2>2, ShapeIs
  <2> QED  BY <1>2, <2>4, <2>5
<1>6. n # << >> /\ n[1] = d[2]
  <2>1. 1 \in 1 .. Len(n) /\ 1 + 1 = 2
    BY <1>2, <1>4, <1>5
  <2> QED  BY <1>4, <1>5, <2>1
<1>7. /\ d[2].path = p /\ d[2].do \in {"putFile", "stillFile"}
      /\ d[2].do = "putFile" <=> c.do = "putObject"
  BY <1>2, <1>5 DEF With, Call
<1>8. ListFound(d, dirs, file)
  BY <1>2, ListsIs DEF ListsToldIn, Busy
<1>9. ListFound(n, dirs, file)
  BY <1>2, <1>6, <1>7, <1>8 DEF ListFound
<1>10. \A q \in Path : ~Listing(d, q)
  BY <1>2 DEF Listing
<1>11. Emptied(<< >>, dirs, file)
  BY DEF Emptied
<1>12. \A q \in Path : Deletes(c, q) =>
         \A i \in DOMAIN d : d[i].do = "stillDir" => i > 2 /\ Deletes(d[2], q)
  <2> SUFFICES ASSUME NEW q \in Path, Deletes(c, q), NEW i \in DOMAIN d, d[i].do = "stillDir"
               PROVE  i > 2 /\ Deletes(d[2], q)
    OBVIOUS
  <2>1. c.do = "dropObject" /\ q = p
    BY <1>2 DEF Deletes
  <2>2. d[2].do = "stillFile" /\ d[2].path = q
    BY <1>7, <2>1
  <2>3. i # 1 /\ i # 2
    BY <1>2, <2>2
  <2> HIDE DEF d, c, p
  <2>4. i > 2
    BY <1>2, <2>3
  <2> QED  BY <2>2, <2>4 DEF Deletes
<1>13. c.do \notin {"putList", "needDir"}
  BY <1>2
<1> QED
  <2>1. UNCHANGED <<dirs, file, children>>
    BY <1>1
  <2>2. \A q \in Path : Exists(q, dirs, file) /\ Deletes(d[1], q) =>
          \/ \E j \in DOMAIN << >> : Deletes(<< >>[j], q)
          \/ \A i \in DOMAIN d : d[i].do = "stillDir" /\ d[i].path = Parent(q) =>
               i > 2 /\ Deletes(d[2], q)
    BY <1>12
  <2> QED  BY <1>2, <1>3, <1>6, <1>9, <1>10, <1>11, <1>13, <2>1, <2>2, ListRead

\* A thread that gives up, or answers.
LEMMA ListEnds ==
  ASSUME ThreadInv, ListsAreTold, NEW t \in Thread, S3Error(t) \/ Done(t)
  PROVE  ListsAreTold'
<1>1. thread' = [thread EXCEPT ![t] = Idle] /\ UNCHANGED <<dirs, file, children>>
  BY DEF S3Error, Done, Fails, storeVars
<1>2. \/ thread[t].todo = << >>
      \/ At(t, "putObject") \/ At(t, "dropObject")
  BY DEF S3Error, Done
<1>3. Busy(t) => thread[t].todo[1].do \in {"putObject", "dropObject"}
  BY <1>2, HeadIs DEF Busy
<1>4. Busy(t) => thread[t].todo[1].do \notin {"ensureRoot", "putDir", "addName", "putList"}
  BY <1>3
<1> QED  BY <1>1, <1>4, ListIdle

\* A request that makes p finds nothing there: a thread that is adding p to its
\* parent's list would not be apart from it.
LEMMA NewName ==
  ASSUME Apart, Sensible, ThreadInv, ListsAreTold, NEW t \in Worker, NEW p \in Path,
         NEW kind \in {"createDir", "uploadFile"}, Receive(t, kind, p)
  PROVE  ~Exists(p, dirs, file) /\ Parent(p) \in dirs
<1>1. /\ p # Root /\ thread[Main] = Idle
      /\ \A u \in Worker : thread[u] # Idle => AreApart(p, thread[u].path)
      /\ Shown(Parent(p)) = "dir" /\ Shown(p) = "none"
  BY DEF Receive
<1>2. ListsToldIn(dirs, file, children, thread)
  BY ListsIs
<1>3. Root \in dirs
  <2>1. thread[Main].todo = << >>
    BY <1>1, IdleIs
  <2> QED  BY <1>2, <2>1 DEF ListsToldIn, RootIsMade
<1>4. Parent(p) \in dirs
  BY <1>1, <1>3 DEF Shown
<1>5. ~Exists(p, dirs, file)
  <2> SUFFICES ASSUME Exists(p, dirs, file) PROVE FALSE
    OBVIOUS
  <2>1. Name(p) \notin ToSet(children[Parent(p)])
    BY <1>1 DEF Exists, Shown
  <2>2. PICK u \in Thread : Listing(thread[u].todo, p)
    BY <1>2, <2>1 DEF ListsToldIn
  <2> DEFINE d == thread[u].todo
             c == d[1]
             Q == thread[u].path
  <2>3. d # << >> /\ u # Main /\ u \in Worker /\ thread[u] # Idle
    BY <1>1, <2>2, IdleIs DEF Listing, Thread
  <2>4. AreApart(p, Q) /\ Q # Root
    BY <1>1, <2>3 DEF ThreadInv, ThreadsAreScripted
  <2>5. 1 \in DOMAIN d
    BY <2>3, HeadIs DEF Busy
  <2>6. Within(Q, c) /\ Q \in Path /\ c.path \in Path
    BY <2>5, CallWithin
  <2>7. /\ Parent(p) # Parent(Q) /\ ~IsPrefix(p, Q) /\ ~IsPrefix(Q, p)
    BY <2>4 DEF AreApart
  <2>8. /\ IsPrefix(Parent(Q), Q) /\ IsPrefix(Parent(p), p) /\ Parent(p) \in Path
    BY <1>1, <2>4, <2>6, ParentAbove, PathType
  <2>9. ~IsPrefix(Q, Parent(p))
    BY <2>6, <2>7, <2>8, PrefixThrough
  <2> HIDE DEF Q, c
  <2>10. c.path = p \/ (c.path = Parent(p) /\ c.do = "putList")
    BY <2>2 DEF Listing, c
  <2>11. IsPrefix(Q, c.path) \/ c.path = Parent(Q)
    BY <2>6 DEF Within
  <2>12. CASE c.path = p
    BY <2>7, <2>8, <2>11, <2>12
  <2>13. CASE c.path = Parent(p)
    BY <2>7, <2>9, <2>11, <2>13
  <2> QED  BY <2>10, <2>12, <2>13
<1> QED  BY <1>4, <1>5

LEMMA ListReceive ==
  ASSUME Apart, Sensible, ThreadInv, ListsAreTold, NEW t \in Worker, NEW kind \in Requests,
         NEW p \in Path, Receive(t, kind, p)
  PROVE  ListsAreTold'
<1> DEFINE s == [kind |-> kind, path |-> p, todo |-> CallsOf(kind, p),
                 saw |-> [q \in Below(p) |-> Shown(q)]]
           d == CallsOf(kind, p)
<1>1. /\ p # Root /\ thread[t] = Idle
      /\ thread' = [thread EXCEPT ![t] = s] /\ UNCHANGED <<dirs, file, children>>
  BY DEF Receive, storeVars
<1>2. /\ t \in Thread /\ t # Main
  BY ThreadAssumption DEF Thread
<1>3. /\ d \in Seq(AnyCall) /\ d # << >>
      /\ \A i \in DOMAIN d : d[i].path = p
      /\ d[1].do \in {"needNoDir", "needDir", "needNoFile", "needFile"}
      /\ kind \in {"createDir", "uploadFile"} <=> d[1].do \in {"needNoDir", "needNoFile"}
      /\ \A i \in DOMAIN d : d[i].do = "stillDir" => i > 1 /\ d[1].do = "needDir" /\ d[1].path = p
  BY <1>1, CallsAre
<1>4. s.todo = d /\ thread[t].todo = << >>
  BY <1>1, IdleIs
<1>5. kind \in {"createDir", "uploadFile"} => ~Exists(p, dirs, file) /\ Parent(p) \in dirs
  BY NewName
<1> HIDE DEF d
<1>6. 1 \in DOMAIN d /\ \A i \in DOMAIN d : i \in Nat
  BY <1>3
<1>7. ListFound(d, dirs, file)
  BY <1>3, <1>5, <1>6 DEF ListFound
<1>8. Emptied(d, dirs, file)
  <2> SUFFICES ASSUME NEW i \in DOMAIN d, d[i].do = "stillDir"
               PROVE  /\ d[i].path \in dirs \/ (d[1].do = "needDir" /\ d[1].path = d[i].path)
                      /\ \A q \in ChildrenOf(d[i].path, dirs, file) :
                           \E j \in 1 .. i - 1 : Deletes(d[j], q)
    BY DEF Emptied
  <2>1. i > 1 /\ i \in Nat /\ d[1].do = "needDir" /\ d[1].path = p /\ d[i].path = p
    BY <1>3, <1>6
  <2>2. \A q \in ChildrenOf(p, dirs, file) : Deletes(d[1], q)
    BY <2>1 DEF ChildrenOf, Deletes
  <2>3. 1 \in 1 .. i - 1
    BY <2>1
  <2> QED  BY <2>1, <2>2, <2>3
<1>9. \A q \in Path : ~Listing(thread[t].todo, q)
  BY <1>4 DEF Listing
<1> HIDE DEF s
<1> QED  BY <1>1, <1>2, <1>4, <1>7, <1>8, <1>9, ListQuiet

\* main() starts again: what it finds is what the process before it left.
LEMMA ListStarted ==
  ASSUME NEW t \in Thread, NEW D, NEW F
  PROVE  LET d == Started[t].todo
         IN /\ d # << >> => ListFound(d, D, F)
            /\ Emptied(d, D, F)
            /\ t = Main => RootIsMade(d, D, F)
<1> DEFINE d == Started[t].todo
<1>1. \/ t = Main /\ d = <<Call("ensureRoot", Root)>>
      \/ t # Main /\ d = << >>
  BY IdleIs DEF Started
<1>2. CASE t # Main /\ d = << >>
  BY <1>2 DEF Emptied
<1>3. CASE t = Main /\ d = <<Call("ensureRoot", Root)>>
  <2>1. DOMAIN d = {1} /\ d # << >> /\ d[1] = Call("ensureRoot", Root)
    BY <1>3
  <2>2. d[1].do = "ensureRoot" /\ d[1].path = Root
    BY <2>1, CallGives
  <2> HIDE DEF d
  <2>3. ListFound(d, D, F)
    BY <2>2 DEF ListFound
  <2>4. Emptied(d, D, F)
    BY <2>1, <2>2 DEF Emptied
  <2>5. RootIsMade(d, D, F)
    BY <2>1, <2>2 DEF RootIsMade
  <2> QED  BY <2>3, <2>4, <2>5 DEF d
<1> QED  BY <1>1, <1>2, <1>3

LEMMA ListRestart ==
  ASSUME ThreadInv, ListsAreTold, Restart, ~broken'
  PROVE  ListsAreTold'
<1>1. /\ thread' = Started /\ UNCHANGED <<dirs, file, children>>
      /\ \A t \in Thread : Busy(t) => /\ t = Main /\ thread[t].todo[1].path = Root
                                      /\ thread[t].todo[1].do \in {"ensureRoot", "putDir", "putList"}
  BY RestartFinds DEF Restart, storeVars
<1>2. ListsToldIn(dirs, file, children, thread)
  BY ListsIs
<1>3. ASSUME NEW q \in Path, Exists(q, dirs, file), NEW t \in Thread PROVE ~Listing(thread[t].todo, q)
  <2> SUFFICES ASSUME Listing(thread[t].todo, q) PROVE FALSE
    OBVIOUS
  <2> DEFINE c == thread[t].todo[1]
  <2>1. Busy(t) /\ thread[t].todo # << >>
    BY DEF Listing, Busy
  <2>2. t = Main /\ c.path = Root /\ c.do \in {"ensureRoot", "putDir", "putList"}
    BY <1>1, <2>1
  <2>3. q # Root
    BY <1>3 DEF Exists
  <2>4. c.do = "putList" /\ Parent(q) = Root
    BY <2>2, <2>3 DEF Listing
  <2>5. ChildrenOf(Root, dirs, file) = {}
    BY <1>2, <2>1, <2>2, <2>4 DEF ListsToldIn, RootIsMade
  <2> QED  BY <1>3, <2>3, <2>4, <2>5 DEF ChildrenOf
<1>4. \A q \in Path : Exists(q, dirs, file) => Name(q) \in ToSet(children[Parent(q)])
  BY <1>2, <1>3 DEF ListsToldIn
<1>5. \A t \in Thread : /\ Started[t].todo # << >> => ListFound(Started[t].todo, dirs, file)
                        /\ Emptied(Started[t].todo, dirs, file)
  BY ListStarted
<1>6. RootIsMade(Started[Main].todo, dirs, file)
  BY ListStarted DEF Thread
<1>7. ListsToldIn(dirs, file, children, Started)
  BY <1>2, <1>4, <1>5, <1>6 DEF ListsToldIn
<1> QED  BY <1>1, <1>7, ListsIs

LEMMA ListInvStart == ASSUME Init PROVE ListInv
<1>1. ThreadInv
  BY ThreadInvStart
<1>2. thread = Started /\ dirs = {} /\ file = [p \in Path |-> NoFile]
  BY DEF Init, Started
<1>3. file[Root] = NoFile /\ \A q \in Path : ~Exists(q, dirs, file)
  BY <1>2, PathType DEF Exists
<1>4. \A t \in Thread : /\ Started[t].todo # << >> => ListFound(Started[t].todo, dirs, file)
                        /\ Emptied(Started[t].todo, dirs, file)
  BY ListStarted
<1>5. RootIsMade(Started[Main].todo, dirs, file)
  BY ListStarted DEF Thread
<1>6. ListsToldIn(dirs, file, children, thread)
  BY <1>2, <1>3, <1>4, <1>5 DEF ListsToldIn
<1> QED  BY <1>1, <1>6, ListsIs DEF ListInv

LEMMA ListStep ==
  ASSUME Apart, ThreadInv, ListsAreTold, ~broken', NEW t \in Thread, Step(t)
  PROVE  ListsAreTold'
<1>1. CASE \/ EnsureRoot(t) \/ NeedNoDir(t) \/ NeedDir(t) \/ NeedNoFile(t) \/ NeedFile(t)
           \/ StillDir(t) \/ StillFile(t) \/ VisitFile(t) \/ VisitDir(t)
  BY <1>1, ListReads
<1>2. CASE Walk(t) \/ AddName(t) \/ DropName(t)
  BY <1>2, ListNames
<1>3. CASE PutDir(t) \/ ClearDir(t) \/ PutFile(t) \/ ClearFile(t) \/ PutNames(t)
  BY <1>3, ListWrites
<1>4. CASE PutObject(t) \/ DropObject(t)
  BY <1>4, ListObjects
<1>5. CASE S3Error(t) \/ Done(t)
  BY <1>5, ListEnds
<1> QED  BY <1>1, <1>2, <1>3, <1>4, <1>5 DEF Step

LEMMA ListInvStep == ASSUME Apart, Sensible, ListInv, [Next]_vars PROVE ListInv'
<1>1. ThreadInv /\ ThreadInv'
  BY ThreadInvStep DEF ListInv
<1> SUFFICES ASSUME ~broken' PROVE ListsAreTold'
  BY <1>1 DEF ListInv
<1>2. CASE UNCHANGED vars
  <2>1. /\ dirs' = dirs /\ file' = file /\ children' = children /\ thread' = thread /\ ~broken
    BY <1>2 DEF vars, storeVars
  <2> QED  BY <2>1, ListsIs DEF ListInv
<1>3. ASSUME NEW t \in Thread, Step(t) PROVE ListsAreTold'
  <2>1. ~broken
    BY <1>3, StepUnbroken
  <2> QED  BY <1>1, <1>3, <2>1, ListStep DEF ListInv
<1>4. ASSUME NEW t \in Worker, NEW kind \in Requests, NEW p \in Path, Receive(t, kind, p)
      PROVE  ListsAreTold'
  <2>1. ~broken
    BY <1>4 DEF Receive
  <2> QED  BY <1>1, <1>4, <2>1, ListReceive DEF ListInv
<1>5. CASE Restart
  <2>1. ~broken
    BY <1>1, <1>5, RestartFinds
  <2> QED  BY <1>1, <1>5, <2>1, ListRestart DEF ListInv
<1>6. ASSUME NEW c \in late, Land(c) PROVE ListsAreTold'
  BY <1>1, <1>6, LandBroken
<1> QED  BY <1>2, <1>3, <1>4, <1>5, <1>6 DEF Next

LEMMA ListInvGives == ASSUME ListInv PROVE EverythingIsListed
<1> SUFFICES ASSUME Quiet, ~broken, NEW p \in Path \ {Root}, file[p] # NoFile \/ p \in dirs
             PROVE  Name(p) \in ToSet(children[Parent(p)])
  BY DEF EverythingIsListed
<1>1. ListsToldIn(dirs, file, children, thread)
  BY ListsIs DEF ListInv
<1>2. Exists(p, dirs, file)
  BY DEF Exists
<1>3. \A t \in Thread : ~Listing(thread[t].todo, p)
  BY IdleIs DEF Quiet, Listing
<1> QED  BY <1>1, <1>2, <1>3 DEF ListsToldIn

\* createChild and deleteChild (service_metadata.cpp) read a parent's list and write it
\* back, and createDir and uploadFile put the metadata of a name before its parent's list
\* has it: with requests in flight that touch different keys, for names that their
\* clients see are new in directories that they see, all metadata in the store is found
\* again once the requests are answered, whatever the tree and however many threads.
THEOREM MetadataIsListed == ASSUME Apart, Sensible PROVE Spec => []EverythingIsListed
<1>1. Init => ListInv
  BY ListInvStart
<1>2. ListInv /\ [Next]_vars => ListInv'
  BY ListInvStep
<1>3. ListInv => EverythingIsListed
  BY ListInvGives
<1> QED  BY <1>1, <1>2, <1>3, PTL DEF Spec

-----------------------------------------------------------------------------
(* What each request has done of its effect.                               *)

\* A directory or file exists only below directories.
LEMMA ExistsBelow ==
  ASSUME ListsAreTold, NEW r \in Path, NEW q \in Path, IsPrefix(r, q), r # q, Exists(q, dirs, file)
  PROVE  r \in dirs
<1> DEFINE Holds(x) == IsPrefix(r, x) /\ r # x /\ Exists(x, dirs, file) => r \in dirs
           S == {n \in Nat : \A x \in Path : Len(x) = n => Holds(x)}
<1>1. \A x \in Path : Exists(x, dirs, file) => Parent(x) \in dirs
  BY ListsIs DEF ListsToldIn
<1>2. ASSUME NEW x \in Path, IsPrefix(r, x), r # x
      PROVE  x # Root /\ IsPrefix(r, Parent(x)) /\ Parent(x) \in Path /\ Len(x) # 0
             /\ Len(x) \in Nat /\ Len(Parent(x)) = Len(x) - 1
  BY <1>2, AboveParent, ParentIs
<1>3. S \in SUBSET Nat /\ 0 \in S
  BY <1>2
<1>4. ASSUME NEW n \in S PROVE n + 1 \in S
  <2> SUFFICES ASSUME NEW x \in Path, Len(x) = n + 1, IsPrefix(r, x), r # x, Exists(x, dirs, file)
               PROVE  r \in dirs
    BY DEF S
  <2>1. IsPrefix(r, Parent(x)) /\ Parent(x) \in Path /\ Len(Parent(x)) = n
    BY <1>2
  <2>2. Parent(x) \in dirs
    BY <1>1
  <2>3. CASE r = Parent(x)
    BY <2>2, <2>3
  <2>4. CASE r # Parent(x)
    <3>1. Parent(x) # Root
      BY <1>2, <2>1, <2>4
    <3>2. Exists(Parent(x), dirs, file)
      BY <2>2, <3>1 DEF Exists
    <3> QED  BY <2>1, <2>4, <3>2
  <2> QED  BY <2>3, <2>4
<1> HIDE DEF S
<1>5. S = Nat
  BY <1>3, <1>4, AllNumbers
<1>6. Len(q) \in Nat
  BY PathType
<1> QED  BY <1>5, <1>6 DEF S

\* A path is within one request in flight at most.
LEMMA OneInFlight ==
  ASSUME Apart, ThreadInv, NEW q \in Path, NEW t \in Worker, NEW u \in Worker,
         t \in InFlight(q), u \in InFlight(q)
  PROVE  t = u
<1> SUFFICES ASSUME t # u PROVE FALSE
  OBVIOUS
<1>1. /\ thread[t] # Idle /\ IsPrefix(thread[t].path, q)
      /\ thread[u] # Idle /\ IsPrefix(thread[u].path, q)
  BY DEF InFlight
<1>2. AreApart(thread[t].path, thread[u].path)
  BY <1>1 DEF ThreadInv, ThreadsAreScripted
<1>3. thread[t].path \in Path /\ thread[u].path \in Path
  BY DEF ThreadInv, DriveTypes, ThreadState, Thread
<1> QED  BY <1>1, <1>2, <1>3, PrefixesCompare DEF AreApart

\* A worker that has a request, and its path.
LEMMA WorkerIs ==
  ASSUME ThreadInv, NEW t \in Worker, thread[t] # Idle
  PROVE  /\ t \in Thread /\ t # Main /\ thread[t].path \in Path \ {Root} /\ thread[Main] = Idle
         /\ \A q \in Path : t \in InFlight(q) <=> IsPrefix(thread[t].path, q)
         /\ thread[t].path \in Below(thread[t].path)
<1>1. t \in Thread /\ t # Main
  BY ThreadAssumption DEF Thread
<1>2. thread[t].path \in Path /\ thread[t].path # Root
  BY <1>1 DEF ThreadInv, DriveTypes, ThreadState, ThreadsAreScripted
<1>3. thread[Main] = Idle
  BY DEF ThreadInv, ThreadsAreScripted
<1> QED  BY <1>1, <1>2, <1>3, PrefixSelf DEF InFlight, Below

\* What is within a request is not being added to a list by another.
LEMMA ListerIsNear ==
  ASSUME Apart, ThreadInv, NEW t \in Worker, thread[t] # Idle, NEW u \in Thread,
         NEW q \in Path \ {Root}, IsPrefix(thread[t].path, q), Listing(thread[u].todo, q)
  PROVE  u = t
<1> SUFFICES ASSUME u # t PROVE FALSE
  OBVIOUS
<1> DEFINE P == thread[t].path
           Q == thread[u].path
           d == thread[u].todo
           c == d[1]
<1>1. Busy(u) /\ d # << >> /\ thread[u] # Idle
  BY IdleIs DEF Listing, Busy
<1>2. t \in Thread /\ P \in Path \ {Root} /\ u \in Worker
  BY <1>1, WorkerIs DEF Thread
<1>3. AreApart(P, Q) /\ Q \in Path \ {Root}
  BY <1>1, <1>2, WorkerIs DEF ThreadInv, ThreadsAreScripted
<1>4. 1 \in DOMAIN d
  BY <1>1, HeadIs
<1>5. Within(Q, c) /\ c.path \in Path
  BY <1>4, CallWithin
<1>6. c.path = q \/ (c.path = Parent(q) /\ c.do = "putList")
  BY DEF Listing
<1>7. IsPrefix(Q, c.path) \/ c.path = Parent(Q)
  BY <1>5 DEF Within
<1>8. IsPrefix(P, q)
  OBVIOUS
<1>9. IsPrefix(Q, Q) /\ Parent(q) \in Path
  BY <1>3, PrefixSelf, PathType
<1> HIDE DEF P, Q, c
<1>10. Parent(q) # Parent(Q) /\ q # Parent(Q)
  BY <1>2, <1>3, <1>8, <1>9, ApartPaths
<1>11. ~IsPrefix(Q, q)
  BY <1>2, <1>3, <1>8, PrefixSelf, ApartPaths
<1>12. ~IsPrefix(Q, Parent(q))
  <2>1. IsPrefix(Parent(q), q)
    BY ParentAbove
  <2> QED  BY <1>3, <1>9, <1>11, <2>1, PrefixThrough
<1> QED  BY <1>6, <1>7, <1>10, <1>11, <1>12

\* A step that ends a request: an answer or an exception.
Ended(t) ==
  /\ thread' = [thread EXCEPT ![t] = Idle] /\ UNCHANGED <<dirs, file, children>>
  /\ ~Busy(t) \/ thread[t].todo[1].do \in
                   {"needNoDir", "needNoFile", "needDir", "needFile", "putObject", "dropObject"}

\* A call c that is answered, after which the calls in cs come next.
Wrote(c) ==
  LET p == c.path
  IN /\ dirs' = IF c.do = "putDir" THEN dirs \cup {p}
                ELSE IF c.do = "clearDir" THEN dirs \ {p} ELSE dirs
     /\ file' = IF c.do = "putFile" THEN [file EXCEPT ![p] = c.object]
                ELSE IF c.do = "clearFile" THEN [file EXCEPT ![p] = NoFile] ELSE file
     /\ children' = IF c.do = "putList" THEN [children EXCEPT ![p] = c.list] ELSE children

\* What the call c has read, when cs come next.
Read(c, cs) ==
  LET p == c.path  names == children[Parent(c.path)]
  IN /\ c.do = "ensureRoot" => cs = IF Root \in dirs THEN << >> ELSE MakeDir(Root)
     /\ c.do = "needDir" => p \in dirs
     /\ c.do = "needFile" => file[p] # NoFile
     /\ c.do = "visitFile" => cs = IF file[p] # NoFile THEN DeleteFile(p) ELSE <<Call("visitDir", p)>>
     /\ c.do = "walk" => cs = Visits(p, children[p])
     /\ c.do = "addName" => cs = <<PutList(Parent(p), Extended(names, Name(p)))>>
     /\ c.do = "dropName" => cs = <<PutList(Parent(p), Erased(names, Name(p)))>>

Called(t, cs) ==
  LET c == thread[t].todo[1]
  IN /\ Busy(t) /\ Answer(c, cs) /\ thread' = [thread EXCEPT ![t] = Going(t, cs)]
     /\ Wrote(c) /\ Read(c, cs)
     /\ c.do \in {"visitFile", "needFile", "needNoFile"} => cs # << >>
     /\ c.do \in {"visitDir", "stillDir"} /\ c.path \in dirs => cs # << >>
     /\ c.do = "stillFile" /\ file[c.path] # NoFile => cs # << >>

LEMMA StepIs ==
  ASSUME ThreadInv, Answered, NEW t \in Thread, Step(t)
  PROVE  Ended(t) \/ \E cs : Called(t, cs)
<1> DEFINE d == thread[t].todo
           c == d[1]
           p == c.path
           Quietly == UNCHANGED <<dirs, file, children>>
           Plain == {"putDir", "clearDir", "putFile", "clearFile", "putList"}
<1>1. /\ \A do : At(t, do) => Busy(t) /\ c.do = do
      /\ Busy(t) => /\ c \in AnyCall /\ p \in Path /\ This(t) = c /\ PathOf(t) = p
                    /\ p = Root => c.do \in {"ensureRoot", "putDir", "putList"}
                    /\ c.do = "ensureRoot" => p = Root
  BY HeadIs
<1> HIDE DEF d, c, p
<1>2. Quietly /\ c.do \notin Plain => Wrote(c)
  BY DEF Wrote
<1>3. ASSUME NEW cs, Busy(t), Answer(c, cs), thread' = [thread EXCEPT ![t] = Going(t, cs)], Wrote(c), Read(c, cs),
             cs # << >> \/ c.do \notin {"visitFile", "needFile", "needNoFile", "visitDir", "stillDir", "stillFile"}
      PROVE  \E x : Called(t, x)
  BY <1>3 DEF Called, c, d
<1>4. ASSUME Busy(t), thread' = [thread EXCEPT ![t] = Going(t, << >>)], Wrote(c),
             Read(c, << >>), c.do \notin {"visitFile", "needFile", "needNoFile"},
             c.do \in {"visitDir", "stillDir"} => p \notin dirs,
             c.do = "stillFile" => file[p] = NoFile
      PROVE  \E x : Called(t, x)
  <2>1. Answer(c, << >>)
    BY DEF Answer
  <2>2. Called(t, << >>)
    BY <1>4, <2>1 DEF Called, c, d, p
  <2> QED  BY <2>2
<1> DEFINE Reads == {"ensureRoot", "needDir", "needFile", "visitFile", "walk", "addName", "dropName"}
<1>4a. \A cs : c.do \notin Reads => Read(c, cs)
  BY DEF Read
<1>5. CASE EnsureRoot(t)
  <2>1. /\ At(t, "ensureRoot") /\ Quietly
        /\ thread' = [thread EXCEPT ![t] = IF PathOf(t) \in dirs THEN Going(t, << >>)
                                           ELSE Going(t, MakeDir(Root))]
    BY <1>5, ToldAll DEF EnsureRoot
  <2>2. Busy(t) /\ c.do = "ensureRoot" /\ p = Root /\ PathOf(t) = Root
    BY <1>1, <2>1
  <2>3. CASE Root \in dirs
    <3>1. Read(c, << >>)
      BY <2>2, <2>3 DEF Read, p
    <3> QED  BY <1>2, <1>4, <2>1, <2>2, <2>3, <3>1
  <2>4. CASE Root \notin dirs
    <3>1. Answer(c, MakeDir(Root)) /\ Read(c, MakeDir(Root))
      BY <2>2, <2>4 DEF Answer, Read, p
    <3> QED  BY <1>2, <1>3, <2>1, <2>2, <2>4, <3>1
  <2> QED  BY <2>3, <2>4
<1>6. CASE NeedNoDir(t) \/ NeedDir(t)
  <2>1. /\ At(t, "needNoDir") \/ At(t, "needDir")
        /\ Quietly
        /\ \/ thread' = [thread EXCEPT ![t] = Going(t, << >>)]
           \/ thread' = [thread EXCEPT ![t] = Idle]
        /\ thread' = [thread EXCEPT ![t] = Going(t, << >>)] =>
             PathOf(t) \in dirs \/ thread' = [thread EXCEPT ![t] = Idle] \/ At(t, "needNoDir")
    BY <1>6, ToldAll DEF NeedNoDir, NeedDir
  <2>2. Busy(t) /\ c.do \in {"needNoDir", "needDir"}
    BY <1>1, <2>1
  <2>3. CASE thread' = [thread EXCEPT ![t] = Idle]
    BY <2>1, <2>2, <2>3 DEF Ended, c, d
  <2>4. CASE thread' = [thread EXCEPT ![t] = Going(t, << >>)] /\ thread' # [thread EXCEPT ![t] = Idle]
    <3>1. c.do = "needDir" => p \in dirs
      BY <1>1, <2>1, <2>2, <2>4
    <3>2. Read(c, << >>)
      BY <2>2, <3>1 DEF Read, p
    <3> QED  BY <1>2, <1>4, <2>1, <2>2, <2>4, <3>2
  <2> QED  BY <2>1, <2>3, <2>4
<1>7. CASE NeedNoFile(t)
  <2>1. /\ At(t, "needNoFile") /\ Quietly
        /\ thread' = [thread EXCEPT ![t] = IF file[PathOf(t)] # NoFile THEN Idle
                                           ELSE Going(t, Store(PathOf(t), NewKey(PathOf(t))))]
    BY <1>7, ToldAll DEF NeedNoFile
  <2>2. Busy(t) /\ c.do = "needNoFile" /\ PathOf(t) = p /\ p \in Path \ {Root}
    BY <1>1, <2>1
  <2>3. CASE file[p] # NoFile
    BY <2>1, <2>2, <2>3 DEF Ended, c, d
  <2>4. CASE file[p] = NoFile
    <3> DEFINE o == NewKey(p)
               cs == Store(p, o)
    <3>1. o \in KeysOf(p)
      BY <2>2, NewKeyIs DEF ThreadInv
    <3>2. Answer(c, cs)
      BY <2>2, <3>1 DEF Answer, p
    <3>3. cs # << >>
      <4>1. cs = <<With(o, "putObject", p), With(o, "putFile", p), Call("addName", p)>>
        BY <2>2, MakeDirIs
      <4> QED  BY <4>1
    <3>4. thread' = [thread EXCEPT ![t] = Going(t, cs)]
      BY <2>1, <2>2, <2>4
    <3> HIDE DEF cs
    <3>5. Read(c, cs)
      BY <1>4a, <2>2
    <3> QED  BY <1>2, <1>3, <2>1, <2>2, <3>2, <3>3, <3>4, <3>5
  <2> QED  BY <2>3, <2>4
<1>8. CASE NeedFile(t)
  <2>1. /\ At(t, "needFile") /\ Quietly
        /\ thread' = [thread EXCEPT ![t] = IF file[PathOf(t)] # NoFile
                                           THEN Going(t, <<With(file[PathOf(t)], "dropObject", PathOf(t))>>)
                                           ELSE Idle]
    BY <1>8, ToldAll DEF NeedFile
  <2>2. Busy(t) /\ c.do = "needFile" /\ PathOf(t) = p /\ p \in Path
    BY <1>1, <2>1
  <2>3. CASE file[p] = NoFile
    BY <2>1, <2>2, <2>3 DEF Ended, c, d
  <2>4. CASE file[p] # NoFile
    <3> DEFINE o == file[p]
               cs == <<With(o, "dropObject", p)>>
    <3>1. o \in KeysOf(p)
      BY <2>2, <2>4, TypesAre DEF ThreadInv, StoreTypes
    <3>2. Answer(c, cs)
      BY <2>2, <3>1 DEF Answer, p
    <3>3. cs # << >>
      OBVIOUS
    <3>4. thread' = [thread EXCEPT ![t] = Going(t, cs)]
      BY <2>1, <2>2, <2>4
    <3>5. Read(c, cs)
      BY <2>2, <2>4 DEF Read, p
    <3> HIDE DEF cs
    <3> QED  BY <1>2, <1>3, <2>1, <2>2, <3>2, <3>3, <3>4, <3>5
  <2> QED  BY <2>3, <2>4
<1>9. CASE StillDir(t)
  <2> DEFINE cs == <<Call("clearDir", p), Call("putList", p), Call("dropName", p)>>
  <2>1. /\ At(t, "stillDir") /\ Quietly
        /\ thread' = [thread EXCEPT ![t] =
                        IF PathOf(t) \in dirs
                        THEN Going(t, <<Call("clearDir", PathOf(t)), Call("putList", PathOf(t))>>
                                        \o Unregister(PathOf(t)))
                        ELSE Going(t, << >>)]
    BY <1>9, ToldAll DEF StillDir
  <2>2. Busy(t) /\ c.do = "stillDir" /\ PathOf(t) = p
    BY <1>1, <2>1
  <2>3. <<Call("clearDir", p), Call("putList", p)>> \o Unregister(p) = cs
    BY Joins DEF Unregister
  <2>4. Answer(c, cs) /\ cs # << >>
    BY <2>2 DEF Answer, p
  <2> HIDE DEF cs
  <2>5. CASE p \in dirs
    BY <1>2, <1>3, <1>4a, <2>1, <2>2, <2>3, <2>4, <2>5
  <2>6. CASE p \notin dirs
    BY <1>2, <1>4, <1>4a, <2>1, <2>2, <2>6
  <2> QED  BY <2>5, <2>6
<1>10. CASE StillFile(t)
  <2> DEFINE cs == <<Call("clearFile", p), Call("dropName", p)>>
  <2>1. /\ At(t, "stillFile") /\ Quietly
        /\ thread' = [thread EXCEPT ![t] =
                        IF file[PathOf(t)] # NoFile
                        THEN Going(t, <<Call("clearFile", PathOf(t))>> \o Unregister(PathOf(t)))
                        ELSE Going(t, << >>)]
    BY <1>10, ToldAll DEF StillFile
  <2>2. Busy(t) /\ c.do = "stillFile" /\ PathOf(t) = p
    BY <1>1, <2>1
  <2>3. <<Call("clearFile", p)>> \o Unregister(p) = cs
    BY Joins DEF Unregister
  <2>4. Answer(c, cs) /\ cs # << >>
    BY <2>2 DEF Answer, p
  <2> HIDE DEF cs
  <2>5. CASE file[p] # NoFile
    BY <1>2, <1>3, <1>4a, <2>1, <2>2, <2>3, <2>4, <2>5
  <2>6. CASE file[p] = NoFile
    BY <1>2, <1>4, <1>4a, <2>1, <2>2, <2>6
  <2> QED  BY <2>5, <2>6
<1>11. CASE VisitFile(t)
  <2> DEFINE cs == IF file[p] # NoFile THEN DeleteFile(p) ELSE <<Call("visitDir", p)>>
  <2>1. /\ At(t, "visitFile") /\ Quietly
        /\ thread' = [thread EXCEPT ![t] = IF file[PathOf(t)] # NoFile THEN Going(t, DeleteFile(PathOf(t)))
                                           ELSE Going(t, <<Call("visitDir", PathOf(t))>>)]
    BY <1>11, ToldAll DEF VisitFile
  <2>2. Busy(t) /\ c.do = "visitFile" /\ PathOf(t) = p
    BY <1>1, <2>1
  <2>3. Answer(c, cs)
    BY <2>2 DEF Answer, p
  <2>4. cs # << >>
    BY DEF DeleteFile
  <2>5. thread' = [thread EXCEPT ![t] = Going(t, cs)]
    BY <2>1, <2>2
  <2>6. Read(c, cs)
    BY <2>2 DEF Read, p
  <2> HIDE DEF cs
  <2> QED  BY <1>2, <1>3, <2>1, <2>2, <2>3, <2>4, <2>5, <2>6
<1>12. CASE VisitDir(t)
  <2>1. /\ At(t, "visitDir") /\ Quietly
        /\ thread' = [thread EXCEPT ![t] = IF PathOf(t) \in dirs THEN Going(t, DeleteDir(PathOf(t)))
                                           ELSE Going(t, << >>)]
    BY <1>12, ToldAll DEF VisitDir
  <2>2. Busy(t) /\ c.do = "visitDir" /\ PathOf(t) = p
    BY <1>1, <2>1
  <2>3. Answer(c, DeleteDir(p)) /\ DeleteDir(p) # << >>
    BY <2>2 DEF Answer, p, DeleteDir
  <2>4. CASE p \in dirs
    BY <1>2, <1>3, <1>4a, <2>1, <2>2, <2>3, <2>4
  <2>5. CASE p \notin dirs
    BY <1>2, <1>4, <1>4a, <2>1, <2>2, <2>5
  <2> QED  BY <2>4, <2>5
<1>13. CASE Walk(t) \/ AddName(t) \/ DropName(t)
  <2> DEFINE x == Parent(p)
             m == Name(p)
             cs == IF c.do = "walk" THEN Visits(p, children[p])
                   ELSE IF c.do = "addName" THEN <<PutList(x, Extended(children[x], m))>>
                   ELSE <<PutList(x, Erased(children[x], m))>>
  <2>1. /\ At(t, "walk") \/ At(t, "addName") \/ At(t, "dropName")
        /\ Quietly
    BY <1>13, ToldAll DEF Walk, AddName, DropName
  <2>2. Busy(t) /\ c.do \in {"walk", "addName", "dropName"} /\ PathOf(t) = p
    BY <1>1, <2>1
  <2>3. Goes(t, cs)
    <3>1. CASE Walk(t)
      <4>1. At(t, "walk") /\ Goes(t, Visits(PathOf(t), children[PathOf(t)]))
        BY <3>1, ToldAll DEF Walk
      <4> QED  BY <1>1, <2>2, <4>1
    <3>2. CASE AddName(t)
      <4>1. At(t, "addName")
            /\ Goes(t, <<PutList(Parent(PathOf(t)), Extended(children[Parent(PathOf(t))], Name(PathOf(t))))>>)
        BY <3>2, ToldAll DEF AddName
      <4> QED  BY <1>1, <2>2, <4>1
    <3>3. CASE DropName(t)
      <4>1. At(t, "dropName")
            /\ Goes(t, <<PutList(Parent(PathOf(t)), Erased(children[Parent(PathOf(t))], Name(PathOf(t))))>>)
        BY <3>3, ToldAll DEF DropName
      <4> QED  BY <1>1, <2>2, <4>1
    <3> QED  BY <1>13, <3>1, <3>2, <3>3
  <2>4. Read(c, cs)
    BY <2>2 DEF Read, p
  <2>5. thread' = [thread EXCEPT ![t] = Going(t, cs)]
    BY <2>3 DEF Goes
  <2>6. Answer(c, cs)
    <3>1. p \in Path \ {Root} /\ x \in Path
      BY <1>1, <2>2, PathType
    <3>2. \A y \in Path : children[y] \in Seq(Names) /\ NameChildren(y, children[y])
      BY TypesAre DEF ThreadInv, StoreTypes
    <3>3. m \in Names
      BY <3>1 DEF Names
    <3>4. Append(x, m) = p
      BY <3>1, ParentIs
    <3> DEFINE l == children[x]
    <3>5. l \in Seq(Names) /\ NameChildren(x, l)
      BY <3>1, <3>2
    <3> HIDE DEF x, m, l
    <3>6. Erased(l, m) \in Seq(Names) /\ NameChildren(x, Erased(l, m))
      <4>1. Erased(l, m) \in Seq(Names) /\ \A k : k \in ToSet(Erased(l, m)) <=> k \in ToSet(l) /\ k # m
        BY <3>5, ErasedIs
      <4>2. \A k \in ToSet(l) : Append(x, k) \in Path
        BY <3>5 DEF NameChildren, ToSet
      <4> QED  BY <4>1, <4>2 DEF NameChildren, ToSet
    <3>7. Extended(l, m) \in Seq(Names) /\ NameChildren(x, Extended(l, m))
      <4> DEFINE e == Append(l, m)
      <4>1. e \in Seq(Names) /\ DOMAIN e = 1 .. Len(l) + 1 /\ Len(l) \in Nat /\ DOMAIN l = 1 .. Len(l)
            /\ e[Len(l) + 1] = m /\ \A i \in 1 .. Len(l) : e[i] = l[i]
        BY <3>3, <3>5
      <4> HIDE DEF e
      <4>2. ASSUME NEW i \in DOMAIN e PROVE Append(x, e[i]) \in Path
        <5>1. CASE i = Len(l) + 1
          BY <3>1, <3>4, <4>1, <5>1
        <5>2. CASE i # Len(l) + 1
          <6>1. i \in DOMAIN l /\ e[i] = l[i]
            BY <4>1, <5>2
          <6> QED  BY <3>5, <6>1 DEF NameChildren
        <5> QED  BY <5>1, <5>2
      <4> QED  BY <4>1, <4>2 DEF NameChildren, Extended, e
    <3>8. CASE c.do = "walk"
      <4>1. cs = Visits(p, children[p]) /\ children[p] \in Seq(Names) /\ NameChildren(p, children[p])
        BY <3>1, <3>2, <3>8
      <4> HIDE DEF cs
      <4> QED  BY <3>8, <4>1 DEF Answer, p
    <3>9. CASE c.do = "addName"
      <4>1. cs = <<PutList(x, Extended(l, m))>>
        BY <3>9 DEF x, m, l
      <4> HIDE DEF cs
      <4> QED  BY <3>7, <3>9, <4>1 DEF Answer, x, p
    <3>10. CASE c.do = "dropName"
      <4>1. cs = <<PutList(x, Erased(l, m))>>
        BY <3>10 DEF x, m, l
      <4> HIDE DEF cs
      <4> QED  BY <3>6, <3>10, <4>1 DEF Answer, x, p
    <3> QED  BY <2>2, <3>8, <3>9, <3>10
  <2> HIDE DEF cs
  <2> QED  BY <1>2, <1>3, <2>1, <2>2, <2>4, <2>5, <2>6
<1>14. CASE PutDir(t) \/ ClearDir(t) \/ PutFile(t) \/ ClearFile(t) \/ PutNames(t)
  <2>1. \E do \in Plain : At(t, do)
    BY <1>14, ToldAll DEF PutDir, ClearDir, PutFile, ClearFile, PutNames
  <2>2. Busy(t) /\ c.do \in Plain /\ This(t) = c /\ PathOf(t) = p
    BY <1>1, <2>1
  <2>3. thread' = [thread EXCEPT ![t] = Going(t, << >>)]
    BY <1>14, ToldAll DEF PutDir, ClearDir, PutFile, ClearFile, PutNames, Goes
  <2>4. Wrote(c)
    <3>1. CASE PutDir(t)
      <4>1. /\ At(t, "putDir") /\ dirs' = dirs \cup {p} /\ file' = file /\ children' = children
        BY <2>2, <3>1, ToldAll DEF PutDir
      <4> QED  BY <1>1, <4>1 DEF Wrote, p
    <3>2. CASE ClearDir(t)
      <4>1. /\ At(t, "clearDir") /\ dirs' = dirs \ {p} /\ file' = file /\ children' = children
        BY <2>2, <3>2, ToldAll DEF ClearDir
      <4> QED  BY <1>1, <4>1 DEF Wrote, p
    <3>3. CASE PutFile(t)
      <4>1. /\ At(t, "putFile") /\ dirs' = dirs /\ file' = [file EXCEPT ![p] = c.object] /\ children' = children
        <5> DEFINE nf == [file EXCEPT ![p] = c.object]
        <5>1. Put(t, "putFile", dirs, nf, children)
          BY <2>2, <3>3 DEF PutFile
        <5> HIDE DEF nf
        <5>2. At(t, "putFile") /\ dirs' = dirs /\ file' = nf /\ children' = children
          BY <5>1, ToldAll
        <5> QED  BY <5>2 DEF nf
      <4> QED  BY <1>1, <4>1 DEF Wrote, p
    <3>4. CASE ClearFile(t)
      <4>1. /\ At(t, "clearFile") /\ dirs' = dirs /\ file' = [file EXCEPT ![p] = NoFile] /\ children' = children
        BY <2>2, <3>4, ToldAll DEF ClearFile
      <4> QED  BY <1>1, <4>1 DEF Wrote, p
    <3>5. CASE PutNames(t)
      <4>1. /\ At(t, "putList") /\ dirs' = dirs /\ file' = file /\ children' = [children EXCEPT ![p] = c.list]
        <5> DEFINE nc == [children EXCEPT ![p] = c.list]
        <5>1. Put(t, "putList", dirs, file, nc)
          BY <2>2, <3>5 DEF PutNames
        <5> HIDE DEF nc
        <5>2. At(t, "putList") /\ dirs' = dirs /\ file' = file /\ children' = nc
          BY <5>1, ToldAll
        <5> QED  BY <5>2 DEF nc
      <4> QED  BY <1>1, <4>1 DEF Wrote, p
    <3> QED  BY <1>14, <3>1, <3>2, <3>3, <3>4, <3>5
  <2> QED  BY <1>4, <1>4a, <2>2, <2>3, <2>4
<1>15. CASE PutObject(t) \/ DropObject(t)
  <2>1. /\ At(t, "putObject") \/ At(t, "dropObject")
        /\ Quietly /\ thread' = [thread EXCEPT ![t] = Going(t, << >>)]
    BY <1>15 DEF PutObject, DropObject, Goes, storeVars
  <2>2. Busy(t) /\ c.do \in {"putObject", "dropObject"}
    BY <1>1, <2>1
  <2> QED  BY <1>2, <1>4, <1>4a, <2>1, <2>2
<1>16. CASE S3Error(t) \/ Done(t)
  <2>1. Quietly /\ thread' = [thread EXCEPT ![t] = Idle]
    BY <1>16 DEF S3Error, Done, Fails, storeVars
  <2>2. ~Busy(t) \/ At(t, "putObject") \/ At(t, "dropObject")
    BY <1>16 DEF S3Error, Done, Busy
  <2>3. ~Busy(t) \/ c.do \in {"putObject", "dropObject"}
    BY <1>1, <2>2
  <2> QED  BY <2>1, <2>3 DEF Ended, c, d
<1> QED  BY <1>5, <1>6, <1>7, <1>8, <1>9, <1>10, <1>11, <1>12, <1>13, <1>14, <1>15, <1>16 DEF Step

\* A call changes the store within its own request only, and no request's path.
LEMMA CalledKeeps ==
  ASSUME ThreadInv, NEW t \in Thread, NEW cs, Called(t, cs)
  PROVE  /\ \A u \in Thread : u # t => thread'[u] = thread[u]
         /\ thread[t] # Idle /\ thread'[t] # Idle /\ thread'[t].path = thread[t].path
         /\ thread'[t].kind = thread[t].kind /\ thread'[t].saw = thread[t].saw
         /\ \A q \in Path : InFlight(q)' = InFlight(q)
         /\ \A q \in Path : q # thread[t].todo[1].path =>
              (q \in dirs' <=> q \in dirs) /\ file'[q] = file[q]
         /\ \A q \in Path \ {Root} : t \notin InFlight(q) =>
              (q \in dirs' <=> q \in dirs) /\ file'[q] = file[q]
<1> DEFINE c == thread[t].todo[1]
           p == c.path
<1>1. /\ Busy(t) /\ thread' = [thread EXCEPT ![t] = Going(t, cs)] /\ Wrote(c)
      /\ cs \in Seq(AnyCall)
  <2>1. Busy(t) /\ Answer(c, cs) /\ thread' = [thread EXCEPT ![t] = Going(t, cs)] /\ Wrote(c)
    BY DEF Called
  <2>2. c \in AnyCall
    BY <2>1, HeadIs
  <2> QED  BY <2>1, <2>2, AnswerIs
<1>2. /\ \A u \in Thread : u # t => thread'[u] = thread[u]
      /\ thread'[t].path = thread[t].path /\ thread'[t].kind = thread[t].kind
      /\ thread'[t].saw = thread[t].saw
  BY <1>1, GoesIs
<1>3. thread[t] # Idle /\ thread'[t] # Idle
  <2>1. thread[t] # Idle /\ Orderly(thread[t])
    BY <1>1, IdleIs DEF Busy, ThreadInv, ThreadsAreScripted
  <2>2. thread[t].kind # "idle"
    BY <2>1 DEF Orderly
  <2> QED  BY <1>2, <2>1, <2>2, IdleIs
<1>4. \A q \in Path : InFlight(q)' = InFlight(q)
  BY <1>2, <1>3 DEF InFlight, Thread
<1>5. /\ p \in Path /\ Within(thread[t].path, c) /\ (t = Main => p = Root)
      /\ DOMAIN file = Path
  BY <1>1, HeadIs, TypesAre DEF ThreadInv, StoreTypes
<1> HIDE DEF c, p
<1>6. \A q \in Path : q # p => (q \in dirs' <=> q \in dirs) /\ file'[q] = file[q]
  BY <1>1, <1>5 DEF Wrote, p
<1>7. ASSUME NEW q \in Path \ {Root}, t \notin InFlight(q)
      PROVE  (q \in dirs' <=> q \in dirs) /\ file'[q] = file[q]
  <2>1. CASE q # p
    BY <1>6, <2>1
  <2>2. CASE q = p
    <3>1. t \in Worker
      BY <1>5, <2>2 DEF Thread
    <3>2. ~IsPrefix(thread[t].path, p)
      BY <1>3, <1>7, <2>2, <3>1 DEF InFlight
    <3>3. c.do = "putList"
      BY <1>5, <3>2 DEF Within, p
    <3> QED  BY <1>1, <3>3 DEF Wrote
  <2> QED  BY <2>1, <2>2
<1> QED  BY <1>2, <1>3, <1>4, <1>6, <1>7 DEF c, p

\* What exists, and no request in flight is about, stays listed.
LEMMA OthersCalled ==
  ASSUME ThreadInv, ListsAreTold, OthersAreListed(dirs, file, children),
         NEW t \in Thread, NEW cs, Called(t, cs)
  PROVE  \A q \in Path : Exists(q, dirs', file') /\ InFlight(q) = {} =>
           Exists(q, dirs, file) /\ Name(q) \in ToSet(children'[Parent(q)])
<1> SUFFICES ASSUME NEW q \in Path, Exists(q, dirs', file'), InFlight(q) = {}
             PROVE  Exists(q, dirs, file) /\ Name(q) \in ToSet(children'[Parent(q)])
  OBVIOUS
<1> DEFINE d == thread[t].todo
           c == d[1]
<1>1. q # Root /\ Exists(q, dirs, file) /\ Parent(q) \in Path
  BY CalledKeeps, PathType DEF Exists
<1>2. Name(q) \in ToSet(children[Parent(q)])
  BY <1>1 DEF OthersAreListed
<1>3. Wrote(c) /\ d # << >> /\ DOMAIN children = Path
  BY TypesAre DEF Called, Busy, ThreadInv, StoreTypes
<1>4. ListFound(d, dirs, file)
  BY <1>3, ListsIs DEF ListsToldIn
<1>5. CASE c.do = "putList" /\ c.path = Parent(q)
  <2>1. Name(q) \in ToSet(c.list)
    BY <1>1, <1>4, <1>5 DEF ListFound, ChildrenOf
  <2>2. children'[Parent(q)] = c.list
    BY <1>1, <1>3, <1>5 DEF Wrote
  <2> QED  BY <1>1, <2>1, <2>2
<1>6. CASE ~(c.do = "putList" /\ c.path = Parent(q))
  <2>1. children'[Parent(q)] = children[Parent(q)]
    BY <1>1, <1>3, <1>6 DEF Wrote
  <2> QED  BY <1>1, <1>2, <2>1
<1> QED  BY <1>5, <1>6

\* What a request that ends was about is listed, if it exists.
LEMMA OthersEnded ==
  ASSUME Apart, ThreadInv, ListsAreTold, OthersAreListed(dirs, file, children),
         NEW t \in Worker, thread[t] # Idle, Ended(t)
  PROVE  \A q \in Path : Exists(q, dirs, file) /\ InFlight(q) \subseteq {t} =>
           Name(q) \in ToSet(children[Parent(q)])
<1> SUFFICES ASSUME NEW q \in Path, Exists(q, dirs, file), InFlight(q) \subseteq {t},
                    Name(q) \notin ToSet(children[Parent(q)])
             PROVE  FALSE
  OBVIOUS
<1>1. InFlight(q) # {}
  BY DEF OthersAreListed
<1>2. IsPrefix(thread[t].path, q) /\ q # Root /\ t \in Thread
  BY <1>1, WorkerIs DEF Exists
<1>3. PICK u \in Thread : Listing(thread[u].todo, q)
  BY ListsIs DEF ListsToldIn
<1>4. u = t
  BY <1>2, <1>3, ListerIsNear
<1>5. (thread[t].todo[1].do \notin {"addName", "putList"} /\ Busy(t)) \/ thread[t].todo = << >>
  BY DEF Ended, Busy
<1> QED  BY <1>3, <1>4, <1>5 DEF Listing

\* The calls that a call brings are of the same kind of request.
LEMMA AnswerDoes ==
  ASSUME NEW c \in AnyCall, NEW cs, Answer(c, cs), NEW j \in DOMAIN cs
  PROVE  /\ c.do \in Removes => cs[j].do \in Removes
         /\ c.do \in {"dropName", "putList"} => cs[j].do \in {"dropName", "putList"}
         /\ cs[j].do = "visitFile" => c.do = "walk"
         /\ \A kind : c.do \in Makes(kind) /\ c.path # Root =>
              /\ cs[j].do \in Makes(kind)
              /\ cs[j].path = c.path \/ (cs[j].do = "putList" /\ cs[j].path = Parent(c.path))
<1> DEFINE p == c.path
           a == cs[j].do
           Same == cs[j].path = p
<1>1. p \in Path /\ (p = Root => c.do \in {"ensureRoot", "putDir", "putList"})
  BY DEF AnyCall
<1>2. \A o, do, q : With(o, do, q).do = do /\ With(o, do, q).path = q
  BY DEF With, Call
<1> HIDE DEF p
<1>3. CASE cs = << >>
  BY <1>3
<1>4. CASE c.do = "ensureRoot" /\ cs = MakeDir(p)
  <2>1. \A i \in DOMAIN MakeDir(p) : MakeDir(p)[i].do # "visitFile"
    <3>1. CASE p = Root
      <4>1. MakeDir(p) = <<Call("putDir", p), Call("putList", p)>>
        BY <3>1, MakeDirIs
      <4> QED  BY <4>1, CallGives
    <3>2. CASE p # Root
      <4>1. MakeDir(p) = <<Call("putDir", p), Call("putList", p), Call("addName", p)>>
        BY <3>2, MakeDirIs
      <4> QED  BY <4>1, CallGives
    <3> QED  BY <3>1, <3>2
  <2> QED  BY <1>4, <2>1 DEF Removes, Makes
<1>5. CASE c.do = "visitDir" /\ cs = DeleteDir(p)
  <2>1. a \in {"needDir", "walk", "stillDir"}
    BY <1>5, CallGives DEF DeleteDir
  <2> QED  BY <1>5, <2>1 DEF Removes, Makes
<1>6. CASE c.do = "stillDir" /\ cs = <<Call("clearDir", p), Call("putList", p), Call("dropName", p)>>
  <2>1. a \in {"clearDir", "putList", "dropName"}
    BY <1>6, CallGives
  <2> QED  BY <1>6, <2>1 DEF Removes, Makes
<1>7. CASE c.do = "stillFile" /\ cs = <<Call("clearFile", p), Call("dropName", p)>>
  <2>1. a \in {"clearFile", "dropName"}
    BY <1>7, CallGives
  <2> QED  BY <1>7, <2>1 DEF Removes, Makes
<1>8. CASE c.do = "needNoFile" /\ \E o \in KeysOf(p) : cs = Store(p, o)
  <2>1. PICK o : cs = Store(p, o)
    BY <1>8
  <2>2. cs = <<With(o, "putObject", p), With(o, "putFile", p), Call("addName", p)>>
    BY <1>1, <1>8, <2>1, MakeDirIs
  <2>3. a \in {"putObject", "putFile", "addName"} /\ Same
    BY <1>2, <2>2, CallGives
  <2>4. \A kind : c.do \in Makes(kind) => a \in Makes(kind)
    BY <1>8, <2>3 DEF Makes
  <2> QED  BY <1>8, <2>3, <2>4 DEF Removes, p
<1>9. CASE c.do = "needFile" /\ \E o \in KeysOf(p) : cs = <<With(o, "dropObject", p)>>
  <2>1. a = "dropObject"
    BY <1>2, <1>9
  <2> QED  BY <1>9, <2>1 DEF Removes, Makes
<1>10. CASE c.do = "visitFile" /\ cs \in {DeleteFile(p), <<Call("visitDir", p)>>}
  <2>1. a \in {"needFile", "stillFile", "visitDir"}
    BY <1>10, CallGives DEF DeleteFile
  <2> QED  BY <1>10, <2>1 DEF Removes, Makes
<1>11. CASE c.do = "walk" /\ \E names \in Seq(Names) : NameChildren(p, names) /\ cs = Visits(p, names)
  <2>1. PICK names \in Seq(Names) : NameChildren(p, names) /\ cs = Visits(p, names)
    BY <1>11
  <2>2. a = "visitFile"
    BY <1>1, <1>11, <2>1, VisitsAre
  <2> QED  BY <1>11, <2>2 DEF Removes, Makes
<1>12. CASE c.do \in {"addName", "dropName"} /\ \E names \in Seq(Names) :
              NameChildren(Parent(p), names) /\ cs = <<PutList(Parent(p), names)>>
  <2>1. PICK names : cs = <<PutList(Parent(p), names)>>
    BY <1>12
  <2>2. PutList(Parent(p), names).do = "putList" /\ PutList(Parent(p), names).path = Parent(p)
    BY DEF PutList, Call
  <2>3. a = "putList" /\ cs[j].path = Parent(p)
    BY <2>1, <2>2
  <2> QED  BY <1>12, <2>3 DEF Removes, Makes, p
<1> QED  BY <1>3, <1>4, <1>5, <1>6, <1>7, <1>8, <1>9, <1>10, <1>11, <1>12 DEF Answer, p

\* The calls of a thread after one is answered.
LEMMA CalledGoes ==
  ASSUME ThreadInv, NEW t \in Thread, NEW cs, Called(t, cs)
  PROVE  LET d == thread[t].todo  n == thread'[t].todo  k == Len(cs)
         IN /\ d \in Seq(AnyCall) /\ n \in Seq(AnyCall) /\ cs \in Seq(AnyCall) /\ d # << >>
            /\ k \in Nat /\ Len(d) \in Nat \ {0} /\ Len(n) = k + Len(d) - 1
            /\ DOMAIN d = 1 .. Len(d) /\ DOMAIN n = 1 .. Len(n) /\ DOMAIN cs = 1 .. k
            /\ \A i \in 1 .. k : n[i] = cs[i] /\ i \in DOMAIN n
            /\ \A i \in 2 .. Len(d) : n[k + i - 1] = d[i] /\ k + i - 1 \in DOMAIN n
            /\ \A i \in DOMAIN n : i > k => n[i] = d[i - k + 1] /\ i - k + 1 \in 2 .. Len(d)
            /\ cs # << >> => n # << >> /\ n[1] = cs[1] /\ k > 0
            /\ cs = << >> /\ n # << >> => Len(d) >= 2 /\ n[1] = d[2]
            /\ d[1] \in AnyCall /\ Scripted(d) /\ Nested(d) /\ Within(thread[t].path, d[1])
            /\ d[1].path \in Path
<1> DEFINE d == thread[t].todo
           n == thread'[t].todo
           k == Len(cs)
<1>1. Busy(t) /\ Answer(d[1], cs) /\ thread' = [thread EXCEPT ![t] = Going(t, cs)]
  BY DEF Called
<1>2. /\ d # << >> /\ d \in Seq(AnyCall) /\ d[1] \in AnyCall /\ Scripted(d) /\ Nested(d)
      /\ Within(thread[t].path, d[1]) /\ d[1].path \in Path
  BY <1>1, HeadIs
<1>3. cs \in Seq(AnyCall)
  BY <1>1, <1>2, AnswerIs
<1>4. /\ n = cs \o Tail(d) /\ n \in Seq(AnyCall)
      /\ cs # << >> => n # << >> /\ n[1] = cs[1]
      /\ cs = << >> /\ n # << >> => Len(d) >= 2 /\ n[1] = d[2]
  BY <1>1, <1>3, GoesIs
<1>5. cs # << >> => k > 0
  BY <1>3
<1> HIDE DEF d, n
<1>6. /\ Len(n) = k + Len(d) - 1 /\ Len(d) \in Nat \ {0} /\ k \in Nat
      /\ \A i \in 1 .. k : n[i] = cs[i]
      /\ \A i \in 2 .. Len(d) : n[k + i - 1] = d[i]
      /\ \A i \in 1 .. Len(n) : i > k => n[i] = d[i - k + 1] /\ i - k + 1 \in 2 .. Len(d)
  BY <1>2, <1>3, <1>4, GoingOn
<1>7. DOMAIN d = 1 .. Len(d) /\ DOMAIN n = 1 .. Len(n) /\ DOMAIN cs = 1 .. k
  BY <1>2, <1>3, <1>4
<1> HIDE DEF k
<1>8. /\ \A i \in 1 .. k : i \in DOMAIN n
      /\ \A i \in 2 .. Len(d) : k + i - 1 \in DOMAIN n
  BY <1>6, <1>7
<1> QED  BY <1>2, <1>3, <1>4, <1>5, <1>6, <1>7, <1>8 DEF d, n, k

LEMMA SamePrefix ==
  ASSUME NEW p \in Path, NEW q \in Path, IsPrefix(p, q), IsPrefix(q, p)
  PROVE  p = q
<1> SUFFICES ASSUME p # q PROVE FALSE
  OBVIOUS
<1>1. q # Root /\ IsPrefix(p, Parent(q)) /\ Parent(q) \in Path
  BY AboveParent, PathType
<1>2. Len(p) <= Len(Parent(q)) /\ Len(q) <= Len(p)
  BY <1>1, PrefixIs
<1>3. Len(Parent(q)) = Len(q) - 1 /\ Len(q) \in Nat
  BY <1>1, ParentIs
<1>4. Len(p) \in Nat
  BY PathType
<1> QED  BY <1>2, <1>3, <1>4

\* A request that creates something goes on.
LEMMA CreatedCalled ==
  ASSUME ThreadInv, ListsAreTold, NEW t \in Worker, NEW cs, Called(t, cs),
         thread[t].kind \in {"createDir", "uploadFile"}, Created(thread[t], dirs, file)
  PROVE  Created(thread'[t], dirs', file')
<1> DEFINE r == thread[t]
           s == thread'[t]
           d == r.todo
           n == s.todo
           k == Len(cs)
           c == d[1]
           P == r.path
           Made(D, F) == IF r.kind = "createDir" THEN P \in D ELSE F[P] # NoFile
<1>0. t \in Thread
  BY DEF Thread
<1>1. /\ d \in Seq(AnyCall) /\ n \in Seq(AnyCall) /\ cs \in Seq(AnyCall) /\ d # << >>
      /\ k \in Nat /\ Len(d) \in Nat \ {0} /\ Len(n) = k + Len(d) - 1
      /\ DOMAIN d = 1 .. Len(d) /\ DOMAIN n = 1 .. Len(n) /\ DOMAIN cs = 1 .. k
      /\ \A i \in 1 .. k : n[i] = cs[i] /\ i \in DOMAIN n
      /\ \A i \in DOMAIN n : i > k => n[i] = d[i - k + 1] /\ i - k + 1 \in 2 .. Len(d)
      /\ cs # << >> => n # << >> /\ n[1] = cs[1] /\ k > 0
      /\ cs = << >> /\ n # << >> => Len(d) >= 2 /\ n[1] = d[2]
      /\ c \in AnyCall /\ Scripted(d) /\ c.path \in Path
  BY <1>0, CalledGoes
<1>2. /\ r # Idle /\ s.path = P /\ s.kind = r.kind /\ s.saw = r.saw
      /\ \A q \in Path : q # c.path => (q \in dirs' <=> q \in dirs) /\ file'[q] = file[q]
  BY <1>0, CalledKeeps
<1>3. P \in Path \ {Root}
  BY <1>2, WorkerIs
<1>4. Answer(c, cs) /\ Wrote(c) /\ (c.do = "needNoFile" => cs # << >>)
  BY DEF Called
<1>5. /\ \A i \in DOMAIN d : /\ d[i].do \in Makes(r.kind)
                             /\ d[i].path = P \/ (d[i].do = "putList" /\ d[i].path = Parent(P))
      /\ \A q \in Below(P) \ {P} : ~Exists(q, dirs, file)
      /\ r.saw[P] = "none"
      /\ d = << >> \/ c.do \in {"addName", "putList"} => Made(dirs, file)
  BY DEF Created
<1>6. 1 \in DOMAIN d /\ DOMAIN file = Path
  BY <1>1, TypesAre DEF ThreadInv, StoreTypes
<1>7. /\ c.do \in Makes(r.kind)
      /\ c.path = P \/ (c.do = "putList" /\ c.path = Parent(P))
  BY <1>5, <1>6
<1>8. /\ c.do \in {"addName", "putList", "needNoDir", "putDir", "needNoFile", "putObject", "putFile"}
      /\ c.do = "putDir" => r.kind = "createDir"
      /\ c.do = "putFile" => r.kind # "createDir"
  BY <1>7 DEF Makes
<1> HIDE DEF d, n, c, k, P, r, s
<1>9. ASSUME NEW i \in DOMAIN n
      PROVE  /\ n[i].do \in Makes(r.kind)
             /\ n[i].path = P \/ (n[i].do = "putList" /\ n[i].path = Parent(P))
  <2>1. CASE i > k
    <3>1. n[i] = d[i - k + 1] /\ i - k + 1 \in DOMAIN d
      BY <1>1, <2>1
    <3> QED  BY <1>5, <3>1
  <2>2. CASE ~(i > k)
    <3>1. n[i] = cs[i] /\ i \in DOMAIN cs
      BY <1>1, <2>2
    <3>2. cs # << >>
      BY <3>1
    <3>3. c.do # "putList"
      BY <1>4, <3>2 DEF Answer
    <3>4. c.path = P /\ c.path # Root
      BY <1>3, <1>7, <3>3
    <3>5. /\ cs[i].do \in Makes(r.kind)
          /\ cs[i].path = c.path \/ (cs[i].do = "putList" /\ cs[i].path = Parent(c.path))
      <4>1. \A kind : c.do \in Makes(kind) /\ c.path # Root =>
              /\ cs[i].do \in Makes(kind)
              /\ cs[i].path = c.path \/ (cs[i].do = "putList" /\ cs[i].path = Parent(c.path))
        BY <1>1, <1>4, <3>1, AnswerDoes
      <4> QED  BY <1>7, <3>4, <4>1
    <3> QED  BY <3>1, <3>4, <3>5
  <2> QED  BY <2>1, <2>2
<1>10. \A q \in Below(P) \ {P} : ~Exists(q, dirs', file')
  <2> SUFFICES ASSUME NEW q \in Below(P) \ {P} PROVE ~Exists(q, dirs', file')
    OBVIOUS
  <2>1. q \in Path /\ ~Exists(q, dirs, file)
    BY <1>5 DEF Below
  <2>2. CASE q # c.path
    BY <1>2, <2>1, <2>2 DEF Exists
  <2>3. CASE q = c.path
    <3>1. c.do = "putList"
      BY <1>7, <2>3
    <3>2. dirs' = dirs /\ file' = file
      BY <1>4, <3>1 DEF Wrote
    <3> QED  BY <2>1, <3>2
  <2> QED  BY <2>2, <2>3
<1>11. n = << >> \/ n[1].do \in {"addName", "putList"} => Made(dirs', file')
  <2>1. CASE c.do \in {"addName", "putList"}
    <3>1. dirs' = dirs /\ file' = file
      BY <1>4, <2>1 DEF Wrote
    <3> QED  BY <1>5, <2>1, <3>1
  <2>2. CASE c.do = "putDir"
    <3>1. P \in dirs' /\ r.kind = "createDir"
      BY <1>4, <1>7, <1>8, <2>2 DEF Wrote
    <3> QED  BY <3>1
  <2>3. CASE c.do = "putFile"
    <3>1. c.object # NoFile /\ c.path = P
      BY <1>1, <1>7, <2>3 DEF AnyCall
    <3>2. file'[P] = c.object
      BY <1>3, <1>4, <1>6, <2>3, <3>1 DEF Wrote
    <3> QED  BY <1>8, <2>3, <3>1, <3>2
  <2>4. CASE c.do = "needNoFile"
    <3>1. cs # << >> /\ cs[1].do = "putObject"
      BY <1>1, <1>4, <2>4, AnswerHead
    <3> QED  BY <1>1, <3>1
  <2>5. CASE c.do \in {"needNoDir", "putObject"}
    <3>1. cs = << >>
      BY <1>4, <2>5 DEF Answer
    <3>2. c.path # Root /\ c.path = P
      BY <1>3, <1>7, <2>5
    <3>3. Len(d) >= 2
      <4>1. CASE c.do = "needNoDir"
        <5> DEFINE f == CreateDir(P)
        <5>1. Ends(d, f)
          BY <1>1, <3>2, <4>1 DEF Scripted, c
        <5>2. f = <<Call("needNoDir", P), Call("putDir", P), Call("putList", P), Call("addName", P)>>
          BY <3>2, MakeDirIs
        <5>3. Len(f) = 4
          BY <5>2
        <5> QED  BY <5>1, <5>3 DEF Ends
      <4>2. CASE c.do = "putObject"
        <5> DEFINE f == Store(P, c.object)
        <5>1. Ends(d, f)
          BY <1>1, <3>2, <4>2 DEF Scripted, c
        <5>2. f = <<With(c.object, "putObject", P), With(c.object, "putFile", P), Call("addName", P)>>
          BY <3>2, MakeDirIs
        <5>3. Len(f) = 3
          BY <5>2
        <5> QED  BY <5>1, <5>3 DEF Ends
      <4> QED  BY <2>5, <4>1, <4>2
    <3>4. d[2].do \in {"putDir", "putFile"}
      <4>1. /\ c.do = "needNoDir" => d[2] = Call("putDir", c.path)
            /\ c.do = "putObject" => d[2] = With(c.object, "putFile", c.path)
        BY <1>1, <3>3, SecondIs DEF c
      <4> QED  BY <2>5, <4>1 DEF With, Call
    <3>5. n # << >>
      <4>1. Len(cs) = 0
        BY <3>1
      <4>2. Len(n) >= 1
        BY <1>1, <3>3, <4>1 DEF k
      <4> QED  BY <1>1, <4>2
    <3> QED  BY <1>1, <3>1, <3>4, <3>5
  <2> QED  BY <1>8, <2>1, <2>2, <2>3, <2>4, <2>5
<1>12. s.saw[P] = "none" /\ s.path = P /\ s.kind = r.kind /\ s.todo = n
  BY <1>2, <1>5 DEF n
<1>13. Created(s, dirs', file')
  BY <1>9, <1>10, <1>11, <1>12 DEF Created
<1> QED  BY <1>13 DEF s

\* A request that deletes something goes on.
LEMMA RemovedCalled ==
  ASSUME ThreadInv, ListsAreTold, NEW t \in Worker, NEW cs, Called(t, cs),
         Removed(thread[t], dirs, file)
  PROVE  Removed(thread'[t], dirs', file')
<1> DEFINE r == thread[t]
           s == thread'[t]
           d == r.todo
           n == s.todo
           k == Len(cs)
           c == d[1]
           P == r.path
           Final == {"dropName", "putList"}
<1>0. t \in Thread
  BY DEF Thread
<1>1. /\ d \in Seq(AnyCall) /\ n \in Seq(AnyCall) /\ cs \in Seq(AnyCall) /\ d # << >>
      /\ k \in Nat /\ Len(d) \in Nat \ {0} /\ Len(n) = k + Len(d) - 1
      /\ DOMAIN d = 1 .. Len(d) /\ DOMAIN n = 1 .. Len(n) /\ DOMAIN cs = 1 .. k
      /\ \A i \in 1 .. k : n[i] = cs[i] /\ i \in DOMAIN n
      /\ \A i \in 2 .. Len(d) : n[k + i - 1] = d[i] /\ k + i - 1 \in DOMAIN n
      /\ \A i \in DOMAIN n : i > k => n[i] = d[i - k + 1] /\ i - k + 1 \in 2 .. Len(d)
      /\ cs # << >> => n # << >> /\ n[1] = cs[1] /\ k > 0
      /\ cs = << >> /\ n # << >> => Len(d) >= 2 /\ n[1] = d[2]
      /\ c \in AnyCall /\ Scripted(d) /\ Nested(d) /\ c.path \in Path
  BY <1>0, CalledGoes
<1>2. /\ r # Idle /\ s.path = P /\ s.kind = r.kind /\ s.saw = r.saw
      /\ \A q \in Path : q # c.path => (q \in dirs' <=> q \in dirs) /\ file'[q] = file[q]
  BY <1>0, CalledKeeps
<1>3. P \in Path \ {Root}
  BY <1>2, WorkerIs
<1>4. /\ Answer(c, cs) /\ Wrote(c)
      /\ c.do \in {"visitFile", "needFile", "needNoFile"} => cs # << >>
      /\ c.do \in {"visitDir", "stillDir"} /\ c.path \in dirs => cs # << >>
      /\ c.do = "stillFile" /\ file[c.path] # NoFile => cs # << >>
  BY DEF Called
<1>5. /\ \A i \in DOMAIN d : d[i].do \in Removes
      /\ \A q \in Below(P) : /\ q \in dirs => r.saw[q] = "dir"
                             /\ file[q] # NoFile => r.saw[q] = "file"
      /\ Exists(P, dirs, file) => \E i \in DOMAIN d : Deletes(d[i], P)
      /\ \/ r.saw[P] = "none" \/ Exists(P, dirs, file)
         \/ \A i \in DOMAIN d : d[i].do \in Final
      /\ \A i \in DOMAIN d : d[i].do = "visitFile" =>
           \E j \in DOMAIN d : j > i /\ d[j].do = "stillDir"
  BY DEF Removed
<1>6. 1 \in DOMAIN d /\ DOMAIN file = Path
  BY <1>1, TypesAre DEF ThreadInv, StoreTypes
<1>7. \A i \in DOMAIN d : Within(P, d[i]) /\ d[i].path \in Path
  BY <1>0, CallWithin
<1>8. ListFound(d, dirs, file) /\ Emptied(d, dirs, file) /\ \A p \in dirs : file[p] = NoFile
  BY <1>0, <1>1, ListsIs DEF ListsToldIn
<1>9. c.do \in Removes
  BY <1>5, <1>6
<1> HIDE DEF d, n, c, k, P, r, s
\* The store only loses things.
<1>10. /\ \A q \in Path : q \in dirs' => q \in dirs
       /\ \A q \in Path : file'[q] # NoFile => file[q] # NoFile
       /\ \A q \in Path : Exists(q, dirs', file') => Exists(q, dirs, file)
  <2>1. c.do \notin {"putDir", "putFile"}
    BY <1>9 DEF Removes
  <2>2. \A q \in Path : (q \in dirs' => q \in dirs) /\ (file'[q] # NoFile => file[q] # NoFile)
    BY <1>1, <1>4, <1>6, <2>1 DEF Wrote
  <2> QED  BY <2>2 DEF Exists
<1>11. ASSUME c.do \notin {"clearDir", "clearFile"} PROVE dirs' = dirs /\ file' = file
  BY <1>9, <1>11, <1>4 DEF Wrote, Removes
<1>12. ASSUME NEW i \in DOMAIN n PROVE n[i].do \in Removes
  <2>1. CASE i > k
    BY <1>1, <1>5, <2>1
  <2>2. CASE ~(i > k)
    <3>1. n[i] = cs[i] /\ i \in DOMAIN cs
      BY <1>1, <2>2
    <3>2. cs[i].do \in Removes
      BY <1>1, <1>4, <1>9, <3>1, AnswerDoes
    <3> QED  BY <3>1, <3>2
  <2> QED  BY <2>1, <2>2
<1>13. ASSUME NEW i \in DOMAIN n, n[i].do = "visitFile"
       PROVE  \E j \in DOMAIN n : j > i /\ n[j].do = "stillDir"
  <2>1. CASE i > k
    <3> DEFINE x == i - k + 1
    <3>0. n[i] = d[x] /\ x \in 2 .. Len(d) /\ i \in 1 .. Len(n)
      BY <1>1, <2>1
    <3>1. n[i] = d[x] /\ x \in 2 .. Len(d) /\ x \in DOMAIN d /\ x \in Nat /\ k + x - 1 = i
      BY <1>1, <3>0
    <3> HIDE DEF x
    <3>2. PICK j \in DOMAIN d : j > x /\ d[j].do = "stillDir"
      BY <1>5, <1>13, <3>1
    <3>3. j \in 2 .. Len(d)
      BY <1>1, <3>1, <3>2
    <3>4. n[k + j - 1] = d[j] /\ k + j - 1 \in DOMAIN n
      BY <1>1, <3>3
    <3>5. k + j - 1 > i
      BY <1>1, <3>1, <3>2, <3>3
    <3> QED  BY <3>2, <3>4, <3>5
  <2>2. CASE ~(i > k)
    <3>1. n[i] = cs[i] /\ i \in DOMAIN cs
      BY <1>1, <2>2
    <3>2. cs[i].do = "visitFile" => c.do = "walk"
      BY <1>1, <1>4, <3>1, AnswerDoes
    <3>3. Continues(d, <<c, Call("stillDir", c.path)>>)
      BY <1>1, <1>13, <3>1, <3>2 DEF Scripted, c
    <3>4. Len(d) >= 2 /\ d[2] = Call("stillDir", c.path)
      BY <1>1, <3>3, ShapeIs
    <3>5. d[2].do = "stillDir"
      BY <3>4, CallGives
    <3>6. 2 \in 2 .. Len(d) /\ k + 2 - 1 > i
      BY <1>1, <2>2, <3>4
    <3>7. n[k + 2 - 1] = d[2] /\ k + 2 - 1 \in DOMAIN n
      BY <1>1, <3>6
    <3> QED  BY <3>5, <3>6, <3>7
  <2> QED  BY <2>1, <2>2
\* A call that sees to the path, while it is there.
<1>14. ASSUME Exists(P, dirs', file') PROVE \E i \in DOMAIN n : Deletes(n[i], P)
  <2>1. Exists(P, dirs, file)
    BY <1>3, <1>10, <1>14
  <2>2. PICK i \in DOMAIN d : Deletes(d[i], P)
    BY <1>5, <2>1
  <2>3. ASSUME NEW j \in 2 .. Len(d), Deletes(d[j], P) PROVE \E x \in DOMAIN n : Deletes(n[x], P)
    BY <1>1, <2>3
  <2>4. CASE i # 1
    <3>1. i \in 2 .. Len(d)
      BY <1>1, <2>4
    <3> QED  BY <2>2, <2>3, <3>1
  <2>5. CASE i = 1
    <3>1. Deletes(c, P)
      BY <2>2, <2>5 DEF c
    <3>2. c.path = P
      <4>1. CASE c.path = Parent(P) /\ c.do \in {"needDir", "walk"}
        <5>1. IsPrefix(P, Parent(P))
          BY <1>6, <1>7, <4>1 DEF Within, c
        <5>2. IsPrefix(Parent(P), P) /\ Parent(P) \in Path /\ Parent(P) # P
          BY <1>3, ParentIs, ParentAbove
        <5> QED  BY <1>3, <5>1, <5>2, SamePrefix
      <4> QED  BY <3>1, <4>1 DEF Deletes
    <3>3. c.do \in {"visitFile", "visitDir", "needFile", "dropObject", "stillFile", "clearFile",
                    "needDir", "walk", "stillDir", "clearDir"}
      BY <3>1 DEF Deletes
    <3>4. ASSUME cs # << >>, cs[1].path = P,
                 cs[1].do \in {"needFile", "dropObject", "clearFile", "needDir", "visitDir", "clearDir"}
          PROVE  \E x \in DOMAIN n : Deletes(n[x], P)
      <4>1. n[1] = cs[1] /\ 1 \in DOMAIN n
        BY <1>1, <3>4
      <4> QED  BY <3>4, <4>1 DEF Deletes
    <3>5. CASE c.do = "clearFile"
      <4>1. file[P] # NoFile /\ dirs' = dirs /\ file'[P] = NoFile
        BY <1>3, <1>4, <1>6, <1>8, <3>2, <3>5 DEF ListFound, Wrote, c
      <4> QED  BY <1>8, <1>14, <4>1 DEF Exists
    <3>6. CASE c.do = "clearDir"
      <4>1. P \in dirs /\ P \notin dirs' /\ file' = file
        BY <1>4, <1>8, <3>2, <3>6 DEF ListFound, Wrote, c
      <4> QED  BY <1>8, <1>14, <4>1 DEF Exists
    <3>7. CASE c.do \in {"dropObject", "needDir", "walk"}
      <4>1. /\ c.do = "dropObject" => Continues(d, <<c, Call("stillFile", P)>>)
            /\ c.do = "needDir" => Continues(d, DeleteDir(P))
            /\ c.do = "walk" => Continues(d, <<c, Call("stillDir", P)>>)
        BY <1>1, <3>2, <3>7 DEF Scripted, c
      <4>2. /\ c.do = "dropObject" => Len(d) >= 2 /\ d[2] = Call("stillFile", P)
            /\ c.do = "walk" => Len(d) >= 2 /\ d[2] = Call("stillDir", P)
            /\ c.do = "needDir" => Len(d) >= 3 /\ d[2] = Call("walk", P)
        BY <1>1, <4>1, ShapeIs DEF DeleteDir
      <4>3. Len(d) >= 2 /\ d[2].path = P /\ d[2].do \in {"stillFile", "stillDir", "walk"}
        BY <1>1, <3>7, <4>2, CallGives
      <4>4. 2 \in 2 .. Len(d) /\ Deletes(d[2], P)
        BY <1>1, <4>3 DEF Deletes
      <4> QED  BY <2>3, <4>4
    <3>8. CASE c.do = "visitFile"
      <4>1. cs # << >> /\ cs[1] \in {Call("needFile", P), Call("visitDir", P)}
        BY <1>1, <1>4, <3>2, <3>8, AnswerHead
      <4> QED  BY <3>4, <4>1, CallGives
    <3>9. CASE c.do = "visitDir"
      <4>1. P \in dirs
        BY <1>8, <2>1, <3>2, <3>9 DEF ListFound, Exists, c
      <4>2. cs # << >> /\ cs[1] = Call("needDir", P)
        BY <1>1, <1>4, <3>2, <3>9, <4>1, AnswerHead
      <4> QED  BY <3>4, <4>2, CallGives
    <3>10. CASE c.do = "needFile"
      <4>1. cs # << >> /\ \E o : cs = <<With(o, "dropObject", P)>>
        BY <1>4, <3>2, <3>10 DEF Answer
      <4>2. cs[1].do = "dropObject" /\ cs[1].path = P
        BY <4>1 DEF With, Call
      <4> QED  BY <3>4, <4>1, <4>2
    <3>11. CASE c.do = "stillFile"
      <4>1. file[P] # NoFile
        BY <1>8, <3>2, <3>11 DEF ListFound, c
      <4>2. cs # << >> /\ cs[1] = Call("clearFile", P)
        BY <1>1, <1>4, <3>2, <3>11, <4>1, AnswerHead
      <4> QED  BY <3>4, <4>2, CallGives
    <3>12. CASE c.do = "stillDir"
      <4>1. P \in dirs
        BY <1>6, <1>8, <3>2, <3>12 DEF Emptied, c
      <4>2. cs # << >> /\ cs[1] = Call("clearDir", P)
        BY <1>1, <1>4, <3>2, <3>12, <4>1, AnswerHead
      <4> QED  BY <3>4, <4>2, CallGives
    <3> QED  BY <3>3, <3>5, <3>6, <3>7, <3>8, <3>9, <3>10, <3>11, <3>12
  <2> QED  BY <2>4, <2>5
\* The path goes last.
<1>15. \/ r.saw[P] = "none" \/ Exists(P, dirs', file')
       \/ \A i \in DOMAIN n : n[i].do \in Final
  <2>1. CASE \A i \in DOMAIN d : d[i].do \in Final
    <3> SUFFICES ASSUME NEW i \in DOMAIN n PROVE n[i].do \in Final
      OBVIOUS
    <3>1. CASE i > k
      BY <1>1, <2>1, <3>1
    <3>2. CASE ~(i > k)
      <4>1. n[i] = cs[i] /\ i \in DOMAIN cs
        BY <1>1, <3>2
      <4>2. c.do \in Final
        BY <1>6, <2>1 DEF c
      <4>3. cs[i].do \in Final
        BY <1>1, <1>4, <4>1, <4>2, AnswerDoes
      <4> QED  BY <4>1, <4>3
    <3> QED  BY <3>1, <3>2
  <2>2. CASE Exists(P, dirs, file) /\ ~(c.do \in {"clearDir", "clearFile"} /\ c.path = P)
    <3>1. CASE c.path # P
      BY <1>2, <1>3, <2>2, <3>1 DEF Exists
    <3>2. CASE c.path = P
      BY <1>11, <2>2, <3>2
    <3> QED  BY <3>1, <3>2
  <2>3. CASE c.do \in {"clearDir", "clearFile"} /\ c.path = P
    <3>1. ASSUME NEW i \in DOMAIN d PROVE d[i].do # "stillDir"
      <4> SUFFICES ASSUME d[i].do = "stillDir" PROVE FALSE
        OBVIOUS
      <4>1. i # 1
        BY <2>3 DEF c
      <4>2. 1 \in 1 .. i - 1
        BY <1>1, <4>1
      <4>3. /\ IsPrefix(d[i].path, P)
            /\ d[i].path = P => c.do \in {"needDir", "walk", "putList"}
        BY <1>1, <2>3, <4>2 DEF Nested, c
      <4>4. IsPrefix(P, d[i].path) /\ d[i].path \in Path
        BY <1>7 DEF Within
      <4>5. d[i].path = P
        BY <1>3, <4>3, <4>4, SamePrefix
      <4> QED  BY <2>3, <4>3, <4>5
    <3>2. \A i \in DOMAIN d : d[i].do # "visitFile"
      BY <1>5, <3>1
    <3>3. cs = << >>
      BY <1>4, <2>3 DEF Answer
    <3>4. ASSUME NEW i \in 2 .. Len(d) PROVE d[i].do \in Final
      <4>1. i \in DOMAIN d /\ i \in Nat
        BY <1>1
      <4>2. CASE c.do = "clearFile"
        <5>1. Continues(d, <<c, Call("dropName", P)>>)
          BY <1>1, <2>3, <4>2 DEF Scripted, c
        <5>2. d[2] = Call("dropName", P) /\ Queued(d, 2)
          BY <1>1, <5>1, ShapeIs
        <5>3. i = 2
          BY <3>1, <3>2, <4>1, <5>2 DEF Queued
        <5> QED  BY <5>2, <5>3, CallGives
      <4>3. CASE c.do = "clearDir"
        <5>1. Continues(d, <<c, Call("putList", P), Call("dropName", P)>>)
          BY <1>1, <2>3, <4>3 DEF Scripted, c
        <5>2. d[2] = Call("putList", P) /\ d[3] = Call("dropName", P) /\ Queued(d, 3)
          BY <1>1, <5>1, ShapeIs
        <5>3. i = 2 \/ i = 3
          BY <3>1, <3>2, <4>1, <5>2 DEF Queued
        <5> QED  BY <5>2, <5>3, CallGives
      <4> QED  BY <2>3, <4>2, <4>3
    <3>5. k = 0
      BY <3>3 DEF k
    <3> QED  BY <1>1, <3>4, <3>5
  <2> QED  BY <1>5, <2>1, <2>2, <2>3
<1>16. \A q \in Below(P) : /\ q \in dirs' => s.saw[q] = "dir"
                           /\ file'[q] # NoFile => s.saw[q] = "file"
  BY <1>2, <1>5, <1>10 DEF Below
<1>17. s.saw[P] = r.saw[P] /\ s.path = P /\ s.todo = n
  BY <1>2 DEF n
<1>18. Removed(s, dirs', file')
  BY <1>12, <1>13, <1>14, <1>15, <1>16, <1>17 DEF Removed
<1> QED  BY <1>18 DEF s

-----------------------------------------------------------------------------
(* What holds of the requests in flight, in every state.                   *)

\* What a client sees where no request is in flight, and where one has just ended.
There(q, D, F) == IF F[q] # NoFile THEN "file" ELSE IF q \in D THEN "dir" ELSE "none"

LEMMA ShownIs ==
  ASSUME NEW q \in Path \ {Root},
         Exists(q, dirs, file) => Name(q) \in ToSet(children[Parent(q)])
  PROVE  Shown(q) = There(q, dirs, file)
BY DEF Shown, There, Exists

LEMMA TreeCalled ==
  ASSUME Apart, ThreadInv, ListsAreTold, EffectsAreTold, ~broken', NEW t \in Thread, NEW cs, Called(t, cs)
  PROVE  EffectsAreTold'
<1>1. OthersAreListed(dirs, file, children) /\ \A u \in Worker : thread[u] # Idle => Effect(thread[u], dirs, file)
  BY DEF EffectsAreTold
<1>2. /\ \A u \in Thread : u # t => thread'[u] = thread[u]
      /\ thread[t] # Idle /\ thread'[t] # Idle /\ thread'[t].path = thread[t].path
      /\ thread'[t].kind = thread[t].kind /\ thread'[t].saw = thread[t].saw
      /\ \A q \in Path : InFlight(q)' = InFlight(q)
      /\ \A q \in Path \ {Root} : t \notin InFlight(q) =>
           (q \in dirs' <=> q \in dirs) /\ file'[q] = file[q]
  BY CalledKeeps
<1>3. \A q \in Path : Exists(q, dirs', file') /\ InFlight(q) = {} =>
        Name(q) \in ToSet(children'[Parent(q)])
  BY <1>1, OthersCalled
<1>4. (OthersAreListed(dirs, file, children))'
  BY <1>2, <1>3 DEF OthersAreListed
<1>5. ASSUME NEW u \in Worker, thread'[u] # Idle PROVE Effect(thread'[u], dirs', file')
  <2>1. CASE u = t
    <3>1. Effect(thread[t], dirs, file)
      BY <1>1, <1>2, <2>1
    <3>2. CASE thread[t].kind \in {"createDir", "uploadFile"}
      <4>1. Created(thread'[t], dirs', file')
        BY <2>1, <3>1, <3>2, CreatedCalled DEF Effect
      <4> QED  BY <1>2, <2>1, <3>1, <3>2, <4>1 DEF Effect
    <3>3. CASE thread[t].kind \notin {"createDir", "uploadFile"}
      <4>1. Removed(thread'[t], dirs', file')
        BY <2>1, <3>1, <3>3, RemovedCalled DEF Effect
      <4> QED  BY <1>2, <2>1, <3>1, <3>3, <4>1 DEF Effect
    <3> QED  BY <3>2, <3>3
  <2>2. CASE u # t
    <3> DEFINE r == thread[u]
               P == r.path
    <3>1. u \in Thread /\ thread'[u] = r /\ r # Idle
      BY <1>2, <1>5, <2>2 DEF Thread
    <3>2. Effect(r, dirs, file)
      BY <1>1, <3>1
    <3>3. P \in Path \ {Root} /\ P \in Below(P) /\ \A q \in Path : u \in InFlight(q) <=> IsPrefix(P, q)
      BY <3>1, WorkerIs
    <3>4. ASSUME NEW q \in Below(P)
          PROVE  /\ q \in dirs' <=> q \in dirs
                 /\ file'[q] = file[q]
                 /\ Exists(q, dirs', file') <=> Exists(q, dirs, file)
      <4>1. q \in Path /\ IsPrefix(P, q) /\ q # Root
        <5>1. q \in Path /\ IsPrefix(P, q)
          BY DEF Below
        <5>2. q # Root
          BY <3>3, <5>1, AboveParent
        <5> QED  BY <5>1, <5>2
      <4>2. t \notin InFlight(q)
        <5>1. ~(t \in Worker /\ thread[t] # Idle /\ IsPrefix(thread[t].path, q))
          <6> SUFFICES ASSUME t \in Worker, IsPrefix(thread[t].path, q) PROVE FALSE
            OBVIOUS
          <6>1. AreApart(thread[t].path, P)
            BY <1>2, <2>2, <3>1 DEF ThreadInv, ThreadsAreScripted
          <6>2. thread[t].path \in Path
            BY <1>2, WorkerIs
          <6> QED  BY <3>3, <4>1, <6>1, <6>2, PrefixesCompare DEF AreApart
        <5> QED  BY <5>1 DEF InFlight
      <4>3. (q \in dirs' <=> q \in dirs) /\ file'[q] = file[q]
        BY <1>2, <4>1, <4>2
      <4> QED  BY <4>3 DEF Exists
    <3> HIDE DEF r, P
    <3>5. CASE r.kind \in {"createDir", "uploadFile"}
      <4>1. Created(r, dirs, file)
        BY <3>2, <3>5 DEF Effect
      <4>2. Created(r, dirs', file')
        BY <3>3, <3>4, <4>1 DEF Created, P
      <4> QED  BY <3>1, <3>2, <3>5, <4>2 DEF Effect
    <3>6. CASE r.kind \notin {"createDir", "uploadFile"}
      <4>1. Removed(r, dirs, file)
        BY <3>2, <3>6 DEF Effect
      <4>2. Removed(r, dirs', file')
        BY <3>3, <3>4, <4>1 DEF Removed, P
      <4> QED  BY <3>1, <3>2, <3>6, <4>2 DEF Effect
    <3> QED  BY <3>5, <3>6
  <2> QED  BY <2>1, <2>2
<1> QED  BY <1>4, <1>5 DEF EffectsAreTold

\* A thread that is done with its request.
LEMMA TreeEnded ==
  ASSUME Apart, ThreadInv, ListsAreTold, EffectsAreTold, NEW t \in Thread, Ended(t)
  PROVE  /\ EffectsAreTold'
         /\ \A q \in Path : InFlight(q)' = InFlight(q) \ {t}
         /\ \A u \in Thread : u # t => thread'[u] = thread[u]
<1>1. /\ OthersAreListed(dirs, file, children)
      /\ \A u \in Worker : thread[u] # Idle => Effect(thread[u], dirs, file)
  BY DEF EffectsAreTold
<1>2. /\ thread'[t] = Idle /\ UNCHANGED <<dirs, file, children>>
      /\ \A u \in Thread : u # t => thread'[u] = thread[u]
  BY DEF Ended, ThreadInv, DriveTypes
<1>3. \A q \in Path : InFlight(q)' = InFlight(q) \ {t}
  BY <1>2 DEF InFlight, Thread
<1>4. ASSUME NEW q \in Path, Exists(q, dirs, file), InFlight(q) \ {t} = {}
      PROVE  Name(q) \in ToSet(children[Parent(q)])
  <2>1. CASE InFlight(q) = {}
    BY <1>1, <1>4, <2>1 DEF OthersAreListed
  <2>2. CASE InFlight(q) # {}
    <3>1. t \in InFlight(q)
      BY <1>4, <2>2
    <3>2. t \in Worker /\ thread[t] # Idle
      BY <3>1 DEF InFlight
    <3> QED  BY <1>1, <1>4, <3>2, OthersEnded
  <2> QED  BY <2>1, <2>2
<1>5. (OthersAreListed(dirs, file, children))'
  BY <1>2, <1>3, <1>4 DEF OthersAreListed
<1>6. \A u \in Worker : thread'[u] # Idle => Effect(thread'[u], dirs', file')
  BY <1>1, <1>2 DEF Thread
<1>7. EffectsAreTold'
  BY <1>5, <1>6 DEF EffectsAreTold
<1> QED  BY <1>2, <1>3, <1>7

\* A request that comes: its client saw what is in the store.
LEMMA ReceiveIs ==
  ASSUME ThreadInv, NEW t \in Worker, NEW kind \in Requests, NEW p \in Path, Receive(t, kind, p)
  PROVE  LET s == thread'[t]
         IN /\ p # Root /\ UNCHANGED <<dirs, file, children, broken>>
            /\ thread[t] = Idle /\ thread[Main] = Idle /\ s # Idle
            /\ s.kind = kind /\ s.path = p /\ s.todo = CallsOf(kind, p)
            /\ s.saw = [q \in Below(p) |-> Shown(q)]
            /\ \A u \in Thread : u # t => thread'[u] = thread[u]
            /\ \A q \in Path : InFlight(q)' = InFlight(q) \cup IF IsPrefix(p, q) THEN {t} ELSE {}
            /\ Apart => \A q \in Below(p) : InFlight(q) = {}
<1> DEFINE s == [kind |-> kind, path |-> p, todo |-> CallsOf(kind, p),
                 saw |-> [q \in Below(p) |-> Shown(q)]]
<1>1. /\ p # Root /\ UNCHANGED <<dirs, file, children, broken>>
      /\ thread[t] = Idle /\ thread[Main] = Idle /\ thread' = [thread EXCEPT ![t] = s]
      /\ Apart => \A u \in Worker : thread[u] # Idle => AreApart(p, thread[u].path)
  BY DEF Receive, storeVars
<1>2. /\ s.kind = kind /\ s.path = p /\ s.todo = CallsOf(kind, p)
      /\ s.saw = [q \in Below(p) |-> Shown(q)]
  OBVIOUS
<1> HIDE DEF s
<1>3. t \in Thread /\ thread'[t] = s /\ \A u \in Thread : u # t => thread'[u] = thread[u]
  BY <1>1 DEF Thread, ThreadInv, DriveTypes
<1>4. s # Idle
  BY <1>1, <1>2, IdleIs
<1>5. \A q \in Path : InFlight(q)' = InFlight(q) \cup IF IsPrefix(p, q) THEN {t} ELSE {}
  BY <1>1, <1>2, <1>3, <1>4 DEF InFlight, Thread
<1>6. ASSUME Apart, NEW q \in Below(p) PROVE InFlight(q) = {}
  <2> SUFFICES ASSUME NEW u \in Worker, thread[u] # Idle, IsPrefix(thread[u].path, q) PROVE FALSE
    BY DEF InFlight
  <2>1. AreApart(p, thread[u].path) /\ thread[u].path \in Path
    BY <1>1, <1>6, WorkerIs
  <2> QED  BY <2>1, PrefixesCompare DEF AreApart, Below
<1> QED  BY <1>1, <1>2, <1>3, <1>4, <1>5, <1>6

LEMMA CallsDo ==
  ASSUME NEW kind \in Requests, NEW p \in Path, p # Root
  PROVE  LET d == CallsOf(kind, p)
         IN /\ kind \in {"createDir", "uploadFile"} => \A i \in DOMAIN d : d[i].do \in Makes(kind)
            /\ kind \notin {"createDir", "uploadFile"} =>
                 /\ \A i \in DOMAIN d : d[i].do \in Removes /\ d[i].do # "visitFile"
                 /\ Deletes(d[1], p) /\ 1 \in DOMAIN d
<1> DEFINE d == CallsOf(kind, p)
<1>1. CASE kind = "createDir"
  <2>1. d = <<Call("needNoDir", p), Call("putDir", p), Call("putList", p), Call("addName", p)>>
    BY <1>1, MakeDirIs DEF CallsOf
  <2>2. \A i \in DOMAIN d : d[i].do \in {"needNoDir", "putDir", "putList", "addName"}
    BY <2>1, CallGives
  <2> HIDE DEF d
  <2> QED  BY <1>1, <2>2 DEF Makes, d
<1>2. CASE kind = "uploadFile"
  <2>1. d = <<Call("needNoFile", p)>>
    BY <1>2 DEF CallsOf
  <2>2. \A i \in DOMAIN d : d[i].do = "needNoFile"
    BY <2>1, CallGives
  <2> HIDE DEF d
  <2> QED  BY <1>2, <2>2 DEF Makes, d
<1>3. CASE kind = "deleteDir"
  <2>1. d = <<Call("needDir", p), Call("walk", p), Call("stillDir", p)>>
    BY <1>3 DEF CallsOf, DeleteDir
  <2>2. /\ \A i \in DOMAIN d : d[i].do \in {"needDir", "walk", "stillDir"}
        /\ d[1].do = "needDir" /\ d[1].path = p /\ 1 \in DOMAIN d
    BY <2>1, CallGives
  <2> HIDE DEF d
  <2> QED  BY <1>3, <2>2 DEF Removes, Deletes, d
<1>4. CASE kind = "deleteFile"
  <2>1. d = <<Call("needFile", p), Call("stillFile", p)>>
    BY <1>4 DEF CallsOf, DeleteFile
  <2>2. /\ \A i \in DOMAIN d : d[i].do \in {"needFile", "stillFile"}
        /\ d[1].do = "needFile" /\ d[1].path = p /\ 1 \in DOMAIN d
    BY <2>1, CallGives
  <2> HIDE DEF d
  <2> QED  BY <1>4, <2>2 DEF Removes, Deletes, d
<1> QED  BY <1>1, <1>2, <1>3, <1>4 DEF Requests

LEMMA TreeReceive ==
  ASSUME Apart, Sensible, ThreadInv, ListsAreTold, EffectsAreTold, NEW t \in Worker,
         NEW kind \in Requests, NEW p \in Path, Receive(t, kind, p)
  PROVE  EffectsAreTold'
<1> DEFINE s == thread'[t]
           d == CallsOf(kind, p)
<1>1. /\ p # Root /\ UNCHANGED <<dirs, file, children, broken>>
      /\ s.kind = kind /\ s.path = p /\ s.todo = d
      /\ s.saw = [q \in Below(p) |-> Shown(q)]
      /\ \A u \in Thread : u # t => thread'[u] = thread[u]
      /\ \A q \in Path : InFlight(q)' = InFlight(q) \cup IF IsPrefix(p, q) THEN {t} ELSE {}
      /\ \A q \in Below(p) : InFlight(q) = {}
  BY ReceiveIs
<1>2. /\ OthersAreListed(dirs, file, children)
      /\ \A u \in Worker : thread[u] # Idle => Effect(thread[u], dirs, file)
  BY DEF EffectsAreTold
<1>3. (OthersAreListed(dirs, file, children))'
  BY <1>1, <1>2 DEF OthersAreListed
<1>4. \A u \in Worker : u # t /\ thread'[u] # Idle => Effect(thread'[u], dirs', file')
  BY <1>1, <1>2 DEF Thread
<1> HIDE DEF s, d
<1>5. ASSUME NEW q \in Below(p) PROVE q \in Path \ {Root} /\ s.saw[q] = There(q, dirs, file)
  <2>1. q \in Path /\ IsPrefix(p, q) /\ InFlight(q) = {}
    BY <1>1 DEF Below
  <2>2. q # Root
    BY <1>1, <2>1, AboveParent
  <2>3. Exists(q, dirs, file) => Name(q) \in ToSet(children[Parent(q)])
    BY <1>2, <2>1 DEF OthersAreListed
  <2>4. Shown(q) = There(q, dirs, file)
    BY <2>1, <2>2, <2>3, ShownIs
  <2> QED  BY <1>1, <2>1, <2>2, <2>4
<1>6. p \in Below(p)
  BY PrefixSelf DEF Below
<1>7. ASSUME NEW q \in Below(p), ~Exists(p, dirs, file) PROVE ~Exists(q, dirs, file)
  <2> SUFFICES ASSUME Exists(q, dirs, file), q # p PROVE FALSE
    BY <1>7
  <2>1. p \in dirs
    BY ExistsBelow DEF Below
  <2> QED  BY <1>1, <1>7, <2>1 DEF Exists
<1>8. \A q \in Below(p) : s.saw[q] = "none" <=> ~Exists(q, dirs, file)
  <2> SUFFICES ASSUME NEW q \in Below(p) PROVE s.saw[q] = "none" <=> ~Exists(q, dirs, file)
    OBVIOUS
  <2> QED  BY <1>5 DEF There, Exists
<1>9. s.saw[p] = "none" => \A q \in Below(p) : s.saw[q] = "none"
  BY <1>6, <1>7, <1>8
<1>10. /\ d # << >> /\ \A i \in DOMAIN d : d[i].path = p
       /\ d[1].do \in {"needNoDir", "needDir", "needNoFile", "needFile"}
  BY <1>1, CallsAre DEF d
<1>11. CASE kind \in {"createDir", "uploadFile"}
  <2>1. ~Exists(p, dirs, file)
    BY <1>11, NewName
  <2>2. \A i \in DOMAIN d : d[i].do \in Makes(kind)
    BY <1>1, <1>11, CallsDo DEF d
  <2>3. s.saw[p] = "none" /\ \A q \in Below(p) \ {p} : ~Exists(q, dirs, file)
    BY <1>6, <1>7, <1>8, <2>1
  <2>4. Created(s, dirs, file)
    BY <1>1, <1>10, <2>2, <2>3 DEF Created
  <2> QED  BY <1>1, <1>3, <1>4, <1>9, <1>11, <2>4 DEF EffectsAreTold, Effect, s
<1>12. CASE kind \notin {"createDir", "uploadFile"}
  <2>1. /\ \A i \in DOMAIN d : d[i].do \in Removes /\ d[i].do # "visitFile"
        /\ Deletes(d[1], p) /\ 1 \in DOMAIN d
    BY <1>1, <1>12, CallsDo DEF d
  <2>2. \A q \in dirs : file[q] = NoFile
    BY ListsIs DEF ListsToldIn
  <2>3. \A q \in Below(p) : /\ q \in dirs => s.saw[q] = "dir"
                            /\ file[q] # NoFile => s.saw[q] = "file"
    BY <1>5, <2>2 DEF There
  <2>4. s.saw[p] = "none" \/ Exists(p, dirs, file)
    BY <1>6, <1>8
  <2>5. Removed(s, dirs, file)
    BY <1>1, <2>1, <2>3, <2>4 DEF Removed
  <2> QED  BY <1>1, <1>3, <1>4, <1>9, <1>12, <2>5 DEF EffectsAreTold, Effect, s
<1> QED  BY <1>11, <1>12

LEMMA TreeInvStart == ASSUME Init PROVE TreeInv
<1>1. ListInv
  BY ListInvStart
<1>2. thread = Started /\ dirs = {} /\ file = [p \in Path |-> NoFile]
  BY DEF Init, Started
<1>3. \A q \in Path : ~Exists(q, dirs, file)
  BY <1>2 DEF Exists
<1>4. \A u \in Worker : thread[u] = Idle
  BY <1>2, ThreadAssumption DEF Started, Thread
<1> QED  BY <1>1, <1>3, <1>4 DEF TreeInv, EffectsAreTold, OthersAreListed

LEMMA RestartQuiet ==
  ASSUME ThreadInv, Restart, ~broken'
  PROVE  /\ UNCHANGED <<dirs, file, children>> /\ ~broken
         /\ \A u \in Worker : thread[u] = Idle /\ thread'[u] = Idle
         /\ \A q \in Path : InFlight(q) = {} /\ InFlight(q)' = {}
<1>1. thread' = Started /\ ~broken /\ \A u \in Worker : thread[u] = Idle
  BY DEF Restart, Started
<1>2. \A u \in Worker : thread'[u] = Idle
  BY <1>1, ThreadAssumption DEF Started, Thread
<1>3. UNCHANGED <<dirs, file, children>>
  BY DEF Restart, storeVars
<1> QED  BY <1>1, <1>2, <1>3 DEF InFlight

LEMMA TreeInvStep == ASSUME Apart, Sensible, TreeInv, [Next]_vars PROVE TreeInv'
<1>1. ListInv /\ ListInv' /\ ThreadInv /\ ThreadInv'
  BY ListInvStep DEF TreeInv, ListInv
<1> SUFFICES ASSUME ~broken' PROVE EffectsAreTold'
  BY <1>1 DEF TreeInv
<1>2. ~broken => ListsAreTold /\ EffectsAreTold
  BY DEF TreeInv, ListInv
<1>3. CASE UNCHANGED vars
  <2>1. /\ dirs' = dirs /\ file' = file /\ children' = children /\ thread' = thread /\ ~broken
    BY <1>3 DEF vars, storeVars
  <2>2. EffectsAreTold' <=> EffectsAreTold
    BY <2>1 DEF EffectsAreTold, OthersAreListed, InFlight
  <2> QED  BY <1>2, <2>1, <2>2
<1>4. ASSUME NEW t \in Thread, Step(t) PROVE EffectsAreTold'
  <2>1. ~broken
    BY <1>4, StepUnbroken
  <2>2. Ended(t) \/ \E cs : Called(t, cs)
    BY <1>1, <1>4, StepIs DEF Answered
  <2>3. CASE Ended(t)
    BY <1>1, <1>2, <2>1, <2>3, TreeEnded
  <2>4. ASSUME NEW cs, Called(t, cs) PROVE EffectsAreTold'
    BY <1>1, <1>2, <2>1, <2>4, TreeCalled
  <2> QED  BY <2>2, <2>3, <2>4
<1>5. ASSUME NEW t \in Worker, NEW kind \in Requests, NEW p \in Path, Receive(t, kind, p)
      PROVE  EffectsAreTold'
  <2>1. ~broken
    BY <1>5 DEF Receive
  <2> QED  BY <1>1, <1>2, <1>5, <2>1, TreeReceive
<1>6. CASE Restart
  <2>1. /\ UNCHANGED <<dirs, file, children>> /\ ~broken
        /\ \A u \in Worker : thread[u] = Idle /\ thread'[u] = Idle
        /\ \A q \in Path : InFlight(q) = {} /\ InFlight(q)' = {}
    BY <1>1, <1>6, RestartQuiet
  <2>2. OthersAreListed(dirs, file, children)
    BY <1>2, <2>1 DEF EffectsAreTold
  <2>3. (OthersAreListed(dirs, file, children))'
    BY <2>1, <2>2 DEF OthersAreListed
  <2> QED  BY <2>1, <2>3 DEF EffectsAreTold
<1>7. ASSUME NEW c \in late, Land(c) PROVE EffectsAreTold'
  BY <1>1, <1>7, LandBroken
<1> QED  BY <1>3, <1>4, <1>5, <1>6, <1>7 DEF Next

-----------------------------------------------------------------------------
(* The tree that clients see.                                              *)

LEMMA ViewIs ==
  ASSUME Apart, ThreadInv, NEW q \in Path
  PROVE  /\ InFlight(q) = {} => View(q) = Shown(q)
         /\ \A t \in InFlight(q) : View(q) = thread[t].saw[q] /\ InFlight(q) = {t}
<1>1. \A t, u \in InFlight(q) : t = u
  BY OneInFlight DEF InFlight
<1>2. InFlight(q) # {} => (CHOOSE t \in InFlight(q) : TRUE) \in InFlight(q)
  OBVIOUS
<1> QED  BY <1>1, <1>2 DEF View

LEMMA ViewAfter ==
  ASSUME NEW q \in Path
  PROVE  /\ InFlight(q)' = {} => View(q)' = Shown(q)'
         /\ \A t : InFlight(q)' = {t} => View(q)' = thread'[t].saw[q]
<1>1. InFlight(q)' = {} => View(q)' = Shown(q)'
  BY DEF View
<1>2. ASSUME NEW t, InFlight(q)' = {t} PROVE View(q)' = thread'[t].saw[q]
  <2>1. (CHOOSE u \in InFlight(q)' : TRUE) \in InFlight(q)'
    BY <1>2
  <2>2. (CHOOSE u \in InFlight(q)' : TRUE) = t
    BY <1>2, <2>1
  <2> QED  BY <1>2, <2>2 DEF View
<1> QED  BY <1>1, <1>2

\* As long as a request goes on, clients see no change.
LEMMA ViewCalled ==
  ASSUME Apart, ThreadInv, ListsAreTold, EffectsAreTold, EffectsAreTold',
         NEW t \in Thread, NEW cs, Called(t, cs), NEW q \in Path \ {Root}
  PROVE  View(q)' = View(q)
<1>1. /\ \A u \in Thread : u # t => thread'[u] = thread[u]
      /\ thread'[t].saw = thread[t].saw
      /\ InFlight(q)' = InFlight(q)
      /\ t \notin InFlight(q) => (q \in dirs' <=> q \in dirs) /\ file'[q] = file[q]
  BY CalledKeeps
<1>2. CASE InFlight(q) = {}
  <2>1. /\ Exists(q, dirs, file) => Name(q) \in ToSet(children[Parent(q)])
        /\ Exists(q, dirs', file') => Name(q) \in ToSet(children'[Parent(q)])
    BY <1>1, <1>2 DEF EffectsAreTold, OthersAreListed
  <2>2. Shown(q) = There(q, dirs, file)
    BY <2>1, ShownIs
  <2>3. Shown(q)' = There(q, dirs', file')
    BY <2>1 DEF Shown, There, Exists
  <2>4. There(q, dirs', file') = There(q, dirs, file)
    BY <1>1, <1>2 DEF There
  <2> QED  BY <1>1, <1>2, <2>2, <2>3, <2>4, ViewIs, ViewAfter
<1>3. ASSUME NEW u \in InFlight(q) PROVE View(q)' = View(q)
  <2>1. View(q) = thread[u].saw[q] /\ InFlight(q)' = {u}
    BY <1>1, ViewIs
  <2>2. View(q)' = thread'[u].saw[q]
    BY <2>1, ViewAfter
  <2>3. thread'[u].saw = thread[u].saw
    BY <1>1 DEF InFlight, Thread
  <2> QED  BY <2>1, <2>2, <2>3
<1> QED  BY <1>2, <1>3

\* A request that comes changes nothing either.
LEMMA ViewReceive ==
  ASSUME Apart, ThreadInv, NEW t \in Worker, NEW kind \in Requests, NEW p \in Path,
         Receive(t, kind, p), NEW q \in Path \ {Root}
  PROVE  View(q)' = View(q)
<1>1. /\ UNCHANGED <<dirs, file, children>> /\ thread[t] = Idle
      /\ thread'[t].saw = [x \in Below(p) |-> Shown(x)]
      /\ \A u \in Thread : u # t => thread'[u] = thread[u]
      /\ InFlight(q)' = InFlight(q) \cup IF IsPrefix(p, q) THEN {t} ELSE {}
      /\ \A x \in Below(p) : InFlight(x) = {}
  BY ReceiveIs
<1>2. Shown(q)' = Shown(q)
  BY <1>1 DEF Shown
<1>3. CASE IsPrefix(p, q)
  <2>1. q \in Below(p) /\ InFlight(q) = {} /\ InFlight(q)' = {t}
    BY <1>1, <1>3 DEF Below
  <2>2. View(q)' = thread'[t].saw[q]
    BY <2>1, ViewAfter
  <2> QED  BY <1>1, <2>1, <2>2, ViewIs
<1>4. CASE ~IsPrefix(p, q) /\ InFlight(q) = {}
  BY <1>1, <1>2, <1>4, ViewIs, ViewAfter
<1>5. ASSUME ~IsPrefix(p, q), NEW u \in InFlight(q) PROVE View(q)' = View(q)
  <2>1. View(q) = thread[u].saw[q] /\ InFlight(q)' = {u}
    BY <1>1, <1>5, ViewIs
  <2>2. View(q)' = thread'[u].saw[q]
    BY <2>1, ViewAfter
  <2>3. thread'[u] = thread[u]
    BY <1>1 DEF InFlight, Thread
  <2> QED  BY <2>1, <2>2, <2>3
<1> QED  BY <1>3, <1>4, <1>5

\* When a request ends, clients see what is in the store.
LEMMA ViewEnded ==
  ASSUME Apart, ThreadInv, ListsAreTold, EffectsAreTold, NEW t \in Thread, Ended(t),
         NEW q \in Path \ {Root}
  PROVE  /\ t \notin InFlight(q) => View(q)' = View(q)
         /\ t \in InFlight(q) => View(q) = thread[t].saw[q] /\ View(q)' = There(q, dirs, file)
<1>1. /\ EffectsAreTold' /\ UNCHANGED <<dirs, file, children>>
      /\ InFlight(q)' = InFlight(q) \ {t}
      /\ \A u \in Thread : u # t => thread'[u] = thread[u]
  BY TreeEnded DEF Ended
<1>2. Shown(q)' = Shown(q)
  BY <1>1 DEF Shown
<1>3. ASSUME t \notin InFlight(q) PROVE View(q)' = View(q)
  <2>1. CASE InFlight(q) = {}
    BY <1>1, <1>2, <2>1, ViewIs, ViewAfter
  <2>2. ASSUME NEW u \in InFlight(q) PROVE View(q)' = View(q)
    <3>1. View(q) = thread[u].saw[q] /\ InFlight(q)' = {u} /\ u # t
      BY <1>1, <1>3, ViewIs
    <3>2. View(q)' = thread'[u].saw[q]
      BY <3>1, ViewAfter
    <3>3. thread'[u] = thread[u]
      BY <1>1, <3>1 DEF InFlight, Thread
    <3> QED  BY <3>1, <3>2, <3>3
  <2> QED  BY <2>1, <2>2
<1>4. ASSUME t \in InFlight(q)
      PROVE  View(q) = thread[t].saw[q] /\ View(q)' = There(q, dirs, file)
  <2>1. View(q) = thread[t].saw[q] /\ InFlight(q)' = {}
    BY <1>1, <1>4, ViewIs
  <2>2. View(q)' = Shown(q)
    BY <1>2, <2>1, ViewAfter
  <2>3. Exists(q, dirs, file) => Name(q) \in ToSet(children[Parent(q)])
    BY <1>1, <2>1 DEF EffectsAreTold, OthersAreListed
  <2> QED  BY <2>1, <2>2, <2>3, ShownIs
<1> QED  BY <1>3, <1>4

-----------------------------------------------------------------------------
(* The steps of the tree.                                                  *)

LEMMA TreePaths ==
  /\ \A p, q : Tree!IsPrefix(p, q) <=> IsPrefix(p, q)
  /\ \A p : Tree!Front(p) = Parent(p)
BY DEF Tree!IsPrefix, IsPrefix, Tree!Front, Front, Parent

LEMMA TreeIs ==
  /\ DOMAIN [q \in Path \ {Root} |-> View(q)] = Path \ {Root}
  /\ \A p \in Path \ {Root} : /\ Tree!Within(p) = Below(p)
                              /\ Below(p) \subseteq Path \ {Root}
                              /\ p \in Below(p)
<1>1. ASSUME NEW p \in Path \ {Root}, NEW q \in Path, IsPrefix(p, q) PROVE q # Root
  BY <1>1, AboveParent
<1>2. DOMAIN [q \in Path \ {Root} |-> View(q)] = Path \ {Root}
  OBVIOUS
<1>3. ASSUME NEW p \in Path \ {Root}
      PROVE  Tree!Within(p) = Below(p) /\ Below(p) \subseteq Path \ {Root} /\ p \in Below(p)
  BY <1>1, <1>2, PrefixSelf, TreePaths DEF Tree!Within, Below
<1> QED  BY <1>2, <1>3

LEMMA TreeStays ==
  ASSUME broken' = broken, \A q \in Path \ {Root} : View(q)' = View(q)
  PROVE  UNCHANGED Tree!treeVars
BY DEF Tree!treeVars

LEMMA TreeCreates ==
  ASSUME broken' = broken, NEW p \in Path \ {Root}, NEW kind \in {"dir", "file"},
         Parent(p) = Root \/ View(Parent(p)) = "dir", View(p) = "none", View(p)' = kind,
         \A q \in Path \ {Root} : q # p => View(q)' = View(q)
  PROVE  Tree!TreeNext
<1>1. Parent(p) \in Path
  BY PathType
<1>2. Tree!IsDir(Tree!Front(p))
  BY <1>1, TreePaths DEF Tree!IsDir, Root
<1>3. [q \in Path \ {Root} |-> View(q)'] = [[q \in Path \ {Root} |-> View(q)] EXCEPT ![p] = kind]
  OBVIOUS
<1>4. Tree!Create(p, kind)
  BY <1>2, <1>3 DEF Tree!Create
<1> QED  BY <1>4 DEF Tree!TreeNext

LEMMA TreeDeletes ==
  ASSUME broken' = broken, NEW p \in Path \ {Root},
         \A q \in Path \ {Root} : View(q)' = IF q \in Below(p) THEN "none" ELSE View(q)
  PROVE  Tree!TreeNext
<1>1. Tree!Delete(p)
  BY TreeIs DEF Tree!Delete, Tree!Without
<1> QED  BY <1>1 DEF Tree!TreeNext

LEMMA TreeDeletesPart ==
  ASSUME broken' = broken, NEW p \in Path \ {Root}, NEW S \in SUBSET (Below(p) \ {p}),
         \A q \in S : Below(q) \subseteq S,
         \A q \in Path \ {Root} : View(q)' = IF q \in S THEN "none" ELSE View(q)
  PROVE  Tree!TreeNext
<1>1. S \in SUBSET (Tree!Within(p) \ {p}) /\ \A q \in S : Tree!Within(q) \subseteq S
  BY TreeIs
<1>2. Tree!DeletePart(p)
  BY <1>1 DEF Tree!DeletePart, Tree!Without
<1> QED  BY <1>2 DEF Tree!TreeNext

\* What is below a path that does not exist does not exist.
LEMMA NothingBelow ==
  ASSUME ListsAreTold, NEW p \in Path \ {Root}, ~Exists(p, dirs, file), NEW q \in Below(p)
  PROVE  ~Exists(q, dirs, file)
<1> SUFFICES ASSUME Exists(q, dirs, file), q # p PROVE FALSE
  OBVIOUS
<1>1. p \in dirs
  BY ExistsBelow DEF Below
<1> QED  BY <1>1 DEF Exists

\* How a request for a new directory or file ends.
LEMMA EndedCreates ==
  ASSUME Apart, ThreadInv, ListsAreTold, EffectsAreTold, broken' = broken,
         NEW t \in Worker, thread[t] # Idle, Ended(t), thread[t].kind \in {"createDir", "uploadFile"},
         NEW p, p = thread[t].path
  PROVE  Tree!TreeNext \/ UNCHANGED Tree!treeVars
<1> DEFINE r == thread[t]
           d == r.todo
<1>1. /\ t \in Thread /\ p \in Path \ {Root}
      /\ \A q \in Path : t \in InFlight(q) <=> q \in Below(p)
      /\ p \in Below(p) /\ Below(p) \subseteq Path \ {Root}
  BY WorkerIs, TreeIs DEF Below
<1>2. \A q \in Path \ {Root} :
        /\ q \notin Below(p) => View(q)' = View(q)
        /\ q \in Below(p) => View(q) = r.saw[q] /\ View(q)' = There(q, dirs, file)
  BY <1>1, ViewEnded
<1>3. /\ Created(r, dirs, file)
      /\ \A q \in Below(p) : r.saw[q] = "none"
  BY DEF EffectsAreTold, Effect, Created
<1>4. /\ \A i \in DOMAIN d : d[i].do \in Makes(r.kind)
                             /\ (d[i].path = p \/ (d[i].do = "putList" /\ d[i].path = Parent(p)))
      /\ \A q \in Below(p) \ {p} : ~Exists(q, dirs, file)
      /\ d = << >> => IF r.kind = "createDir" THEN p \in dirs ELSE file[p] # NoFile
  BY <1>3 DEF Created
<1>5. /\ \A q \in dirs : file[q] = NoFile
      /\ \A q \in Path : Exists(q, dirs, file) => Parent(q) \in dirs
      /\ d # << >> => ListFound(d, dirs, file)
  BY <1>1, ListsIs DEF ListsToldIn
<1>6. \A q \in Path : ~Exists(q, dirs, file) /\ q # Root => There(q, dirs, file) = "none"
  BY DEF Exists, There
<1>7. d = << >> \/ (1 \in DOMAIN d /\ d # << >> /\ d[1].do \in {"needNoDir", "needNoFile", "putObject"})
  <2>1. CASE d = << >>
    BY <2>1
  <2>2. CASE d # << >>
    <3>1. 1 \in DOMAIN d
      BY <1>1, <2>2, HeadIs DEF Busy
    <3>2. d[1].do \in {"needNoDir", "needNoFile", "needDir", "needFile", "putObject", "dropObject"}
      BY <2>2 DEF Ended, Busy
    <3>3. d[1].do \in Makes(r.kind)
      BY <1>4, <3>1
    <3> QED  BY <2>2, <3>1, <3>2, <3>3 DEF Makes
  <2> QED  BY <2>1, <2>2
<1>8. OthersAreListed(dirs, file, children)
  BY DEF EffectsAreTold
<1> HIDE DEF r, d
<1>9. CASE d = << >>
  <2> DEFINE kind == IF r.kind = "createDir" THEN "dir" ELSE "file"
  <2>1. Exists(p, dirs, file) /\ There(p, dirs, file) = kind
    BY <1>1, <1>4, <1>5, <1>9 DEF Exists, There
  <2>2. \A q \in Path \ {Root} : q # p => View(q)' = View(q)
    BY <1>2, <1>3, <1>4, <1>6, <1>1
  <2>3. ASSUME Parent(p) # Root PROVE View(Parent(p)) = "dir"
    <3>1. Parent(p) \in Path \ {Root} /\ Parent(p) \in dirs
      BY <1>1, <1>5, <2>1, <2>3, PathType
    <3>2. InFlight(Parent(p)) = {}
      <4> SUFFICES ASSUME NEW u \in InFlight(Parent(p)) PROVE FALSE
        OBVIOUS
      <4>1. u \in Worker /\ thread[u] # Idle /\ IsPrefix(thread[u].path, Parent(p))
        BY DEF InFlight
      <4>2. thread[u].path \in Path
        BY <4>1, WorkerIs
      <4>3. IsPrefix(thread[u].path, p)
        BY <1>1, <3>1, <4>1, <4>2, ParentAbove, PrefixThrough
      <4>4. u \in InFlight(p) /\ t \in InFlight(p)
        BY <1>1, <4>1, <4>3 DEF InFlight
      <4>5. u = t
        BY <1>1, <4>1, <4>4, OneInFlight
      <4>6. IsPrefix(p, Parent(p)) /\ IsPrefix(Parent(p), p) /\ Parent(p) # p
        BY <1>1, <4>1, <4>5, ParentAbove, ParentIs
      <4> QED  BY <1>1, <3>1, <4>6, SamePrefix
    <3>3. Name(Parent(p)) \in ToSet(children[Parent(Parent(p))])
      BY <1>8, <3>1, <3>2 DEF OthersAreListed, Exists
    <3>4. Shown(Parent(p)) = There(Parent(p), dirs, file)
      BY <3>1, <3>3, ShownIs
    <3>5. There(Parent(p), dirs, file) = "dir"
      BY <1>5, <3>1 DEF There
    <3> QED  BY <3>1, <3>2, <3>4, <3>5, ViewIs
  <2>4. View(p) = "none" /\ View(p)' = There(p, dirs, file)
    BY <1>1, <1>2, <1>3
  <2>5. kind \in {"dir", "file"}
    OBVIOUS
  <2> HIDE DEF kind
  <2>6. View(p)' = kind /\ (Parent(p) = Root \/ View(Parent(p)) = "dir")
    BY <2>1, <2>3, <2>4
  <2> QED  BY <1>1, <2>2, <2>4, <2>5, <2>6, TreeCreates
<1>10. CASE 1 \in DOMAIN d /\ d # << >> /\ d[1].do \in {"needNoDir", "needNoFile", "putObject"}
  <2>1. d[1].path = p
    BY <1>4, <1>10
  <2>2. ~Exists(p, dirs, file)
    BY <1>1, <1>5, <1>10, <2>1 DEF ListFound
  <2>3. \A q \in Path \ {Root} : View(q)' = View(q)
    BY <1>1, <1>2, <1>3, <1>4, <1>6, <2>2
  <2> QED  BY <2>3, TreeStays
<1> QED  BY <1>7, <1>9, <1>10

\* How a deletion ends.
LEMMA EndedDeletes ==
  ASSUME Apart, ThreadInv, ListsAreTold, EffectsAreTold, broken' = broken,
         NEW t \in Worker, thread[t] # Idle, Ended(t), thread[t].kind \notin {"createDir", "uploadFile"}
  PROVE  Tree!TreeNext \/ UNCHANGED Tree!treeVars
<1> DEFINE r == thread[t]
           d == r.todo
           p == r.path
<1>1. /\ t \in Thread /\ p \in Path \ {Root}
      /\ \A q \in Path : t \in InFlight(q) <=> q \in Below(p)
      /\ p \in Below(p) /\ Below(p) \subseteq Path \ {Root}
  BY WorkerIs, TreeIs DEF Below
<1>2. \A q \in Path \ {Root} :
        /\ q \notin Below(p) => View(q)' = View(q)
        /\ q \in Below(p) => View(q) = r.saw[q] /\ View(q)' = There(q, dirs, file)
  BY <1>1, ViewEnded
<1>3. /\ Removed(r, dirs, file)
      /\ r.saw[p] = "none" => \A q \in Below(p) : r.saw[q] = "none"
  BY DEF EffectsAreTold, Effect
<1>4. /\ \A i \in DOMAIN d : d[i].do \in Removes
      /\ \A q \in Below(p) : /\ q \in dirs => r.saw[q] = "dir"
                             /\ file[q] # NoFile => r.saw[q] = "file"
      /\ Exists(p, dirs, file) => \E i \in DOMAIN d : Deletes(d[i], p)
      /\ \/ r.saw[p] = "none" \/ Exists(p, dirs, file)
         \/ \A i \in DOMAIN d : d[i].do \in {"dropName", "putList"}
  BY <1>3 DEF Removed
<1>5. \A q \in Path : ~Exists(q, dirs, file) /\ q # Root => There(q, dirs, file) = "none"
  BY DEF Exists, There
<1>6. d = << >> \/ (1 \in DOMAIN d /\ d[1].do \in {"needDir", "needFile", "dropObject"})
  <2>1. CASE d = << >>
    BY <2>1
  <2>2. CASE d # << >>
    <3>1. 1 \in DOMAIN d
      BY <1>1, <2>2, HeadIs DEF Busy
    <3>2. d[1].do \in {"needNoDir", "needNoFile", "needDir", "needFile", "putObject", "dropObject"}
      BY <2>2 DEF Ended, Busy
    <3>3. d[1].do \in Removes
      BY <1>4, <3>1
    <3> QED  BY <3>1, <3>2, <3>3 DEF Removes
  <2> QED  BY <2>1, <2>2
<1> HIDE DEF r, d, p
<1>7. CASE d = << >>
  <2>1. ~Exists(p, dirs, file)
    BY <1>4, <1>7
  <2>2. \A q \in Below(p) : ~Exists(q, dirs, file)
    BY <1>1, <2>1, NothingBelow
  <2>3. \A q \in Path \ {Root} : View(q)' = IF q \in Below(p) THEN "none" ELSE View(q)
    BY <1>1, <1>2, <1>5, <2>2
  <2> QED  BY <1>1, <2>3, TreeDeletes
<1>8. CASE r.saw[p] = "none"
  <2>1. \A q \in Below(p) : r.saw[q] = "none"
    BY <1>3, <1>8
  <2>2. \A q \in Below(p) : ~Exists(q, dirs, file)
    BY <1>4, <2>1 DEF Exists
  <2>3. \A q \in Path \ {Root} : View(q)' = View(q)
    BY <1>1, <1>2, <1>5, <2>1, <2>2
  <2> QED  BY <2>3, TreeStays
<1>9. CASE r.saw[p] # "none" /\ 1 \in DOMAIN d /\ d[1].do \in {"needDir", "needFile", "dropObject"}
  <2> DEFINE S == {q \in Below(p) : ~Exists(q, dirs, file)}
  <2>1. Exists(p, dirs, file)
    BY <1>4, <1>9
  <2>2. S \in SUBSET (Below(p) \ {p})
    BY <2>1
  <2>3. ASSUME NEW q \in S PROVE Below(q) \subseteq S
    <3> SUFFICES ASSUME NEW x \in Below(q) PROVE x \in S
      OBVIOUS
    <3>1. q \in Path \ {Root} /\ q \in Below(p) /\ ~Exists(q, dirs, file)
      BY <1>1
    <3>2. ~Exists(x, dirs, file)
      BY <3>1, NothingBelow
    <3>3. x \in Path /\ IsPrefix(p, q) /\ IsPrefix(q, x)
      BY <3>1 DEF Below
    <3>4. x \in Below(p)
      BY <1>1, <3>1, <3>3, PrefixThrough DEF Below
    <3> QED  BY <3>2, <3>4
  <2>4. ASSUME NEW q \in Below(p), Exists(q, dirs, file) PROVE There(q, dirs, file) = r.saw[q]
    BY <1>4, <2>4 DEF There, Exists
  <2>5. \A q \in Path \ {Root} : View(q)' = IF q \in S THEN "none" ELSE View(q)
    BY <1>1, <1>2, <1>5, <2>4
  <2> HIDE DEF S
  <2> QED  BY <1>1, <2>2, <2>3, <2>5, TreeDeletesPart
<1> QED  BY <1>6, <1>7, <1>8, <1>9

LEMMA TreeMaps ==
  ASSUME Apart, Sensible, TreeInv, TreeInv', [Next]_vars
  PROVE  [Tree!TreeNext]_(Tree!treeVars)
<1>1. ThreadInv /\ ThreadInv' /\ broken' \in BOOLEAN /\ broken \in BOOLEAN
  BY DEF TreeInv, ListInv, ThreadInv, DriveTypes, TypeOK
<1>2. CASE broken'
  BY <1>1, <1>2 DEF Tree!TreeNext
<1>3. CASE ~broken'
  <2>1. ~broken => ListsAreTold /\ EffectsAreTold
    BY DEF TreeInv, ListInv
  <2>2. EffectsAreTold'
    BY <1>3 DEF TreeInv
  <2>3. CASE UNCHANGED vars
    <3>1. UNCHANGED <<dirs, file, children, thread, broken>>
      BY <2>3 DEF vars, storeVars
    <3> QED  BY <3>1 DEF Tree!treeVars, View, InFlight, Shown
  <2>4. ASSUME NEW t \in Thread, Step(t) PROVE Tree!TreeNext \/ UNCHANGED Tree!treeVars
    <3>1. ~broken /\ broken' = broken
      BY <1>1, <1>3, <2>4, StepUnbroken
    <3>2. Ended(t) \/ \E cs : Called(t, cs)
      BY <1>1, <1>3, <2>4, StepIs DEF Answered
    <3>3. ASSUME NEW cs, Called(t, cs) PROVE UNCHANGED Tree!treeVars
      <4>1. \A q \in Path \ {Root} : View(q)' = View(q)
        BY <1>1, <2>1, <2>2, <3>1, <3>3, ViewCalled
      <4> QED  BY <3>1, <4>1, TreeStays
    <3>4. CASE Ended(t) /\ t \in Worker /\ thread[t] # Idle
      <4>1. \E x : x = thread[t].path
        OBVIOUS
      <4> QED  BY <1>1, <2>1, <3>1, <3>4, <4>1, EndedCreates, EndedDeletes
    <3>5. CASE Ended(t) /\ ~(t \in Worker /\ thread[t] # Idle)
      <4>1. \A q \in Path \ {Root} : t \notin InFlight(q)
        BY <3>5 DEF InFlight
      <4>2. \A q \in Path \ {Root} : View(q)' = View(q)
        BY <1>1, <2>1, <3>1, <3>5, <4>1, ViewEnded
      <4> QED  BY <3>1, <4>2, TreeStays
    <3> QED  BY <3>2, <3>3, <3>4, <3>5
  <2>5. ASSUME NEW t \in Worker, NEW kind \in Requests, NEW p \in Path, Receive(t, kind, p)
        PROVE  UNCHANGED Tree!treeVars
    <3>1. broken' = broken
      BY <2>5 DEF Receive
    <3>2. \A q \in Path \ {Root} : View(q)' = View(q)
      BY <1>1, <2>5, ViewReceive
    <3> QED  BY <3>1, <3>2, TreeStays
  <2>6. CASE Restart
    <3>1. /\ UNCHANGED <<dirs, file, children>> /\ ~broken
          /\ \A q \in Path : InFlight(q) = {} /\ InFlight(q)' = {}
      BY <1>1, <1>3, <2>6, RestartQuiet
    <3>2. \A q \in Path : Shown(q)' = Shown(q)
      BY <3>1 DEF Shown
    <3>3. \A q \in Path \ {Root} : View(q)' = View(q)
      BY <3>1, <3>2 DEF View
    <3>4. broken' = broken
      BY <1>1, <1>3, <3>1
    <3> QED  BY <3>3, <3>4, TreeStays
  <2>7. ASSUME NEW c \in late, Land(c) PROVE FALSE
    BY <1>1, <1>3, <2>7, LandBroken
  <2> QED  BY <2>3, <2>4, <2>5, <2>6, <2>7 DEF Next
<1> QED  BY <1>1, <1>2, <1>3

LEMMA TreeStarts == ASSUME Init PROVE Tree!TreeInit
<1>1. /\ thread = Started /\ children = [p \in Path |-> << >>] /\ broken = FALSE
  BY DEF Init, Started
<1>2. \A u \in Worker : thread[u] = Idle
  BY <1>1, ThreadAssumption DEF Started, Thread
<1>3. ASSUME NEW q \in Path \ {Root} PROVE View(q) = "none"
  <2>1. Parent(q) \in Path
    BY PathType
  <2>2. Name(q) \notin ToSet(children[Parent(q)])
    BY <1>1, <2>1 DEF ToSet
  <2>3. Shown(q) = "none"
    BY <2>2 DEF Shown
  <2> QED  BY <1>2, <2>3 DEF View, InFlight
<1> QED  BY <1>1, <1>3 DEF Tree!TreeInit, Root

\* When requests in flight touch different keys and clients create new names in directories
\* that they see, the drive is the tree of module FileTree: each createDir, uploadFile,
\* deleteDir and deleteFile, made of many calls between those of others, takes effect at
\* once, when its handler answers.
THEOREM RequestsTakeEffectAtOnce == ASSUME Apart, Sensible PROVE Spec => KeepsTree
<1>1. Init => TreeInv /\ Tree!TreeInit
  BY TreeInvStart, TreeStarts
<1>2. TreeInv /\ [Next]_vars => TreeInv'
  BY TreeInvStep
<1>3. TreeInv /\ TreeInv' /\ [Next]_vars => [Tree!TreeNext]_(Tree!treeVars)
  BY TreeMaps
<1> QED  BY <1>1, <1>2, <1>3, PTL DEF Spec, KeepsTree, Tree!TreeSpec

-----------------------------------------------------------------------------
(* What clients see, whatever requests that were cut short have left.      *)

\* A set of paths with all that is above them.
Rooted(T) == T \subseteq Path /\ \A q \in T, p \in Path : IsPrefix(p, q) => p \in T

LEMMA RootedParent == ASSUME NEW T, Rooted(T), NEW q \in T, q # Root PROVE Parent(q) \in T
BY PathType, ParentAbove DEF Rooted

LEMMA SparedIs ==
  ASSUME NEW S, \A c \in S : c.path \in Path
  PROVE  Rooted(Spared(S))
<1> SUFFICES ASSUME NEW q \in Spared(S), NEW p \in Path, IsPrefix(p, q), NEW c \in S, c.do \in Puts,
                    IsPrefix(c.path, p)
             PROVE  FALSE
  BY DEF Rooted, Spared
<1>1. q \in Path /\ ~IsPrefix(c.path, q)
  BY DEF Spared
<1> QED  BY <1>1, PrefixThrough

LEMMA SightIs ==
  /\ SightInv <=> /\ ThreadInv
                  /\ SightToldIn(Visible(Spared(late), dirs, file, children),
                                 Spared(late), dirs, file, thread)
  /\ SightInv' <=> /\ ThreadInv'
                   /\ SightToldIn(Visible(Spared(late'), dirs', file', children'),
                                  Spared(late'), dirs', file', thread')
BY DEF SightInv

LEMMA VisibleIs ==
  ASSUME NEW T, Rooted(T), NEW D, NEW F, NEW C
  PROVE  /\ Visible(T, D, F, C) \subseteq Path \ {Root} /\ Visible(T, D, F, C) \subseteq T
         /\ \A q \in Path : q \in Visible(T, D, F, C) <=>
                            q \in T /\ Exists(q, D, F) /\ Name(q) \in ToSet(C[Parent(q)])
BY DEF Visible, Exists, Rooted

LEMMA ShownVisible ==
  ASSUME NEW T, NEW q \in T, q \in Path \ {Root}
  PROVE  /\ Shown(q) # "none" <=> q \in Visible(T, dirs, file, children)
         /\ Shown(q)' # "none" <=> q \in Visible(T, dirs', file', children')
         /\ Shown(q) = "dir" => q \in dirs /\ file[q] = NoFile
BY DEF Shown, Visible, Exists

\* What an answered call changes of what can be seen: what a deletion is about, and what
\* has nothing in it, is hidden; and what a creation is for is shown.
LEMMA SightCall ==
  ASSUME ThreadInv, NEW T, Rooted(T), NEW V, V = Visible(T, dirs, file, children),
         SightToldIn(V, T, dirs, file, thread),
         NEW W, W = Visible(T, dirs', file', children'),
         NEW t \in Thread, NEW cs, Called(t, cs)
  PROVE  LET r == thread[t]
         IN /\ \A q \in W : q \notin V =>
                 t \in Worker /\ r.kind \in {"createDir", "uploadFile"} /\ q = r.path
            /\ \A q \in V : q \notin W =>
                 t \in Worker /\ r.kind \in {"deleteDir", "deleteFile"} /\ IsPrefix(r.path, q) /\ Childless(q, V)
            /\ \A x \in Path : (x \in dirs /\ file[x] = NoFile) /\ ~(x \in dirs' /\ file'[x] = NoFile) =>
                 t \in Worker /\ IsPrefix(r.path, x) /\ Childless(x, V)
<1> DEFINE r == thread[t]
           d == r.todo
           c == d[1]
           p == c.path
           P == r.path
           Creates == t \in Worker /\ r.kind \in {"createDir", "uploadFile"}
           Deletion == t \in Worker /\ r.kind \in {"deleteDir", "deleteFile"}
           Plain == {"putDir", "clearDir", "putFile", "clearFile", "putList"}
<1>1. /\ Busy(t) /\ Wrote(c) /\ c \in AnyCall /\ p \in Path /\ 1 \in DOMAIN d /\ d # << >>
      /\ Within(P, c) /\ P \in Path
      /\ t = Main => c.do \in {"ensureRoot", "putDir", "putList"} /\ p = Root
      /\ p = Root => c.do \in {"ensureRoot", "putDir", "putList"}
  <2>1. Busy(t) /\ Wrote(c)
    BY DEF Called
  <2>2. P \in Path
    BY DEF ThreadInv, DriveTypes, ThreadState
  <2> QED  BY <2>1, <2>2, HeadIs
<1>2. /\ r # Idle
      /\ t \in Worker => P # Root
      /\ t = Main => P = Root
  BY CalledKeeps, WorkerIs DEF ThreadInv, ThreadsAreScripted
<1>3. t \in Worker => Proper(r) /\ Placed(r, V, T, dirs, file)
  BY <1>2 DEF SightToldIn
<1>4. SightFound(r, V, T, dirs, file) /\ RootIsFirst(thread[Main].todo, V, dirs)
  BY <1>1 DEF SightToldIn
<1>5. t \in Worker \/ t = Main
  BY DEF Thread
<1>6. /\ c.do \in {"clearDir", "clearFile"} => Deletion
      /\ c.do \in {"putFile"} => Creates /\ p = P
      /\ c.do = "putDir" /\ p # Root => Creates /\ p = P
  <2>1. c.do \in {"clearDir", "clearFile", "putFile"} \/ (c.do = "putDir" /\ p # Root) => t \in Worker
    BY <1>1, <1>5
  <2>2. t \in Worker =>
          /\ r.kind \in Requests
          /\ r.kind \in {"createDir", "uploadFile"} =>
               c.do \in Makes(r.kind) /\ (p = P \/ c.do = "putList")
          /\ r.kind \notin {"createDir", "uploadFile"} => c.do \in Removes
    BY <1>1, <1>3 DEF Proper
  <2>3. \A kind : "clearDir" \notin Makes(kind) /\ "clearFile" \notin Makes(kind)
    BY DEF Makes
  <2>4. "putFile" \notin Removes /\ "putDir" \notin Removes
    BY DEF Removes
  <2> QED  BY <2>1, <2>2, <2>3, <2>4 DEF Requests
<1>7. DOMAIN file = Path /\ DOMAIN children = Path
  BY TypesAre DEF ThreadInv, StoreTypes
<1>8. /\ \A q \in Path : q \in V <=> q \in T /\ Exists(q, dirs, file) /\ Name(q) \in ToSet(children[Parent(q)])
      /\ \A q \in Path : q \in W <=> q \in T /\ Exists(q, dirs', file') /\ Name(q) \in ToSet(children'[Parent(q)])
      /\ V \subseteq Path \ {Root} /\ W \subseteq Path \ {Root}
  BY VisibleIs
<1>9. IsPrefix(P, p) \/ (c.do = "putList" /\ p = Parent(P))
  BY <1>1 DEF Within
<1> DEFINE Shows == \A q \in W : q \notin V => Creates /\ q = P
           Hiding == \A q \in V : q \notin W => Deletion /\ IsPrefix(P, q) /\ Childless(q, V)
           Loses == \A x \in Path : (x \in dirs /\ file[x] = NoFile) /\ ~(x \in dirs' /\ file'[x] = NoFile) =>
                      t \in Worker /\ IsPrefix(P, x) /\ Childless(x, V)
<1> HIDE DEF r, d, c, p, P
<1>10. CASE c.do \notin Plain
  <2>1. dirs' = dirs /\ file' = file /\ children' = children
    BY <1>1, <1>10 DEF Wrote
  <2> QED  BY <1>8, <2>1 DEF r, P
<1>11. CASE c.do = "putDir"
  <2>1. dirs' = dirs \cup {p} /\ file' = file /\ children' = children
    BY <1>1, <1>11 DEF Wrote, p
  <2>2. Shows
    BY <1>6, <1>8, <1>11, <2>1 DEF Exists
  <2>3. Hiding /\ Loses
    BY <1>8, <2>1 DEF Exists
  <2> QED  BY <2>2, <2>3 DEF r, P
<1>12. CASE c.do = "clearDir"
  <2>1. dirs' = dirs \ {p} /\ file' = file /\ children' = children
    BY <1>1, <1>12 DEF Wrote, p
  <2>2. Deletion /\ IsPrefix(P, p) /\ Childless(p, V)
    BY <1>4, <1>6, <1>9, <1>12 DEF SightFound, r, c, d, p
  <2>3. Shows
    BY <1>8, <2>1 DEF Exists
  <2>4. Hiding
    BY <1>8, <2>1, <2>2 DEF Exists
  <2>5. Loses
    BY <2>1, <2>2
  <2> QED  BY <2>3, <2>4, <2>5 DEF r, P
<1>13. CASE c.do = "putFile"
  <2>1. dirs' = dirs /\ file' = [file EXCEPT ![p] = c.object] /\ children' = children
    BY <1>1, <1>13 DEF Wrote, p
  <2>2. file'[p] # NoFile /\ \A x \in Path : x # p => file'[x] = file[x]
    BY <1>1, <1>7, <1>13, <2>1 DEF AnyCall, p
  <2>3. Creates /\ p = P
    BY <1>6, <1>13
  <2>4. Childless(P, V)
    BY <1>3, <2>3 DEF Placed, P, r
  <2>5. IsPrefix(P, p)
    BY <1>1, <2>3, PrefixSelf
  <2>6. Shows
    BY <1>8, <2>1, <2>2, <2>3 DEF Exists
  <2>7. Hiding
    BY <1>8, <2>1, <2>2 DEF Exists
  <2>8. Loses
    BY <2>1, <2>2, <2>3, <2>4, <2>5
  <2> QED  BY <2>6, <2>7, <2>8 DEF r, P
<1>14. CASE c.do = "clearFile"
  <2>1. dirs' = dirs /\ file' = [file EXCEPT ![p] = NoFile] /\ children' = children
    BY <1>1, <1>14 DEF Wrote, p
  <2>2. file'[p] = NoFile /\ \A x \in Path : x # p => file'[x] = file[x]
    BY <1>1, <1>7, <2>1
  <2>3. Deletion /\ IsPrefix(P, p) /\ Childless(p, V)
    BY <1>4, <1>6, <1>9, <1>14 DEF SightFound, r, c, d, p
  <2>4. Shows
    BY <1>8, <2>1, <2>2 DEF Exists
  <2>5. Hiding
    BY <1>8, <2>1, <2>2, <2>3 DEF Exists
  <2>6. Loses
    BY <2>1, <2>2
  <2> QED  BY <2>4, <2>5, <2>6 DEF r, P
<1>15. CASE c.do = "putList"
  <2>1. dirs' = dirs /\ file' = file /\ children' = [children EXCEPT ![p] = c.list]
    BY <1>1, <1>15 DEF Wrote, p
  <2>2. \A q \in Path \ {Root} : children'[Parent(q)] = IF Parent(q) = p THEN c.list ELSE children[Parent(q)]
    BY <1>7, <2>1, PathType
  <2>3. \A q \in T : Parent(q) = p =>
          /\ q \in V /\ Name(q) \notin ToSet(c.list) =>
               r.kind \in {"deleteDir", "deleteFile"} /\ IsPrefix(P, q) /\ Childless(q, V)
          /\ Exists(q, dirs, file) /\ Name(q) \in ToSet(c.list) =>
               q \in V \/ (q = P /\ r.kind \in {"createDir", "uploadFile"})
    BY <1>4, <1>15 DEF SightFound, r, c, d, p, P
  <2>4. t = Main => Childless(Root, V) /\ p = Root
    BY <1>1, <1>4, <1>15 DEF RootIsFirst, c, d, r
  <2>5. Shows
    <3> SUFFICES ASSUME NEW q \in W, q \notin V PROVE Creates /\ q = P
      OBVIOUS
    <3>1. /\ q \in Path \ {Root} /\ q \in T /\ Exists(q, dirs, file)
          /\ Parent(q) = p /\ Name(q) \in ToSet(c.list)
      BY <1>8, <2>1, <2>2
    <3>2. q = P /\ r.kind \in {"createDir", "uploadFile"}
      BY <2>3, <3>1
    <3> QED  BY <1>2, <1>5, <3>1, <3>2
  <2>6. Hiding
    <3> SUFFICES ASSUME NEW q \in V, q \notin W PROVE Deletion /\ IsPrefix(P, q) /\ Childless(q, V)
      OBVIOUS
    <3>1. q \in Path \ {Root} /\ q \in T /\ Parent(q) = p /\ Name(q) \notin ToSet(c.list)
      BY <1>8, <2>1, <2>2
    <3>2. t # Main
      BY <2>4, <3>1 DEF Childless
    <3> QED  BY <1>5, <2>3, <3>1, <3>2
  <2>7. Loses
    BY <2>1
  <2> QED  BY <2>5, <2>6, <2>7 DEF r, P
<1> QED  BY <1>10, <1>11, <1>12, <1>13, <1>14, <1>15

\* The paths of two requests in flight, and what is at or below the second.
LEMMA FarFrom ==
  ASSUME NEW P \in Path \ {Root}, NEW Q \in Path \ {Root}, AreApart(P, Q),
         NEW p \in Path, IsPrefix(Q, p)
  PROVE  ~IsPrefix(P, p) /\ Parent(P) # p
<1>1. ~IsPrefix(P, p)
  BY PrefixesCompare DEF AreApart
<1>2. ASSUME Parent(P) = p PROVE FALSE
  <2>1. IsPrefix(p, P)
    BY <1>2, ParentAbove
  <2> QED  BY <2>1, PrefixThrough DEF AreApart
<1> QED  BY <1>1, <1>2

\* All that can be seen stays in a directory that can be, and so do the paths of
\* requests in flight.
LEMMA SightStays ==
  ASSUME Apart, ThreadInv, NEW T, Rooted(T), NEW V, V = Visible(T, dirs, file, children),
         SightToldIn(V, T, dirs, file, thread),
         NEW W, W = Visible(T, dirs', file', children'),
         NEW t \in Thread, NEW cs, Called(t, cs)
  PROVE  /\ \A q \in W : Open(Parent(q), W, dirs', file')
         /\ \A u \in Worker : thread'[u] # Idle => Placed(thread'[u], W, T, dirs', file')
<1> DEFINE r == thread[t]
           P == r.path
           Creates == t \in Worker /\ r.kind \in {"createDir", "uploadFile"}
           Deletion == t \in Worker /\ r.kind \in {"deleteDir", "deleteFile"}
<1>1. /\ \A q \in W : q \notin V => Creates /\ q = P
      /\ \A q \in V : q \notin W => Deletion /\ IsPrefix(P, q) /\ Childless(q, V)
      /\ \A x \in Path : (x \in dirs /\ file[x] = NoFile) /\ ~(x \in dirs' /\ file'[x] = NoFile) =>
           t \in Worker /\ IsPrefix(P, x) /\ Childless(x, V)
  BY SightCall
<1>2. /\ \A q \in V : Open(Parent(q), V, dirs, file)
      /\ \A u \in Worker : thread[u] # Idle => Placed(thread[u], V, T, dirs, file)
  BY DEF SightToldIn
<1>3. /\ r # Idle /\ thread'[t].path = P /\ thread'[t].kind = r.kind
      /\ \A u \in Thread : u # t => thread'[u] = thread[u]
  BY CalledKeeps
<1>4. V \subseteq Path \ {Root} /\ W \subseteq Path \ {Root} /\ W \subseteq T
  BY VisibleIs
<1>5. ~(Creates /\ Deletion)
  OBVIOUS
<1>6. t \in Worker => P \in Path \ {Root}
  BY <1>3, WorkerIs
<1>7. t \in Worker => /\ Parent(P) \in T => Open(Parent(P), V, dirs, file)
                     /\ ~IsPrefix(P, Parent(P)) /\ Parent(P) \in Path /\ Parent(P) # P
  <2> SUFFICES ASSUME t \in Worker
               PROVE  /\ Parent(P) \in T => Open(Parent(P), V, dirs, file)
                      /\ ~IsPrefix(P, Parent(P)) /\ Parent(P) \in Path /\ Parent(P) # P
    OBVIOUS
  <2>1. Placed(r, V, T, dirs, file)
    BY <1>2, <1>3
  <2>2. Parent(P) \in T => Open(Parent(P), V, dirs, file)
    BY <2>1 DEF Placed
  <2> HIDE DEF P
  <2>3. Parent(P) \in Path /\ Parent(P) # P /\ IsPrefix(Parent(P), P)
    BY <1>6, ParentIs, ParentAbove
  <2>4. ~IsPrefix(P, Parent(P))
    BY <1>6, <2>3, SamePrefix
  <2> QED  BY <2>2, <2>3, <2>4
<1> HIDE DEF r, P
<1>8. ASSUME NEW x \in Path, Open(x, V, dirs, file), ~IsPrefix(P, x) \/ ~Childless(x, V)
      PROVE  Open(x, W, dirs', file')
  BY <1>1, <1>8 DEF Open
<1>9. ASSUME NEW q \in W PROVE Open(Parent(q), W, dirs', file')
  <2>1. Parent(q) \in Path
    BY <1>4, PathType
  <2>2. CASE q \in V
    <3>1. ~Childless(Parent(q), V) /\ Open(Parent(q), V, dirs, file)
      BY <1>2, <2>2 DEF Childless
    <3> QED  BY <1>8, <2>1, <3>1
  <2>3. CASE q \notin V
    <3>1. q = P /\ t \in Worker /\ q \in T /\ q # Root
      BY <1>1, <1>4, <1>9, <2>3
    <3>2. Parent(P) \in T
      BY <3>1, RootedParent
    <3> QED  BY <1>7, <1>8, <3>1, <3>2
  <2> QED  BY <2>2, <2>3
<1>10. ASSUME NEW u \in Worker, thread'[u] # Idle PROVE Placed(thread'[u], W, T, dirs', file')
  <2>1. u \in Thread /\ Main \in Thread
    BY DEF Thread
  <2>2. thread[u] # Idle /\ thread'[u].path = thread[u].path /\ thread'[u].kind = thread[u].kind
    BY <1>3, <1>10, <2>1 DEF r, P
  <2> DEFINE Q == thread[u].path
  <2>3. Q \in Path \ {Root} /\ thread[Main] = Idle
    BY <2>2, WorkerIs
  <2>4. t # Main /\ t \in Worker
    BY <1>3, <2>3 DEF Thread, r
  <2>5. Placed(thread[u], V, T, dirs, file)
    BY <1>2, <2>2
  <2>6. /\ Parent(Q) \in T => Open(Parent(Q), V, dirs, file)
        /\ thread[u].kind \in {"createDir", "uploadFile"} => Childless(Q, V)
    BY <2>5 DEF Placed
  <2>7. u # t => AreApart(P, Q)
    BY <1>3, <2>2, <2>4 DEF ThreadInv, ThreadsAreScripted, P, r
  <2>8. u = t => Q = P
    BY DEF P, r
  <2> HIDE DEF Q
  <2>9. Parent(Q) \in Path /\ IsPrefix(Parent(Q), Q)
    BY <2>3, PathType, ParentAbove
  <2>10. ~IsPrefix(P, Parent(Q)) /\ Parent(P) # Q
    <3>1. CASE u = t
      BY <1>7, <2>4, <2>8, <3>1
    <3>2. CASE u # t
      <4>1. AreApart(P, Q)
        BY <2>7, <3>2
      <4>2. Parent(P) # Q
        BY <1>6, <2>3, <2>4, <4>1, FarFrom, PrefixSelf
      <4>3. ~IsPrefix(P, Parent(Q))
        BY <1>6, <2>3, <2>4, <2>9, <4>1, PrefixThrough DEF AreApart
      <4> QED  BY <4>2, <4>3
    <3> QED  BY <3>1, <3>2
  <2>11. Parent(Q) \in T => Open(Parent(Q), W, dirs', file')
    BY <1>8, <2>6, <2>9, <2>10
  <2>12. Childless(Q, V) => Childless(Q, W)
    BY <1>1, <2>10 DEF Childless
  <2> QED  BY <2>2, <2>6, <2>11, <2>12 DEF Placed, Q
<1> QED  BY <1>9, <1>10

\* Other requests do not notice.
LEMMA SightElsewhere ==
  ASSUME Apart, ThreadInv, NEW T, Rooted(T), NEW V, V = Visible(T, dirs, file, children),
         SightToldIn(V, T, dirs, file, thread),
         NEW W, W = Visible(T, dirs', file', children'),
         NEW t \in Thread, NEW cs, Called(t, cs), NEW u \in Thread, u # t
  PROVE  /\ thread[u].todo # << >> => SightFound(thread[u], W, T, dirs', file')
         /\ Hidden(thread[u].todo, W, T, dirs')
<1> DEFINE P == thread[t].path
           Q == thread[u].path
           e == thread[u].todo
           c == e[1]
           p == c.path
           Deletion == thread[u].kind \in {"deleteDir", "deleteFile"}
           Creates == thread[u].kind \in {"createDir", "uploadFile"}
<1>1. CASE e = << >>
  BY <1>1 DEF Hidden
<1>2. CASE e # << >>
  <2>1. Busy(t) /\ Busy(u)
    BY <1>2 DEF Called, Busy
  <2>2. t \in Worker /\ AreApart(P, Q) /\ P \in Path \ {Root} /\ Q \in Path \ {Root}
    BY <2>1, ApartThreads
  <2>3. e \in Seq(AnyCall) /\ 1 \in DOMAIN e /\ DOMAIN e = 1 .. Len(e) /\ Len(e) \in Nat
    BY <2>1, HeadIs
  <2>4. \A i \in DOMAIN e : e[i].path \in Path /\ Within(Q, e[i])
    BY CallWithin
  <2>5. /\ \A q \in W : q \notin V => q = P
        /\ \A q \in V : q \notin W => IsPrefix(P, q)
    BY SightCall
  <2>6. SightFound(thread[u], V, T, dirs, file) /\ Hidden(e, V, T, dirs)
    BY <1>2 DEF SightToldIn
  <2>7. V \subseteq Path \ {Root} /\ W \subseteq Path \ {Root}
    BY VisibleIs
  <2>8. thread[t] # Idle
    BY CalledKeeps
  <2>9. \A q \in Path \ {Root} : ~IsPrefix(P, q) => (q \in dirs' <=> q \in dirs) /\ file'[q] = file[q]
    <3>1. \A q \in Path \ {Root} : t \notin InFlight(q) =>
            (q \in dirs' <=> q \in dirs) /\ file'[q] = file[q]
      BY CalledKeeps
    <3>2. \A q \in Path : t \in InFlight(q) <=> IsPrefix(P, q)
      BY <2>2, <2>8, WorkerIs
    <3> QED  BY <3>1, <3>2
  <2> HIDE DEF P, Q, e
  <2>10. ASSUME NEW x \in Path, IsPrefix(Q, x)
         PROVE  /\ x # Root /\ (x \in dirs' <=> x \in dirs) /\ file'[x] = file[x]
                /\ Childless(x, V) => Childless(x, W)
                /\ x \in W => x \in V
    <3>1. ~IsPrefix(P, x) /\ Parent(P) # x
      BY <2>2, <2>10, FarFrom
    <3>2. x # Root
      BY <2>2, <2>10, PrefixSelf, ApartPaths
    <3>3. x # P
      BY <2>2, <3>1, PrefixSelf
    <3> QED  BY <2>5, <2>9, <3>1, <3>2, <3>3 DEF Childless
  <2>11. p \in Path /\ (IsPrefix(Q, p) \/ (c.do = "putList" /\ p = Parent(Q)))
    BY <2>3, <2>4 DEF Within
  <2>12. c.do = "putList" /\ Len(e) > 1 /\ e[2].do = "dropName" =>
           e[2].path \in Path /\ IsPrefix(Q, e[2].path)
    <3> SUFFICES ASSUME c.do = "putList", Len(e) > 1, e[2].do = "dropName"
                 PROVE  e[2].path \in Path /\ IsPrefix(Q, e[2].path)
      OBVIOUS
    <3>1. 2 \in DOMAIN e
      BY <2>3
    <3> QED  BY <2>4, <3>1 DEF Within
  <2>13. SightFound(thread[u], V, T, dirs, file) =
           LET d == e
           IN /\ p \in T /\ c.do \in {"dropObject", "stillFile", "clearFile"} => file[p] # NoFile
              /\ p \in T /\ c.do = "visitDir" => file[p] = NoFile
              /\ c.do \in {"clearFile", "clearDir", "dropName"} => Childless(p, V)
              /\ c.do = "putList" /\ Len(d) > 1 /\ d[2].do = "dropName" => Childless(d[2].path, V)
              /\ c.do = "putList" => \A q \in T : Parent(q) = p =>
                   /\ q \in V /\ Name(q) \notin ToSet(c.list) =>
                        Deletion /\ IsPrefix(Q, q) /\ Childless(q, V)
                   /\ Exists(q, dirs, file) /\ Name(q) \in ToSet(c.list) => q \in V \/ (q = Q /\ Creates)
    BY DEF SightFound, e, Q
  <2>14. /\ p \in T /\ c.do \in {"dropObject", "stillFile", "clearFile"} => file'[p] # NoFile
         /\ p \in T /\ c.do = "visitDir" => file'[p] = NoFile
         /\ c.do \in {"clearFile", "clearDir", "dropName"} => Childless(p, W)
         /\ c.do = "putList" /\ Len(e) > 1 /\ e[2].do = "dropName" => Childless(e[2].path, W)
    <3>1. c.do # "putList" => IsPrefix(Q, p)
      BY <2>11
    <3>2. /\ p \in T /\ c.do \in {"dropObject", "stillFile", "clearFile"} => file'[p] # NoFile
          /\ p \in T /\ c.do = "visitDir" => file'[p] = NoFile
          /\ c.do \in {"clearFile", "clearDir", "dropName"} => Childless(p, W)
      BY <2>6, <2>10, <2>11, <2>13, <3>1
    <3>3. c.do = "putList" /\ Len(e) > 1 /\ e[2].do = "dropName" => Childless(e[2].path, W)
      BY <2>6, <2>10, <2>12, <2>13
    <3> QED  BY <3>2, <3>3
  <2>15. ASSUME c.do = "putList", NEW q \in T, Parent(q) = p
         PROVE  /\ q \in W /\ Name(q) \notin ToSet(c.list) =>
                     Deletion /\ IsPrefix(Q, q) /\ Childless(q, W)
                /\ Exists(q, dirs', file') /\ Name(q) \in ToSet(c.list) =>
                     q \in W \/ (q = Q /\ Creates)
    <3>0. q \in Path
      BY DEF Rooted
    <3>1. q # P
      <4>1. Parent(P) # Parent(Q)
        BY <2>2 DEF AreApart
      <4>2. IsPrefix(Q, p) => Parent(P) # p
        BY <2>2, <2>11, FarFrom
      <4> QED  BY <2>11, <2>15, <4>1, <4>2
    <3>2. q # Root => ~IsPrefix(P, q)
      <4> SUFFICES ASSUME q # Root, IsPrefix(P, q) PROVE FALSE
        OBVIOUS
      <4>1. IsPrefix(P, p)
        BY <2>2, <2>15, <3>0, <3>1, AboveParent
      <4>2. CASE IsPrefix(Q, p)
        BY <2>2, <2>11, <4>1, <4>2, FarFrom
      <4>3. CASE p = Parent(Q)
        BY <2>2, <2>11, <4>1, <4>3, ParentAbove, PrefixThrough DEF AreApart
      <4> QED  BY <2>11, <4>2, <4>3
    <3>3. q \in W => q \in V
      BY <2>5, <3>1
    <3>4. q \in V => q \in W
      BY <2>5, <2>7, <3>2
    <3>5. Exists(q, dirs', file') => Exists(q, dirs, file)
      BY <2>9, <3>0, <3>2 DEF Exists
    <3>6. /\ q \in V /\ Name(q) \notin ToSet(c.list) => Deletion /\ IsPrefix(Q, q) /\ Childless(q, V)
          /\ Exists(q, dirs, file) /\ Name(q) \in ToSet(c.list) => q \in V \/ (q = Q /\ Creates)
      BY <2>6, <2>13, <2>15
    <3>7. IsPrefix(Q, q) /\ Childless(q, V) => Childless(q, W)
      BY <2>10, <3>0
    <3> QED  BY <3>3, <3>4, <3>5, <3>6, <3>7
  <2>16. SightFound(thread[u], W, T, dirs', file')
    BY <2>14, <2>15 DEF SightFound, e, Q
  <2>17. Hidden(e, W, T, dirs')
    <3> SUFFICES ASSUME NEW i \in DOMAIN e, e[i].do = "stillDir"
                 PROVE  /\ e[i].path \in T =>
                             e[i].path \in dirs' \/ (e[1].do = "needDir" /\ e[1].path = e[i].path)
                        /\ \A q \in W : Parent(q) = e[i].path => \E j \in 1 .. i - 1 : Hides(e[j], q)
      BY DEF Hidden
    <3>1. e[i].path \in Path /\ IsPrefix(Q, e[i].path)
      BY <2>4 DEF Within
    <3>2. e[i].path \in dirs' <=> e[i].path \in dirs
      BY <2>10, <3>1
    <3>3. \A q \in W : Parent(q) = e[i].path => q \in V
      BY <2>2, <2>5, <3>1, FarFrom
    <3> QED  BY <2>6, <3>2, <3>3 DEF Hidden
  <2> QED  BY <2>16, <2>17 DEF e
<1> QED  BY <1>1, <1>2

\* A request goes on with calls of its kind.
LEMMA ProperCalled ==
  ASSUME ThreadInv, NEW t \in Worker, NEW cs, Called(t, cs), Proper(thread[t])
  PROVE  Proper(thread'[t])
<1> DEFINE r == thread[t]
           s == thread'[t]
           d == r.todo
           n == s.todo
           k == Len(cs)
           c == d[1]
           P == r.path
           Creates == r.kind \in {"createDir", "uploadFile"}
<1>0. t \in Thread
  BY DEF Thread
<1>1. /\ DOMAIN d = 1 .. Len(d) /\ DOMAIN n = 1 .. Len(n) /\ DOMAIN cs = 1 .. k
      /\ k \in Nat /\ Len(d) \in Nat \ {0}
      /\ \A i \in 1 .. k : n[i] = cs[i]
      /\ \A i \in DOMAIN n : i > k => n[i] = d[i - k + 1] /\ i - k + 1 \in 2 .. Len(d)
      /\ c \in AnyCall
  BY <1>0, CalledGoes
<1>2. r # Idle /\ s.path = P /\ s.kind = r.kind
  BY <1>0, CalledKeeps
<1>3. P \in Path \ {Root}
  BY <1>2, WorkerIs
<1>4. Answer(c, cs)
  BY DEF Called
<1>5. /\ r.kind \in Requests
      /\ Creates => \A i \in DOMAIN d : /\ d[i].do \in Makes(r.kind)
                                        /\ d[i].path = P \/ (d[i].do = "putList" /\ d[i].path = Parent(P))
      /\ ~Creates => \A i \in DOMAIN d : d[i].do \in Removes
  BY DEF Proper
<1>6. 1 \in DOMAIN d
  BY <1>1
<1> HIDE DEF d, n, c, k, P, r, s
<1>7. ASSUME NEW i \in DOMAIN n, i > k PROVE n[i] = d[i - k + 1] /\ i - k + 1 \in DOMAIN d
  BY <1>1, <1>7
<1>8. ASSUME NEW i \in DOMAIN n, ~(i > k) PROVE n[i] = cs[i] /\ i \in DOMAIN cs
  BY <1>1, <1>8
<1>9. ASSUME Creates, NEW i \in DOMAIN n
      PROVE  n[i].do \in Makes(r.kind) /\ (n[i].path = P \/ (n[i].do = "putList" /\ n[i].path = Parent(P)))
  <2>1. CASE i > k
    BY <1>5, <1>7, <1>9, <2>1
  <2>2. CASE ~(i > k)
    <3>1. n[i] = cs[i] /\ i \in DOMAIN cs
      BY <1>8, <2>2
    <3>2. c.do # "putList"
      BY <1>4, <3>1 DEF Answer
    <3>3. c.do \in Makes(r.kind) /\ c.path = P
      BY <1>5, <1>6, <1>9, <3>2 DEF c
    <3>4. \A kind : c.do \in Makes(kind) /\ c.path # Root =>
            /\ cs[i].do \in Makes(kind)
            /\ cs[i].path = c.path \/ (cs[i].do = "putList" /\ cs[i].path = Parent(c.path))
      BY <1>1, <1>4, <3>1, AnswerDoes
    <3> QED  BY <1>3, <3>1, <3>3, <3>4
  <2> QED  BY <2>1, <2>2
<1>10. ASSUME ~Creates, NEW i \in DOMAIN n PROVE n[i].do \in Removes
  <2>1. CASE i > k
    BY <1>5, <1>7, <1>10, <2>1
  <2>2. CASE ~(i > k)
    <3>1. n[i] = cs[i] /\ i \in DOMAIN cs
      BY <1>8, <2>2
    <3>2. c.do \in Removes
      BY <1>5, <1>6, <1>10 DEF c
    <3>3. c.do \in Removes => cs[i].do \in Removes
      BY <1>1, <1>4, <3>1, AnswerDoes
    <3> QED  BY <3>1, <3>2, <3>3
  <2> QED  BY <2>1, <2>2
<1> QED  BY <1>2, <1>5, <1>9, <1>10 DEF Proper, n, s

\* What thread t can see to after a step: the directories in which nothing is seen, and
\* those that are deleted.
LEMMA HiddenOn ==
  ASSUME NEW d \in Seq(AnyCall), d # << >>, NEW cs \in Seq(AnyCall),
         NEW T, NEW V, NEW W, NEW D, NEW G, Hidden(d, V, T, D), Hidden(cs, W, T, G),
         \A i \in DOMAIN d : i > 1 /\ d[i].do = "stillDir" /\ d[i].path \in T => d[i].path \in G,
         \A i \in DOMAIN d : i > 1 /\ d[i].do = "stillDir" =>
           \A q \in W : Parent(q) = d[i].path =>
             q \in V /\ (Hides(d[1], q) =>
               \/ \E j \in DOMAIN cs : Hides(cs[j], q)
               \/ \E l \in 2 .. i - 1 : Hides(d[l], q))
  PROVE  Hidden(cs \o Tail(d), W, T, G)
<1> DEFINE n == cs \o Tail(d)
           k == Len(cs)
<1>1. /\ DOMAIN n = 1 .. Len(n) /\ k \in Nat /\ Len(n) \in Nat /\ Len(d) \in Nat \ {0}
      /\ \A i \in 1 .. k : n[i] = cs[i]
      /\ \A i \in 2 .. Len(d) : n[k + i - 1] = d[i]
      /\ \A i \in 1 .. Len(n) : i > k => n[i] = d[i - k + 1] /\ i - k + 1 \in 2 .. Len(d)
      /\ DOMAIN d = 1 .. Len(d) /\ DOMAIN cs = 1 .. k
  <2>1. n \in Seq(AnyCall)
    BY GoingOn
  <2> QED  BY <2>1, GoingOn
<1> HIDE DEF n, k
<1> SUFFICES ASSUME NEW m \in 1 .. Len(n), n[m].do = "stillDir"
             PROVE  /\ n[m].path \in T =>
                         n[m].path \in G \/ (n[1].do = "needDir" /\ n[1].path = n[m].path)
                    /\ \A q \in W : Parent(q) = n[m].path => \E j \in 1 .. m - 1 : Hides(n[j], q)
  BY <1>1 DEF Hidden, n
<1>2. CASE m <= k
  <2>1. m \in DOMAIN cs /\ n[m] = cs[m] /\ n[1] = cs[1]
    BY <1>1, <1>2
  <2>2. \A j \in 1 .. m - 1 : n[j] = cs[j]
    BY <1>1, <1>2
  <2> QED  BY <2>1, <2>2 DEF Hidden
<1>3. CASE m > k
  <2> DEFINE i == m - k + 1
  <2>1. n[m] = d[i] /\ i \in DOMAIN d /\ i > 1 /\ i \in Nat /\ m = k + i - 1
    BY <1>1, <1>3
  <2> HIDE DEF i
  <2>2. n[m].path \in T => n[m].path \in G
    BY <2>1
  <2>3. ASSUME NEW q \in W, Parent(q) = n[m].path PROVE \E j \in 1 .. m - 1 : Hides(n[j], q)
    <3>1. q \in V
      BY <2>1, <2>3
    <3>2. PICK j \in 1 .. i - 1 : Hides(d[j], q)
      BY <2>1, <2>3, <3>1 DEF Hidden
    <3>3. ASSUME NEW l \in 2 .. i - 1, Hides(d[l], q) PROVE \E x \in 1 .. m - 1 : Hides(n[x], q)
      <4>1. l \in 2 .. Len(d) /\ k + l - 1 \in 1 .. m - 1
        BY <1>1, <2>1
      <4>2. n[k + l - 1] = d[l]
        BY <1>1, <4>1
      <4> QED  BY <3>3, <4>1, <4>2
    <3>4. CASE j # 1
      <4>1. j \in 2 .. i - 1
        BY <2>1, <3>4
      <4> QED  BY <3>2, <3>3, <4>1
    <3>5. CASE j = 1
      <4>1. \/ \E x \in DOMAIN cs : Hides(cs[x], q)
            \/ \E l \in 2 .. i - 1 : Hides(d[l], q)
        BY <2>1, <2>3, <3>2, <3>5
      <4>2. CASE \E x \in DOMAIN cs : Hides(cs[x], q)
        <5>1. PICK x \in 1 .. k : Hides(cs[x], q)
          BY <1>1, <4>2
        <5>2. n[x] = cs[x] /\ x \in 1 .. m - 1
          BY <1>1, <2>1, <1>3
        <5> QED  BY <5>1, <5>2
      <4>3. CASE \E l \in 2 .. i - 1 : Hides(d[l], q)
        BY <3>3, <4>3
      <4> QED  BY <4>1, <4>2, <4>3
    <3> QED  BY <3>4, <3>5
  <2> QED  BY <2>2, <2>3
<1> QED  BY <1>1, <1>2, <1>3

\* Calls that what can be seen has no part in.
LEMMA SightFree ==
  ASSUME NEW s, NEW T, NEW V, NEW D, NEW F,
         s.todo[1].do \notin {"dropObject", "stillFile", "clearFile", "visitDir", "clearDir",
                              "dropName", "putList"}
  PROVE  SightFound(s, V, T, D, F)
BY DEF SightFound

\* What thread t finds next, when the answer is that it has more to do.
LEMMA SightAnswers ==
  ASSUME ThreadInv, NEW T, Rooted(T), NEW V, V = Visible(T, dirs, file, children),
         SightToldIn(V, T, dirs, file, thread),
         NEW t \in Thread, NEW cs, Called(t, cs), cs # << >>
  PROVE  /\ dirs' = dirs /\ file' = file /\ children' = children
         /\ SightFound(thread'[t], V, T, dirs, file)
<1> DEFINE r == thread[t]
           s == thread'[t]
           d == r.todo
           n == s.todo
           c == d[1]
           p == c.path
           P == r.path
<1>1. /\ d \in Seq(AnyCall) /\ n \in Seq(AnyCall) /\ cs \in Seq(AnyCall) /\ d # << >>
      /\ Len(d) \in Nat \ {0} /\ Len(n) = Len(cs) + Len(d) - 1 /\ DOMAIN d = 1 .. Len(d)
      /\ \A i \in 2 .. Len(d) : n[Len(cs) + i - 1] = d[i]
      /\ n # << >> /\ n[1] = cs[1]
      /\ c \in AnyCall /\ Scripted(d) /\ Within(P, c) /\ p \in Path
  BY CalledGoes
<1>2. Answer(c, cs) /\ Wrote(c) /\ Read(c, cs) /\ Busy(t)
  BY DEF Called
<1>3. s.path = P /\ s.kind = r.kind /\ r # Idle
  BY CalledKeeps
<1>4. SightFound(r, V, T, dirs, file) /\ Hidden(d, V, T, dirs) /\ \A q \in V : Open(Parent(q), V, dirs, file)
  BY <1>1 DEF SightToldIn
<1>5. t \in Worker => Proper(r)
  BY <1>3 DEF SightToldIn
<1>6. /\ t = Main => c.do \in {"ensureRoot", "putDir", "putList"}
      /\ p = Root => c.do \in {"ensureRoot", "putDir", "putList"}
      /\ t \in Worker \/ t = Main
  BY <1>2, HeadIs DEF Thread
<1>7. /\ c.do = "ensureRoot" => cs[1] = Call("putDir", p)
      /\ c.do = "visitDir" => cs[1] = Call("needDir", p)
      /\ c.do = "stillDir" => cs[1] = Call("clearDir", p)
      /\ c.do = "stillFile" => cs[1] = Call("clearFile", p)
      /\ c.do = "needNoFile" => cs[1].do = "putObject"
      /\ c.do = "needFile" => cs[1].do = "dropObject"
      /\ c.do = "visitFile" => cs[1] \in {Call("needFile", p), Call("visitDir", p)}
      /\ c.do = "walk" => cs[1].do = "visitFile"
      /\ c.do \in {"ensureRoot", "visitDir", "stillDir", "stillFile", "needNoFile", "needFile",
                   "visitFile", "walk", "addName", "dropName"}
  BY <1>1, <1>2, AnswerHead
<1>8. dirs' = dirs /\ file' = file /\ children' = children
  BY <1>2, <1>7 DEF Wrote
<1>9. /\ V \subseteq Path \ {Root} /\ V \subseteq T /\ T \subseteq Path
      /\ \A q \in T : q \in V <=> Exists(q, dirs, file) /\ Name(q) \in ToSet(children[Parent(q)])
  BY VisibleIs DEF Rooted
<1>10. \A q \in Path : children[q] \in Seq(Names) /\ NameChildren(q, children[q])
  BY TypesAre DEF ThreadInv, StoreTypes
<1> HIDE DEF r, s, d, n, c, p, P
<1> DEFINE Free == {"putDir", "needDir", "putObject", "visitFile", "needFile"}
<1>11. cs[1].do \in Free => SightFound(s, V, T, dirs, file)
  BY <1>1, SightFree DEF n
<1>12. CASE c.do \in {"ensureRoot", "visitDir", "needNoFile", "walk"}
  <2>1. cs[1].do \in Free
    BY <1>7, <1>12, CallGives
  <2> QED  BY <1>8, <1>11, <2>1 DEF s
<1>13. CASE c.do = "stillDir"
  <2>1. n[1].do = "clearDir" /\ n[1].path = p
    BY <1>1, <1>7, <1>13, CallGives
  <2>2. 1 \in DOMAIN d
    BY <1>1
  <2>3. Childless(p, V)
    BY <1>4, <1>13, <2>2 DEF Hidden, Childless, c, p
  <2>4. SightFound(s, V, T, dirs, file)
    BY <2>1, <2>3 DEF SightFound, n
  <2> QED  BY <1>8, <2>4 DEF s
<1>14. CASE c.do = "stillFile"
  <2>1. n[1].do = "clearFile" /\ n[1].path = p
    BY <1>1, <1>7, <1>14, CallGives
  <2>2. p \in T => file[p] # NoFile
    BY <1>4, <1>14 DEF SightFound, r, d, c, p
  <2>3. Childless(p, V)
    <3> SUFFICES ASSUME NEW q \in V, Parent(q) = p PROVE FALSE
      BY DEF Childless
    <3>1. p \in T
      BY <1>9, RootedParent
    <3> QED  BY <1>4, <1>6, <1>14, <2>2, <3>1 DEF Open
  <2>4. SightFound(s, V, T, dirs, file)
    BY <2>1, <2>2, <2>3 DEF SightFound, n
  <2> QED  BY <1>8, <2>4 DEF s
<1>15. CASE c.do = "needFile"
  <2>1. file[p] # NoFile
    BY <1>2, <1>15 DEF Read, p
  <2>2. PICK o : cs = <<With(o, "dropObject", p)>>
    BY <1>2, <1>15 DEF Answer, p
  <2>3. n[1] = With(o, "dropObject", p)
    BY <1>1, <2>2
  <2>4. n[1].do = "dropObject" /\ n[1].path = p
    BY <2>3 DEF With, Call
  <2>5. SightFound(s, V, T, dirs, file)
    BY <2>1, <2>4 DEF SightFound, n
  <2> QED  BY <1>8, <2>5 DEF s
<1>16. CASE c.do = "visitFile"
  <2>1. CASE file[p] # NoFile
    <3>1. cs = DeleteFile(p)
      BY <1>2, <1>16, <2>1 DEF Read, p
    <3>2. cs[1].do \in Free
      BY <3>1, CallGives DEF DeleteFile
    <3> QED  BY <1>8, <1>11, <3>2 DEF s
  <2>2. CASE file[p] = NoFile
    <3>1. cs = <<Call("visitDir", p)>>
      BY <1>2, <1>16, <2>2 DEF Read, p
    <3>2. n[1].do = "visitDir" /\ n[1].path = p
      BY <1>1, <3>1, CallGives
    <3>3. SightFound(s, V, T, dirs, file)
      BY <2>2, <3>2 DEF SightFound, n
    <3> QED  BY <1>8, <3>3 DEF s
  <2> QED  BY <2>1, <2>2
<1>17. ASSUME c.do \in {"addName", "dropName"}, NEW names,
              cs = <<PutList(Parent(p), names)>>,
              Len(n) > 1 => n[2].do # "dropName",
              \A q \in T : Parent(q) = Parent(p) =>
                /\ q \in V /\ Name(q) \notin ToSet(names) =>
                     r.kind \in {"deleteDir", "deleteFile"} /\ IsPrefix(P, q) /\ Childless(q, V)
                /\ Exists(q, dirs, file) /\ Name(q) \in ToSet(names) =>
                     q \in V \/ (q = P /\ r.kind \in {"createDir", "uploadFile"})
       PROVE  SightFound(s, V, T, dirs, file)
  <2>1. n[1] = PutList(Parent(p), names)
    BY <1>1, <1>17
  <2>2. n[1].do = "putList" /\ n[1].path = Parent(p) /\ n[1].list = names
    BY <2>1 DEF PutList, Call
  <2> QED  BY <1>3, <1>17, <2>2 DEF SightFound, n
<1>18. CASE c.do = "addName"
  <2> DEFINE names == Extended(children[Parent(p)], Name(p))
  <2>1. p \in Path \ {Root} /\ t \in Worker
    BY <1>1, <1>6, <1>18
  <2>2. Parent(p) \in Path
    BY <2>1, PathType
  <2>3. \A m : m \in ToSet(names) <=> m \in ToSet(children[Parent(p)]) \/ m = Name(p)
    BY <1>10, <2>1, <2>2, ListsAre
  <2>4. cs = <<PutList(Parent(p), names)>>
    BY <1>2, <1>18 DEF Read, p
  <2>5. r.kind \in {"createDir", "uploadFile"} /\ p = P
    <3>1. "addName" \notin Removes
      BY DEF Removes
    <3>2. 1 \in DOMAIN d
      BY <1>1
    <3> QED  BY <1>5, <1>18, <2>1, <3>1, <3>2 DEF Proper, c, d, p, P
  <2>6. Len(n) = 1
    <3>1. Len(d) = 1
      BY <1>1, <1>18, ShapeIs DEF Scripted, c
    <3>2. Len(cs) = 1
      BY <2>4
    <3> QED  BY <1>1, <3>1, <3>2
  <2> HIDE DEF names
  <2>7. ASSUME NEW q \in T, Parent(q) = Parent(p)
        PROVE  /\ q \in V => Name(q) \in ToSet(names)
               /\ Exists(q, dirs, file) /\ Name(q) \in ToSet(names) => q \in V \/ q = p
    <3>1. q \in V => Name(q) \in ToSet(names)
      BY <1>9, <2>3, <2>7
    <3>2. Exists(q, dirs, file) /\ Name(q) = Name(p) => q = p
      BY <1>9, <2>1, <2>7, SamePath DEF Exists
    <3> QED  BY <1>9, <2>3, <2>7, <3>1, <3>2
  <2>8. SightFound(s, V, T, dirs, file)
    BY <1>17, <1>18, <2>4, <2>5, <2>6, <2>7
  <2> QED  BY <1>8, <2>8 DEF s
<1>19. CASE c.do = "dropName"
  <2> DEFINE names == Erased(children[Parent(p)], Name(p))
  <2>1. p \in Path \ {Root} /\ t \in Worker
    BY <1>1, <1>6, <1>19
  <2>2. Parent(p) \in Path
    BY <2>1, PathType
  <2>3. \A m : m \in ToSet(names) <=> m \in ToSet(children[Parent(p)]) /\ m # Name(p)
    BY <1>10, <2>1, <2>2, ListsAre
  <2>4. cs = <<PutList(Parent(p), names)>>
    BY <1>2, <1>19 DEF Read, p
  <2>5. r.kind \in {"deleteDir", "deleteFile"}
    <3>1. \A kind : "dropName" \notin Makes(kind)
      BY DEF Makes
    <3>2. 1 \in DOMAIN d
      BY <1>1
    <3> QED  BY <1>5, <1>19, <2>1, <3>1, <3>2 DEF Proper, Requests, c, d
  <2>6. IsPrefix(P, p) /\ Childless(p, V)
    <3>1. IsPrefix(P, p)
      BY <1>1, <1>19 DEF Within, p
    <3>2. Childless(p, V)
      BY <1>4, <1>19 DEF SightFound, r, d, c, p
    <3> QED  BY <3>1, <3>2
  <2>7. Len(n) > 1 => n[2].do # "dropName"
    <3> SUFFICES ASSUME Len(n) > 1 PROVE n[2].do # "dropName"
      OBVIOUS
    <3>1. Len(cs) = 1
      BY <2>4
    <3>2. Len(d) >= 2 /\ 2 \in 2 .. Len(d)
      BY <1>1, <3>1
    <3>3. n[2] = d[2]
      BY <1>1, <3>1, <3>2
    <3>4. d[2].do \in {"visitFile", "stillDir"}
      BY <1>1, <1>19, <3>2, SecondIs DEF c
    <3> QED  BY <3>3, <3>4
  <2> HIDE DEF names
  <2>8. ASSUME NEW q \in T, Parent(q) = Parent(p)
        PROVE  /\ q \in V /\ Name(q) \notin ToSet(names) => q = p
               /\ Exists(q, dirs, file) /\ Name(q) \in ToSet(names) => q \in V
    <3>1. q \in V /\ Name(q) = Name(p) => q = p
      BY <1>9, <2>1, <2>8, SamePath
    <3> QED  BY <1>9, <2>3, <2>8, <3>1
  <2>9. SightFound(s, V, T, dirs, file)
    BY <1>17, <1>19, <2>4, <2>5, <2>6, <2>7, <2>8
  <2> QED  BY <1>8, <2>9 DEF s
<1> QED  BY <1>7, <1>12, <1>13, <1>14, <1>15, <1>16, <1>18, <1>19

\* What thread t finds next, when it goes on with the calls it still had to make.
LEMMA SightContinues ==
  ASSUME ThreadInv, NEW T, Rooted(T), NEW V, V = Visible(T, dirs, file, children),
         SightToldIn(V, T, dirs, file, thread),
         NEW W, W = Visible(T, dirs', file', children'),
         NEW t \in Thread, NEW cs, Called(t, cs), cs = << >>, thread'[t].todo # << >>,
         t \in Worker => Placed(thread'[t], W, T, dirs', file')
  PROVE  SightFound(thread'[t], W, T, dirs', file')
<1> DEFINE r == thread[t]
           s == thread'[t]
           d == r.todo
           n == s.todo
           c == d[1]
           b == d[2]
           p == c.path
           P == r.path
           Creates == t \in Worker /\ r.kind \in {"createDir", "uploadFile"}
<1>1. /\ d \in Seq(AnyCall) /\ n \in Seq(AnyCall) /\ d # << >> /\ n # << >>
      /\ Len(d) \in Nat \ {0} /\ Len(n) = Len(d) - 1 /\ DOMAIN d = 1 .. Len(d)
      /\ \A i \in 2 .. Len(d) : n[i - 1] = d[i]
      /\ Len(d) >= 2 /\ n[1] = b
      /\ c \in AnyCall /\ Scripted(d) /\ Within(P, c) /\ p \in Path
  <2>1. Len(cs) = 0
    OBVIOUS
  <2> QED  BY <2>1, CalledGoes
<1>2. /\ Answer(c, cs) /\ Wrote(c) /\ Busy(t)
      /\ c.do \in {"visitFile", "needFile", "needNoFile"} => cs # << >>
  BY DEF Called
<1>3. s.path = P /\ s.kind = r.kind /\ r # Idle
  BY CalledKeeps
<1>4. SightFound(r, V, T, dirs, file) /\ RootIsFirst(thread[Main].todo, V, dirs)
  BY <1>1 DEF SightToldIn
<1>5. t \in Worker => Proper(r) /\ P # Root
  BY <1>3, WorkerIs DEF SightToldIn
<1>6. /\ t = Main => c.do \in {"ensureRoot", "putDir", "putList"} /\ p = Root
      /\ p = Root => c.do \in {"ensureRoot", "putDir", "putList"}
      /\ t \in Worker \/ t = Main
  BY <1>2, HeadIs DEF Thread
<1>7. \A q \in W : q \notin V => Creates /\ q = P
  BY SightCall
<1>8. V \subseteq Path \ {Root} /\ W \subseteq Path \ {Root}
  BY VisibleIs
<1>9. /\ c.do \notin {"ensureRoot", "addName", "needNoFile"}
      /\ c.do = "needNoDir" => b = Call("putDir", p)
      /\ c.do = "putDir" => b = Call("putList", p)
      /\ c.do = "putObject" => b = With(c.object, "putFile", p)
      /\ c.do = "putFile" => b = Call("addName", p)
      /\ c.do = "putList" => \/ c.list = << >> /\ b \in {Call("addName", p), Call("dropName", p)}
                             \/ b.do \in {"visitFile", "stillDir"}
      /\ c.do \in {"needFile", "dropObject"} => b = Call("stillFile", p)
      /\ c.do = "clearFile" => b = Call("dropName", p)
      /\ c.do = "needDir" => b = Call("walk", p)
      /\ c.do = "walk" => b = Call("stillDir", p)
      /\ c.do = "clearDir" => b = Call("putList", p)
      /\ c.do \in {"stillFile", "stillDir", "visitFile", "visitDir", "dropName"} =>
           b.do \in {"visitFile", "stillDir"}
  BY <1>1, SecondIs
<1>10. Creates => c.do \in Makes(r.kind) /\ b.do \in Makes(r.kind) /\ (c.path = P \/ c.do = "putList")
  BY <1>1, <1>5 DEF Proper
<1>11. t \in Worker /\ ~Creates => c.do \in Removes
  BY <1>1, <1>5 DEF Proper
<1>12. \A kind : {"dropName", "clearFile", "clearDir"} \cap Makes(kind) = {}
  BY DEF Makes
<1>13. "putDir" \notin Removes
  BY DEF Removes
<1>14. \A x : Childless(x, V) /\ ~Creates => Childless(x, W)
  BY <1>7 DEF Childless
<1>15. t \in Worker => Placed(s, W, T, dirs', file')
  OBVIOUS
<1> DEFINE Free == {"putDir", "putFile", "addName", "visitFile", "stillDir", "walk"}
           Goal == SightFound(s, W, T, dirs', file')
<1> SUFFICES Goal
  OBVIOUS
<1> HIDE DEF r, s, d, n, c, b, p, P, Creates
<1>16. b.do \in Free => Goal
  BY <1>1, SightFree DEF n
<1> HIDE DEF Free
\* A list that is emptied: nothing in it is seen.
<1>17. ASSUME b = Call("putList", p), Childless(p, W), Len(n) > 1 /\ n[2].do = "dropName" => n[2].path = p
       PROVE  Goal
  <2>1. n[1].do = "putList" /\ n[1].path = p /\ n[1].list = << >>
    BY <1>1, <1>17, CallGives
  <2>2. \A m : m \notin ToSet(<< >>)
    BY DEF ToSet
  <2>3. \A q : Parent(q) = p => q \notin W
    BY <1>17 DEF Childless
  <2> QED  BY <1>17, <2>1, <2>2, <2>3 DEF SightFound, n
<1>18. CASE c.do \in {"needNoDir", "putObject", "putFile", "needDir", "walk",
                      "stillFile", "stillDir", "visitFile", "visitDir", "dropName"}
  <2>1. \A o : With(o, "putFile", p).do = "putFile"
    BY DEF With, Call
  <2>2. b.do \in Free
    BY <1>9, <1>18, <2>1, CallGives DEF Free
  <2> QED  BY <1>16, <2>2
<1>19. CASE c.do = "putDir"
  <2>1. b = Call("putList", p)
    BY <1>9, <1>19
  <2>2. CASE t = Main
    <3>1. Childless(Root, V) /\ p = Root
      BY <1>1, <1>4, <1>6, <1>19, <2>2 DEF RootIsFirst, r, d, c
    <3>2. ~Creates
      BY <2>2, ThreadAssumption DEF Creates
    <3>3. Len(n) = 1
      <4>1. Ends(d, MakeDir(Root))
        BY <1>1, <1>19, <3>1 DEF Scripted, c, p
      <4>2. MakeDir(Root) = <<Call("putDir", Root), Call("putList", Root)>>
        BY MakeDirIs
      <4>3. Len(d) = 2
        BY <4>1, <4>2 DEF Ends
      <4> QED  BY <1>1, <4>3
    <3> QED  BY <1>14, <1>17, <2>1, <3>1, <3>2, <3>3
  <2>3. CASE t \in Worker
    <3>1. Creates /\ p = P
      BY <1>10, <1>11, <1>13, <1>19, <2>3 DEF p
    <3>2. Childless(p, W)
      BY <1>3, <1>15, <2>3, <3>1 DEF Placed, Creates
    <3>3. n[2].do # "dropName"
      <4>1. Ends(d, MakeDir(p))
        BY <1>1, <1>19 DEF Scripted, c, p
      <4>2. MakeDir(p) = <<Call("putDir", p), Call("putList", p), Call("addName", p)>>
        BY <1>5, <2>3, <3>1, MakeDirIs
      <4>3. Len(d) = 3 /\ d[3] = Call("addName", p)
        BY <1>1, <4>1, <4>2, ShapeIs
      <4>4. n[2] = d[3]
        BY <1>1, <4>3
      <4> QED  BY <4>3, <4>4, CallGives
    <3> QED  BY <1>17, <2>1, <3>2, <3>3
  <2> QED  BY <1>6, <2>2, <2>3
<1>20. CASE c.do = "putList"
  <2>1. CASE b = Call("dropName", p)
    <3>1. b.do = "dropName" /\ b.path = p
      BY <2>1, CallGives
    <3>2. ~Creates
      BY <1>10, <1>12, <3>1
    <3>3. Childless(p, V)
      BY <1>1, <1>4, <1>20, <3>1 DEF SightFound, r, d, c, b
    <3>4. Childless(p, W)
      BY <1>14, <3>2, <3>3
    <3> QED  BY <1>1, <3>1, <3>4 DEF SightFound, n
  <2>2. CASE b # Call("dropName", p)
    <3>1. b.do \in Free
      BY <1>9, <1>20, <2>2, CallGives DEF Free
    <3> QED  BY <1>16, <3>1
  <2> QED  BY <2>1, <2>2
<1>21. CASE c.do = "dropObject"
  <2>1. n[1].do = "stillFile" /\ n[1].path = p
    BY <1>1, <1>9, <1>21, CallGives
  <2>2. (p \in T => file[p] # NoFile) /\ file' = file
    BY <1>2, <1>4, <1>21 DEF SightFound, Wrote, r, d, c, p
  <2> QED  BY <2>1, <2>2 DEF SightFound, n
<1>22. CASE c.do = "clearFile"
  <2>1. n[1].do = "dropName" /\ n[1].path = p
    BY <1>1, <1>9, <1>22, CallGives
  <2>2. Childless(p, V)
    BY <1>4, <1>22 DEF SightFound, r, d, c, p
  <2>3. ~Creates
    BY <1>10, <1>12, <1>22
  <2>4. Childless(p, W)
    BY <1>14, <2>2, <2>3
  <2> QED  BY <2>1, <2>4 DEF SightFound, n
<1>23. CASE c.do = "clearDir"
  <2>1. b = Call("putList", p)
    BY <1>9, <1>23
  <2>2. Childless(p, V)
    BY <1>4, <1>23 DEF SightFound, r, d, c, p
  <2>3. ~Creates
    BY <1>10, <1>12, <1>23
  <2>4. Len(n) > 1 /\ n[2].do = "dropName" => n[2].path = p
    <3>1. Continues(d, <<c, Call("putList", p), Call("dropName", p)>>)
      BY <1>1, <1>23 DEF Scripted, c, p
    <3>2. Len(d) >= 3 /\ d[3] = Call("dropName", p)
      BY <1>1, <3>1, ShapeIs
    <3>3. n[2] = d[3]
      BY <1>1, <3>2
    <3> QED  BY <3>2, <3>3, CallGives
  <2> QED  BY <1>14, <1>17, <2>1, <2>2, <2>3, <2>4
<1>24. c.do # "needFile" /\ c.do \in Doing
  BY <1>1, <1>2 DEF AnyCall
<1>25. c.do \in {"needNoDir", "putObject", "putFile", "needDir", "walk", "stillFile", "stillDir", "visitFile",
                 "visitDir", "dropName", "putDir", "putList", "dropObject", "clearFile", "clearDir"}
  BY <1>9, <1>24 DEF Doing
<1> QED  BY <1>18, <1>19, <1>20, <1>21, <1>22, <1>23, <1>25

\* What the first call of thread t hides is seen to by what it does then, or hidden.
LEMMA HandsOn ==
  ASSUME ThreadInv, NEW T, Rooted(T), NEW V, V = Visible(T, dirs, file, children),
         SightToldIn(V, T, dirs, file, thread),
         NEW W, W = Visible(T, dirs', file', children'),
         NEW t \in Thread, NEW cs, Called(t, cs),
         NEW i \in DOMAIN thread[t].todo, i > 1, thread[t].todo[i].do = "stillDir",
         NEW q \in V, q \in W, Parent(q) = thread[t].todo[i].path, Hides(thread[t].todo[1], q)
  PROVE  \/ \E j \in DOMAIN cs : Hides(cs[j], q)
         \/ \E l \in 2 .. i - 1 : Hides(thread[t].todo[l], q)
<1> DEFINE d == thread[t].todo
           c == d[1]
           p == c.path
<1>1. /\ d \in Seq(AnyCall) /\ cs \in Seq(AnyCall) /\ d # << >>
      /\ Len(d) \in Nat \ {0} /\ DOMAIN d = 1 .. Len(d) /\ DOMAIN cs = 1 .. Len(cs)
      /\ c \in AnyCall /\ Scripted(d) /\ Nested(d) /\ p \in Path
  BY CalledGoes
<1>2. /\ Answer(c, cs) /\ Wrote(c) /\ Read(c, cs)
      /\ c.do \in {"visitFile", "needFile", "needNoFile"} => cs # << >>
      /\ c.do \in {"visitDir", "stillDir"} /\ c.path \in dirs => cs # << >>
      /\ c.do = "stillFile" /\ file[c.path] # NoFile => cs # << >>
  BY DEF Called
<1>3. SightFound(thread[t], V, T, dirs, file) /\ Hidden(d, V, T, dirs)
  BY <1>1 DEF SightToldIn
<1>4. /\ q \in Path \ {Root} /\ Parent(q) \in Path /\ q \in T
      /\ Exists(q, dirs, file) /\ Name(q) \in ToSet(children[Parent(q)])
      /\ Name(q) \in ToSet(children'[Parent(q)])
  BY VisibleIs, PathType
<1>5. Parent(q) # q
  BY <1>4, ParentIs
<1>6. i \in 2 .. Len(d) /\ d[i].do = "stillDir" /\ d[i].path = Parent(q) /\ i \in Nat /\ Len(d) >= 2
  BY <1>1
<1>7. /\ DOMAIN file = Path /\ DOMAIN children = Path
      /\ \A x \in Path : children[x] \in Seq(Names) /\ NameChildren(x, children[x])
  BY TypesAre DEF ThreadInv, StoreTypes
<1>8. Hides(c, q)
  OBVIOUS
<1> SUFFICES \/ \E j \in DOMAIN cs : Hides(cs[j], q)
             \/ \E l \in 2 .. i - 1 : Hides(d[l], q)
  OBVIOUS
<1>9. cs # << >> => 1 \in DOMAIN cs
  BY <1>1
<1>10. cs # << >> =>
         /\ c.do = "visitDir" => cs[1] = Call("needDir", p)
         /\ c.do = "stillDir" => cs[1] = Call("clearDir", p)
         /\ c.do = "stillFile" => cs[1] = Call("clearFile", p)
         /\ c.do = "visitFile" => cs[1] \in {Call("needFile", p), Call("visitDir", p)}
  BY <1>1, <1>2, AnswerHead
<1>11. LET b == d[2]
       IN /\ c.do \in {"needFile", "dropObject"} => b = Call("stillFile", p)
          /\ c.do = "clearFile" => b = Call("dropName", p)
          /\ c.do = "needDir" => b = Call("walk", p)
          /\ c.do = "walk" => b = Call("stillDir", p)
  BY <1>1, <1>6, SecondIs
<1> HIDE DEF d, c, p
<1> DEFINE Sweeps == {"visitFile", "visitDir", "needFile", "dropObject", "stillFile", "clearFile",
                      "needDir", "walk", "stillDir", "clearDir"}
<1>12. \A a : a.path = q /\ a.do \in Sweeps \cup {"dropName"} => Hides(a, q)
  BY DEF Hides, Deletes
<1>13. Hides(d[2], q) /\ (d[2].do # "stillDir" \/ d[2].path # Parent(q)) => \E l \in 2 .. i - 1 : Hides(d[l], q)
  <2> SUFFICES ASSUME Hides(d[2], q), d[2].do # "stillDir" \/ d[2].path # Parent(q)
               PROVE  \E l \in 2 .. i - 1 : Hides(d[l], q)
    OBVIOUS
  <2>1. i # 2
    BY <1>6
  <2>2. 2 \in 2 .. i - 1
    BY <1>6, <2>1
  <2> QED  BY <2>2
<1>14. CASE p = q /\ c.do \in {"visitFile", "visitDir", "stillFile", "stillDir"}
  <2>1. c.do = "stillFile" => file[p] # NoFile
    BY <1>3, <1>4, <1>14 DEF SightFound, d, c, p
  <2>2. c.do = "visitDir" => p \in dirs
    <3>1. c.do = "visitDir" => file[p] = NoFile
      BY <1>3, <1>4, <1>14 DEF SightFound, d, c, p
    <3> QED  BY <1>4, <1>14, <3>1 DEF Exists
  <2>3. c.do = "stillDir" => p \in dirs
    <3>1. 1 \in DOMAIN d
      BY <1>1
    <3> QED  BY <1>3, <1>4, <1>14, <3>1 DEF Hidden, c, p
  <2>4. cs # << >>
    BY <1>2, <1>14, <2>1, <2>2, <2>3 DEF p
  <2>5. cs[1].path = q /\ cs[1].do \in Sweeps
    BY <1>10, <1>14, <2>4, CallGives
  <2>6. Hides(cs[1], q)
    BY <1>12, <2>5
  <2> QED  BY <1>9, <2>4, <2>6
<1>15. CASE p = q /\ c.do = "needFile"
  <2>1. PICK o : cs = <<With(o, "dropObject", p)>>
    BY <1>2, <1>15 DEF Answer, p
  <2>2. cs[1].path = q /\ cs[1].do \in Sweeps
    BY <1>15, <2>1 DEF With, Call
  <2>3. cs # << >>
    BY <2>1
  <2>4. Hides(cs[1], q)
    BY <1>12, <2>2
  <2> QED  BY <1>9, <2>3, <2>4
<1>16. CASE p = q /\ c.do \in {"dropObject", "clearFile", "needDir", "walk"}
  <2>1. d[2].path = q /\ d[2].do \in Sweeps \cup {"dropName"}
    BY <1>11, <1>16, CallGives
  <2>2. Hides(d[2], q)
    BY <1>12, <2>1
  <2> QED  BY <1>5, <1>13, <2>1, <2>2
<1>17. CASE p = q /\ c.do = "clearDir"
  <2>1. Continues(d, <<c, Call("putList", p), Call("dropName", p)>>)
    BY <1>1, <1>17 DEF Scripted, c, p
  <2>2. Len(d) >= 3 /\ d[2] = Call("putList", p) /\ d[3] = Call("dropName", p)
    BY <1>1, <2>1, ShapeIs
  <2>3. Hides(d[3], q)
    BY <1>12, <1>17, <2>2, CallGives
  <2>4. i # 2 /\ i # 3
    BY <1>6, <2>2, CallGives
  <2>5. 3 \in 2 .. i - 1
    BY <1>6, <2>4
  <2> QED  BY <2>3, <2>5
<1>18. CASE p = Parent(q) /\ c.do = "needDir"
  <2>1. d[2].path = Parent(q) /\ d[2].do = "walk"
    BY <1>11, <1>18, CallGives
  <2>2. Hides(d[2], q)
    BY <2>1 DEF Hides, Deletes
  <2> QED  BY <1>13, <2>1, <2>2
<1>19. CASE p = Parent(q) /\ c.do = "walk"
  <2>1. cs = Visits(p, children[p])
    BY <1>2, <1>19 DEF Read, p
  <2>2. p # Root
    BY <1>1, <1>19 DEF AnyCall, p
  <2>3. /\ DOMAIN cs = DOMAIN children[p]
        /\ \A j \in DOMAIN children[p] : cs[j].do = "visitFile" /\ cs[j].path = Append(p, children[p][j])
    BY <1>1, <1>7, <2>1, <2>2, VisitsAre
  <2>4. PICK j \in DOMAIN children[p] : children[p][j] = Name(q)
    BY <1>4, <1>19 DEF ToSet
  <2>5. Append(p, Name(q)) = q
    BY <1>4, <1>19, ParentIs
  <2>6. Hides(cs[j], q)
    BY <1>12, <2>3, <2>4, <2>5
  <2> QED  BY <2>3, <2>4, <2>6
<1>20. CASE p = q /\ c.do = "dropName"
  <2> DEFINE names == Erased(children[Parent(q)], Name(q))
  <2>1. cs = <<PutList(Parent(q), names)>>
    BY <1>2, <1>20 DEF Read, p
  <2>2. Name(q) \notin ToSet(names)
    BY <1>4, <1>7, ListsAre
  <2> HIDE DEF names
  <2>3. cs[1] = PutList(Parent(q), names) /\ cs # << >>
    BY <2>1
  <2>4. cs[1].do = "putList" /\ cs[1].path = Parent(q) /\ cs[1].list = names
    BY <2>3 DEF PutList, Call
  <2>5. Hides(cs[1], q)
    BY <2>2, <2>4 DEF Hides
  <2> QED  BY <1>9, <2>3, <2>5
<1>21. CASE c.do = "putList" /\ p = Parent(q) /\ Name(q) \notin ToSet(c.list)
  <2>1. children' = [children EXCEPT ![p] = c.list]
    BY <1>2, <1>21 DEF Wrote, p
  <2>2. children'[p] = c.list
    BY <1>1, <1>7, <2>1
  <2> QED  BY <1>4, <1>21, <2>2
<1>22. \/ c.path = q /\ c.do \in Sweeps
       \/ c.path = Parent(q) /\ c.do \in {"needDir", "walk"}
       \/ c.do = "dropName" /\ c.path = q
       \/ c.do = "putList" /\ c.path = Parent(q) /\ Name(q) \notin ToSet(c.list)
  BY <1>8 DEF Hides, Deletes
<1> QED  BY <1>14, <1>15, <1>16, <1>17, <1>18, <1>19, <1>20, <1>21, <1>22 DEF p

\* Thread t still hides all that is in a directory before it deletes it.
LEMMA HiddenCalled ==
  ASSUME ThreadInv, NEW T, Rooted(T), NEW V, V = Visible(T, dirs, file, children),
         SightToldIn(V, T, dirs, file, thread),
         NEW W, W = Visible(T, dirs', file', children'),
         NEW t \in Thread, NEW cs, Called(t, cs)
  PROVE  Hidden(thread'[t].todo, W, T, dirs')
<1> DEFINE r == thread[t]
           d == r.todo
           c == d[1]
           p == c.path
           P == r.path
           F == [q \in Path |-> <<q, 1>>]
<1>1. /\ d \in Seq(AnyCall) /\ cs \in Seq(AnyCall) /\ d # << >>
      /\ Len(d) \in Nat \ {0} /\ DOMAIN d = 1 .. Len(d)
      /\ c \in AnyCall /\ Nested(d) /\ p \in Path
  BY CalledGoes
<1>2. Answer(c, cs) /\ Wrote(c) /\ Read(c, cs) /\ Busy(t) /\ thread' = [thread EXCEPT ![t] = Going(t, cs)]
  BY DEF Called
<1>3. thread'[t].todo = cs \o Tail(d)
  BY <1>1, <1>2, GoesIs
<1>4. Hidden(d, V, T, dirs)
  BY DEF SightToldIn
<1>5. W \subseteq Path \ {Root}
  BY VisibleIs
<1>6. t \in Worker => Proper(r)
  <2>1. r # Idle
    BY CalledKeeps
  <2> QED  BY <2>1 DEF SightToldIn
<1>7. \A q \in W : q \notin V => t \in Worker /\ r.kind \in {"createDir", "uploadFile"}
  BY SightCall
<1>8. Hidden(cs, W, T, dirs')
  <2>1. Emptied(cs, {}, F)
    BY <1>1, <1>2, AnswerEmpties
  <2>2. \A q \in W : q \in ChildrenOf(Parent(q), {}, F)
    <3>1. \A q \in Path : F[q] # NoFile
      BY KeyAssumption
    <3> QED  BY <1>5, <3>1 DEF ChildrenOf, Exists
  <2>3. \A a, q : Deletes(a, q) => Hides(a, q)
    BY DEF Hides
  <2> QED  BY <2>1, <2>2, <2>3 DEF Hidden, Emptied
<1> HIDE DEF r, d, c, p, P, F
<1>9. ASSUME NEW i \in DOMAIN d, i > 1, d[i].do = "stillDir", d[i].path \in T
      PROVE  d[i].path \in dirs'
  <2>1. d[i].path \in dirs \/ (c.do = "needDir" /\ p = d[i].path)
    BY <1>4, <1>9 DEF Hidden, c, p
  <2>2. d[i].path \in dirs
    BY <1>2, <2>1 DEF Read, p
  <2>3. c.do = "clearDir" => p # d[i].path
    <3>1. 1 \in 1 .. i - 1
      BY <1>1, <1>9
    <3> QED  BY <1>1, <1>9, <3>1 DEF Nested, c, p
  <2> QED  BY <1>2, <2>2, <2>3 DEF Wrote, p
<1>10. ASSUME NEW i \in DOMAIN d, i > 1, d[i].do = "stillDir", NEW q \in W, Parent(q) = d[i].path
       PROVE  q \in V /\ (Hides(d[1], q) =>
                \/ \E j \in DOMAIN cs : Hides(cs[j], q)
                \/ \E l \in 2 .. i - 1 : Hides(d[l], q))
  <2>1. q \in V
    <3>1. \A kind : "stillDir" \notin Makes(kind)
      BY DEF Makes
    <3> QED  BY <1>6, <1>7, <1>10, <3>1 DEF Proper, d
  <2>2. Hides(d[1], q) =>
          \/ \E j \in DOMAIN cs : Hides(cs[j], q)
          \/ \E l \in 2 .. i - 1 : Hides(d[l], q)
    BY <1>10, <2>1, HandsOn DEF d, r
  <2> QED  BY <2>1, <2>2
<1>11. Hidden(cs \o Tail(d), W, T, dirs')
  BY <1>1, <1>4, <1>8, <1>9, <1>10, HiddenOn
<1> QED  BY <1>3, <1>11

\* The root is made before anything can be seen.
LEMMA RootCalled ==
  ASSUME ThreadInv, NEW T, Rooted(T), NEW V, V = Visible(T, dirs, file, children),
         SightToldIn(V, T, dirs, file, thread),
         NEW W, W = Visible(T, dirs', file', children'),
         NEW t \in Thread, NEW cs, Called(t, cs)
  PROVE  RootIsFirst(thread'[Main].todo, W, dirs')
<1> DEFINE d == thread[t].todo
           n == thread'[t].todo
           c == d[1]
<1>1. RootIsFirst(thread[Main].todo, V, dirs)
  BY DEF SightToldIn
<1>2. /\ c.path = Root => c.do \in {"ensureRoot", "putDir", "putList"}
      /\ t = Main => c.do \in {"ensureRoot", "putDir", "putList"} /\ c.path = Root
      /\ Wrote(c) /\ Read(c, cs) /\ Answer(c, cs)
  BY HeadIs DEF Called
<1>3. Root \in dirs => Root \in dirs'
  BY <1>2 DEF Wrote
<1>4. CASE t \in Worker
  <2>1. /\ thread[t] # Idle /\ Main \in Thread
        /\ \A u \in Thread : u # t => thread'[u] = thread[u]
    BY CalledKeeps DEF Thread
  <2>2. t # Main /\ thread[Main] = Idle
    BY <1>4, <2>1, WorkerIs
  <2>3. thread[Main].todo = << >> /\ thread'[Main].todo = << >>
    BY <2>1, <2>2, IdleIs
  <2>4. Root \in dirs'
    BY <1>1, <1>3, <2>3 DEF RootIsFirst
  <2> QED  BY <2>3, <2>4 DEF RootIsFirst
<1>5. CASE t = Main
  <2>1. /\ d \in Seq(AnyCall) /\ d # << >> /\ Scripted(d) /\ c \in AnyCall /\ Len(d) \in Nat \ {0}
        /\ cs # << >> => n # << >> /\ n[1] = cs[1]
        /\ cs = << >> /\ n # << >> => Len(d) >= 2 /\ n[1] = d[2]
    BY CalledGoes
  <2>2. \A q \in W : q \in V
    BY <1>5, ThreadAssumption, SightCall
  <2>3. Childless(Root, V) => Childless(Root, W)
    BY <2>2 DEF Childless
  <2>4. RootIsFirst(d, V, dirs)
    BY <1>1, <1>5
  <2>5. Len(d) >= 2 =>
          /\ c.do # "ensureRoot"
          /\ c.do = "putDir" => d[2] = Call("putList", c.path)
          /\ c.do = "putList" => d[2].do \notin {"putDir", "putList"}
    <3>1. Len(d) >= 2 =>
            /\ c.do # "ensureRoot"
            /\ c.do = "putDir" => d[2] = Call("putList", c.path)
            /\ c.do = "putList" => \/ d[2] \in {Call("addName", c.path), Call("dropName", c.path)}
                                   \/ d[2].do \in {"visitFile", "stillDir"}
      BY <2>1, SecondIs
    <3> QED  BY <3>1, CallGives
  <2>6. cs # << >> => c.do = "ensureRoot" /\ cs[1] = Call("putDir", Root) /\ Root \notin dirs
    <3> SUFFICES ASSUME cs # << >>
                 PROVE  c.do = "ensureRoot" /\ cs[1] = Call("putDir", Root) /\ Root \notin dirs
      OBVIOUS
    <3>1. c.do \in {"ensureRoot", "visitDir", "stillDir", "stillFile", "needNoFile", "needFile",
                    "visitFile", "walk", "addName", "dropName"}
          /\ (c.do = "ensureRoot" => cs[1] = Call("putDir", c.path))
      BY <1>2, <2>1, AnswerHead
    <3> QED  BY <1>2, <1>5, <3>1 DEF Read
  <2> HIDE DEF d, n, c
  <2>7. RootIsFirst(n, W, dirs')
    <3>1. CASE cs # << >>
      <4>1. n # << >> /\ n[1].do = "putDir"
        BY <2>1, <2>6, <3>1, CallGives
      <4>2. Childless(Root, V)
        BY <2>4, <2>6, <3>1 DEF RootIsFirst
      <4> QED  BY <2>3, <4>1, <4>2 DEF RootIsFirst
    <3>2. CASE cs = << >> /\ c.do = "ensureRoot"
      <4>1. Root \in dirs
        <5>1. MakeDir(Root) # << >>
          BY MakeDirIs
        <5> QED  BY <1>2, <3>2, <5>1 DEF Read
      <4>2. n = << >>
        BY <2>1, <2>5, <3>2
      <4> QED  BY <1>3, <4>1, <4>2 DEF RootIsFirst
    <3>3. CASE cs = << >> /\ c.do = "putDir"
      <4>1. Root \in dirs'
        BY <1>2, <1>5, <3>3 DEF Wrote
      <4>2. Childless(Root, W)
        BY <2>1, <2>3, <2>4, <3>3 DEF RootIsFirst, c
      <4> QED  BY <4>1, <4>2 DEF RootIsFirst
    <3>4. CASE cs = << >> /\ c.do = "putList"
      <4>1. Root \in dirs
        BY <2>4, <3>4 DEF RootIsFirst, c
      <4>2. n # << >> => n[1].do \notin {"putDir", "putList"}
        BY <2>1, <2>5, <3>4
      <4> QED  BY <1>3, <4>1, <4>2 DEF RootIsFirst
    <3> QED  BY <1>2, <1>5, <3>1, <3>2, <3>3, <3>4
  <2> QED  BY <1>5, <2>7 DEF n
<1> QED  BY <1>4, <1>5 DEF Thread

LEMMA SightCalled ==
  ASSUME Apart, ThreadInv, NEW T, Rooted(T), NEW V, V = Visible(T, dirs, file, children),
         SightToldIn(V, T, dirs, file, thread),
         NEW W, W = Visible(T, dirs', file', children'),
         NEW t \in Thread, NEW cs, Called(t, cs)
  PROVE  SightToldIn(W, T, dirs', file', thread')
<1>1. /\ \A q \in W : Open(Parent(q), W, dirs', file')
      /\ \A u \in Worker : thread'[u] # Idle => Placed(thread'[u], W, T, dirs', file')
  BY SightStays
<1>2. /\ thread[t] # Idle /\ thread'[t] # Idle
      /\ \A u \in Thread : u # t => thread'[u] = thread[u]
  BY CalledKeeps
<1>3. \A u \in Worker : thread'[u] # Idle => Proper(thread'[u])
  <2> SUFFICES ASSUME NEW u \in Worker, thread'[u] # Idle PROVE Proper(thread'[u])
    OBVIOUS
  <2>1. u \in Thread
    BY DEF Thread
  <2>2. thread[u] # Idle
    BY <1>2, <2>1
  <2>3. Proper(thread[u])
    BY <2>2 DEF SightToldIn
  <2>4. u = t => Proper(thread'[u])
    BY <2>3, ProperCalled
  <2> QED  BY <1>2, <2>1, <2>3, <2>4
<1>4. thread'[t].todo # << >> => SightFound(thread'[t], W, T, dirs', file')
  <2>1. CASE cs # << >>
    <3>1. /\ dirs' = dirs /\ file' = file /\ children' = children
          /\ SightFound(thread'[t], V, T, dirs, file)
      BY <2>1, SightAnswers
    <3> QED  BY <3>1
  <2>2. CASE cs = << >>
    BY <1>1, <1>2, <2>2, SightContinues
  <2> QED  BY <2>1, <2>2
<1>5. Hidden(thread'[t].todo, W, T, dirs')
  BY HiddenCalled
<1>6. ASSUME NEW u \in Thread
      PROVE  /\ thread'[u].todo # << >> => SightFound(thread'[u], W, T, dirs', file')
             /\ Hidden(thread'[u].todo, W, T, dirs')
  <2>1. CASE u = t
    BY <1>4, <1>5, <2>1
  <2>2. CASE u # t
    <3>1. /\ thread[u].todo # << >> => SightFound(thread[u], W, T, dirs', file')
          /\ Hidden(thread[u].todo, W, T, dirs')
      BY <2>2, SightElsewhere
    <3> QED  BY <1>2, <2>2, <3>1
  <2> QED  BY <2>1, <2>2
<1>7. RootIsFirst(thread'[Main].todo, W, dirs')
  BY RootCalled
<1> QED  BY <1>1, <1>3, <1>6, <1>7 DEF SightToldIn

\* A request that ends changes nothing of what can be seen.
LEMMA SightEnded ==
  ASSUME ThreadInv, NEW T, Rooted(T), NEW V, V = Visible(T, dirs, file, children),
         SightToldIn(V, T, dirs, file, thread),
         NEW t \in Thread, Ended(t)
  PROVE  SightToldIn(V, T, dirs, file, thread')
<1>1. \A u \in Thread : thread'[u] = IF u = t THEN Idle ELSE thread[u]
  BY TypesAre DEF ThreadInv, Ended
<1>2. \A u \in Worker : u \in Thread
  BY DEF Thread
<1>3. Idle.todo = << >> /\ \A d : d = << >> => Hidden(d, V, T, dirs)
  BY IdleIs DEF Hidden
<1>4. RootIsFirst(thread'[Main].todo, V, dirs)
  <2>1. t = Main => thread[Main].todo = << >>
    BY HeadIs DEF Ended, Busy
  <2>2. Main \in Thread
    BY DEF Thread
  <2>3. thread'[Main].todo = thread[Main].todo
    BY <1>1, <1>3, <2>1, <2>2
  <2> QED  BY <2>3 DEF SightToldIn
<1> QED  BY <1>1, <1>2, <1>3, <1>4 DEF SightToldIn

\* A request that a client makes is about what it sees.
LEMMA SightReceive ==
  ASSUME Sensible, ThreadInv, NEW T, Rooted(T), NEW V, V = Visible(T, dirs, file, children),
         SightToldIn(V, T, dirs, file, thread),
         NEW t \in Worker, NEW kind \in Requests, NEW p \in Path, Receive(t, kind, p)
  PROVE  SightToldIn(V, T, dirs, file, thread')
<1> DEFINE s == thread'[t]
           d == CallsOf(kind, p)
<1>1. /\ p # Root /\ UNCHANGED <<dirs, file, children, broken>>
      /\ s.kind = kind /\ s.path = p /\ s.todo = d
      /\ s.saw = [q \in Below(p) |-> Shown(q)]
      /\ \A u \in Thread : u # t => thread'[u] = thread[u]
  BY ReceiveIs
<1>2. t \in Thread /\ Main \in Thread /\ t # Main /\ \A u \in Worker : u \in Thread
  BY ThreadAssumption DEF Thread
<1>3. /\ d \in Seq(AnyCall) /\ d # << >> /\ \A i \in DOMAIN d : d[i].path = p
      /\ d[1].do \in {"needNoDir", "needDir", "needNoFile", "needFile"}
      /\ \A i \in DOMAIN d : d[i].do = "stillDir" => i > 1 /\ d[1].do = "needDir" /\ d[1].path = p
  BY <1>1, CallsAre
<1>4. /\ kind \in {"createDir", "uploadFile"} => \A i \in DOMAIN d : d[i].do \in Makes(kind)
      /\ kind \notin {"createDir", "uploadFile"} => \A i \in DOMAIN d : d[i].do \in Removes
  BY <1>1, CallsDo
<1>5. /\ Shown(Parent(p)) = "dir"
      /\ kind \in {"createDir", "uploadFile"} => Shown(p) = "none"
  BY DEF Receive
<1>6. \A q \in V : Open(Parent(q), V, dirs, file)
  BY DEF SightToldIn
<1> HIDE DEF s, d
<1>7. Proper(s)
  BY <1>1, <1>3, <1>4 DEF Proper
<1>8. Placed(s, V, T, dirs, file)
  <2>1. Parent(p) \in Path
    BY <1>1, PathType
  <2>2. Parent(p) \in T => Open(Parent(p), V, dirs, file)
    BY <1>5, <2>1, ShownVisible DEF Open
  <2>3. kind \in {"createDir", "uploadFile"} => p \notin V
    BY <1>1, <1>5, ShownVisible, VisibleIs
  <2>4. kind \in {"createDir", "uploadFile"} => Childless(p, V)
    BY <1>1, <1>6, <2>3 DEF Childless, Open
  <2> QED  BY <1>1, <2>2, <2>4 DEF Placed
<1>9. SightFound(s, V, T, dirs, file)
  BY <1>1, <1>3, SightFree
<1>10. Hidden(d, V, T, dirs)
  <2> SUFFICES ASSUME NEW i \in DOMAIN d, d[i].do = "stillDir"
               PROVE  /\ d[i].path \in T =>
                           d[i].path \in dirs \/ (d[1].do = "needDir" /\ d[1].path = d[i].path)
                      /\ \A q \in V : Parent(q) = d[i].path => \E j \in 1 .. i - 1 : Hides(d[j], q)
    BY DEF Hidden
  <2>1. i > 1 /\ d[1].do = "needDir" /\ d[1].path = p /\ d[i].path = p
    BY <1>3
  <2>2. 1 \in 1 .. i - 1
    BY <1>3, <2>1
  <2>3. \A q : Parent(q) = p => Hides(d[1], q)
    BY <2>1 DEF Hides, Deletes
  <2> QED  BY <2>1, <2>2, <2>3
<1>11. RootIsFirst(thread'[Main].todo, V, dirs)
  BY <1>1, <1>2 DEF SightToldIn
<1>12. ASSUME NEW u \in Thread
       PROVE  /\ u \in Worker /\ thread'[u] # Idle => Proper(thread'[u]) /\ Placed(thread'[u], V, T, dirs, file)
              /\ thread'[u].todo # << >> => SightFound(thread'[u], V, T, dirs, file)
              /\ Hidden(thread'[u].todo, V, T, dirs)
  <2>1. CASE u = t
    BY <1>1, <1>7, <1>8, <1>9, <1>10, <2>1 DEF s
  <2>2. CASE u # t
    <3>1. thread'[u] = thread[u]
      BY <1>1, <2>2
    <3> QED  BY <3>1 DEF SightToldIn
  <2> QED  BY <2>1, <2>2
<1> QED  BY <1>2, <1>6, <1>11, <1>12 DEF SightToldIn

\* The process starts: nothing is in flight.
LEMMA SightStarted ==
  ASSUME NEW T, NEW V, NEW D, NEW F, \A q \in V : Open(Parent(q), V, D, F), Root \notin D => Childless(Root, V)
  PROVE  SightToldIn(V, T, D, F, Started)
<1>1. \A u \in Worker : Started[u] = Idle
  BY ThreadAssumption DEF Started, Thread
<1>2. /\ \A u \in Thread : Started[u].todo = << >> \/ Started[u].todo = <<Call("ensureRoot", Root)>>
      /\ Started[Main].todo = <<Call("ensureRoot", Root)>>
  BY IdleIs DEF Started, Thread
<1>3. ASSUME NEW s, s.todo = <<Call("ensureRoot", Root)>>
      PROVE  SightFound(s, V, T, D, F) /\ Hidden(s.todo, V, T, D)
  <2>1. DOMAIN s.todo = {1} /\ s.todo[1] = Call("ensureRoot", Root)
    BY <1>3
  <2>2. s.todo[1].do = "ensureRoot"
    BY <2>1, CallGives
  <2>3. SightFound(s, V, T, D, F)
    BY <2>2, SightFree
  <2>4. Hidden(s.todo, V, T, D)
    BY <2>1, <2>2 DEF Hidden
  <2> QED  BY <2>3, <2>4
<1>4. \A d : d = << >> => Hidden(d, V, T, D)
  BY DEF Hidden
<1>5. RootIsFirst(<<Call("ensureRoot", Root)>>, V, D)
  <2> DEFINE d == <<Call("ensureRoot", Root)>>
  <2>1. d # << >> /\ d[1].do = "ensureRoot"
    BY CallGives
  <2> HIDE DEF d
  <2>2. RootIsFirst(d, V, D)
    BY <2>1 DEF RootIsFirst
  <2> QED  BY <2>2 DEF d
<1> QED  BY <1>1, <1>2, <1>3, <1>4, <1>5 DEF SightToldIn

\* When more calls may take effect late, there is less to say.
LEMMA SightShrinks ==
  ASSUME NEW T, NEW S, Rooted(S), S \subseteq T, NEW V, V \subseteq T \ {Root},
         NEW D, NEW F, NEW th, SightToldIn(V, T, D, F, th)
  PROVE  SightToldIn(V \cap S, S, D, F, th)
<1> DEFINE X == V \cap S
<1>1. X \subseteq V /\ X \subseteq S /\ \A q \in V : q \in S => q \in X
  OBVIOUS
<1>2. \A q \in X : q \in V /\ q \in S /\ q # Root
  OBVIOUS
<1> HIDE DEF X
<1>3. \A x : Childless(x, V) => Childless(x, X)
  BY <1>1 DEF Childless
<1>4. \A x \in S : Open(x, V, D, F) => Open(x, X, D, F)
  BY <1>1 DEF Open
<1>5. \A q \in X : Open(Parent(q), X, D, F)
  <2> SUFFICES ASSUME NEW q \in X PROVE Open(Parent(q), X, D, F)
    OBVIOUS
  <2>1. Open(Parent(q), V, D, F)
    BY <1>1 DEF SightToldIn
  <2>2. Parent(q) \in S
    BY <1>2, RootedParent
  <2> QED  BY <1>4, <2>1, <2>2
<1>6. ASSUME NEW r, Placed(r, V, T, D, F) PROVE Placed(r, X, S, D, F)
  BY <1>3, <1>4, <1>6 DEF Placed
<1>7. ASSUME NEW r, SightFound(r, V, T, D, F) PROVE SightFound(r, X, S, D, F)
  BY <1>1, <1>3, <1>7 DEF SightFound
<1>8. ASSUME NEW d, Hidden(d, V, T, D) PROVE Hidden(d, X, S, D)
  BY <1>1, <1>8 DEF Hidden
<1>9. RootIsFirst(th[Main].todo, X, D)
  BY <1>3 DEF SightToldIn, RootIsFirst
<1>10. SightToldIn(X, S, D, F, th)
  BY <1>5, <1>6, <1>7, <1>8, <1>9 DEF SightToldIn
<1> QED  BY <1>10 DEF X

\* Only what the paths in T have in the store matters.
LEMMA SightAgrees ==
  ASSUME NEW T, NEW V, V \subseteq T, NEW D, NEW F, NEW G, NEW H, NEW th,
         \A q \in T : (q \in D <=> q \in G) /\ F[q] = H[q], Root \in D => Root \in G,
         SightToldIn(V, T, D, F, th)
  PROVE  SightToldIn(V, T, G, H, th)
<1>1. \A x : Open(x, V, D, F) => Open(x, V, G, H)
  BY DEF Open
<1>2. \A q \in T : Exists(q, G, H) <=> Exists(q, D, F)
  BY DEF Exists
<1>3. ASSUME NEW r, Placed(r, V, T, D, F) PROVE Placed(r, V, T, G, H)
  BY <1>1, <1>3 DEF Placed
<1>4. ASSUME NEW r, SightFound(r, V, T, D, F) PROVE SightFound(r, V, T, G, H)
  BY <1>2, <1>4 DEF SightFound
<1>5. ASSUME NEW d, Hidden(d, V, T, D) PROVE Hidden(d, V, T, G)
  BY <1>5 DEF Hidden
<1>6. RootIsFirst(th[Main].todo, V, G)
  BY DEF SightToldIn, RootIsFirst
<1> QED  BY <1>1, <1>3, <1>4, <1>5, <1>6 DEF SightToldIn

\* A call that takes effect late changes nothing of the paths that are spared.
LEMMA SightLands ==
  ASSUME ThreadInv, NEW T, T = Spared(late), NEW V, V = Visible(T, dirs, file, children),
         SightToldIn(V, T, dirs, file, thread), NEW c \in late, Land(c)
  PROVE  Visible(T, dirs', file', children') = V /\ SightToldIn(V, T, dirs', file', thread')
<1>1. /\ c \in AnyCall /\ c.path \in Path /\ (c.path = Root => c.do # "clearDir")
      /\ late \subseteq AnyCall
  BY DEF ThreadInv, DriveTypes, AnyCall
<1>2. Rooted(T)
  <2>1. \A k \in late : k.path \in Path
    BY <1>1 DEF AnyCall
  <2> QED  BY <2>1, SparedIs
<1>3. DOMAIN file = Path /\ DOMAIN children = Path
  BY TypesAre DEF ThreadInv, StoreTypes
<1>4. ASSUME c.do \in Puts, NEW q \in T PROVE q # c.path /\ (q # Root => Parent(q) # c.path)
  <2>1. q \in Path /\ ~IsPrefix(c.path, q)
    BY <1>4 DEF Spared
  <2> QED  BY <2>1, PrefixSelf, ParentAbove
<1>5. CASE UNCHANGED <<dirs, file, children>>
  BY <1>5 DEF Land
<1>6. CASE c.do \in Puts /\ \A q \in Path : q # c.path => /\ q \in dirs <=> q \in dirs'
                                                        /\ file[q] = file'[q]
                                                        /\ children[q] = children'[q]
  <2>1. \A q \in T : (q \in dirs <=> q \in dirs') /\ file[q] = file'[q]
    BY <1>2, <1>4, <1>6 DEF Rooted
  <2>2. \A q \in T : q # Root => children[Parent(q)] = children'[Parent(q)]
    BY <1>2, <1>4, <1>6, PathType DEF Rooted
  <2>3. Visible(T, dirs', file', children') = V
    BY <2>1, <2>2 DEF Visible, Exists
  <2>4. Root \in dirs => Root \in dirs'
    <3>1. \/ dirs' = dirs \/ dirs' = dirs \cup {c.path}
          \/ c.do = "clearDir" /\ dirs' = dirs \ {c.path}
      BY DEF Land, storeVars
    <3> QED  BY <1>1, <3>1
  <2>5. V \subseteq T /\ UNCHANGED thread
    BY <1>2, VisibleIs DEF Land
  <2>6. SightToldIn(V, T, dirs', file', thread)
    BY <2>1, <2>4, <2>5, SightAgrees
  <2> QED  BY <2>3, <2>5, <2>6
<1>7. CASE c.do \in {"putDir", "clearDir"} /\ dirs' \in {dirs \cup {c.path}, dirs \ {c.path}}
           /\ UNCHANGED <<file, children>>
  BY <1>6, <1>7 DEF Puts
<1>8. CASE c.do \in {"putFile", "clearFile"} /\ (\E o : file' = [file EXCEPT ![c.path] = o])
           /\ UNCHANGED <<dirs, children>>
  BY <1>3, <1>6, <1>8 DEF Puts
<1>9. CASE c.do = "putList" /\ children' = [children EXCEPT ![c.path] = c.list]
           /\ UNCHANGED <<dirs, file>>
  BY <1>3, <1>6, <1>9 DEF Puts
<1> QED  BY <1>5, <1>7, <1>8, <1>9 DEF Land, storeVars

LEMMA SightInvStart == ASSUME Init PROVE SightInv
<1>1. ThreadInv
  BY ThreadInvStart
<1>2. thread = Started /\ dirs = {} /\ file = [q \in Path |-> NoFile]
  BY DEF Init, Started
<1> DEFINE T == Spared(late)
<1>3. Visible(T, dirs, file, children) = {}
  BY <1>2 DEF Visible, Exists, Spared
<1> HIDE DEF T
<1>4. SightToldIn({}, T, dirs, file, Started)
  BY SightStarted DEF Childless
<1> QED  BY <1>1, <1>2, <1>3, <1>4, SightIs DEF T

\* Nothing that may take effect late is ever done with.
LEMMA LateStays == ASSUME [Next]_vars PROVE late \subseteq late'
<1>1. ASSUME NEW t \in Thread, Step(t) PROVE late \subseteq late'
  <2>1. late' = late \/ late' = late \cup {This(t)}
    BY <1>1, StepLeaves
  <2> QED  BY <2>1
<1>2. CASE UNCHANGED vars
  BY <1>2 DEF vars
<1>3. ASSUME NEW t \in Worker, NEW kind \in Requests, NEW p \in Path, Receive(t, kind, p)
      PROVE  late \subseteq late'
  BY <1>3 DEF Receive
<1>4. ASSUME NEW c \in late, Land(c) PROVE late \subseteq late'
  BY <1>4 DEF Land
<1>5. CASE Restart
  BY <1>5 DEF Restart
<1> QED  BY <1>1, <1>2, <1>3, <1>4, <1>5 DEF Next

\* A step calls the store, or leaves what can be seen of it alone.
LEMMA SightStep ==
  ASSUME Apart, Sensible, "silent" \notin Faults, SightInv, [Next]_vars
  PROVE  /\ SightInv'
         /\ \/ \E t \in Thread : \E cs : Called(t, cs)
            \/ Visible(Spared(late), dirs', file', children') = Visible(Spared(late), dirs, file, children)
<1> DEFINE T == Spared(late)
           S == Spared(late')
           V == Visible(T, dirs, file, children)
           W == Visible(T, dirs', file', children')
           Goal == SightToldIn(W, T, dirs', file', thread') /\ ((\E t \in Thread : \E cs : Called(t, cs)) \/ W = V)
<1>1. ThreadInv /\ ThreadInv' /\ SightToldIn(V, T, dirs, file, thread)
  BY SightIs, ThreadInvStep
<1>2. Rooted(T) /\ Rooted(S) /\ S \subseteq T
  <2>1. /\ \A c \in late : c.path \in Path
        /\ \A c \in late' : c.path \in Path
    BY <1>1 DEF ThreadInv, DriveTypes, AnyCall
  <2>2. S \subseteq T
    BY LateStays DEF Spared
  <2> QED  BY <2>1, <2>2, SparedIs
<1>3. Goal => /\ SightInv'
              /\ (\E t \in Thread : \E cs : Called(t, cs)) \/ W = V
  <2> SUFFICES ASSUME Goal PROVE SightInv'
    OBVIOUS
  <2>1. W \subseteq T \ {Root}
    BY <1>2, VisibleIs
  <2>2. W \cap S = Visible(S, dirs', file', children')
    BY <1>2 DEF Visible
  <2>3. SightToldIn(W \cap S, S, dirs', file', thread')
    BY <1>2, <2>1, SightShrinks
  <2> QED  BY <1>1, <2>2, <2>3, SightIs
<1> SUFFICES Goal
  BY <1>3
<1>4. V = Visible(T, dirs, file, children) /\ W = Visible(T, dirs', file', children')
  OBVIOUS
<1>5. UNCHANGED <<dirs, file, children>> => W = V
  OBVIOUS
<1>6. T = Spared(late)
  OBVIOUS
<1> HIDE DEF T, S, V, W
<1>7. UNCHANGED <<dirs, file, children>> /\ SightToldIn(V, T, dirs, file, thread') => Goal
  BY <1>5
<1>8. CASE UNCHANGED vars
  <2>1. UNCHANGED <<dirs, file, children>> /\ thread' = thread
    BY <1>8 DEF vars, storeVars
  <2> QED  BY <1>1, <1>7, <2>1
<1>9. ASSUME NEW t \in Thread, Step(t) PROVE Goal
  <2>1. Ended(t) \/ \E cs : Called(t, cs)
    BY <1>1, <1>9, StepIs DEF Answered
  <2>2. CASE Ended(t)
    <3>1. UNCHANGED <<dirs, file, children>>
      BY <2>2 DEF Ended
    <3>2. SightToldIn(V, T, dirs, file, thread')
      BY <1>1, <1>2, <1>4, <2>2, SightEnded
    <3> QED  BY <1>7, <3>1, <3>2
  <2>3. ASSUME NEW cs, Called(t, cs) PROVE Goal
    <3>1. SightToldIn(W, T, dirs', file', thread')
      BY <1>1, <1>2, <1>4, <2>3, SightCalled
    <3> QED  BY <2>3, <3>1
  <2> QED  BY <2>1, <2>2, <2>3
<1>10. ASSUME NEW t \in Worker, NEW kind \in Requests, NEW p \in Path, Receive(t, kind, p)
       PROVE  Goal
  <2>1. UNCHANGED <<dirs, file, children>>
    BY <1>10 DEF Receive, storeVars
  <2>2. SightToldIn(V, T, dirs, file, thread')
    BY <1>1, <1>2, <1>4, <1>10, SightReceive
  <2> QED  BY <1>7, <2>1, <2>2
<1>11. CASE Restart
  <2>1. thread' = Started /\ UNCHANGED <<dirs, file, children>>
    BY <1>11 DEF Restart, storeVars, Started
  <2>2. /\ \A q \in V : Open(Parent(q), V, dirs, file)
        /\ Root \notin dirs => Childless(Root, V)
    BY <1>1 DEF SightToldIn, RootIsFirst
  <2>3. SightToldIn(V, T, dirs, file, Started)
    BY <2>2, SightStarted
  <2> QED  BY <1>7, <2>1, <2>3
<1>12. ASSUME NEW c \in late, Land(c) PROVE Goal
  <2>1. W = V /\ SightToldIn(V, T, dirs', file', thread')
    BY <1>1, <1>4, <1>6, <1>12, SightLands
  <2> QED  BY <2>1
<1> QED  BY <1>8, <1>9, <1>10, <1>11, <1>12 DEF Next

LEMMA SightGoes ==
  ASSUME Apart, Sensible, "silent" \notin Faults, SightInv, [Next]_vars, NEW p \in Path \ {Root},
         Shown(p) # "none", Shown(p)' = "none"
  PROVE  \/ \E t \in Worker : /\ thread[t].kind \in {"deleteDir", "deleteFile"}
                              /\ IsPrefix(thread[t].path, p)
         \/ \E c \in late : c.do \in Puts /\ IsPrefix(c.path, p)
<1> DEFINE T == Spared(late)
           V == Visible(T, dirs, file, children)
           W == Visible(T, dirs', file', children')
<1> SUFFICES ASSUME p \in T
             PROVE  \E t \in Worker : /\ thread[t].kind \in {"deleteDir", "deleteFile"}
                                      /\ IsPrefix(thread[t].path, p)
  BY DEF Spared
<1>1. p \in V /\ p \notin W
  BY ShownVisible
<1>2. PICK t \in Thread : \E cs : Called(t, cs)
  BY <1>1, SightStep
<1>3. ThreadInv /\ SightToldIn(V, T, dirs, file, thread)
  BY SightIs
<1>4. Rooted(T)
  <2>1. \A c \in late : c.path \in Path
    BY <1>3 DEF ThreadInv, DriveTypes, AnyCall
  <2> QED  BY <2>1, SparedIs
<1>5. V = Visible(T, dirs, file, children) /\ W = Visible(T, dirs', file', children')
  OBVIOUS
<1> HIDE DEF T, V, W
<1>6. PICK cs : Called(t, cs)
  BY <1>2
<1>7. t \in Worker /\ thread[t].kind \in {"deleteDir", "deleteFile"} /\ IsPrefix(thread[t].path, p)
  BY <1>1, <1>3, <1>4, <1>5, <1>6, SightCall
<1> QED  BY <1>7

\* When requests in flight touch different keys, clients create new names in directories
\* that they see, and the store answers, nothing that a client can see goes away unless
\* a request to delete it, or what it is in, is in flight, or a put that was left behind is
\* at or above it: not for requests that failed, or that the restart of the process cut
\* short, and that left the lists and what they name in disagreement; and what the puts that
\* they had sent do when they take effect, at any later time, stays at and below their paths.
THEOREM OnlyDeletionsHide ==
  ASSUME Apart, Sensible, "silent" \notin Faults PROVE Spec => NothingVanishes
<1>1. Init => SightInv
  BY SightInvStart
<1>2. SightInv /\ [Next]_vars => SightInv'
  BY SightStep
<1>3. SightInv /\ [Next]_vars =>
        [\A p \in Path \ {Root} :
           Shown(p) # "none" /\ Shown(p)' = "none" =>
             \/ \E t \in Worker : /\ thread[t].kind \in {"deleteDir", "deleteFile"}
                                  /\ IsPrefix(thread[t].path, p)
             \/ \E c \in late : c.do \in Puts /\ IsPrefix(c.path, p)]_vars
  BY SightGoes
<1> QED  BY <1>1, <1>2, <1>3, PTL DEF Spec, NothingVanishes
=============================================================================
