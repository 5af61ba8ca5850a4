--------------------------- MODULE DriveInductive ---------------------------
(***************************************************************************)
(* The facts, true in every reachable state and kept by every step, that   *)
(* what DriveSafety says of the store and the bucket follows from.         *)
(***************************************************************************)
EXTENDS DriveSafety

-----------------------------------------------------------------------------
(* What threads hold.                                                      *)

Doing == {"ensureRoot", "needNoDir", "putDir", "putList", "addName", "dropName",
          "needNoFile", "putObject", "putFile", "needFile", "dropObject", "stillFile",
          "clearFile", "needDir", "walk", "stillDir", "clearDir", "visitFile", "visitDir"}

KeysOf(p) == {p} \X (Nat \ {0})
NameChildren(p, names) == \A i \in DOMAIN names : Append(p, names[i]) \in Path

\* Only ensureRoot and lists are about the root.
AnyCall ==
  {c \in [do : Doing, path : Path, list : Seq(Names),
          object : {NoFile} \cup Path \X (Nat \ {0})] :
     /\ c.object # NoFile => c.object \in KeysOf(c.path)
     /\ c.do \in {"putObject", "putFile"} => c.object # NoFile
     /\ c.path = Root => c.do \in {"ensureRoot", "putDir", "putList"}
     /\ c.do = "ensureRoot" => c.path = Root
     /\ NameChildren(c.path, c.list)}

Seen == {<< >>} \cup UNION {[Below(p) -> {"dir", "file", "none"}] : p \in Path}

ThreadState ==
  [kind : Requests \cup {"idle", "boot"}, path : Path, todo : Seq(AnyCall), saw : Seen]

DriveTypes ==
  /\ TypeOK
  /\ DOMAIN file = Path /\ IsFiniteSet(objects)
  /\ \A p \in Path : NameChildren(p, children[p])
  /\ thread \in [Thread -> ThreadState]
  /\ late \subseteq {c \in AnyCall : c.do \in Writes} /\ IsFiniteSet(late)
  /\ late # {} => broken

-----------------------------------------------------------------------------
(* The list of calls a thread has still to make.                           *)

\* The list d begins with the calls of f; then come only those that an enclosing
\* deleteDir has still to make.
Begins(d, f) == Len(f) <= Len(d) /\ \A i \in DOMAIN f : d[i] = f[i]
Queued(d, n) == \A i \in DOMAIN d : i > n => d[i].do \in {"visitFile", "stillDir"}

Continues(d, f) == Begins(d, f) /\ Queued(d, Len(f))
Ends(d, f) == Begins(d, f) /\ Len(d) = Len(f)

Scripted(d) ==
  LET c == d[1]  p == d[1].path  o == d[1].object
  IN d # << >> =>
       /\ c.do = "ensureRoot" => Ends(d, <<c>>)
       /\ c.do = "needNoDir" => Ends(d, CreateDir(p))
       /\ c.do = "putDir" => Ends(d, MakeDir(p))
       /\ c.do = "addName" => Ends(d, <<c>>)
       /\ c.do = "needNoFile" => Ends(d, <<c>>)
       /\ c.do = "putObject" => Ends(d, Store(p, o))
       /\ c.do = "putFile" => Ends(d, <<c, Call("addName", p)>>)
       /\ c.do = "putList" => \/ c.list = << >> /\ Ends(d, <<c, Call("addName", p)>>)
                              \/ c.list = << >> /\ Continues(d, <<c, Call("dropName", p)>>)
                              \/ Continues(d, <<c>>)
       /\ c.do \in {"needFile", "dropObject"} => Continues(d, <<c, Call("stillFile", p)>>)
       /\ c.do = "clearFile" => Continues(d, <<c, Call("dropName", p)>>)
       /\ c.do = "needDir" => Continues(d, DeleteDir(p))
       /\ c.do = "walk" => Continues(d, <<c, Call("stillDir", p)>>)
       /\ c.do = "clearDir" => Continues(d, <<c, Call("putList", p), Call("dropName", p)>>)
       /\ c.do \in {"stillFile", "stillDir", "visitFile", "visitDir", "dropName"} =>
            Continues(d, <<c>>)

\* A request for path p touches what is below p, and the list p is in.
Within(p, c) == IsPrefix(p, c.path) \/ (c.do = "putList" /\ c.path = Parent(p))

\* A directory is emptied from below.
Nested(d) ==
  \A i \in DOMAIN d : \A j \in 1 .. i - 1 :
    d[i].do = "stillDir" =>
      /\ IsPrefix(d[i].path, d[j].path)
      /\ d[i].path = d[j].path => d[j].do \in {"needDir", "walk", "putList"}

\* What the thread r is to do.
Orderly(r) ==
  /\ Scripted(r.todo) /\ Nested(r.todo)
  /\ \A i \in DOMAIN r.todo : Within(r.path, r.todo[i])
  /\ r.kind = "idle" => r = Idle

ThreadsAreScripted ==
  /\ \A t \in Thread : Orderly(thread[t])
  /\ \A t \in Worker : thread[t] # Idle => thread[t].path # Root
  /\ thread[Main] # Idle =>
       /\ thread[Main].path = Root /\ \A t \in Worker : thread[t] = Idle
       /\ \A i \in DOMAIN thread[Main].todo : thread[Main].todo[i].path = Root
  /\ Apart => \A t, u \in Worker :
       t # u /\ thread[t] # Idle /\ thread[u] # Idle => AreApart(thread[t].path, thread[u].path)

ThreadInv == DriveTypes /\ ThreadsAreScripted

-----------------------------------------------------------------------------
(* The bucket.                                                             *)

\* What the first call of each thread finds.
BucketFound(c) ==
  /\ c.do = "putObject" => file[c.path] = NoFile /\ c.object \notin objects
  /\ c.do = "putFile" => file[c.path] = NoFile /\ c.object \in objects
  /\ c.do = "dropObject" => file[c.path] = c.object /\ c.object # NoFile
  /\ c.do \in {"stillFile", "clearFile"} => file[c.path] \notin objects \cup {NoFile}

BucketIsTold ==
  /\ \A t \in Thread : thread[t].todo # << >> => BucketFound(thread[t].todo[1])
  /\ \A p \in Path : file[p] \notin objects \cup {NoFile} =>
       \E t \in Thread : /\ thread[t].todo # << >>
                         /\ thread[t].todo[1].do \in {"stillFile", "clearFile"}
                         /\ thread[t].todo[1].path = p
  /\ \A o \in objects : \/ \E p \in Path : file[p] = o
                        \/ \E t \in Thread : /\ thread[t].todo # << >>
                                             /\ thread[t].todo[1].do = "putFile"
                                             /\ thread[t].todo[1].object = o

BucketInv == ThreadInv /\ (~broken => BucketIsTold)

-----------------------------------------------------------------------------
(* The lists.                                                              *)

\* With the directories D and the files F in the store.
Exists(q, D, F) == q # Root /\ (q \in D \/ F[q] # NoFile)
ChildrenOf(p, D, F) == {q \in Path \ {Root} : Exists(q, D, F) /\ Parent(q) = p}

\* A thread that has d to do has begun to add q to its parent's list.
Listing(d, q) ==
  /\ d # << >>
  /\ \/ d[1].do = "addName" /\ d[1].path = q
     \/ d[1].do = "putList" /\ d[1].path = q /\ Len(d) > 1 /\ d[2].do = "addName"
     \/ d[1].do = "putList" /\ d[1].path = Parent(q) /\ Name(q) \in ToSet(d[1].list)

\* What the first call of each thread finds.
ListFound(d, D, F) ==
  LET c == d[1]  p == d[1].path
  IN /\ c.do \in {"needNoDir", "putDir", "needNoFile", "putObject", "putFile"} /\ p # Root =>
          ~Exists(p, D, F) /\ Parent(p) \in D
     /\ c.do \in {"putDir", "clearDir"} => ChildrenOf(p, D, F) = {}
     /\ c.do = "putDir" => p \notin D
     /\ c.do = "putList" => \A q \in ChildrenOf(p, D, F) : Name(q) \in ToSet(c.list)
     /\ c.do \in {"dropObject", "stillFile", "clearFile"} => F[p] # NoFile
     /\ c.do = "visitDir" => F[p] = NoFile
     /\ c.do \in {"walk", "clearDir"} => p \in D
     /\ c.do = "dropName" => ~Exists(p, D, F)
     /\ c.do = "putList" /\ Len(d) > 1 /\ d[2].do = "dropName" => ~Exists(d[2].path, D, F)

\* The call c sees to the deletion of q, if there is anything to delete.
Deletes(c, q) ==
  \/ /\ c.path = q
     /\ c.do \in {"visitFile", "visitDir", "needFile", "dropObject", "stillFile", "clearFile",
                  "needDir", "walk", "stillDir", "clearDir"}
  \/ c.path = Parent(q) /\ c.do \in {"needDir", "walk"}

\* Before a directory is deleted, all that is in it is.
Emptied(d, D, F) ==
  \A i \in DOMAIN d : d[i].do = "stillDir" =>
    /\ d[i].path \in D \/ (d[1].do = "needDir" /\ d[1].path = d[i].path)
    /\ \A q \in ChildrenOf(d[i].path, D, F) : \E j \in 1 .. i - 1 : Deletes(d[j], q)

\* The root is there, once main has seen to it.
RootIsMade(d, D, F) ==
  /\ Root \in D \/ (d # << >> /\ d[1].do \in {"ensureRoot", "putDir"})
  /\ d # << >> /\ d[1].do = "putList" => ChildrenOf(Root, D, F) = {}

\* With the lists C, and the threads th.
ListsToldIn(D, F, C, th) ==
  /\ F[Root] = NoFile /\ \A p \in D : F[p] = NoFile
  /\ \A q \in Path : Exists(q, D, F) => Parent(q) \in D
  /\ \A q \in Path : Exists(q, D, F) =>
       Name(q) \in ToSet(C[Parent(q)]) \/ \E t \in Thread : Listing(th[t].todo, q)
  /\ \A t \in Thread : th[t].todo # << >> => ListFound(th[t].todo, D, F)
  /\ \A t \in Thread : Emptied(th[t].todo, D, F)
  /\ RootIsMade(th[Main].todo, D, F)

ListsAreTold == ListsToldIn(dirs, file, children, thread)

ListInv == ThreadInv /\ (~broken => ListsAreTold)

-----------------------------------------------------------------------------
(* What each request has done of its effect.                               *)

\* What exists is in its parent's list, but for what a request in flight is about.
OthersAreListed(D, F, C) ==
  \A q \in Path : Exists(q, D, F) /\ InFlight(q) = {} => Name(q) \in ToSet(C[Parent(q)])

\* The calls of a createDir or uploadFile, and of a deletion.
Makes(kind) ==
  {"addName", "putList"} \cup IF kind = "createDir" THEN {"needNoDir", "putDir"}
                              ELSE {"needNoFile", "putObject", "putFile"}
Removes ==
  {"needFile", "dropObject", "stillFile", "clearFile", "dropName", "putList",
   "needDir", "walk", "stillDir", "clearDir", "visitFile", "visitDir"}

\* The client saw nothing at or below the new path, and nothing is below it; the new
\* directory or file is there before it is listed.
Created(r, D, F) ==
  LET p == r.path  d == r.todo
  IN /\ r.saw[p] = "none"
     /\ \A i \in DOMAIN d : /\ d[i].do \in Makes(r.kind)
                            /\ d[i].path = p \/ (d[i].do = "putList" /\ d[i].path = Parent(p))
     /\ \A q \in Below(p) \ {p} : ~Exists(q, D, F)
     /\ d = << >> \/ d[1].do \in {"addName", "putList"} =>
          IF r.kind = "createDir" THEN p \in D ELSE F[p] # NoFile

\* What is still there is what the client saw; the path itself goes last, and some
\* call sees to it as long as it is there.
Removed(r, D, F) ==
  LET p == r.path  d == r.todo
  IN /\ \A i \in DOMAIN d : d[i].do \in Removes
     /\ \A q \in Below(p) : /\ q \in D => r.saw[q] = "dir"
                            /\ F[q] # NoFile => r.saw[q] = "file"
     /\ Exists(p, D, F) => \E i \in DOMAIN d : Deletes(d[i], p)
     /\ \/ r.saw[p] = "none" \/ Exists(p, D, F)
        \/ \A i \in DOMAIN d : d[i].do \in {"dropName", "putList"}
     /\ \A i \in DOMAIN d : d[i].do = "visitFile" =>
          \E j \in DOMAIN d : j > i /\ d[j].do = "stillDir"

Effect(r, D, F) ==
  /\ DOMAIN r.saw = Below(r.path)
  /\ r.saw[r.path] = "none" => \A q \in Below(r.path) : r.saw[q] = "none"
  /\ IF r.kind \in {"createDir", "uploadFile"} THEN Created(r, D, F) ELSE Removed(r, D, F)

EffectsAreTold ==
  /\ OthersAreListed(dirs, file, children)
  /\ \A t \in Worker : thread[t] # Idle => Effect(thread[t], dirs, file)

TreeInv == ListInv /\ (~broken => EffectsAreTold)

-----------------------------------------------------------------------------
(* What clients see, whatever requests that were cut short have left.      *)

\* The paths that the calls in S, which take effect some time, cannot harm: none of
\* them is a put at or above the path.
Spared(S) == {q \in Path : \A c \in S : c.do \in Puts => ~IsPrefix(c.path, q)}

\* What can be seen of the paths T, with the directories D, the files F and the lists C.
Visible(T, D, F, C) == {q \in T : Exists(q, D, F) /\ Name(q) \in ToSet(C[Parent(q)])}

\* When V is what can be seen: p is a directory for clients, or has nothing in it.
Open(p, V, D, F) == p = Root \/ (p \in V /\ p \in D /\ F[p] = NoFile)
Childless(p, V) == \A q \in V : Parent(q) # p

\* A request, as the calls it still makes tell.
Proper(r) ==
  /\ r.kind \in Requests
  /\ IF r.kind \in {"createDir", "uploadFile"}
     THEN \A i \in DOMAIN r.todo :
            /\ r.todo[i].do \in Makes(r.kind)
            /\ \/ r.todo[i].path = r.path
               \/ r.todo[i].do = "putList" /\ r.todo[i].path = Parent(r.path)
     ELSE \A i \in DOMAIN r.todo : r.todo[i].do \in Removes

\* A request is for a path in a directory; a new path has nothing in it.
Placed(r, V, T, D, F) ==
  /\ Parent(r.path) \in T => Open(Parent(r.path), V, D, F)
  /\ r.kind \in {"createDir", "uploadFile"} => Childless(r.path, V)

\* What the first call of the thread r finds: what it hides, and what a list that is
\* written back hides or shows.
SightFound(r, V, T, D, F) ==
  LET d == r.todo  c == d[1]  p == c.path
  IN /\ p \in T /\ c.do \in {"dropObject", "stillFile", "clearFile"} => F[p] # NoFile
     /\ p \in T /\ c.do = "visitDir" => F[p] = NoFile
     /\ c.do \in {"clearFile", "clearDir", "dropName"} => Childless(p, V)
     /\ c.do = "putList" /\ Len(d) > 1 /\ d[2].do = "dropName" => Childless(d[2].path, V)
     /\ c.do = "putList" => \A q \in T : Parent(q) = p =>
          /\ q \in V /\ Name(q) \notin ToSet(c.list) =>
               r.kind \in {"deleteDir", "deleteFile"} /\ IsPrefix(r.path, q) /\ Childless(q, V)
          /\ Exists(q, D, F) /\ Name(q) \in ToSet(c.list) =>
               q \in V \/ (q = r.path /\ r.kind \in {"createDir", "uploadFile"})

\* The call c sees to it that q is not seen any more.
Hides(c, q) ==
  \/ Deletes(c, q)
  \/ c.do = "dropName" /\ c.path = q
  \/ c.do = "putList" /\ c.path = Parent(q) /\ Name(q) \notin ToSet(c.list)

\* Before a directory is deleted, nothing in it can be seen.
Hidden(d, V, T, D) ==
  \A i \in DOMAIN d : d[i].do = "stillDir" =>
    /\ d[i].path \in T => d[i].path \in D \/ (d[1].do = "needDir" /\ d[1].path = d[i].path)
    /\ \A q \in V : Parent(q) = d[i].path => \E j \in 1 .. i - 1 : Hides(d[j], q)

\* Before the root is made, nothing can be seen at all.
RootIsFirst(d, V, D) ==
  /\ Root \in D \/ (d # << >> /\ d[1].do \in {"ensureRoot", "putDir"})
  /\ Root \notin D \/ (d # << >> /\ d[1].do \in {"putDir", "putList"}) => Childless(Root, V)

SightToldIn(V, T, D, F, th) ==
  /\ \A q \in V : Open(Parent(q), V, D, F)
  /\ \A t \in Worker : th[t] # Idle => Proper(th[t]) /\ Placed(th[t], V, T, D, F)
  /\ \A t \in Thread : th[t].todo # << >> => SightFound(th[t], V, T, D, F)
  /\ \A t \in Thread : Hidden(th[t].todo, V, T, D)
  /\ RootIsFirst(th[Main].todo, V, D)

SightInv ==
  /\ ThreadInv
  /\ LET T == Spared(late)
     IN SightToldIn(Visible(T, dirs, file, children), T, dirs, file, thread)
=============================================================================
