------------------------------- MODULE Drive -------------------------------
(***************************************************************************)
(* The file system of raftdrive: FileSystemService (service_fs.cpp), which *)
(* spreads every request over MetadataService (service_metadata.cpp), that *)
(* is gets and puts of the key-value store, and StorageService, that is    *)
(* calls to S3.  main() serves HTTP requests with many threads.            *)
(*                                                                         *)
(* A thread is the list of calls it has still to make.  One action is one  *)
(* call to the key-value store or to S3, with what the thread computes     *)
(* before the next.  The store is atomic here, as module AtomicStore says. *)
(* Requests that change nothing (listDir, downloadFile) are left out, and  *)
(* so are time stamps, sizes and content types.                            *)
(***************************************************************************)
EXTENDS Naturals, Sequences, FiniteSets, SequencesExt

CONSTANTS
  Path,           \* paths, as sequences of names; << >> is "/"
  Main,           \* the thread of main(), which calls ensureRoot
  Worker,         \* the threads of the HTTP server
  NoFile,         \* the value of a "file:" key without metadata
  Apart,          \* do requests in flight touch different keys?
  Sensible,       \* do clients create new names in directories that they see?
  Faults,         \* what may fail: "restart" the process, "s3" a call to S3,
                  \* "silent" a call to the store, which no server answers, "cut" the
                  \* connection of a put, which is then tried again
  MaxFaults       \* bound: such failures, and late effects of calls that failed

Root == << >>
Parent(p) == Front(p)
Name(p) == Last(p)

ASSUME PathAssumption == /\ Root \in Path /\ IsFiniteSet(Path)
                         /\ Path \subseteq Seq(UNION {ToSet(p) : p \in Path})
                         /\ \A p \in Path \ {Root} : Parent(p) \in Path
ASSUME ThreadAssumption == /\ Main \notin Worker /\ IsFiniteSet(Worker)
                           /\ {Apart, Sensible} \subseteq BOOLEAN
ASSUME KeyAssumption == NoFile \notin Path \X (Nat \ {0})
ASSUME FaultAssumption == Faults \subseteq {"restart", "s3", "silent", "cut"} /\ MaxFaults \in Nat

VARIABLES
  dirs,        \* the paths whose "dir:" key has metadata
  file,        \* file[p]: the s3_key in the metadata of "file:" key p
  children,    \* children[p]: the names under "children:" key p; "" is "[]"
  objects,     \* the keys of the objects in the bucket
  late,        \* puts and calls to S3 that nobody waits for, and that may still take
               \* effect: a server runs the handler of a call whose caller is gone
  thread,      \* thread[t]: the request, the calls still to make for it, and, as
               \* history, what a client saw at and below its path when it began
  faults,      \* the failures so far
  broken       \* history: has a request been cut short, or a call gone unanswered?

storeVars == <<dirs, file, children>>
vars == <<storeVars, objects, late, thread, faults, broken>>

Thread == Worker \cup {Main}
Below(p) == {q \in Path : IsPrefix(p, q)}

-----------------------------------------------------------------------------
\* What listDir shows at p: a name in its parent's list, with metadata; a file
\* hides a directory.
Shown(p) ==
  IF p = Root THEN "dir"
  ELSE IF Name(p) \notin ToSet(children[Parent(p)]) THEN "none"
  ELSE IF file[p] # NoFile THEN "file"
  ELSE IF p \in dirs THEN "dir" ELSE "none"

-----------------------------------------------------------------------------
(* The calls of each request, in their order.                              *)

Call(do, p) == [do |-> do, path |-> p, list |-> << >>, object |-> NoFile]

\* MetadataService::createChild and deleteChild, but for the root.
Register(p)   == IF p = Root THEN << >> ELSE <<Call("addName", p)>>
Unregister(p) == <<Call("dropName", p)>>

\* MetadataService::createDir
MakeDir(p) == <<Call("putDir", p), Call("putList", p)>> \o Register(p)

CreateDir(p) == <<Call("needNoDir", p)>> \o MakeDir(p)

\* uploadFile, once it has found no such file and made a key for the object.
With(o, do, p) == [Call(do, p) EXCEPT !.object = o]
Store_metaFirst_bug(p, o) ==
  <<With(o, "putFile", p)>> \o Register(p) \o <<With(o, "putObject", p)>>
Store(p, o) == <<With(o, "putObject", p), With(o, "putFile", p)>> \o Register(p)

DeleteFile(p) == <<Call("needFile", p), Call("stillFile", p)>>

\* FileSystemService::deleteDir, then MetadataService::deleteDir
DeleteDir_shallow_bug(p) == <<Call("needDir", p), Call("stillDir", p)>>
DeleteDir(p) ==
  <<Call("needDir", p), Call("walk", p), Call("stillDir", p)>>

\* What the loop of deleteDir does for the names it has read.
Visits_nameOnly_bug(p, names) ==
  [i \in DOMAIN names |-> Call("visitFile", <<names[i]>>)]
Visits(p, names) ==
  [i \in DOMAIN names |-> Call("visitFile", Append(p, names[i]))]

\* What createChild and deleteChild make of the list they have read.
Extended_alone_bug(names, n) == <<n>>
Extended(names, n) == Append(names, n)
Erased_last_bug(names, n) == IF names = << >> THEN names ELSE Front(names)
Erased(names, n) ==
  LET kept[i \in 0 .. Len(names)] == IF i = 0 THEN << >>
                                     ELSE IF names[i] = n THEN kept[i - 1]
                                     ELSE Append(kept[i - 1], names[i])
  IN kept[Len(names)]

PutList(p, names) == [Call("putList", p) EXCEPT !.list = names]

Requests == {"createDir", "deleteDir", "uploadFile", "deleteFile"}
CallsOf(kind, p) ==
  CASE kind = "createDir"  -> CreateDir(p)
    [] kind = "deleteDir"  -> DeleteDir(p)
    [] kind = "uploadFile" -> <<Call("needNoFile", p)>>
    [] kind = "deleteFile" -> DeleteFile(p)

-----------------------------------------------------------------------------
Idle == [kind |-> "idle", path |-> Root, todo |-> << >>, saw |-> << >>]

\* main() before it serves: ensureRoot.
Booting == [Idle EXCEPT !.kind = "boot", !.todo = <<Call("ensureRoot", Root)>>]

Init ==
  /\ dirs = {}
  /\ file = [p \in Path |-> NoFile]
  /\ children = [p \in Path |-> << >>]
  /\ objects = {} /\ late = {}
  /\ thread = [t \in Thread |-> IF t = Main THEN Booting ELSE Idle]
  /\ faults = 0
  /\ broken = FALSE

MayFail(kind) == kind \in Faults /\ faults < MaxFaults

At(t, do) == thread[t].todo # << >> /\ Head(thread[t].todo).do = do
This(t) == Head(thread[t].todo)
PathOf(t) == This(t).path

\* The thread of t once this call is made and the calls in cs come next.
Going(t, cs) == [thread[t] EXCEPT !.todo = cs \o Tail(@)]
Goes(t, cs) == thread' = [thread EXCEPT ![t] = Going(t, cs)]

\* An exception reaches the handler, which answers 404 or 409.
Fails(t) == thread' = [thread EXCEPT ![t] = Idle]

-----------------------------------------------------------------------------
(* KVStoreClient: after 25 rounds without an answer get returns "" and put *)
(* false, which MetadataService does not look at.                          *)

Heard == {h \in BOOLEAN : h \/ MayFail("silent")}
Counted(h) ==
  /\ UNCHANGED late
  /\ IF h THEN UNCHANGED <<faults, broken>> ELSE faults' = faults + 1 /\ broken' = TRUE

\* The calls in S fail, and may take effect some time.
Leaves(S) == faults' = faults + 1 /\ broken' = TRUE /\ late' = late \cup S

\* getDir, getFile and getChildren: the thread goes on with what it heard.
GetDir(t, do, found, missing) ==
  /\ At(t, do)
  /\ \E h \in Heard :
       /\ Counted(h)
       /\ thread' = [thread EXCEPT ![t] = IF h /\ PathOf(t) \in dirs THEN found ELSE missing]
  /\ UNCHANGED <<storeVars, objects>>

GetFile(t, do, found, missing) ==
  /\ At(t, do)
  /\ \E h \in Heard :
       /\ Counted(h)
       /\ thread' = [thread EXCEPT ![t] = IF h /\ file[PathOf(t)] # NoFile
                                          THEN found ELSE missing]
  /\ UNCHANGED <<storeVars, objects>>

GetChildren(t, do, found, missing) ==
  /\ At(t, do)
  /\ \E h \in Heard : Counted(h) /\ Goes(t, IF h THEN found ELSE missing)
  /\ UNCHANGED <<storeVars, objects>>

-----------------------------------------------------------------------------
EnsureRoot(t) == GetDir(t, "ensureRoot", Going(t, << >>), Going(t, MakeDir(Root)))
NeedNoDir(t)  == GetDir(t, "needNoDir", Idle, Going(t, << >>))
NeedDir(t)    == GetDir(t, "needDir", Going(t, << >>), Idle)
VisitDir(t)   == GetDir(t, "visitDir", Going(t, DeleteDir(PathOf(t))), Going(t, << >>))

\* MetadataService::deleteDir and deleteFile return when nothing is there.
StillDir(t) ==
  GetDir(t, "stillDir",
         Going(t, <<Call("clearDir", PathOf(t)), Call("putList", PathOf(t))>>
                    \o Unregister(PathOf(t))),
         Going(t, << >>))
StillFile(t) ==
  GetFile(t, "stillFile",
          Going(t, <<Call("clearFile", PathOf(t))>> \o Unregister(PathOf(t))),
          Going(t, << >>))

\* generateS3Key: a random number before the name, so that no two keys are equal.
KeysInUse ==
  objects \cup {file[p] : p \in Path}
    \cup {c.object : c \in late}
    \cup UNION {{c.object : c \in ToSet(thread[t].todo)} : t \in Thread}
NewKey(p) ==
  CHOOSE o \in {p} \X (1 .. Cardinality(KeysInUse) + 1) :
    /\ o \notin KeysInUse
    /\ \A n \in 1 .. o[2] - 1 : <<p, n>> \in KeysInUse

NeedNoFile(t) == GetFile(t, "needNoFile", Idle,
                         Going(t, Store(PathOf(t), NewKey(PathOf(t)))))
NeedFile(t) ==
  GetFile(t, "needFile",
          Going(t, <<With(file[PathOf(t)], "dropObject", PathOf(t))>>), Idle)

\* A child of a directory that is deleted: a file, else a directory, else nothing.
VisitFile(t) ==
  GetFile(t, "visitFile", Going(t, DeleteFile(PathOf(t))),
          Going(t, <<Call("visitDir", PathOf(t))>>))

Walk(t) ==
  GetChildren(t, "walk", Visits(PathOf(t), children[PathOf(t)]), << >>)
AddName(t) ==
  LET p == Parent(PathOf(t))  n == Name(PathOf(t)) IN
  GetChildren(t, "addName", <<PutList(p, Extended(children[p], n))>>,
              <<PutList(p, Extended(<< >>, n))>>)
DropName(t) ==
  LET p == Parent(PathOf(t))  n == Name(PathOf(t)) IN
  GetChildren(t, "dropName", <<PutList(p, Erased(children[p], n))>>,
              <<PutList(p, Erased(<< >>, n))>>)

-----------------------------------------------------------------------------
(* The puts.                                                               *)

\* A put is done; it is done when the connection of an earlier try, whose handler runs
\* on, has broken; or no try is answered, or the answered one was dropped by the store
\* for a duplicate.
Put(t, do, newDirs, newFile, newChildren) ==
  /\ At(t, do)
  /\ \/ /\ dirs' = newDirs /\ file' = newFile /\ children' = newChildren
        /\ UNCHANGED <<faults, broken, late>> \/ (MayFail("cut") /\ Leaves({This(t)}))
     \/ MayFail("silent") /\ Leaves({This(t)}) /\ UNCHANGED storeVars
  /\ Goes(t, << >>)
  /\ UNCHANGED objects

PutDir(t)    == Put(t, "putDir", dirs \cup {PathOf(t)}, file, children)
ClearDir(t)  == Put(t, "clearDir", dirs \ {PathOf(t)}, file, children)
PutFile(t)   == Put(t, "putFile", dirs, [file EXCEPT ![PathOf(t)] = This(t).object], children)
ClearFile(t) == Put(t, "clearFile", dirs, [file EXCEPT ![PathOf(t)] = NoFile], children)
PutNames(t)  == Put(t, "putList", dirs, file, [children EXCEPT ![PathOf(t)] = This(t).list])

-----------------------------------------------------------------------------
(* StorageService.                                                         *)

PutObject(t) ==
  /\ At(t, "putObject")
  /\ objects' = objects \cup {This(t).object}
  /\ Goes(t, << >>)
  /\ UNCHANGED <<storeVars, late, faults, broken>>

DropObject(t) ==
  /\ At(t, "dropObject")
  /\ objects' = objects \ {This(t).object}
  /\ Goes(t, << >>)
  /\ UNCHANGED <<storeVars, late, faults, broken>>

\* S3 answers with an error; or not at all, and the call may do its work all the same.
S3Error(t) ==
  /\ At(t, "putObject") \/ At(t, "dropObject")
  /\ MayFail("s3")
  /\ \/ faults' = faults + 1 /\ UNCHANGED <<broken, late>>
     \/ Leaves({This(t)})
  /\ Fails(t)
  /\ UNCHANGED <<storeVars, objects>>

-----------------------------------------------------------------------------
(* What nobody waits for any more.                                         *)

Puts == {"putDir", "clearDir", "putFile", "clearFile", "putList"}
Writes == Puts \cup {"putObject", "dropObject"}

\* The call c takes effect.  It stays in late: a put has been tried up to 25 times, and
\* each of the tries is a command of its own.
Land(c) ==
  /\ faults < MaxFaults /\ faults' = faults + 1
  /\ \/ /\ \/ c.do = "putDir" /\ dirs' = dirs \cup {c.path}
           \/ c.do = "clearDir" /\ dirs' = dirs \ {c.path}
        /\ UNCHANGED <<file, children, objects>>
     \/ /\ \/ c.do = "putFile" /\ file' = [file EXCEPT ![c.path] = c.object]
           \/ c.do = "clearFile" /\ file' = [file EXCEPT ![c.path] = NoFile]
        /\ UNCHANGED <<dirs, children, objects>>
     \/ /\ c.do = "putList" /\ children' = [children EXCEPT ![c.path] = c.list]
        /\ UNCHANGED <<dirs, file, objects>>
     \/ /\ \/ c.do = "putObject" /\ objects' = objects \cup {c.object}
           \/ c.do = "dropObject" /\ objects' = objects \ {c.object}
        /\ UNCHANGED storeVars
  /\ UNCHANGED <<late, thread, broken>>

-----------------------------------------------------------------------------
(* Requests, and the process.                                              *)

AreApart(p, q) == Parent(p) # Parent(q) /\ ~IsPrefix(p, q) /\ ~IsPrefix(q, p)

Receive(t, kind, p) ==
  /\ p # Root
  /\ thread[Main] = Idle /\ thread[t] = Idle
  /\ Apart => \A u \in Worker : thread[u] # Idle => AreApart(p, thread[u].path)
  /\ Sensible => /\ Shown(Parent(p)) = "dir"
                 /\ kind \in {"createDir", "uploadFile"} => Shown(p) = "none"
  /\ thread' = [thread EXCEPT ![t] = [kind |-> kind, path |-> p, todo |-> CallsOf(kind, p),
                                     saw |-> [q \in Below(p) |-> Shown(q)]]]
  /\ UNCHANGED <<storeVars, objects, late, faults, broken>>

\* The handler answers 200 or 201.
Done(t) ==
  /\ thread[t] # Idle /\ thread[t].todo = << >>
  /\ thread' = [thread EXCEPT ![t] = Idle]
  /\ UNCHANGED <<storeVars, objects, late, faults, broken>>

\* The process dies and main() runs again.  Each call that was about to be made may
\* have been sent, and the server has it then.
AtWork == {t \in Thread : \E do \in Writes : At(t, do)}
Restart ==
  /\ MayFail("restart")
  /\ faults' = faults + 1
  /\ \E sent \in SUBSET {This(t) : t \in AtWork} :
       /\ late' = late \cup sent
       /\ broken' = (broken \/ sent # {} \/ \E t \in Worker : thread[t] # Idle)
  /\ thread' = [t \in Thread |-> IF t = Main THEN Booting ELSE Idle]
  /\ UNCHANGED <<storeVars, objects>>

Step(t) ==
  \/ EnsureRoot(t) \/ NeedNoDir(t) \/ NeedDir(t) \/ NeedNoFile(t) \/ NeedFile(t)
  \/ StillDir(t) \/ StillFile(t) \/ VisitFile(t) \/ VisitDir(t) \/ Walk(t)
  \/ AddName(t) \/ DropName(t)
  \/ PutDir(t) \/ ClearDir(t) \/ PutFile(t) \/ ClearFile(t) \/ PutNames(t)
  \/ PutObject(t) \/ DropObject(t) \/ S3Error(t) \/ Done(t)

Next ==
  \/ \E t \in Thread : Step(t)
  \/ \E t \in Worker, kind \in Requests, p \in Path : Receive(t, kind, p)
  \/ \E c \in late : Land(c)
  \/ Restart

Spec == Init /\ [][Next]_vars
=============================================================================
