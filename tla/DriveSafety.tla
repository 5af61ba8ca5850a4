---------------------------- MODULE DriveSafety ----------------------------
(***************************************************************************)
(* What the requests of module Drive must keep true of the store and of    *)
(* the bucket together.                                                    *)
(***************************************************************************)
EXTENDS Drive

Names == {Name(p) : p \in Path \ {Root}}

\* Every key of the store, the bucket and every thread have their types; an s3_key in
\* metadata, or on its way there, is one that was made for that path.
TypeOK ==
  /\ dirs \subseteq Path
  /\ \A p \in Path : file[p] = NoFile \/ file[p] \in {p} \X (Nat \ {0})
  /\ children \in [Path -> Seq(Names)]
  /\ objects \subseteq Path \X (Nat \ {0})
  /\ \A t \in Thread : \A c \in ToSet(thread[t].todo) :
       /\ c.path \in Path
       /\ c.object = NoFile \/ c.object \in {c.path} \X (Nat \ {0})
       /\ c.list \in Seq(Names)
  /\ \A c \in late :
       /\ c.path \in Path
       /\ c.object = NoFile \/ c.object \in {c.path} \X (Nat \ {0})
       /\ c.list \in Seq(Names)
  /\ faults \in Nat /\ broken \in BOOLEAN

Quiet == \A t \in Thread : thread[t] = Idle

-----------------------------------------------------------------------------
\* Metadata that was put is found again: when no request is in flight, and none was
\* cut short, every file and directory in the store is named in its parent's list.
\* createChild and deleteChild write back a list that they read before.
EverythingIsListed ==
  Quiet /\ ~broken => \A p \in Path \ {Root} :
    file[p] # NoFile \/ p \in dirs => Name(p) \in ToSet(children[Parent(p)])

\* Then the bucket and the metadata agree as well: every file has its object, and no
\* object is left without a file, after failed uploads and deletions too.
ObjectsMatchFiles ==
  Quiet /\ ~broken => objects = {file[p] : p \in Path} \ {NoFile}

\* What a client can see does not go away unless a request to delete it, or something
\* above it, is in flight: not by another request, nor by the restart of the process
\* in the middle of one.  A put that nobody waits for any more may harm what is at its
\* key's path and below, whatever requests come later, and nothing else.
NothingVanishes ==
  [][\A p \in Path \ {Root} :
       Shown(p) # "none" /\ Shown(p)' = "none" =>
         \/ \E t \in Worker : /\ thread[t].kind \in {"deleteDir", "deleteFile"}
                              /\ IsPrefix(thread[t].path, p)
         \/ \E c \in late : c.do \in Puts /\ IsPrefix(c.path, p)]_vars

\* ensureRoot, called at every start, leaves the list of a root that exists alone.
EnsureRootIsIdempotent ==
  [][thread[Main].kind = "boot" /\ thread'[Main] # thread[Main] /\ Root \in dirs =>
       children'[Root] = children[Root]]_vars

-----------------------------------------------------------------------------
\* What clients see, but for the paths of requests in flight, where it is what they
\* saw before.
InFlight(q) == {t \in Worker : thread[t] # Idle /\ IsPrefix(thread[t].path, q)}

View(q) ==
  IF InFlight(q) = {} THEN Shown(q) ELSE thread[CHOOSE t \in InFlight(q) : TRUE].saw[q]

Tree == INSTANCE FileTree WITH tree <- [q \in Path \ {Root} |-> View(q)]

\* Requests on different directories, however their calls interleave, each take
\* effect at once, when they are answered.
KeepsTree == Tree!TreeSpec
=============================================================================
