------------------------------ MODULE FileTree ------------------------------
(***************************************************************************)
(* What a client of the drive counts on: a tree of directories and files,  *)
(* of which each request changes what it names, at one moment, or nothing. *)
(* A request that was cut short (broken) ends that promise.                *)
(***************************************************************************)
EXTENDS Sequences, SequencesExt

CONSTANTS Path

VARIABLES tree, broken

treeVars == <<tree, broken>>

IsDir(p) == p = << >> \/ tree[p] = "dir"
Within(p) == {q \in DOMAIN tree : IsPrefix(p, q)}

TreeInit ==
  /\ tree = [p \in Path \ {<< >>} |-> "none"]
  /\ broken = FALSE

Without(S) == [q \in DOMAIN tree |-> IF q \in S THEN "none" ELSE tree[q]]

\* createDir and uploadFile
Create(p, kind) ==
  /\ IsDir(Front(p)) /\ tree[p] = "none"
  /\ tree' = [tree EXCEPT ![p] = kind]

\* deleteDir takes all there is below p with it, and deleteFile is the same.
Delete(p) == tree' = Without(Within(p))

\* deleteDir stops at an error of S3: what it has deleted so far is gone.
DeletePart(p) ==
  \E S \in SUBSET (Within(p) \ {p}) :
    (\A q \in S : Within(q) \subseteq S) /\ tree' = Without(S)

TreeNext ==
  \/ UNCHANGED broken /\ \E p \in DOMAIN tree :
       Create(p, "dir") \/ Create(p, "file") \/ Delete(p) \/ DeletePart(p)
  \/ broken' = TRUE

TreeSpec == TreeInit /\ [][TreeNext]_treeVars
=============================================================================
