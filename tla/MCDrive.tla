------------------------------ MODULE MCDrive ------------------------------
(***************************************************************************)
(* A small tree of paths for module Drive.                                 *)
(***************************************************************************)
EXTENDS DriveSafety

CONSTANTS a, b, x, y

\* /a with two children, one of which may have a child: room for a deletion that
\* descends, and for requests on different directories.
SmallTree == {<< >>, <<a>>, <<a, x>>, <<a, y>>, <<a, x, y>>}

\* The root and one file in it.
OneName == {<< >>, <<a>>}

\* The root and two names in it.
TwoNames == {<< >>, <<a>>, <<b>>}

Symmetry == Permutations(Worker)

\* Once a request has been cut short, what clients saw and the objects do not matter to
\* the properties any more, nor do the keys of objects to what threads do next; and
\* once no call is left that may take effect late, only where those were does.
Told(c) == <<c.do, c.path, c.list>>
LiveState ==
  IF ~broken THEN vars
  ELSE <<dirs, {p \in Path : file[p] # NoFile}, children, faults,
         IF faults < MaxFaults THEN {Told(c) : c \in {k \in late : k.do \in Puts}}
                               ELSE {q \in Path : \E c \in late : c.do \in Puts
                                                                 /\ IsPrefix(c.path, q)},
         [t \in Thread |-> [kind |-> thread[t].kind, path |-> thread[t].path,
                            todo |-> [i \in DOMAIN thread[t].todo |-> Told(thread[t].todo[i])]]]>>
=============================================================================
