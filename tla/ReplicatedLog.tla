--------------------------- MODULE ReplicatedLog ---------------------------
(***************************************************************************)
(* What the Raft nodes promise to the key-value servers above them: every  *)
(* node pushes to its apply channel a prefix of one sequence of entries,   *)
(* each of which some leader took in start() at the index it has there.    *)
(*                                                                         *)
(* Nothing is promised of who leads: a node that was deposed may not know  *)
(* it yet, and start() succeeds there; its entry may never be chosen.      *)
(***************************************************************************)
EXTENDS Naturals, Sequences, SequencesExt

CONSTANTS
  Server,
  Entry,    \* what start() may be given
  MaxLen    \* bound: start() takes nothing beyond this length

VARIABLES
  leads,    \* leads[s]: isLeader()
  log,      \* log[s]: the log that start() adds to
  started,  \* the logs that leaders had when start() added to them
  pushed,   \* pushed[s]: number of entries s has pushed to its apply channel
  chosen    \* what has been pushed, by whichever node pushed most

logVars == <<leads, log, started, pushed, chosen>>

LogInit ==
  /\ leads = [s \in Server |-> FALSE]
  /\ log = [s \in Server |-> << >>]
  /\ started = {}
  /\ pushed = [s \in Server |-> 0]
  /\ chosen = << >>

Elected(s) ==
  /\ ~leads[s]
  /\ leads' = [leads EXCEPT ![s] = TRUE]
  /\ UNCHANGED <<log, started, pushed, chosen>>

Deposed(s) ==
  /\ leads[s]
  /\ leads' = [leads EXCEPT ![s] = FALSE]
  /\ UNCHANGED <<log, started, pushed, chosen>>

\* start() in a leader.
Start(s, e) ==
  /\ leads[s]
  /\ Len(log[s]) < MaxLen
  /\ log' = [log EXCEPT ![s] = Append(@, e)]
  /\ started' = started \cup {log'[s]}
  /\ UNCHANGED <<leads, pushed, chosen>>

\* The first k entries, for any k >= n, of the leaders' logs that begin with l.
Beginnings(l, n) ==
  UNION {{SubSeq(m, 1, k) : k \in n .. Len(m)} : m \in {x \in started : IsPrefix(l, x)}}

\* A follower takes over a part of a leader's log, an old one even, that keeps
\* what it has pushed.
Adopt_forgets_bug(s) ==
  /\ ~leads[s]
  /\ \E l \in Beginnings(<< >>, 0) : log' = [log EXCEPT ![s] = l]
  /\ UNCHANGED <<leads, started, pushed, chosen>>
Adopt_keepsTail_bug(s) ==
  LET tail == SubSeq(log[s], pushed[s] + 1, Len(log[s]))
  IN /\ ~leads[s]
     /\ \E l \in Beginnings(SubSeq(log[s], 1, pushed[s]), pushed[s]) :
          /\ Len(l) + Len(tail) <= MaxLen
          /\ log' = [log EXCEPT ![s] = l \o tail]
     /\ UNCHANGED <<leads, started, pushed, chosen>>
Adopt(s) ==
  /\ ~leads[s]
  /\ \E l \in Beginnings(SubSeq(log[s], 1, pushed[s]), pushed[s]) :
       l # log[s] /\ log' = [log EXCEPT ![s] = l]
  /\ UNCHANGED <<leads, started, pushed, chosen>>

\* A node pushes entries of its log that fit what has been chosen.
Deliver(s, n) ==
  LET mine == SubSeq(log[s], 1, n)
  IN /\ \/ IsPrefix(mine, chosen) /\ UNCHANGED chosen
        \/ IsPrefix(chosen, mine) /\ chosen' = mine
     /\ pushed' = [pushed EXCEPT ![s] = n]
     /\ UNCHANGED <<leads, log, started>>

LogNext ==
  \E s \in Server :
    \/ Elected(s) \/ Deposed(s)
    \/ \E e \in Entry : Start(s, e)
    \/ Adopt(s)
    \/ \E n \in pushed[s] + 1 .. Len(log[s]) : Deliver(s, n)

LogSpec == LogInit /\ [][LogNext]_logVars
=============================================================================
