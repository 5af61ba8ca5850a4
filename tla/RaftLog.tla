------------------------------ MODULE RaftLog ------------------------------
(***************************************************************************)
(* What the handlers of raft.cpp compute from a log.                       *)
(*                                                                         *)
(* m_logs[0] is a dummy of term 0: a log here is m_logs without it, so     *)
(* that index k of the code is index k here.  m_lastIncludedIndex is 0.    *)
(*                                                                         *)
(* Each operator named ..._bug is its neighbour with a plausible mistake;  *)
(* the specifications never use it.                                        *)
(***************************************************************************)
EXTENDS Naturals, Sequences, FiniteSets, SequencesExt

CONSTANTS
  Command,            \* what clients hand to start()
  Nil                 \* the -1 of m_votedFor, and no command

Entry == [term : Nat, command : Command]

LastTerm(l) == IF l = << >> THEN 0 ELSE l[Len(l)].term
TermAt(l, i) == IF i \in DOMAIN l THEN l[i].term ELSE 0

\* What m_logs[i] yields beyond the end of the vector: never a logged entry.
Wild == [term |-> 0, command |-> Nil]
EntryAt(l, i) == IF i \in DOMAIN l THEN l[i] ELSE Wild

\* requestVote: is the log that ends with (term, index) at least as good as l?
UpToDate_lengthOnly_bug(term, index, l) == index >= Len(l)
UpToDate_termOnly_bug(term, index, l) == term >= LastTerm(l)
UpToDate(term, index, l) ==
  \/ term > LastTerm(l)
  \/ term = LastTerm(l) /\ index >= Len(l)

\* appendEntries, section 2: does l have the entry that precedes the new ones?
Matches_indexOnly_bug(l, prev, prevTerm) == prev <= Len(l)
Matches(l, prev, prevTerm) ==
  prev = 0 \/ (prev \in DOMAIN l /\ l[prev].term = prevTerm)

\* Where a mismatch sends the leader back to: the end of a log that is too short,
\* or the first entry of the run of equal terms that ends at prev.
ConflictIndex(l, prev) ==
  IF prev > Len(l) THEN Len(l)
  ELSE Min({k \in 1..prev : \A j \in k..prev : l[j].term = l[prev].term})

\* What a refused leader makes of its next index for that peer.
BackedUp_zero_bug(next, conflict) == conflict
BackedUp(next, conflict) ==
  IF conflict > 0 THEN conflict ELSE IF next > 1 THEN next - 1 ELSE next

\* appendEntries, section 3: l once the entries es sent for the indexes after prev
\* are stored: cut at the first clash of terms, else extended by those l lacks.
Stored_cut_bug(l, prev, es) == SubSeq(l, 1, prev) \o es
Stored(l, prev, es) ==
  LET overlap == {k \in DOMAIN es : prev + k <= Len(l)}
      clash   == {k \in overlap : l[prev + k].term # es[k].term}
      same    == {k \in overlap : l[prev + k] = es[k]}
  IN IF clash = {}
     THEN l \o SubSeq(es, Cardinality(same) + 1, Len(es))
     ELSE SubSeq(l, 1, prev + Min(clash) - 1) \o SubSeq(es, Min(clash), Len(es))

\* appendEntries, section 4: the follower's next m_commitIndex.
FollowedCommit_back_bug(commit, leaderCommit, lastNew) == Min({leaderCommit, lastNew})
FollowedCommit(commit, leaderCommit, lastNew) ==
  IF leaderCommit > commit THEN Min({leaderCommit, lastNew}) ELSE commit

\* helperUpdateLeaderCommitIndex: the highest entry of the leader's term among
\* those that enough nodes hold.
CommitRule_anyTerm_bug(l, term, commit, held) ==
  LET new == {n \in held : n > commit} IN IF new = {} THEN commit ELSE Max(new)
CommitRule(l, term, commit, held) ==
  LET new == {n \in held : n > commit /\ l[n].term = term}
  IN IF new = {} THEN commit ELSE Max(new)

\* The entries pushed to the apply channel once m_commitIndex is c: the loop
\* runs m_lastApplied up to m_commitIndex, and not at all when it is beyond.
PushedUpTo(c, done, l) ==
  IF c > Len(done)
  THEN done \o [k \in 1..(c - Len(done)) |-> EntryAt(l, Len(done) + k)]
  ELSE done

-----------------------------------------------------------------------------
(* Comparing logs, for the invariants and their proofs.                    *)

\* l has the entry of index n and term t.
Has(l, n, t) == n \in DOMAIN l /\ l[n].term = t

\* a and b have at least n entries each, and the same.
Agree(a, b, n) == n <= Len(a) /\ n <= Len(b) /\ \A i \in 1..n : a[i] = b[i]

\* What the leader of t has in its log, as logs tells; nothing if there was none.
LogOf(logs, t) == IF t \in DOMAIN logs THEN logs[t] ELSE << >>

\* l is a log that a node of term t may have: its terms never decrease, and each
\* entry is in the log of the leader of its term, with the same entries before it.
Sound(l, t, logs) ==
  /\ \A n \in DOMAIN l : l[n].term <= t /\ Agree(l, LogOf(logs, l[n].term), n)
  /\ \A i, j \in DOMAIN l : i <= j => l[i].term <= l[j].term
=============================================================================
