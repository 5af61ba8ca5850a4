--------------------------- MODULE MCRaftSnapshot ---------------------------
(***************************************************************************)
(* A small cluster of module RaftSnapshot for TLC, in the last term.       *)
(***************************************************************************)
EXTENDS RaftSnapshot, TLC

Old(n) == [i \in 1..n |-> [term |-> 1, command |-> CHOOSE c \in Command : TRUE]]

\* A node has just won the election of term MaxTerm with all votes, and no call is
\* left.  Either nothing happened before; or it has led term 1, brought len[s] entries
\* to each s (all of its own, but to the watched), of which s applied done[s], taken a
\* snapshot of what itself had applied, died, and come back with its Persister.
\* (Bound: nodes die again in the second case only.)
Reign(lead, len, done) ==
  /\ currentTerm = [s \in Server |-> MaxTerm]
  /\ votedFor = [s \in Server |-> lead]
  /\ state = [s \in Server |-> IF s = lead THEN "Leader" ELSE "Follower"]
  /\ votesGranted = [s \in Server |-> IF s = lead THEN Cardinality(Server) ELSE 0]
  /\ electing = [s \in Server |-> FALSE]
  /\ toAsk = [s \in Server |-> {}]
  /\ log = [s \in Server |-> Old(len[s])]
  /\ applied = [s \in Server |-> Old(done[s])]
  /\ base = [s \in Server |-> IF s = lead THEN done[s] ELSE 0]
  /\ commitIndex = [s \in Server |-> IF s = lead THEN 0 ELSE done[s]]
  /\ nextIndex = [s \in Server |-> [p \in Server |-> IF s = lead THEN len[s] + 1 ELSE 0]]
  /\ matchIndex = [s \in Server |-> [p \in Server |-> 0]]
  /\ persisted = [s \in Server |-> [term |-> MaxTerm, votedFor |-> lead, log |-> log[s]]]
  /\ voteRpcs = {} /\ appendRpcs = {} /\ installRpcs = {}
  /\ restarts = IF len[lead] = 0 THEN MaxRestarts ELSE 0
  /\ cast = {[term |-> MaxTerm, voter |-> s, candidate |-> lead] : s \in Server}
  /\ tally = [s \in Server |-> IF s = lead THEN Server ELSE {}]
  /\ elected = {[term |-> MaxTerm, leader |-> lead, votes |-> Server]}
  /\ started = {Old(n) : n \in 1..len[lead]}
  /\ termLog = [t \in {MaxTerm} |-> Old(len[lead])]

ReignInit ==
  \E lead \in Timers, len, done \in [Server -> 0..MaxLogLen] :
    /\ len[lead] > 0 => done[lead] > 0
    /\ \A s \in Server : done[s] <= len[s] /\ len[s] <= len[lead]
    /\ \A s \in Server \ Watched : len[s] = len[lead]
    /\ Reign(lead, len, done)

ReignSpec == ReignInit /\ [][SnapNext]_snapshotVars /\ Fairness
=============================================================================
