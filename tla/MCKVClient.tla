----------------------------- MODULE MCKVClient -----------------------------
(***************************************************************************)
(* Small plans of module KVClient.                                         *)
(***************************************************************************)
EXTENDS KVClient

CONSTANTS k1, a, t1

PutA == [kind |-> "Put", key |-> k1, value |-> <<a>>]
GetK == [kind |-> "Get", key |-> k1, value |-> << >>]

PutsAndReads == {PutA, GetK}

TwoStubs == {0, 1}

\* A put; then a get, or the put again when the first was given up.
PutThenAgain == [j \in {t1} \X {1, 2} |->
                 [ok \in BOOLEAN |-> IF j[2] = 2 /\ ok THEN GetK ELSE PutA]]
TwoTries == (DOMAIN PutThenAgain) \X (1 .. 2)
=============================================================================
