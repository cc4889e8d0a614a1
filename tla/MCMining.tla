------------------------------ MODULE MCMining ------------------------------
EXTENDS Mining

\* Two jobs, each of its own algorithm.
MCAlgoOf == [j \in Jobs |-> IF j = "other" THEN "rinhash" ELSE "minotaurx"]
=============================================================================
