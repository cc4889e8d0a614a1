----------------------------- MODULE MCDatabase -----------------------------
(* What is kept in SQLite, on small instances: the shares, and the counts of  *)
(* the site with the start of the server before them.  The two share no       *)
(* state: a behaviour here is one of them, with the other at its start.       *)
EXTENDS Ledger, Traffic

\* One setting for each reader of config.ts, and the pool's host.
MCReaderOf ==
  [s \in Settings |->
     CASE s = "POOL_USER" -> "required" [] s = "POOL_HOST"     -> "str"
       [] s = "PORT"      -> "int"      [] s = "POOL_ALGO"     -> "oneOf"
       [] s = "DONATE_BTC" -> "pattern" [] s = "BLOCKED_WORDS" -> "list"
       [] s = "BACKUP_CRON" -> "cron"]

MCInit == Init /\ TrafficInit

MCNext ==
  \/ TrafficInit /\ code = 1 /\ columns = {} /\ Next /\ UNCHANGED trafficVars
  \/ Init /\ TrafficNext /\ UNCHANGED vars

MCSpec ==
  /\ MCInit /\ [][MCNext]_<<vars, trafficVars>>
  /\ WF_vars(BeginFlush("loop")) /\ WF_vars(Statement)
=============================================================================
