------------------------------- MODULE Startup -------------------------------
(***************************************************************************)
(* From a server that is down to one that serves: the settings (config.ts),*)
(* the database (db.ts) and the check between them and the listening       *)
(* socket (server.ts), in the order the imports run them.                  *)
(*                                                                         *)
(* The database file outlives the process and the release: it may come from*)
(* before the migrations, from an older release or from a newer one that   *)
(* was rolled back.  The process may die between any two statements.       *)
(***************************************************************************)
EXTENDS Integers, FiniteSets

CONSTANTS
  Settings, ReaderOf,  \* settings, and the function of config.ts that reads each
  Host, Algo,          \* POOL_HOST and POOL_ALGO
  MaxSteps,            \* bound of the model: migrations any release has
  MaxOdd               \* bound of the model: settings an operator changes

Readers == {"required", "str", "int", "oneOf", "list", "pattern", "cron"}

\* The environment, as far as the readers tell: not there, there and empty, a
\* value that will do, a value that will not.
Raw == {"unset", "blank", "good", "bad"}

ASSUME StartupAssumption ==
  /\ ReaderOf \in [Settings -> Readers]
  /\ Host \in Settings /\ Algo \in Settings
  /\ ReaderOf[Host] = "str" /\ ReaderOf[Algo] = "oneOf"
  /\ MaxSteps \in Nat \ {0} /\ MaxOdd \in Nat

VARIABLES
  code,     \* MIGRATIONS.length of the release that is installed
  version,  \* user_version of the file
  columns,  \* the migrations whose column the file has
  env,      \* the environment of the process
  problems, \* settings config.ts has complained of
  phase     \* how far the process has come

startVars == <<code, version, columns, env, problems, phase>>

Phases == {"down", "configured", "opened", "adopted", "up"}

Ordinary == [s \in Settings |-> IF ReaderOf[s] = "required" THEN "good" ELSE "unset"]

Environments ==
  UNION {{[s \in Settings |-> IF s \in odd THEN f[s] ELSE Ordinary[s]] : f \in [odd -> Raw]} :
           odd \in {odd \in SUBSET Settings : Cardinality(odd) <= MaxOdd}}

StartTypeOK ==
  /\ code \in 1 .. MaxSteps /\ version \in 0 .. MaxSteps
  /\ columns \subseteq 1 .. MaxSteps
  /\ env \in [Settings -> Raw] /\ problems \subseteq Settings
  /\ phase \in Phases

\* No file, one without the first column, or one that got it from the release
\* before there were versions.
StartInit ==
  /\ code \in 1 .. MaxSteps /\ version = 0
  /\ columns \in {{}, {1}}
  /\ env = Ordinary /\ problems = {}
  /\ phase = "down"

-----------------------------------------------------------------------------
(* config.ts                                                               *)

\* What a setting comes to: what was set, the default, or nothing.
Value(s, raw) ==
  CASE ReaderOf[s] = "required" -> IF raw \in {"unset", "blank"} THEN "nothing" ELSE raw
    [] ReaderOf[s] = "str"      -> IF raw \in {"unset", "blank"} THEN "default" ELSE raw
    [] ReaderOf[s] \in {"int", "oneOf"} -> IF raw = "good" THEN "good" ELSE "default"
    [] ReaderOf[s] = "list"     -> IF raw = "unset" THEN "default" ELSE
                                   IF raw = "blank" THEN "nothing" ELSE raw
    [] ReaderOf[s] = "pattern"  -> IF raw = "good" THEN "good" ELSE "nothing"
    [] ReaderOf[s] = "cron"     -> IF raw = "unset" THEN "default" ELSE
                                   IF raw = "blank" THEN "nothing" ELSE raw

Complains(s, raw) ==
  \/ ReaderOf[s] = "required" /\ raw \in {"unset", "blank"}
  \/ ReaderOf[s] \in {"int", "oneOf", "pattern", "cron"} /\ raw = "bad"

\* A host named for one algorithm with the other one set: the default host names
\* the default algorithm, a "bad" one the other, which is what a "good" algorithm
\* sets; a "good" host names none.
Mismatch(e) ==
  \/ Value(Host, e[Host]) = "default" /\ Value(Algo, e[Algo]) = "good"
  \/ Value(Host, e[Host]) = "bad" /\ Value(Algo, e[Algo]) = "default"

Boot(e) ==
  /\ phase = "down"
  /\ phase' = "configured"
  /\ env' = e
  /\ problems' = {s \in Settings : Complains(s, e[s])} \cup (IF Mismatch(e) THEN {Host} ELSE {})
  /\ UNCHANGED <<code, version, columns>>

-----------------------------------------------------------------------------
(* db.ts                                                                   *)

\* openDatabase, the pragmas and schema.sql, which makes what is missing and
\* leaves alone what is there.
OpenDatabase ==
  /\ phase = "configured"
  /\ phase' = "opened"
  /\ UNCHANGED <<code, version, columns, env, problems>>

\* Broken on purpose: version 0 means that the first step is owed.
AdoptNothing ==
  /\ phase = "opened"
  /\ phase' = "adopted"
  /\ UNCHANGED <<code, version, columns, env, problems>>

\* A file that has the column of the first step has had the first step.
Adopt ==
  /\ phase = "opened"
  /\ phase' = "adopted"
  /\ version' = IF version = 0 /\ 1 \in columns THEN 1 ELSE version
  /\ UNCHANGED <<code, columns, env, problems>>

Owed == phase = "adopted" /\ version < code

\* A step and its number, in one transaction.
Migrate ==
  /\ Owed /\ version + 1 \notin columns
  /\ columns' = columns \cup {version + 1}
  /\ version' = version + 1
  /\ UNCHANGED <<code, env, problems, phase>>

-----------------------------------------------------------------------------
(* server.ts                                                               *)

\* exitIfMisconfigured lets it pass, and the port is free.
Serve ==
  /\ phase = "adopted" /\ ~Owed
  /\ problems = {}
  /\ phase' = "up"
  /\ UNCHANGED <<code, version, columns, env, problems>>

\* The process ends: a signal or a crash, a file or a port it cannot open, a
\* statement that fails, or problems with its environment.
Die ==
  /\ phase # "down"
  /\ phase' = "down"
  /\ env' = Ordinary /\ problems' = {}
  /\ UNCHANGED <<code, version, columns>>

\* Another release is deployed, or the last one is rolled back.
Release(n) ==
  /\ phase = "down" /\ n # code
  /\ code' = n
  /\ UNCHANGED <<version, columns, env, problems, phase>>

Starting == OpenDatabase \/ Adopt \/ Migrate \/ Serve

Operator == (\E e \in Environments : Boot(e)) \/ (\E n \in 1 .. MaxSteps : Release(n))

-----------------------------------------------------------------------------
\* The file says what it has: the steps up to its version, or the first one from
\* before there were versions.  The step that is owed has not been made, so no
\* release, rollback or death in between leaves a file nobody can start on.
MigrationSound ==
  /\ columns = 1 .. version \/ (version = 0 /\ columns = {1})
  /\ Owed => version + 1 \notin columns
  /\ phase = "up" => 1 .. code \subseteq columns

\* "A typo in a number silently became NaN": a server that is up runs on what its
\* operator set, nothing that was set is replaced, nothing it must have is
\* missing, and its pool is not the pool of another algorithm.
RunsAsSet ==
  phase = "up" =>
    /\ \A s \in Settings :
         /\ env[s] \in {"good", "bad"} => Value(s, env[s]) = env[s]
         /\ ReaderOf[s] = "required" => Value(s, env[s]) # "nothing"
         /\ ReaderOf[s] \in {"int", "oneOf", "pattern", "cron"} => Value(s, env[s]) # "bad"
    /\ ~Mismatch(env)

StartIsSound == StartTypeOK /\ MigrationSound /\ RunsAsSet
=============================================================================
