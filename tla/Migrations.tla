----------------------------- MODULE Migrations -----------------------------
(***************************************************************************)
(* Bringing the schema up to date: every deployment runs the migrations    *)
(* its release has, in the order of their names, each in a transaction of  *)
(* its own that also records it in schema_migrations; one that fails ends  *)
(* the run.  Two runs may overlap and be of different releases, and either *)
(* may die between two statements; a run is started again at will.         *)
(***************************************************************************)
EXTENDS Naturals, Sequences, FiniteSets

CONSTANTS
  Runners,          \* deployments at once
  Releases          \* how many migrations a release may have

\* One of them has the most.
ASSUME ReleasesAssumption ==
  Releases \subseteq Nat /\ \E n \in Releases : \A m \in Releases : m <= n

VARIABLES
  schema,           \* the migrations in effect, in the order they took effect
  recorded,         \* schema_migrations
  runner            \* where each run stands
migrationVars == <<schema, recorded, runner>>

Latest == CHOOSE n \in Releases : \A m \in Releases : m <= n
NoRun == [pc |-> "down", has |-> 0, next |-> 1]
RunnerSteps == {"down", "check", "sql", "record", "commit", "failed"}
MigrationTypeOK ==
  /\ schema \in Seq(1..Latest) /\ recorded \subseteq 1..Latest
  /\ runner \in [Runners -> [pc : RunnerSteps, has : Releases \cup {0}, next : 1..(Latest + 1)]]

RunnerAt(r, pc) == runner[r].pc = pc
RunnerGoes(r, pc) == runner' = [runner EXCEPT ![r].pc = pc]
NextMigration(r, pc) == runner' = [runner EXCEPT ![r].pc = pc, ![r].next = @ + 1]

RunMigrations(r) == \E n \in Releases :
  /\ RunnerAt(r, "down") /\ runner' = [runner EXCEPT ![r] = [pc |-> "check", has |-> n, next |-> 1]]
  /\ UNCHANGED <<schema, recorded>>
(* The one that is recorded is skipped; after the last the run has ended.  *)
HasMigration(r) ==
  /\ RunnerAt(r, "check")
  /\ IF runner[r].next > runner[r].has THEN runner' = [runner EXCEPT ![r] = NoRun]
     ELSE IF runner[r].next \in recorded THEN NextMigration(r, "check")
     ELSE RunnerGoes(r, "sql")
  /\ UNCHANGED <<schema, recorded>>

(* The row another transaction has written, not yet committed, is waited   *)
(* for; one that is committed is a violation of the primary key.           *)
Writing(r) == {q \in Runners \ {r} : RunnerAt(q, "commit") /\ runner[q].next = runner[r].next}
NoneClashes(r) == FALSE   \* broken variant: ON CONFLICT DO NOTHING
Clashes(r) == runner[r].next \in recorded
RunSql(r) ==
  /\ RunnerAt(r, "sql") /\ RunnerGoes(r, "record") /\ UNCHANGED <<schema, recorded>>
RecordVersion(r) ==
  /\ RunnerAt(r, "record") /\ Writing(r) = {} /\ ~Clashes(r) /\ RunnerGoes(r, "commit")
  /\ UNCHANGED <<schema, recorded>>
Commit(r) ==
  /\ RunnerAt(r, "commit") /\ NextMigration(r, "check")
  /\ schema' = Append(schema, runner[r].next) /\ recorded' = recorded \cup {runner[r].next}

(* What a statement does wrong rolls the transaction back and ends the run,*)
(* as does its death; the process may be started again.                    *)
ApplyFails(r) ==
  /\ \/ RunnerAt(r, "sql")
     \/ RunnerAt(r, "check")  \* the table, created by two at once; the lookup
     \/ RunnerAt(r, "record") /\ Writing(r) = {} /\ Clashes(r)
  /\ RunnerGoes(r, "failed") /\ UNCHANGED <<schema, recorded>>
Dies(r) ==
  /\ runner[r] # NoRun /\ runner' = [runner EXCEPT ![r] = NoRun] /\ UNCHANGED <<schema, recorded>>

MigrationInit == schema = <<>> /\ recorded = {} /\ runner = [r \in Runners |-> NoRun]
MigrationNext == \E r \in Runners :
  \/ RunMigrations(r) \/ HasMigration(r) \/ RunSql(r) \/ RecordVersion(r) \/ Commit(r)
  \/ ApplyFails(r) \/ Dies(r)
MigrationSpec == MigrationInit /\ [][MigrationNext]_migrationVars

(***************************************************************************)
(* Property.                                                               *)
(***************************************************************************)
(* However many runs overlap, and wherever they fail or die, the           *)
(* migrations in effect are the first ones of the list, each once and in   *)
(* its order, and exactly those are recorded (migrate.js:29-67).           *)
AppliedOnceInOrder ==
  /\ \A i \in DOMAIN schema : schema[i] = i
  /\ recorded = DOMAIN schema
=============================================================================
