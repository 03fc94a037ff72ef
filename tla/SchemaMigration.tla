---------------------------- MODULE SchemaMigration ----------------------------
(***************************************************************************)
(* SqliteStore.connect and apply_migrations: the scripts of the package    *)
(* are run in order of their versions, each once.                          *)
(*                                                                         *)
(* executescript commits what is pending and then runs every statement of  *)
(* the script in autocommit mode, so each is durable on its own.  The      *)
(* version is recorded by a transaction after the script.  A process that  *)
(* stops in between runs the script again, which works for CREATE ... IF   *)
(* NOT EXISTS and fails for ALTER TABLE ... ADD COLUMN.                    *)
(***************************************************************************)
EXTENDS Naturals, Sequences

CONSTANT Scripts    \* per version, its statements: TRUE for one that can be repeated

ASSUME ScriptsAssumption == Scripts \in Seq(Seq(BOOLEAN))

VARIABLES
    schema,     \* on disk: the statements that were executed
    recorded,   \* on disk: schema_migrations
    at          \* the statement that is next, or Closed, Failed, Open

migrationVars == <<schema, recorded, at>>

Versions   == 1..Len(Scripts)
Statements == UNION {{v} \X (1..Len(Scripts[v])) : v \in Versions}
Positions  == UNION {{v} \X (1..(Len(Scripts[v]) + 1)) : v \in Versions}

\* The connection where no script is run: versions start at 1.
Closed == <<0, 0>>
Failed == <<0, 1>>
Open   == <<0, 2>>

MInit == schema = {} /\ recorded = {} /\ at = Closed

\* The first version that is not recorded, from its first statement.
NextScript(applied) ==
    IF Versions \subseteq applied
    THEN Open
    ELSE <<CHOOSE v \in Versions \ applied : \A w \in Versions \ applied : v <= w, 1>>

Connect ==
    /\ at = Closed
    /\ at' = NextScript(recorded)
    /\ UNCHANGED <<schema, recorded>>

Repeatable(s) == Scripts[s[1]][s[2]] \/ s \notin schema

RunStatement ==
    /\ at \in Statements
    /\ Repeatable(at)
    /\ schema' = schema \cup {at}
    /\ at' = <<at[1], at[2] + 1>>
    /\ UNCHANGED recorded

\* The column is there already, or the database raises: MigrationError.
StatementRaises ==
    /\ at \in Positions
    /\ at' = Failed
    /\ UNCHANGED <<schema, recorded>>

\* Mutant: the version is recorded before its script is run.
RecordFirst ==
    /\ at \in Positions /\ at[2] = 1 /\ at[1] \notin recorded
    /\ recorded' = recorded \cup {at[1]}
    /\ UNCHANGED <<schema, at>>

RecordVersion ==
    /\ at \in Positions \ Statements
    /\ recorded' = recorded \cup {at[1]}
    /\ at' = NextScript(recorded')
    /\ UNCHANGED schema

\* The process ends: by itself after a MigrationError, or at any moment.
Stop ==
    /\ at # Closed
    /\ at' = Closed
    /\ UNCHANGED <<schema, recorded>>

MNext == Connect \/ RunStatement \/ StatementRaises \/ RecordVersion \/ Stop

MSpec == MInit /\ [][MNext]_migrationVars

MTypeOK ==
    /\ schema \subseteq Statements
    /\ recorded \subseteq Versions
    /\ at \in {Closed, Open, Failed} \cup Positions

\* schema_migrations tells the truth: a recorded version, and every version
\* before it, has had each of its statements executed, whatever was
\* interrupted, so the program never runs on tables it does not have.
VersionMeansApplied ==
    /\ \A v \in recorded : \A s \in Statements : s[1] <= v => s \in schema
    /\ at = Open => schema = Statements
===============================================================================
