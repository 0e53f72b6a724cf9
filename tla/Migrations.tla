----------------------------- MODULE Migrations -----------------------------
(***************************************************************************)
(* migrations.Runner: Up brings a database to the latest version of the    *)
(* schema, Down takes it back.  Every replica runs Up when it opens the    *)
(* store, so runners meet: each statement is a request of its own to       *)
(* Postgres, and nothing locks out the other runners between the question  *)
(* whether a version is recorded, its script and its record.               *)
(*                                                                         *)
(* A script is one Exec without arguments, which Postgres runs as one      *)
(* transaction.  Scripts say IF NOT EXISTS and IF EXISTS, so running one   *)
(* again changes nothing.                                                  *)
(***************************************************************************)
EXTENDS Integers

CONSTANTS
  Runners,      \* processes that run migrations
  Latest,       \* number of versions All() returns, in order 1 .. Latest
  MaxFaults     \* how many statements fail or processes stop

ASSUME MigrationsAssumption == Latest \in Nat \ {0} /\ MaxFaults \in Nat

VARIABLES
  ledger,     \* does the table schema_migrations exist
  applied,    \* versions whose tables are there
  recorded,   \* versions in schema_migrations
  reverted,   \* versions some Down has dropped
  runner,     \* per runner, the statement it is at and the version it is about
  faults      \* faults so far

schema == <<ledger, applied, recorded, reverted>>

Versions == 1 .. Latest

Step == {"idle", "query_up", "apply", "record",
         "query_down", "revert", "unrecord", "ready"}

At(r, step) == runner[r].pc = step

Goes(r, step, v) == runner' = [runner EXCEPT ![r] = [pc |-> step, version |-> v]]

InitSchema ==
  /\ ledger = FALSE
  /\ applied = {}
  /\ recorded = {}
  /\ reverted = {}
  /\ runner = [r \in Runners |-> [pc |-> "idle", version |-> 1]]
  /\ faults = 0

-----------------------------------------------------------------------------
(* Up.                                                                     *)

\* The first statement of a run: CREATE TABLE IF NOT EXISTS schema_migrations.
BeginUp(r) ==
  /\ At(r, "idle")
  /\ ledger' = TRUE
  /\ Goes(r, "query_up", 1)
  /\ UNCHANGED <<applied, recorded, reverted, faults>>

MutantStopsEarly(r) ==
  LET v == runner[r].version
  IN /\ At(r, "query_up")
     /\ \/ v >= Latest /\ Goes(r, "ready", 1)
        \/ v < Latest /\ v \in recorded /\ Goes(r, "query_up", v + 1)
        \/ v < Latest /\ v \notin recorded /\ Goes(r, "apply", v)
     /\ UNCHANGED <<schema, faults>>

MutantOnePastEnd(r) ==
  LET v == runner[r].version
  IN /\ At(r, "query_up")
     /\ \/ v > Latest + 1 /\ Goes(r, "ready", 1)
        \/ v \in recorded /\ Goes(r, "query_up", v + 1)
        \/ v <= Latest + 1 /\ v \notin recorded /\ Goes(r, "apply", v)
     /\ UNCHANGED <<schema, faults>>

\* A version that is recorded is skipped; after the last one Up returns nil.
QueryUp(r) ==
  LET v == runner[r].version
  IN /\ At(r, "query_up")
     /\ \/ v > Latest /\ Goes(r, "ready", 1)
        \/ v \in recorded /\ Goes(r, "query_up", v + 1)
        \/ v \in Versions \ recorded /\ Goes(r, "apply", v)
     /\ UNCHANGED <<schema, faults>>

MutantFailsIfExists(r) ==
  LET v == runner[r].version
  IN /\ At(r, "apply")
     /\ applied' = applied \cup {v}
     /\ IF v \in applied THEN Goes(r, "idle", 1) ELSE Goes(r, "record", v)
     /\ UNCHANGED <<ledger, recorded, reverted, faults>>

Apply(r) ==
  LET v == runner[r].version
  IN /\ At(r, "apply")
     /\ applied' = applied \cup {v}
     /\ Goes(r, "record", v)
     /\ UNCHANGED <<ledger, recorded, reverted, faults>>

MutantRecordsNext(r) ==
  LET v == runner[r].version
  IN /\ At(r, "record")
     /\ recorded' = recorded \cup ({v, v + 1} \cap Versions)
     /\ Goes(r, "query_up", v + 1)
     /\ UNCHANGED <<ledger, applied, reverted, faults>>

Record(r) ==
  LET v == runner[r].version
  IN /\ At(r, "record")
     /\ recorded' = recorded \cup {v}
     /\ Goes(r, "query_up", v + 1)
     /\ UNCHANGED <<ledger, applied, reverted, faults>>

-----------------------------------------------------------------------------
(* Down, which no replica runs by itself.                                  *)

BeginDown(r) ==
  /\ At(r, "idle")
  /\ ledger
  /\ Goes(r, "query_down", Latest)
  /\ UNCHANGED <<schema, faults>>

QueryDown(r) ==
  LET v == runner[r].version
  IN /\ At(r, "query_down")
     /\ \/ v = 0 /\ Goes(r, "idle", 1)
        \/ v \in recorded /\ Goes(r, "revert", v)
        \/ v \in Versions \ recorded /\ Goes(r, "query_down", v - 1)
     /\ UNCHANGED <<schema, faults>>

Revert(r) ==
  LET v == runner[r].version
  IN /\ At(r, "revert")
     /\ applied' = applied \ {v}
     /\ reverted' = reverted \cup {v}
     /\ Goes(r, "unrecord", v)
     /\ UNCHANGED <<ledger, recorded, faults>>

Unrecord(r) ==
  LET v == runner[r].version
  IN /\ At(r, "unrecord")
     /\ recorded' = recorded \ {v}
     /\ Goes(r, "query_down", v - 1)
     /\ UNCHANGED <<ledger, applied, reverted, faults>>

-----------------------------------------------------------------------------
(* A statement fails, or the process stops: what was done stays done, and  *)
(* the next run starts over.                                               *)

Interrupt(r) ==
  /\ ~At(r, "idle")
  /\ faults < MaxFaults
  /\ faults' = faults + 1
  /\ Goes(r, "idle", 1)
  /\ UNCHANGED schema

MigrateUp(r) == QueryUp(r) \/ Apply(r) \/ Record(r)

MigrateDown(r) == QueryDown(r) \/ Revert(r) \/ Unrecord(r)

-----------------------------------------------------------------------------
SchemaTypeOK ==
  /\ ledger \in BOOLEAN
  /\ applied \subseteq Versions
  /\ recorded \subseteq Versions
  /\ reverted \subseteq Versions
  /\ runner \in [Runners -> [pc : Step, version : 0 .. (Latest + 1)]]
  /\ faults \in 0 .. MaxFaults

\* A version is recorded only if its script has run: however many replicas run
\* Up at once and wherever they stop, schema_migrations never says of tables
\* that they are there when they are not, unless a Down has dropped them.
RecordedIsApplied == recorded \subseteq applied \cup reverted
=============================================================================
