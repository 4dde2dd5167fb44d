------------------------------ MODULE DbSession ------------------------------
(***************************************************************************)
(* What the catalog and the analyzer promise together: a database session  *)
(* as its user sees it, without layers, tombstones or promotion.           *)
(*                                                                         *)
(*   disk    the schema a new connection would see                         *)
(*   saved   the schema a new document on this connection would see        *)
(*   schema  the schema the next statement of the document sees            *)
(*   stmt    the last statement of the document                            *)
(*   verdict what that statement was flagged with                          *)
(*                                                                         *)
(* A statement is judged on the schema in front of it and changes `schema` *)
(* only.  The end of a call in Execute mode makes that the schema of the   *)
(* connection; in Document mode the next call forgets it.                  *)
(***************************************************************************)
EXTENDS SchemaDdl

CONSTANT
  Dialect   \* the dialect's built-in relations: a Schema

VARIABLES mode, running, disk, saved, schema, stmt, verdict

absVars == <<mode, running, disk, saved, schema, stmt, verdict>>

AbsInit ==
  /\ mode \in {"Document", "Execute"}
  /\ running = FALSE
  /\ disk \in Schema
  /\ saved = disk
  /\ schema = disk
  /\ stmt = [op |-> "other"]
  /\ verdict = "ok"

-----------------------------------------------------------------------------
IsBuiltinIn(sch, n) == sch[n] # None /\ sch[n].kind = "builtin"

(* A statement is judged on the schema before it. *)
SchemaChangeVerdict(sch, s) ==
  IF sch[s.name] = None
    THEN IF s.op = "drop" /\ s.ifExists THEN "ok" ELSE "unknown"
  ELSE IF IsBuiltinIn(sch, s.name) THEN "builtin"
  ELSE IF s.op = "drop"
    THEN IF sch[s.name].kind = s.kind THEN "ok" ELSE "wrongKind"
  ELSE IF s.op = "renameTable" THEN "ok"
  ELSE Objection(sch[s.name].cols, s)

Verdict(sch, s) ==
  IF s.op = "create"
    THEN IF s.kind = "table" /\ HasDuplicate(s.list) THEN "duplicate" ELSE "ok"
  ELSE IF s.op = "createAs"
    THEN IF sch[s.source] = None THEN "unknown" ELSE "ok"
  ELSE IF s.op = "query" THEN IF sch[s.name] = None THEN "unknown" ELSE "ok"
  ELSE IF s.op = "include" THEN IF s.resolved THEN "ok" ELSE "unknownModule"
  ELSE IF s.op = "other" THEN "ok"
  ELSE SchemaChangeVerdict(sch, s)

(* A CREATE TABLE AS takes over the columns of its source. *)
ColumnsOf(sch, n) == IF sch[n] = None THEN Unknown ELSE sch[n].cols

(* The schema after a statement.  A flagged statement changes nothing, but *)
(* for the CREATE TABLE AS of an unknown source: its table is known to     *)
(* exist, with unknown columns.                                            *)
After(sch, s) ==
  IF s.op = "createAs"
    THEN [sch EXCEPT ![s.name] = Relation("table", ColumnsOf(sch, s.source))]
  ELSE IF Verdict(sch, s) # "ok" \/ s.op \in {"query", "include", "other"}
    THEN sch
  ELSE IF s.op = "create"
    THEN [sch EXCEPT ![s.name] = Relation(s.kind, Listed(s.list))]
  ELSE IF s.op = "drop" THEN [sch EXCEPT ![s.name] = None]
  ELSE IF s.op = "renameTable"
    THEN [sch EXCEPT ![s.name] = None, ![s.to] = sch[s.name]]
  ELSE [sch EXCEPT ![s.name].cols = Changed(@, s)]
-----------------------------------------------------------------------------
AbsSetMode ==
  /\ ~running
  /\ mode' \in {"Document", "Execute"}
  /\ UNCHANGED <<running, disk, saved, schema, stmt, verdict>>

(* The host empties the database, or reconnects. *)
AbsNewDatabase ==
  /\ ~running
  /\ disk' = Dialect /\ saved' = Dialect /\ schema' = Dialect
  /\ UNCHANGED <<mode, running, stmt, verdict>>

AbsNewConnection ==
  /\ ~running
  /\ saved' = disk /\ schema' = disk
  /\ UNCHANGED <<mode, running, disk, stmt, verdict>>

AbsBegin ==
  /\ ~running
  /\ running' = TRUE
  /\ schema' = saved
  /\ stmt' = [op |-> "other"] /\ verdict' = "ok"
  /\ UNCHANGED <<mode, disk, saved>>

AbsEnd ==
  /\ running
  /\ running' = FALSE
  /\ saved' = IF mode = "Execute" THEN schema ELSE saved
  /\ UNCHANGED <<mode, disk, schema, stmt, verdict>>

AbsStatement ==
  /\ running
  /\ stmt' \in Statement
  /\ verdict' = Verdict(schema, stmt')
  /\ schema' = After(schema, stmt')
  /\ UNCHANGED <<mode, running, disk, saved>>

(* The host, or a statement of an imported module, gives a relation of the *)
(* database (two, when it is renamed) another value: the connection and    *)
(* the running document see it at once.  What the last document left       *)
(* behind may go on hiding it until the next call.                         *)
AbsDatabaseChange ==
  /\ disk' \in Schema /\ saved' \in Schema
  /\ \E m, n \in Name :
       LET With(sch) == [sch EXCEPT ![m] = disk'[m], ![n] = disk'[n]]
       IN  /\ disk' = With(disk) /\ saved' = With(saved)
           /\ \/ schema' = With(schema)
              \/ ~running /\ schema' = schema
  /\ UNCHANGED <<mode, running, stmt, verdict>>

AbsNext ==
  \/ AbsSetMode \/ AbsNewDatabase \/ AbsNewConnection
  \/ AbsBegin \/ AbsStatement \/ AbsEnd \/ AbsDatabaseChange

AbsSpec == AbsInit /\ [][AbsNext]_absVars
=============================================================================
