------------------------------- MODULE Catalog -------------------------------
(***************************************************************************)
(* The layered catalog (syntaqlite/src/analysis/catalog.rs) under the      *)
(* analyzer that fills it (analysis/engine/mod.rs).                        *)
(*                                                                         *)
(* A name is looked up in the Document, Connection, Database and Dialect   *)
(* layers, in that order: the first layer that defines or tombstones it    *)
(* decides.  A call of Analyzer::analyze clears the Document layer, runs   *)
(* one pass over the document and, in Execute mode, merges the Document    *)
(* layer into the Connection layer.  An INCLUDE the resolver knows runs a  *)
(* nested pass whose DDL goes to the Database layer.                       *)
(*                                                                         *)
(* One action is one statement: accumulate_ddl applies it to the catalog,  *)
(* then the walker checks it against the catalog it has just changed.      *)
(***************************************************************************)
EXTENDS SchemaDdl

CONSTANTS
  Dialect,      \* built-in relations of the dialect: a Schema
  Fn, Arity,    \* function names, and the arities of their overloads
  Resolvable,   \* the modules the resolver has a source for
  Modes,        \* the analysis modes the host selects
  Statements,   \* the statements a document may hold
  ModuleStatements, \* the statements an imported module may hold
  HostTables,   \* the <<name, columns>> the host registers
  Preloaded     \* the relations from_ddl or from_json put in the database

Layer    == {"Database", "Connection", "Document"}
NoTables == [n \in Name |-> None]

ASSUME CatalogAssumption ==
  /\ Dialect \in [Name -> {None} \cup [cols : Columns, kind : {"builtin"}]]
  /\ Preloaded \in [Name -> {None} \cup [cols : Columns, kind : Created]]
  /\ Resolvable \subseteq Module
  /\ Modes \subseteq {"Document", "Execute"}
  /\ Statements \subseteq Statement /\ ModuleStatements \subseteq Statement
  /\ HostTables \subseteq Name \X Columns

VARIABLES
  mode,      \* Analyzer.mode
  rel,       \* per layer, the relations it defines
  gone,      \* per layer, the relations it tombstones
  fns,       \* per layer, the overload set of each function, {} when absent
  imports,   \* modules marked imported on the Database layer
  retired,   \* relations the statement just applied has removed
  frames,    \* the running passes, outermost first
  stmt,      \* the last statement of the document
  verdict    \* what the walker flagged it with

layers == <<rel, gone, fns>>
vars   == <<mode, rel, gone, fns, imports, retired, frames, stmt, verdict>>

-----------------------------------------------------------------------------
(* Resolution *)

Hit(l, n) == n \in gone[l] \/ rel[l][n] # None
At(l, n)  == IF n \in gone[l] THEN None ELSE rel[l][n]

InDatabase(n)   == IF Hit("Database", n) THEN At("Database", n) ELSE Dialect[n]
InConnection(n) == IF Hit("Connection", n) THEN At("Connection", n)
                                           ELSE InDatabase(n)
Visible(n)      == IF Hit("Document", n) THEN At("Document", n)
                                         ELSE InConnection(n)

(* A plausible slip: the built-in guard of ALTER and DROP dropped *)
NeverBuiltin(n) == FALSE
IsBuiltin(n) == (\A l \in Layer : ~Hit(l, n)) /\ Dialect[n] # None

(* The arities a call of f is accepted with: the innermost overload set. *)
Accepted(f) ==
  IF fns["Document"][f] # {} THEN fns["Document"][f]
  ELSE IF fns["Connection"][f] # {} THEN fns["Connection"][f]
  ELSE fns["Database"][f]

ColumnsOfSource(n) == IF Visible(n) = None THEN Unknown ELSE Visible(n).cols

-----------------------------------------------------------------------------
(* What one layer can do *)

(* A plausible slip: a removal that only tombstones.                        *)
TombstoneOnly(l, n) ==
  /\ UNCHANGED rel
  /\ gone' = [gone EXCEPT ![l] = @ \cup {n}]

InsertEntry(l, n, e) ==
  /\ rel'  = [rel  EXCEPT ![l][n] = e]
  /\ gone' = [gone EXCEPT ![l] = @ \ {n}]

RemoveRelation(l, n) ==
  /\ rel'  = [rel  EXCEPT ![l][n] = None]
  /\ gone' = [gone EXCEPT ![l] = @ \cup {n}]

(* An insert of `new` followed by a removal of `old`, in this order. *)
MoveEntry(l, old, new, e) ==
  /\ rel'  = [rel  EXCEPT ![l] = [[@ EXCEPT ![new] = e] EXCEPT ![old] = None]]
  /\ gone' = [gone EXCEPT ![l] = (@ \ {new}) \cup {old}]

(* merge_from: tombstones delete, definitions overwrite.  The tombstones    *)
(* themselves are not copied, and an overload set replaces the other one.   *)
MergedWithoutRemovals(mine, other, tombs) ==  \* a slip: tombstones ignored
  [n \in Name |-> IF other[n] # None THEN other[n] ELSE mine[n]]
Merged(mine, other, tombs) ==
  [n \in Name |-> IF other[n] # None THEN other[n]
                  ELSE IF n \in tombs THEN None ELSE mine[n]]
FirstOverloadsWin(mine, other) ==  \* a slip: the older set is kept
  [f \in Fn |-> IF mine[f] # {} THEN mine[f] ELSE other[f]]
MergedFns(mine, other) ==
  [f \in Fn |-> IF other[f] # {} THEN other[f] ELSE mine[f]]

EmptyFns == [f \in Fn |-> {}]
Cleared(ls) ==
  /\ rel'  = [l \in Layer |-> IF l \in ls THEN NoTables ELSE rel[l]]
  /\ gone' = [l \in Layer |-> IF l \in ls THEN {} ELSE gone[l]]
  /\ fns'  = [l \in Layer |-> IF l \in ls THEN EmptyFns ELSE fns[l]]

-----------------------------------------------------------------------------
(* The statements.  `t` is the layer the pass writes DDL to. *)

Running == frames # <<>>
Top     == frames[Len(frames)]
Depth   == Len(frames)

(* The pass over an imported module throws its diagnostics away. *)
ReportAlways(s, v) == stmt' = s /\ verdict' = v  \* a slip: also for imports
Report(s, v) ==
  IF Depth = 1 THEN stmt' = s /\ verdict' = v ELSE UNCHANGED <<stmt, verdict>>

Ignored == retired' = {} /\ UNCHANGED <<rel, gone>>

(* walk_schema_target: the catalog has already applied the statement, so a  *)
(* name the statement itself removed still counts as defined.               *)
Defined(n) == Visible(n) # None \/ n \in retired

DoCreate(t, s) ==
  LET twice == s.kind = "table" /\ HasDuplicate(s.list) IN
  /\ IF twice THEN Ignored
     ELSE /\ InsertEntry(t, s.name, Relation(s.kind, Listed(s.list)))
          /\ retired' = {}
  /\ Report(s, IF twice THEN "duplicate" ELSE "ok")

(* The walker looks the source up after the new table went in. *)
DoCreateAs(t, s) ==
  /\ InsertEntry(t, s.name, Relation("table", ColumnsOfSource(s.source)))
  /\ retired' = {}
  /\ Report(s, IF Visible(s.source)' = None THEN "unknown" ELSE "ok")

(* walk_alter_target, for a rejection the catalog has noted *)
AlterVerdict(n, rejected) ==
  IF ~Defined(n)' THEN "unknown"
  ELSE IF IsBuiltin(n)' THEN "builtin"
  ELSE rejected

DoAlterColumn(t, s) ==
  LET e == Visible(s.name)
      refused == e = None \/ IsBuiltin(s.name)
      rejected == IF refused THEN "ok" ELSE Objection(e.cols, s)
  IN /\ IF refused \/ rejected # "ok" THEN Ignored
        ELSE /\ InsertEntry(t, s.name, [e EXCEPT !.cols = Changed(e.cols, s)])
             /\ retired' = {}
     /\ Report(s, AlterVerdict(s.name, rejected))

DoRenameTable(t, s) ==
  /\ IF Visible(s.name) = None \/ IsBuiltin(s.name) THEN Ignored
     ELSE /\ MoveEntry(t, s.name, s.to, Visible(s.name))
          /\ retired' = {s.name}
  /\ Report(s, AlterVerdict(s.name, "ok"))

(* accumulate_drop, then walk_drop *)
DropVerdict(s) ==
  IF ~Defined(s.name) THEN IF s.ifExists THEN "ok" ELSE "unknown"
  ELSE IF IsBuiltin(s.name) THEN "builtin"
  ELSE IF Visible(s.name) # None
          /\ (Visible(s.name).kind = "view") # (s.kind = "view")
    THEN "wrongKind"
  ELSE "ok"

DoDrop(t, s) ==
  LET e == Visible(s.name) IN
  /\ IF ~IsBuiltin(s.name) /\ e # None
        /\ (e.kind = "view") = (s.kind = "view")
     THEN RemoveRelation(t, s.name) /\ retired' = {s.name}
     ELSE Ignored
  /\ Report(s, DropVerdict(s)')

DoQuery(s) ==
  /\ Ignored
  /\ Report(s, IF Visible(s.name)' = None THEN "unknown" ELSE "ok")

DoOther(s) == Ignored /\ Report(s, "ok")

(* One statement of the running pass. *)
Apply(t, s) ==
  \/ s.op = "create" /\ DoCreate(t, s)
  \/ s.op = "createAs" /\ DoCreateAs(t, s)
  \/ s \in ColumnChange /\ DoAlterColumn(t, s)
  \/ s.op = "renameTable" /\ DoRenameTable(t, s)
  \/ s.op = "drop" /\ DoDrop(t, s)
  \/ s.op = "query" /\ DoQuery(s)
  \/ s.op = "other" /\ DoOther(s)

AnalyzeStatement ==
  /\ Running
  /\ \E s \in IF Depth = 1 THEN Statements ELSE ModuleStatements :
       Apply(Top.target, s)
  /\ UNCHANGED <<mode, fns, imports, frames>>

(* CREATE FUNCTION adds an overload to the set of the layer it writes to. *)
DefineFunction ==
  /\ Running
  /\ \E f \in Fn, a \in Arity :
       fns' = [fns EXCEPT ![Top.target][f] = @ \cup {a}]
  /\ retired' = {}
  /\ Report([op |-> "other"], "ok")
  /\ UNCHANGED <<mode, rel, gone, imports, frames>>

-----------------------------------------------------------------------------
(* Imports *)

IncludeOf(m) == [op |-> "include", module |-> m, resolved |-> m \in Resolvable]

(* A module already imported, or one the resolver does not know. *)
SkipImport ==
  /\ Running
  /\ \E m \in Module :
       /\ m \in imports \/ m \notin Resolvable
       /\ Report(IncludeOf(m),
                 IF m \in imports THEN "ok" ELSE "unknownModule")
  /\ retired' = {}
  /\ UNCHANGED <<mode, rel, gone, fns, imports, frames>>

(* A plausible slip: the module is to be marked when its pass ends *)
ImportUnmarked ==
  /\ Running
  /\ \E m \in Resolvable \ imports :
       /\ frames' = Append(frames, [target |-> "Database", module |-> m])
       /\ Report(IncludeOf(m), "ok")
  /\ retired' = {}
  /\ UNCHANGED <<mode, rel, gone, fns, imports>>

(* Marked before its source is analysed. *)
ImportModule ==
  /\ Running
  /\ \E m \in Resolvable \ imports :
       /\ imports' = imports \cup {m}
       /\ frames' = Append(frames, [target |-> "Database", module |-> m])
       /\ Report(IncludeOf(m), "ok")
  /\ retired' = {}
  /\ UNCHANGED <<mode, rel, gone, fns>>

EndImport ==
  /\ Depth > 1
  /\ frames' = SubSeq(frames, 1, Depth - 1)
  /\ UNCHANGED <<mode, rel, gone, fns, imports, retired, stmt, verdict>>

-----------------------------------------------------------------------------
(* Calls of Analyzer::analyze *)

NewDocument ==
  /\ Cleared({"Document"})
  /\ retired' = {}

BeginAnalyze ==
  /\ ~Running
  /\ NewDocument
  /\ frames' = <<[target |-> "Document", module |-> None]>>
  /\ stmt' = [op |-> "other"] /\ verdict' = "ok"
  /\ UNCHANGED <<mode, imports>>

PromoteDocumentToConnection ==
  /\ rel' = [rel EXCEPT !["Connection"] =
               Merged(@, rel["Document"], gone["Document"])]
  /\ fns' = [fns EXCEPT !["Connection"] = MergedFns(@, fns["Document"])]
  /\ UNCHANGED gone

EndAnalyze ==
  /\ Depth = 1
  /\ frames' = <<>>
  /\ IF mode = "Execute" THEN PromoteDocumentToConnection ELSE UNCHANGED layers
  /\ UNCHANGED <<mode, imports, retired, stmt, verdict>>

-----------------------------------------------------------------------------
(* The host, between calls *)

SetMode ==
  /\ ~Running
  /\ mode' \in Modes
  /\ UNCHANGED <<rel, gone, fns, imports, retired, frames, stmt, verdict>>

NewDatabase ==
  /\ ~Running
  /\ Cleared(Layer)
  /\ imports' = {}
  /\ UNCHANGED <<mode, retired, frames, stmt, verdict>>

NewConnection ==
  /\ ~Running
  /\ Cleared({"Connection", "Document"})
  /\ UNCHANGED <<mode, imports, retired, frames, stmt, verdict>>

AddTable ==
  /\ ~Running
  /\ \E h \in HostTables :
       InsertEntry("Database", h[1], Relation("table", h[2]))
  /\ UNCHANGED <<mode, fns, imports, retired, frames, stmt, verdict>>

-----------------------------------------------------------------------------
Init ==
  /\ mode \in Modes
  /\ rel = [l \in Layer |-> IF l = "Database" THEN Preloaded ELSE NoTables]
  /\ gone = [l \in Layer |-> {}]
  /\ fns = [l \in Layer |-> EmptyFns]
  /\ imports = {} /\ retired = {}
  /\ frames = <<>>
  /\ stmt = [op |-> "other"] /\ verdict = "ok"

Next ==
  \/ BeginAnalyze \/ AnalyzeStatement \/ DefineFunction \/ EndAnalyze
  \/ SkipImport \/ ImportModule \/ EndImport
  \/ SetMode \/ NewDatabase \/ NewConnection \/ AddTable

Spec == Init /\ [][Next]_vars

-----------------------------------------------------------------------------
Frame == [target : {"Document", "Database"}, module : {None} \cup Module]
Stored == [cols : Columns, kind : Created]

Verdicts == {"ok", "unknown", "builtin", "duplicate", "missing", "wrongKind",
             "unknownModule"}

(* The variables have their types: a layer holds relations, never a built-in. *)
TypeOK ==
  /\ mode \in {"Document", "Execute"}
  /\ rel \in [Layer -> [Name -> {None} \cup Stored]]
  /\ gone \in [Layer -> SUBSET Name]
  /\ fns \in [Layer -> [Fn -> SUBSET Arity]]
  /\ imports \in SUBSET Resolvable
  /\ retired \in SUBSET Name
  /\ frames \in Seq(Frame)
  /\ stmt \in Statement
  /\ verdict \in Verdicts

(* No layer both defines a relation and tombstones it: lookup (which asks  *)
(* for the tombstone first) and merge_from (which deletes first and        *)
(* inserts second) would disagree on such a name.                          *)
LayersDisjoint ==
  \A l \in Layer, n \in Name : n \in gone[l] => rel[l][n] = None

(* Every module is analysed at most once for a database, whatever the      *)
(* import graph: a running module is marked already, no module runs twice  *)
(* at once, and the nesting is bounded by the number of modules.  This is  *)
(* what makes an import cycle terminate.                                   *)
ImportsRunOnce ==
  /\ \A i \in 2 .. Depth : frames[i].module \in imports
  /\ \A i, j \in 2 .. Depth :
       frames[i].module = frames[j].module => i = j

(* Between two calls of an Execute session no function changes: the calls  *)
(* the next document may make are those the last one could end with, also  *)
(* when a module it imported defined the same function in the Database.    *)
FunctionsPersistAcrossCalls ==
  [][(mode = "Execute" /\ ~Running /\ Running')
       => \A f \in Fn : Accepted(f)' = Accepted(f)]_vars

(* The catalog implements a database session: see DbSession. *)
Session == INSTANCE DbSession WITH
  running <- frames # <<>>,
  disk    <- [n \in Name |-> InDatabase(n)],
  saved   <- [n \in Name |-> InConnection(n)],
  schema  <- [n \in Name |-> Visible(n)]

ImplementsSession == Session!AbsSpec

(* Where layers and a flat schema part.  A statement that renames a table  *)
(* to its own name, or creates one from itself, is applied in two steps    *)
(* the second of which looks at the first; promotion deletes from the      *)
(* Connection layer what the Database layer still has; and what the        *)
(* Connection or the Document layer hides, a change of the Database layer  *)
(* does not reach.  Every other step is one of the session.                *)
OfItself(s) ==
  \/ s.op = "renameTable" /\ s.to = s.name
  \/ s.op = "createAs" /\ s.source = s.name
Undisputed ==
  /\ ~OfItself(stmt')
  /\ mode = "Execute" /\ Running /\ ~Running' =>
       \A n \in gone["Document"] : InDatabase(n) = None
  /\ \A n \in Name : InDatabase(n)' # InDatabase(n) =>
       ~Hit("Connection", n)' /\ (Running => ~Hit("Document", n)')

-----------------------------------------------------------------------------
(* Statements of the documentation that the code does not keep.            *)

(* "In Execute mode, DDL accumulates across calls [...] matching the       *)
(* behaviour of an interactive database session": what the end of one call *)
(* sees is what the next call starts from.                                 *)
DdlPersistsAcrossCalls ==
  [][(mode = "Execute" /\ ~Running /\ Running')
       => \A n \in Name : Visible(n)' = Visible(n)]_vars

=============================================================================
