---------------------------- MODULE CatalogProofs ----------------------------
(***************************************************************************)
(* Catalog keeps its types and its layers disjoint, runs every import once *)
(* and implements the database session of DbSession, for every set of      *)
(* names, columns, modules and statements.                                 *)
(*                                                                         *)
(* LayersDisjoint is not inductive on its own: promotion writes into the   *)
(* Connection layer without touching its tombstones, so it must have none. *)
(***************************************************************************)
EXTENDS Catalog, TLAPS

ConnectionHasNoTombstone == gone["Connection"] = {}

IInv == TypeOK /\ LayersDisjoint /\ ConnectionHasNoTombstone

(* What a statement can see of a relation is a relation, and a relation a   *)
(* statement may change is never a built-in one.                            *)
LEMMA VisibleType ==
  ASSUME TypeOK, NEW n \in Name
  PROVE  /\ Visible(n) \in Slot
         /\ Visible(n) # None /\ ~IsBuiltin(n) => Visible(n) \in Stored
BY CatalogAssumption
   DEF TypeOK, Visible, InConnection, InDatabase, Hit, At, IsBuiltin, Slot,
       Entry, Stored, Kind, Created, Layer

LEMMA ColumnsOfSourceType ==
  ASSUME TypeOK, NEW n \in Name
  PROVE  ColumnsOfSource(n) \in Columns
BY VisibleType, NoneIsNoEntry DEF ColumnsOfSource, Slot, Entry, Columns

LEMMA ChangedType ==
  ASSUME NEW cols \in Columns, NEW s \in ColumnChange
  PROVE  Changed(cols, s) \in Columns
BY DEF Changed, Columns, ColumnChange, AddCol, DropCol, RenameCol

(* What an insert, a removal and a rename do to a well-formed catalog. *)
Relations == rel \in [Layer -> [Name -> {None} \cup Stored]]
Tombs     == gone \in [Layer -> SUBSET Name]

LEMMA InsertKeeps ==
  ASSUME IInv, NEW l \in {"Database", "Document"}, NEW n \in Name,
         NEW e \in Stored, InsertEntry(l, n, e)
  PROVE  Relations' /\ Tombs' /\ LayersDisjoint' /\ ConnectionHasNoTombstone'
BY DEF IInv, TypeOK, LayersDisjoint, ConnectionHasNoTombstone, InsertEntry,
       Relations, Tombs, Layer

LEMMA RemoveKeeps ==
  ASSUME IInv, NEW l \in {"Database", "Document"}, NEW n \in Name,
         RemoveRelation(l, n)
  PROVE  Relations' /\ Tombs' /\ LayersDisjoint' /\ ConnectionHasNoTombstone'
BY DEF IInv, TypeOK, LayersDisjoint, ConnectionHasNoTombstone, RemoveRelation,
       Relations, Tombs, Layer

LEMMA MoveKeeps ==
  ASSUME IInv, NEW l \in {"Database", "Document"}, NEW old \in Name,
         NEW new \in Name, NEW e \in Stored, MoveEntry(l, old, new, e)
  PROVE  Relations' /\ Tombs' /\ LayersDisjoint' /\ ConnectionHasNoTombstone'
BY DEF IInv, TypeOK, LayersDisjoint, ConnectionHasNoTombstone, MoveEntry,
       Relations, Tombs, Layer

LEMMA ClearedKeeps ==
  ASSUME IInv, NEW ls \in SUBSET Layer, Cleared(ls)
  PROVE  /\ Relations' /\ Tombs' /\ LayersDisjoint' /\ ConnectionHasNoTombstone'
         /\ fns' \in [Layer -> [Fn -> SUBSET Arity]]
BY DEF IInv, TypeOK, LayersDisjoint, ConnectionHasNoTombstone, Cleared,
       Relations, Tombs, Layer, NoTables, EmptyFns

LEMMA UnchangedKeeps ==
  ASSUME IInv, UNCHANGED <<rel, gone>>
  PROVE  Relations' /\ Tombs' /\ LayersDisjoint' /\ ConnectionHasNoTombstone'
BY DEF IInv, TypeOK, LayersDisjoint, ConnectionHasNoTombstone, Relations, Tombs

(* A running pass writes to the Database or the Document layer. *)
LEMMA TargetType ==
  ASSUME TypeOK, Running
  PROVE  Top \in Frame /\ Top.target \in {"Database", "Document"}
<1>1. frames \in Seq(Frame) /\ frames # <<>>
  BY DEF TypeOK, Running
<1>2. Len(frames) \in DOMAIN frames
  BY <1>1
<1>3. Top \in Frame
  BY <1>1, <1>2 DEF Top
<1>4. QED BY <1>3 DEF Frame

LEMMA ReportType ==
  ASSUME TypeOK, NEW s \in Statement, NEW v \in Verdicts, Report(s, v)
  PROVE  stmt' \in Statement /\ verdict' \in Verdicts
BY DEF TypeOK, Report

(* One statement: what it writes, what it retires, what it reports. *)
LEMMA ApplyKeeps ==
  ASSUME IInv, NEW t \in {"Database", "Document"}, NEW s \in Statement,
         Apply(t, s)
  PROVE  /\ Relations' /\ Tombs' /\ LayersDisjoint' /\ ConnectionHasNoTombstone'
         /\ retired' \in SUBSET Name
         /\ stmt' \in Statement /\ verdict' \in Verdicts
<1> DEFINE Good == /\ Relations' /\ Tombs' /\ LayersDisjoint'
                   /\ ConnectionHasNoTombstone'
                   /\ retired' \in SUBSET Name
                   /\ stmt' \in Statement /\ verdict' \in Verdicts
<1> USE DEF IInv
<1>i. Ignored => /\ Relations' /\ Tombs' /\ LayersDisjoint'
                 /\ ConnectionHasNoTombstone' /\ retired' \in SUBSET Name
  BY UnchangedKeeps DEF Ignored
<1>1. CASE s.op = "create" /\ DoCreate(t, s)
  <2>1. s \in Create
    BY <1>1 DEF Statement, Create, CreateAs, Alter, ColumnChange, AddCol,
                DropCol, RenameCol, RenameTo, Drop, Query, Include, Other
  <2>2. s.name \in Name /\ Relation(s.kind, Listed(s.list)) \in Stored
    BY <2>1 DEF Create, Relation, Listed, Stored, Columns, Created
  <2>3. stmt' \in Statement /\ verdict' \in Verdicts
    BY <1>1, ReportType DEF DoCreate, Verdicts
  <2>4. CASE s.kind = "table" /\ HasDuplicate(s.list)
    BY <1>1, <1>i, <2>3, <2>4 DEF DoCreate
  <2>5. CASE ~(s.kind = "table" /\ HasDuplicate(s.list))
    <3>1. InsertEntry(t, s.name, Relation(s.kind, Listed(s.list)))
             /\ retired' = {}
      BY <1>1, <2>5 DEF DoCreate
    <3>2. QED BY <2>2, <2>3, <3>1, InsertKeeps
  <2>6. QED BY <2>4, <2>5
<1>2. CASE s.op = "createAs" /\ DoCreateAs(t, s)
  <2>1. s \in CreateAs
    BY <1>2 DEF Statement, Create, CreateAs, Alter, ColumnChange, AddCol,
                DropCol, RenameCol, RenameTo, Drop, Query, Include, Other
  <2>2. s.name \in Name /\ Relation("table", ColumnsOfSource(s.source)) \in Stored
    BY <2>1, ColumnsOfSourceType DEF CreateAs, Relation, Stored, Created
  <2>3. stmt' \in Statement /\ verdict' \in Verdicts
    BY <1>2, ReportType DEF DoCreateAs, Verdicts
  <2>4. QED BY <1>2, <2>2, <2>3, InsertKeeps DEF DoCreateAs
<1>3. CASE s \in ColumnChange /\ DoAlterColumn(t, s)
  <2> DEFINE e        == Visible(s.name)
             refused  == e = None \/ IsBuiltin(s.name)
             rejected == IF refused THEN "ok" ELSE Objection(e.cols, s)
             changed  == [e EXCEPT !.cols = Changed(e.cols, s)]
  <2>1. s.name \in Name
    BY <1>3 DEF ColumnChange, AddCol, DropCol, RenameCol
  <2>2. rejected \in Verdicts /\ AlterVerdict(s.name, rejected) \in Verdicts
    BY DEF Objection, AlterVerdict, Verdicts
  <2>3. Report(s, AlterVerdict(s.name, rejected))
    BY <1>3 DEF DoAlterColumn
  <2>4. stmt' \in Statement /\ verdict' \in Verdicts
    <3> HIDE DEF rejected
    <3> QED BY <2>2, <2>3, ReportType
  <2>5. CASE refused \/ rejected # "ok"
    BY <1>3, <1>i, <2>4, <2>5 DEF DoAlterColumn
  <2>6. CASE ~(refused \/ rejected # "ok")
    <3>1. e \in Stored
      BY <2>1, <2>6, VisibleType
    <3>2. Changed(e.cols, s) \in Columns
      BY <1>3, <3>1, ChangedType DEF Stored
    <3>3. changed \in Stored
      BY <3>1, <3>2 DEF Stored
    <3>4. InsertEntry(t, s.name, changed) /\ retired' = {}
      BY <1>3, <2>6 DEF DoAlterColumn
    <3>5. QED
      <4> HIDE DEF changed
      <4> QED BY <2>1, <2>4, <3>3, <3>4, InsertKeeps
  <2>7. QED BY <2>5, <2>6
<1>4. CASE s.op = "renameTable" /\ DoRenameTable(t, s)
  <2>1. s \in RenameTo
    BY <1>4 DEF Statement, Create, CreateAs, Alter, ColumnChange, AddCol,
                DropCol, RenameCol, RenameTo, Drop, Query, Include, Other
  <2>2. s.name \in Name /\ s.to \in Name
    BY <2>1 DEF RenameTo
  <2>3. AlterVerdict(s.name, "ok") \in Verdicts
    BY DEF AlterVerdict, Verdicts
  <2>4. stmt' \in Statement /\ verdict' \in Verdicts
    BY <1>4, <2>3, ReportType DEF DoRenameTable
  <2>5. CASE Visible(s.name) = None \/ IsBuiltin(s.name)
    BY <1>4, <1>i, <2>4, <2>5 DEF DoRenameTable
  <2>6. CASE ~(Visible(s.name) = None \/ IsBuiltin(s.name))
    <3>1. Visible(s.name) \in Stored
      BY <2>2, <2>6, VisibleType
    <3>2. MoveEntry(t, s.name, s.to, Visible(s.name)) /\ retired' = {s.name}
      BY <1>4, <2>6 DEF DoRenameTable
    <3>3. QED BY <2>2, <2>4, <3>1, <3>2, MoveKeeps
  <2>7. QED BY <2>5, <2>6
<1>5. CASE s.op = "drop" /\ DoDrop(t, s)
  <2>1. s \in Drop
    BY <1>5 DEF Statement, Create, CreateAs, Alter, ColumnChange, AddCol,
                DropCol, RenameCol, RenameTo, Drop, Query, Include, Other
  <2>2. s.name \in Name
    BY <2>1 DEF Drop
  <2>3. DropVerdict(s)' \in Verdicts
    BY DEF DropVerdict, Verdicts
  <2>4. stmt' \in Statement /\ verdict' \in Verdicts
    BY <1>5, <2>3, ReportType DEF DoDrop
  <2>5. Ignored \/ (RemoveRelation(t, s.name) /\ retired' = {s.name})
    BY <1>5 DEF DoDrop
  <2>6. QED BY <1>i, <2>2, <2>4, <2>5, RemoveKeeps
<1>6. CASE s.op = "query" /\ DoQuery(s)
  <2>1. stmt' \in Statement /\ verdict' \in Verdicts
    BY <1>6, ReportType DEF DoQuery, Verdicts
  <2>2. QED BY <1>6, <1>i, <2>1 DEF DoQuery
<1>7. CASE s.op = "other" /\ DoOther(s)
  <2>1. stmt' \in Statement /\ verdict' \in Verdicts
    BY <1>7, ReportType DEF DoOther, Verdicts
  <2>2. QED BY <1>7, <1>i, <2>1 DEF DoOther
<1>8. QED BY <1>1, <1>2, <1>3, <1>4, <1>5, <1>6, <1>7 DEF Apply

(* The statements of both kinds of pass are statements. *)
LEMMA AnalyzeStatementKeeps ==
  ASSUME IInv, AnalyzeStatement
  PROVE  IInv'
<1>1. PICK s \in (IF Depth = 1 THEN Statements ELSE ModuleStatements) :
        Apply(Top.target, s)
  BY DEF AnalyzeStatement
<1>2. s \in Statement
  BY <1>1, CatalogAssumption
<1>3. Top.target \in {"Database", "Document"}
  BY TargetType DEF AnalyzeStatement, IInv
<1>4. /\ Relations' /\ Tombs' /\ LayersDisjoint' /\ ConnectionHasNoTombstone'
      /\ retired' \in SUBSET Name
      /\ stmt' \in Statement /\ verdict' \in Verdicts
  BY <1>1, <1>2, <1>3, ApplyKeeps
<1>5. UNCHANGED <<mode, fns, imports, frames>>
  BY DEF AnalyzeStatement
<1>6. QED BY <1>4, <1>5 DEF IInv, TypeOK, Relations, Tombs

LEMMA DefineFunctionKeeps ==
  ASSUME IInv, DefineFunction
  PROVE  IInv'
<1>1. Top.target \in Layer
  BY TargetType DEF DefineFunction, IInv, Layer
<1>2. fns' \in [Layer -> [Fn -> SUBSET Arity]]
  BY <1>1 DEF DefineFunction, IInv, TypeOK
<1>3. [op |-> "other"] \in Statement
  BY DEF Statement, Other
<1>4. stmt' \in Statement /\ verdict' \in Verdicts
  BY <1>3, ReportType DEF DefineFunction, IInv, Verdicts
<1>5. QED
  BY <1>2, <1>4, UnchangedKeeps
     DEF DefineFunction, IInv, TypeOK, Relations, Tombs

LEMMA IncludeType ==
  ASSUME NEW m \in Module
  PROVE  IncludeOf(m) \in Statement
BY DEF IncludeOf, Statement, Include

LEMMA ImportsKeep ==
  ASSUME IInv, SkipImport \/ ImportModule \/ EndImport
  PROVE  IInv'
<1>1. CASE SkipImport
  <2>1. stmt' \in Statement /\ verdict' \in Verdicts
    BY <1>1, IncludeType, ReportType DEF SkipImport, IInv, Verdicts
  <2>2. QED BY <1>1, <2>1, UnchangedKeeps
              DEF SkipImport, IInv, TypeOK, Relations, Tombs
<1>2. CASE ImportModule
  <2>1. PICK m \in Resolvable \ imports :
          /\ imports' = imports \cup {m}
          /\ frames' = Append(frames, [target |-> "Database", module |-> m])
          /\ Report(IncludeOf(m), "ok")
    BY <1>2 DEF ImportModule
  <2>2. m \in Module /\ [target |-> "Database", module |-> m] \in Frame
    BY CatalogAssumption DEF Frame
  <2>3. frames' \in Seq(Frame)
    BY <2>1, <2>2 DEF IInv, TypeOK
  <2>4. stmt' \in Statement /\ verdict' \in Verdicts
    BY <2>1, <2>2, IncludeType, ReportType DEF IInv, Verdicts
  <2>5. imports' \in SUBSET Resolvable
    BY <2>1 DEF IInv, TypeOK
  <2>6. QED BY <1>2, <2>3, <2>4, <2>5, UnchangedKeeps
              DEF ImportModule, IInv, TypeOK, Relations, Tombs
<1>3. CASE EndImport
  <2>1. frames' \in Seq(Frame)
    BY <1>3 DEF EndImport, IInv, TypeOK, Depth
  <2>2. QED BY <1>3, <2>1, UnchangedKeeps
              DEF EndImport, IInv, TypeOK, Relations, Tombs
<1>4. QED BY <1>1, <1>2, <1>3

LEMMA BeginAnalyzeKeeps ==
  ASSUME IInv, BeginAnalyze
  PROVE  IInv'
<1>1. Cleared({"Document"})
  BY DEF BeginAnalyze, NewDocument
<1>2. /\ Relations' /\ Tombs' /\ LayersDisjoint' /\ ConnectionHasNoTombstone'
      /\ fns' \in [Layer -> [Fn -> SUBSET Arity]]
  BY <1>1, ClearedKeeps DEF Layer
<1>3. frames' \in Seq(Frame)
  BY DEF BeginAnalyze, Frame
<1>4. stmt' \in Statement /\ verdict' \in Verdicts
  BY DEF BeginAnalyze, Statement, Other, Verdicts
<1>5. QED BY <1>2, <1>3, <1>4
            DEF BeginAnalyze, NewDocument, IInv, TypeOK, Relations, Tombs

LEMMA EndAnalyzeKeeps ==
  ASSUME IInv, EndAnalyze
  PROVE  IInv'
<1>1. CASE mode = "Execute"
  <2>1. PromoteDocumentToConnection
    BY <1>1 DEF EndAnalyze
  <2>2. Relations'
    BY <2>1 DEF PromoteDocumentToConnection, Merged, IInv, TypeOK, Relations,
                Layer
  <2>3. fns' \in [Layer -> [Fn -> SUBSET Arity]]
    BY <2>1 DEF PromoteDocumentToConnection, MergedFns, IInv, TypeOK, Layer
  <2>4. LayersDisjoint'
    BY <2>1 DEF PromoteDocumentToConnection, IInv, TypeOK, LayersDisjoint,
                ConnectionHasNoTombstone, Layer
  <2>5. QED BY <2>1, <2>2, <2>3, <2>4
              DEF EndAnalyze, PromoteDocumentToConnection, IInv, TypeOK,
                  Relations, ConnectionHasNoTombstone
<1>2. CASE mode # "Execute"
  BY <1>2, UnchangedKeeps
     DEF EndAnalyze, layers, IInv, TypeOK, Relations, Tombs
<1>3. QED BY <1>1, <1>2

LEMMA HostKeeps ==
  ASSUME IInv, SetMode \/ NewDatabase \/ NewConnection \/ AddTable
  PROVE  IInv'
<1>1. CASE SetMode
  BY <1>1, CatalogAssumption, UnchangedKeeps
     DEF SetMode, IInv, TypeOK, Relations, Tombs
<1>2. CASE NewDatabase
  BY <1>2, ClearedKeeps DEF NewDatabase, IInv, TypeOK, Relations, Tombs
<1>3. CASE NewConnection
  BY <1>3, ClearedKeeps DEF NewConnection, IInv, TypeOK, Relations, Tombs, Layer
<1>4. CASE AddTable
  <2>1. PICK h \in HostTables :
          InsertEntry("Database", h[1], Relation("table", h[2]))
    BY <1>4 DEF AddTable
  <2>2. h[1] \in Name /\ Relation("table", h[2]) \in Stored
    BY CatalogAssumption DEF Relation, Stored, Created
  <2>3. QED BY <1>4, <2>1, <2>2, InsertKeeps
              DEF AddTable, IInv, TypeOK, Relations, Tombs
<1>5. QED BY <1>1, <1>2, <1>3, <1>4

LEMMA InitHolds == Init => IInv
<1> SUFFICES ASSUME Init PROVE IInv
  OBVIOUS
<1>1. rel \in [Layer -> [Name -> {None} \cup Stored]]
  BY CatalogAssumption DEF Init, NoTables, Stored
<1>2. stmt \in Statement
  BY DEF Init, Statement, Other
<1>3. QED BY <1>1, <1>2, CatalogAssumption
            DEF Init, IInv, TypeOK, LayersDisjoint, ConnectionHasNoTombstone,
                EmptyFns, Verdicts, Layer

LEMMA NextKeeps == IInv /\ [Next]_vars => IInv'
<1> SUFFICES ASSUME IInv, [Next]_vars PROVE IInv'
  OBVIOUS
<1>1. CASE UNCHANGED vars
  BY <1>1 DEF vars, IInv, TypeOK, LayersDisjoint, ConnectionHasNoTombstone
<1>2. CASE Next
  BY <1>2, AnalyzeStatementKeeps, DefineFunctionKeeps, ImportsKeep,
     BeginAnalyzeKeeps, EndAnalyzeKeeps, HostKeeps DEF Next
<1>3. QED BY <1>1, <1>2

(* Every reachable catalog is well-typed: in particular no statement, import *)
(* or promotion ever copies a built-in relation of the dialect into a layer. *)
THEOREM TypeCorrect == Spec => []TypeOK
<1>1. IInv => TypeOK
  BY DEF IInv
<1>2. QED BY <1>1, InitHolds, NextKeeps, PTL DEF Spec

(* No layer of a reachable catalog both defines and tombstones a name. *)
THEOREM LayersStayDisjoint == Spec => []LayersDisjoint
<1>1. IInv => LayersDisjoint
  BY DEF IInv
<1>2. QED BY <1>1, InitHolds, NextKeeps, PTL DEF Spec

-----------------------------------------------------------------------------
(* Imports, over any import graph. *)

LEMMA ImportsStep ==
  TypeOK /\ ImportsRunOnce /\ [Next]_vars => ImportsRunOnce'
<1> SUFFICES ASSUME TypeOK, ImportsRunOnce, [Next]_vars PROVE ImportsRunOnce'
  OBVIOUS
<1>0. frames \in Seq(Frame) /\ Depth \in Nat
  BY DEF TypeOK, Depth
<1>1. CASE ImportModule
  <2>1. PICK m \in Resolvable \ imports :
          /\ imports' = imports \cup {m}
          /\ frames' = Append(frames, [target |-> "Database", module |-> m])
    BY <1>1 DEF ImportModule
  <2>2. /\ Len(frames') = Len(frames) + 1
        /\ \A i \in 1 .. Len(frames) : frames'[i] = frames[i]
        /\ frames'[Len(frames) + 1].module = m
    BY <1>0, <2>1
  <2>3. QED BY <1>0, <2>1, <2>2 DEF ImportsRunOnce, Depth
<1>2. CASE EndImport
  <2>1. /\ Len(frames') = Len(frames) - 1
        /\ \A i \in 1 .. Len(frames) - 1 : frames'[i] = frames[i]
    BY <1>0, <1>2 DEF EndImport, Depth
  <2>2. QED BY <1>0, <1>2, <2>1 DEF EndImport, ImportsRunOnce, Depth
<1>3. CASE BeginAnalyze
  <2>1. Len(frames') = 1
    BY <1>3 DEF BeginAnalyze
  <2>2. QED BY <2>1 DEF ImportsRunOnce, Depth
<1>4. CASE EndAnalyze \/ NewDatabase
  <2>1. Len(frames') = 0
    BY <1>4 DEF EndAnalyze, NewDatabase, Running
  <2>2. QED BY <2>1 DEF ImportsRunOnce, Depth
<1>5. CASE UNCHANGED <<frames, imports>>
  BY <1>5 DEF ImportsRunOnce, Depth
<1>6. QED BY <1>1, <1>2, <1>3, <1>4, <1>5
            DEF Next, vars, AnalyzeStatement, DefineFunction, SkipImport,
                SetMode, NewConnection, AddTable

(* Whatever the modules import, none runs twice for one database: the nested *)
(* passes are distinct modules, each marked before its pass began.           *)
THEOREM EveryImportRunsOnce == Spec => []ImportsRunOnce
<1>1. Init => ImportsRunOnce
  BY DEF Init, ImportsRunOnce, Depth
<1>2. QED BY <1>1, TypeCorrect, ImportsStep, PTL DEF Spec
-----------------------------------------------------------------------------
(* Functions across the calls of an Execute session *)

(* What the last document left in its layer, the Connection layer has, too. *)
Promoted ==
  /\ mode = "Execute"
  /\ ~Running => \A f \in Fn : fns["Document"][f] # {} =>
                              fns["Connection"][f] = fns["Document"][f]

LEMMA PromotedStep ==
  ASSUME Modes \subseteq {"Execute"}, TypeOK, Promoted, [Next]_vars
  PROVE  Promoted'
<1>0. mode' = "Execute"
  BY DEF Next, vars, AnalyzeStatement, DefineFunction, SkipImport, ImportModule, EndImport,
         BeginAnalyze, EndAnalyze, SetMode, NewConnection, NewDatabase, AddTable, Promoted
<1>1. CASE EndAnalyze
  <2>1. fns' = [fns EXCEPT !["Connection"] = MergedFns(@, fns["Document"])]
    BY <1>1 DEF EndAnalyze, PromoteDocumentToConnection, Promoted
  <2>2. /\ fns'["Document"] = fns["Document"]
        /\ \A f \in Fn : fns["Document"][f] # {} => fns'["Connection"][f] = fns["Document"][f]
    BY <2>1 DEF MergedFns, TypeOK, Layer
  <2>3. QED BY <1>0, <2>2 DEF Promoted
<1>2. CASE NewDatabase \/ NewConnection
  <2>1. fns'["Document"] = EmptyFns
    BY <1>2 DEF NewDatabase, NewConnection, Cleared, Layer
  <2>2. QED BY <1>0, <2>1 DEF Promoted, EmptyFns
<1>3. CASE UNCHANGED <<frames, fns>>
  BY <1>0, <1>3 DEF Promoted, Running
<1>4. CASE Running'
  BY <1>0, <1>4 DEF Promoted
<1>5. ImportModule => Running'
  <2> SUFFICES ASSUME ImportModule PROVE Running'
    OBVIOUS
  <2>1. PICK m \in Resolvable \ imports :
          frames' = Append(frames, [target |-> "Database", module |-> m])
    BY DEF ImportModule
  <2>2. frames \in Seq(Frame)
    BY DEF TypeOK
  <2>3. QED BY <2>1, <2>2 DEF Running
<1>6. EndImport => Running'
  <2> SUFFICES ASSUME EndImport PROVE Running'
    OBVIOUS
  <2>1. frames \in Seq(Frame) /\ Len(frames) > 1
    BY DEF TypeOK, EndImport, Depth
  <2>2. Len(frames') = Len(frames) - 1
    BY <2>1 DEF EndImport, Depth
  <2>3. QED BY <2>1, <2>2 DEF Running
<1>7. BeginAnalyze => Running'
  BY DEF BeginAnalyze, Running
<1>8. DefineFunction => Running'
  BY DEF DefineFunction, Running
<1>9. QED
  BY <1>1, <1>2, <1>3, <1>4, <1>5, <1>6, <1>7, <1>8
     DEF Next, vars, AnalyzeStatement, SkipImport, SetMode, AddTable

(* Every call starts with the functions the call before it ended with: the *)
(* set its document defined has replaced that of the Connection layer, also *)
(* where an imported module defined the function in the Database layer.     *)
THEOREM FunctionsPersist ==
  ASSUME Modes \subseteq {"Execute"}
  PROVE  Spec => FunctionsPersistAcrossCalls
<1>1. Init => Promoted
  BY DEF Init, Promoted, EmptyFns, Layer
<1>2. TypeOK /\ Promoted /\ [Next]_vars => Promoted'
  BY PromotedStep
<1>3. TypeOK /\ Promoted /\ [Next]_vars =>
        [(mode = "Execute" /\ ~Running /\ Running')
           => \A f \in Fn : Accepted(f)' = Accepted(f)]_vars
  <2> SUFFICES ASSUME TypeOK, Promoted, [Next]_vars, ~Running, Running', NEW f \in Fn
               PROVE  Accepted(f)' = Accepted(f)
    OBVIOUS
  <2>1. BeginAnalyze
    BY DEF Next, vars, AnalyzeStatement, DefineFunction, SkipImport, ImportModule,
           EndImport, EndAnalyze, SetMode, NewConnection, NewDatabase, AddTable, Running,
           TypeOK, Depth
  <2>2. /\ fns'["Document"] = EmptyFns
        /\ fns'["Connection"] = fns["Connection"] /\ fns'["Database"] = fns["Database"]
    BY <2>1 DEF BeginAnalyze, NewDocument, Cleared, Layer
  <2>3. QED BY <2>2 DEF Promoted, Accepted, EmptyFns
<1>4. QED BY <1>1, <1>2, <1>3, TypeCorrect, PTL DEF Spec, FunctionsPersistAcrossCalls

-----------------------------------------------------------------------------
(* The catalog implements a database session. *)

Disk  == [n \in Name |-> InDatabase(n)]
Saved == [n \in Name |-> InConnection(n)]
Seen  == [n \in Name |-> Visible(n)]

(* The pass of the document writes to the Document layer, those of modules  *)
(* to the Database layer.                                                   *)
TargetsInv ==
  /\ frames # <<>> => frames[1].target = "Document"
  /\ \A i \in 2 .. Depth : frames[i].target = "Database"

LEMMA TargetsStep ==
  TypeOK /\ TargetsInv /\ [Next]_vars => TargetsInv'
<1> SUFFICES ASSUME TypeOK, TargetsInv, [Next]_vars PROVE TargetsInv'
  OBVIOUS
<1>0. frames \in Seq(Frame) /\ Depth \in Nat
  BY DEF TypeOK, Depth
<1>1. CASE ImportModule
  <2>1. PICK m \in Resolvable \ imports :
          frames' = Append(frames, [target |-> "Database", module |-> m])
    BY <1>1 DEF ImportModule
  <2>2. frames # <<>>
    BY <1>1 DEF ImportModule, Running
  <2>3. /\ Len(frames') = Len(frames) + 1
        /\ \A i \in 1 .. Len(frames) : frames'[i] = frames[i]
        /\ frames'[Len(frames) + 1].target = "Database"
    BY <1>0, <2>1
  <2>4. 1 \in 1 .. Len(frames)
    BY <1>0, <2>2
  <2>5. QED BY <1>0, <2>2, <2>3, <2>4 DEF TargetsInv, Depth
<1>2. CASE EndImport
  <2>1. /\ Len(frames') = Len(frames) - 1 /\ Len(frames) > 1
        /\ \A i \in 1 .. Len(frames) - 1 : frames'[i] = frames[i]
    BY <1>0, <1>2 DEF EndImport, Depth
  <2>2. QED BY <1>0, <2>1 DEF TargetsInv, Depth
<1>3. CASE BeginAnalyze
  <2>1. Len(frames') = 1 /\ frames'[1].target = "Document"
    BY <1>3 DEF BeginAnalyze
  <2>2. QED BY <2>1 DEF TargetsInv, Depth
<1>4. CASE EndAnalyze
  BY <1>4 DEF EndAnalyze, TargetsInv, Depth
<1>5. CASE UNCHANGED frames
  BY <1>5 DEF TargetsInv, Depth
<1>6. QED BY <1>1, <1>2, <1>3, <1>4, <1>5
            DEF Next, vars, AnalyzeStatement, DefineFunction, SkipImport,
                SetMode, NewConnection, NewDatabase, AddTable

(* What a change of the Document layer does to what is seen *)
LEMMA SameLayers ==
  ASSUME UNCHANGED <<rel, gone>>
  PROVE  Disk' = Disk /\ Saved' = Saved /\ Seen' = Seen
BY DEF Disk, Saved, Seen, InDatabase, InConnection, Visible, Hit, At

LEMMA SameBelow ==
  ASSUME \A l \in {"Database", "Connection"} : rel'[l] = rel[l] /\ gone'[l] = gone[l]
  PROVE  Disk' = Disk /\ Saved' = Saved
BY DEF Disk, Saved, InDatabase, InConnection, Hit, At

LEMMA InsertSeen ==
  ASSUME TypeOK, NEW n \in Name, NEW e \in Stored, InsertEntry("Document", n, e)
  PROVE  Disk' = Disk /\ Saved' = Saved /\ Seen' = [Seen EXCEPT ![n] = e]
<1>1. Disk' = Disk /\ Saved' = Saved
  BY SameBelow DEF InsertEntry, TypeOK, Layer
<1>2. e # None
  BY NoneIsNoEntry DEF Stored, Entry, Kind, Created
<1>3. ASSUME NEW m \in Name
      PROVE  Visible(m)' = IF m = n THEN e ELSE Visible(m)
  <2>1. InConnection(m)' = InConnection(m)
    BY <1>1 DEF Saved
  <2>2. rel'["Document"][m] = IF m = n THEN e ELSE rel["Document"][m]
    BY DEF InsertEntry, TypeOK, Layer
  <2>3. gone'["Document"] = gone["Document"] \ {n}
    BY DEF InsertEntry, TypeOK, Layer
  <2>4. QED BY <1>2, <2>1, <2>2, <2>3 DEF Visible, Hit, At
<1>4. QED BY <1>1, <1>3 DEF Seen

LEMMA RemoveSeen ==
  ASSUME TypeOK, NEW n \in Name, RemoveRelation("Document", n)
  PROVE  Disk' = Disk /\ Saved' = Saved /\ Seen' = [Seen EXCEPT ![n] = None]
<1>1. Disk' = Disk /\ Saved' = Saved
  BY SameBelow DEF RemoveRelation, TypeOK, Layer
<1>3. ASSUME NEW m \in Name
      PROVE  Visible(m)' = IF m = n THEN None ELSE Visible(m)
  <2>1. InConnection(m)' = InConnection(m)
    BY <1>1 DEF Saved
  <2>2. rel'["Document"][m] = IF m = n THEN None ELSE rel["Document"][m]
    BY DEF RemoveRelation, TypeOK, Layer
  <2>3. gone'["Document"] = gone["Document"] \cup {n}
    BY DEF RemoveRelation, TypeOK, Layer
  <2>4. QED BY <2>1, <2>2, <2>3 DEF Visible, Hit, At
<1>4. QED BY <1>1, <1>3 DEF Seen

LEMMA MoveSeen ==
  ASSUME TypeOK, NEW old \in Name, NEW new \in Name, old # new, NEW e \in Stored,
         MoveEntry("Document", old, new, e)
  PROVE  /\ Disk' = Disk /\ Saved' = Saved
         /\ Seen' = [Seen EXCEPT ![old] = None, ![new] = e]
<1>1. Disk' = Disk /\ Saved' = Saved
  BY SameBelow DEF MoveEntry, TypeOK, Layer
<1>2. e # None
  BY NoneIsNoEntry DEF Stored, Entry, Kind, Created
<1>3. ASSUME NEW m \in Name
      PROVE  Visible(m)' = IF m = new THEN e ELSE IF m = old THEN None ELSE Visible(m)
  <2>1. InConnection(m)' = InConnection(m)
    BY <1>1 DEF Saved
  <2>2. rel'["Document"][m] =
          IF m = old THEN None ELSE IF m = new THEN e ELSE rel["Document"][m]
    BY DEF MoveEntry, TypeOK, Layer
  <2>3. gone'["Document"] = (gone["Document"] \ {new}) \cup {old}
    BY DEF MoveEntry, TypeOK, Layer
  <2>4. QED BY <1>2, <2>1, <2>2, <2>3 DEF Visible, Hit, At
<1>4. QED BY <1>1, <1>3 DEF Seen

(* A relation is built in for a statement exactly when the statement sees a *)
(* built-in one: no layer holds any.                                        *)
LEMMA BuiltinSeen ==
  ASSUME TypeOK, NEW n \in Name
  PROVE  /\ IsBuiltin(n) <=> Session!IsBuiltinIn(Seen, n)
         /\ Seen[n] = Visible(n)
         /\ Seen[n] # None => Seen[n].kind \in Kind
<1>1. Seen[n] = Visible(n)
  BY DEF Seen
<1>2. CASE \A l \in Layer : ~Hit(l, n)
  <2>1. Visible(n) = Dialect[n]
    BY <1>2 DEF Visible, InConnection, InDatabase, Layer
  <2>2. Dialect[n] # None => Dialect[n].kind = "builtin"
    BY CatalogAssumption
  <2>3. QED BY <1>1, <1>2, <2>1, <2>2 DEF IsBuiltin, Session!IsBuiltinIn, Kind
<1>3. CASE \E l \in Layer : Hit(l, n)
  <2>1. Visible(n) # None => Visible(n) \in Stored
    BY <1>3, VisibleType DEF IsBuiltin
  <2>2. QED BY <1>1, <1>3, <2>1 DEF IsBuiltin, Session!IsBuiltinIn, Stored, Created, Kind
<1>4. QED BY <1>2, <1>3

(* The statements are the same on both sides, and each has its own op. *)
LEMMA SameStatements ==
  /\ Session!Statement = Statement /\ Session!Schema = Schema
  /\ \A cols, s : Session!Objection(cols, s) = Objection(cols, s)
  /\ \A cols, s : Session!Changed(cols, s) = Changed(cols, s)
BY DEF Session!Statement, Session!Create, Session!CreateAs, Session!Alter,
       Session!ColumnChange, Session!AddCol, Session!DropCol, Session!RenameCol,
       Session!RenameTo, Session!Drop, Session!Query, Session!Include, Session!Other,
       Session!Created, Session!Schema, Session!Slot, Session!Entry, Session!Columns,
       Session!Kind, Session!Objection, Session!Changed,
       Statement, Create, CreateAs, Alter, ColumnChange, AddCol, DropCol, RenameCol,
       RenameTo, Drop, Query, Include, Other, Created, Schema, Slot, Entry, Columns,
       Kind, Objection, Changed

LEMMA StatementNames ==
  ASSUME NEW s \in Statement
  PROVE  /\ s.op = "create" => s \in Create
         /\ s.op = "createAs" => s \in CreateAs
         /\ s \in ColumnChange => /\ s.op \in {"addColumn", "dropColumn", "renameColumn"}
                                  /\ s.name \in Name
         /\ s.op = "renameTable" => s \in RenameTo
         /\ s.op = "drop" => s \in Drop
         /\ s.op = "query" => s \in Query
BY DEF Statement, Create, CreateAs, Alter, ColumnChange, AddCol, DropCol, RenameCol,
       RenameTo, Drop, Query, Include, Other

(* A statement of the document does to what is seen what the session says, *)
(* and is flagged with what the session says.                               *)
Keeps(s) ==
  /\ stmt' = s /\ verdict' = Session!Verdict(Seen, s)
  /\ Seen' = Session!After(Seen, s)
  /\ Disk' = Disk /\ Saved' = Saved

LEMMA CreateIs ==
  ASSUME TypeOK, Depth = 1, NEW s \in Create, DoCreate("Document", s)
  PROVE  Keeps(s)
<1>1. s.name \in Name /\ s.op = "create" /\ Relation(s.kind, Listed(s.list)) \in Stored
  BY DEF Create, Relation, Listed, Stored, Columns, Created
<1>2. /\ Session!Relation(s.kind, Session!Listed(s.list)) = Relation(s.kind, Listed(s.list))
      /\ Session!HasDuplicate(s.list) <=> HasDuplicate(s.list)
  BY DEF Session!Relation, Session!Listed, Session!HasDuplicate, Relation, Listed,
         HasDuplicate
<1>3. CASE s.kind = "table" /\ HasDuplicate(s.list)
  <2>1. Ignored /\ stmt' = s /\ verdict' = "duplicate"
    BY <1>3 DEF DoCreate, Report
  <2>2. Disk' = Disk /\ Saved' = Saved /\ Seen' = Seen
    BY <2>1, SameLayers DEF Ignored
  <2>3. Session!Verdict(Seen, s) = "duplicate"
    BY <1>1, <1>2, <1>3 DEF Session!Verdict
  <2>4. Session!After(Seen, s) = Seen
    BY <1>1, <2>3 DEF Session!After
  <2>5. QED BY <2>1, <2>2, <2>3, <2>4 DEF Keeps
<1>4. CASE ~(s.kind = "table" /\ HasDuplicate(s.list))
  <2> DEFINE e == Relation(s.kind, Listed(s.list))
  <2>1. InsertEntry("Document", s.name, e) /\ stmt' = s /\ verdict' = "ok"
    BY <1>4 DEF DoCreate, Report
  <2>2. Session!Verdict(Seen, s) = "ok"
    BY <1>1, <1>2, <1>4 DEF Session!Verdict
  <2>3. Session!After(Seen, s) = [Seen EXCEPT ![s.name] = e]
    BY <1>1, <1>2, <2>2 DEF Session!After
  <2> HIDE DEF e
  <2>4. e \in Stored
    BY <1>1 DEF e
  <2>5. QED BY <1>1, <2>1, <2>2, <2>3, <2>4, InsertSeen DEF Keeps
<1>5. QED BY <1>3, <1>4

LEMMA CreateAsIs ==
  ASSUME TypeOK, Depth = 1, NEW s \in CreateAs, ~OfItself(s), DoCreateAs("Document", s)
  PROVE  Keeps(s)
<1> DEFINE e == Relation("table", ColumnsOfSource(s.source))
<1>1. s.name \in Name /\ s.source \in Name /\ s.op = "createAs" /\ s.source # s.name
  BY DEF CreateAs, OfItself
<1>2. e \in Stored
  BY <1>1, ColumnsOfSourceType DEF Relation, Stored, Created
<1>3. /\ InsertEntry("Document", s.name, e) /\ stmt' = s
      /\ verdict' = IF Visible(s.source)' = None THEN "unknown" ELSE "ok"
  BY DEF DoCreateAs, Report
<1>4. Session!After(Seen, s) = [Seen EXCEPT ![s.name] = e]
  BY <1>1 DEF Session!After, Session!Relation, Relation, Session!ColumnsOf,
              ColumnsOfSource, Seen
<1> HIDE DEF e
<1>5. Disk' = Disk /\ Saved' = Saved /\ Seen' = [Seen EXCEPT ![s.name] = e]
  BY <1>1, <1>2, <1>3, InsertSeen
<1>6. Seen[s.source]' = Seen[s.source]
  BY <1>1, <1>5 DEF Seen
<1>7. Visible(s.source)' = Seen[s.source]
  BY <1>1, <1>6 DEF Seen
<1>8. verdict' = Session!Verdict(Seen, s)
  BY <1>1, <1>3, <1>7 DEF Session!Verdict
<1>9. QED BY <1>3, <1>4, <1>5, <1>8 DEF Keeps

LEMMA AlterColumnIs ==
  ASSUME TypeOK, Depth = 1, NEW s \in Statement, s \in ColumnChange,
         DoAlterColumn("Document", s)
  PROVE  Keeps(s)
<1> DEFINE n        == s.name
           e        == Visible(n)
           refused  == e = None \/ IsBuiltin(n)
           rejected == IF refused THEN "ok" ELSE Objection(e.cols, s)
           changed  == [e EXCEPT !.cols = Changed(e.cols, s)]
<1>1. n \in Name /\ s.op \in {"addColumn", "dropColumn", "renameColumn"}
  BY StatementNames
<1>2. Seen[n] = e /\ (IsBuiltin(n) <=> Session!IsBuiltinIn(Seen, n))
  BY <1>1, BuiltinSeen
<1>3. stmt' = s /\ verdict' = AlterVerdict(n, rejected)
  BY DEF DoAlterColumn, Report
<1>4. Session!Verdict(Seen, s) = IF e = None THEN "unknown" ELSE IF IsBuiltin(n) THEN "builtin"
                                 ELSE rejected
  BY <1>1, <1>2, SameStatements DEF Session!Verdict, Session!SchemaChangeVerdict
<1>5. CASE refused \/ rejected # "ok"
  <2>1. Ignored
    BY <1>5 DEF DoAlterColumn
  <2>2. Disk' = Disk /\ Saved' = Saved /\ Seen' = Seen
    BY <2>1, SameLayers DEF Ignored
  <2>3. Visible(n)' = e /\ (IsBuiltin(n)' <=> IsBuiltin(n)) /\ retired' = {}
    BY <2>1 DEF Ignored, Visible, InConnection, InDatabase, Hit, At, IsBuiltin
  <2>4. AlterVerdict(n, rejected) = Session!Verdict(Seen, s)
    BY <1>4, <2>3 DEF AlterVerdict, Defined
  <2>5. Session!Verdict(Seen, s) # "ok"
    BY <1>4, <1>5
  <2>6. Session!After(Seen, s) = Seen
    BY <1>1, <2>5 DEF Session!After
  <2>7. QED BY <1>3, <2>2, <2>4, <2>6 DEF Keeps
<1>6. CASE ~(refused \/ rejected # "ok")
  <2>1. e \in Stored
    BY <1>1, <1>6, VisibleType
  <2>2. Changed(e.cols, s) \in Columns
    BY <2>1, ChangedType DEF Stored
  <2>3. changed \in Stored
    BY <2>1, <2>2 DEF Stored
  <2>4. InsertEntry("Document", n, changed) /\ retired' = {}
    BY <1>6 DEF DoAlterColumn
  <2>5. Session!After(Seen, s) = [Seen EXCEPT ![n] = changed]
    <3>1. Session!Verdict(Seen, s) = "ok"
      BY <1>4, <1>6
    <3>2. Session!After(Seen, s) = [Seen EXCEPT ![n].cols = Session!Changed(@, s)]
      BY <1>1, <3>1 DEF Session!After
    <3>3. QED BY <1>2, <3>2, SameStatements
  <2> HIDE DEF changed
  <2>6. Disk' = Disk /\ Saved' = Saved /\ Seen' = [Seen EXCEPT ![n] = changed]
    BY <1>1, <2>3, <2>4, InsertSeen
  <2>7. Visible(n)' # None /\ ~IsBuiltin(n)'
    <3>1. changed # None
      BY <2>3, NoneIsNoEntry DEF Stored, Entry, Kind, Created
    <3>2. rel'["Document"][n] = changed /\ n \notin gone'["Document"]
      BY <1>1, <2>4 DEF InsertEntry, TypeOK, Layer
    <3>3. QED BY <3>1, <3>2 DEF Visible, Hit, At, IsBuiltin, Layer
  <2>8. verdict' = "ok" /\ Session!Verdict(Seen, s) = "ok"
    BY <1>3, <1>4, <1>6, <2>7 DEF AlterVerdict, Defined
  <2>9. QED BY <1>3, <2>5, <2>6, <2>8 DEF Keeps
<1>7. QED BY <1>5, <1>6

LEMMA RenameTableIs ==
  ASSUME TypeOK, Depth = 1, NEW s \in RenameTo, ~OfItself(s), DoRenameTable("Document", s)
  PROVE  Keeps(s)
<1> DEFINE n == s.name
           e == Visible(n)
<1>1. n \in Name /\ s.to \in Name /\ s.op = "renameTable" /\ n # s.to
  BY DEF RenameTo, OfItself
<1>2. Seen[n] = e /\ (IsBuiltin(n) <=> Session!IsBuiltinIn(Seen, n))
  BY <1>1, BuiltinSeen
<1>3. stmt' = s /\ verdict' = AlterVerdict(n, "ok")
  BY DEF DoRenameTable, Report
<1>4. Session!Verdict(Seen, s) = IF e = None THEN "unknown" ELSE IF IsBuiltin(n) THEN "builtin"
                                 ELSE "ok"
  BY <1>1, <1>2 DEF Session!Verdict, Session!SchemaChangeVerdict
<1>5. CASE e = None \/ IsBuiltin(n)
  <2>1. Ignored
    BY <1>5 DEF DoRenameTable
  <2>2. Disk' = Disk /\ Saved' = Saved /\ Seen' = Seen
    BY <2>1, SameLayers DEF Ignored
  <2>3. Visible(n)' = e /\ (IsBuiltin(n)' <=> IsBuiltin(n)) /\ retired' = {}
    BY <2>1 DEF Ignored, Visible, InConnection, InDatabase, Hit, At, IsBuiltin
  <2>4. AlterVerdict(n, "ok") = Session!Verdict(Seen, s)
    BY <1>4, <2>3 DEF AlterVerdict, Defined
  <2>5. Session!After(Seen, s) = Seen
    BY <1>1, <1>4, <1>5 DEF Session!After
  <2>6. QED BY <1>3, <2>2, <2>4, <2>5 DEF Keeps
<1>6. CASE ~(e = None \/ IsBuiltin(n))
  <2>1. e \in Stored
    BY <1>1, <1>6, VisibleType
  <2>2. MoveEntry("Document", n, s.to, e) /\ retired' = {n}
    BY <1>6 DEF DoRenameTable
  <2>3. Disk' = Disk /\ Saved' = Saved /\ Seen' = [Seen EXCEPT ![n] = None, ![s.to] = e]
    BY <1>1, <2>1, <2>2, MoveSeen
  <2>4. Session!After(Seen, s) = [Seen EXCEPT ![n] = None, ![s.to] = e]
    BY <1>1, <1>2, <1>4, <1>6 DEF Session!After
  <2>5. ~IsBuiltin(n)'
    <3>1. n \in gone'["Document"]
      BY <1>1, <2>2 DEF MoveEntry, TypeOK, Layer
    <3>2. QED BY <3>1 DEF IsBuiltin, Hit, Layer
  <2>6. verdict' = "ok"
    BY <1>3, <2>2, <2>5 DEF AlterVerdict, Defined
  <2>7. QED BY <1>3, <1>4, <1>6, <2>3, <2>4, <2>6 DEF Keeps
<1>7. QED BY <1>5, <1>6

LEMMA DropIs ==
  ASSUME TypeOK, Depth = 1, NEW s \in Drop, DoDrop("Document", s)
  PROVE  Keeps(s)
<1> DEFINE n == s.name
           e == Visible(n)
<1>1. n \in Name /\ s.op = "drop" /\ s.kind \in Created
  BY DEF Drop
<1>2. /\ Seen[n] = e /\ (IsBuiltin(n) <=> Session!IsBuiltinIn(Seen, n))
      /\ e # None /\ ~IsBuiltin(n) => e.kind \in Created
  BY <1>1, BuiltinSeen, VisibleType DEF Stored
<1>3. stmt' = s /\ verdict' = DropVerdict(s)'
  BY DEF DoDrop, Report
<1>4. Session!Verdict(Seen, s) =
        IF e = None THEN IF s.ifExists THEN "ok" ELSE "unknown"
        ELSE IF IsBuiltin(n) THEN "builtin"
        ELSE IF e.kind = s.kind THEN "ok" ELSE "wrongKind"
  BY <1>1, <1>2 DEF Session!Verdict, Session!SchemaChangeVerdict
<1>5. e # None /\ ~IsBuiltin(n) => (((e.kind = "view") = (s.kind = "view")) <=> e.kind = s.kind)
  BY <1>1, <1>2 DEF Created
<1>6. CASE e # None /\ ~IsBuiltin(n) /\ e.kind = s.kind
  <2>1. RemoveRelation("Document", n) /\ retired' = {n}
    BY <1>5, <1>6 DEF DoDrop
  <2>2. Disk' = Disk /\ Saved' = Saved /\ Seen' = [Seen EXCEPT ![n] = None]
    BY <1>1, <2>1, RemoveSeen
  <2>3. Session!After(Seen, s) = [Seen EXCEPT ![n] = None]
    BY <1>1, <1>4, <1>6 DEF Session!After
  <2>4. n \in gone'["Document"]
    BY <1>1, <2>1 DEF RemoveRelation, TypeOK, Layer
  <2>5. Visible(n)' = None /\ ~IsBuiltin(n)'
    BY <2>4 DEF Visible, IsBuiltin, Hit, At, Layer
  <2>6. DropVerdict(s)' = "ok"
    BY <2>1, <2>5 DEF DropVerdict, Defined
  <2>7. QED BY <1>3, <1>4, <1>6, <2>2, <2>3, <2>6 DEF Keeps
<1>7. CASE ~(e # None /\ ~IsBuiltin(n) /\ e.kind = s.kind)
  <2>1. Ignored
    BY <1>5, <1>7 DEF DoDrop
  <2>2. Disk' = Disk /\ Saved' = Saved /\ Seen' = Seen
    BY <2>1, SameLayers DEF Ignored
  <2>3. Visible(n)' = e /\ (IsBuiltin(n)' <=> IsBuiltin(n)) /\ retired' = {}
    BY <2>1 DEF Ignored, Visible, InConnection, InDatabase, Hit, At, IsBuiltin
  <2>4. DropVerdict(s)' = Session!Verdict(Seen, s)
    BY <1>4, <1>5, <1>7, <2>3 DEF DropVerdict, Defined
  <2>5. Session!After(Seen, s) = Seen
    <3>1. CASE e = None
      BY <1>1, <1>2, <1>4, <3>1 DEF Session!After, Seen
    <3>2. CASE e # None
      BY <1>1, <1>4, <1>7, <3>2 DEF Session!After
    <3>3. QED BY <3>1, <3>2
  <2>6. QED BY <1>3, <2>2, <2>4, <2>5 DEF Keeps
<1>8. QED BY <1>6, <1>7
(* A statement without a role in the schema *)
LEMMA IdleIs ==
  ASSUME NEW s \in Statement, s.op \in {"query", "include", "other"},
         UNCHANGED <<rel, gone>>, stmt' = s, verdict' = Session!Verdict(Seen, s)
  PROVE  Keeps(s)
<1>1. Session!After(Seen, s) = Seen
  BY DEF Session!After
<1>2. Disk' = Disk /\ Saved' = Saved /\ Seen' = Seen
  BY SameLayers
<1>3. QED BY <1>1, <1>2 DEF Keeps

LEMMA QueryIs ==
  ASSUME TypeOK, Depth = 1, NEW s \in Query, DoQuery(s)
  PROVE  Keeps(s)
<1>1. s \in Statement /\ s.op = "query" /\ s.name \in Name
  BY DEF Query, Statement
<1>2. UNCHANGED <<rel, gone>> /\ stmt' = s
  BY DEF DoQuery, Ignored, Report
<1>3. verdict' = IF Visible(s.name)' = None THEN "unknown" ELSE "ok"
  BY DEF DoQuery, Report
<1>4. Visible(s.name)' = Seen[s.name]
  BY <1>1, <1>2 DEF Seen, Visible, InConnection, InDatabase, Hit, At
<1>5. verdict' = Session!Verdict(Seen, s)
  BY <1>1, <1>3, <1>4 DEF Session!Verdict
<1>6. QED BY <1>1, <1>2, <1>5, IdleIs

(* What Keeps says of the four variables is a step of the session. *)
LEMMA KeepsIs ==
  ASSUME NEW s \in Statement, Keeps(s), Running, Running', UNCHANGED mode
  PROVE  Session!AbsStatement
BY SameStatements
   DEF Session!AbsStatement, Keeps, Running, Seen, Disk, Saved

LEMMA DocumentStatementIs ==
  ASSUME TypeOK, TargetsInv, Depth = 1, AnalyzeStatement, ~OfItself(stmt')
  PROVE  Session!AbsStatement
<1>1. Running /\ Running' /\ UNCHANGED mode /\ Top.target = "Document"
  BY DEF AnalyzeStatement, Running, TargetsInv, Top, Depth
<1>2. PICK s \in Statements : Apply("Document", s)
  BY <1>1 DEF AnalyzeStatement
<1>3. s \in Statement
  BY <1>2, CatalogAssumption
<1>4. stmt' = s
  BY <1>2 DEF Apply, DoCreate, DoCreateAs, DoAlterColumn, DoRenameTable, DoDrop, DoQuery,
              DoOther, Report
<1>5. ~OfItself(s)
  BY <1>4
<1>6. CASE s.op = "create" /\ DoCreate("Document", s)
  BY <1>1, <1>3, <1>6, StatementNames, CreateIs, KeepsIs
<1>7. CASE s.op = "createAs" /\ DoCreateAs("Document", s)
  BY <1>1, <1>3, <1>5, <1>7, StatementNames, CreateAsIs, KeepsIs
<1>8. CASE s \in ColumnChange /\ DoAlterColumn("Document", s)
  BY <1>1, <1>3, <1>8, AlterColumnIs, KeepsIs
<1>9. CASE s.op = "renameTable" /\ DoRenameTable("Document", s)
  BY <1>1, <1>3, <1>5, <1>9, StatementNames, RenameTableIs, KeepsIs
<1>10. CASE s.op = "drop" /\ DoDrop("Document", s)
  BY <1>1, <1>3, <1>10, StatementNames, DropIs, KeepsIs
<1>11. CASE s.op = "query" /\ DoQuery(s)
  BY <1>1, <1>3, <1>11, StatementNames, QueryIs, KeepsIs
<1>12. CASE s.op = "other" /\ DoOther(s)
  <2>1. UNCHANGED <<rel, gone>> /\ stmt' = s /\ verdict' = "ok"
    BY <1>12 DEF DoOther, Ignored, Report
  <2>2. Session!Verdict(Seen, s) = "ok"
    BY <1>12 DEF Session!Verdict
  <2>3. Keeps(s)
    BY <1>3, <1>12, <2>1, <2>2, IdleIs
  <2>4. QED BY <1>1, <1>3, <2>3, KeepsIs
<1>13. QED BY <1>2, <1>6, <1>7, <1>8, <1>9, <1>10, <1>11, <1>12 DEF Apply

(* CREATE FUNCTION and INCLUDE, in the document *)
LEMMA DefineFunctionIs ==
  ASSUME Depth = 1, DefineFunction
  PROVE  Session!AbsStatement
<1> DEFINE s == [op |-> "other"]
<1>1. s \in Statement /\ s.op = "other"
  BY DEF Statement, Other
<1>2. UNCHANGED <<rel, gone, mode, frames>> /\ stmt' = s /\ verdict' = "ok" /\ Running
  BY DEF DefineFunction, Report
<1>3. Session!Verdict(Seen, s) = "ok"
  BY DEF Session!Verdict
<1> HIDE DEF s
<1>4. Keeps(s)
  BY <1>1, <1>2, <1>3, IdleIs
<1>5. QED BY <1>1, <1>2, <1>4, KeepsIs DEF Running

LEMMA IncludeIs ==
  ASSUME TypeOK, Depth = 1, SkipImport \/ ImportModule
  PROVE  Session!AbsStatement
<1>1. PICK m \in Module :
        /\ stmt' = IncludeOf(m)
        /\ verdict' = IF m \in Resolvable THEN "ok" ELSE "unknownModule"
  BY CatalogAssumption DEF SkipImport, ImportModule, Report, TypeOK
<1>2. IncludeOf(m) \in Statement /\ IncludeOf(m).op = "include"
  BY IncludeType DEF IncludeOf
<1>3. verdict' = Session!Verdict(Seen, IncludeOf(m))
  BY <1>1 DEF Session!Verdict, IncludeOf
<1>4. UNCHANGED <<rel, gone, mode>> /\ Running
  BY DEF SkipImport, ImportModule
<1>5. Running'
  <2>1. CASE SkipImport
    BY <2>1 DEF SkipImport, Running
  <2>2. CASE ImportModule
    <3>1. PICK f \in Frame : frames' = Append(frames, f)
      BY <2>2, CatalogAssumption DEF ImportModule, Frame
    <3>2. frames \in Seq(Frame)
      BY DEF TypeOK
    <3>3. QED BY <3>1, <3>2 DEF Running
  <2>3. QED BY <2>1, <2>2
<1>6. Keeps(IncludeOf(m))
  BY <1>1, <1>2, <1>3, <1>4, IdleIs
<1>7. QED BY <1>2, <1>4, <1>5, <1>6, KeepsIs

-----------------------------------------------------------------------------
(* Changes of the Database layer: the host's, and those of imported modules *)

LEMMA BelowType ==
  ASSUME TypeOK
  PROVE  Disk \in Schema /\ Saved \in Schema /\ Seen \in Schema
<1>1. ASSUME NEW n \in Name
      PROVE  InDatabase(n) \in Slot /\ InConnection(n) \in Slot /\ Visible(n) \in Slot
  BY CatalogAssumption
     DEF TypeOK, Visible, InConnection, InDatabase, Hit, At, Slot, Entry, Stored, Kind,
         Created, Layer
<1>2. QED BY <1>1 DEF Disk, Saved, Seen, Schema

LEMMA BelowTypeNext ==
  ASSUME TypeOK'
  PROVE  Disk' \in Schema /\ Saved' \in Schema
<1>1. ASSUME NEW n \in Name
      PROVE  InDatabase(n)' \in Slot /\ InConnection(n)' \in Slot
  BY CatalogAssumption
     DEF TypeOK, InConnection, InDatabase, Hit, At, Slot, Entry, Stored, Kind,
         Created, Layer
<1>2. QED BY <1>1 DEF Disk, Saved, Schema

(* Only the Database layer changes, and what it has of m and n only. *)
AboveSame == \A l \in {"Document", "Connection"} : rel'[l] = rel[l] /\ gone'[l] = gone[l]
OnlyAt(m, n) == \A x \in Name \ {m, n} : InDatabase(x)' = InDatabase(x)

LEMMA BothChange ==
  ASSUME TypeOK', NEW m \in Name, NEW n \in Name, AboveSame, OnlyAt(m, n), Undisputed,
         InDatabase(m)' # InDatabase(m), InDatabase(n)' # InDatabase(n),
         Running' = Running, Running \/ m = n, UNCHANGED <<mode, stmt, verdict>>
  PROVE  Session!AbsDatabaseChange
<1> DEFINE With(sch) == [sch EXCEPT ![m] = Disk'[m], ![n] = Disk'[n]]
<1>1. Disk' \in Schema /\ Saved' \in Schema
  BY BelowTypeNext
<1>2. \A x \in Name : /\ Disk[x] = InDatabase(x) /\ Disk'[x] = InDatabase(x)'
                      /\ Saved[x] = InConnection(x) /\ Saved'[x] = InConnection(x)'
                      /\ Seen[x] = Visible(x) /\ Seen'[x] = Visible(x)'
  BY DEF Disk, Saved, Seen
<1>3. /\ ~Hit("Connection", m)' /\ ~Hit("Connection", n)'
      /\ Running => ~Hit("Document", m)' /\ ~Hit("Document", n)'
  BY DEF Undisputed
<1>4. \A x \in Name, l \in {"Document", "Connection"} :
        (Hit(l, x)' <=> Hit(l, x)) /\ At(l, x)' = At(l, x)
  BY DEF AboveSame, Hit, At
<1>5. \A x \in Name : InConnection(x)' = IF x \in {m, n} THEN InDatabase(x)' ELSE InConnection(x)
  BY <1>3, <1>4 DEF OnlyAt, InConnection
<1>6. Disk' = With(Disk)
  <2>1. \A x \in Name : Disk'[x] = IF x = n THEN Disk'[n] ELSE IF x = m THEN Disk'[m] ELSE Disk[x]
    BY <1>2 DEF OnlyAt
  <2>2. QED BY <2>1 DEF Disk
<1>7. Saved' = With(Saved)
  <2>1. \A x \in Name : Saved'[x] = IF x = n THEN Disk'[n] ELSE IF x = m THEN Disk'[m] ELSE Saved[x]
    BY <1>2, <1>5
  <2>2. QED BY <2>1 DEF Saved
<1>8. Seen' = With(Seen) \/ (~Running /\ Seen' = Seen)
  <2>1. CASE ~Hit("Document", m)' /\ ~Hit("Document", n)'
    <3>1. \A x \in Name : Visible(x)' = IF x \in {m, n} THEN InDatabase(x)' ELSE Visible(x)
      BY <1>4, <1>5, <2>1 DEF Visible
    <3>2. \A x \in Name : Seen'[x] = IF x = n THEN Disk'[n] ELSE IF x = m THEN Disk'[m] ELSE Seen[x]
      BY <1>2, <3>1
    <3>3. QED BY <3>2 DEF Seen
  <2>2. CASE ~Running /\ m = n /\ Hit("Document", m)'
    <3>1. \A x \in Name : Visible(x)' = Visible(x)
      BY <1>4, <1>5, <2>2 DEF Visible
    <3>2. QED BY <2>2, <3>1 DEF Seen
  <2>3. QED BY <1>3, <2>1, <2>2
<1>9. QED
  BY <1>1, <1>6, <1>7, <1>8, SameStatements
     DEF Session!AbsDatabaseChange, Disk, Saved, Seen, Running

LEMMA DatabaseChangeIs ==
  ASSUME TypeOK', NEW m \in Name, NEW n \in Name, AboveSame, OnlyAt(m, n), Undisputed,
         Running' = Running, Running \/ m = n, UNCHANGED <<mode, stmt, verdict>>
  PROVE  Session!AbsDatabaseChange \/ UNCHANGED Session!absVars
<1>1. CASE InDatabase(m)' # InDatabase(m) /\ InDatabase(n)' # InDatabase(n)
  BY <1>1, BothChange
<1>2. CASE InDatabase(m)' # InDatabase(m) /\ InDatabase(n)' = InDatabase(n)
  <2>1. OnlyAt(m, m)
    BY <1>2 DEF OnlyAt
  <2>2. QED BY <1>2, <2>1, BothChange
<1>3. CASE InDatabase(m)' = InDatabase(m) /\ InDatabase(n)' # InDatabase(n)
  <2>1. OnlyAt(n, n)
    BY <1>3 DEF OnlyAt
  <2>2. QED BY <1>3, <2>1, BothChange
<1>4. CASE InDatabase(m)' = InDatabase(m) /\ InDatabase(n)' = InDatabase(n)
  <2>1. \A x \in Name : InDatabase(x)' = InDatabase(x)
    BY <1>4 DEF OnlyAt
  <2>2. \A x \in Name : InConnection(x)' = InConnection(x)
    BY <2>1 DEF AboveSame, InConnection, Hit, At
  <2>3. \A x \in Name : Visible(x)' = Visible(x)
    BY <2>2 DEF AboveSame, Visible, Hit, At
  <2>4. QED BY <2>1, <2>2, <2>3 DEF Session!absVars, Running
<1>5. QED BY <1>1, <1>2, <1>3, <1>4

(* One statement writes at most one insert, one removal or one move. *)
LEMMA ApplyWrites ==
  ASSUME TypeOK, NEW t \in {"Database", "Document"}, NEW s \in Statement, Apply(t, s)
  PROVE  \/ UNCHANGED <<rel, gone>>
         \/ \E n \in Name, e \in Stored : InsertEntry(t, n, e)
         \/ \E n \in Name : RemoveRelation(t, n)
         \/ \E m, n \in Name, e \in Stored : MoveEntry(t, m, n, e)
<1>1. CASE s.op = "create" /\ DoCreate(t, s)
  <2>1. s.name \in Name /\ Relation(s.kind, Listed(s.list)) \in Stored
    BY <1>1, StatementNames DEF Create, Relation, Listed, Stored, Columns, Created
  <2>2. QED BY <1>1, <2>1 DEF DoCreate, Ignored
<1>2. CASE s.op = "createAs" /\ DoCreateAs(t, s)
  <2>1. s.name \in Name /\ Relation("table", ColumnsOfSource(s.source)) \in Stored
    BY <1>2, StatementNames, ColumnsOfSourceType DEF CreateAs, Relation, Stored, Created
  <2>2. QED BY <1>2, <2>1 DEF DoCreateAs
<1>3. CASE s \in ColumnChange /\ DoAlterColumn(t, s)
  <2> DEFINE e == Visible(s.name)
             changed == [e EXCEPT !.cols = Changed(e.cols, s)]
  <2>1. s.name \in Name
    BY <1>3, StatementNames
  <2>2. CASE e = None \/ IsBuiltin(s.name)
    BY <1>3, <2>2 DEF DoAlterColumn, Ignored
  <2>3. CASE ~(e = None \/ IsBuiltin(s.name))
    <3>1. e \in Stored
      BY <2>1, <2>3, VisibleType
    <3>2. Changed(e.cols, s) \in Columns
      BY <1>3, <3>1, ChangedType DEF Stored
    <3>3. changed \in Stored
      BY <3>1, <3>2 DEF Stored
    <3>4. UNCHANGED <<rel, gone>> \/ InsertEntry(t, s.name, changed)
      BY <1>3 DEF DoAlterColumn, Ignored
    <3> HIDE DEF changed
    <3>5. QED BY <2>1, <3>3, <3>4
  <2>4. QED BY <2>2, <2>3
<1>4. CASE s.op = "renameTable" /\ DoRenameTable(t, s)
  <2>1. s.name \in Name /\ s.to \in Name
    BY <1>4, StatementNames DEF RenameTo
  <2>2. Visible(s.name) = None \/ IsBuiltin(s.name) \/ Visible(s.name) \in Stored
    BY <2>1, VisibleType
  <2>3. QED BY <1>4, <2>1, <2>2 DEF DoRenameTable, Ignored
<1>5. CASE s.op = "drop" /\ DoDrop(t, s)
  <2>1. s.name \in Name
    BY <1>5, StatementNames DEF Drop
  <2>2. QED BY <1>5, <2>1 DEF DoDrop, Ignored
<1>6. CASE (s.op = "query" /\ DoQuery(s)) \/ (s.op = "other" /\ DoOther(s))
  BY <1>6 DEF DoQuery, DoOther, Ignored
<1>7. QED BY <1>1, <1>2, <1>3, <1>4, <1>5, <1>6 DEF Apply

(* A statement of an imported module *)
LEMMA ModuleStatementIs ==
  ASSUME TypeOK, TypeOK', TargetsInv, Depth # 1, AnalyzeStatement, Undisputed
  PROVE  Session!AbsDatabaseChange \/ UNCHANGED Session!absVars
<1>1. Running' = Running /\ UNCHANGED <<mode, stmt, verdict>>
  BY DEF AnalyzeStatement, Running, Apply, DoCreate, DoCreateAs, DoAlterColumn,
         DoRenameTable, DoDrop, DoQuery, DoOther, Report
<1>2. Running /\ Top.target = "Database"
  <2>1. frames \in Seq(Frame) /\ frames # <<>>
    BY DEF TypeOK, AnalyzeStatement, Running
  <2>2. Depth \in 2 .. Depth
    <3>1. Depth \in Nat /\ Depth # 0 /\ Depth # 1
      BY <2>1 DEF Depth
    <3>2. \A k \in Nat : k # 0 /\ k # 1 => k \in 2 .. k
      OBVIOUS
    <3>3. QED BY <3>1, <3>2
  <2>3. QED BY <2>1, <2>2 DEF TargetsInv, Top, Depth, Running
<1>3. PICK s \in ModuleStatements : Apply("Database", s)
  BY <1>2 DEF AnalyzeStatement
<1>4. s \in Statement
  BY <1>3, CatalogAssumption
<1>5. CASE UNCHANGED <<rel, gone>>
  BY <1>1, <1>5, SameLayers DEF Session!absVars, Disk, Saved, Seen, Running
<1>6. CASE \E n \in Name, e \in Stored : InsertEntry("Database", n, e)
  <2>1. PICK n \in Name, e \in Stored : InsertEntry("Database", n, e)
    BY <1>6
  <2>2. AboveSame /\ OnlyAt(n, n)
    BY <2>1 DEF InsertEntry, AboveSame, OnlyAt, InDatabase, Hit, At, TypeOK, Layer
  <2>3. QED BY <1>1, <2>2, DatabaseChangeIs
<1>7. CASE \E n \in Name : RemoveRelation("Database", n)
  <2>1. PICK n \in Name : RemoveRelation("Database", n)
    BY <1>7
  <2>2. AboveSame /\ OnlyAt(n, n)
    BY <2>1 DEF RemoveRelation, AboveSame, OnlyAt, InDatabase, Hit, At, TypeOK, Layer
  <2>3. QED BY <1>1, <2>2, DatabaseChangeIs
<1>8. CASE \E m, n \in Name, e \in Stored : MoveEntry("Database", m, n, e)
  <2>1. PICK m \in Name, n \in Name, e \in Stored : MoveEntry("Database", m, n, e)
    BY <1>8
  <2>2. AboveSame /\ OnlyAt(m, n)
    BY <2>1 DEF MoveEntry, AboveSame, OnlyAt, InDatabase, Hit, At, TypeOK, Layer
  <2>3. QED BY <1>1, <1>2, <2>2, DatabaseChangeIs
<1>9. \/ UNCHANGED <<rel, gone>>
      \/ \E n \in Name, e \in Stored : InsertEntry("Database", n, e)
      \/ \E n \in Name : RemoveRelation("Database", n)
      \/ \E m, n \in Name, e \in Stored : MoveEntry("Database", m, n, e)
  BY <1>3, <1>4, ApplyWrites
<1>10. QED BY <1>5, <1>6, <1>7, <1>8, <1>9

(* The host's add_relation *)
LEMMA AddTableIs ==
  ASSUME TypeOK, TypeOK', AddTable, Undisputed
  PROVE  Session!AbsDatabaseChange \/ UNCHANGED Session!absVars
<1>1. PICK h \in HostTables : InsertEntry("Database", h[1], Relation("table", h[2]))
  BY DEF AddTable
<1>2. h[1] \in Name
  BY CatalogAssumption
<1>3. AboveSame /\ OnlyAt(h[1], h[1])
  BY <1>1, <1>2 DEF InsertEntry, AboveSame, OnlyAt, InDatabase, Hit, At, TypeOK, Layer
<1>4. Running' = Running /\ UNCHANGED <<mode, stmt, verdict>>
  BY DEF AddTable, Running
<1>5. QED BY <1>2, <1>3, <1>4, DatabaseChangeIs

-----------------------------------------------------------------------------
(* The calls themselves, and the host between them *)

LEMMA BeginIs ==
  ASSUME TypeOK, BeginAnalyze
  PROVE  Session!AbsBegin
<1>1. Cleared({"Document"})
  BY DEF BeginAnalyze, NewDocument
<1>2. \A l \in {"Database", "Connection"} : rel'[l] = rel[l] /\ gone'[l] = gone[l]
  BY <1>1 DEF Cleared, TypeOK, Layer
<1>3. Disk' = Disk /\ Saved' = Saved
  BY <1>2, SameBelow
<1>4. rel'["Document"] = NoTables /\ gone'["Document"] = {}
  BY <1>1 DEF Cleared, TypeOK, Layer
<1>5. ASSUME NEW n \in Name
      PROVE  Visible(n)' = InConnection(n)
  <2>1. ~Hit("Document", n)'
    BY <1>4 DEF Hit, NoTables
  <2>2. InConnection(n)' = InConnection(n)
    BY <1>3 DEF Saved
  <2>3. QED BY <2>1, <2>2 DEF Visible
<1>6. Seen' = Saved
  BY <1>5 DEF Seen, Saved
<1>7. ~Running /\ Running' /\ UNCHANGED mode /\ stmt' = [op |-> "other"] /\ verdict' = "ok"
  BY DEF BeginAnalyze, Running
<1>8. QED BY <1>3, <1>6, <1>7 DEF Session!AbsBegin, Disk, Saved, Seen, Running

(* What promotion puts in the Connection layer is what the document saw: a *)
(* tombstone is forgotten, and no layer below defines its name.             *)
LEMMA PromotionSaves ==
  ASSUME IInv, PromoteDocumentToConnection,
         \A n \in gone["Document"] : InDatabase(n) = None
  PROVE  Disk' = Disk /\ Saved' = Seen /\ Seen' = Seen
<1>1. \A l \in {"Database", "Document"} : rel'[l] = rel[l] /\ gone'[l] = gone[l]
  BY DEF PromoteDocumentToConnection, IInv, TypeOK, Layer
<1>2. gone["Connection"] = {} /\ gone'["Connection"] = {}
  BY DEF PromoteDocumentToConnection, IInv, ConnectionHasNoTombstone
<1>3. rel'["Connection"] = Merged(rel["Connection"], rel["Document"], gone["Document"])
  BY DEF PromoteDocumentToConnection, IInv, TypeOK, Layer
<1>4. ASSUME NEW n \in Name
      PROVE  InDatabase(n)' = InDatabase(n) /\ InConnection(n)' = Visible(n)
             /\ Visible(n)' = Visible(n)
  <2>1. InDatabase(n)' = InDatabase(n)
    BY <1>1 DEF InDatabase, Hit, At
  <2>2. n \in gone["Document"] => rel["Document"][n] = None
    BY DEF IInv, LayersDisjoint, Layer
  <2>3. rel'["Connection"][n] =
          IF rel["Document"][n] # None THEN rel["Document"][n]
          ELSE IF n \in gone["Document"] THEN None ELSE rel["Connection"][n]
    BY <1>3 DEF Merged
  <2>4. InConnection(n)' = IF rel'["Connection"][n] # None THEN rel'["Connection"][n]
                           ELSE InDatabase(n)
    BY <1>2, <2>1 DEF InConnection, Hit, At
  <2>5. InConnection(n) = IF rel["Connection"][n] # None THEN rel["Connection"][n]
                          ELSE InDatabase(n)
    BY <1>2 DEF InConnection, Hit, At
  <2>6. CASE Hit("Document", n)
    BY <1>1, <2>1, <2>2, <2>3, <2>4, <2>6 DEF Visible, Hit, At
  <2>7. CASE ~Hit("Document", n)
    BY <1>1, <2>1, <2>3, <2>4, <2>5, <2>7 DEF Visible, Hit, At
  <2>8. QED BY <2>6, <2>7
<1>5. QED BY <1>4 DEF Disk, Saved, Seen

LEMMA EndIs ==
  ASSUME IInv, EndAnalyze, Undisputed
  PROVE  Session!AbsEnd
<1>1. Running /\ ~Running' /\ UNCHANGED <<mode, stmt, verdict>>
  <2>1. Len(frames) = 1 /\ frames' = <<>> /\ UNCHANGED <<mode, stmt, verdict>>
    BY DEF EndAnalyze, Depth
  <2>2. frames # <<>>
    BY <2>1
  <2>3. ~Running'
    BY <2>1 DEF Running
  <2>4. QED BY <2>1, <2>2, <2>3 DEF Running
<1>2. CASE mode = "Execute"
  <2>1. PromoteDocumentToConnection
    BY <1>2 DEF EndAnalyze
  <2>2. \A n \in gone["Document"] : InDatabase(n) = None
    BY <1>1, <1>2 DEF Undisputed
  <2>3. Disk' = Disk /\ Saved' = Seen /\ Seen' = Seen
    BY <2>1, <2>2, PromotionSaves
  <2>4. QED BY <1>1, <1>2, <2>3 DEF Session!AbsEnd, Disk, Saved, Seen, Running
<1>3. CASE mode # "Execute"
  <2>1. UNCHANGED <<rel, gone>>
    BY <1>3 DEF EndAnalyze, layers
  <2>2. QED BY <1>1, <1>3, <2>1, SameLayers
              DEF Session!AbsEnd, Disk, Saved, Seen, Running
<1>4. QED BY <1>2, <1>3

LEMMA HostIs ==
  ASSUME TypeOK, SetMode \/ NewDatabase \/ NewConnection
  PROVE  Session!AbsSetMode \/ Session!AbsNewDatabase \/ Session!AbsNewConnection
<1>1. CASE SetMode
  <2>1. Disk' = Disk /\ Saved' = Saved /\ Seen' = Seen
    BY <1>1, SameLayers DEF SetMode
  <2>2. mode' \in {"Document", "Execute"}
    BY <1>1, CatalogAssumption DEF SetMode
  <2>3. QED BY <1>1, <2>1, <2>2
              DEF SetMode, Session!AbsSetMode, Disk, Saved, Seen, Running
<1>2. CASE NewDatabase
  <2>1. Cleared(Layer)
    BY <1>2 DEF NewDatabase
  <2>2. \A l \in Layer : rel'[l] = NoTables /\ gone'[l] = {}
    BY <2>1 DEF Cleared
  <2>3. \A n \in Name, l \in Layer : ~Hit(l, n)'
    BY <2>2 DEF Hit, NoTables
  <2>4. \A n \in Name : InDatabase(n)' = Dialect[n] /\ InConnection(n)' = Dialect[n]
                        /\ Visible(n)' = Dialect[n]
    BY <2>3 DEF InDatabase, InConnection, Visible, Layer
  <2>5. Disk' = Dialect /\ Saved' = Dialect /\ Seen' = Dialect
    BY <2>4, CatalogAssumption DEF Disk, Saved, Seen
  <2>6. QED BY <1>2, <2>5
              DEF NewDatabase, Session!AbsNewDatabase, Disk, Saved, Seen, Running
<1>3. CASE NewConnection
  <2>1. Cleared({"Connection", "Document"})
    BY <1>3 DEF NewConnection
  <2>2. /\ rel'["Database"] = rel["Database"] /\ gone'["Database"] = gone["Database"]
        /\ \A l \in {"Connection", "Document"} : rel'[l] = NoTables /\ gone'[l] = {}
    BY <2>1 DEF Cleared, TypeOK, Layer
  <2>3. \A n \in Name, l \in {"Connection", "Document"} : ~Hit(l, n)'
    BY <2>2 DEF Hit, NoTables
  <2>4. \A n \in Name : InDatabase(n)' = InDatabase(n)
    BY <2>2 DEF InDatabase, Hit, At
  <2>5. \A n \in Name : InConnection(n)' = InDatabase(n) /\ Visible(n)' = InDatabase(n)
    BY <2>3, <2>4 DEF InConnection, Visible
  <2>6. Disk' = Disk /\ Saved' = Disk /\ Seen' = Disk
    BY <2>4, <2>5 DEF Disk, Saved, Seen
  <2>7. QED BY <1>3, <2>6
              DEF NewConnection, Session!AbsNewConnection, Disk, Saved, Seen, Running
<1>4. QED BY <1>1, <1>2, <1>3

LEMMA SessionInit == Init => Session!AbsInit
<1> SUFFICES ASSUME Init PROVE Session!AbsInit
  OBVIOUS
<1>1. Disk \in Schema
  BY InitHolds, BelowType DEF IInv
<1>2. \A n \in Name, l \in {"Connection", "Document"} : ~Hit(l, n)
  BY DEF Init, Hit, NoTables, Layer
<1>3. ASSUME NEW n \in Name
      PROVE  InConnection(n) = InDatabase(n) /\ Visible(n) = InDatabase(n)
  <2>1. ~Hit("Connection", n) /\ ~Hit("Document", n)
    BY <1>2
  <2>2. QED BY <2>1 DEF InConnection, Visible
<1>4. Saved = Disk /\ Seen = Disk
  BY <1>3 DEF Disk, Saved, Seen
<1>5. QED BY <1>1, <1>4, SameStatements, CatalogAssumption
            DEF Init, Session!AbsInit, Disk, Saved, Seen

LEMMA SessionStep ==
  IInv /\ TargetsInv /\ [Next /\ Undisputed]_vars => [Session!AbsNext]_(Session!absVars)
<1> SUFFICES ASSUME IInv, TargetsInv, [Next /\ Undisputed]_vars
             PROVE  [Session!AbsNext]_(Session!absVars)
  OBVIOUS
<1>1. TypeOK /\ TypeOK'
  BY NextKeeps DEF IInv
<1>2. CASE UNCHANGED vars
  BY <1>2, SameLayers DEF vars, Session!absVars, Disk, Saved, Seen
<1>3. CASE AnalyzeStatement /\ Undisputed
  <2>1. CASE Depth = 1
    BY <1>1, <1>3, <2>1, DocumentStatementIs DEF Session!AbsNext, Undisputed
  <2>2. CASE Depth # 1
    BY <1>1, <1>3, <2>2, ModuleStatementIs DEF Session!AbsNext
  <2>3. QED BY <2>1, <2>2
<1>4. CASE DefineFunction
  <2>1. CASE Depth = 1
    BY <1>4, <2>1, DefineFunctionIs DEF Session!AbsNext
  <2>2. CASE Depth # 1
    BY <1>4, <2>2, SameLayers
       DEF DefineFunction, Report, Session!absVars, Disk, Saved, Seen
  <2>3. QED BY <2>1, <2>2
<1>5. CASE SkipImport \/ ImportModule
  <2>1. CASE Depth = 1
    BY <1>1, <1>5, <2>1, IncludeIs DEF Session!AbsNext
  <2>2. CASE Depth # 1
    <3>1. UNCHANGED <<rel, gone, mode, stmt, verdict>>
      BY <1>5, <2>2 DEF SkipImport, ImportModule, Report
    <3>2. frames # <<>> /\ frames' # <<>>
      <4>1. CASE SkipImport
        BY <4>1 DEF SkipImport, Running
      <4>2. CASE ImportModule
        <5>1. PICK f \in Frame : frames' = Append(frames, f)
          BY <4>2, CatalogAssumption DEF ImportModule, Frame
        <5>2. QED BY <1>1, <4>2, <5>1 DEF TypeOK, ImportModule, Running
      <4>3. QED BY <1>5, <4>1, <4>2
    <3>3. QED BY <3>1, <3>2, SameLayers DEF Session!absVars, Disk, Saved, Seen
  <2>3. QED BY <2>1, <2>2
<1>6. CASE EndImport
  <2>1. UNCHANGED <<rel, gone, mode, stmt, verdict>>
    BY <1>6 DEF EndImport
  <2>2. frames # <<>> /\ frames' # <<>>
    <3>1. frames \in Seq(Frame) /\ Len(frames) > 1
      BY <1>1, <1>6 DEF EndImport, Depth, TypeOK
    <3>2. Len(frames') = Len(frames) - 1
      BY <1>6, <3>1 DEF EndImport, Depth
    <3>3. QED BY <3>1, <3>2
  <2>3. QED BY <2>1, <2>2, SameLayers DEF Session!absVars, Disk, Saved, Seen
<1>7. CASE BeginAnalyze
  BY <1>1, <1>7, BeginIs DEF Session!AbsNext
<1>8. CASE EndAnalyze /\ Undisputed
  BY <1>8, EndIs DEF Session!AbsNext
<1>9. CASE SetMode \/ NewDatabase \/ NewConnection
  BY <1>1, <1>9, HostIs DEF Session!AbsNext
<1>10. CASE AddTable /\ Undisputed
  BY <1>1, <1>10, AddTableIs DEF Session!AbsNext
<1>11. QED BY <1>2, <1>3, <1>4, <1>5, <1>6, <1>7, <1>8, <1>9, <1>10 DEF Next

(* The layered catalog implements the flat database session of DbSession:   *)
(* for every set of names, statements and modules, each statement is judged *)
(* on the schema in front of it and changes that schema as SQLite would,    *)
(* and the end of an Execute call keeps it.  Undisputed names the steps     *)
(* where code and session part.                                             *)
THEOREM CatalogIsASession ==
  Init /\ [][Next /\ Undisputed]_vars => ImplementsSession
<1>1. Init => IInv /\ TargetsInv
  BY InitHolds DEF Init, TargetsInv, Depth
<1>2. [Next /\ Undisputed]_vars => [Next]_vars
  OBVIOUS
<1>3. IInv /\ TargetsInv /\ [Next]_vars => IInv' /\ TargetsInv'
  BY NextKeeps, TargetsStep DEF IInv
<1>4. QED
  BY <1>1, <1>2, <1>3, SessionInit, SessionStep, PTL
     DEF ImplementsSession, Session!AbsSpec
=============================================================================
