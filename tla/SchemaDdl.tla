------------------------------ MODULE SchemaDdl ------------------------------
(***************************************************************************)
(* The data every schema module speaks about: what the analyzer knows of   *)
(* one table or view, the statements that read or change it, and what an   *)
(* ALTER TABLE does to a column list.                                      *)
(*                                                                         *)
(* A Name or a Col stands for all spellings of one identifier (that is     *)
(* what NameKey is).  A column list is the set of its names: the order and *)
(* the kinds of columns are left out, no property is about them.           *)
(***************************************************************************)
EXTENDS Naturals, Sequences

CONSTANTS
  Name,     \* relation names
  Col,      \* column names
  Module,   \* module names an INCLUDE can mention
  Unknown,  \* a column list that is not tracked (columns: None)
  None      \* no relation of that name

Columns == {Unknown} \cup SUBSET Col
Kind    == {"table", "view", "builtin"}
Entry   == [cols : Columns, kind : Kind]
Slot    == {None} \cup Entry
Schema  == [Name -> Slot]

ASSUME UnknownIsNoList == \A list \in SUBSET Col : Unknown # list
ASSUME NoneIsNoEntry   == \A e \in Entry : None # e

Relation(kind, cols) == [cols |-> cols, kind |-> kind]

(* A column list as it is written may name a column twice. *)
Listed(list) == {list[i] : i \in DOMAIN list}
HasDuplicate(list) ==
  \E i, j \in DOMAIN list : i # j /\ list[i] = list[j]

-----------------------------------------------------------------------------
(* The statements.  "other" is any statement without a role in the schema.  *)

Created == {"table", "view"}

Create     == [op : {"create"}, kind : Created, name : Name,
               list : Seq(Col)]
CreateAs   == [op : {"createAs"}, name : Name, source : Name]
AddCol     == [op : {"addColumn"}, name : Name, col : Col]
DropCol    == [op : {"dropColumn"}, name : Name, col : Col]
RenameCol  == [op : {"renameColumn"}, name : Name, col : Col, to : Col]
RenameTo   == [op : {"renameTable"}, name : Name, to : Name]
Drop       == [op : {"drop"}, kind : Created, name : Name, ifExists : BOOLEAN]
Query      == [op : {"query"}, name : Name]
Include    == [op : {"include"}, module : Module, resolved : BOOLEAN]
Other      == [op : {"other"}]

ColumnChange == AddCol \cup DropCol \cup RenameCol
Alter        == ColumnChange \cup RenameTo
Statement    == Create \cup CreateAs \cup Alter \cup Drop \cup Query
                  \cup Include \cup Other

-----------------------------------------------------------------------------
(* What SQLite objects to in a column change of a relation with columns     *)
(* `cols`, or "ok"; nothing when the columns are unknown.                   *)
Objection(cols, s) ==
  IF cols = Unknown THEN "ok"
  ELSE IF s.op = "addColumn" /\ s.col \in cols THEN "duplicate"
  ELSE IF s.op # "addColumn" /\ s.col \notin cols THEN "missing"
  ELSE IF s.op = "renameColumn" /\ s.to # s.col /\ s.to \in cols
    THEN "duplicate"
  ELSE "ok"

(* The columns after the change. *)
Changed(cols, s) ==
  IF cols = Unknown THEN Unknown
  ELSE IF s.op = "addColumn"  THEN cols \cup {s.col}
  ELSE IF s.op = "dropColumn" THEN cols \ {s.col}
  ELSE (cols \ {s.col}) \cup {s.to}
=============================================================================
