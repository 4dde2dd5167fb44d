------------------------------ MODULE MCCatalog ------------------------------
(***************************************************************************)
(* Finite instances of Catalog: three relations, two columns.              *)
(***************************************************************************)
EXTENDS Catalog, TLC

CONSTANTS t, u, builtin, a, b, m1, m2

MCName     == {t, u, builtin}
MCCol      == {a, b}
TwoModules == {m1, m2}
OneModule  == {m1}
NoModules  == {}
NoFns      == {}
OneFn      == {"f"}
Arities    == {1, 2}

WithBuiltin == [n \in MCName |->
                  IF n = builtin THEN Relation("builtin", {a}) ELSE None]
NoPreload   == [n \in MCName |-> None]
PreloadT    == [NoPreload EXCEPT ![t] = Relation("table", {a})]

(* All DDL on `names`.  A CREATE TABLE t AS SELECT .. FROM t, and a rename  *)
(* of a table to its own name, are left out: see the README.                *)
Ddl(names, lists, cols) ==
       [op : {"create"}, kind : Created, name : names, list : lists]
  \cup [op : {"createAs"}, name : names, source : MCName]
  \cup [op : {"addColumn", "dropColumn"}, name : names, col : cols]
  \cup [op : {"renameColumn"}, name : names, col : cols, to : MCCol]
  \cup [op : {"renameTable"}, name : names, to : names]
  \cup [op : {"drop"}, kind : Created, name : names, ifExists : {FALSE}]

BuiltinDdl ==
       [op : {"addColumn"}, name : {builtin}, col : {b}]
  \cup [op : {"renameTable"}, name : {builtin}, to : {u}]
  \cup [op : {"drop"}, kind : {"table"}, name : {builtin}, ifExists : BOOLEAN]

Queries == [op : {"query"}, name : MCName] \cup {[op |-> "other"]}
Lists   == {<<a>>, <<a, b>>, <<b, b>>}

SessionStatements ==
  Ddl({t, u}, {<<a>>}, {b}) \cup BuiltinDdl \cup [op : {"query"}, name : {t}]
  \cup [op : {"drop"}, kind : {"table"}, name : {t}, ifExists : {TRUE}]

DocumentStatements ==
  SessionStatements \cup [op : {"create"}, kind : Created, name : {t}, list : Lists]
  \cup [op : {"dropColumn"}, name : {t}, col : {a}]
  \cup [op : {"renameColumn"}, name : {t}, col : {a}, to : {b}]

(* Tables of the database are altered but not dropped: one dropped in an     *)
(* Execute call is back in the next, which the run catalog_drop_lost shows.  *)
FewT == [op : {"create"}, kind : {"table"}, name : {t}, list : {<<a, b>>}]
        \cup [op : {"dropColumn"}, name : {t}, col : {b}]
        \cup [op : {"query"}, name : {t, u}]

OnU == Ddl({u}, {<<a>>}, {b}) \cup BuiltinDdl
Drops == [op : {"drop"}, kind : {"table"}, name : {t}, ifExists : {FALSE}]
           \cup Queries \cup [op : {"create"}, kind : {"table"}, name : {u},
                              list : Lists]

NoStatements == {}
HostTU == {<<t, {a}>>, <<u, {a}>>}
HostU  == {<<u, {a}>>}

(* The bound of the sessions: all of the DDL where one of the Database and   *)
(* the Connection layer is empty, a table created or dropped elsewhere.     *)
Few == [op : {"create"}, kind : {"table"}, name : {t, u}, list : {<<a>>}]
        \cup [op : {"drop"}, kind : {"table"}, name : {t, u}, ifExists : {FALSE}]
Bounded ==
  \/ rel'["Database"] # NoTables /\ mode' = "Document" /\ rel'["Connection"] = NoTables
  \/ rel'["Database"] = NoTables /\ stmt' \in SessionStatements
  \/ stmt' \in Few \/ stmt'.op \in {"other", "include"}

(* The sessions the catalog follows: see Undisputed. *)
SessionSpec == Init /\ [][Next /\ Undisputed /\ Bounded]_vars

NoHost      == {}
OnlyExecute == {"Execute"}
BothModes   == {"Document", "Execute"}
=============================================================================
