------------------------------ MODULE MCLspServer ------------------------------
(***************************************************************************)
(* Finite instances of LspServer.                                          *)
(***************************************************************************)
EXTENDS LspServer, TLC

CONSTANTS u1, u2, x, y, sql, dialect, schema, e1

MCUri    == {u1, u2}
MCText   == {x, y}
MCLang   == {sql}
MCBase   == {dialect, schema}
MCEntry  == {e1}
MCEntryBase == [e \in MCEntry |-> schema]
MapU1    == [u \in MCUri |-> IF u = u1 THEN e1 ELSE None]
MCMaps   == {MapU1}
NoFiles  == {}
Project  == [project |-> TRUE, strict |-> FALSE]
MCConfigs == {Project}

(* A project with check levels, and a schema for one document. *)
WithSchemas == {[map |-> MapU1, schema |-> None, config |-> Project, defs |-> {}]}
(* No project, and a project with a schema only. *)
WithoutLevels ==
  {[map |-> None, schema |-> s, config |-> None, defs |-> {}] : s \in {None, schema}}
AnyProject == WithSchemas \cup WithoutLevels
Queries    == {"references", "formatting"}
=============================================================================
