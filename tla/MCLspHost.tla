------------------------------ MODULE MCLspHost ------------------------------
(***************************************************************************)
(* Finite instances of LspHost.                                            *)
(***************************************************************************)
EXTENDS LspHost, TLC

CONSTANTS u1, u2, x, y, dialect, schema, e1, file

TwoUris    == {u1, u2}
TwoTexts   == {x, y}
NoLang     == {}
Schemas    == {dialect, schema}
OneEntry   == {e1}
EntrySchema == [e \in Entry |-> schema]
MapU1      == {[u \in TwoUris |-> IF u = u1 THEN e1 ELSE None]}
OneFile    == {file}
ProjectConfig == {[project |-> TRUE, strict |-> FALSE]}
=============================================================================
