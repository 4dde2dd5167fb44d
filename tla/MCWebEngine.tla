----------------------------- MODULE MCWebEngine -----------------------------
(* Two dialects, two versions of SQLite, and schemas in either format.      *)
EXTENDS WebEngine, TLC

CONSTANTS sqlite, perfetto, latest, old, doc, one, two

Symbols    == {sqlite, perfetto}
Overrides  == {latest, old}
Uris       == {doc}
Calls      == {one, two}
SomeJson   == [kind |-> "json", tables |-> "a", valid |-> TRUE]
BadJson    == [kind |-> "json", tables |-> "b", valid |-> FALSE]
SomeDdl    == [kind |-> "ddl",  tables |-> "c", valid |-> TRUE]
PartialDdl == [kind |-> "ddl",  tables |-> "d", valid |-> FALSE]
Contexts   == {SomeJson, BadJson, SomeDdl, PartialDdl}
=============================================================================
