-------------------------------- MODULE LspData --------------------------------
(***************************************************************************)
(* What an editor host is told, and what an analysis of a document depends *)
(* on (syntaqlite/src/lsp/host.rs).                                        *)
(*                                                                         *)
(* Texts, schemas and schema files are opaque.  The result of an analysis  *)
(* is represented by everything it is computed from, so that two results   *)
(* are equal exactly when the computation cannot tell them apart.          *)
(*                                                                         *)
(* The operators take a state s with the fields                            *)
(*   docs    the open documents, by URI                                    *)
(*   base    the schema of the user catalog                                *)
(*   map     the schema map, a function from URIs to entries, or None      *)
(*   config  the analysis configuration                                    *)
(*   defs    the schema files whose definitions were registered            *)
(***************************************************************************)
EXTENDS Naturals, Sequences

CONSTANTS
  Uri,          \* document identities
  Text,         \* document contents
  Lang,         \* language identifiers a client announces
  Base,         \* schemas a catalog is built from
  DialectOnly,  \* the schema without user relations
  Entry,        \* entries of the schema map, each with a catalog of its own
  EntryBase,    \* the schema of each entry
  Maps,         \* schema maps the host may be given
  Source,       \* schema files whose definitions can be registered
  Configs,      \* the analysis configurations a host may be given
  None

ASSUME LspDataAssumption ==
  /\ DialectOnly \in Base
  /\ EntryBase \in [Entry -> Base]
  /\ Maps \subseteq [Uri -> {None} \cup Entry]
  /\ Configs \subseteq [project : BOOLEAN, strict : BOOLEAN]
  /\ None \notin Maps /\ None \notin Entry /\ "user" \notin Entry

Doc    == [text : Text, lang : {None} \cup Lang]
Config == [project : BOOLEAN, strict : BOOLEAN]  \* project: not the default
Slots  == {"user"} \cup Entry    \* the catalogs of a host

ASSUME NoneIsNoDoc == \A d \in Doc : d # None

DefaultConfig == [project |-> FALSE, strict |-> FALSE]
Strict(c)     == [c EXCEPT !.strict = TRUE]

Open(s) == {u \in Uri : s.docs[u] # None}

(* select_catalog: a file the map matches has its own schema, strictly      *)
SlotOf(s, u) ==
  IF s.map # None /\ s.map[u] # None THEN s.map[u] ELSE "user"
SchemaFor(s, slot) == IF slot = "user" THEN s.base ELSE EntryBase[slot]
ConfigFor(s, u) == IF SlotOf(s, u) = "user" THEN s.config ELSE Strict(s.config)

(* The analysis of the document u in the state s. *)
Analysis == [doc : Doc, base : Base, config : Config, defs : SUBSET Source]
Analysed(s, u) ==
  [doc |-> s.docs[u], base |-> SchemaFor(s, SlotOf(s, u)),
   config |-> ConfigFor(s, u), defs |-> s.defs]

ASSUME NoneIsNoAnalysis == \A a \in Analysis : a # None

(* An answer shows the analyses of some documents and, when it offers names *)
(* of the schema, the catalog it took them from: its schema and the         *)
(* document whose DDL it holds.                                             *)
Nothing == [u \in {} |-> None]
Names   == [base : Base, ddl : {None} \cup Doc]
Reply(query, uri, seen, names) ==
  [query |-> query, uri |-> uri, seen |-> seen, names |-> names]
NoReply == Reply("none", None, Nothing, None)

AnalysisQuery == {"diagnostics", "hover", "definition", "prepareRename"}
AllQuery      == {"references", "highlight", "rename"}
=============================================================================
