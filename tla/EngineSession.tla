----------------------------- MODULE EngineSession -----------------------------
(***************************************************************************)
(* One session of the WebAssembly runtime (Session in                      *)
(* syntaqlite-wasm/src/main.rs) with the language server inside it, as far *)
(* as its life depends on the dialect, and the calls the JavaScript Engine *)
(* makes on it (syntaqlite-js/src/engine.ts).                              *)
(*                                                                         *)
(* The server is built when a message needs it and dropped whenever the    *)
(* dialect is rebuilt, with its documents, its lifecycle and its schema    *)
(* context.                                                                *)
(***************************************************************************)
EXTENDS Naturals

CONSTANTS
  Symbol,    \* the dialect templates that side modules export
  Override,  \* SQLite versions and compile flags
  Uri,
  Context,   \* schema contexts, see below
  None

(* A context is given as JSON, which the server takes or refuses, or as    *)
(* DDL, of which it takes the statements that parse.                       *)
ASSUME ContextAssumption ==
  Context \subseteq [kind : {"json", "ddl"}, tables : STRING, valid : BOOLEAN]

(* What a session holds; no context and no server is taken for none.       *)
Dialects == {None} \cup (Symbol \X Override)
Applied  == [tables : STRING, whole : BOOLEAN]
Server ==
  [dialect : Dialects, lifecycle : {"Uninitialized", "Initialized"},
   context : {None} \cup Applied, docs : [Uri -> Nat]]
Session ==
  [dialect_template : {None} \cup Symbol, override : Override,
   dialect : Dialects, lsp : {None} \cup Server]

ASSUME NoneAssumption == None \notin Context /\ None \notin Server

InForce(c) == IF c = None THEN None
              ELSE [tables |-> c.tables, whole |-> c.valid]

NewServer(dialect) ==
  [dialect |-> dialect, lifecycle |-> "Uninitialized", context |-> None,
   docs |-> [uri \in Uri |-> 0]]

NewSession(override) ==
  [dialect_template |-> None, override |-> override, dialect |-> None, lsp |-> None]

(* rebuild_dialect                                                         *)
Rebuilt(s) ==
  [[s EXCEPT !.lsp = None] EXCEPT
     !.dialect = IF s.dialect_template = None THEN None
                 ELSE <<s.dialect_template, s.override>>]

(* Session::lsp: the server a message goes to; without a dialect there is  *)
(* none, and every message throws.                                         *)
Lsp(s) == IF s.lsp = None THEN NewServer(s.dialect) ELSE s.lsp

ServerContext(s) == Lsp(s).context

-----------------------------------------------------------------------------
(* applySessionContext: syntaqlite/setSessionContext, which the server     *)
(* takes before its handshake too.  None clears the context.               *)
Refuses(s, c) == s.dialect = None \/ (c # None /\ c.kind = "json" /\ ~c.valid)

ApplyContext(s, c) ==
  IF Refuses(s, c) THEN s
  ELSE [s EXCEPT !.lsp = [Lsp(s) EXCEPT !.context = InForce(c)]]

(* setDialectPointer, which gives the new server the context remembered.   *)
(* It throws if that is JSON the server refuses; what goes wrong with DDL  *)
(* is only returned.                                                       *)
WithDialect(s, symbol) == Rebuilt([s EXCEPT !.dialect_template = symbol])

(* A plausible slip: callers have to track the context themselves.         *)
SetDialectPointerBare(s, symbol, remembered) == WithDialect(s, symbol)

SetDialectPointer(s, symbol, remembered) ==
  IF remembered = None THEN WithDialect(s, symbol)
  ELSE ApplyContext(WithDialect(s, symbol), remembered)
Throws(s, symbol, remembered) ==
  /\ remembered # None /\ remembered.kind = "json"
  /\ Refuses(WithDialect(s, symbol), remembered)

(* A plausible slip: the override waits for the next dialect.              *)
SetOverrideLazily(s, override) == [s EXCEPT !.override = override]

(* setSqliteVersion, setCflag and the calls that clear flags.              *)
SetOverride(s, override) == Rebuilt([s EXCEPT !.override = override])
=============================================================================
