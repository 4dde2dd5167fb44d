-------------------------------- MODULE LspHost --------------------------------
(***************************************************************************)
(* The embedding API of the language server (LspHost): one caller, one     *)
(* call at a time.  `reply` is the answer of the last call.                *)
(***************************************************************************)
EXTENDS LspHostState

VARIABLES host, reply

vars == <<host, reply>>

Init == host = NewHost /\ reply = NoReply

-----------------------------------------------------------------------------
OpenDocument ==
  \E u \in Uri, t \in Text, l \in {None} \cup Lang :
    host' = Opened(host, u, t, l) /\ reply' = NoReply

UpdateDocument ==
  \E u \in Uri, t \in Text : host' = Updated(host, u, t) /\ reply' = NoReply

CloseDocument ==
  \E u \in Uri : host' = Closed(host, u) /\ reply' = NoReply

SetAnalysisConfig ==
  \E c \in Configs : host' = WithConfig(host, c) /\ reply' = NoReply

SetSchemaMap ==
  \E m \in Maps : host' = WithMap(host, m) /\ reply' = NoReply

(* set_session_context, its JSON and DDL variants, and the clear *)
SetSessionContext ==
  \E b \in Base : host' = WithSchema(host, b) /\ reply' = NoReply

SetSessionContextFromFile ==
  \E b \in Base, f \in Source :
    host' = WithDefinitions(WithSchema(host, b), f) /\ reply' = NoReply

RecordSchemaDefinitions ==
  \E f \in Source : host' = WithDefinitions(host, f) /\ reply' = NoReply

-----------------------------------------------------------------------------
QueryDocument ==
  \E u \in Uri, q \in AnalysisQuery :
    /\ host' = Ensured(host, u)
    /\ reply' = Reply(q, u, Cached(host', {u}), None)

QuerySemanticTokens ==
  \E u \in Uri :
    /\ host' = TokensDerived(Ensured(host, u), u)
    /\ reply' = Reply("tokens", u, [x \in Open(host) \cap {u} |-> host'.tokens[x]],
                      None)

(* No symbol at the cursor, or no such document: an early return. *)
QueryNoSymbol ==
  \E u \in Uri, q \in AllQuery :
    host' = Ensured(host, u) /\ reply' = Reply(q, u, Nothing, None)

FindReferences ==
  \E u \in Open(host), q \in AllQuery :
    \E last \in Orders(Ensured(host, u)) :
      /\ host' = EnsuredAll(Ensured(host, u), last)
      /\ reply' = Reply(q, u, Cached(host', Uri), None)

(* completion_items analyses the document once more, with a placeholder at  *)
(* the cursor, and offers the names of the user catalog.                    *)
CompletionItems ==
  \E u \in Open(host) :
    /\ host' = Ran(Ensured(host, u), u, SlotOf(host, u))
    /\ reply' = Reply("completion", u, Cached(host', {u}), UserNames(host'))

SignatureHelp ==
  \E u \in Open(host) :
    /\ host' = Ensured(host, u)
    /\ reply' = Reply("functions", u, Cached(host', {u}), UserNames(host'))

AvailableFunctionNames ==
  /\ reply' = Reply("functions", None, Nothing, UserNames(host))
  /\ UNCHANGED host

AllDiagnostics ==
  \E u \in Open(host) :
    /\ host' = Ran(Ensured(host, u), u, "user")
    /\ reply' = Reply("allDiagnostics", u, Cached(host', {u}), UserNames(host'))

Next ==
  \/ OpenDocument \/ UpdateDocument \/ CloseDocument
  \/ SetAnalysisConfig \/ SetSchemaMap \/ SetSessionContext
  \/ SetSessionContextFromFile \/ RecordSchemaDefinitions
  \/ QueryDocument \/ QuerySemanticTokens \/ QueryNoSymbol \/ FindReferences
  \/ CompletionItems \/ SignatureHelp \/ AvailableFunctionNames
  \/ AllDiagnostics

Spec == Init /\ [][Next]_vars

-----------------------------------------------------------------------------
(* The caches hold analyses, the layers documents. *)
TypeOK == host \in HostType

(* Every cached analysis is what a fresh run over the document would give  *)
(* under the schema and configuration of now, but for schema files that    *)
(* were registered since; and the tokens come from the cached analysis.    *)
CacheIsFresh == CachesFresh(host)

(* The cached host answers as one that caches nothing: see LspService.     *)
Service == INSTANCE LspService WITH
  svc <- [docs |-> host.docs, base |-> host.base, map |-> host.map,
          config |-> host.config, defs |-> host.defs]

ImplementsService == Service!AbsSpec
=============================================================================
