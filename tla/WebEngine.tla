------------------------------- MODULE WebEngine -------------------------------
(***************************************************************************)
(* The engine of a web page: dialects selected through a DialectManager    *)
(* whose side modules load while the page goes on (syntaqlite-js/src/      *)
(* dialect.ts), a schema context that outlives the language server         *)
(* (engine.ts), and an editor whose client notices that the server was     *)
(* replaced and starts over (playground/src/lsp_session.ts).               *)
(*                                                                         *)
(* JavaScript runs one function at a time; a function that awaits goes on  *)
(* in a later turn, in the order the awaited promises were settled.  The   *)
(* page calls at any time, a side module arrives at any time.              *)
(***************************************************************************)
EXTENDS EngineSession, Sequences

CONSTANTS
  Selection,  \* calls of selectPreset and loadFromFile
  MaxVersion  \* bound on the versions of a document

VARIABLES
  session,          \* Session
  session_context,  \* Engine.sessionContext: what a new server is given
  active, cache,    \* DialectManager
  selections,       \* the selections under way
  turns,            \* those whose promise is settled, in order
  version,          \* the text of each document in the editor
  initialized, synced, \* LspSession: handshake done, versions sent
  answer,           \* the last answer the editor got
  wanted,           \* the context of the last call that was taken in full
  overridden,       \* a version or flag was set after the context
  stuck             \* a switch failed on the context it had to apply

engine  == <<session, session_context>>
manager == <<active, cache, selections, turns>>
client  == <<version, initialized, synced, answer>>
ghosts  == <<wanted, overridden, stuck>>
vars    == <<engine, manager, client, ghosts>>

Unknown == [tables |-> "unknown"]

Idle == [stage |-> "idle", symbol |-> None, file |-> FALSE]

Init ==
  /\ session \in {NewSession(o) : o \in Override}
  /\ session_context = None
  /\ active = None /\ cache = {}
  /\ selections = [i \in Selection |-> Idle] /\ turns = <<>>
  /\ version = [uri \in Uri |-> 1]
  /\ initialized = FALSE /\ synced = [uri \in Uri |-> 0]
  /\ answer = None
  /\ wanted = None /\ overridden = FALSE /\ stuck = FALSE

-----------------------------------------------------------------------------
(* The dialect manager                                                     *)

Staged(i, stage) == [selections EXCEPT ![i].stage = stage]

(* selectPreset and loadFromFile up to their first await.                  *)
Select(i, symbol, file) ==
  /\ selections[i].stage = "idle"
  /\ LET cached == ~file /\ symbol \in cache IN
       /\ selections' = [selections EXCEPT ![i] =
            [stage |-> IF cached THEN "bound" ELSE "loading",
             symbol |-> symbol, file |-> file]]
       /\ turns' = IF cached THEN Append(turns, i) ELSE turns
  /\ UNCHANGED <<engine, active, cache, client, ghosts>>

(* loadDynamicLibrary settles.                                             *)
ModuleArrives(i) ==
  /\ selections[i].stage = "loading"
  /\ selections' = Staged(i, "loaded")
  /\ turns' = Append(turns, i)
  /\ UNCHANGED <<engine, active, cache, client, ghosts>>

(* It is rejected, or the module does not export the symbol.               *)
ModuleFails(i) ==
  /\ selections[i].stage = "loading"
  /\ selections' = Staged(i, "failed")
  /\ UNCHANGED <<engine, active, cache, turns, client, ghosts>>

(* The pointer is handed to the runtime; an exception ends the selection.  *)
Point(i, next) ==
  LET symbol == selections[i].symbol
      throws == Throws(session, symbol, session_context) IN
  /\ session' = SetDialectPointer(session, symbol, session_context)
  /\ selections' = Staged(i, IF throws THEN "failed" ELSE next)
  /\ stuck' = throws
  /\ overridden' = FALSE
  /\ UNCHANGED <<session_context, wanted>>

(* The rest of loadDialectFromUrl.                                         *)
Loaded(i) ==
  /\ selections[i].stage = "loaded"
  /\ Point(i, IF selections[i].file THEN "bound" ELSE "fetched")
  /\ turns' = IF stuck' THEN Tail(turns) ELSE Append(Tail(turns), i)
  /\ UNCHANGED <<active, cache, client>>

(* A plausible slip: the binding is cached and its promise forgotten.      *)
FetchedForgotten(i) ==
  /\ selections[i].stage = "fetched"
  /\ cache' = cache \cup {selections[i].symbol}
  /\ selections' = Staged(i, "bound")
  /\ turns' = Tail(turns)
  /\ UNCHANGED <<engine, active, client, ghosts>>

(* The rest of loadCached.                                                 *)
Fetched(i) ==
  /\ selections[i].stage = "fetched"
  /\ cache' = cache \cup {selections[i].symbol}
  /\ selections' = Staged(i, "bound")
  /\ turns' = Append(Tail(turns), i)
  /\ UNCHANGED <<engine, active, client, ghosts>>

(* A plausible slip: loading has set the pointer, so it is not set again,  *)
(* though a cached binding was not loaded now.                             *)
BoundOnly(i) ==
  /\ selections[i].stage = "bound"
  /\ selections' = Staged(i, "selected")
  /\ active' = selections[i].symbol
  /\ turns' = Tail(turns)
  /\ UNCHANGED <<engine, cache, client, ghosts>>

(* The rest of selectPreset or loadFromFile.                               *)
Bound(i) ==
  /\ selections[i].stage = "bound"
  /\ Point(i, "selected")
  /\ active' = IF stuck' THEN active ELSE selections[i].symbol
  /\ turns' = Tail(turns)
  /\ UNCHANGED <<cache, client>>

Turn == turns # <<>> /\ LET i == Head(turns) IN Loaded(i) \/ Fetched(i) \/ Bound(i)

-----------------------------------------------------------------------------
(* The schema context and the version                                      *)

(* setSessionContext remembers JSON before it is sent, setSessionContextDdl*)
(* remembers DDL once it was taken in full.                                *)
SetContext(c) ==
  /\ session' = ApplyContext(session, c)
  /\ LET taken == ~Refuses(session, c) /\ c.valid IN
       /\ session_context' = IF c.kind = "json" \/ taken THEN c ELSE session_context
       /\ wanted' = IF taken THEN InForce(c) ELSE Unknown
       /\ overridden' = (overridden /\ ~taken)
  /\ UNCHANGED <<stuck, manager, client>>

ClearContext ==
  /\ session' = ApplyContext(session, None)
  /\ session_context' = None
  /\ wanted' = None /\ overridden' = FALSE
  /\ UNCHANGED <<stuck, manager, client>>

Configure(o) ==
  /\ session' = SetOverride(session, o)
  /\ overridden' = TRUE
  /\ UNCHANGED <<session_context, wanted, stuck, manager, client>>

-----------------------------------------------------------------------------
(* The editor's client                                                     *)

Edit(uri) ==
  /\ version[uri] < MaxVersion
  /\ version' = [version EXCEPT ![uri] = @ + 1]
  /\ UNCHANGED <<engine, manager, initialized, synced, answer, ghosts>>

(* What the client knows and the server holds: a server before its         *)
(* handshake drops notifications.                                          *)

Reset(c) == [[c EXCEPT !.initialized = FALSE] EXCEPT !.synced = [uri \in Uri |-> 0]]

EnsureInitialized(c) ==
  IF c.initialized THEN c
  ELSE [[c EXCEPT !.initialized = TRUE] EXCEPT
          !.lsp = [c.lsp EXCEPT !.lifecycle = "Initialized"]]

Told(server, uri) == [server EXCEPT !.docs[uri] = version[uri]]

(* A plausible slip: a document the server was sent once is not sent again.*)
SyncDocumentOnce(c, uri, force) ==
  IF c.synced[uri] # 0 /\ ~force THEN c
  ELSE LET sent == [c EXCEPT !.synced[uri] = version[uri]] IN
       IF c.lsp.lifecycle # "Initialized" THEN sent
       ELSE [sent EXCEPT !.lsp = Told(c.lsp, uri)]

SyncDocument(c, uri, force) ==
  IF c.synced[uri] = version[uri] /\ ~force THEN c
  ELSE LET sent == [c EXCEPT !.synced[uri] = version[uri]] IN
       IF c.lsp.lifecycle # "Initialized" THEN sent
       ELSE [sent EXCEPT !.lsp = Told(c.lsp, uri)]

Attempt(c, uri, force) == SyncDocument(EnsureInitialized(c), uri, force)
Served(c) == c.lsp.lifecycle = "Initialized"
Repeated(c, uri, force) ==
  LET first == Attempt(c, uri, force) IN
  IF Served(first) THEN first ELSE Attempt(Reset(first), uri, force)

(* A request, or a forced sync for diagnostics, repeated once after a      *)
(* server that says it is not initialized, or says nothing.                *)
Ask(uri, force) ==
  /\ session.dialect # None
  /\ LET c == [initialized |-> initialized, synced |-> synced, lsp |-> Lsp(session)]
         last == Repeated(c, uri, force) IN
       /\ session' = [session EXCEPT !.lsp = last.lsp]
       /\ initialized' = last.initialized
       /\ synced' = last.synced
       /\ answer' = [served |-> Served(last), text |-> last.lsp.docs[uri],
                     asked |-> version[uri]]
  /\ UNCHANGED <<session_context, manager, version, ghosts>>

-----------------------------------------------------------------------------
Next ==
  \/ \E i \in Selection : \/ \E symbol \in Symbol, file \in BOOLEAN : Select(i, symbol, file)
                          \/ ModuleArrives(i) \/ ModuleFails(i)
  \/ Turn
  \/ \E c \in Context : SetContext(c)
  \/ ClearContext
  \/ \E o \in Override : Configure(o)
  \/ \E uri \in Uri : Edit(uri) \/ Ask(uri, TRUE) \/ Ask(uri, FALSE)

(* Settled promises run before the browser does anything else, and a       *)
(* fetch succeeds or fails in the end.                                     *)
Fairness ==
  /\ WF_vars(Turn)
  /\ \A i \in Selection : WF_vars(ModuleArrives(i) \/ ModuleFails(i))

Spec == Init /\ [][Next]_vars /\ Fairness

-----------------------------------------------------------------------------
(* No server outlives the dialect it was built for, and the version and    *)
(* flags set on a session hold for every dialect selected later.           *)
ServerSpeaksTheDialect ==
  /\ session.dialect = IF session.dialect_template = None THEN None
                       ELSE <<session.dialect_template, session.override>>
  /\ session.lsp # None => session.lsp.dialect = session.dialect

(* However selections overlap, the engine has the dialect the manager      *)
(* shows once nothing is about to run, unless a switch failed half way.    *)
ManagerShowsTheDialect ==
  turns = <<>> /\ ~stuck => session.dialect_template = active

(* The schema the page has set is the one the server checks against.       *)
ContextIsKept ==
  session.dialect # None /\ wanted # Unknown => ServerContext(session) = wanted

(* The same as long as no version or flag is set after the schema.         *)
ContextSurvivesSwitches == overridden \/ ContextIsKept

(* Whatever became of the server and of the text since the last one, an    *)
(* answer comes from a server that has completed its handshake and shows   *)
(* the text the editor asked about, whether it differs from the answer     *)
(* before or not (LspSession.request and diagnosticsOnce).                 *)
AnswersAreCurrent == answer # None => answer.served /\ answer.text = answer.asked

(* Every selection comes to an end, of a dialect to load and of one already *)
(* loaded.                                                                 *)
SelectionsReturn == \A i \in Selection :
  selections[i].stage # "idle" ~> selections[i].stage \in {"selected", "failed"}
=============================================================================
