------------------------------- MODULE LspServer -------------------------------
(***************************************************************************)
(* The language server: LspDispatcher (lsp/dispatcher.rs) over a LspHost,  *)
(* in the message loop of LspServer::run_with_config (lsp/server.rs), and  *)
(* a client that sends requests and notifications without waiting.         *)
(*                                                                         *)
(* One step of the server handles one message: it takes it from the inbox, *)
(* calls the host as the handler does and leaves what is to be sent in     *)
(* `sending`; the loop then sends it piece by piece before it takes the    *)
(* next message.  Both channels are first-in first-out and bounded.        *)
(*                                                                         *)
(* The client keeps `view`, the documents and the context as it has        *)
(* described them to the server so far, and `phase`, the lifecycle its     *)
(* messages ask for.  Both run ahead of the server by what is in the       *)
(* inbox.                                                                  *)
(***************************************************************************)
EXTENDS LspHostState, FiniteSets, SequencesExt

CONSTANTS
  Projects,   \* project configurations a server may be started with
  Feature,    \* the feature requests a client sends
  Other,      \* whether it also sends what no server handles
  Capacity,   \* bound: messages a channel holds
  MaxSent     \* bound: messages a client sends in all

ASSUME LspServerAssumption ==
  /\ Projects \subseteq [map : {None} \cup Maps, schema : {None} \cup Base,
                         config : {None} \cup Configs, defs : SUBSET Source]
  /\ Feature \subseteq AnalysisQuery \cup AllQuery \cup
                       {"tokens", "signature", "completion", "formatting"}
  /\ Other \in BOOLEAN /\ IsFiniteSet(Uri)
  /\ Capacity \in Nat \ {0} /\ MaxSent \in Nat

VARIABLES
  host, lifecycle, exited,   \* LspDispatcher
  sending,                   \* what handle returned, not yet sent
  inbox, outbox,             \* the two directions of the transport
  view, phase,               \* what the client has asked for
  pending,                   \* its requests without an answer, in order
  shown,                     \* the diagnostics it shows, by document
  sent                       \* how many messages it has sent

serverVars == <<host, lifecycle, exited>>
clientVars == <<view, phase, pending, shown, sent>>
vars == <<serverVars, sending, inbox, outbox, clientVars>>

-----------------------------------------------------------------------------
(* Messages: a request has an id, a notification has the id 0.              *)

Code == {"ok", "ServerNotInitialized", "InvalidRequest", "InvalidParams",
         "MethodNotFound", "InternalError", "ParseError"}

Message(kind, id, u, arg, valid) ==
  [kind |-> kind, id |-> id, uri |-> u, arg |-> arg, valid |-> valid]

(* An answer, or diagnostics, and the analysis they were computed from.     *)
Response(m, code, seen) ==
  [id |-> m.id, code |-> code, uri |-> m.uri, seen |-> seen]
Publish(u, seen) == [id |-> 0, code |-> "publish", uri |-> u, seen |-> seen]

-----------------------------------------------------------------------------
(* LspDispatcher::with_config: a schema without check levels is checked     *)
(* strictly; a schema map takes the place of the schema.                    *)
Started(p) ==
  LET recorded   == [NewHost EXCEPT !.defs = p.defs]
      configured == IF p.config = None THEN recorded
                    ELSE WithConfig(recorded, p.config)
      level      == IF p.config = None THEN Strict(DefaultConfig) ELSE p.config
  IN  IF p.map # None THEN WithMap(configured, p.map)
      ELSE IF p.schema = None THEN configured
      ELSE WithConfig(WithSchema(configured, p.schema), level)

(* What a client knows of a host. *)
ViewOf(h) == [docs |-> h.docs, base |-> h.base, map |-> h.map,
              config |-> h.config, defs |-> h.defs]

Init ==
  /\ host \in {Started(p) : p \in Projects}
  /\ lifecycle = "Uninitialized" /\ exited = FALSE
  /\ sending = <<>> /\ inbox = <<>> /\ outbox = <<>>
  /\ view = ViewOf(host) /\ phase = "Uninitialized"
  /\ pending = <<>> /\ shown = [u \in Uri |-> None] /\ sent = 0

-----------------------------------------------------------------------------
(* The lifecycle: handle_request, handle_initialize.                        *)

RejectSilently(m, code) == sending' = <<>> /\ UNCHANGED serverVars  \* a slip
Reject(m, code) ==
  sending' = <<Response(m, code, None)>> /\ UNCHANGED serverVars

HandleInitialize(m) ==
  /\ m.kind = "initialize" /\ lifecycle = "Uninitialized"
  /\ \/ m.valid /\ lifecycle' = "Initialized"
        /\ sending' = <<Response(m, "ok", None)>> /\ UNCHANGED <<host, exited>>
     \/ ~m.valid /\ Reject(m, "InvalidParams")

HandleShutdown(m) ==
  /\ m.kind = "shutdown" /\ lifecycle = "Initialized"
  /\ lifecycle' = "ShutDown"
  /\ sending' = <<Response(m, "ok", None)>> /\ UNCHANGED <<host, exited>>

AcceptsContextAlways(m) == m.kind = "setSessionContext"  \* a slip
AcceptsContext(m) == m.kind = "setSessionContext" /\ lifecycle # "ShutDown"

(* A request outside a session, and a second initialize. *)
HandleRefused(m) ==
  /\ m.id # 0 /\ m.kind # "malformed" /\ ~AcceptsContext(m)
  /\ \/ lifecycle = "Uninitialized" /\ m.kind # "initialize"
        /\ Reject(m, "ServerNotInitialized")
     \/ lifecycle = "Initialized" /\ m.kind = "initialize"
        /\ Reject(m, "InvalidRequest")
     \/ lifecycle = "ShutDown" /\ Reject(m, "InvalidRequest")

-----------------------------------------------------------------------------
(* syntaqlite/setSessionContext *)

(* republish_all: the open documents in the order of a hash map.            *)
RunOrders(h) == {order \in [1..Cardinality(Open(h)) -> Open(h)] :
                   Range(order) = Open(h)}
(* `last` is, for each catalog, the dirty document that comes last in it.   *)
LastRun(h, order, last) ==
  \A c \in Slots, i, j \in DOMAIN order :
    (order[i] = last[c] /\ order[j] \in DirtyIn(h, c)) => j <= i

NotRepublished(h, first) == host' = h /\ sending' = first  \* a slip
Republished(h, first) ==
  \E order \in RunOrders(h), last \in Orders(h) :
    /\ LastRun(h, order, last)
    /\ host' = EnsuredAll(h, last)
    /\ sending' = first \o
         [i \in DOMAIN order |-> Publish(order[i], host'.analysis[order[i]])]

InContextKept(h, b) == WithSchema(h, IF b = None THEN DialectOnly ELSE b)  \* a slip
(* {"ddl"} and {"context"} set a schema, {} and null clear it (b is None);  *)
(* the check levels become the default ones, strict under a schema.         *)
InContext(h, b) ==
  IF b = None THEN WithConfig(WithSchema(h, DialectOnly), DefaultConfig)
  ELSE WithConfig(WithSchema(h, b), Strict(DefaultConfig))

HandleSetSessionContext(m) ==
  /\ AcceptsContext(m)
  /\ \/ m.valid /\ Republished(InContext(host, m.arg), <<Response(m, "ok", None)>>)
        /\ UNCHANGED <<lifecycle, exited>>
     \/ ~m.valid /\ Reject(m, "InvalidParams")

-----------------------------------------------------------------------------
(* Feature requests *)

(* The hosts a query of an open document may leave: see LspHost.            *)
Queried(h, kind, u) ==
  IF kind = "formatting" THEN {h}
  ELSE IF kind = "tokens" THEN {TokensDerived(Ensured(h, u), u)}
  ELSE IF kind = "completion" THEN {Ran(Ensured(h, u), u, SlotOf(h, u))}
  ELSE IF kind \in AllQuery
  THEN {Ensured(h, u)} \cup
       {EnsuredAll(Ensured(h, u), last) : last \in Orders(Ensured(h, u))}
  ELSE {Ensured(h, u)}

HandleFeature(m) ==
  /\ m.kind \in Feature /\ lifecycle = "Initialized"
  /\ \/ ~m.valid /\ Reject(m, "InvalidParams")
     \/ /\ m.valid /\ host.docs[m.uri] = None
        /\ Reject(m, IF m.kind = "formatting" THEN "InternalError" ELSE "ok")
     \/ /\ m.valid /\ host.docs[m.uri] # None
        /\ host' \in Queried(host, m.kind, m.uri)
        /\ sending' = <<Response(m, "ok", IF m.kind = "formatting" THEN None
                                         ELSE host'.analysis[m.uri])>>
        /\ UNCHANGED <<lifecycle, exited>>
     \/ /\ m.valid /\ host.docs[m.uri] # None
        /\ m.kind = "formatting" /\ Reject(m, "InternalError")  \* cannot be parsed

UnknownIgnored(m) ==  \* a slip
  /\ m.kind = "unknown" /\ lifecycle = "Initialized"
  /\ sending' = <<>> /\ UNCHANGED serverVars
HandleUnknown(m) ==
  m.kind = "unknown" /\ lifecycle = "Initialized" /\ Reject(m, "MethodNotFound")

(* handle_json, the entry of a transport that passes text: the answer has  *)
(* a null id.  Over stdio the library parses the messages.                 *)
HandleMalformed(m) == m.kind = "malformed" /\ Reject(m, "ParseError")

-----------------------------------------------------------------------------
(* Notifications *)

(* diagnostics_notification, for the host h *)
Published(h, u) ==
  /\ host' = Ensured(h, u)
  /\ sending' = IF h.docs[u] = None THEN <<>>
                ELSE <<Publish(u, host'.analysis[u])>>
  /\ UNCHANGED <<lifecycle, exited>>

HandleExit(m) ==
  /\ m.kind = "exit" /\ exited' = TRUE /\ sending' = <<>>
  /\ UNCHANGED <<host, lifecycle>>

DropsAfterShutdown == lifecycle = "ShutDown"  \* a slip
Drops == lifecycle # "Initialized"

(* Outside a session, unknown, or with parameters that cannot be read. *)
HandleDropped(m) ==
  /\ m.kind = "other" \/ (m.kind \in {"didOpen", "didChange", "didClose"} /\ Drops)
  /\ sending' = <<>> /\ UNCHANGED serverVars

HandleDidOpen(m) ==
  /\ m.kind = "didOpen" /\ ~Drops
  /\ Published(Opened(host, m.uri, m.arg.text, m.arg.lang), m.uri)

(* The last content change counts; there may be none (None). *)
HandleDidChange(m) ==
  /\ m.kind = "didChange" /\ ~Drops
  /\ Published(IF m.arg = None THEN host ELSE Updated(host, m.uri, m.arg), m.uri)

ClosedSilently(m) ==  \* a slip
  /\ m.kind = "didClose" /\ ~Drops
  /\ host' = Closed(host, m.uri)
  /\ sending' = <<>> /\ UNCHANGED <<lifecycle, exited>>
HandleDidClose(m) ==
  /\ m.kind = "didClose" /\ ~Drops
  /\ host' = Closed(host, m.uri)
  /\ sending' = <<Publish(m.uri, None)>> /\ UNCHANGED <<lifecycle, exited>>

-----------------------------------------------------------------------------
(* The loop of the server *)

Handle(m) ==
  \/ HandleInitialize(m) \/ HandleShutdown(m) \/ HandleRefused(m)
  \/ HandleSetSessionContext(m) \/ HandleFeature(m) \/ HandleUnknown(m)
  \/ HandleMalformed(m) \/ HandleExit(m) \/ HandleDropped(m)
  \/ HandleDidOpen(m) \/ HandleDidChange(m) \/ HandleDidClose(m)

Serve ==
  /\ ~exited /\ sending = <<>> /\ inbox # <<>>
  /\ inbox' = Tail(inbox) /\ Handle(Head(inbox))
  /\ UNCHANGED <<outbox, clientVars>>

Send ==
  /\ sending # <<>> /\ Len(outbox) < Capacity
  /\ outbox' = Append(outbox, Head(sending)) /\ sending' = Tail(sending)
  /\ UNCHANGED <<serverVars, inbox, clientVars>>

-----------------------------------------------------------------------------
(* The client *)

Post(m) ==
  /\ sent < MaxSent /\ Len(inbox) < Capacity
  /\ inbox' = Append(inbox, m) /\ sent' = sent + 1
  /\ UNCHANGED <<serverVars, sending, outbox, shown>>

(* The analysis the client expects behind an answer about u. *)
Expected(u) == IF u \in Open(view) THEN Analysed(view, u) ELSE None

Ask(kind, u, arg, valid) ==
  /\ Post(Message(kind, sent + 1, u, arg, valid))
  /\ pending' = Append(pending, [id |-> sent + 1, kind |-> kind, phase |-> phase,
                                 valid |-> valid,
                                 seen |-> IF valid THEN Expected(u) ELSE None])

Tell(kind, u, arg) ==
  Post(Message(kind, 0, u, arg, TRUE)) /\ UNCHANGED pending

InSession == phase = "Initialized"
Describe(docs) == view' = [view EXCEPT !.docs = docs]

ClientInitialize ==
  \E valid \in BOOLEAN :
    /\ Ask("initialize", None, None, valid)
    /\ phase' = IF valid /\ phase = "Uninitialized" THEN "Initialized" ELSE phase
    /\ UNCHANGED view

ClientShutdown ==
  /\ Ask("shutdown", None, None, TRUE)
  /\ phase' = IF InSession THEN "ShutDown" ELSE phase
  /\ UNCHANGED view

ClientSetContext ==
  /\ \/ Ask("setSessionContext", None, None, FALSE) /\ UNCHANGED view
     \/ \E b \in {None} \cup Base :
          /\ Ask("setSessionContext", None, b, TRUE)
          /\ view' = IF phase = "ShutDown" THEN view
                     ELSE [view EXCEPT
                            !.base = IF b = None THEN DialectOnly ELSE b,
                            !.config = IF b = None THEN DefaultConfig
                                       ELSE Strict(DefaultConfig)]
  /\ UNCHANGED phase

ClientQuery ==
  /\ \E kind \in Feature : \/ Ask(kind, None, None, FALSE)
                            \/ \E u \in Uri : Ask(kind, u, None, TRUE)
  /\ UNCHANGED <<view, phase>>

(* Edits outside a session are dropped; an edit of a document that is not   *)
(* open opens it.                                                           *)
ClientOpen ==
  /\ \E u \in Uri, d \in Doc :
       /\ Tell("didOpen", u, d)
       /\ Describe(IF InSession THEN [view.docs EXCEPT ![u] = d] ELSE view.docs)
  /\ UNCHANGED phase

ClientChange ==
  /\ \E u \in Uri, t \in {None} \cup Text :
       /\ Tell("didChange", u, t)
       /\ Describe(IF ~InSession \/ t = None THEN view.docs
                   ELSE [view.docs EXCEPT ![u] =
                           [text |-> t, lang |-> IF view.docs[u] = None THEN None
                                                 ELSE view.docs[u].lang]])
  /\ UNCHANGED phase

ClientClose ==
  /\ \E u \in Uri :
       /\ Tell("didClose", u, None)
       /\ Describe(IF InSession THEN [view.docs EXCEPT ![u] = None] ELSE view.docs)
  /\ UNCHANGED phase

ClientOther ==
  /\ Other
  /\ \/ Ask("unknown", None, None, TRUE)
     \/ Tell("malformed", None, None)
     \/ Tell("other", None, None)
     \/ Tell("exit", None, None)
  /\ UNCHANGED <<view, phase>>

Receive ==
  /\ outbox # <<>>
  /\ outbox' = Tail(outbox)
  /\ LET r == Head(outbox)
     IN  /\ \/ \E i \in DOMAIN pending : /\ pending[i].id = r.id
                                         /\ pending' = RemoveAt(pending, i)
            \/ /\ \A p \in Range(pending) : p.id # r.id
               /\ UNCHANGED pending
         /\ shown' = IF r.code = "publish" THEN [shown EXCEPT ![r.uri] = r.seen]
                     ELSE shown
  /\ UNCHANGED <<serverVars, sending, inbox, view, phase, sent>>

Client ==
  \/ ClientInitialize \/ ClientShutdown \/ ClientSetContext \/ ClientQuery
  \/ ClientOpen \/ ClientChange \/ ClientClose \/ ClientOther \/ Receive

(* Everything is said and read, or the server is gone. *)
Rest ==
  /\ sending = <<>> /\ outbox = <<>>
  /\ exited \/ (inbox = <<>> /\ sent = MaxSent)
  /\ UNCHANGED vars

Next == Serve \/ Send \/ Client \/ Rest

(* The loop runs while there is work, and the client reads what it is sent. *)
Fairness == WF_vars(Serve) /\ WF_vars(Send) /\ WF_vars(Receive)

Spec == Init /\ [][Next]_vars /\ Fairness

-----------------------------------------------------------------------------
(* The ids of the requests, or of the answers, among messages.              *)
Id(m) == IF m.id = 0 THEN <<>> ELSE <<m.id>>
Ids(messages) == FlattenSeq([i \in DOMAIN messages |-> Id(messages[i])])

(* The host is one, the messages name documents of the client, and the     *)
(* diagnostics shown are analyses.                                         *)
TypeOK ==
  /\ host \in HostType /\ shown \in [Uri -> {None} \cup Analysis]
  /\ {lifecycle, phase} \subseteq {"Uninitialized", "Initialized", "ShutDown"}
  /\ exited \in BOOLEAN /\ sent \in 0..MaxSent
  /\ Len(inbox) <= Capacity /\ Len(outbox) <= Capacity
  /\ \A r \in Range(outbox \o sending) :
       r.code \in Code \cup {"publish"} /\ r.seen \in {None} \cup Analysis

(* Every request is answered exactly once, in the order of the requests:   *)
(* what waits for an answer is what is on its way in either direction.     *)
AnsweredInOrder ==
  Ids(outbox \o sending) \o Ids(inbox) = [i \in DOMAIN pending |-> pending[i].id]

(* However far the client has gone on, the answer to a query is computed   *)
(* from the documents and the context as they were when it was asked, and  *)
(* only a session answers it.                                              *)
AnswersShowWhatWasAsked ==
  \A r \in Range(outbox \o sending), p \in Range(pending) :
    (r.id = p.id /\ p.kind \in Feature) =>
      /\ r.code = "ok" => p.phase = "Initialized"
      /\ (r.code = "ok" /\ p.kind # "formatting") => r.seen = p.seen
      /\ r.code = "InvalidParams" <=> (p.phase = "Initialized" /\ ~p.valid)

(* Once the server has read everything, the last diagnostics sent for each *)
(* document are those of its text and context, and none for a closed one.  *)
LatestIn(out, u, before) ==
  LET sentFor == {i \in DOMAIN out : out[i].code = "publish" /\ out[i].uri = u}
  IN  IF sentFor = {} THEN before ELSE out[Max(sentFor)].seen
Latest(u) == LatestIn(outbox \o sending, u, shown[u])
DiagnosticsFollow ==
  (inbox = <<>> /\ ~exited) => \A u \in Uri : Latest(u) = Expected(u)

(* Diagnostics are published only within a session, although the context   *)
(* may be set before it.                                                   *)
PublishedInSession ==
  \A r \in Range(sending) : r.code = "publish" => lifecycle = "Initialized"

(* After shutdown nothing changes the host, and there is no way back. *)
ShutDownIsFinal ==
  [][lifecycle = "ShutDown" => UNCHANGED <<host, lifecycle>>]_vars

(* Every request is answered, unless the client tells the server to exit.  *)
Waiting(id) == \E p \in Range(pending) : p.id = id
EveryRequestAnswered ==
  \A id \in 1..MaxSent : Waiting(id) ~> (~Waiting(id) \/ exited)

(* The diagnostics the client shows catch up with its documents. *)
DiagnosticsSettle ==
  []<>(exited \/ \A u \in Uri : shown[u] = Expected(u))
=============================================================================
