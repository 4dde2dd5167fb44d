---------------------------- MODULE LspServerProofs ----------------------------
(***************************************************************************)
(* Proofs about LspServer, for every client and every bound.               *)
(*                                                                         *)
(* IInv is about the server by itself: its types, its caches, and that it  *)
(* publishes only within a session.  A session context may be set before   *)
(* initialize and publishes for every open document, so no document may be *)
(* open before initialize; and the lifecycle may not move while something  *)
(* is left to be sent.                                                     *)
(*                                                                         *)
(* ClientsTruth is about what the client may count on.  Its view runs      *)
(* ahead of the host by what is in the inbox, so the invariant carries the *)
(* history in between: a sequence of views and lifecycles from the host's  *)
(* to the client's, each made of the one before by a message of the inbox, *)
(* and every query in the inbox was asked in the state it will find        *)
(* (HistoryInv).  Each handler fulfils what the client counts on           *)
(* (Fulfils), so handling the first message moves the host along this      *)
(* history.  That every request gets its one answer is an equation between *)
(* sequences of ids, which needs the ids to grow (IdsInv); and what the    *)
(* client will show is always what the host would publish (ShownFollow).   *)
(***************************************************************************)
EXTENDS LspServer, SequenceLemmas

-----------------------------------------------------------------------------
(* The host of the server                                                  *)
(*                                                                         *)
(* Its operations are those LspHost runs alone, so what LspHostProofs      *)
(* shows of them holds here.  The lemmas are taken over one by one: the    *)
(* operations of the instance are the server's own, definition by          *)
(* definition.                                                             *)
Alone == INSTANCE LspHostProofs WITH reply <- NoReply

LEMMA SameHosts ==
  /\ Alone!HostType = HostType /\ Alone!Doc = Doc /\ Alone!Analysis = Analysis
  /\ Alone!Config = Config /\ Alone!Slots = Slots
  /\ \A h : Alone!CachesFresh(h) <=> CachesFresh(h)
  /\ LspDataAssumption /\ NoneIsNoDoc /\ NoneIsNoAnalysis
<1>1. /\ Alone!HostType = HostType /\ Alone!Doc = Doc /\ Alone!Analysis = Analysis
      /\ Alone!Config = Config /\ Alone!Slots = Slots
  BY DEF Alone!HostType, HostType, Alone!Doc, Doc, Alone!Config, Config,
         Alone!Slots, Slots, Alone!Analysis, Analysis
<1>2. ASSUME NEW h
      PROVE  Alone!CachesFresh(h) <=> CachesFresh(h)
  BY DEF Alone!CachesFresh, CachesFresh, Alone!UpToDate, UpToDate, Alone!Analysed, Analysed,
         Alone!SchemaFor, SchemaFor, Alone!SlotOf, SlotOf, Alone!ConfigFor, ConfigFor,
         Alone!Strict, Strict
<1> QED BY <1>1, <1>2, LspDataAssumption, NoneIsNoDoc, NoneIsNoAnalysis

LEMMA SameInvalidated ==
  ASSUME NEW h
  PROVE  /\ \A u : Alone!Invalidated(h, u) = Invalidated(h, u)
         /\ Alone!InvalidatedAll(h) = InvalidatedAll(h)
BY DEF Alone!Invalidated, Invalidated, Alone!InvalidatedAll, InvalidatedAll,
       Alone!NoneCached, NoneCached

LEMMA SameEnsured ==
  ASSUME NEW h, NEW u
  PROVE  /\ Alone!Ensured(h, u) = Ensured(h, u)
         /\ \A slot : Alone!Ran(h, u, slot) = Ran(h, u, slot)
BY DEF Alone!Ensured, Ensured, Alone!Analyse, Analyse, Alone!Ran, Ran,
       Alone!Analysed, Analysed, Alone!SchemaFor, SchemaFor, Alone!SlotOf, SlotOf,
       Alone!ConfigFor, ConfigFor, Alone!Strict, Strict

LEMMA ConfigForType ==
  ASSUME NEW h \in HostType, NEW u \in Uri
  PROVE  /\ SlotOf(h, u) \in Slots
         /\ ConfigFor(h, u) \in Config
         /\ SchemaFor(h, SlotOf(h, u)) \in Base
<1>1. /\ Alone!SlotOf(h, u) = SlotOf(h, u) /\ Alone!ConfigFor(h, u) = ConfigFor(h, u)
      /\ Alone!SchemaFor(h, Alone!SlotOf(h, u)) = SchemaFor(h, SlotOf(h, u))
  BY DEF Alone!SchemaFor, SchemaFor, Alone!SlotOf, SlotOf, Alone!ConfigFor, ConfigFor,
         Alone!Strict, Strict
<1> QED BY <1>1, SameHosts, Alone!ConfigForType

LEMMA OpenedOK ==
  ASSUME NEW h \in HostType, CachesFresh(h),
         NEW u \in Uri, NEW t \in Text, NEW l \in {None} \cup Lang
  PROVE  Opened(h, u, t, l) \in HostType /\ CachesFresh(Opened(h, u, t, l))
<1>1. Alone!Opened(h, u, t, l) = Opened(h, u, t, l)
  BY SameInvalidated DEF Alone!Opened, Opened
<1> QED BY <1>1, SameHosts, Alone!OpenedOK

LEMMA UpdatedOK ==
  ASSUME NEW h \in HostType, CachesFresh(h), NEW u \in Uri, NEW t \in Text
  PROVE  Updated(h, u, t) \in HostType /\ CachesFresh(Updated(h, u, t))
<1>1. Alone!Updated(h, u, t) = Updated(h, u, t)
  BY SameInvalidated DEF Alone!Updated, Updated, Alone!Opened, Opened
<1> QED BY <1>1, SameHosts, Alone!UpdatedOK

LEMMA ClosedOK ==
  ASSUME NEW h \in HostType, CachesFresh(h), NEW u \in Uri
  PROVE  Closed(h, u) \in HostType /\ CachesFresh(Closed(h, u))
<1>1. Alone!Closed(h, u) = Closed(h, u)
  BY SameInvalidated DEF Alone!Closed, Closed
<1> QED BY <1>1, SameHosts, Alone!ClosedOK

LEMMA ConfigOK ==
  ASSUME NEW h \in HostType, CachesFresh(h), NEW c \in Config
  PROVE  WithConfig(h, c) \in HostType /\ CachesFresh(WithConfig(h, c))
<1>1. Alone!WithConfig(h, c) = WithConfig(h, c)
  BY SameInvalidated DEF Alone!WithConfig, WithConfig
<1> QED BY <1>1, SameHosts, Alone!ConfigOK

LEMMA MapOK ==
  ASSUME NEW h \in HostType, CachesFresh(h), NEW m \in Maps
  PROVE  WithMap(h, m) \in HostType /\ CachesFresh(WithMap(h, m))
<1>1. Alone!WithMap(h, m) = WithMap(h, m)
  BY SameInvalidated DEF Alone!WithMap, WithMap, Alone!Slots, Slots
<1> QED BY <1>1, SameHosts, Alone!MapOK

LEMMA SchemaOK ==
  ASSUME NEW h \in HostType, CachesFresh(h), NEW b \in Base
  PROVE  WithSchema(h, b) \in HostType /\ CachesFresh(WithSchema(h, b))
<1>1. Alone!WithSchema(h, b) = WithSchema(h, b)
  BY SameInvalidated DEF Alone!WithSchema, WithSchema
<1> QED BY <1>1, SameHosts, Alone!SchemaOK

LEMMA EnsuredOK ==
  ASSUME NEW h \in HostType, CachesFresh(h), NEW u \in Uri
  PROVE  /\ Ensured(h, u) \in HostType /\ CachesFresh(Ensured(h, u))
         /\ h.docs[u] # None => Ensured(h, u).analysis[u] # None
BY SameEnsured, SameHosts, Alone!EnsuredOK

LEMMA EnsuredSame ==
  ASSUME NEW h \in HostType, NEW u \in Uri
  PROVE  /\ Ensured(h, u).docs = h.docs /\ Ensured(h, u).base = h.base
         /\ Ensured(h, u).map = h.map /\ Ensured(h, u).config = h.config
         /\ Ensured(h, u).defs = h.defs
BY SameEnsured, SameHosts, Alone!EnsuredSame

LEMMA RunAfterEnsured ==
  ASSUME NEW h \in HostType, CachesFresh(h), NEW u \in Uri,
         h.docs[u] # None, NEW slot \in Slots
  PROVE  /\ Ran(Ensured(h, u), u, slot) \in HostType
         /\ CachesFresh(Ran(Ensured(h, u), u, slot))
<1>1. Alone!Ran(Alone!Ensured(h, u), u, slot) = Ran(Ensured(h, u), u, slot)
  BY SameEnsured
<1> QED BY <1>1, SameHosts, Alone!RunAfterEnsured

LEMMA EnsuredAllOK ==
  ASSUME NEW h \in HostType, CachesFresh(h), NEW last \in Orders(h)
  PROVE  /\ EnsuredAll(h, last) \in HostType
         /\ CachesFresh(EnsuredAll(h, last))
         /\ \A u \in Open(h) : EnsuredAll(h, last).analysis[u] # None
<1>1. Alone!EnsuredAll(h, last) = EnsuredAll(h, last) /\ Alone!Orders(h) = Orders(h)
      /\ Alone!Open(h) = Open(h)
  BY DEF Alone!EnsuredAll, EnsuredAll, Alone!Open, Open, Alone!Analysed, Analysed,
         Alone!SchemaFor, SchemaFor, Alone!SlotOf, SlotOf, Alone!ConfigFor, ConfigFor,
         Alone!Strict, Strict, Alone!Orders, Orders, Alone!DirtyIn, DirtyIn,
         Alone!Slots, Slots
<1> QED BY <1>1, SameHosts, Alone!EnsuredAllOK

LEMMA TokensDerivedOK ==
  ASSUME NEW h \in HostType, CachesFresh(h), NEW u \in Uri
  PROVE  TokensDerived(h, u) \in HostType /\ CachesFresh(TokensDerived(h, u))
<1>1. Alone!TokensDerived(h, u) = TokensDerived(h, u)
  BY DEF Alone!TokensDerived, TokensDerived
<1> QED BY <1>1, SameHosts, Alone!TokensDerivedOK

-----------------------------------------------------------------------------
(* What a client may send: the arguments fit the kind of the message. *)
Others == {"initialize", "shutdown", "setSessionContext", "didOpen", "didChange",
           "didClose", "unknown", "malformed", "other", "exit"}
WellFormed(m) ==
  /\ m.kind = "setSessionContext" /\ m.valid => m.arg \in {None} \cup Base
  /\ m.kind \in Feature /\ m.valid => m.uri \in Uri
  /\ m.kind \in {"didOpen", "didChange", "didClose"} => m.uri \in Uri
  /\ m.kind = "didOpen" => m.arg \in Doc
  /\ m.kind = "didChange" => m.arg \in {None} \cup Text
Incoming ==
  {m \in [kind : Feature \cup Others, id : Nat, uri : {None} \cup Uri,
          arg : {None} \cup Base \cup Text \cup Doc, valid : BOOLEAN] :
     WellFormed(m)}

Outgoing ==
  {r \in [id : Nat, code : Code \cup {"publish"}, uri : {None} \cup Uri,
          seen : {None} \cup Analysis] :
     r.code = "publish" => r.uri \in Uri}

Lifecycle == {"Uninitialized", "Initialized", "ShutDown"}

-----------------------------------------------------------------------------
(* What a message does, as the client counts on it                          *)

PhaseAfter(m, p) ==
  IF m.kind = "initialize" /\ m.valid /\ p = "Uninitialized" THEN "Initialized"
  ELSE IF m.kind = "shutdown" /\ p = "Initialized" THEN "ShutDown"
  ELSE p

Edits(m, p) ==
  /\ p = "Initialized"
  /\ m.kind \in {"didOpen", "didClose"} \/ (m.kind = "didChange" /\ m.arg # None)
Edit(docs, m) ==
  IF m.kind = "didOpen" THEN m.arg
  ELSE IF m.kind = "didClose" THEN None
  ELSE [text |-> m.arg, lang |-> IF docs[m.uri] = None THEN None
                                 ELSE docs[m.uri].lang]
Edited(docs, m) == [docs EXCEPT ![m.uri] = Edit(docs, m)]

Describes(m, p) == m.kind = "setSessionContext" /\ m.valid /\ p # "ShutDown"
InContextOf(v, b) ==
  [v EXCEPT !.base = IF b = None THEN DialectOnly ELSE b,
            !.config = IF b = None THEN DefaultConfig ELSE Strict(DefaultConfig)]

ViewAfter(m, v, p) ==
  IF Describes(m, p) THEN InContextOf(v, m.arg)
  ELSE IF Edits(m, p) THEN [v EXCEPT !.docs = Edited(v.docs, m)]
  ELSE v

ExpectedFrom(v, u) == IF u \in Open(v) THEN Analysed(v, u) ELSE None

Views == [docs : [Uri -> {None} \cup Doc], base : Base, map : {None} \cup Maps,
          config : Config, defs : SUBSET Source]

LEMMA ViewOfType == ASSUME NEW h \in HostType PROVE ViewOf(h) \in Views
BY DEF HostType, ViewOf, Views

LEMMA EditType ==
  ASSUME NEW m \in Incoming, NEW p, Edits(m, p),
         NEW docs \in [Uri -> {None} \cup Doc]
  PROVE  m.uri \in Uri /\ Edit(docs, m) \in {None} \cup Doc
<1>1. m.uri \in Uri
  BY DEF Edits, Incoming, WellFormed
<1>2. CASE m.kind = "didOpen"
  BY <1>1, <1>2 DEF Edit, Incoming, WellFormed
<1>3. CASE m.kind = "didClose"
  BY <1>1, <1>3 DEF Edit
<1>4. CASE m.kind = "didChange" /\ m.arg # None
  <2>1. m.arg \in Text
    BY <1>4 DEF Incoming, WellFormed
  <2>2. (IF docs[m.uri] = None THEN None ELSE docs[m.uri].lang) \in {None} \cup Lang
    BY <1>1 DEF Doc
  <2> QED BY <1>1, <1>4, <2>1, <2>2 DEF Edit, Doc
<1> QED BY <1>2, <1>3, <1>4 DEF Edits

LEMMA ViewAfterType ==
  ASSUME NEW m \in Incoming, NEW v \in Views, NEW p \in Lifecycle
  PROVE  ViewAfter(m, v, p) \in Views /\ PhaseAfter(m, p) \in Lifecycle
<1>1. CASE Describes(m, p)
  <2>1. m.arg \in {None} \cup Base
    BY <1>1 DEF Describes, Incoming, WellFormed
  <2>2. (IF m.arg = None THEN DialectOnly ELSE m.arg) \in Base
    BY <2>1, LspDataAssumption
  <2>3. (IF m.arg = None THEN DefaultConfig ELSE Strict(DefaultConfig)) \in Config
    BY DEF DefaultConfig, Strict, Config
  <2>4. InContextOf(v, m.arg) \in Views
    BY <2>2, <2>3 DEF InContextOf, Views
  <2> QED BY <1>1, <2>4 DEF ViewAfter, PhaseAfter, Lifecycle
<1>2. CASE ~Describes(m, p) /\ Edits(m, p)
  <2>1. v.docs \in [Uri -> {None} \cup Doc]
    BY DEF Views
  <2>2. Edited(v.docs, m) \in [Uri -> {None} \cup Doc]
    BY <1>2, <2>1, EditType DEF Edited
  <2>3. [v EXCEPT !.docs = Edited(v.docs, m)] \in Views
    BY <2>2 DEF Views
  <2> QED BY <1>2, <2>3 DEF ViewAfter, PhaseAfter, Lifecycle
<1>3. CASE ~Describes(m, p) /\ ~Edits(m, p)
  BY <1>3 DEF ViewAfter, PhaseAfter, Lifecycle
<1> QED BY <1>1, <1>2, <1>3

(* The messages without an answer that is theirs. *)
Notifications == {"didOpen", "didChange", "didClose", "malformed", "other", "exit"}

-----------------------------------------------------------------------------
(* The invariant of the server, the channels and the client *)

NothingOpenBefore == lifecycle = "Uninitialized" => Open(host) = {}
SendsInSession ==
  \A i \in DOMAIN sending : sending[i].code = "publish" => lifecycle = "Initialized"

ServerInv ==
  /\ host \in HostType /\ CachesFresh(host)
  /\ lifecycle \in Lifecycle /\ exited \in BOOLEAN
  /\ sending \in Seq(Outgoing)
  /\ NothingOpenBefore /\ SendsInSession

ChannelInv ==
  /\ inbox \in Seq(Incoming) /\ Len(inbox) <= Capacity
  /\ outbox \in Seq(Outgoing) /\ Len(outbox) <= Capacity

ClientInv ==
  /\ shown \in [Uri -> {None} \cup Analysis]
  /\ view \in Views /\ phase \in Lifecycle /\ sent \in 0..MaxSent

IInv == ServerInv /\ ChannelInv /\ ClientInv

-----------------------------------------------------------------------------
(* What the handlers make of a host *)

LEMMA StartedOK ==
  ASSUME NEW p \in Projects
  PROVE  Started(p) \in HostType /\ CachesFresh(Started(p)) /\ Open(Started(p)) = {}
<1> DEFINE recorded   == [NewHost EXCEPT !.defs = p.defs]
           configured == IF p.config = None THEN recorded
                         ELSE WithConfig(recorded, p.config)
           level == IF p.config = None THEN Strict(DefaultConfig) ELSE p.config
<1>1. /\ p.map \in {None} \cup Maps /\ p.schema \in {None} \cup Base
      /\ p.config \in {None} \cup Configs /\ p.defs \in SUBSET Source
  BY LspServerAssumption
<1>2. /\ recorded \in HostType /\ CachesFresh(recorded)
      /\ \A u \in Uri : recorded.docs[u] = None
  BY <1>1, LspDataAssumption
     DEF NewHost, NoneCached, HostType, DefaultConfig, Config, CachesFresh
<1>3. p.config # None => p.config \in Config
  BY <1>1, LspDataAssumption DEF Config
<1>4. level \in Config
  BY <1>3 DEF Strict, DefaultConfig, Config
<1>5. /\ configured \in HostType /\ CachesFresh(configured)
      /\ configured.docs = recorded.docs
  BY <1>2, <1>3, ConfigOK DEF WithConfig, InvalidatedAll, HostType
<1> HIDE DEF recorded, configured, level
<1>6. p.map # None =>
        /\ WithMap(configured, p.map) \in HostType
        /\ CachesFresh(WithMap(configured, p.map))
        /\ WithMap(configured, p.map).docs = recorded.docs
  BY <1>1, <1>5, MapOK DEF WithMap, InvalidatedAll, HostType
<1> DEFINE withSchema == WithSchema(configured, p.schema)
<1>7. p.schema # None =>
        /\ withSchema \in HostType /\ CachesFresh(withSchema)
        /\ withSchema.docs = recorded.docs
  BY <1>1, <1>5, SchemaOK DEF WithSchema, InvalidatedAll, HostType
<1> HIDE DEF withSchema
<1>8. p.schema # None =>
        /\ WithConfig(withSchema, level) \in HostType
        /\ CachesFresh(WithConfig(withSchema, level))
        /\ WithConfig(withSchema, level).docs = recorded.docs
  BY <1>4, <1>7, ConfigOK DEF WithConfig, InvalidatedAll, HostType
<1>9. Started(p) = IF p.map # None THEN WithMap(configured, p.map)
                   ELSE IF p.schema = None THEN configured
                   ELSE WithConfig(withSchema, level)
  BY DEF Started, recorded, configured, level, withSchema
<1> QED BY <1>2, <1>5, <1>6, <1>8, <1>9 DEF Open

LEMMA InContextOK ==
  ASSUME NEW h \in HostType, CachesFresh(h), NEW b \in {None} \cup Base
  PROVE  /\ InContext(h, b) \in HostType /\ CachesFresh(InContext(h, b))
         /\ InContext(h, b).docs = h.docs
<1> DEFINE schema == IF b = None THEN DialectOnly ELSE b
           level  == IF b = None THEN DefaultConfig ELSE Strict(DefaultConfig)
           g      == WithSchema(h, schema)
<1>1. schema \in Base /\ level \in Config
  BY LspDataAssumption DEF DefaultConfig, Strict, Config
<1> HIDE DEF schema, level
<1>2. g \in HostType /\ CachesFresh(g) /\ g.docs = h.docs
  BY <1>1, SchemaOK DEF WithSchema, InvalidatedAll, HostType
<1> HIDE DEF g
<1>3. /\ WithConfig(g, level) \in HostType /\ CachesFresh(WithConfig(g, level))
      /\ WithConfig(g, level).docs = h.docs
  BY <1>1, <1>2, ConfigOK DEF WithConfig, InvalidatedAll, HostType
<1>4. InContext(h, b) = WithConfig(g, level)
  BY DEF InContext, g, schema, level
<1> QED BY <1>3, <1>4

LEMMA QueriedOK ==
  ASSUME NEW h \in HostType, CachesFresh(h), NEW kind, NEW u \in Uri,
         h.docs[u] # None, NEW g \in Queried(h, kind, u)
  PROVE  g \in HostType /\ CachesFresh(g) /\ g.docs = h.docs
<1> DEFINE e == Ensured(h, u)
<1>1. e \in HostType /\ CachesFresh(e) /\ e.docs = h.docs
  BY EnsuredOK, EnsuredSame
<1>2. /\ TokensDerived(e, u) \in HostType /\ CachesFresh(TokensDerived(e, u))
      /\ TokensDerived(e, u).docs = h.docs
  BY <1>1, TokensDerivedOK DEF TokensDerived, HostType
<1>3. SlotOf(h, u) \in Slots
  BY ConfigForType
<1>4. /\ Ran(e, u, SlotOf(h, u)) \in HostType
      /\ CachesFresh(Ran(e, u, SlotOf(h, u)))
      /\ Ran(e, u, SlotOf(h, u)).docs = h.docs
  BY <1>1, <1>3, RunAfterEnsured DEF Ran, HostType
<1> HIDE DEF e
<1>5. ASSUME NEW last \in Orders(e)
      PROVE  /\ EnsuredAll(e, last) \in HostType /\ CachesFresh(EnsuredAll(e, last))
             /\ EnsuredAll(e, last).docs = h.docs
  <2>1. EnsuredAll(e, last).docs = e.docs
    BY <1>1 DEF EnsuredAll, HostType
  <2> QED BY <1>1, <2>1, EnsuredAllOK
<1>6. \/ g = h \/ g = e \/ g = TokensDerived(e, u)
      \/ g = Ran(e, u, SlotOf(h, u))
      \/ \E last \in Orders(e) : g = EnsuredAll(e, last)
  BY DEF Queried, e
<1> QED BY <1>1, <1>2, <1>4, <1>5, <1>6

-----------------------------------------------------------------------------
(* What a handler leaves to be sent *)

LEMMA ResponseOK ==
  ASSUME NEW m \in Incoming, NEW code \in Code, NEW seen \in {None} \cup Analysis
  PROVE  /\ Response(m, code, seen) \in Outgoing
         /\ Response(m, code, seen).code # "publish"
BY DEF Incoming, Response, Outgoing, Code

LEMMA PublishOK ==
  ASSUME NEW u \in Uri, NEW seen \in {None} \cup Analysis
  PROVE  Publish(u, seen) \in Outgoing /\ Publish(u, seen).code = "publish"
BY DEF Publish, Outgoing

(* The server stays as it is and sends an error, or an empty answer. *)
LEMMA RejectKeeps ==
  ASSUME ServerInv, NEW m \in Incoming, NEW code \in Code, Reject(m, code)
  PROVE  ServerInv'
<1>1. Response(m, code, None) \in Outgoing /\ Response(m, code, None).code # "publish"
  BY ResponseOK
<1>2. sending' = <<Response(m, code, None)>> /\ UNCHANGED <<host, lifecycle, exited>>
  BY DEF Reject, serverVars
<1>3. sending' \in Seq(Outgoing) /\ SendsInSession'
  BY <1>1, <1>2 DEF SendsInSession
<1> QED BY <1>2, <1>3 DEF ServerInv, NothingOpenBefore

(* republish_all: one message per open document, and none when none is open. *)
LEMMA RepublishedKeeps ==
  ASSUME ServerInv, NEW m \in Incoming, NEW h \in HostType, CachesFresh(h),
         h.docs = host.docs, lifecycle # "ShutDown",
         Republished(h, <<Response(m, "ok", None)>>),
         UNCHANGED <<lifecycle, exited>>
  PROVE  ServerInv'
<1> DEFINE first == Response(m, "ok", None)
<1>1. PICK order \in RunOrders(h), last \in Orders(h) :
        /\ host' = EnsuredAll(h, last)
        /\ sending' = <<first>> \o
             [i \in DOMAIN order |-> Publish(order[i], host'.analysis[order[i]])]
  BY DEF Republished
<1>2. host' \in HostType /\ CachesFresh(host')
  BY <1>1, EnsuredAllOK
<1>3. host'.docs = host.docs
  BY <1>1 DEF EnsuredAll, HostType
<1>4. first \in Outgoing /\ first.code # "publish"
  BY ResponseOK DEF Code
<1>5. Cardinality(Open(h)) \in Nat
  BY LspServerAssumption, FS_Subset, FS_CardinalityType DEF Open
<1>6. order \in [1..Cardinality(Open(h)) -> Open(h)]
  BY DEF RunOrders
<1> DEFINE rest == [i \in DOMAIN order |-> Publish(order[i], host'.analysis[order[i]])]
<1>7. \A i \in DOMAIN order : rest[i] \in Outgoing /\ rest[i].code = "publish"
  BY <1>2, <1>6, PublishOK DEF Open, HostType
<1>8. rest \in Seq(Outgoing) /\ DOMAIN rest = 1..Cardinality(Open(h))
  BY <1>5, <1>6, <1>7
<1>9. sending' = <<first>> \o rest
  BY <1>1
<1> HIDE DEF first, rest
<1>10. sending' \in Seq(Outgoing)
  BY <1>4, <1>8, <1>9
<1>11. SendsInSession'
  <2> SUFFICES ASSUME NEW i \in DOMAIN sending', sending'[i].code = "publish"
               PROVE  lifecycle' = "Initialized"
    BY DEF SendsInSession
  <2>1. Open(h) # {}
    BY <1>4, <1>5, <1>6, <1>8, <1>9
  <2>2. Open(host) # {}
    BY <2>1 DEF Open
  <2> QED BY <2>2 DEF ServerInv, NothingOpenBefore, Lifecycle
<1> QED BY <1>2, <1>3, <1>10, <1>11 DEF ServerInv, NothingOpenBefore, Open

(* diagnostics_notification *)
LEMMA PublishedKeeps ==
  ASSUME ServerInv, NEW h \in HostType, CachesFresh(h), NEW u \in Uri,
         Published(h, u), lifecycle = "Initialized"
  PROVE  ServerInv'
<1>1. host' = Ensured(h, u) /\ UNCHANGED <<lifecycle, exited>>
  BY DEF Published
<1>2. host' \in HostType /\ CachesFresh(host')
  BY <1>1, EnsuredOK
<1>3. host'.analysis[u] \in {None} \cup Analysis
  BY <1>2 DEF HostType
<1> DEFINE r == Publish(u, host'.analysis[u])
<1>4. r \in Outgoing
  BY <1>3, PublishOK
<1>5. sending' = <<>> \/ sending' = <<r>>
  BY DEF Published
<1> HIDE DEF r
<1>6. sending' \in Seq(Outgoing)
  <2>1. CASE sending' = <<>>
    BY <2>1
  <2>2. CASE sending' = <<r>>
    BY <1>4, <2>2
  <2> QED BY <1>5, <2>1, <2>2
<1> QED BY <1>1, <1>2, <1>6 DEF ServerInv, NothingOpenBefore, SendsInSession

(* An answer that leaves no diagnostics to be sent. *)
LEMMA AnsweredKeeps ==
  ASSUME ServerInv, host' \in HostType, CachesFresh(host'),
         lifecycle' \in Lifecycle \ {"Uninitialized"}, exited' \in BOOLEAN,
         NEW r \in Outgoing, r.code # "publish", sending' = <<r>>
  PROVE  ServerInv'
<1>1. sending' \in Seq(Outgoing) /\ SendsInSession'
  BY DEF SendsInSession
<1> QED BY <1>1 DEF ServerInv, NothingOpenBefore, Lifecycle

(* Nothing is sent. *)
LEMMA SilentKeeps ==
  ASSUME ServerInv, sending' = <<>>, UNCHANGED <<host, lifecycle>>,
         exited' \in BOOLEAN
  PROVE  ServerInv'
BY DEF ServerInv, NothingOpenBefore, SendsInSession

-----------------------------------------------------------------------------
(* One message is handled *)

LEMMA InitializeKeeps ==
  ASSUME ServerInv, NEW m \in Incoming, HandleInitialize(m)
  PROVE  ServerInv'
<1>1. CASE m.valid
  <2>1. Response(m, "ok", None) \in Outgoing /\ Response(m, "ok", None).code # "publish"
    BY ResponseOK DEF Code
  <2> QED BY <1>1, <2>1, AnsweredKeeps DEF HandleInitialize, ServerInv, Lifecycle
<1>2. CASE ~m.valid
  BY <1>2, RejectKeeps DEF HandleInitialize, Code
<1> QED BY <1>1, <1>2

LEMMA ShutdownKeeps ==
  ASSUME ServerInv, NEW m \in Incoming, HandleShutdown(m)
  PROVE  ServerInv'
<1>1. Response(m, "ok", None) \in Outgoing /\ Response(m, "ok", None).code # "publish"
  BY ResponseOK DEF Code
<1> QED BY <1>1, AnsweredKeeps DEF HandleShutdown, ServerInv, Lifecycle

LEMMA SetSessionContextKeeps ==
  ASSUME ServerInv, NEW m \in Incoming, HandleSetSessionContext(m)
  PROVE  ServerInv'
<1>1. CASE m.valid
  <2>1. m.arg \in {None} \cup Base /\ lifecycle # "ShutDown"
    BY <1>1 DEF Incoming, WellFormed, HandleSetSessionContext, AcceptsContext
  <2>2. /\ InContext(host, m.arg) \in HostType
        /\ CachesFresh(InContext(host, m.arg))
        /\ InContext(host, m.arg).docs = host.docs
    BY <2>1, InContextOK DEF ServerInv
  <2> QED BY <1>1, <2>1, <2>2, RepublishedKeeps DEF HandleSetSessionContext
<1>2. CASE ~m.valid
  BY <1>2, RejectKeeps DEF HandleSetSessionContext, Code
<1> QED BY <1>1, <1>2

LEMMA FeatureKeeps ==
  ASSUME ServerInv, NEW m \in Incoming, HandleFeature(m)
  PROVE  ServerInv'
<1>1. CASE \E code \in Code : Reject(m, code)
  BY <1>1, RejectKeeps
<1>2. CASE /\ m.valid /\ host.docs[m.uri] # None
           /\ host' \in Queried(host, m.kind, m.uri)
           /\ sending' = <<Response(m, "ok", IF m.kind = "formatting" THEN None
                                            ELSE host'.analysis[m.uri])>>
           /\ UNCHANGED <<lifecycle, exited>>
  <2>1. m.uri \in Uri /\ lifecycle = "Initialized"
    BY <1>2 DEF HandleFeature, Incoming, WellFormed
  <2>2. host' \in HostType /\ CachesFresh(host')
    BY <1>2, <2>1, QueriedOK DEF ServerInv
  <2> DEFINE seen == IF m.kind = "formatting" THEN None ELSE host'.analysis[m.uri]
             r == Response(m, "ok", seen)
  <2>3. seen \in {None} \cup Analysis
    BY <2>1, <2>2 DEF HostType
  <2>4. r \in Outgoing /\ r.code # "publish"
    BY <2>3, ResponseOK DEF Code
  <2>5. sending' = <<r>>
    BY <1>2
  <2> HIDE DEF seen, r
  <2> QED BY <1>2, <2>1, <2>2, <2>4, <2>5, AnsweredKeeps DEF ServerInv, Lifecycle
<1> QED BY <1>1, <1>2 DEF HandleFeature, Code

LEMMA DocumentKeeps ==
  ASSUME ServerInv, NEW m \in Incoming,
         HandleDidOpen(m) \/ HandleDidChange(m) \/ HandleDidClose(m)
  PROVE  ServerInv'
<1>1. lifecycle = "Initialized" /\ m.uri \in Uri
  BY DEF HandleDidOpen, HandleDidChange, HandleDidClose, Drops, Incoming, WellFormed
<1>2. CASE HandleDidOpen(m)
  <2> DEFINE h == Opened(host, m.uri, m.arg.text, m.arg.lang)
  <2>1. m.arg.text \in Text /\ m.arg.lang \in {None} \cup Lang
    BY <1>2 DEF HandleDidOpen, Incoming, WellFormed, Doc
  <2>2. h \in HostType /\ CachesFresh(h)
    BY <1>1, <2>1, OpenedOK DEF ServerInv
  <2>3. Published(h, m.uri)
    BY <1>2 DEF HandleDidOpen
  <2> HIDE DEF h
  <2> QED BY <1>1, <2>2, <2>3, PublishedKeeps
<1>3. CASE HandleDidChange(m)
  <2> DEFINE h == IF m.arg = None THEN host ELSE Updated(host, m.uri, m.arg)
  <2>1. m.arg \in {None} \cup Text
    BY <1>3 DEF HandleDidChange, Incoming, WellFormed
  <2>2. h \in HostType /\ CachesFresh(h)
    BY <1>1, <2>1, UpdatedOK DEF ServerInv
  <2>3. Published(h, m.uri)
    BY <1>3 DEF HandleDidChange
  <2> HIDE DEF h
  <2> QED BY <1>1, <2>2, <2>3, PublishedKeeps
<1>4. CASE HandleDidClose(m)
  <2>1. host' \in HostType /\ CachesFresh(host')
    BY <1>1, <1>4, ClosedOK DEF HandleDidClose, ServerInv
  <2> DEFINE r == Publish(m.uri, None)
  <2>2. r \in Outgoing
    BY <1>1, PublishOK
  <2>3. sending' = <<r>> /\ UNCHANGED <<lifecycle, exited>>
    BY <1>4 DEF HandleDidClose
  <2> HIDE DEF r
  <2>4. sending' \in Seq(Outgoing)
    BY <2>2, <2>3
  <2> QED BY <1>1, <2>1, <2>3, <2>4
          DEF ServerInv, NothingOpenBefore, SendsInSession
<1> QED BY <1>2, <1>3, <1>4

LEMMA HandleKeeps ==
  ASSUME ServerInv, NEW m \in Incoming, Handle(m)
  PROVE  ServerInv'
<1>1. CASE HandleInitialize(m)
  BY <1>1, InitializeKeeps
<1>2. CASE HandleShutdown(m)
  BY <1>2, ShutdownKeeps
<1>3. CASE HandleRefused(m)
  BY <1>3, RejectKeeps DEF HandleRefused, Code
<1>4. CASE HandleSetSessionContext(m)
  BY <1>4, SetSessionContextKeeps
<1>5. CASE HandleFeature(m)
  BY <1>5, FeatureKeeps
<1>6. CASE HandleUnknown(m) \/ HandleMalformed(m)
  BY <1>6, RejectKeeps DEF HandleUnknown, HandleMalformed, Code
<1>7. CASE HandleExit(m) \/ HandleDropped(m)
  BY <1>7, SilentKeeps DEF HandleExit, HandleDropped, serverVars, ServerInv
<1>8. CASE HandleDidOpen(m) \/ HandleDidChange(m) \/ HandleDidClose(m)
  BY <1>8, DocumentKeeps
<1> QED BY <1>1, <1>2, <1>3, <1>4, <1>5, <1>6, <1>7, <1>8 DEF Handle

-----------------------------------------------------------------------------
(* The client *)

(* A feature request is none of the other messages. *)
LEMMA FeatureKinds == \A kind \in Others : kind \notin Feature
<1>1. Feature \subseteq AnalysisQuery \cup AllQuery \cup
                       {"tokens", "signature", "completion", "formatting"}
  BY LspServerAssumption
<1> QED BY <1>1 DEF AnalysisQuery, AllQuery, Others

(* What the client sends is what it then counts on. *)
Request(m) ==
  [id |-> m.id, kind |-> m.kind, phase |-> phase, valid |-> m.valid,
   seen |-> IF m.valid THEN ExpectedFrom(view, m.uri) ELSE None]
Posts(m) ==
  /\ Post(m)
  /\ view' = ViewAfter(m, view, phase) /\ phase' = PhaseAfter(m, phase)
  /\ \/ m.id = 0 /\ m.kind \in Notifications /\ pending' = pending
     \/ /\ m.id = sent + 1 /\ m.kind \notin Notifications
        /\ pending' = Append(pending, Request(m))

LEMMA AskPosts ==
  ASSUME IInv, NEW kind \in Feature \cup Others,
         kind \notin Notifications, NEW u \in {None} \cup Uri,
         NEW arg \in {None} \cup Base, NEW valid \in BOOLEAN,
         kind \in Feature /\ valid => u \in Uri, Ask(kind, u, arg, valid),
         LET m == Message(kind, sent + 1, u, arg, valid)
         IN  view' = ViewAfter(m, view, phase) /\ phase' = PhaseAfter(m, phase)
  PROVE  \E m \in Incoming : Posts(m)
<1> DEFINE m == Message(kind, sent + 1, u, arg, valid)
<1>1. sent + 1 \in Nat
  BY LspServerAssumption DEF IInv, ClientInv
<1>2. /\ m.id = sent + 1 /\ m.kind = kind /\ m.uri = u /\ m.arg = arg
      /\ m.valid = valid
  BY DEF Message
<1>3. m \in Incoming
  <2>1. m \in [kind : Feature \cup Others, id : Nat, uri : {None} \cup Uri,
               arg : {None} \cup Base \cup Text \cup Doc, valid : BOOLEAN]
    BY <1>1 DEF Message
  <2> HIDE DEF m
  <2>2. WellFormed(m)
    BY <1>2 DEF WellFormed, Notifications
  <2> QED BY <2>1, <2>2 DEF Incoming
<1>4. Post(m) /\ pending' = Append(pending, Request(m))
  BY DEF Ask, Request, Expected, ExpectedFrom, Message
<1> HIDE DEF m
<1>5. Posts(m)
  BY <1>2, <1>4 DEF Posts, m
<1> QED BY <1>3, <1>5

LEMMA TellPosts ==
  ASSUME IInv, NEW kind \in Notifications,
         NEW u \in {None} \cup Uri, NEW arg \in {None} \cup Text \cup Doc,
         kind \in {"didOpen", "didChange", "didClose"} => u \in Uri,
         kind = "didOpen" => arg \in Doc, kind = "didChange" => arg \in {None} \cup Text,
         Tell(kind, u, arg),
         LET m == Message(kind, 0, u, arg, TRUE)
         IN  view' = ViewAfter(m, view, phase) /\ phase' = PhaseAfter(m, phase)
  PROVE  \E m \in Incoming : Posts(m)
<1> DEFINE m == Message(kind, 0, u, arg, TRUE)
<1>1. /\ m.id = 0 /\ m.kind = kind /\ m.uri = u /\ m.arg = arg /\ m.valid = TRUE
      /\ kind \in Others /\ kind \notin Feature /\ kind # "setSessionContext"
  BY FeatureKinds DEF Message, Notifications, Others
<1>2. m \in [kind : Feature \cup Others, id : Nat, uri : {None} \cup Uri,
             arg : {None} \cup Base \cup Text \cup Doc, valid : BOOLEAN]
  BY <1>1 DEF Message
<1>3. Post(m) /\ pending' = pending
  BY DEF Tell
<1> HIDE DEF m
<1>4. WellFormed(m)
  BY <1>1 DEF WellFormed
<1>5. m \in Incoming
  BY <1>2, <1>4 DEF Incoming
<1>6. Posts(m)
  BY <1>1, <1>3 DEF Posts, m
<1> QED BY <1>5, <1>6

LEMMA ClientPosts ==
  ASSUME IInv,
         \/ ClientInitialize \/ ClientShutdown \/ ClientSetContext \/ ClientQuery
         \/ ClientOpen \/ ClientChange \/ ClientClose \/ ClientOther
  PROVE  \E m \in Incoming : Posts(m)
<1>1. CASE ClientInitialize
  <2>1. PICK valid \in BOOLEAN :
          /\ Ask("initialize", None, None, valid) /\ view' = view
          /\ phase' = IF valid /\ phase = "Uninitialized" THEN "Initialized" ELSE phase
    BY <1>1 DEF ClientInitialize
  <2> DEFINE m == Message("initialize", sent + 1, None, None, valid)
  <2>2. view' = ViewAfter(m, view, phase) /\ phase' = PhaseAfter(m, phase)
    BY <2>1 DEF Message, ViewAfter, PhaseAfter, Describes, Edits
  <2> QED BY <2>1, <2>2, FeatureKinds, AskPosts DEF Others, Notifications
<1>2. CASE ClientShutdown
  <2> DEFINE m == Message("shutdown", sent + 1, None, None, TRUE)
  <2>1. Ask("shutdown", None, None, TRUE)
    BY <1>2 DEF ClientShutdown
  <2>2. view' = ViewAfter(m, view, phase) /\ phase' = PhaseAfter(m, phase)
    BY <1>2 DEF ClientShutdown, InSession, Message, ViewAfter, PhaseAfter, Describes, Edits
  <2> QED BY <2>1, <2>2, FeatureKinds, AskPosts DEF Others, Notifications
<1>3. CASE ClientSetContext
  <2>1. PICK b \in {None} \cup Base, valid \in BOOLEAN :
          /\ Ask("setSessionContext", None, b, valid) /\ phase' = phase
          /\ view' = IF valid /\ phase # "ShutDown" THEN InContextOf(view, b) ELSE view
    <3>1. CASE Ask("setSessionContext", None, None, FALSE) /\ view' = view
      BY <1>3, <3>1 DEF ClientSetContext
    <3>2. CASE \E b \in {None} \cup Base :
                 /\ Ask("setSessionContext", None, b, TRUE)
                 /\ view' = IF phase = "ShutDown" THEN view ELSE InContextOf(view, b)
      BY <1>3, <3>2 DEF ClientSetContext
    <3> QED BY <1>3, <3>1, <3>2 DEF ClientSetContext, InContextOf
  <2> DEFINE m == Message("setSessionContext", sent + 1, None, b, valid)
  <2>2. view' = ViewAfter(m, view, phase) /\ phase' = PhaseAfter(m, phase)
    BY <2>1 DEF Message, ViewAfter, PhaseAfter, Describes, Edits
  <2> QED BY <2>1, <2>2, FeatureKinds, AskPosts DEF Others, Notifications
<1>4. CASE ClientQuery
  <2>1. PICK kind \in Feature, u \in {None} \cup Uri, valid \in BOOLEAN :
          Ask(kind, u, None, valid) /\ (valid => u \in Uri)
    BY <1>4 DEF ClientQuery
  <2>2. kind \notin Others
    BY FeatureKinds
  <2> DEFINE m == Message(kind, sent + 1, u, None, valid)
  <2>3. view' = ViewAfter(m, view, phase) /\ phase' = PhaseAfter(m, phase)
    BY <1>4, <2>2
       DEF ClientQuery, Message, ViewAfter, PhaseAfter, Describes, Edits, Others
  <2> QED BY <2>1, <2>2, <2>3, AskPosts DEF Others, Notifications
(* Outside a session an edit changes nothing. *)
<1>5. [view EXCEPT !.docs = view.docs] = view
  BY DEF Views, IInv, ClientInv
<1>6. CASE ClientOpen
  <2>1. PICK u \in Uri, d \in Doc :
          /\ Tell("didOpen", u, d) /\ phase' = phase
          /\ Describe(IF InSession THEN [view.docs EXCEPT ![u] = d] ELSE view.docs)
    BY <1>6 DEF ClientOpen
  <2> DEFINE m == Message("didOpen", 0, u, d, TRUE)
  <2>2. view' = ViewAfter(m, view, phase) /\ phase' = PhaseAfter(m, phase)
    BY <1>5, <2>1 DEF Message, ViewAfter, PhaseAfter, Describes, Edits, Edited, Edit,
                      Describe, InSession
  <2> QED BY <2>1, <2>2, TellPosts DEF Notifications
<1>7. CASE ClientChange
  <2>1. PICK u \in Uri, t \in {None} \cup Text :
          /\ Tell("didChange", u, t) /\ phase' = phase
          /\ Describe(IF ~InSession \/ t = None THEN view.docs
                      ELSE [view.docs EXCEPT ![u] =
                              [text |-> t, lang |-> IF view.docs[u] = None THEN None
                                                    ELSE view.docs[u].lang]])
    BY <1>7 DEF ClientChange
  <2> DEFINE m == Message("didChange", 0, u, t, TRUE)
  <2>2. view' = ViewAfter(m, view, phase) /\ phase' = PhaseAfter(m, phase)
    BY <1>5, <2>1 DEF Message, ViewAfter, PhaseAfter, Describes, Edits, Edited, Edit,
                      Describe, InSession
  <2> QED BY <2>1, <2>2, TellPosts DEF Notifications
<1>8. CASE ClientClose
  <2>1. PICK u \in Uri :
          /\ Tell("didClose", u, None) /\ phase' = phase
          /\ Describe(IF InSession THEN [view.docs EXCEPT ![u] = None] ELSE view.docs)
    BY <1>8 DEF ClientClose
  <2> DEFINE m == Message("didClose", 0, u, None, TRUE)
  <2>2. view' = ViewAfter(m, view, phase) /\ phase' = PhaseAfter(m, phase)
    BY <1>5, <2>1 DEF Message, ViewAfter, PhaseAfter, Describes, Edits, Edited, Edit,
                      Describe, InSession
  <2> QED BY <2>1, <2>2, TellPosts DEF Notifications
<1>9. CASE ClientOther
  <2>1. view' = view /\ phase' = phase
    BY <1>9 DEF ClientOther
  <2>2. CASE Ask("unknown", None, None, TRUE)
    <3> DEFINE m == Message("unknown", sent + 1, None, None, TRUE)
    <3>1. view' = ViewAfter(m, view, phase) /\ phase' = PhaseAfter(m, phase)
      BY <2>1 DEF Message, ViewAfter, PhaseAfter, Describes, Edits
    <3> QED BY <2>2, <3>1, FeatureKinds, AskPosts DEF Others, Notifications
  <2>3. CASE \E kind \in {"malformed", "other", "exit"} : Tell(kind, None, None)
    <3>1. PICK kind \in {"malformed", "other", "exit"} : Tell(kind, None, None)
      BY <2>3
    <3> DEFINE m == Message(kind, 0, None, None, TRUE)
    <3>2. view' = ViewAfter(m, view, phase) /\ phase' = PhaseAfter(m, phase)
      BY <2>1 DEF Message, ViewAfter, PhaseAfter, Describes, Edits
    <3> QED BY <3>1, <3>2, TellPosts DEF Notifications
  <2> QED BY <1>9, <2>2, <2>3 DEF ClientOther
<1> QED BY <1>1, <1>2, <1>3, <1>4, <1>6, <1>7, <1>8, <1>9

-----------------------------------------------------------------------------
(* The channels and what the client keeps *)

LEMMA PostKeeps ==
  ASSUME IInv, NEW m \in Incoming, Posts(m)
  PROVE  IInv'
<1>1. /\ inbox' = Append(inbox, m) /\ Len(inbox) < Capacity
      /\ sent' = sent + 1 /\ sent < MaxSent
      /\ UNCHANGED <<host, lifecycle, exited, sending, outbox, shown>>
  BY DEF Posts, Post, serverVars
<1>2. inbox' \in Seq(Incoming) /\ Len(inbox') <= Capacity
  BY <1>1, LspServerAssumption DEF IInv, ChannelInv
<1>3. sent' \in 0..MaxSent
  BY <1>1, LspServerAssumption DEF IInv, ClientInv
<1>4. view' \in Views /\ phase' \in Lifecycle
  BY ViewAfterType DEF Posts, IInv, ClientInv
<1> QED BY <1>1, <1>2, <1>3, <1>4
        DEF IInv, ServerInv, ChannelInv, ClientInv, NothingOpenBefore, SendsInSession

LEMMA ClientKeeps ==
  ASSUME IInv,
         \/ ClientInitialize \/ ClientShutdown \/ ClientSetContext \/ ClientQuery
         \/ ClientOpen \/ ClientChange \/ ClientClose \/ ClientOther
  PROVE  IInv'
BY ClientPosts, PostKeeps

LEMMA ServeKeeps ==
  ASSUME IInv, Serve
  PROVE  IInv'
<1>1. Head(inbox) \in Incoming /\ Tail(inbox) \in Seq(Incoming)
      /\ Len(Tail(inbox)) <= Capacity
  BY LspServerAssumption DEF Serve, IInv, ChannelInv
<1>2. ServerInv'
  BY <1>1, HandleKeeps DEF Serve, IInv
<1> QED BY <1>1, <1>2 DEF Serve, IInv, ChannelInv, ClientInv, clientVars

LEMMA SendKeeps ==
  ASSUME IInv, Send
  PROVE  IInv'
<1>1. /\ sending \in Seq(Outgoing) /\ sending # <<>> /\ outbox \in Seq(Outgoing)
      /\ Len(outbox) < Capacity /\ Capacity \in Nat
  BY LspServerAssumption DEF Send, IInv, ServerInv, ChannelInv
<1>2. outbox' \in Seq(Outgoing) /\ Len(outbox') <= Capacity
  BY <1>1 DEF Send
<1>3. sending' \in Seq(Outgoing) /\ SendsInSession'
  <2>1. sending' = Tail(sending) /\ UNCHANGED lifecycle
    BY DEF Send, serverVars
  <2>2. \A i \in DOMAIN Tail(sending) :
          i + 1 \in DOMAIN sending /\ Tail(sending)[i] = sending[i + 1]
    BY <1>1
  <2> QED BY <1>1, <2>1, <2>2 DEF IInv, ServerInv, SendsInSession
<1> QED BY <1>2, <1>3
        DEF Send, IInv, ServerInv, ChannelInv, ClientInv, NothingOpenBefore,
            serverVars, clientVars

LEMMA ReceiveKeeps ==
  ASSUME IInv, Receive
  PROVE  IInv'
<1>1. outbox \in Seq(Outgoing) /\ outbox # <<>> /\ Len(outbox) <= Capacity
  BY DEF Receive, IInv, ChannelInv
<1>2. /\ Head(outbox) \in Outgoing /\ outbox' \in Seq(Outgoing)
      /\ Len(outbox') <= Capacity
  BY <1>1, LspServerAssumption DEF Receive
<1>3. shown' \in [Uri -> {None} \cup Analysis]
  BY <1>2 DEF Receive, IInv, ClientInv, Outgoing
<1> QED BY <1>2, <1>3
        DEF Receive, IInv, ServerInv, ChannelInv, ClientInv, NothingOpenBefore,
            SendsInSession, serverVars

-----------------------------------------------------------------------------
(* The first invariant holds *)

LEMMA InitHolds == Init => IInv
<1> SUFFICES ASSUME Init PROVE IInv
  OBVIOUS
<1>1. PICK p \in Projects : host = Started(p)
  BY DEF Init
<1>2. host \in HostType /\ CachesFresh(host) /\ Open(host) = {}
  BY <1>1, StartedOK
<1>3. sending = <<>> /\ inbox = <<>> /\ outbox = <<>>
  BY DEF Init
<1>4. sending \in Seq(Outgoing) /\ SendsInSession
  BY <1>3 DEF SendsInSession
<1>5. ServerInv
  BY <1>2, <1>4 DEF Init, ServerInv, Lifecycle, NothingOpenBefore
<1>6. ChannelInv
  BY <1>3, LspServerAssumption DEF ChannelInv
<1>7. ClientInv
  BY <1>2, ViewOfType, LspServerAssumption DEF Init, ClientInv, Lifecycle
<1> QED BY <1>5, <1>6, <1>7 DEF IInv

LEMMA NextKeeps == IInv /\ [Next]_vars => IInv'
<1> SUFFICES ASSUME IInv, [Next]_vars PROVE IInv'
  OBVIOUS
<1>1. CASE Serve
  BY <1>1, ServeKeeps
<1>2. CASE Send
  BY <1>2, SendKeeps
<1>3. CASE Client
  BY <1>3, ClientKeeps, ReceiveKeeps DEF Client
<1>4. CASE Rest \/ UNCHANGED vars
  BY <1>4 DEF Rest, vars, serverVars, clientVars, IInv, ServerInv, ChannelInv,
              ClientInv, NothingOpenBefore, SendsInSession
<1> QED BY <1>1, <1>2, <1>3, <1>4 DEF Next

LEMMA Invariance == Spec => []IInv
BY InitHolds, NextKeeps, PTL DEF Spec

-----------------------------------------------------------------------------
(* What is expected of a host *)

(* Two states a client cannot tell apart are analysed alike.               *)
LEMMA ExpectedOfHost ==
  ASSUME NEW h \in HostType, NEW u
  PROVE  ExpectedFrom(ViewOf(h), u) = IF u \in Open(h) THEN Analysed(h, u) ELSE None
BY DEF ExpectedFrom, ViewOf, Open, Analysed, SchemaFor, ConfigFor, SlotOf

LEMMA ExpectedType ==
  ASSUME NEW v \in Views, NEW u
  PROVE  ExpectedFrom(v, u) \in {None} \cup Analysis
<1>1. SUFFICES ASSUME u \in Open(v) PROVE Analysed(v, u) \in Analysis
  BY DEF ExpectedFrom
<1>2. u \in Uri /\ v.docs[u] \in Doc
  BY <1>1 DEF Open, Views
<1>3. SlotOf(v, u) \in Slots
  <2>1. CASE v.map = None
    BY <2>1 DEF SlotOf, Slots
  <2>2. CASE v.map # None
    <3>1. v.map \in [Uri -> {None} \cup Entry]
      BY <2>2, LspDataAssumption DEF Views
    <3> QED BY <1>2, <2>2, <3>1 DEF SlotOf, Slots
  <2> QED BY <2>1, <2>2
<1>4. ConfigFor(v, u) \in Config
  <2>1. v.config \in Config
    BY DEF Views
  <2>2. Strict(v.config) \in Config
    BY <2>1 DEF Strict, Config
  <2> QED BY <2>1, <2>2 DEF ConfigFor
<1>5. SchemaFor(v, SlotOf(v, u)) \in Base
  BY <1>3, LspDataAssumption DEF SchemaFor, Slots, Views
<1>6. v.defs \in SUBSET Source
  BY DEF Views
<1> QED BY <1>2, <1>4, <1>5, <1>6 DEF Analysed, Analysis

-----------------------------------------------------------------------------
(* What the operations make of the view, and of the cached analyses         *)

(* No definitions are registered once a server is running.                 *)
DefsCurrent(h) == \A u \in Uri : h.analysis[u] # None => h.analysis[u].defs = h.defs

LEMMA CachedIsExpected ==
  ASSUME NEW h \in HostType, CachesFresh(h), DefsCurrent(h), NEW u \in Uri,
         h.analysis[u] # None
  PROVE  h.analysis[u] = ExpectedFrom(ViewOf(h), u)
<1>1. h.docs[u] # None /\ h.analysis[u] = [Analysed(h, u) EXCEPT !.defs = h.defs]
  BY DEF CachesFresh, UpToDate, DefsCurrent
<1>2. [Analysed(h, u) EXCEPT !.defs = h.defs] = Analysed(h, u)
  BY DEF Analysed
<1>3. u \in Open(h)
  BY <1>1 DEF Open
<1> QED BY <1>1, <1>2, <1>3, ExpectedOfHost

(* An operation that drops, renews or leaves alone each cached analysis.    *)
LEMMA DefsStay ==
  ASSUME NEW h, DefsCurrent(h), NEW g, g.defs = h.defs,
         \A u \in Uri : \/ g.analysis[u] = None \/ g.analysis[u] = h.analysis[u]
                        \/ g.analysis[u] = Analysed(h, u)
  PROVE  DefsCurrent(g)
<1>1. \A u : Analysed(h, u).defs = h.defs
  BY DEF Analysed
<1> QED BY <1>1 DEF DefsCurrent

LEMMA EnsuredFollows ==
  ASSUME NEW h \in HostType, CachesFresh(h), DefsCurrent(h), NEW u \in Uri
  PROVE  /\ ViewOf(Ensured(h, u)) = ViewOf(h) /\ DefsCurrent(Ensured(h, u))
         /\ h.docs[u] # None =>
              Ensured(h, u).analysis[u] = ExpectedFrom(ViewOf(h), u)
<1> DEFINE g == Ensured(h, u)
<1>1. ViewOf(g) = ViewOf(h) /\ g.defs = h.defs
  BY EnsuredSame DEF ViewOf
<1>2. \A v \in Uri : g.analysis[v] = h.analysis[v] \/ g.analysis[v] = Analysed(h, v)
  BY DEF Ensured, Analyse, Ran, HostType
<1>3. DefsCurrent(g)
  BY <1>1, <1>2, DefsStay
<1>4. /\ g \in HostType /\ CachesFresh(g)
      /\ h.docs[u] # None => g.analysis[u] # None
  BY EnsuredOK
<1> HIDE DEF g
<1>5. h.docs[u] # None => g.analysis[u] = ExpectedFrom(ViewOf(g), u)
  BY <1>3, <1>4, CachedIsExpected
<1> QED BY <1>1, <1>3, <1>5 DEF g

LEMMA EnsuredAllFollows ==
  ASSUME NEW h \in HostType, CachesFresh(h), DefsCurrent(h), NEW last \in Orders(h)
  PROVE  /\ ViewOf(EnsuredAll(h, last)) = ViewOf(h) /\ DefsCurrent(EnsuredAll(h, last))
         /\ \A u \in Open(h) :
              EnsuredAll(h, last).analysis[u] = ExpectedFrom(ViewOf(h), u)
<1> DEFINE g == EnsuredAll(h, last)
<1>1. ViewOf(g) = ViewOf(h) /\ g.defs = h.defs
  BY DEF EnsuredAll, ViewOf, HostType
<1>2. \A v \in Uri : g.analysis[v] = h.analysis[v] \/ g.analysis[v] = Analysed(h, v)
  BY DEF EnsuredAll, HostType
<1>3. DefsCurrent(g)
  BY <1>1, <1>2, DefsStay
<1>4. /\ g \in HostType /\ CachesFresh(g)
      /\ \A u \in Open(h) : g.analysis[u] # None
  BY EnsuredAllOK
<1> HIDE DEF g
<1>5. \A u \in Open(h) : u \in Uri
  BY DEF Open
<1>6. \A u \in Open(h) : g.analysis[u] = ExpectedFrom(ViewOf(g), u)
  BY <1>3, <1>4, <1>5, CachedIsExpected
<1> QED BY <1>1, <1>3, <1>6 DEF g

LEMMA QueriedFollows ==
  ASSUME NEW h \in HostType, CachesFresh(h), DefsCurrent(h), NEW kind, NEW u \in Uri,
         h.docs[u] # None, NEW g \in Queried(h, kind, u)
  PROVE  /\ ViewOf(g) = ViewOf(h) /\ DefsCurrent(g)
         /\ kind # "formatting" => g.analysis[u] = ExpectedFrom(ViewOf(h), u)
<1> DEFINE e == Ensured(h, u)
<1>1. e \in HostType /\ CachesFresh(e)
  BY EnsuredOK
<1>2. /\ ViewOf(e) = ViewOf(h) /\ DefsCurrent(e)
      /\ e.analysis[u] = ExpectedFrom(ViewOf(h), u)
  BY EnsuredFollows
<1>3. u \in Open(e)
  BY EnsuredSame DEF Open
<1> HIDE DEF e
<1>4. /\ ViewOf(TokensDerived(e, u)) = ViewOf(e)
      /\ TokensDerived(e, u).analysis = e.analysis
      /\ TokensDerived(e, u).defs = e.defs
  BY <1>1 DEF TokensDerived, ViewOf, HostType
<1>5. /\ ViewOf(Ran(e, u, SlotOf(h, u))) = ViewOf(e)
      /\ Ran(e, u, SlotOf(h, u)).analysis = e.analysis
      /\ Ran(e, u, SlotOf(h, u)).defs = e.defs
  BY <1>1 DEF Ran, ViewOf, HostType
<1>6. ASSUME NEW last \in Orders(e)
      PROVE  /\ ViewOf(EnsuredAll(e, last)) = ViewOf(e)
             /\ DefsCurrent(EnsuredAll(e, last))
             /\ EnsuredAll(e, last).analysis[u] = ExpectedFrom(ViewOf(e), u)
  BY <1>1, <1>2, <1>3, EnsuredAllFollows
<1>7. \/ kind = "formatting" /\ g = h
      \/ g = e \/ g = TokensDerived(e, u)
      \/ g = Ran(e, u, SlotOf(h, u))
      \/ \E last \in Orders(e) : g = EnsuredAll(e, last)
  BY DEF Queried, e
<1>8. CASE g = TokensDerived(e, u)
  BY <1>2, <1>4, <1>8 DEF DefsCurrent
<1>9. CASE g = Ran(e, u, SlotOf(h, u))
  BY <1>2, <1>5, <1>9 DEF DefsCurrent
<1> QED BY <1>2, <1>6, <1>7, <1>8, <1>9

LEMMA OpenedFollows ==
  ASSUME NEW h \in HostType, DefsCurrent(h), NEW u \in Uri, NEW t, NEW l
  PROVE  /\ ViewOf(Opened(h, u, t, l)) =
              [ViewOf(h) EXCEPT !.docs = [h.docs EXCEPT ![u] = [text |-> t, lang |-> l]]]
         /\ DefsCurrent(Opened(h, u, t, l))
<1> DEFINE g == Opened(h, u, t, l)
<1>1. /\ g.docs = [h.docs EXCEPT ![u] = [text |-> t, lang |-> l]]
      /\ g.base = h.base /\ g.map = h.map /\ g.config = h.config /\ g.defs = h.defs
      /\ \A v \in Uri : g.analysis[v] = None \/ g.analysis[v] = h.analysis[v]
  BY DEF Opened, Invalidated, HostType
<1> HIDE DEF g
<1>2. ViewOf(g) = [ViewOf(h) EXCEPT !.docs = [h.docs EXCEPT ![u] = [text |-> t, lang |-> l]]]
  BY <1>1 DEF ViewOf
<1> QED BY <1>1, <1>2, DefsStay DEF g

LEMMA UpdatedFollows ==
  ASSUME NEW h \in HostType, DefsCurrent(h), NEW u \in Uri, NEW t
  PROVE  /\ ViewOf(Updated(h, u, t)) =
              [ViewOf(h) EXCEPT !.docs = [h.docs EXCEPT ![u] =
                 [text |-> t, lang |-> IF h.docs[u] = None THEN None ELSE h.docs[u].lang]]]
         /\ DefsCurrent(Updated(h, u, t))
<1>1. CASE h.docs[u] = None
  BY <1>1, OpenedFollows DEF Updated
<1>2. CASE h.docs[u] # None
  <2> DEFINE g == [Invalidated(h, u) EXCEPT !.docs[u].text = t]
             d == [text |-> t, lang |-> h.docs[u].lang]
  <2>1. h.docs[u] \in Doc
    BY <1>2 DEF HostType
  <2>2. [h.docs[u] EXCEPT !.text = t] = d
    BY <2>1 DEF Doc
  <2>3. g.docs = [h.docs EXCEPT ![u] = [h.docs[u] EXCEPT !.text = t]]
    BY DEF Invalidated, HostType
  <2>4. /\ g.base = h.base /\ g.map = h.map /\ g.config = h.config /\ g.defs = h.defs
        /\ \A v \in Uri : g.analysis[v] = None \/ g.analysis[v] = h.analysis[v]
    BY DEF Invalidated, HostType
  <2>5. Updated(h, u, t) = g
    BY <1>2 DEF Updated
  <2> HIDE DEF g
  <2>6. ViewOf(g) = [ViewOf(h) EXCEPT !.docs = [h.docs EXCEPT ![u] = d]]
    BY <2>2, <2>3, <2>4 DEF ViewOf
  <2>7. DefsCurrent(g)
    BY <2>4, DefsStay
  <2> QED BY <1>2, <2>5, <2>6, <2>7
<1> QED BY <1>1, <1>2

LEMMA ClosedFollows ==
  ASSUME NEW h \in HostType, DefsCurrent(h), NEW u \in Uri
  PROVE  /\ ViewOf(Closed(h, u)) = [ViewOf(h) EXCEPT !.docs = [h.docs EXCEPT ![u] = None]]
         /\ DefsCurrent(Closed(h, u))
<1> DEFINE g == Closed(h, u)
<1>1. /\ g.docs = [h.docs EXCEPT ![u] = None]
      /\ g.base = h.base /\ g.map = h.map /\ g.config = h.config /\ g.defs = h.defs
      /\ \A v \in Uri : g.analysis[v] = None \/ g.analysis[v] = h.analysis[v]
  BY DEF Closed, Invalidated, HostType
<1> HIDE DEF g
<1>2. ViewOf(g) = [ViewOf(h) EXCEPT !.docs = [h.docs EXCEPT ![u] = None]]
  BY <1>1 DEF ViewOf
<1> QED BY <1>1, <1>2, DefsStay DEF g

LEMMA InContextFollows ==
  ASSUME NEW h \in HostType, DefsCurrent(h), NEW b
  PROVE  /\ ViewOf(InContext(h, b)) = InContextOf(ViewOf(h), b)
         /\ DefsCurrent(InContext(h, b))
<1> DEFINE g == InContext(h, b)
<1>1. /\ g.docs = h.docs /\ g.map = h.map /\ g.defs = h.defs
      /\ g.base = IF b = None THEN DialectOnly ELSE b
      /\ g.config = IF b = None THEN DefaultConfig ELSE Strict(DefaultConfig)
      /\ \A v \in Uri : g.analysis[v] = None
  BY DEF InContext, WithConfig, WithSchema, InvalidatedAll, NoneCached, HostType
<1> HIDE DEF g
<1> DEFINE base   == IF b = None THEN DialectOnly ELSE b
           config == IF b = None THEN DefaultConfig ELSE Strict(DefaultConfig)
<1>2. /\ InContextOf(ViewOf(h), b) = [ViewOf(h) EXCEPT !.base = base, !.config = config]
      /\ g.base = base /\ g.config = config
  BY <1>1 DEF InContextOf
<1> HIDE DEF base, config
<1>3. ViewOf(g) = InContextOf(ViewOf(h), b)
  BY <1>1, <1>2 DEF ViewOf
<1> QED BY <1>1, <1>3, DefsStay DEF g

LEMMA StartedFollows ==
  ASSUME NEW p \in Projects
  PROVE  /\ DefsCurrent(Started(p))
         /\ \A u \in Uri : ExpectedFrom(ViewOf(Started(p)), u) = None
<1>1. \A u \in Uri : Started(p).analysis[u] = None
  BY DEF Started, WithMap, WithSchema, WithConfig, InvalidatedAll, NoneCached, NewHost
<1>2. Open(Started(p)) = {} /\ Started(p) \in HostType
  BY StartedOK
<1> QED BY <1>1, <1>2, ExpectedOfHost DEF DefsCurrent

-----------------------------------------------------------------------------
(* The ids among messages                                                   *)

LEMMA IdsAreFlattened ==
  ASSUME NEW M, \A m \in M : m.id \in Nat, NEW q \in Seq(M)
  PROVE  /\ [i \in DOMAIN q |-> Id(q[i])] \in Seq(Seq(Nat))
         /\ Ids(q) \in Seq(Nat)
<1>1. \A m \in M : Id(m) \in Seq(Nat)
  BY DEF Id
<1>2. [i \in DOMAIN q |-> Id(q[i])] \in Seq(Seq(Nat))
  <2>1. DOMAIN q = 1..Len(q) /\ Len(q) \in Nat /\ \A i \in DOMAIN q : q[i] \in M
    OBVIOUS
  <2>2. [i \in DOMAIN q |-> Id(q[i])] \in [1..Len(q) -> Seq(Nat)]
    BY <1>1, <2>1
  <2> QED BY <2>1, <2>2
<1> QED BY <1>2, FlattenType DEF Ids

LEMMA IdsConcat ==
  ASSUME NEW M, \A m \in M : m.id \in Nat, NEW q \in Seq(M), NEW r \in Seq(M)
  PROVE  Ids(q \o r) = Ids(q) \o Ids(r)
<1> DEFINE f(s) == [i \in DOMAIN s |-> Id(s[i])]
<1>1. f(q) \in Seq(Seq(Nat)) /\ f(r) \in Seq(Seq(Nat))
  BY IdsAreFlattened
<1>2. f(q \o r) = f(q) \o f(r)
  <2> DEFINE n == Len(q)
             k == Len(r)
             x == f(q)
             y == f(r)
             z == f(q \o r)
  <2>1. /\ n \in Nat /\ k \in Nat
        /\ DOMAIN q = 1..n /\ DOMAIN r = 1..k /\ DOMAIN (q \o r) = 1..(n + k)
        /\ \A i \in 1..(n + k) : (q \o r)[i] = IF i <= n THEN q[i] ELSE r[i - n]
    OBVIOUS
  <2>2. /\ Len(x) = n /\ Len(y) = k /\ x \in Seq(Seq(Nat)) /\ y \in Seq(Seq(Nat))
        /\ \A i \in 1..n : x[i] = Id(q[i])
        /\ \A i \in 1..k : y[i] = Id(r[i])
    BY <1>1, <2>1
  <2>3. \A i \in 1..(n + k) : i > n => i - n \in 1..k
    BY <2>1
  <2>4. /\ z = [i \in 1..(n + k) |-> Id((q \o r)[i])]
        /\ \A i \in 1..(n + k) : z[i] = IF i <= n THEN x[i] ELSE y[i - n]
    BY <2>1, <2>2, <2>3
  <2> HIDE DEF x, y, z, n, k, f
  <2>5. z \in Seq(Seq(Nat)) /\ Len(z) = n + k
    <3>1. \A i \in 1..(n + k) : z[i] \in Seq(Nat)
      BY <2>1, <2>2, <2>3, <2>4
    <3>2. z \in [1..(n + k) -> Seq(Nat)] /\ n + k \in Nat
      BY <3>1, <2>1, <2>4
    <3> HIDE DEF z
    <3> QED BY <3>2, FunctionIsSequence
  <2>6. /\ x \in Seq(Seq(Nat)) /\ y \in Seq(Seq(Nat)) /\ z \in Seq(Seq(Nat))
        /\ Len(z) = Len(x) + Len(y)
        /\ \A i \in 1..Len(z) : z[i] = IF i <= Len(x) THEN x[i] ELSE y[i - Len(x)]
    BY <2>2, <2>4, <2>5
  <2>7. z = x \o y
    BY <2>6, ConcatIs
  <2> QED BY <2>7 DEF x, y, z
<1>3. FlattenSeq(f(q) \o f(r)) = FlattenSeq(f(q)) \o FlattenSeq(f(r))
  <2> HIDE DEF f
  <2> QED BY <1>1, FlattenConcat
<1> QED BY <1>2, <1>3 DEF Ids

LEMMA IdsSingle ==
  ASSUME NEW m, m.id \in Nat
  PROVE  Ids(<<m>>) = Id(m)
<1>1. Id(m) \in Seq(Nat)
  BY DEF Id
<1>2. [i \in DOMAIN <<m>> |-> Id(<<m>>[i])] = <<Id(m)>>
  OBVIOUS
<1> QED BY <1>1, <1>2, FlattenSingle DEF Ids

(* Diagnostics carry no id. *)
LEMMA IdsNone ==
  ASSUME NEW M, NEW q \in Seq(M), \A i \in DOMAIN q : q[i].id = 0
  PROVE  Ids(q) = <<>>
<1>1. Len(q) \in Nat /\ [i \in DOMAIN q |-> Id(q[i])] = [i \in 1..Len(q) |-> <<>>]
  BY DEF Id
<1> QED BY <1>1, FlattenEmpty DEF Ids

LEMMA IdsHeadTail ==
  ASSUME NEW M, \A m \in M : m.id \in Nat, NEW q \in Seq(M), q # <<>>
  PROVE  Ids(q) = Id(Head(q)) \o Ids(Tail(q))
<1>1. Head(q) \in M /\ Tail(q) \in Seq(M) /\ <<Head(q)>> \in Seq(M)
      /\ q = <<Head(q)>> \o Tail(q)
  OBVIOUS
<1>2. Ids(<<Head(q)>> \o Tail(q)) = Ids(<<Head(q)>>) \o Ids(Tail(q))
  BY <1>1, IdsConcat
<1>3. Ids(<<Head(q)>>) = Id(Head(q))
  BY <1>1, IdsSingle
<1> QED BY <1>1, <1>2, <1>3

-----------------------------------------------------------------------------
(* The last diagnostics among messages                                      *)

PublishedFor(r, u) == r.code = "publish" /\ r.uri = u

LEMMA LatestNone ==
  ASSUME NEW out, NEW u, NEW before, \A i \in DOMAIN out : ~PublishedFor(out[i], u)
  PROVE  LatestIn(out, u, before) = before
<1>1. {i \in DOMAIN out : out[i].code = "publish" /\ out[i].uri = u} = {}
  BY DEF PublishedFor
<1> QED BY <1>1 DEF LatestIn

LEMMA LatestSome ==
  ASSUME NEW M, NEW out \in Seq(M), NEW u, NEW before, NEW n \in DOMAIN out,
         PublishedFor(out[n], u),
         \A i \in DOMAIN out : i > n => ~PublishedFor(out[i], u)
  PROVE  LatestIn(out, u, before) = out[n].seen
<1> DEFINE S == {i \in DOMAIN out : out[i].code = "publish" /\ out[i].uri = u}
<1>1. n \in S /\ S \subseteq Nat /\ \A i \in S : n >= i
  BY DEF PublishedFor
<1> HIDE DEF S
<1>2. Max(S) = n
  <2>1. Max(S) \in S /\ \A i \in S : Max(S) >= i
    BY <1>1 DEF Max
  <2>2. Max(S) >= n /\ n >= Max(S) /\ Max(S) \in Nat /\ n \in Nat
    BY <1>1, <2>1
  <2> QED BY <2>2
<1>3. LatestIn(out, u, before) = IF S = {} THEN before ELSE out[Max(S)].seen
  BY DEF LatestIn, S
<1> QED BY <1>1, <1>2, <1>3

(* Some message is the last one with diagnostics for u. *)
LEMMA LastPublished ==
  ASSUME NEW M, NEW out \in Seq(M), NEW u, NEW k \in DOMAIN out,
         PublishedFor(out[k], u)
  PROVE  \E n \in DOMAIN out :
           /\ PublishedFor(out[n], u)
           /\ \A i \in DOMAIN out : i > n => ~PublishedFor(out[i], u)
<1> DEFINE L == Len(out)
           T == {j \in 0..L : \E i \in DOMAIN out : PublishedFor(out[i], u) /\ j = L - i}
<1>1. T \in SUBSET Nat /\ T # {}
  <2>1. L - k \in T
    OBVIOUS
  <2> QED BY <2>1
<1>2. PICK j \in T : \A i \in T : j <= i
  <2> HIDE DEF T
  <2> QED BY <1>1, LeastNat
<1>3. PICK n \in DOMAIN out : PublishedFor(out[n], u) /\ j = L - n
  BY <1>2
<1>4. ASSUME NEW i \in DOMAIN out, i > n, PublishedFor(out[i], u) PROVE FALSE
  <2>1. L - i \in T
    BY <1>4
  <2>2. L - n <= L - i /\ L \in Nat /\ i \in Nat /\ n \in Nat
    BY <1>2, <1>3, <2>1
  <2> QED BY <1>4, <2>2
<1> QED BY <1>3, <1>4

LEMMA LatestConcat ==
  ASSUME NEW M, NEW a \in Seq(M), NEW b \in Seq(M), NEW u, NEW before
  PROVE  LatestIn(a \o b, u, before) = LatestIn(b, u, LatestIn(a, u, before))
<1> DEFINE c == a \o b
<1>1. /\ c \in Seq(M) /\ Len(a) \in Nat /\ Len(b) \in Nat /\ Len(c) = Len(a) + Len(b)
      /\ DOMAIN a = 1..Len(a) /\ DOMAIN b = 1..Len(b) /\ DOMAIN c = 1..(Len(a) + Len(b))
      /\ \A i \in DOMAIN a : c[i] = a[i]
      /\ \A i \in DOMAIN b : c[Len(a) + i] = b[i]
      /\ \A i \in DOMAIN c : i \in DOMAIN a \/ (i - Len(a) \in DOMAIN b /\ c[i] = b[i - Len(a)])
  OBVIOUS
<1> HIDE DEF c
<1>2. CASE \E k \in DOMAIN b : PublishedFor(b[k], u)
  <2>1. PICK n \in DOMAIN b :
          /\ PublishedFor(b[n], u)
          /\ \A i \in DOMAIN b : i > n => ~PublishedFor(b[i], u)
    BY <1>2, LastPublished
  <2>2. LatestIn(b, u, LatestIn(a, u, before)) = b[n].seen
    BY <2>1, LatestSome
  <2>3. /\ Len(a) + n \in DOMAIN c /\ c[Len(a) + n] = b[n]
        /\ PublishedFor(c[Len(a) + n], u)
        /\ \A i \in DOMAIN c : i > Len(a) + n => ~PublishedFor(c[i], u)
    <3>1. Len(a) + n \in DOMAIN c /\ c[Len(a) + n] = b[n] /\ PublishedFor(b[n], u)
      BY <1>1, <2>1
    <3>2. ASSUME NEW i \in DOMAIN c, i > Len(a) + n PROVE ~PublishedFor(c[i], u)
      <4>1. i - Len(a) \in DOMAIN b /\ c[i] = b[i - Len(a)] /\ i - Len(a) > n
        BY <1>1, <3>2
      <4> QED BY <2>1, <4>1
    <3> QED BY <3>1, <3>2
  <2>4. LatestIn(c, u, before) = c[Len(a) + n].seen
    <3>1. c \in Seq(M)
      BY <1>1
    <3> DEFINE j == Len(a) + n
    <3> HIDE DEF j
    <3>2. /\ j \in DOMAIN c /\ PublishedFor(c[j], u)
          /\ \A i \in DOMAIN c : i > j => ~PublishedFor(c[i], u)
      BY <2>3 DEF j
    <3>3. LatestIn(c, u, before) = c[j].seen
      BY <3>1, <3>2, LatestSome
    <3> QED BY <3>3 DEF j
  <2> QED BY <2>2, <2>3, <2>4 DEF c
<1>3. CASE /\ ~\E k \in DOMAIN b : PublishedFor(b[k], u)
           /\ \E k \in DOMAIN a : PublishedFor(a[k], u)
  <2>1. PICK n \in DOMAIN a :
          /\ PublishedFor(a[n], u)
          /\ \A i \in DOMAIN a : i > n => ~PublishedFor(a[i], u)
    BY <1>3, LastPublished
  <2>2. LatestIn(a, u, before) = a[n].seen
    BY <2>1, LatestSome
  <2>3. LatestIn(b, u, LatestIn(a, u, before)) = LatestIn(a, u, before)
    BY <1>3, LatestNone
  <2>4. /\ n \in DOMAIN c /\ c[n] = a[n] /\ PublishedFor(c[n], u)
        /\ \A i \in DOMAIN c : i > n => ~PublishedFor(c[i], u)
    BY <1>1, <1>3, <2>1
  <2>5. LatestIn(c, u, before) = c[n].seen
    <3>1. c \in Seq(M)
      BY <1>1
    <3> QED BY <3>1, <2>4, LatestSome
  <2> QED BY <2>2, <2>3, <2>4, <2>5 DEF c
<1>4. CASE /\ ~\E k \in DOMAIN b : PublishedFor(b[k], u)
           /\ ~\E k \in DOMAIN a : PublishedFor(a[k], u)
  <2>1. /\ LatestIn(a, u, before) = before
        /\ LatestIn(b, u, LatestIn(a, u, before)) = LatestIn(a, u, before)
    BY <1>4, LatestNone
  <2>2. \A i \in DOMAIN c : ~PublishedFor(c[i], u)
    BY <1>1, <1>4
  <2>3. LatestIn(c, u, before) = before
    BY <2>2, LatestNone
  <2> QED BY <2>1, <2>3 DEF c
<1> QED BY <1>2, <1>3, <1>4

-----------------------------------------------------------------------------
(* What a handler makes of a message                                        *)

(* The answer to a feature request.                                        *)
AnswerFits(m, r) ==
  /\ r.code = "ok" => lifecycle = "Initialized"
  /\ (r.code = "ok" /\ m.kind # "formatting") =>
       r.seen = IF m.valid THEN ExpectedFrom(ViewOf(host), m.uri) ELSE None
  /\ r.code = "InvalidParams" <=> (lifecycle = "Initialized" /\ ~m.valid)

(* Diagnostics are those of the host, and go out for whatever changed.     *)
TellsTheTruth ==
  \A i \in DOMAIN sending : sending[i].code = "publish" =>
    sending[i].id = 0 /\ sending[i].seen = ExpectedFrom(ViewOf(host), sending[i].uri)
TellsWhatChanged ==
  \A u \in Uri : (\A i \in DOMAIN sending' : ~PublishedFor(sending'[i], u)) =>
    ExpectedFrom(ViewOf(host'), u) = ExpectedFrom(ViewOf(host), u)

(* The session and the view become what the client counts on, the message  *)
(* gets its one answer, if it is a request, and the answer fits.           *)
Fulfils(m) ==
  /\ ViewOf(host') = ViewAfter(m, ViewOf(host), lifecycle)
  /\ lifecycle' = PhaseAfter(m, lifecycle)
  /\ DefsCurrent(host')
  /\ Ids(sending') = Id(m)
  /\ \A i \in DOMAIN sending' : sending'[i].id \in {0, m.id}
  /\ m.kind \in Feature => \A i \in DOMAIN sending' : AnswerFits(m, sending'[i])
  /\ TellsTheTruth' /\ TellsWhatChanged

LEMMA NothingSaid ==
  ASSUME DefsCurrent(host), NEW m \in Incoming, m.id = 0, m.kind \notin Feature,
         ~Describes(m, lifecycle), ~Edits(m, lifecycle),
         PhaseAfter(m, lifecycle) = lifecycle,
         UNCHANGED <<host, lifecycle>>, sending' = <<>>
  PROVE  Fulfils(m)
<1>1. sending' \in Seq({}) /\ DOMAIN sending' = {}
  OBVIOUS
<1>2. Ids(sending') = <<>>
  BY <1>1, IdsNone
<1>3. Id(m) = <<>>
  BY DEF Id
<1>4. ViewOf(host') = ViewAfter(m, ViewOf(host), lifecycle)
  BY DEF ViewAfter
<1> QED BY <1>1, <1>2, <1>3, <1>4 DEF Fulfils, TellsTheTruth, TellsWhatChanged

(* One answer, and nothing changes but perhaps the caches. *)
LEMMA OneAnswer ==
  ASSUME NEW m \in Incoming, NEW r, r.id = m.id, r.code # "publish", sending' = <<r>>,
         DefsCurrent(host'), ViewOf(host') = ViewOf(host),
         ~Describes(m, lifecycle), ~Edits(m, lifecycle),
         lifecycle' = PhaseAfter(m, lifecycle),
         m.kind \in Feature => AnswerFits(m, r)
  PROVE  Fulfils(m)
<1>1. m.id \in Nat
  BY DEF Incoming
<1>2. Ids(<<r>>) = Id(r) /\ Id(r) = Id(m)
  BY <1>1, IdsSingle DEF Id
<1>3. DOMAIN sending' = {1} /\ sending'[1] = r
  OBVIOUS
<1>4. ViewOf(host') = ViewAfter(m, ViewOf(host), lifecycle)
  BY DEF ViewAfter
<1> QED BY <1>2, <1>3, <1>4 DEF Fulfils, TellsTheTruth, TellsWhatChanged

LEMMA RejectFulfils ==
  ASSUME DefsCurrent(host), NEW m \in Incoming, NEW code \in Code, Reject(m, code),
         ~Describes(m, lifecycle), ~Edits(m, lifecycle),
         PhaseAfter(m, lifecycle) = lifecycle,
         m.kind \in Feature => AnswerFits(m, Response(m, code, None))
  PROVE  Fulfils(m)
<1> DEFINE r == Response(m, code, None)
<1>1. r.id = m.id /\ r.code # "publish"
  BY DEF Response, Code
<1>2. sending' = <<r>> /\ host' = host /\ lifecycle' = lifecycle
  BY DEF Reject, serverVars
<1>3. m.kind \in Feature => AnswerFits(m, r)
  OBVIOUS
<1> HIDE DEF r
<1> QED BY <1>1, <1>2, <1>3, OneAnswer

(* Only a document's own entry decides what is expected of it. *)
LEMMA OthersKept ==
  ASSUME NEW v, NEW x, NEW w \in Uri, x.docs[w] = v.docs[w],
         x.base = v.base, x.map = v.map, x.config = v.config, x.defs = v.defs
  PROVE  ExpectedFrom(x, w) = ExpectedFrom(v, w)
BY DEF ExpectedFrom, Open, Analysed, SchemaFor, ConfigFor, SlotOf

LEMMA PublishedFulfils ==
  ASSUME ServerInv, NEW m \in Incoming, m.id = 0, m.kind \notin Feature,
         NEW h \in HostType, CachesFresh(h), DefsCurrent(h), Published(h, m.uri),
         m.uri \in Uri, PhaseAfter(m, lifecycle) = lifecycle,
         ViewOf(h) = ViewAfter(m, ViewOf(host), lifecycle),
         \A w \in Uri : w # m.uri \/ h.docs[w] = None =>
           ExpectedFrom(ViewOf(h), w) = ExpectedFrom(ViewOf(host), w)
  PROVE  Fulfils(m)
<1> DEFINE u == m.uri
           r == Publish(u, ExpectedFrom(ViewOf(h), u))
<1>1. /\ host' = Ensured(h, u) /\ lifecycle' = lifecycle
      /\ sending' = IF h.docs[u] = None THEN <<>> ELSE <<Publish(u, host'.analysis[u])>>
  BY DEF Published
<1>2. /\ ViewOf(host') = ViewOf(h) /\ DefsCurrent(host')
      /\ h.docs[u] # None => host'.analysis[u] = ExpectedFrom(ViewOf(h), u)
  BY <1>1, EnsuredFollows
<1>3. sending' = IF h.docs[u] = None THEN <<>> ELSE <<r>>
  BY <1>1, <1>2
<1>4. r.id = 0 /\ r.uri = u /\ r.seen = ExpectedFrom(ViewOf(host'), u) /\ r.code = "publish"
  BY <1>2 DEF Publish
<1> HIDE DEF r
<1>5. \A i \in DOMAIN sending' : sending'[i] = r
  BY <1>3
<1>6. Ids(sending') = <<>>
  <2>1. sending' \in Seq({r})
    <3>1. <<>> \in Seq({r}) /\ <<r>> \in Seq({r})
      OBVIOUS
    <3> QED BY <1>3, <3>1
  <2> QED BY <1>4, <1>5, <2>1, IdsNone
<1>7. Id(m) = <<>>
  BY DEF Id
<1>8. TellsTheTruth'
  BY <1>4, <1>5 DEF TellsTheTruth
<1>9. TellsWhatChanged
  <2> SUFFICES ASSUME NEW w \in Uri,
                      \A i \in DOMAIN sending' : ~PublishedFor(sending'[i], w)
               PROVE  ExpectedFrom(ViewOf(host'), w) = ExpectedFrom(ViewOf(host), w)
    BY DEF TellsWhatChanged
  <2>1. h.docs[u] # None => w # u
    <3> SUFFICES ASSUME h.docs[u] # None, w = u PROVE FALSE
      OBVIOUS
    <3>1. 1 \in DOMAIN sending'
      BY <1>3
    <3> QED BY <1>4, <1>5, <3>1 DEF PublishedFor
  <2> QED BY <1>2, <2>1
<1> QED BY <1>1, <1>2, <1>4, <1>5, <1>6, <1>7, <1>8, <1>9 DEF Fulfils

LEMMA RepublishedFulfils ==
  ASSUME ServerInv, NEW m \in Incoming, m.kind \notin Feature,
         NEW h \in HostType, CachesFresh(h), DefsCurrent(h), h.docs = host.docs,
         Republished(h, <<Response(m, "ok", None)>>), UNCHANGED lifecycle,
         PhaseAfter(m, lifecycle) = lifecycle,
         ViewOf(h) = ViewAfter(m, ViewOf(host), lifecycle)
  PROVE  Fulfils(m)
<1> DEFINE first == Response(m, "ok", None)
<1>1. PICK order \in RunOrders(h), last \in Orders(h) :
        /\ host' = EnsuredAll(h, last)
        /\ sending' = <<first>> \o
             [i \in DOMAIN order |-> Publish(order[i], host'.analysis[order[i]])]
  BY DEF Republished
<1>2. /\ ViewOf(host') = ViewOf(h) /\ DefsCurrent(host')
      /\ \A u \in Open(h) : host'.analysis[u] = ExpectedFrom(ViewOf(h), u)
  BY <1>1, EnsuredAllFollows
<1>3. first.id = m.id /\ first.code # "publish" /\ m.id \in Nat
  BY DEF Response, Incoming
<1>4. Cardinality(Open(h)) \in Nat
  BY LspServerAssumption, FS_Subset, FS_CardinalityType DEF Open
<1>5. /\ order \in [1..Cardinality(Open(h)) -> Open(h)]
      /\ \A u \in Open(h) : \E i \in DOMAIN order : order[i] = u
  BY DEF RunOrders, Range
<1> DEFINE rest == [i \in DOMAIN order |-> Publish(order[i], host'.analysis[order[i]])]
<1>6. /\ DOMAIN rest = DOMAIN order
      /\ \A i \in DOMAIN order :
           /\ rest[i].id = 0 /\ rest[i].code = "publish"
           /\ rest[i].uri = order[i]
           /\ rest[i].seen = ExpectedFrom(ViewOf(host'), order[i])
  BY <1>2, <1>5 DEF Publish
<1>7. rest \in Seq(Outgoing) /\ <<first>> \in Seq(Outgoing)
  <2>1. first \in Outgoing
    BY ResponseOK DEF Code
  <2>2. host' \in HostType
    BY <1>1, EnsuredAllOK
  <2>3. \A i \in DOMAIN order :
          order[i] \in Uri /\ host'.analysis[order[i]] \in {None} \cup Analysis
    BY <1>5, <2>2 DEF Open, HostType
  <2>4. \A i \in DOMAIN order : rest[i] \in Outgoing
    BY <2>3, PublishOK
  <2>5. rest \in [1..Cardinality(Open(h)) -> Outgoing]
    BY <1>5, <2>4
  <2> HIDE DEF first, rest
  <2> QED BY <1>4, <2>1, <2>5
<1>8. \A x \in Outgoing : x.id \in Nat
  BY DEF Outgoing
<1>9. sending' = <<first>> \o rest
  BY <1>1
<1> HIDE DEF first, rest
<1>10. Ids(sending') = Id(m)
  <2>1. Ids(<<first>> \o rest) = Ids(<<first>>) \o Ids(rest)
    BY <1>7, <1>8, IdsConcat
  <2>2. Ids(<<first>>) = Id(m) /\ Id(m) \in Seq(Nat)
    BY <1>3, IdsSingle DEF Id
  <2>3. Ids(rest) = <<>>
    BY <1>6, <1>7, IdsNone
  <2> QED BY <1>9, <2>1, <2>2, <2>3
<1>11. \A i \in DOMAIN sending' :
         sending'[i] = first \/ \E j \in DOMAIN order : sending'[i] = rest[j]
  BY <1>6, <1>7, <1>9
<1>12. \A j \in DOMAIN order : \E i \in DOMAIN sending' : sending'[i] = rest[j]
  <2> SUFFICES ASSUME NEW j \in DOMAIN order
               PROVE  \E i \in DOMAIN sending' : sending'[i] = rest[j]
    OBVIOUS
  <2>1. /\ j + 1 \in DOMAIN (<<first>> \o rest)
        /\ (<<first>> \o rest)[j + 1] = rest[j]
    BY <1>4, <1>5, <1>6, <1>7
  <2> QED BY <1>9, <2>1
<1>13. TellsTheTruth'
  BY <1>3, <1>6, <1>11 DEF TellsTheTruth
<1>14. TellsWhatChanged
  <2> SUFFICES ASSUME NEW w \in Uri,
                      \A i \in DOMAIN sending' : ~PublishedFor(sending'[i], w)
               PROVE  ExpectedFrom(ViewOf(host'), w) = ExpectedFrom(ViewOf(host), w)
    BY DEF TellsWhatChanged
  <2>1. w \notin Open(h)
    <3> SUFFICES ASSUME w \in Open(h) PROVE FALSE
      OBVIOUS
    <3>1. PICK j \in DOMAIN order : order[j] = w
      BY <1>5
    <3>2. PICK i \in DOMAIN sending' : sending'[i] = rest[j]
      BY <1>12
    <3> QED BY <1>6, <3>1, <3>2 DEF PublishedFor
  <2>2. w \notin Open(host)
    BY <2>1 DEF Open
  <2>3. ExpectedFrom(ViewOf(h), w) = None /\ ExpectedFrom(ViewOf(host), w) = None
    BY <2>1, <2>2, ExpectedOfHost DEF ServerInv
  <2> QED BY <1>2, <2>3
<1>15. \A i \in DOMAIN sending' : sending'[i].id \in {0, m.id}
  BY <1>3, <1>6, <1>11
<1> QED BY <1>2, <1>10, <1>13, <1>14, <1>15 DEF Fulfils

-----------------------------------------------------------------------------
(* Every handler fulfils what the client counts on                          *)

LEMMA InitializeFulfils ==
  ASSUME ServerInv, DefsCurrent(host), NEW m \in Incoming, HandleInitialize(m)
  PROVE  Fulfils(m)
<1>1. /\ m.kind = "initialize" /\ lifecycle = "Uninitialized" /\ m.kind \notin Feature
      /\ ~Describes(m, lifecycle) /\ ~Edits(m, lifecycle)
  BY FeatureKinds DEF HandleInitialize, Others, Describes, Edits
<1>2. CASE m.valid
  <2> DEFINE r == Response(m, "ok", None)
  <2>1. r.id = m.id /\ r.code # "publish"
    BY DEF Response
  <2>2. lifecycle' = PhaseAfter(m, lifecycle) /\ sending' = <<r>> /\ host' = host
    BY <1>1, <1>2 DEF HandleInitialize, PhaseAfter
  <2> HIDE DEF r
  <2> QED BY <1>1, <2>1, <2>2, OneAnswer
<1>3. CASE ~m.valid
  <2>1. Reject(m, "InvalidParams") /\ PhaseAfter(m, lifecycle) = lifecycle
    BY <1>1, <1>3 DEF HandleInitialize, PhaseAfter
  <2> QED BY <1>1, <2>1, RejectFulfils DEF Code
<1> QED BY <1>2, <1>3

LEMMA ShutdownFulfils ==
  ASSUME ServerInv, DefsCurrent(host), NEW m \in Incoming, HandleShutdown(m)
  PROVE  Fulfils(m)
<1> DEFINE r == Response(m, "ok", None)
<1>1. /\ m.kind \notin Feature
      /\ ~Describes(m, lifecycle) /\ ~Edits(m, lifecycle)
  BY FeatureKinds DEF HandleShutdown, Others, Describes, Edits
<1>2. r.id = m.id /\ r.code # "publish"
  BY DEF Response
<1>3. lifecycle' = PhaseAfter(m, lifecycle) /\ sending' = <<r>> /\ host' = host
  BY DEF HandleShutdown, PhaseAfter
<1> HIDE DEF r
<1> QED BY <1>1, <1>2, <1>3, OneAnswer

LEMMA RefusedFulfils ==
  ASSUME ServerInv, DefsCurrent(host), NEW m \in Incoming, HandleRefused(m),
         m.kind \notin Notifications
  PROVE  Fulfils(m)
<1>1. /\ ~Describes(m, lifecycle) /\ ~Edits(m, lifecycle)
      /\ PhaseAfter(m, lifecycle) = lifecycle
  BY DEF HandleRefused, AcceptsContext, Notifications, Describes, Edits, PhaseAfter
<1>2. PICK code \in {"ServerNotInitialized", "InvalidRequest"} : Reject(m, code)
  BY DEF HandleRefused
<1>3. m.kind \in Feature => lifecycle # "Initialized"
  BY FeatureKinds DEF HandleRefused, Others
<1>4. m.kind \in Feature => AnswerFits(m, Response(m, code, None))
  BY <1>3 DEF AnswerFits, Response
<1> QED BY <1>1, <1>2, <1>4, RejectFulfils DEF Code

LEMMA SetSessionContextFulfils ==
  ASSUME ServerInv, DefsCurrent(host), NEW m \in Incoming, HandleSetSessionContext(m)
  PROVE  Fulfils(m)
<1>1. /\ m.kind = "setSessionContext" /\ m.kind \notin Feature
      /\ ~Edits(m, lifecycle) /\ PhaseAfter(m, lifecycle) = lifecycle
  BY FeatureKinds DEF HandleSetSessionContext, AcceptsContext, Others, Edits, PhaseAfter
<1>2. CASE m.valid
  <2> DEFINE h == InContext(host, m.arg)
  <2>1. Describes(m, lifecycle) /\ m.arg \in {None} \cup Base
    BY <1>2 DEF HandleSetSessionContext, AcceptsContext, Describes, Incoming, WellFormed
  <2>2. h \in HostType /\ CachesFresh(h) /\ h.docs = host.docs
    BY <2>1, InContextOK DEF ServerInv
  <2>3. ViewOf(h) = ViewAfter(m, ViewOf(host), lifecycle) /\ DefsCurrent(h)
    BY <2>1, InContextFollows DEF ServerInv, ViewAfter
  <2>4. Republished(h, <<Response(m, "ok", None)>>) /\ UNCHANGED lifecycle
    BY <1>2 DEF HandleSetSessionContext
  <2> HIDE DEF h
  <2> QED BY <1>1, <2>2, <2>3, <2>4, RepublishedFulfils
<1>3. CASE ~m.valid
  <2>1. Reject(m, "InvalidParams") /\ ~Describes(m, lifecycle)
    BY <1>3 DEF HandleSetSessionContext, Describes
  <2> QED BY <1>1, <2>1, RejectFulfils DEF Code
<1> QED BY <1>2, <1>3

LEMMA FeatureFulfils ==
  ASSUME ServerInv, DefsCurrent(host), NEW m \in Incoming, HandleFeature(m)
  PROVE  Fulfils(m)
<1>1. m.kind \in Feature /\ lifecycle = "Initialized" /\ m.kind \notin Others
  BY FeatureKinds DEF HandleFeature
<1>2. /\ ~Describes(m, lifecycle) /\ ~Edits(m, lifecycle)
      /\ PhaseAfter(m, lifecycle) = lifecycle
  BY <1>1 DEF Others, Describes, Edits, PhaseAfter
<1>3. CASE ~m.valid
  <2>1. Reject(m, "InvalidParams")
    BY <1>3 DEF HandleFeature
  <2>2. AnswerFits(m, Response(m, "InvalidParams", None))
    BY <1>1, <1>3 DEF AnswerFits, Response
  <2> QED BY <1>2, <2>1, <2>2, RejectFulfils DEF Code
<1>4. CASE m.valid /\ \E code \in {"ok", "InternalError"} :
             /\ Reject(m, code)
             /\ code = "ok" /\ m.kind # "formatting" => host.docs[m.uri] = None
  <2>1. PICK code \in {"ok", "InternalError"} :
           /\ Reject(m, code)
           /\ code = "ok" /\ m.kind # "formatting" => host.docs[m.uri] = None
    BY <1>4
  <2>2. host.docs[m.uri] = None => ExpectedFrom(ViewOf(host), m.uri) = None
    BY ExpectedOfHost DEF Open, ServerInv
  <2>3. AnswerFits(m, Response(m, code, None))
    BY <1>1, <1>4, <2>1, <2>2 DEF AnswerFits, Response
  <2> QED BY <1>2, <2>1, <2>3, RejectFulfils DEF Code
<1>5. CASE /\ m.valid /\ host.docs[m.uri] # None
           /\ host' \in Queried(host, m.kind, m.uri)
           /\ sending' = <<Response(m, "ok", IF m.kind = "formatting" THEN None
                                            ELSE host'.analysis[m.uri])>>
           /\ UNCHANGED <<lifecycle, exited>>
  <2>1. m.uri \in Uri
    BY <1>1, <1>5 DEF Incoming, WellFormed
  <2>2. /\ ViewOf(host') = ViewOf(host) /\ DefsCurrent(host')
        /\ m.kind # "formatting" =>
             host'.analysis[m.uri] = ExpectedFrom(ViewOf(host), m.uri)
    BY <1>5, <2>1, QueriedFollows DEF ServerInv
  <2> DEFINE seen == IF m.kind = "formatting" THEN None ELSE host'.analysis[m.uri]
             r == Response(m, "ok", seen)
  <2>3. r.id = m.id /\ r.code = "ok" /\ r.seen = seen /\ sending' = <<r>>
    BY <1>5 DEF Response
  <2>4. m.kind # "formatting" => seen = ExpectedFrom(ViewOf(host), m.uri)
    BY <2>2
  <2> HIDE DEF seen, r
  <2>5. AnswerFits(m, r)
    BY <1>1, <1>5, <2>3, <2>4 DEF AnswerFits
  <2> QED BY <1>2, <1>5, <2>2, <2>3, <2>5, OneAnswer
<1>6. \/ Reject(m, "InvalidParams") /\ ~m.valid
      \/ /\ m.valid /\ host.docs[m.uri] = None
         /\ Reject(m, IF m.kind = "formatting" THEN "InternalError" ELSE "ok")
      \/ /\ m.valid /\ host.docs[m.uri] # None
         /\ host' \in Queried(host, m.kind, m.uri)
         /\ sending' = <<Response(m, "ok", IF m.kind = "formatting" THEN None
                                          ELSE host'.analysis[m.uri])>>
         /\ UNCHANGED <<lifecycle, exited>>
      \/ m.valid /\ Reject(m, "InternalError")
  BY DEF HandleFeature
<1> QED BY <1>3, <1>4, <1>5, <1>6

LEMMA DocumentFulfils ==
  ASSUME ServerInv, DefsCurrent(host), NEW m \in Incoming, m.id = 0,
         HandleDidOpen(m) \/ HandleDidChange(m) \/ HandleDidClose(m)
  PROVE  Fulfils(m)
<1>1. /\ lifecycle = "Initialized" /\ m.uri \in Uri /\ m.kind \notin Feature
      /\ PhaseAfter(m, lifecycle) = lifecycle /\ ~Describes(m, lifecycle)
  BY FeatureKinds DEF HandleDidOpen, HandleDidChange, HandleDidClose, Drops, Incoming,
                      WellFormed, Others, PhaseAfter, Describes
<1> DEFINE u == m.uri
           d == Edit(host.docs, m)
           v == [ViewOf(host) EXCEPT !.docs = [host.docs EXCEPT ![u] = d]]
<1>2. /\ host \in HostType /\ CachesFresh(host) /\ ViewOf(host) \in Views
      /\ ViewOf(host).docs = host.docs
  BY ViewOfType DEF ServerInv, ViewOf
<1>3. Edits(m, lifecycle) => ViewAfter(m, ViewOf(host), lifecycle) = v
  BY <1>1, <1>2 DEF ViewAfter, Edited
<1>4. \A w \in Uri : w # u => ExpectedFrom(v, w) = ExpectedFrom(ViewOf(host), w)
  <2> HIDE DEF d
  <2> SUFFICES ASSUME NEW w \in Uri, w # u
               PROVE  ExpectedFrom(v, w) = ExpectedFrom(ViewOf(host), w)
    OBVIOUS
  <2>1. /\ v.docs[w] = ViewOf(host).docs[w] /\ v.base = ViewOf(host).base
        /\ v.map = ViewOf(host).map /\ v.config = ViewOf(host).config
        /\ v.defs = ViewOf(host).defs
    BY <1>2 DEF Views
  <2> HIDE DEF u, v
  <2> QED BY <2>1, OthersKept
<1>5. ASSUME NEW h \in HostType, CachesFresh(h), DefsCurrent(h), ViewOf(h) = v,
             h.docs[u] # None, Edits(m, lifecycle), Published(h, u)
      PROVE  Fulfils(m)
  <2>1. ViewOf(h) = ViewAfter(m, ViewOf(host), lifecycle)
    BY <1>3, <1>5
  <2>2. \A w \in Uri : w # u \/ h.docs[w] = None =>
          ExpectedFrom(ViewOf(h), w) = ExpectedFrom(ViewOf(host), w)
    BY <1>4, <1>5
  <2> QED BY <1>1, <1>5, <2>1, <2>2, PublishedFulfils
<1>6. CASE HandleDidOpen(m)
  <2> DEFINE h == Opened(host, u, m.arg.text, m.arg.lang)
  <2>1. m.arg \in Doc /\ Edits(m, lifecycle) /\ d = m.arg
    BY <1>1, <1>6 DEF HandleDidOpen, Incoming, WellFormed, Edits, Edit
  <2>2. /\ m.arg.text \in Text /\ m.arg.lang \in {None} \cup Lang
        /\ [text |-> m.arg.text, lang |-> m.arg.lang] = m.arg /\ m.arg # None
    BY <2>1, NoneIsNoDoc DEF Doc
  <2>3. h \in HostType /\ CachesFresh(h)
    BY <1>1, <1>2, <2>2, OpenedOK
  <2>4. ViewOf(h) = v /\ DefsCurrent(h)
    BY <1>1, <1>2, <2>1, <2>2, OpenedFollows
  <2>5. Published(h, u)
    BY <1>6 DEF HandleDidOpen
  <2>6. h.docs[u] # None
    BY <1>1, <1>2, <2>2 DEF Opened, Invalidated, HostType
  <2> HIDE DEF h
  <2> QED BY <1>5, <2>1, <2>3, <2>4, <2>5, <2>6
<1>7. CASE HandleDidChange(m) /\ m.arg # None
  <2> DEFINE h == Updated(host, u, m.arg)
  <2>1. /\ m.arg \in Text /\ Edits(m, lifecycle) /\ Published(h, u)
        /\ d = [text |-> m.arg, lang |-> IF host.docs[u] = None THEN None
                                         ELSE host.docs[u].lang]
    BY <1>1, <1>7 DEF HandleDidChange, Incoming, WellFormed, Edits, Edit
  <2>2. h \in HostType /\ CachesFresh(h)
    BY <1>1, <1>2, <2>1, UpdatedOK
  <2>3. ViewOf(h) = v /\ DefsCurrent(h)
    BY <1>1, <1>2, <2>1, UpdatedFollows
  <2>4. h.docs = [host.docs EXCEPT ![u] = d]
    <3>1. ViewOf(h).docs = h.docs
      BY DEF ViewOf
    <3>2. v.docs = [host.docs EXCEPT ![u] = d]
      BY DEF ViewOf
    <3> QED BY <2>3, <3>1, <3>2
  <2>5. d \in Doc
    <3>1. (IF host.docs[u] = None THEN None ELSE host.docs[u].lang) \in {None} \cup Lang
      BY <1>1, <1>2 DEF HostType, Doc
    <3> QED BY <2>1, <3>1 DEF Doc
  <2>6. h.docs[u] # None
    BY <1>1, <1>2, <2>4, <2>5, NoneIsNoDoc DEF HostType
  <2> HIDE DEF h, d, v
  <2> QED BY <1>5, <2>1, <2>2, <2>3, <2>6
<1>8. CASE HandleDidChange(m) /\ m.arg = None
  <2>1. Published(host, u)
    BY <1>8 DEF HandleDidChange
  <2>2. ViewOf(host) = ViewAfter(m, ViewOf(host), lifecycle)
    BY <1>1, <1>8 DEF HandleDidChange, ViewAfter, Edits
  <2> QED BY <1>1, <1>2, <2>1, <2>2, PublishedFulfils
<1>9. CASE HandleDidClose(m)
  <2> DEFINE r == Publish(u, None)
  <2>1. /\ Edits(m, lifecycle) /\ d = None
        /\ host' = Closed(host, u) /\ sending' = <<r>> /\ lifecycle' = lifecycle
    BY <1>1, <1>9 DEF HandleDidClose, Edits, Edit
  <2>2. ViewOf(host') = v /\ DefsCurrent(host') /\ host' \in HostType
    BY <1>1, <1>2, <2>1, ClosedFollows, ClosedOK
  <2>3. u \notin Open(host')
    <3>1. host'.docs = [host.docs EXCEPT ![u] = None]
      BY <1>1, <1>2, <2>1 DEF Closed, Invalidated, HostType
    <3> QED BY <1>1, <1>2, <3>1 DEF Open, HostType
  <2>4. ExpectedFrom(ViewOf(host'), u) = None
    BY <2>2, <2>3, ExpectedOfHost
  <2>5. r.id = 0 /\ r.code = "publish" /\ r.uri = u /\ r.seen = None
    BY DEF Publish
  <2> HIDE DEF r, v, d
  <2>6. /\ DOMAIN sending' = {1} /\ sending'[1] = r
    BY <2>1
  <2>7. Ids(sending') = Id(m)
    <3>1. r.id \in Nat
      BY <2>5
    <3>2. Ids(<<r>>) = Id(r)
      BY <3>1, IdsSingle
    <3>3. Id(r) = <<>> /\ Id(m) = <<>>
      BY <2>5 DEF Id
    <3> QED BY <2>1, <3>2, <3>3
  <2>8. TellsTheTruth'
    BY <2>4, <2>5, <2>6 DEF TellsTheTruth
  <2>9. TellsWhatChanged
    BY <1>4, <2>2, <2>5, <2>6 DEF TellsWhatChanged, PublishedFor
  <2> QED BY <1>1, <1>3, <2>1, <2>2, <2>5, <2>6, <2>7, <2>8, <2>9 DEF Fulfils
<1> QED BY <1>6, <1>7, <1>8, <1>9

LEMMA HandleFulfils ==
  ASSUME ServerInv, DefsCurrent(host), NEW m \in Incoming,
         m.id = 0 <=> m.kind \in Notifications, Handle(m)
  PROVE  Fulfils(m)
<1>1. CASE HandleInitialize(m)
  BY <1>1, InitializeFulfils
<1>2. CASE HandleShutdown(m)
  BY <1>2, ShutdownFulfils
<1>3. CASE HandleRefused(m)
  BY <1>3, RefusedFulfils DEF HandleRefused
<1>4. CASE HandleSetSessionContext(m)
  BY <1>4, SetSessionContextFulfils
<1>5. CASE HandleFeature(m)
  BY <1>5, FeatureFulfils
<1>6. CASE HandleUnknown(m) \/ HandleMalformed(m)
  <2>1. /\ m.kind \notin Feature /\ PhaseAfter(m, lifecycle) = lifecycle
        /\ ~Describes(m, lifecycle) /\ ~Edits(m, lifecycle)
    BY <1>6, FeatureKinds
       DEF HandleUnknown, HandleMalformed, Others, PhaseAfter, Describes, Edits
  <2>2. PICK code \in {"MethodNotFound", "ParseError"} : Reject(m, code)
    BY <1>6 DEF HandleUnknown, HandleMalformed
  <2> QED BY <2>1, <2>2, RejectFulfils DEF Code
<1>7. CASE HandleExit(m) \/ HandleDropped(m)
  <2>1. /\ m.kind \notin Feature /\ PhaseAfter(m, lifecycle) = lifecycle
        /\ ~Describes(m, lifecycle) /\ ~Edits(m, lifecycle) /\ m.id = 0
    BY <1>7, FeatureKinds
       DEF HandleExit, HandleDropped, Drops, Others, PhaseAfter, Describes, Edits,
           Notifications
  <2>2. sending' = <<>> /\ UNCHANGED <<host, lifecycle>>
    BY <1>7 DEF HandleExit, HandleDropped, serverVars
  <2> QED BY <2>1, <2>2, NothingSaid
<1>8. CASE HandleDidOpen(m) \/ HandleDidChange(m) \/ HandleDidClose(m)
  <2>1. m.id = 0
    BY <1>8 DEF HandleDidOpen, HandleDidChange, HandleDidClose, Notifications
  <2> QED BY <1>8, <2>1, DocumentFulfils
<1> QED BY <1>1, <1>2, <1>3, <1>4, <1>5, <1>6, <1>7, <1>8 DEF Handle

-----------------------------------------------------------------------------
(* What the client may count on                                             *)

Asked == [id : Nat \ {0}, kind : Feature \cup Others, phase : Lifecycle,
          valid : BOOLEAN, seen : {None} \cup Analysis]

(* The ids grow with the requests; nothing carries one not given yet.       *)
PendingInv ==
  /\ pending \in Seq(Asked)
  /\ \A i \in DOMAIN pending : pending[i].id <= sent
  /\ \A i, j \in DOMAIN pending : i < j => pending[i].id < pending[j].id
InboxIds ==
  \A i \in DOMAIN inbox :
    inbox[i].id <= sent /\ (inbox[i].id = 0 <=> inbox[i].kind \in Notifications)
Out == outbox \o sending
OutIds ==
  \A i \in DOMAIN Out :
    Out[i].id <= sent /\ (Out[i].code = "publish" => Out[i].id = 0)

(* The states the inbox leads through, from the host to the client's view; *)
(* a query waiting in it was asked in the state it will find.              *)
Follows(vs, ps) ==
  /\ vs[1] = ViewOf(host) /\ ps[1] = lifecycle
  /\ \A i \in 1..Len(inbox) :
       /\ vs[i + 1] = ViewAfter(inbox[i], vs[i], ps[i])
       /\ ps[i + 1] = PhaseAfter(inbox[i], ps[i])
  /\ view = vs[Len(inbox) + 1] /\ phase = ps[Len(inbox) + 1]
AskedIn(vs, ps) ==
  \A i \in 1..Len(inbox), k \in DOMAIN pending :
    pending[k].id = inbox[i].id =>
      /\ pending[k].kind = inbox[i].kind /\ pending[k].phase = ps[i]
      /\ pending[k].valid = inbox[i].valid
      /\ pending[k].seen = IF inbox[i].valid THEN ExpectedFrom(vs[i], inbox[i].uri)
                           ELSE None
HistoryInv ==
  \E vs \in Seq(Views), ps \in Seq(Lifecycle) :
    /\ Len(vs) = Len(inbox) + 1 /\ Len(ps) = Len(inbox) + 1
    /\ Follows(vs, ps) /\ AskedIn(vs, ps)

(* The last diagnostics sent for a document are those of the host.         *)
ShownFollow == \A u \in Uri : Latest(u) = ExpectedFrom(ViewOf(host), u)

IdsInv == PendingInv /\ InboxIds /\ OutIds
ClientsTruth ==
  /\ IdsInv /\ HistoryInv /\ DefsCurrent(host) /\ ShownFollow
  /\ AnsweredInOrder /\ AnswersShowWhatWasAsked

-----------------------------------------------------------------------------
(* The server handles a message                                             *)

LEMMA ServeAsExpected ==
  ASSUME IInv, ClientsTruth, Serve
  PROVE  /\ inbox \in Seq(Incoming) /\ inbox # <<>> /\ inbox' = Tail(inbox)
         /\ outbox \in Seq(Outgoing) /\ outbox' = outbox /\ sending = <<>>
         /\ sending' \in Seq(Outgoing) /\ Out = outbox /\ Out' = outbox \o sending'
         /\ UNCHANGED clientVars
         /\ Fulfils(Head(inbox))
<1>1. /\ inbox \in Seq(Incoming) /\ inbox # <<>> /\ inbox' = Tail(inbox)
      /\ outbox \in Seq(Outgoing) /\ outbox' = outbox /\ sending = <<>>
      /\ UNCHANGED clientVars /\ Handle(Head(inbox))
  BY DEF Serve, IInv, ChannelInv
<1>2. sending' \in Seq(Outgoing)
  BY ServeKeeps DEF IInv, ServerInv
<1>3. Out = outbox /\ Out' = outbox \o sending'
  BY <1>1 DEF Out
<1>4. Head(inbox) \in Incoming /\ (Head(inbox).id = 0 <=> Head(inbox).kind \in Notifications)
  <2>1. Head(inbox) = inbox[1] /\ 1 \in DOMAIN inbox /\ Head(inbox) \in Incoming
    BY <1>1
  <2> QED BY <2>1 DEF ClientsTruth, IdsInv, InboxIds
<1>5. Fulfils(Head(inbox))
  BY <1>1, <1>4, HandleFulfils DEF IInv, ClientsTruth
<1> QED BY <1>1, <1>2, <1>3, <1>5

LEMMA ServeKeepsIds ==
  ASSUME IInv, ClientsTruth, Serve
  PROVE  IdsInv'
<1> DEFINE m == Head(inbox)
<1>1. /\ inbox \in Seq(Incoming) /\ inbox # <<>> /\ inbox' = Tail(inbox)
      /\ outbox \in Seq(Outgoing) /\ sending' \in Seq(Outgoing)
      /\ Out = outbox /\ Out' = outbox \o sending'
      /\ pending' = pending /\ sent' = sent /\ Fulfils(m)
  BY ServeAsExpected DEF clientVars
<1>2. IdsInv /\ sent \in Nat
  BY LspServerAssumption DEF ClientsTruth, IInv, ClientInv
<1>3. m.id <= sent
  BY <1>1, <1>2, TailElements DEF IdsInv, InboxIds
<1>4. PendingInv'
  BY <1>1, <1>2 DEF IdsInv, PendingInv
<1>5. InboxIds'
  <2> SUFFICES ASSUME NEW i \in DOMAIN Tail(inbox)
               PROVE  LET x == Tail(inbox)[i]
                      IN  x.id <= sent /\ (x.id = 0 <=> x.kind \in Notifications)
    BY <1>1 DEF InboxIds
  <2>1. Tail(inbox)[i] = inbox[i + 1] /\ i + 1 \in DOMAIN inbox
    BY <1>1, TailElements
  <2> QED BY <1>2, <2>1 DEF IdsInv, InboxIds
<1>6. OutIds'
  <2> SUFFICES ASSUME NEW i \in DOMAIN Out'
               PROVE  Out'[i].id <= sent /\ (Out'[i].code = "publish" => Out'[i].id = 0)
    BY <1>1 DEF OutIds
  <2>1. CASE i \in DOMAIN outbox /\ Out'[i] = outbox[i]
    BY <1>1, <1>2, <2>1 DEF IdsInv, OutIds
  <2>2. CASE \E j \in DOMAIN sending' : Out'[i] = sending'[j]
    <3>1. PICK j \in DOMAIN sending' : Out'[i] = sending'[j]
      BY <2>2
    <3>2. sending'[j].id \in {0, m.id}
      BY <1>1 DEF Fulfils
    <3>3. sending'[j].code = "publish" => sending'[j].id = 0
      BY <1>1 DEF Fulfils, TellsTheTruth
    <3>4. 0 <= sent
      BY <1>2
    <3> QED BY <1>3, <3>1, <3>2, <3>3, <3>4
  <2> QED BY <1>1, <2>1, <2>2, ConcatElements
<1> QED BY <1>4, <1>5, <1>6 DEF IdsInv

LEMMA IdsNat ==
  /\ \A r \in Outgoing : r.id \in Nat
  /\ \A m \in Incoming : m.id \in Nat
BY DEF Outgoing, Incoming

LEMMA ServeKeepsOrder ==
  ASSUME IInv, ClientsTruth, Serve
  PROVE  AnsweredInOrder'
<1> DEFINE m == Head(inbox)
<1>1. /\ inbox \in Seq(Incoming) /\ inbox # <<>> /\ inbox' = Tail(inbox)
      /\ outbox \in Seq(Outgoing) /\ sending' \in Seq(Outgoing)
      /\ Out = outbox /\ Out' = outbox \o sending'
      /\ pending' = pending /\ Fulfils(m)
  BY ServeAsExpected DEF clientVars
<1>2. Ids(Out') = Ids(outbox) \o Id(m)
  <2>1. Ids(outbox \o sending') = Ids(outbox) \o Ids(sending')
    BY <1>1, IdsNat, IdsConcat
  <2> QED BY <1>1, <2>1 DEF Fulfils
<1>3. Ids(inbox) = Id(m) \o Ids(Tail(inbox))
  BY <1>1, IdsNat, IdsHeadTail
<1>4. /\ Ids(outbox) \in Seq(Nat) /\ Ids(Tail(inbox)) \in Seq(Nat) /\ Id(m) \in Seq(Nat)
  <2>1. Tail(inbox) \in Seq(Incoming) /\ m \in Incoming
    BY <1>1
  <2>2. Ids(outbox) \in Seq(Nat)
    BY <1>1, IdsNat, IdsAreFlattened
  <2>3. Ids(Tail(inbox)) \in Seq(Nat)
    BY <2>1, IdsNat, IdsAreFlattened
  <2> QED BY <2>1, <2>2, <2>3, IdsNat DEF Id
<1>5. (Ids(outbox) \o Id(m)) \o Ids(Tail(inbox)) = Ids(outbox) \o (Id(m) \o Ids(Tail(inbox)))
  BY <1>4, NumbersAssociate
<1>6. Ids(Out) \o Ids(inbox) = [i \in DOMAIN pending |-> pending[i].id]
  BY DEF ClientsTruth, AnsweredInOrder, Out
<1>7. Ids(Out') \o Ids(inbox') = [i \in DOMAIN pending' |-> pending'[i].id]
  BY <1>1, <1>2, <1>3, <1>5, <1>6
<1> QED BY <1>7 DEF AnsweredInOrder, Out

LEMMA ServeKeepsAnswers ==
  ASSUME IInv, ClientsTruth, Serve
  PROVE  AnswersShowWhatWasAsked'
<1> DEFINE m == Head(inbox)
<1>1. /\ inbox \in Seq(Incoming) /\ inbox # <<>> /\ inbox' = Tail(inbox)
      /\ outbox \in Seq(Outgoing) /\ sending' \in Seq(Outgoing)
      /\ Out = outbox /\ Out' = outbox \o sending'
      /\ pending' = pending /\ Fulfils(m)
  BY ServeAsExpected DEF clientVars
<1> SUFFICES ASSUME NEW i \in DOMAIN Out', NEW k \in DOMAIN pending,
                    Out'[i].id = pending[k].id, pending[k].kind \in Feature
             PROVE  LET r == Out'[i]
                        p == pending[k]
                    IN  /\ r.code = "ok" => p.phase = "Initialized"
                        /\ (r.code = "ok" /\ p.kind # "formatting") => r.seen = p.seen
                        /\ r.code = "InvalidParams" <=>
                             (p.phase = "Initialized" /\ ~p.valid)
  BY <1>1, SMTT(30) DEF AnswersShowWhatWasAsked, Out, Range
<1>2. CASE i \in DOMAIN outbox /\ Out'[i] = outbox[i]
  <2>1. Out'[i] \in Range(outbox \o sending) /\ pending[k] \in Range(pending)
    BY <1>1, <1>2 DEF Range, Out
  <2> QED BY <2>1 DEF ClientsTruth, AnswersShowWhatWasAsked
<1>3. CASE \E j \in DOMAIN sending' : Out'[i] = sending'[j]
  <2>1. PICK j \in DOMAIN sending' : Out'[i] = sending'[j]
    BY <1>3
  <2>2. pending[k].id # 0
    <3>1. pending \in Seq(Asked)
      BY DEF ClientsTruth, IdsInv, PendingInv
    <3>2. pending[k] \in Asked
      BY <3>1
    <3> QED BY <3>2 DEF Asked
  <2>3. m = inbox[1] /\ 1 \in 1..Len(inbox)
    BY <1>1, TailElements
  <2>4. pending[k].id = inbox[1].id
    BY <1>1, <2>1, <2>2, <2>3 DEF Fulfils
  <2>5. PICK vs, ps : Follows(vs, ps) /\ AskedIn(vs, ps)
    BY DEF ClientsTruth, HistoryInv
  <2>6. /\ pending[k].kind = m.kind /\ pending[k].phase = lifecycle
        /\ pending[k].valid = m.valid
        /\ pending[k].seen = IF m.valid THEN ExpectedFrom(ViewOf(host), m.uri) ELSE None
    BY <2>3, <2>4, <2>5 DEF Follows, AskedIn
  <2>7. AnswerFits(m, sending'[j])
    BY <1>1, <2>6 DEF Fulfils
  <2> QED BY <2>1, <2>6, <2>7 DEF AnswerFits
<1> QED BY <1>1, <1>2, <1>3, ConcatElements

LEMMA ServeKeepsHistory ==
  ASSUME IInv, ClientsTruth, Serve
  PROVE  HistoryInv'
<1> DEFINE m == Head(inbox)
<1>1. /\ inbox \in Seq(Incoming) /\ inbox # <<>> /\ inbox' = Tail(inbox)
      /\ pending' = pending /\ view' = view /\ phase' = phase /\ Fulfils(m)
  BY ServeAsExpected DEF clientVars
<1>2. PICK vs \in Seq(Views), ps \in Seq(Lifecycle) :
        /\ Len(vs) = Len(inbox) + 1 /\ Len(ps) = Len(inbox) + 1
        /\ Follows(vs, ps) /\ AskedIn(vs, ps)
  BY DEF ClientsTruth, HistoryInv
<1>3. PICK ws, qs : ws = Tail(vs) /\ qs = Tail(ps)
  OBVIOUS
<1>4. /\ Len(inbox) \in Nat \ {0} /\ Len(inbox') = Len(inbox) - 1 /\ m = inbox[1]
      /\ \A i \in 1..Len(inbox') : inbox'[i] = inbox[i + 1] /\ i + 1 \in 1..Len(inbox)
  BY <1>1, TailElements
<1>5. /\ ws \in Seq(Views) /\ qs \in Seq(Lifecycle)
      /\ Len(ws) = Len(inbox) /\ Len(qs) = Len(inbox)
      /\ \A i \in 1..Len(inbox) : ws[i] = vs[i + 1] /\ qs[i] = ps[i + 1]
  BY <1>2, <1>3, <1>4
<1>6. Follows(ws, qs)'
  <2>1. ws[1] = ViewOf(host') /\ qs[1] = lifecycle'
    <3>1. 1 \in 1..Len(inbox)
      BY <1>4
    <3>2. /\ vs[1 + 1] = ViewAfter(m, ViewOf(host), lifecycle)
          /\ ps[1 + 1] = PhaseAfter(m, lifecycle)
      BY <1>2, <1>4, <3>1 DEF Follows
    <3> QED BY <1>1, <1>5, <3>1, <3>2 DEF Fulfils
  <2>2. ASSUME NEW i \in 1..Len(inbox')
        PROVE  /\ ws[i + 1] = ViewAfter(inbox'[i], ws[i], qs[i])
               /\ qs[i + 1] = PhaseAfter(inbox'[i], qs[i])
    <3>1. i \in 1..Len(inbox) /\ i + 1 \in 1..Len(inbox) /\ inbox'[i] = inbox[i + 1]
      BY <1>4
    <3>2. /\ vs[(i + 1) + 1] = ViewAfter(inbox[i + 1], vs[i + 1], ps[i + 1])
          /\ ps[(i + 1) + 1] = PhaseAfter(inbox[i + 1], ps[i + 1])
      BY <1>2, <3>1 DEF Follows
    <3> QED BY <1>5, <3>1, <3>2
  <2>3. view' = ws[Len(inbox') + 1] /\ phase' = qs[Len(inbox') + 1]
    <3>1. Len(inbox') + 1 = Len(inbox) /\ Len(inbox) \in 1..Len(inbox)
      BY <1>4
    <3> QED BY <1>1, <1>2, <1>5, <3>1 DEF Follows
  <2> QED BY <2>1, <2>2, <2>3 DEF Follows
<1>7. AskedIn(ws, qs)'
  <2> SUFFICES ASSUME NEW i \in 1..Len(inbox'), NEW k \in DOMAIN pending,
                      pending[k].id = inbox'[i].id
               PROVE  /\ pending[k].kind = inbox'[i].kind /\ pending[k].phase = qs[i]
                      /\ pending[k].valid = inbox'[i].valid
                      /\ pending[k].seen = IF inbox'[i].valid
                                           THEN ExpectedFrom(ws[i], inbox'[i].uri)
                                           ELSE None
    BY <1>1, ZenonT(30) DEF AskedIn
  <2>1. i \in 1..Len(inbox) /\ i + 1 \in 1..Len(inbox) /\ inbox'[i] = inbox[i + 1]
    BY <1>4
  <2>2. ws[i] = vs[i + 1] /\ qs[i] = ps[i + 1]
    BY <1>5, <2>1
  <2> QED BY <1>2, <2>1, <2>2 DEF AskedIn
<1>8. Len(ws) = Len(inbox') + 1 /\ Len(qs) = Len(inbox') + 1
  BY <1>4, <1>5
<1> QED BY <1>5, <1>6, <1>7, <1>8 DEF HistoryInv

LEMMA ServeKeepsShown ==
  ASSUME IInv, ClientsTruth, Serve
  PROVE  ShownFollow'
<1> DEFINE m == Head(inbox)
<1>1. /\ outbox \in Seq(Outgoing) /\ sending' \in Seq(Outgoing)
      /\ Out = outbox /\ Out' = outbox \o sending'
      /\ shown' = shown /\ Fulfils(m)
  BY ServeAsExpected DEF clientVars
<1> SUFFICES ASSUME NEW u \in Uri
             PROVE  LatestIn(Out', u, shown[u]) = ExpectedFrom(ViewOf(host'), u)
  BY <1>1 DEF ShownFollow, Latest, Out
<1>2. LatestIn(outbox, u, shown[u]) = ExpectedFrom(ViewOf(host), u)
  BY <1>1 DEF ClientsTruth, ShownFollow, Latest, Out
<1> DEFINE before == LatestIn(outbox, u, shown[u])
<1>3. LatestIn(Out', u, shown[u]) = LatestIn(sending', u, before)
  BY <1>1, LatestConcat
<1>4. CASE \E k \in DOMAIN sending' : PublishedFor(sending'[k], u)
  <2>1. PICK n \in DOMAIN sending' :
          /\ PublishedFor(sending'[n], u)
          /\ \A i \in DOMAIN sending' : i > n => ~PublishedFor(sending'[i], u)
    BY <1>1, <1>4, LastPublished
  <2>2. LatestIn(sending', u, before) = sending'[n].seen
    <3> HIDE DEF before
    <3> QED BY <1>1, <2>1, LatestSome
  <2>3. sending'[n].seen = ExpectedFrom(ViewOf(host'), u)
    BY <1>1, <2>1 DEF Fulfils, TellsTheTruth, PublishedFor
  <2> QED BY <1>3, <2>2, <2>3
<1>5. CASE \A k \in DOMAIN sending' : ~PublishedFor(sending'[k], u)
  <2>1. LatestIn(sending', u, before) = before
    <3> HIDE DEF before
    <3> QED BY <1>5, LatestNone
  <2>2. ExpectedFrom(ViewOf(host'), u) = ExpectedFrom(ViewOf(host), u)
    BY <1>1, <1>5 DEF Fulfils, TellsWhatChanged
  <2> QED BY <1>2, <1>3, <2>1, <2>2
<1> QED BY <1>4, <1>5

-----------------------------------------------------------------------------
(* What is on its way is sent, and read                                     *)

(* Sending moves a message from one end to the other, and nothing else.     *)
LEMMA SendKeepsTruth ==
  ASSUME IInv, ClientsTruth, Send
  PROVE  ClientsTruth'
<1>1. /\ sending \in Seq(Outgoing) /\ sending # <<>> /\ outbox \in Seq(Outgoing)
      /\ outbox' = Append(outbox, Head(sending)) /\ sending' = Tail(sending)
  BY DEF Send, IInv, ServerInv, ChannelInv
<1>2. Out' = Out
  BY <1>1 DEF Out
<1>3. /\ UNCHANGED <<host, lifecycle, inbox, view, phase, pending, shown, sent>>
      /\ outbox' \o sending' = outbox \o sending
  BY <1>2 DEF Send, serverVars, clientVars, Out
<1>4. IdsInv'
  BY <1>2, <1>3 DEF ClientsTruth, IdsInv, PendingInv, InboxIds, OutIds
<1>5. HistoryInv'
  <2>1. PICK vs \in Seq(Views), ps \in Seq(Lifecycle) :
          /\ Len(vs) = Len(inbox) + 1 /\ Len(ps) = Len(inbox) + 1
          /\ Follows(vs, ps) /\ AskedIn(vs, ps)
    BY DEF ClientsTruth, HistoryInv
  <2>2. Follows(vs, ps)' /\ AskedIn(vs, ps)'
    BY <1>3, <2>1 DEF Follows, AskedIn
  <2> QED BY <1>3, <2>1, <2>2 DEF HistoryInv
<1>6. ShownFollow' /\ AnsweredInOrder' /\ AnswersShowWhatWasAsked'
  BY <1>3 DEF ClientsTruth, ShownFollow, Latest, AnsweredInOrder, AnswersShowWhatWasAsked
<1> QED BY <1>3, <1>4, <1>5, <1>6 DEF ClientsTruth

LEMMA ReceiveAsExpected ==
  ASSUME IInv, ClientsTruth, Receive
  PROVE  /\ Out \in Seq(Outgoing) /\ Out # <<>> /\ Out' = Tail(Out)
         /\ Head(Out) = Head(outbox)
         /\ UNCHANGED <<host, lifecycle, inbox, view, phase, sent>>
<1>1. /\ sending \in Seq(Outgoing) /\ outbox \in Seq(Outgoing) /\ outbox # <<>>
      /\ outbox' = Tail(outbox) /\ sending' = sending
      /\ UNCHANGED <<host, lifecycle, inbox, view, phase, sent>>
  BY DEF Receive, IInv, ServerInv, ChannelInv, serverVars
<1>2. /\ outbox \o sending \in Seq(Outgoing) /\ outbox \o sending # <<>>
      /\ Tail(outbox) \o sending = Tail(outbox \o sending)
      /\ Head(outbox \o sending) = Head(outbox)
  BY <1>1
<1> QED BY <1>1, <1>2 DEF Out

(* The first answer is that of the request which has waited longest.       *)
LEMMA ReceiveAnswersTheFirst ==
  ASSUME IInv, ClientsTruth, Receive
  PROVE  /\ Head(Out).id = 0 => pending' = pending
         /\ Head(Out).id # 0 => /\ pending # <<>> /\ pending' = Tail(pending)
                                /\ pending[1].id = Head(Out).id
         /\ Ids(Out) = Id(Head(Out)) \o Ids(Out')
<1> DEFINE r == Head(Out)
<1>1. /\ Out \in Seq(Outgoing) /\ Out # <<>> /\ Out' = Tail(Out) /\ r = Head(outbox)
  BY ReceiveAsExpected
<1>2. r \in Outgoing /\ r.id \in Nat
  BY <1>1, IdsNat
<1>3. /\ pending \in Seq(Asked)
      /\ \A i, j \in DOMAIN pending : i < j => pending[i].id < pending[j].id
  BY DEF ClientsTruth, IdsInv, PendingInv
<1>4. \A i \in DOMAIN pending : pending[i].id \in Nat \ {0}
  <2>1. \A i \in DOMAIN pending : pending[i] \in Asked
    BY <1>3
  <2> QED BY <2>1 DEF Asked
<1>5. \/ \E i \in DOMAIN pending : pending[i].id = r.id /\ pending' = RemoveAt(pending, i)
      \/ (\A p \in Range(pending) : p.id # r.id) /\ pending' = pending
  BY <1>1 DEF Receive
<1>6. Ids(Out) = Id(r) \o Ids(Tail(Out))
  BY <1>1, IdsNat, IdsHeadTail
<1>7. CASE r.id = 0
  BY <1>1, <1>4, <1>5, <1>6, <1>7
<1>8. CASE r.id # 0
  <2> DEFINE a == Ids(Tail(Out))
             b == Ids(inbox)
             p == [i \in DOMAIN pending |-> pending[i].id]
  <2>1. a \in Seq(Nat) /\ b \in Seq(Nat)
    <3>1. Tail(Out) \in Seq(Outgoing) /\ inbox \in Seq(Incoming)
      BY <1>1 DEF IInv, ChannelInv
    <3>2. a \in Seq(Nat)
      BY <3>1, IdsNat, IdsAreFlattened
    <3>3. b \in Seq(Nat)
      BY <3>1, IdsNat, IdsAreFlattened
    <3> QED BY <3>2, <3>3
  <2>2. (<<r.id>> \o a) \o b = p
    BY <1>1, <1>6, <1>8 DEF ClientsTruth, AnsweredInOrder, Out, Id
  <2> HIDE DEF a, b
  <2>3. ((<<r.id>> \o a) \o b)[1] = r.id /\ 1 \in DOMAIN ((<<r.id>> \o a) \o b)
    BY <1>2, <2>1
  <2>4. 1 \in DOMAIN pending /\ pending[1].id = r.id
    BY <2>2, <2>3
  <2>5. pending' = RemoveAt(pending, 1)
    <3>1. ASSUME NEW i \in DOMAIN pending, pending[i].id = r.id PROVE i = 1
      <4>1. i \in Nat \ {0} /\ (i # 1 => 1 < i)
        BY <1>3
      <4>2. pending[1].id \in Nat /\ pending[i].id \in Nat
        BY <1>4, <2>4
      <4> QED BY <1>3, <2>4, <3>1, <4>1, <4>2
    <3>2. ~\A x \in Range(pending) : x.id # r.id
      BY <2>4 DEF Range
    <3> QED BY <1>5, <3>1, <3>2
  <2>6. RemoveAt(pending, 1) = Tail(pending) /\ pending # <<>>
    BY <1>3, <2>4 DEF RemoveAt
  <2> QED BY <1>1, <1>6, <1>8, <2>4, <2>5, <2>6
<1> QED BY <1>7, <1>8

LEMMA ReceiveKeepsTruth ==
  ASSUME IInv, ClientsTruth, Receive
  PROVE  ClientsTruth'
<1> DEFINE r == Head(Out)
<1>1. /\ Out \in Seq(Outgoing) /\ Out # <<>> /\ Out' = Tail(Out) /\ r = Head(outbox)
      /\ UNCHANGED <<host, lifecycle, inbox, view, phase, sent>>
  BY ReceiveAsExpected
<1>2. /\ r.id = 0 => pending' = pending
      /\ r.id # 0 => pending # <<>> /\ pending' = Tail(pending)
      /\ Ids(Out) = Id(r) \o Ids(Out')
  BY ReceiveAnswersTheFirst
<1>3. /\ pending \in Seq(Asked) /\ IdsInv
      /\ \A i, j \in DOMAIN pending : i < j => pending[i].id < pending[j].id
  BY DEF ClientsTruth, IdsInv, PendingInv
(* What still waits was waiting before, in the same order. *)
<1>4. PICK d \in {0, 1} :
        /\ pending' \in Seq(Asked)
        /\ \A i \in DOMAIN pending' : i + d \in DOMAIN pending /\ pending'[i] = pending[i + d]
  <2>1. CASE r.id = 0
    BY <1>2, <1>3, <2>1
  <2>2. CASE r.id # 0
    <3>1. /\ Tail(pending) \in Seq(Asked)
          /\ \A i \in DOMAIN Tail(pending) :
               i + 1 \in DOMAIN pending /\ Tail(pending)[i] = pending[i + 1]
      BY <1>2, <1>3, <2>2, TailElements
    <3> QED BY <1>2, <2>2, <3>1
  <2> QED BY <2>1, <2>2
<1>5. /\ Tail(Out) \in Seq(Outgoing)
      /\ \A i \in DOMAIN Tail(Out) : i + 1 \in DOMAIN Out /\ Tail(Out)[i] = Out[i + 1]
  BY <1>1, TailElements
<1>6. IdsInv'
  <2>1. PendingInv'
    <3>1. \A i \in DOMAIN pending' : pending'[i].id <= sent
      BY <1>3, <1>4 DEF IdsInv, PendingInv
    <3>2. \A i, j \in DOMAIN pending' : i < j => pending'[i].id < pending'[j].id
      <4>1. \A i, j \in DOMAIN pending' : i < j => i + d < j + d
        BY <1>4
      <4> QED BY <1>3, <1>4, <4>1
    <3> QED BY <1>1, <1>4, <3>1, <3>2 DEF PendingInv
  <2>2. InboxIds'
    BY <1>1, <1>3 DEF IdsInv, InboxIds
  <2>3. OutIds'
    BY <1>1, <1>3, <1>5 DEF IdsInv, OutIds
  <2> QED BY <2>1, <2>2, <2>3 DEF IdsInv
<1>7. HistoryInv'
  <2>1. PICK vs \in Seq(Views), ps \in Seq(Lifecycle) :
          /\ Len(vs) = Len(inbox) + 1 /\ Len(ps) = Len(inbox) + 1
          /\ Follows(vs, ps) /\ AskedIn(vs, ps)
    BY DEF ClientsTruth, HistoryInv
  <2>2. Follows(vs, ps)'
    BY <1>1, <2>1 DEF Follows
  <2>3. AskedIn(vs, ps)'
    BY <1>1, <1>4, <2>1 DEF AskedIn
  <2> QED BY <1>1, <2>1, <2>2, <2>3 DEF HistoryInv
<1>8. ShownFollow'
  <2> SUFFICES ASSUME NEW u \in Uri
               PROVE  LatestIn(Out', u, shown'[u]) = ExpectedFrom(ViewOf(host), u)
    BY <1>1 DEF ShownFollow, Latest, Out
  <2>1. LatestIn(Out, u, shown[u]) = ExpectedFrom(ViewOf(host), u)
    BY DEF ClientsTruth, ShownFollow, Latest, Out
  <2>2. <<r>> \in Seq(Outgoing) /\ Out = <<r>> \o Tail(Out) /\ r \in Outgoing
    BY <1>1
  <2>3. LatestIn(<<r>> \o Tail(Out), u, shown[u]) =
          LatestIn(Tail(Out), u, LatestIn(<<r>>, u, shown[u]))
    <3> DEFINE one  == <<r>>
               rest == Tail(Out)
    <3>1. one \in Seq(Outgoing) /\ rest \in Seq(Outgoing)
      BY <1>5, <2>2
    <3> HIDE DEF r, one, rest
    <3>2. LatestIn(one \o rest, u, shown[u]) =
            LatestIn(rest, u, LatestIn(one, u, shown[u]))
      BY <3>1, LatestConcat
    <3> QED BY <3>2 DEF one, rest
  <2>4. LatestIn(<<r>>, u, shown[u]) = shown'[u]
    <3>1. shown' = IF r.code = "publish" THEN [shown EXCEPT ![r.uri] = r.seen] ELSE shown
      BY <1>1 DEF Receive
    <3>2. shown \in [Uri -> {None} \cup Analysis]
      BY DEF IInv, ClientInv
    <3>3. DOMAIN <<r>> = {1} /\ <<r>>[1] = r
      OBVIOUS
    <3> HIDE DEF r
    <3>4. CASE PublishedFor(r, u)
      <4>1. LatestIn(<<r>>, u, shown[u]) = r.seen
        <5>1. /\ 1 \in DOMAIN <<r>> /\ PublishedFor(<<r>>[1], u)
              /\ \A i \in DOMAIN <<r>> : i > 1 => ~PublishedFor(<<r>>[i], u)
          BY <3>3, <3>4
        <5>2. LatestIn(<<r>>, u, shown[u]) = <<r>>[1].seen
          BY <2>2, <5>1, LatestSome
        <5> QED BY <3>3, <5>2
      <4>2. shown'[u] = r.seen
        BY <3>1, <3>2, <3>4 DEF PublishedFor
      <4> QED BY <4>1, <4>2
    <3>5. CASE ~PublishedFor(r, u)
      <4>1. LatestIn(<<r>>, u, shown[u]) = shown[u]
        BY <3>3, <3>5, LatestNone
      <4>2. shown'[u] = shown[u]
        BY <3>1, <3>2, <3>5 DEF PublishedFor
      <4> QED BY <4>1, <4>2
    <3> QED BY <3>4, <3>5
  <2> QED BY <1>1, <2>1, <2>2, <2>3, <2>4
<1>9. AnsweredInOrder'
  <2> DEFINE a == Ids(Tail(Out))
             b == Ids(inbox)
             p == [i \in DOMAIN pending |-> pending[i].id]
  <2>1. a \in Seq(Nat) /\ b \in Seq(Nat)
    <3>1. inbox \in Seq(Incoming)
      BY DEF IInv, ChannelInv
    <3>2. a \in Seq(Nat)
      BY <1>5, IdsNat, IdsAreFlattened
    <3>3. b \in Seq(Nat)
      BY <3>1, IdsNat, IdsAreFlattened
    <3> QED BY <3>2, <3>3
  <2>2. (Id(r) \o a) \o b = p
    BY <1>1, <1>2 DEF ClientsTruth, AnsweredInOrder, Out
  <2>3. a \o b = [i \in DOMAIN pending' |-> pending'[i].id]
    <3>1. CASE r.id = 0
      <4>1. Id(r) \o a = a
        BY <2>1, <3>1 DEF Id
      <4> QED BY <1>2, <2>2, <3>1, <4>1
    <3>2. CASE r.id # 0
      <4>1. r.id \in Nat
        BY <1>1, IdsNat
      <4>2. (<<r.id>> \o a) \o b = p
        BY <2>2, <3>2 DEF Id
      <4> HIDE DEF a, b
      <4>3. /\ (<<r.id>> \o a) \o b \in Seq(Nat) /\ (<<r.id>> \o a) \o b # <<>>
            /\ Tail((<<r.id>> \o a) \o b) = a \o b
        BY <2>1, <4>1
      <4>4. p \in Seq(Nat) /\ p # <<>> /\ Tail(p) = a \o b
        BY <4>2, <4>3
      <4> DEFINE n == Len(pending)
      <4>5. /\ n \in Nat \ {0} /\ DOMAIN pending = 1..n /\ DOMAIN Tail(pending) = 1..(n - 1)
            /\ \A i \in 1..(n - 1) : Tail(pending)[i] = pending[i + 1] /\ i + 1 \in 1..n
        BY <1>2, <1>3, <3>2, TailElements
      <4>6. DOMAIN p = 1..n /\ Len(p) = n
        <5>1. DOMAIN p = DOMAIN pending
          OBVIOUS
        <5> HIDE DEF p, n
        <5>2. Len(p) \in Nat /\ DOMAIN p = 1..Len(p)
          BY <4>4
        <5>3. DOMAIN p = 1..n /\ n \in Nat
          BY <4>5, <5>1
        <5>4. Len(p) = n
          BY <5>2, <5>3, SameUpTo
        <5> QED BY <5>3, <5>4
      <4>7. /\ DOMAIN Tail(p) = 1..(n - 1) /\ Tail(p) \in Seq(Nat)
            /\ \A i \in 1..(n - 1) : Tail(p)[i] = p[i + 1]
        <5> HIDE DEF p, n
        <5> QED BY <4>4, <4>6, TailElements
      <4>8. Tail(p) = [i \in DOMAIN Tail(pending) |-> Tail(pending)[i].id]
        <5>1. \A i \in 1..(n - 1) : Tail(p)[i] = Tail(pending)[i].id
          BY <4>5, <4>7
        <5>2. Tail(p) = [i \in 1..(n - 1) |-> Tail(p)[i]]
          <6> DEFINE t == Tail(p)
          <6> HIDE DEF p, n, t
          <6>1. t \in Seq(Nat) /\ DOMAIN t = 1..(n - 1)
            BY <4>7 DEF t
          <6>2. t = [i \in 1..(n - 1) |-> t[i]]
            BY <6>1
          <6> QED BY <6>2 DEF t
        <5> QED BY <4>5, <5>1, <5>2
      <4> QED BY <1>2, <3>2, <4>4, <4>8
    <3> QED BY <3>1, <3>2
  <2> QED BY <1>1, <2>3 DEF AnsweredInOrder, Out
<1>10. AnswersShowWhatWasAsked'
  <2>1. Range(Out') \subseteq Range(Out)
    BY <1>1, <1>5 DEF Range
  <2>2. Range(pending') \subseteq Range(pending)
    BY <1>4 DEF Range
  <2> QED BY <2>1, <2>2 DEF ClientsTruth, AnswersShowWhatWasAsked, Out
<1> QED BY <1>1, <1>6, <1>7, <1>8, <1>9, <1>10 DEF ClientsTruth

-----------------------------------------------------------------------------
(* The client sends a message *)

LEMMA RequestType ==
  ASSUME IInv, NEW m \in Incoming, m.id # 0
  PROVE  Request(m) \in Asked
<1>1. m.id \in Nat \ {0} /\ m.kind \in Feature \cup Others /\ m.valid \in BOOLEAN
  BY DEF Incoming
<1>2. phase \in Lifecycle
  BY DEF IInv, ClientInv
<1>3. (IF m.valid THEN ExpectedFrom(view, m.uri) ELSE None) \in {None} \cup Analysis
  BY ExpectedType DEF IInv, ClientInv
<1> QED BY <1>1, <1>2, <1>3 DEF Request, Asked

(* A message of the client: what is new in the channels and in what waits.  *)
LEMMA PostAsExpected ==
  ASSUME IInv, ClientsTruth, NEW m \in Incoming, Posts(m)
  PROVE  /\ inbox \in Seq(Incoming) /\ inbox' = Append(inbox, m)
         /\ sent \in Nat /\ sent' = sent + 1
         /\ UNCHANGED <<host, lifecycle, sending, outbox, shown>> /\ Out' = Out
         /\ pending \in Seq(Asked) /\ pending' \in Seq(Asked)
         /\ \A k \in DOMAIN pending' :
              \/ /\ k \in DOMAIN pending /\ pending'[k] = pending[k]
                 /\ pending[k].id <= sent /\ pending[k].id # 0
              \/ /\ k = Len(pending) + 1 /\ m.id = sent + 1 /\ pending'[k] = Request(m)
<1>1. /\ inbox \in Seq(Incoming) /\ inbox' = Append(inbox, m)
      /\ sent \in Nat /\ sent' = sent + 1
      /\ UNCHANGED <<host, lifecycle, sending, outbox, shown>>
  BY LspServerAssumption DEF Posts, Post, IInv, ChannelInv, ClientInv, serverVars
<1>2. Out' = Out
  BY <1>1 DEF Out
<1>3. pending \in Seq(Asked) /\ \A k \in DOMAIN pending : pending[k].id <= sent
  BY DEF ClientsTruth, IdsInv, PendingInv
<1>4. \A k \in DOMAIN pending : pending[k].id # 0
  <2>1. \A k \in DOMAIN pending : pending[k] \in Asked
    BY <1>3
  <2> QED BY <2>1 DEF Asked
<1>5. CASE pending' = pending
  BY <1>1, <1>2, <1>3, <1>4, <1>5
<1>6. CASE m.id = sent + 1 /\ pending' = Append(pending, Request(m))
  <2>1. Request(m) \in Asked
    BY <1>1, <1>6, RequestType
  <2>2. /\ pending' \in Seq(Asked)
        /\ \A k \in DOMAIN pending' :
             \/ k \in DOMAIN pending /\ pending'[k] = pending[k]
             \/ k = Len(pending) + 1 /\ pending'[k] = Request(m)
    BY <1>3, <1>6, <2>1, AppendElements
  <2> QED BY <1>1, <1>2, <1>3, <1>4, <1>6, <2>2
<1> QED BY <1>5, <1>6 DEF Posts

LEMMA PostKeepsIds ==
  ASSUME IInv, ClientsTruth, NEW m \in Incoming, Posts(m)
  PROVE  IdsInv'
<1>1. /\ inbox \in Seq(Incoming) /\ inbox' = Append(inbox, m)
      /\ sent \in Nat /\ sent' = sent + 1 /\ Out' = Out
      /\ pending \in Seq(Asked) /\ pending' \in Seq(Asked)
      /\ \A k \in DOMAIN pending' :
           \/ k \in DOMAIN pending /\ pending'[k] = pending[k] /\ pending[k].id <= sent
           \/ /\ k = Len(pending) + 1 /\ m.id = sent + 1 /\ pending'[k] = Request(m)
  BY PostAsExpected
<1>2. IdsInv /\ Request(m).id = m.id /\ m.id \in {0, sent + 1}
      /\ (m.id = 0 <=> m.kind \in Notifications)
  BY <1>1 DEF ClientsTruth, Request, Posts
<1>3. /\ \A k \in DOMAIN pending : pending[k].id \in Nat /\ k \in 1..Len(pending)
      /\ Len(pending) \in Nat
  <2>1. \A k \in DOMAIN pending : pending[k] \in Asked /\ k \in 1..Len(pending)
    BY <1>1
  <2> QED BY <1>1, <2>1 DEF Asked
<1>4. PendingInv'
  <2>1. \A k \in DOMAIN pending' : pending'[k].id <= sent'
    BY <1>1, <1>2, <1>3
  <2>2. ASSUME NEW i \in DOMAIN pending', NEW j \in DOMAIN pending', i < j
        PROVE  pending'[i].id < pending'[j].id
    <3>1. i \in DOMAIN pending /\ pending'[i] = pending[i] /\ pending[i].id <= sent
      <4>1. j <= Len(pending) + 1
        BY <1>1, <1>3
      <4>2. i # Len(pending) + 1
        BY <1>1, <1>3, <2>2, <4>1
      <4> QED BY <1>1, <4>2
    <3>2. CASE j \in DOMAIN pending /\ pending'[j] = pending[j]
      BY <1>2, <2>2, <3>1, <3>2 DEF IdsInv, PendingInv
    <3>3. CASE m.id = sent + 1 /\ pending'[j] = Request(m)
      BY <1>1, <1>2, <1>3, <3>1, <3>3
    <3> QED BY <1>1, <3>2, <3>3
  <2> QED BY <1>1, <2>1, <2>2 DEF PendingInv
<1>5. InboxIds'
  <2> SUFFICES ASSUME NEW i \in DOMAIN inbox'
               PROVE  /\ inbox'[i].id <= sent'
                      /\ inbox'[i].id = 0 <=> inbox'[i].kind \in Notifications
    BY DEF InboxIds
  <2>1. CASE i \in DOMAIN inbox /\ inbox'[i] = inbox[i]
    <3>1. inbox[i].id \in Nat
      BY <1>1, <2>1, IdsNat
    <3> QED BY <1>1, <1>2, <2>1, <3>1 DEF IdsInv, InboxIds
  <2>2. CASE inbox'[i] = m
    BY <1>1, <1>2, <2>2
  <2> QED BY <1>1, <2>1, <2>2, AppendElements
<1>6. OutIds'
  <2>1. \A i \in DOMAIN Out : Out[i].id \in Nat
    <3>1. Out \in Seq(Outgoing)
      BY DEF Out, IInv, ServerInv, ChannelInv
    <3> QED BY <3>1, IdsNat
  <2> QED BY <1>1, <1>2, <2>1 DEF IdsInv, OutIds
<1> QED BY <1>4, <1>5, <1>6 DEF IdsInv

LEMMA PostKeepsOrder ==
  ASSUME IInv, ClientsTruth, NEW m \in Incoming, Posts(m)
  PROVE  AnsweredInOrder'
<1>1. /\ inbox \in Seq(Incoming) /\ inbox' = Append(inbox, m) /\ Out' = Out
      /\ pending \in Seq(Asked) /\ sent \in Nat
  BY PostAsExpected
<1>2. Ids(inbox') = Ids(inbox) \o Id(m)
  <2>1. Append(inbox, m) = inbox \o <<m>> /\ <<m>> \in Seq(Incoming)
    BY <1>1
  <2>2. Ids(inbox \o <<m>>) = Ids(inbox) \o Ids(<<m>>)
    BY <1>1, <2>1, IdsNat, IdsConcat
  <2>3. Ids(<<m>>) = Id(m)
    BY IdsNat, IdsSingle
  <2> QED BY <1>1, <2>1, <2>2, <2>3
<1> DEFINE a == Ids(Out)
           b == Ids(inbox)
           c == Id(m)
<1>3. a \in Seq(Nat) /\ b \in Seq(Nat) /\ c \in Seq(Nat)
  <2>1. Out \in Seq(Outgoing)
    BY DEF Out, IInv, ServerInv, ChannelInv
  <2>2. a \in Seq(Nat)
    BY <2>1, IdsNat, IdsAreFlattened
  <2>3. b \in Seq(Nat)
    BY <1>1, IdsNat, IdsAreFlattened
  <2> QED BY <2>2, <2>3, IdsNat DEF Id
<1>4. a \o b = [i \in DOMAIN pending |-> pending[i].id]
  BY DEF ClientsTruth, AnsweredInOrder, Out
<1>5. (a \o b) \o c = a \o (b \o c)
  BY <1>3, NumbersAssociate
<1>6. (a \o b) \o c = [i \in DOMAIN pending' |-> pending'[i].id]
  <2>1. CASE m.id = 0 /\ pending' = pending
    <3>1. c = <<>>
      BY <2>1 DEF Id
    <3>2. a \o b \in Seq(Nat)
      BY <1>3
    <3> HIDE DEF a, b, c
    <3>3. (a \o b) \o <<>> = a \o b
      BY <3>2
    <3> QED BY <1>4, <2>1, <3>1, <3>3
  <2>2. CASE m.id = sent + 1 /\ pending' = Append(pending, Request(m))
    <3>1. c = <<m.id>> /\ Request(m).id = m.id /\ m.id \in Nat
      BY <1>1, <2>2, IdsNat DEF Id, Request
    <3> DEFINE s == a \o b
               n == Len(pending)
               q == pending'
    <3>2. s \in Seq(Nat) /\ s = [i \in 1..n |-> pending[i].id] /\ n \in Nat
      <4>1. DOMAIN pending = 1..n /\ n \in Nat
        BY <1>1
      <4>2. s \in Seq(Nat)
        <5> HIDE DEF a, b
        <5> QED BY <1>3
      <4>3. s = [i \in 1..n |-> pending[i].id]
        BY <1>4, <4>1
      <4> QED BY <4>1, <4>2, <4>3
    <3>3. /\ DOMAIN q = 1..(n + 1) /\ q[n + 1].id = m.id
          /\ \A i \in 1..n : q[i] = pending[i]
      BY <1>1, <2>2, <3>1
    <3> HIDE DEF a, b, c, s, n, q
    <3>4. Len(s) = n
      <4>1. Len(s) \in Nat /\ 1..Len(s) = 1..n
        BY <3>2
      <4> QED BY <3>2, <4>1, SameUpTo
    <3>5. s \o <<m.id>> = [i \in 1..(n + 1) |-> IF i <= n THEN pending[i].id ELSE m.id]
      <4> DEFINE z == [i \in 1..(n + 1) |-> IF i <= n THEN pending[i].id ELSE m.id]
      <4>1. \A i \in 1..(n + 1) : z[i] \in Nat
        <5>1. \A i \in 1..n : pending[i].id = s[i] /\ s[i] \in Nat
          BY <3>2, <3>4
        <5>2. \A i \in 1..(n + 1) : i <= n => i \in 1..n
          BY <3>2
        <5> QED BY <3>1, <5>1, <5>2
      <4>2. z \in Seq(Nat) /\ Len(z) = n + 1
        <5>1. z \in [1..(n + 1) -> Nat] /\ n + 1 \in Nat
          BY <3>2, <4>1
        <5>2. DOMAIN z = 1..(n + 1)
          OBVIOUS
        <5> HIDE DEF z
        <5>3. z \in Seq(Nat)
          BY <5>1
        <5>4. Len(z) \in Nat /\ 1..Len(z) = 1..(n + 1)
          BY <5>2, <5>3
        <5> QED BY <5>1, <5>3, <5>4, SameUpTo
      <4>3. <<m.id>> \in Seq(Nat) /\ Len(<<m.id>>) = 1 /\ <<m.id>>[1] = m.id
        BY <3>1
      <4>4. \A i \in 1..(n + 1) : i <= n => z[i] = s[i]
        BY <3>2
      <4>5. \A i \in 1..(n + 1) : ~(i <= n) => z[i] = <<m.id>>[i - n]
        <5>1. \A i \in 1..(n + 1) : ~(i <= n) => i - n = 1 /\ z[i] = m.id
          BY <3>2
        <5> QED BY <4>3, <5>1
      <4> HIDE DEF z
      <4> DEFINE t == <<m.id>>
      <4> HIDE DEF t
      <4>6. /\ s \in Seq(Nat) /\ t \in Seq(Nat) /\ z \in Seq(Nat)
            /\ Len(z) = Len(s) + Len(t)
            /\ \A i \in 1..Len(z) : z[i] = IF i <= Len(s) THEN s[i] ELSE t[i - Len(s)]
        BY <3>2, <3>4, <4>2, <4>3, <4>4, <4>5 DEF t
      <4>7. z = s \o t
        BY <4>6, ConcatIs
      <4> QED BY <4>7 DEF z, t
    <3>6. [i \in DOMAIN q |-> q[i].id] =
            [i \in 1..(n + 1) |-> IF i <= n THEN pending[i].id ELSE m.id]
      <4>1. \A i \in 1..(n + 1) : i \in 1..n \/ (i = n + 1 /\ ~(i <= n))
        BY <3>2
      <4>2. \A i \in 1..n : i <= n
        BY <3>2
      <4>3. \A i \in 1..(n + 1) : q[i].id = IF i <= n THEN pending[i].id ELSE m.id
        BY <3>3, <4>1, <4>2
      <4> QED BY <3>3, <4>3
    <3> QED BY <3>1, <3>5, <3>6 DEF s, q
  <2> QED BY <2>1, <2>2 DEF Posts
<1>7. Ids(Out') \o Ids(inbox') = [i \in DOMAIN pending' |-> pending'[i].id]
  BY <1>1, <1>2, <1>5, <1>6
<1> QED BY <1>7 DEF AnsweredInOrder, Out

LEMMA PostKeepsHistory ==
  ASSUME IInv, ClientsTruth, NEW m \in Incoming, Posts(m)
  PROVE  HistoryInv'
<1>1. /\ inbox \in Seq(Incoming) /\ inbox' = Append(inbox, m)
      /\ sent \in Nat /\ host' = host /\ lifecycle' = lifecycle
      /\ \A k \in DOMAIN pending' :
           \/ /\ k \in DOMAIN pending /\ pending'[k] = pending[k]
              /\ pending[k].id <= sent /\ pending[k].id # 0
           \/ /\ k = Len(pending) + 1 /\ m.id = sent + 1 /\ pending'[k] = Request(m)
  BY PostAsExpected
<1>2. PICK vs \in Seq(Views), ps \in Seq(Lifecycle) :
        /\ Len(vs) = Len(inbox) + 1 /\ Len(ps) = Len(inbox) + 1
        /\ Follows(vs, ps) /\ AskedIn(vs, ps)
  BY DEF ClientsTruth, HistoryInv
<1>3. phase \in Lifecycle /\ view' = ViewAfter(m, view, phase)
      /\ phase' = PhaseAfter(m, phase) /\ m.id \in {0, sent + 1}
  BY DEF IInv, ClientInv, Posts
<1>4. view' \in Views /\ phase' \in Lifecycle
  BY <1>3, ViewAfterType DEF IInv, ClientInv
<1>5. PICK n : n = Len(inbox)
  OBVIOUS
<1>6. PICK w, p : w = view' /\ p = phase'
  OBVIOUS
<1>7. PICK ws, qs : ws = Append(vs, w) /\ qs = Append(ps, p)
  OBVIOUS
<1>8. /\ n \in Nat /\ Len(inbox') = n + 1 /\ inbox'[n + 1] = m
      /\ \A i \in 1..n : inbox'[i] = inbox[i]
      /\ \A i \in 1..(n + 1) : i \in 1..n \/ i = n + 1
  BY <1>1, <1>5, AppendElements
<1>9. /\ ws \in Seq(Views) /\ qs \in Seq(Lifecycle)
      /\ Len(ws) = (n + 1) + 1 /\ Len(qs) = (n + 1) + 1
      /\ ws[(n + 1) + 1] = w /\ qs[(n + 1) + 1] = p
      /\ \A i \in 1..(n + 1) : ws[i] = vs[i] /\ qs[i] = ps[i]
  BY <1>2, <1>4, <1>5, <1>6, <1>7, <1>8, AppendElements
<1>10. /\ 1 \in 1..(n + 1) /\ n + 1 \in 1..(n + 1)
       /\ \A i \in 1..n : i \in 1..(n + 1) /\ i + 1 \in 1..(n + 1)
  BY <1>8
<1>11. ws[n + 1] = view /\ qs[n + 1] = phase
  BY <1>2, <1>5, <1>9, <1>10 DEF Follows
<1>12. Follows(ws, qs)'
  <2>1. ws[1] = ViewOf(host') /\ qs[1] = lifecycle'
    BY <1>1, <1>2, <1>9, <1>10 DEF Follows
  <2>2. \A i \in 1..n : /\ ws[i + 1] = ViewAfter(inbox'[i], ws[i], qs[i])
                        /\ qs[i + 1] = PhaseAfter(inbox'[i], qs[i])
    BY <1>2, <1>5, <1>8, <1>9, <1>10 DEF Follows
  <2>3. /\ ws[(n + 1) + 1] = ViewAfter(inbox'[n + 1], ws[n + 1], qs[n + 1])
        /\ qs[(n + 1) + 1] = PhaseAfter(inbox'[n + 1], qs[n + 1])
    BY <1>3, <1>6, <1>8, <1>9, <1>11
  <2>4. view' = ws[Len(inbox') + 1] /\ phase' = qs[Len(inbox') + 1]
    BY <1>6, <1>8, <1>9
  <2> QED BY <1>8, <2>1, <2>2, <2>3, <2>4 DEF Follows
<1>13. AskedIn(ws, qs)'
  <2> SUFFICES ASSUME NEW i \in 1..(n + 1), NEW k \in DOMAIN pending',
                      pending'[k].id = inbox'[i].id
               PROVE  /\ pending'[k].kind = inbox'[i].kind /\ pending'[k].phase = qs[i]
                      /\ pending'[k].valid = inbox'[i].valid
                      /\ pending'[k].seen = IF inbox'[i].valid
                                            THEN ExpectedFrom(ws[i], inbox'[i].uri)
                                            ELSE None
    BY <1>8 DEF AskedIn
  <2>1. CASE i \in 1..n /\ k \in DOMAIN pending /\ pending'[k] = pending[k]
    BY <1>2, <1>5, <1>8, <1>9, <1>10, <2>1 DEF AskedIn
  <2>2. CASE i = n + 1 /\ pending'[k] = Request(m)
    BY <1>8, <1>11, <2>2 DEF Request
  <2>3. i \in 1..n => inbox'[i].id <= sent
    <3> SUFFICES ASSUME i \in 1..n PROVE inbox'[i].id <= sent
      OBVIOUS
    <3>1. i \in DOMAIN inbox /\ inbox'[i] = inbox[i]
      BY <1>1, <1>5, <1>8
    <3> QED BY <3>1 DEF ClientsTruth, IdsInv, InboxIds
  <2>4. Request(m).id = m.id
    BY DEF Request
  <2>5. ~(sent + 1 <= sent)
    BY <1>1
  <2>6. \/ i \in 1..n /\ k \in DOMAIN pending /\ pending'[k] = pending[k]
        \/ i = n + 1 /\ pending'[k] = Request(m)
    <3>1. CASE i \in 1..n
      BY <1>1, <2>3, <2>4, <2>5, <3>1
    <3>2. CASE i = n + 1
      BY <1>1, <1>3, <1>8, <2>5, <3>2
    <3> QED BY <1>8, <3>1, <3>2
  <2> QED BY <2>1, <2>2, <2>6
<1>14. Len(ws) = Len(inbox') + 1 /\ Len(qs) = Len(inbox') + 1
  BY <1>8, <1>9
<1> QED BY <1>9, <1>12, <1>13, <1>14 DEF HistoryInv

LEMMA PostKeepsTruth ==
  ASSUME IInv, ClientsTruth, NEW m \in Incoming, Posts(m)
  PROVE  ClientsTruth'
<1>1. /\ sent \in Nat /\ Out' = Out
      /\ UNCHANGED <<host, lifecycle, sending, outbox, shown>>
      /\ \A k \in DOMAIN pending' :
           \/ k \in DOMAIN pending /\ pending'[k] = pending[k]
           \/ m.id = sent + 1 /\ pending'[k] = Request(m)
  BY PostAsExpected
<1>2. IdsInv' /\ HistoryInv' /\ AnsweredInOrder'
  BY PostKeepsIds, PostKeepsHistory, PostKeepsOrder
<1>3. DefsCurrent(host') /\ ShownFollow'
  BY <1>1 DEF ClientsTruth, ShownFollow, Latest
<1>4. AnswersShowWhatWasAsked'
  <2> SUFFICES ASSUME NEW i \in DOMAIN Out, NEW k \in DOMAIN pending',
                      Out[i].id = pending'[k].id, pending'[k].kind \in Feature
               PROVE  LET r == Out[i]
                          p == pending'[k]
                      IN  /\ r.code = "ok" => p.phase = "Initialized"
                          /\ (r.code = "ok" /\ p.kind # "formatting") => r.seen = p.seen
                          /\ r.code = "InvalidParams" <=>
                               (p.phase = "Initialized" /\ ~p.valid)
    BY <1>1 DEF AnswersShowWhatWasAsked, Out, Range
  <2>1. Out[i].id <= sent
    BY DEF ClientsTruth, IdsInv, OutIds
  <2>2. k \in DOMAIN pending /\ pending'[k] = pending[k]
    <3>1. Request(m).id = m.id /\ ~(sent + 1 <= sent)
      BY <1>1 DEF Request
    <3> QED BY <1>1, <2>1, <3>1
  <2>3. Out[i] \in Range(outbox \o sending) /\ pending'[k] \in Range(pending)
    BY <2>2 DEF Range, Out
  <2> QED BY <2>3 DEF ClientsTruth, AnswersShowWhatWasAsked
<1> QED BY <1>2, <1>3, <1>4 DEF ClientsTruth

-----------------------------------------------------------------------------
(* From the first message on *)

LEMMA InitTruth == Init => ClientsTruth
<1> SUFFICES ASSUME Init PROVE ClientsTruth
  OBVIOUS
<1>1. PICK p \in Projects : host = Started(p)
  BY DEF Init
<1>2. /\ sending = <<>> /\ inbox = <<>> /\ outbox = <<>> /\ pending = <<>>
      /\ view = ViewOf(host) /\ phase = lifecycle /\ lifecycle \in Lifecycle
      /\ shown = [u \in Uri |-> None]
  BY DEF Init, Lifecycle
<1>3. /\ DefsCurrent(host) /\ ViewOf(host) \in Views
      /\ \A u \in Uri : ExpectedFrom(ViewOf(host), u) = None
  BY <1>1, StartedOK, StartedFollows, ViewOfType
<1>4. Out = <<>> /\ outbox \o sending = <<>>
  BY <1>2 DEF Out
<1>5. IdsInv
  BY <1>2, <1>4 DEF IdsInv, PendingInv, InboxIds, OutIds
<1>6. HistoryInv
  <2>1. PICK vs, ps : vs = <<view>> /\ ps = <<phase>>
    OBVIOUS
  <2>2. /\ vs \in Seq(Views) /\ ps \in Seq(Lifecycle) /\ Len(vs) = 1 /\ Len(ps) = 1
        /\ vs[1] = view /\ ps[1] = phase
    BY <1>2, <1>3, <2>1
  <2>3. Len(inbox) = 0 /\ 1..Len(inbox) = {}
    BY <1>2
  <2>4. Follows(vs, ps) /\ AskedIn(vs, ps)
    BY <1>2, <2>2, <2>3 DEF Follows, AskedIn
  <2> QED BY <2>2, <2>3, <2>4 DEF HistoryInv
<1>7. ShownFollow
  <2>1. \A u \in Uri : LatestIn(<<>>, u, shown[u]) = shown[u]
    BY LatestNone
  <2> QED BY <1>2, <1>3, <1>4, <2>1 DEF ShownFollow, Latest
<1>8. AnsweredInOrder
  <2>1. Ids(<<>>) = <<>>
    <3>1. <<>> \in Seq({}) /\ DOMAIN <<>> = {}
      OBVIOUS
    <3> QED BY <3>1, IdsNone
  <2>2. <<>> \o <<>> = <<>> /\ [i \in DOMAIN pending |-> pending[i].id] = <<>>
    BY <1>2
  <2> QED BY <1>2, <1>4, <2>1, <2>2 DEF AnsweredInOrder
<1>9. AnswersShowWhatWasAsked
  BY <1>2, <1>4 DEF AnswersShowWhatWasAsked, Range
<1> QED BY <1>3, <1>5, <1>6, <1>7, <1>8, <1>9 DEF ClientsTruth

LEMMA NextKeepsTruth == IInv /\ ClientsTruth /\ [Next]_vars => ClientsTruth'
<1> SUFFICES ASSUME IInv, ClientsTruth, [Next]_vars PROVE ClientsTruth'
  OBVIOUS
<1>1. CASE Serve
  <2>1. DefsCurrent(host')
    BY <1>1, ServeAsExpected DEF Fulfils
  <2> QED BY <1>1, <2>1, ServeKeepsIds, ServeKeepsHistory, ServeKeepsShown,
             ServeKeepsOrder, ServeKeepsAnswers DEF ClientsTruth
<1>2. CASE Send
  BY <1>2, SendKeepsTruth
<1>3. CASE Client
  BY <1>3, ClientPosts, PostKeepsTruth, ReceiveKeepsTruth DEF Client
<1>4. CASE Rest \/ UNCHANGED vars
  <2>1. UNCHANGED <<host, lifecycle, sending, inbox, outbox, view, phase, pending,
                    shown, sent>>
    BY <1>4 DEF Rest, vars, serverVars, clientVars
  <2>2. IdsInv'
    BY <2>1 DEF ClientsTruth, IdsInv, PendingInv, InboxIds, OutIds, Out
  <2>3. HistoryInv'
    <3>1. PICK vs \in Seq(Views), ps \in Seq(Lifecycle) :
            /\ Len(vs) = Len(inbox) + 1 /\ Len(ps) = Len(inbox) + 1
            /\ Follows(vs, ps) /\ AskedIn(vs, ps)
      BY DEF ClientsTruth, HistoryInv
    <3>2. Follows(vs, ps)' /\ AskedIn(vs, ps)'
      BY <2>1, <3>1 DEF Follows, AskedIn
    <3> QED BY <2>1, <3>1, <3>2 DEF HistoryInv
  <2>4. ShownFollow' /\ AnsweredInOrder' /\ AnswersShowWhatWasAsked'
    BY <2>1 DEF ClientsTruth, ShownFollow, Latest, AnsweredInOrder,
                AnswersShowWhatWasAsked
  <2> QED BY <2>1, <2>2, <2>3, <2>4 DEF ClientsTruth
<1> QED BY <1>1, <1>2, <1>3, <1>4 DEF Next

LEMMA TruthInvariance == Spec => []ClientsTruth
BY InitHolds, NextKeeps, InitTruth, NextKeepsTruth, PTL DEF Spec

-----------------------------------------------------------------------------
(* The theorems *)

(* The server and its channels keep their types, and what is published is   *)
(* an analysis, for every client, project and bound.                       *)
THEOREM ServerTypeCorrect == Spec => []TypeOK
<1>1. IInv => TypeOK
  <2> SUFFICES ASSUME IInv PROVE TypeOK
    OBVIOUS
  <2>1. \A r \in Range(outbox \o sending) : r \in Outgoing
    BY DEF IInv, ServerInv, ChannelInv, Range
  <2> QED BY <2>1 DEF TypeOK, IInv, ServerInv, ChannelInv, ClientInv, Lifecycle, Outgoing
<1> QED BY <1>1, Invariance, PTL

(* Diagnostics are published only within a session, although a session     *)
(* context is accepted, and published for, before it.                      *)
THEOREM PublishesOnlyInSession == Spec => []PublishedInSession
<1>1. IInv => PublishedInSession
  BY DEF IInv, ServerInv, SendsInSession, PublishedInSession, Range
<1> QED BY <1>1, Invariance, PTL

(* After shutdown no message of any client changes the host or reopens the  *)
(* session.                                                                *)
THEOREM StaysShutDown == Spec => ShutDownIsFinal
<1>1. [Next]_vars => [lifecycle = "ShutDown" => UNCHANGED <<host, lifecycle>>]_vars
  <2> SUFFICES ASSUME [Next]_vars, lifecycle = "ShutDown"
               PROVE  UNCHANGED <<host, lifecycle>>
    OBVIOUS
  <2>1. CASE Serve
    <3>1. Handle(Head(inbox))
      BY <2>1 DEF Serve
    <3> QED BY <3>1 DEF Handle, HandleInitialize, HandleShutdown, HandleRefused,
              HandleSetSessionContext, AcceptsContext, HandleFeature, HandleUnknown,
              HandleMalformed, HandleExit, HandleDropped, HandleDidOpen,
              HandleDidChange, HandleDidClose, Drops, Reject, serverVars
  <2>2. CASE Send \/ Client \/ Rest \/ UNCHANGED vars
    BY <2>2 DEF Send, Client, ClientInitialize, ClientShutdown, ClientSetContext,
              ClientQuery, ClientOpen, ClientChange, ClientClose, ClientOther,
              Receive, Rest, Ask, Tell, Post, vars, serverVars
  <2> QED BY <2>1, <2>2 DEF Next
<1> QED BY <1>1, PTL DEF Spec, ShutDownIsFinal

(* Every request is answered exactly once, and the answers come in the      *)
(* order of the requests, whatever the client sends while it waits.        *)
THEOREM AnswersEveryRequestOnce == Spec => []AnsweredInOrder
<1>1. ClientsTruth => AnsweredInOrder
  BY DEF ClientsTruth
<1> QED BY <1>1, TruthInvariance, PTL

(* An answer to a query shows the documents and the context as they were   *)
(* when it was asked, however far the client has gone on, and is refused   *)
(* exactly outside a session or for parameters that cannot be read.        *)
THEOREM AnswersAreOfTheirTime == Spec => []AnswersShowWhatWasAsked
<1>1. ClientsTruth => AnswersShowWhatWasAsked
  BY DEF ClientsTruth
<1> QED BY <1>1, TruthInvariance, PTL

(* When the server has read everything, the last diagnostics it sent for   *)
(* each document are those of its current text and context.                *)
THEOREM LastDiagnosticsAreCurrent == Spec => []DiagnosticsFollow
<1>1. ClientsTruth => DiagnosticsFollow
  <2> SUFFICES ASSUME ClientsTruth, inbox = <<>>, NEW u \in Uri
               PROVE  Latest(u) = Expected(u)
    BY DEF DiagnosticsFollow
  <2>1. PICK vs, ps : Follows(vs, ps)
    BY DEF ClientsTruth, HistoryInv
  <2>2. Len(inbox) + 1 = 1
    OBVIOUS
  <2>3. view = ViewOf(host)
    BY <2>1, <2>2 DEF Follows
  <2>4. Latest(u) = ExpectedFrom(ViewOf(host), u)
    BY DEF ClientsTruth, ShownFollow
  <2> QED BY <2>3, <2>4 DEF Expected, ExpectedFrom
<1> QED BY <1>1, TruthInvariance, PTL
=============================================================================
