---------------------------- MODULE LspHostProofs ----------------------------
(***************************************************************************)
(* Proofs about LspHost: its caches are fresh after every sequence of      *)
(* calls, and it implements the service that caches nothing.               *)
(***************************************************************************)
EXTENDS LspHost, TLAPS

-----------------------------------------------------------------------------
(* The data *)

LEMMA ConfigForType ==
  ASSUME NEW h \in HostType, NEW u \in Uri
  PROVE  /\ SlotOf(h, u) \in Slots
         /\ ConfigFor(h, u) \in Config
         /\ SchemaFor(h, SlotOf(h, u)) \in Base
<1>1. SlotOf(h, u) \in Slots
  <2>1. CASE h.map = None
    BY <2>1 DEF SlotOf, Slots
  <2>2. CASE h.map # None
    <3>1. h.map \in [Uri -> {None} \cup Entry]
      BY <2>2, LspDataAssumption DEF HostType
    <3> QED BY <3>1 DEF SlotOf, Slots
  <2> QED BY <2>1, <2>2
<1>2. ConfigFor(h, u) \in Config
  BY DEF HostType, ConfigFor, Strict, Config
<1>3. SchemaFor(h, SlotOf(h, u)) \in Base
  <2>1. CASE SlotOf(h, u) = "user"
    BY <2>1 DEF SchemaFor, HostType
  <2>2. CASE SlotOf(h, u) # "user"
    <3>1. SlotOf(h, u) \in Entry
      BY <1>1, <2>2 DEF Slots
    <3> QED BY <2>2, <3>1, LspDataAssumption DEF SchemaFor
  <2> QED BY <2>1, <2>2
<1> QED BY <1>1, <1>2, <1>3

LEMMA AnalysedType ==
  ASSUME NEW h \in HostType, NEW u \in Uri, h.docs[u] # None
  PROVE  /\ Analysed(h, u) \in Analysis
         /\ UpToDate(h, u, Analysed(h, u))
BY ConfigForType DEF Analysed, Analysis, HostType, UpToDate

(* A step keeps the caches fresh when it drops, or leaves untouched with    *)
(* everything they depend on, the caches of every document.                *)
LEMMA StillFresh ==
  ASSUME NEW h \in HostType, CachesFresh(h), NEW g \in HostType,
         \A u \in Uri :
           \/ g.analysis[u] = None /\ g.tokens[u] = None
           \/ /\ g.docs[u] = h.docs[u]
              /\ g.analysis[u] = h.analysis[u] /\ g.tokens[u] = h.tokens[u]
              /\ g.base = h.base /\ g.map = h.map /\ g.config = h.config
              /\ h.defs \subseteq g.defs
  PROVE  CachesFresh(g)
<1> SUFFICES ASSUME NEW u \in Uri, g.docs[u] = h.docs[u],
                    g.analysis[u] = h.analysis[u], g.tokens[u] = h.tokens[u],
                    g.base = h.base, g.map = h.map, g.config = h.config,
                    h.defs \subseteq g.defs,
                    g.analysis[u] # None
             PROVE  UpToDate(g, u, g.analysis[u])
  BY DEF CachesFresh
<1> DEFINE a == h.analysis[u]
<1>1. UpToDate(h, u, a)
  BY DEF CachesFresh
<1>2. [Analysed(g, u) EXCEPT !.defs = a.defs]
        = [Analysed(h, u) EXCEPT !.defs = a.defs]
  BY DEF Analysed, SchemaFor, SlotOf, ConfigFor
<1> QED BY <1>1, <1>2 DEF UpToDate

-----------------------------------------------------------------------------
(* Every operation of the host keeps the type and the freshness. *)

LEMMA OpenedOK ==
  ASSUME NEW h \in HostType, CachesFresh(h),
         NEW u \in Uri, NEW t \in Text, NEW l \in {None} \cup Lang
  PROVE  Opened(h, u, t, l) \in HostType /\ CachesFresh(Opened(h, u, t, l))
<1>1. Opened(h, u, t, l) \in HostType
  BY DEF HostType, Opened, Invalidated, Doc
<1>2. CachesFresh(Opened(h, u, t, l))
  BY <1>1, StillFresh DEF HostType, Opened, Invalidated, Doc
<1> QED BY <1>1, <1>2

LEMMA UpdatedOK ==
  ASSUME NEW h \in HostType, CachesFresh(h), NEW u \in Uri, NEW t \in Text
  PROVE  Updated(h, u, t) \in HostType /\ CachesFresh(Updated(h, u, t))
<1>1. CASE h.docs[u] = None
  BY <1>1, OpenedOK DEF Updated
<1>2. CASE h.docs[u] # None
  <2> DEFINE g == [Invalidated(h, u) EXCEPT !.docs[u].text = t]
  <2>1. h.docs[u] \in Doc
    BY <1>2 DEF HostType
  <2>2. g \in HostType
    BY <2>1 DEF HostType, Invalidated, Doc
  <2>3. CachesFresh(g)
    BY <2>2, StillFresh DEF HostType, Invalidated
  <2> QED BY <1>2, <2>2, <2>3 DEF Updated
<1> QED BY <1>1, <1>2

LEMMA ClosedOK ==
  ASSUME NEW h \in HostType, CachesFresh(h), NEW u \in Uri
  PROVE  Closed(h, u) \in HostType /\ CachesFresh(Closed(h, u))
<1>1. Closed(h, u) \in HostType
  BY DEF HostType, Closed, Invalidated
<1>2. CachesFresh(Closed(h, u))
  BY <1>1, StillFresh DEF HostType, Closed, Invalidated
<1> QED BY <1>1, <1>2

LEMMA ConfigOK ==
  ASSUME NEW h \in HostType, CachesFresh(h), NEW c \in Config
  PROVE  WithConfig(h, c) \in HostType /\ CachesFresh(WithConfig(h, c))
<1>1. WithConfig(h, c) \in HostType
  BY LspDataAssumption DEF HostType, WithConfig, InvalidatedAll, NoneCached, Config
<1>2. CachesFresh(WithConfig(h, c))
  BY <1>1, StillFresh DEF HostType, WithConfig, InvalidatedAll, NoneCached, Config
<1> QED BY <1>1, <1>2

LEMMA MapOK ==
  ASSUME NEW h \in HostType, CachesFresh(h), NEW m \in Maps
  PROVE  WithMap(h, m) \in HostType /\ CachesFresh(WithMap(h, m))
<1>1. WithMap(h, m) \in HostType
  BY DEF HostType, WithMap, InvalidatedAll, NoneCached
<1>2. CachesFresh(WithMap(h, m))
  BY <1>1, StillFresh DEF HostType, WithMap, InvalidatedAll, NoneCached
<1> QED BY <1>1, <1>2

LEMMA SchemaOK ==
  ASSUME NEW h \in HostType, CachesFresh(h), NEW b \in Base
  PROVE  WithSchema(h, b) \in HostType /\ CachesFresh(WithSchema(h, b))
<1>1. WithSchema(h, b) \in HostType
  BY DEF HostType, WithSchema, InvalidatedAll, NoneCached
<1>2. CachesFresh(WithSchema(h, b))
  BY <1>1, StillFresh DEF HostType, WithSchema, InvalidatedAll, NoneCached
<1> QED BY <1>1, <1>2

LEMMA DefinitionsOK ==
  ASSUME NEW h \in HostType, CachesFresh(h), NEW f \in Source
  PROVE  WithDefinitions(h, f) \in HostType /\ CachesFresh(WithDefinitions(h, f))
<1>1. WithDefinitions(h, f) \in HostType
  BY DEF HostType, WithDefinitions
<1>2. CachesFresh(WithDefinitions(h, f))
  BY <1>1, StillFresh DEF HostType, WithDefinitions
<1> QED BY <1>1, <1>2

LEMMA RanOK ==
  ASSUME NEW h \in HostType, CachesFresh(h),
         NEW u \in Uri, NEW slot \in Slots, h.docs[u] # None
  PROVE  Ran(h, u, slot) \in HostType /\ CachesFresh(Ran(h, u, slot))
<1>1. Ran(h, u, slot) \in HostType
  BY DEF HostType, Ran
<1>2. CachesFresh(Ran(h, u, slot))
  BY <1>1, StillFresh DEF HostType, Ran
<1> QED BY <1>1, <1>2

LEMMA EnsuredOK ==
  ASSUME NEW h \in HostType, CachesFresh(h), NEW u \in Uri
  PROVE  /\ Ensured(h, u) \in HostType /\ CachesFresh(Ensured(h, u))
         /\ h.docs[u] # None => Ensured(h, u).analysis[u] # None
<1> SUFFICES ASSUME h.docs[u] # None, h.analysis[u] = None
             PROVE  /\ Analyse(h, u) \in HostType /\ CachesFresh(Analyse(h, u))
                    /\ Analyse(h, u).analysis[u] # None
  BY DEF Ensured
<1> DEFINE r == Ran(h, u, SlotOf(h, u))
           g == [r EXCEPT !.analysis[u] = Analysed(h, u)]
<1>1. r \in HostType /\ CachesFresh(r)
  BY RanOK, ConfigForType
<1>2. Analysed(h, u) \in Analysis /\ UpToDate(h, u, Analysed(h, u))
  BY AnalysedType
<1>3. g \in HostType /\ g.analysis[u] = Analysed(h, u)
  BY <1>1, <1>2 DEF HostType
<1>4. /\ r.docs = h.docs /\ r.base = h.base /\ r.map = h.map
      /\ r.config = h.config /\ r.defs = h.defs
      /\ r.analysis = h.analysis /\ r.tokens = h.tokens
  BY DEF Ran, HostType
<1>5. /\ g.docs = h.docs /\ g.base = h.base /\ g.map = h.map
      /\ g.config = h.config /\ g.defs = h.defs /\ g.tokens = h.tokens
      /\ \A v \in Uri : v # u => g.analysis[v] = h.analysis[v]
  BY <1>1, <1>4 DEF HostType
<1>6. UpToDate(g, u, g.analysis[u])
  <2>1. Analysed(g, u) = Analysed(h, u)
    BY <1>5 DEF Analysed, SchemaFor, SlotOf, ConfigFor
  <2> QED BY <1>2, <1>3, <1>5, <2>1 DEF UpToDate
<1>7. h.tokens[u] = None
  BY <1>2, NoneIsNoAnalysis DEF CachesFresh, HostType
<1>8. \A v \in Uri : v # u /\ g.analysis[v] # None => UpToDate(g, v, g.analysis[v])
  <2> SUFFICES ASSUME NEW v \in Uri, v # u, g.analysis[v] # None
               PROVE  UpToDate(g, v, g.analysis[v])
    OBVIOUS
  <2>1. UpToDate(h, v, h.analysis[v]) /\ g.analysis[v] = h.analysis[v]
    BY <1>5 DEF CachesFresh
  <2>2. Analysed(g, v) = Analysed(h, v)
    BY <1>5 DEF Analysed, SchemaFor, SlotOf, ConfigFor
  <2> QED BY <1>5, <2>1, <2>2 DEF UpToDate
<1>9. CachesFresh(g)
  BY <1>5, <1>6, <1>7, <1>8 DEF CachesFresh
<1>10. g.analysis[u] # None
  BY <1>2, <1>3, NoneIsNoAnalysis
<1> QED BY <1>3, <1>9, <1>10 DEF Analyse

LEMMA EnsuredSame ==
  ASSUME NEW h \in HostType, NEW u \in Uri
  PROVE  /\ Ensured(h, u).docs = h.docs /\ Ensured(h, u).base = h.base
         /\ Ensured(h, u).map = h.map /\ Ensured(h, u).config = h.config
         /\ Ensured(h, u).defs = h.defs
BY DEF Ensured, Analyse, Ran, HostType

(* A second run over a document that is already analysed. *)
LEMMA RunAfterEnsured ==
  ASSUME NEW h \in HostType, CachesFresh(h), NEW u \in Uri,
         h.docs[u] # None, NEW slot \in Slots
  PROVE  /\ Ran(Ensured(h, u), u, slot) \in HostType
         /\ CachesFresh(Ran(Ensured(h, u), u, slot))
BY EnsuredOK, EnsuredSame, RanOK

LEMMA EnsuredAllOK ==
  ASSUME NEW h \in HostType, CachesFresh(h), NEW last \in Orders(h)
  PROVE  /\ EnsuredAll(h, last) \in HostType
         /\ CachesFresh(EnsuredAll(h, last))
         /\ \A u \in Open(h) : EnsuredAll(h, last).analysis[u] # None
<1> DEFINE g == EnsuredAll(h, last)
<1>1. \A u \in Open(h) : Analysed(h, u) \in Analysis /\ UpToDate(h, u, Analysed(h, u))
  BY AnalysedType DEF Open
<1>2. g \in HostType
  <2>1. g.analysis \in [Uri -> {None} \cup Analysis]
    BY <1>1 DEF EnsuredAll, HostType
  <2>2. g.layer \in [Slots -> {None} \cup Doc]
    <3> SUFFICES ASSUME NEW c \in Slots, last[c] # None
                 PROVE  h.docs[last[c]] \in {None} \cup Doc
      BY DEF EnsuredAll, HostType
    <3>1. last[c] \in Uri
      BY DEF Orders, DirtyIn, Open
    <3> QED BY <3>1 DEF HostType
  <2> QED BY <2>1, <2>2 DEF EnsuredAll, HostType
<1>3. /\ g.docs = h.docs /\ g.base = h.base /\ g.map = h.map
      /\ g.config = h.config /\ g.defs = h.defs /\ g.tokens = h.tokens
      /\ \A u \in Uri : g.analysis[u] = IF u \in Open(h) /\ h.analysis[u] = None
                                        THEN Analysed(h, u) ELSE h.analysis[u]
  BY DEF EnsuredAll, HostType
<1>4. CachesFresh(g)
  <2> SUFFICES ASSUME NEW u \in Uri
               PROVE  /\ g.analysis[u] # None => UpToDate(g, u, g.analysis[u])
                      /\ g.tokens[u] # None => g.tokens[u] = g.analysis[u]
    BY DEF CachesFresh
  <2>1. Analysed(g, u) = Analysed(h, u)
    BY <1>3 DEF Analysed, SchemaFor, SlotOf, ConfigFor
  <2>2. CASE u \in Open(h) /\ h.analysis[u] = None
    <3>1. h.tokens[u] = None
      <4>1. h.tokens[u] # None => h.tokens[u] = h.analysis[u]
        BY DEF CachesFresh
      <4> QED BY <2>2, <4>1
    <3> QED BY <1>1, <1>3, <2>1, <2>2, <3>1 DEF UpToDate
  <2>3. CASE ~(u \in Open(h) /\ h.analysis[u] = None)
    <3>1. g.analysis[u] = h.analysis[u]
      BY <1>3, <2>3
    <3> QED BY <1>3, <2>1, <3>1 DEF CachesFresh, UpToDate
  <2> QED BY <2>2, <2>3
<1>5. ASSUME NEW u \in Open(h)
      PROVE  g.analysis[u] # None
  BY <1>1, <1>3, NoneIsNoAnalysis DEF Open
<1> QED BY <1>2, <1>4, <1>5

LEMMA TokensDerivedOK ==
  ASSUME NEW h \in HostType, CachesFresh(h), NEW u \in Uri
  PROVE  TokensDerived(h, u) \in HostType /\ CachesFresh(TokensDerived(h, u))
<1> DEFINE g == [h EXCEPT !.tokens[u] = h.analysis[u]]
<1>1. g \in HostType
  BY DEF HostType
<1>2. /\ g.docs = h.docs /\ g.base = h.base /\ g.map = h.map
      /\ g.config = h.config /\ g.defs = h.defs /\ g.analysis = h.analysis
      /\ \A v \in Uri : g.tokens[v] = IF v = u THEN h.analysis[u] ELSE h.tokens[v]
  BY DEF HostType
<1>3. CachesFresh(g)
  <2> SUFFICES ASSUME NEW v \in Uri
               PROVE  /\ g.analysis[v] # None => UpToDate(g, v, g.analysis[v])
                      /\ g.tokens[v] # None => g.tokens[v] = g.analysis[v]
    BY DEF CachesFresh
  <2>1. Analysed(g, v) = Analysed(h, v)
    BY <1>2 DEF Analysed, SchemaFor, SlotOf, ConfigFor
  <2> QED BY <1>2, <2>1 DEF CachesFresh, UpToDate
<1> QED BY <1>1, <1>3 DEF TokensDerived

IInv == TypeOK /\ CacheIsFresh

-----------------------------------------------------------------------------
(* The invariant *)

LEMMA InitInv == Init => IInv
<1> SUFFICES ASSUME Init PROVE IInv
  OBVIOUS
<1>1. host \in HostType
  BY LspDataAssumption DEF Init, NewHost, NoneCached, HostType, DefaultConfig, Config
<1>2. CachesFresh(host)
  BY DEF Init, NewHost, NoneCached, CachesFresh
<1> QED BY <1>1, <1>2 DEF IInv, TypeOK, CacheIsFresh

LEMMA StepInv == IInv /\ [Next]_vars => IInv'
<1> SUFFICES ASSUME host \in HostType, CachesFresh(host), [Next]_vars
             PROVE  host' \in HostType /\ CachesFresh(host')
  BY DEF IInv, TypeOK, CacheIsFresh
<1>1. CASE OpenDocument
  BY <1>1, OpenedOK DEF OpenDocument
<1>2. CASE UpdateDocument
  BY <1>2, UpdatedOK DEF UpdateDocument
<1>3. CASE CloseDocument
  BY <1>3, ClosedOK DEF CloseDocument
<1>4. CASE SetAnalysisConfig
  BY <1>4, ConfigOK, LspDataAssumption DEF SetAnalysisConfig, Config
<1>5. CASE SetSchemaMap
  BY <1>5, MapOK DEF SetSchemaMap
<1>6. CASE SetSessionContext
  BY <1>6, SchemaOK DEF SetSessionContext
<1>7. CASE SetSessionContextFromFile
  BY <1>7, SchemaOK, DefinitionsOK DEF SetSessionContextFromFile
<1>8. CASE RecordSchemaDefinitions
  BY <1>8, DefinitionsOK DEF RecordSchemaDefinitions
<1>9. CASE QueryDocument
  BY <1>9, EnsuredOK DEF QueryDocument
<1>10. CASE QuerySemanticTokens
  BY <1>10, EnsuredOK, TokensDerivedOK DEF QuerySemanticTokens
<1>11. CASE QueryNoSymbol
  BY <1>11, EnsuredOK DEF QueryNoSymbol
<1>12. CASE FindReferences
  <2>1. PICK u \in Open(host) : \E last \in Orders(Ensured(host, u)) :
          host' = EnsuredAll(Ensured(host, u), last)
    BY <1>12 DEF FindReferences
  <2>2. PICK last \in Orders(Ensured(host, u)) :
          host' = EnsuredAll(Ensured(host, u), last)
    BY <2>1
  <2>3. Ensured(host, u) \in HostType /\ CachesFresh(Ensured(host, u))
    BY EnsuredOK DEF Open
  <2> QED BY <2>2, <2>3, EnsuredAllOK
<1>13. CASE CompletionItems
  <2>1. PICK u \in Open(host) : host' = Ran(Ensured(host, u), u, SlotOf(host, u))
    BY <1>13 DEF CompletionItems
  <2> QED BY <2>1, RunAfterEnsured, ConfigForType DEF Open
<1>14. CASE SignatureHelp
  BY <1>14, EnsuredOK DEF SignatureHelp, Open
<1>15. CASE AvailableFunctionNames
  BY <1>15 DEF AvailableFunctionNames
<1>16. CASE AllDiagnostics
  <2>1. PICK u \in Open(host) : host' = Ran(Ensured(host, u), u, "user")
    BY <1>16 DEF AllDiagnostics
  <2> QED BY <2>1, RunAfterEnsured DEF Open, Slots
<1>17. CASE UNCHANGED vars
  BY <1>17 DEF vars
<1> QED BY <1>1, <1>2, <1>3, <1>4, <1>5, <1>6, <1>7, <1>8, <1>9, <1>10, <1>11,
           <1>12, <1>13, <1>14, <1>15, <1>16, <1>17 DEF Next

(* The caches hold what HostType says, after every sequence of calls:      *)
(* LspHost::analyses and token_caches are keyed by open or closed URIs.    *)
THEOREM HostTypeCorrect == Spec => []TypeOK
<1>1. IInv => TypeOK
  BY DEF IInv
<1> QED BY InitInv, StepInv, <1>1, PTL DEF Spec

(* No sequence of calls leaves in the caches of LspHost an analysis that   *)
(* another run over the document would not repeat.                         *)
THEOREM CachesStayFresh == Spec => []CacheIsFresh
<1>1. IInv => CacheIsFresh
  BY DEF IInv
<1> QED BY InitInv, StepInv, <1>1, PTL DEF Spec

-----------------------------------------------------------------------------
(* The host implements the service that caches nothing. *)

Svc(h) == [docs |-> h.docs, base |-> h.base, map |-> h.map,
           config |-> h.config, defs |-> h.defs]

LEMMA SvcData ==
  ASSUME NEW u \in Uri
  PROVE  /\ Service!Open(Svc(host)) = Open(host)
         /\ Service!SlotOf(Svc(host), u) = SlotOf(host, u)
         /\ Service!Analysed(Svc(host), u) = Analysed(host, u)
<1>1. Service!SlotOf(Svc(host), u) = SlotOf(host, u)
  BY DEF Svc, Service!SlotOf, SlotOf
<1>2. Service!ConfigFor(Svc(host), u) = ConfigFor(host, u)
  BY <1>1 DEF Svc, Service!ConfigFor, ConfigFor, Service!Strict, Strict
<1>3. Service!SchemaFor(Svc(host), SlotOf(host, u)) = SchemaFor(host, SlotOf(host, u))
  BY DEF Svc, Service!SchemaFor, SchemaFor
<1>4. Service!Open(Svc(host)) = Open(host)
  BY DEF Svc, Service!Open, Open
<1>5. Service!Analysed(Svc(host), u) = Analysed(host, u)
  BY <1>1, <1>2, <1>3 DEF Svc, Service!Analysed, Analysed
<1> QED BY <1>1, <1>4, <1>5

(* What fresh caches hold is what the service shows. *)
LEMMA ShownCached ==
  ASSUME host \in HostType, NEW g \in HostType, CachesFresh(g),
         Svc(g) = Svc(host), NEW us \in SUBSET Open(host),
         \A u \in us : g.analysis[u] # None
  PROVE  \E known \in Service!Known :
           Service!Shown(us, known) = [u \in us |-> g.analysis[u]]
<1> DEFINE known == [u \in Open(host) |-> IF u \in us THEN g.analysis[u].defs
                                          ELSE {}]
<1>1. /\ g.docs = host.docs /\ g.base = host.base /\ g.map = host.map
      /\ g.config = host.config /\ g.defs = host.defs
  BY DEF Svc
<1>2. ASSUME NEW u \in us
      PROVE  /\ g.analysis[u].defs \subseteq host.defs
             /\ [Analysed(host, u) EXCEPT !.defs = g.analysis[u].defs]
                  = g.analysis[u]
  <2>1. UpToDate(g, u, g.analysis[u])
    BY <1>2 DEF CachesFresh, Open
  <2>2. Analysed(g, u) = Analysed(host, u)
    BY <1>1 DEF Analysed, SchemaFor, SlotOf, ConfigFor
  <2> QED BY <1>1, <2>1, <2>2 DEF UpToDate
<1>3. known \in [Open(host) -> SUBSET host.defs]
  BY <1>2
<1>4. Service!Open(Svc(host)) = Open(host)
  BY DEF Svc, Service!Open, Open
<1>5. known \in Service!Known
  BY <1>3, <1>4 DEF Service!Known, Svc
<1>6. Service!Shown(us, known)
        = [u \in us |-> [Service!Analysed(Svc(host), u) EXCEPT !.defs = known[u]]]
  BY DEF Service!Shown, Svc
<1>7. ASSUME NEW u \in us
      PROVE  [Service!Analysed(Svc(host), u) EXCEPT !.defs = known[u]] = g.analysis[u]
  <2>1. u \in Uri /\ u \in Open(host)
    BY DEF Open
  <2> QED BY <1>2, <2>1, SvcData
<1>8. Service!Shown(us, known) = [u \in us |-> g.analysis[u]]
  BY <1>6, <1>7
<1> QED BY <1>5, <1>8

(* Each host operation seen through Svc. *)
LEMMA SvcOfOperations ==
  ASSUME NEW h \in HostType, NEW u \in Uri, NEW slot \in Slots
  PROVE  /\ Svc(Ensured(h, u)) = Svc(h)
         /\ Svc(Ran(Ensured(h, u), u, slot)) = Svc(h)
         /\ Svc(TokensDerived(Ensured(h, u), u)) = Svc(h)
         /\ \A last \in Orders(Ensured(h, u)) :
              Svc(EnsuredAll(Ensured(h, u), last)) = Svc(h)
<1>1. Svc(Ensured(h, u)) = Svc(h)
  BY EnsuredSame DEF Svc
<1>2. ASSUME NEW g
      PROVE  /\ Svc(Ran(g, u, slot)) = Svc(g)
             /\ Svc(TokensDerived(g, u)) = Svc(g)
             /\ \A last \in Orders(g) : Svc(EnsuredAll(g, last)) = Svc(g)
  BY DEF Svc, Ran, TokensDerived, EnsuredAll
<1> QED BY <1>1, <1>2

LEMMA InitRefines == Init => Service!AbsInit
BY DEF Init, Service!AbsInit, NewHost, DefaultConfig, Service!DefaultConfig,
       NoReply, Service!NoReply, Reply, Service!Reply, Nothing, Service!Nothing

LEMMA EditRefines ==
  ASSUME host \in HostType, OpenDocument \/ UpdateDocument \/ CloseDocument
  PROVE  Service!AbsEdit
<1> DEFINE With(u, d) == [Svc(host) EXCEPT !.docs[u] = d]
<1> SUFFICES \E u \in Uri, d \in {None} \cup Doc :
               Svc(host') = With(u, d) /\ reply' = NoReply
  BY DEF Service!AbsEdit, Svc, Service!Doc, Doc, NoReply, Service!NoReply,
         Reply, Service!Reply, Nothing, Service!Nothing
<1>1. ASSUME NEW u \in Uri, NEW t \in Text, NEW l \in {None} \cup Lang
      PROVE  /\ Svc(Opened(host, u, t, l)) = With(u, [text |-> t, lang |-> l])
             /\ [text |-> t, lang |-> l] \in Doc
  BY DEF Svc, Opened, Invalidated, HostType, Doc
<1> HIDE DEF With
<1>2. CASE OpenDocument
  <2>1. PICK u \in Uri, t \in Text, l \in {None} \cup Lang :
          host' = Opened(host, u, t, l) /\ reply' = NoReply
    BY <1>2 DEF OpenDocument
  <2> QED BY <1>1, <2>1
<1>3. CASE UpdateDocument
  <2>1. PICK u \in Uri, t \in Text : host' = Updated(host, u, t) /\ reply' = NoReply
    BY <1>3 DEF UpdateDocument
  <2>2. CASE host.docs[u] = None
    <3>1. host' = Opened(host, u, t, None) /\ None \in {None} \cup Lang
      BY <2>1, <2>2 DEF Updated
    <3> QED BY <1>1, <2>1, <3>1
  <2>3. CASE host.docs[u] # None
    <3> DEFINE d == [host.docs[u] EXCEPT !.text = t]
    <3>1. host.docs[u] \in Doc /\ d \in Doc
      BY <2>3 DEF HostType, Doc
    <3>2. Svc(host') = With(u, d)
      BY <2>1, <2>3 DEF Updated, Invalidated, Svc, HostType, With
    <3> QED BY <2>1, <3>1, <3>2
  <2> QED BY <2>2, <2>3
<1>4. CASE CloseDocument
  <2>1. PICK u \in Uri : host' = Closed(host, u) /\ reply' = NoReply
    BY <1>4 DEF CloseDocument
  <2>2. Svc(host') = With(u, None)
    BY <2>1 DEF Closed, Invalidated, Svc, HostType, With
  <2> QED BY <2>1, <2>2
<1> QED BY <1>2, <1>3, <1>4

LEMMA ConfigureRefines ==
  ASSUME host \in HostType,
         \/ SetAnalysisConfig \/ SetSchemaMap \/ SetSessionContext
         \/ SetSessionContextFromFile \/ RecordSchemaDefinitions
  PROVE  Service!AbsConfigure
<1> DEFINE ToBase(b)    == [Svc(host) EXCEPT !.base = b]
           ToMap(m)     == [Svc(host) EXCEPT !.map = m]
           ToConfig(c)  == [Svc(host) EXCEPT !.config = c]
           ToDefs(f)    == [Svc(host) EXCEPT !.defs = host.defs \cup {f}]
           ToFile(b, f) == [docs |-> host.docs, base |-> b, map |-> host.map,
                            config |-> host.config, defs |-> host.defs \cup {f}]
<1> SUFFICES
      /\ \/ \E b \in Base : Svc(host') = ToBase(b)
         \/ \E m \in Maps : Svc(host') = ToMap(m)
         \/ \E c \in Configs : Svc(host') = ToConfig(c)
         \/ \E f \in Source : Svc(host') = ToDefs(f)
         \/ \E b \in Base, f \in Source : Svc(host') = ToFile(b, f)
      /\ reply' = NoReply
  BY DEF Service!AbsConfigure, Svc, NoReply, Service!NoReply,
         Reply, Service!Reply, Nothing, Service!Nothing
<1>1. /\ \A c : Svc(WithConfig(host, c)) = ToConfig(c)
      /\ \A m : Svc(WithMap(host, m)) = ToMap(m)
      /\ \A b : Svc(WithSchema(host, b)) = ToBase(b)
      /\ \A f : Svc(WithDefinitions(host, f)) = ToDefs(f)
  BY DEF Svc, WithConfig, WithMap, WithSchema, WithDefinitions, InvalidatedAll,
         HostType
<1>2. ASSUME NEW b \in Base, NEW f \in Source
      PROVE  Svc(WithDefinitions(WithSchema(host, b), f)) = ToFile(b, f)
  <2> DEFINE g == WithSchema(host, b)
  <2>1. /\ g.docs = host.docs /\ g.base = b /\ g.map = host.map
        /\ g.config = host.config /\ g.defs = host.defs
    BY DEF WithSchema, InvalidatedAll, HostType
  <2>2. g \in HostType
    BY DEF WithSchema, InvalidatedAll, NoneCached, HostType
  <2> HIDE DEF g
  <2>3. Svc(WithDefinitions(g, f))
          = [docs |-> g.docs, base |-> g.base, map |-> g.map,
             config |-> g.config, defs |-> g.defs \cup {f}]
    BY <2>2 DEF Svc, WithDefinitions, HostType
  <2> QED BY <2>1, <2>3 DEF g
<1> HIDE DEF ToBase, ToMap, ToConfig, ToDefs, ToFile
<1>3. CASE SetAnalysisConfig
  BY <1>1, <1>3 DEF SetAnalysisConfig
<1>4. CASE SetSchemaMap
  BY <1>1, <1>4 DEF SetSchemaMap
<1>5. CASE SetSessionContext
  BY <1>1, <1>5 DEF SetSessionContext
<1>6. CASE SetSessionContextFromFile
  BY <1>2, <1>6 DEF SetSessionContextFromFile
<1>7. CASE RecordSchemaDefinitions
  BY <1>1, <1>7 DEF RecordSchemaDefinitions
<1> QED BY <1>3, <1>4, <1>5, <1>6, <1>7

(* An answer about the analyses of us in a host g with fresh caches, which  *)
(* the service sees as it sees the present host.                            *)
LEMMA CachedShown ==
  ASSUME host \in HostType, NEW g \in HostType, CachesFresh(g),
         Svc(g) = Svc(host), NEW us \in SUBSET Uri,
         \A u \in Open(host) \cap us : g.analysis[u] # None
  PROVE  \E known \in Service!Known :
           Service!Shown(Open(host) \cap us, known) = Cached(g, us)
<1>1. Open(g) = Open(host)
  BY DEF Svc, Open
<1>2. Open(host) \cap us \in SUBSET Open(host)
  OBVIOUS
<1>3. Cached(g, us) = [u \in Open(host) \cap us |-> g.analysis[u]]
  BY <1>1 DEF Cached
<1> QED BY <1>2, <1>3, ShownCached

(* A reply names the query it answers.                                     *)
LEMMA ReplyQuery ==
  \A query, uri, seen, names :
    Service!Reply(query, uri, seen, names).query = query
BY DEF Service!Reply

LEMMA DocumentQueryRefines ==
  ASSUME host \in HostType, CachesFresh(host), QueryDocument
  PROVE  Service!AbsAnswer
<1>1. PICK u \in Uri, q \in AnalysisQuery :
        /\ host' = Ensured(host, u)
        /\ reply' = Reply(q, u, Cached(host', {u}), None)
  BY DEF QueryDocument
<1>2. host' \in HostType /\ CachesFresh(host') /\ Svc(host') = Svc(host)
  BY <1>1, EnsuredOK, SvcOfOperations DEF Slots
<1>3. \A w \in Open(host) \cap {u} : host'.analysis[w] # None
  BY <1>1, EnsuredOK DEF Open
<1>4. {u} \in SUBSET Uri
  OBVIOUS
<1>5. PICK known \in Service!Known :
        Service!Shown(Open(host) \cap {u}, known) = Cached(host', {u})
  <2> DEFINE g == host'
  <2>1. g \in HostType /\ CachesFresh(g) /\ Svc(g) = Svc(host)
        /\ \A w \in Open(host) \cap {u} : g.analysis[w] # None
    BY <1>2, <1>3
  <2> HIDE DEF g
  <2>2. \E known \in Service!Known :
          Service!Shown(Open(host) \cap {u}, known) = Cached(g, {u})
    BY <1>4, <2>1, CachedShown
  <2> QED BY <2>2 DEF g
<1>6. Service!Open(Svc(host)) = Open(host)
  BY DEF Svc, Service!Open, Open
<1>7. reply' = Service!Reply(q, u, Service!Shown(Open(host) \cap {u}, known), None)
  BY <1>1, <1>5 DEF Reply, Service!Reply
<1>8. Svc(host)' = Svc(host)
  BY <1>2 DEF Svc
<1>9. q \in Service!AnalysisQuery \cup {"tokens"}
  BY DEF AnalysisQuery, Service!AnalysisQuery
<1>10. reply'.query = q
  BY <1>7, ReplyQuery
<1>11. \E u1 \in Uri, known1 \in Service!Known :
         reply' = Service!Reply(reply'.query, u1,
                    Service!Shown(Service!Open(Svc(host)) \cap {u1}, known1), None)
  BY <1>6, <1>7, <1>10
<1> QED BY <1>8, <1>9, <1>10, <1>11 DEF Service!AbsAnswer, Svc

LEMMA TokensShown ==
  ASSUME host \in HostType, CachesFresh(host), NEW u \in Uri, NEW g,
         g = TokensDerived(Ensured(host, u), u)
  PROVE  /\ g \in HostType /\ CachesFresh(g) /\ Svc(g) = Svc(host)
         /\ \A w \in Open(host) \cap {u} : g.analysis[w] # None
         /\ [w \in Open(host) \cap {u} |-> g.tokens[w]] = Cached(g, {u})
<1> DEFINE e == Ensured(host, u)
<1>1. e \in HostType /\ CachesFresh(e) /\ e.docs = host.docs
      /\ (host.docs[u] # None => e.analysis[u] # None)
  BY EnsuredOK, EnsuredSame
<1>2. g \in HostType /\ CachesFresh(g) /\ Svc(g) = Svc(host)
  BY <1>1, TokensDerivedOK, SvcOfOperations DEF Slots
<1> HIDE DEF e
<1>3. g.analysis = e.analysis
      /\ (host.docs[u] # None /\ e.tokens[u] = None => g.tokens[u] = e.analysis[u])
      /\ (host.docs[u] # None /\ e.tokens[u] # None => g.tokens[u] = e.tokens[u])
  <2>1. g = IF e.docs[u] = None \/ e.tokens[u] # None THEN e
            ELSE [e EXCEPT !.tokens[u] = e.analysis[u]]
    BY DEF TokensDerived, e
  <2> QED BY <1>1, <2>1 DEF HostType
<1>4. \A w \in Open(host) \cap {u} : g.analysis[w] # None
  BY <1>1, <1>3 DEF Open
<1>5. \A w \in Open(host) \cap {u} : g.tokens[w] = g.analysis[w]
  BY <1>1, <1>3 DEF Open, CachesFresh
<1>6. Open(g) = Open(host)
  BY <1>2 DEF Svc, Open
<1>7. Cached(g, {u}) = [w \in Open(host) \cap {u} |-> g.analysis[w]]
  BY <1>6 DEF Cached
<1>8. [w \in Open(host) \cap {u} |-> g.tokens[w]] = Cached(g, {u})
  BY <1>5, <1>7
<1> QED BY <1>2, <1>4, <1>8

LEMMA TokensQueryRefines ==
  ASSUME host \in HostType, CachesFresh(host), QuerySemanticTokens
  PROVE  Service!AbsAnswer
<1>1. PICK u \in Uri :
        /\ host' = TokensDerived(Ensured(host, u), u)
        /\ reply' = Reply("tokens", u,
                          [x \in Open(host) \cap {u} |-> host'.tokens[x]], None)
  BY DEF QuerySemanticTokens
<1>2. PICK known \in Service!Known :
        /\ Service!Shown(Open(host) \cap {u}, known)
             = [x \in Open(host) \cap {u} |-> host'.tokens[x]]
        /\ Svc(host') = Svc(host)
  <2> DEFINE g == host'
  <2>1. g = TokensDerived(Ensured(host, u), u)
    BY <1>1
  <2> HIDE DEF g
  <2>2. /\ g \in HostType /\ CachesFresh(g) /\ Svc(g) = Svc(host)
        /\ \A w \in Open(host) \cap {u} : g.analysis[w] # None
        /\ [w \in Open(host) \cap {u} |-> g.tokens[w]] = Cached(g, {u})
    BY <2>1, TokensShown
  <2>3. {u} \in SUBSET Uri
    OBVIOUS
  <2>4. \E known \in Service!Known :
          Service!Shown(Open(host) \cap {u}, known) = Cached(g, {u})
    BY <2>2, <2>3, CachedShown
  <2>5. \E known \in Service!Known :
          /\ Service!Shown(Open(host) \cap {u}, known)
               = [w \in Open(host) \cap {u} |-> g.tokens[w]]
          /\ Svc(g) = Svc(host)
    BY <2>2, <2>4
  <2> QED BY <2>5 DEF g
<1>3. Service!Open(Svc(host)) = Open(host)
  BY DEF Svc, Service!Open, Open
<1>4. reply' = Service!Reply("tokens", u,
                 Service!Shown(Service!Open(Svc(host)) \cap {u}, known), None)
  BY <1>1, <1>2, <1>3 DEF Reply, Service!Reply
<1>5. reply'.query = "tokens"
  BY <1>4, ReplyQuery
<1>6. \E u1 \in Uri, known1 \in Service!Known :
        reply' = Service!Reply(reply'.query, u1,
                   Service!Shown(Service!Open(Svc(host)) \cap {u1}, known1), None)
  BY <1>4, <1>5
<1>7. Svc(host)' = Svc(host)
  BY <1>2 DEF Svc
<1> QED BY <1>5, <1>6, <1>7 DEF Service!AbsAnswer, Svc

LEMMA SymbolQueryRefines ==
  ASSUME host \in HostType, CachesFresh(host), QueryNoSymbol \/ FindReferences
  PROVE  Service!AbsAnswerAll
<1>1. AllQuery = Service!AllQuery /\ Nothing = Service!Nothing
      /\ Service!Open(Svc(host)) = Open(host)
  BY DEF AllQuery, Service!AllQuery, Nothing, Service!Nothing, Svc,
         Service!Open, Open
<1>2. CASE QueryNoSymbol
  <2>1. PICK u \in Uri, q \in AllQuery :
          host' = Ensured(host, u) /\ reply' = Reply(q, u, Nothing, None)
    BY <1>2 DEF QueryNoSymbol
  <2>2. Svc(host)' = Svc(host)
    <3>1. Svc(host') = Svc(host)
      BY <2>1, SvcOfOperations DEF Slots
    <3> QED BY <3>1 DEF Svc
  <2>3. Service!Known # {}
    <3>1. [w \in Service!Open(Svc(host)) |-> {}]
            \in [Service!Open(Svc(host)) -> SUBSET Svc(host).defs]
      OBVIOUS
    <3> QED BY <3>1 DEF Service!Known, Svc
  <2>4. reply' = Service!Reply(q, u, Service!Nothing, None)
    BY <1>1, <2>1 DEF Reply, Service!Reply
  <2>5. q \in Service!AllQuery /\ reply'.query = q
    BY <1>1, <2>4, ReplyQuery
  <2> QED BY <2>2, <2>3, <2>4, <2>5 DEF Service!AbsAnswerAll, Svc
<1>3. CASE FindReferences
  <2>1. PICK u \in Open(host), q \in AllQuery :
          \E last \in Orders(Ensured(host, u)) :
            /\ host' = EnsuredAll(Ensured(host, u), last)
            /\ reply' = Reply(q, u, Cached(host', Uri), None)
    BY <1>3 DEF FindReferences
  <2>2. PICK last \in Orders(Ensured(host, u)) :
          /\ host' = EnsuredAll(Ensured(host, u), last)
          /\ reply' = Reply(q, u, Cached(host', Uri), None)
    BY <2>1
  <2>3. PICK known \in Service!Known :
          /\ Service!Shown(Open(host), known) = Cached(host', Uri)
          /\ Svc(host') = Svc(host)
    <3> DEFINE e == Ensured(host, u)
               g == host'
    <3>1. u \in Uri
      BY DEF Open
    <3>2. e \in HostType /\ CachesFresh(e) /\ Open(e) = Open(host)
      BY <3>1, EnsuredOK, EnsuredSame DEF Open
    <3>3. g = EnsuredAll(e, last) /\ last \in Orders(e)
      BY <2>2
    <3>4. Svc(g) = Svc(host)
      BY <2>2, <3>1, SvcOfOperations DEF Slots
    <3> HIDE DEF e, g
    <3>5. /\ g \in HostType /\ CachesFresh(g)
          /\ \A w \in Open(host) : g.analysis[w] # None
      BY <3>2, <3>3, EnsuredAllOK
    <3>6. Open(host) \cap Uri = Open(host) /\ Uri \in SUBSET Uri
      BY DEF Open
    <3>7. \E known \in Service!Known :
            Service!Shown(Open(host) \cap Uri, known) = Cached(g, Uri)
      BY <3>4, <3>5, <3>6, CachedShown
    <3>8. \E known \in Service!Known :
            /\ Service!Shown(Open(host), known) = Cached(g, Uri)
            /\ Svc(g) = Svc(host)
      BY <3>4, <3>6, <3>7
    <3> QED BY <3>8 DEF g
  <2>4. reply' = Service!Reply(q, u,
                   Service!Shown(Service!Open(Svc(host)), known), None)
    BY <1>1, <2>2, <2>3 DEF Reply, Service!Reply
  <2>5. q \in Service!AllQuery /\ u \in Uri /\ u \in Service!Open(Svc(host))
    BY <1>1 DEF Open
  <2>6. Svc(host)' = Svc(host)
    BY <2>3 DEF Svc
  <2>7. reply'.query = q
    BY <2>4, ReplyQuery
  <2> QED BY <2>4, <2>5, <2>6, <2>7 DEF Service!AbsAnswerAll, Svc
<1> QED BY <1>2, <1>3

(* A run that follows the analysis of u shows u, and names the user's       *)
(* schema, with the DDL of u when it ran over the user catalog.             *)
LEMMA RunShown ==
  ASSUME host \in HostType, CachesFresh(host), NEW u \in Open(host),
         NEW slot \in Slots, NEW g, g = Ran(Ensured(host, u), u, slot)
  PROVE  /\ \E known \in Service!Known : Service!Shown({u}, known) = Cached(g, {u})
         /\ Svc(g) = Svc(host) /\ UserNames(g) \in Service!Names
         /\ slot = "user" => UserNames(g) = Service!NamesFor(u)
<1> DEFINE e == Ensured(host, u)
<1>1. u \in Uri /\ host.docs[u] # None
  BY DEF Open
<1>2. /\ e \in HostType /\ e.base = host.base /\ e.docs = host.docs
      /\ e.analysis[u] # None
  BY <1>1, EnsuredOK, EnsuredSame
<1>3. g \in HostType /\ CachesFresh(g) /\ Svc(g) = Svc(host)
  BY <1>1, RunAfterEnsured, SvcOfOperations
<1> HIDE DEF e
<1>4. /\ g.analysis = e.analysis /\ g.base = e.base
      /\ slot = "user" => g.layer["user"] = e.docs[u]
  <2>1. g = [e EXCEPT !.layer[slot] = e.docs[u]]
    BY DEF Ran, e
  <2> QED BY <1>2, <2>1 DEF HostType
<1>5. UserNames(g) \in Service!Names
  BY <1>3 DEF UserNames, Service!Names, HostType, Slots, Service!Doc, Doc
<1>6. slot = "user" => UserNames(g) = Service!NamesFor(u)
  BY <1>2, <1>4 DEF UserNames, Service!NamesFor
<1>7. \E known \in Service!Known : Service!Shown({u}, known) = Cached(g, {u})
  <2>1. Open(host) \cap {u} = {u} /\ {u} \in SUBSET Uri
    BY <1>1
  <2>2. \A w \in Open(host) \cap {u} : g.analysis[w] # None
    BY <1>2, <1>4
  <2>3. \E known \in Service!Known :
          Service!Shown(Open(host) \cap {u}, known) = Cached(g, {u})
    BY <1>3, <2>1, <2>2, CachedShown
  <2> QED BY <2>1, <2>3
<1> QED BY <1>3, <1>5, <1>6, <1>7

LEMMA CompletionRefines ==
  ASSUME host \in HostType, CachesFresh(host), CompletionItems
  PROVE  Service!AbsComplete
<1>1. PICK u \in Open(host) :
        /\ host' = Ran(Ensured(host, u), u, SlotOf(host, u))
        /\ reply' = Reply("completion", u, Cached(host', {u}), UserNames(host'))
  BY DEF CompletionItems
<1>2. u \in Uri /\ u \in Service!Open(Svc(host))
  BY DEF Open, Svc, Service!Open
<1>3. SlotOf(host, u) \in Slots
      /\ Service!SlotOf(Svc(host), u) = SlotOf(host, u)
  BY <1>2, ConfigForType, SvcData
<1>4. PICK known \in Service!Known :
        /\ Service!Shown({u}, known) = Cached(host', {u})
        /\ Svc(host') = Svc(host) /\ UserNames(host') \in Service!Names
        /\ SlotOf(host, u) = "user" => UserNames(host') = Service!NamesFor(u)
  <2> DEFINE g == host'
  <2>1. g = Ran(Ensured(host, u), u, SlotOf(host, u))
    BY <1>1
  <2> HIDE DEF g
  <2>2. /\ \E known \in Service!Known : Service!Shown({u}, known) = Cached(g, {u})
        /\ Svc(g) = Svc(host) /\ UserNames(g) \in Service!Names
        /\ SlotOf(host, u) = "user" => UserNames(g) = Service!NamesFor(u)
    BY <1>3, <2>1, RunShown
  <2> QED BY <2>2 DEF g
<1>5. reply' = Service!Reply("completion", u, Service!Shown({u}, known),
                             UserNames(host'))
  BY <1>1, <1>4 DEF Reply, Service!Reply
<1>6. Svc(host)' = Svc(host)
  BY <1>4 DEF Svc
<1>7. \E u1 \in Service!Open(Svc(host)), known1 \in Service!Known,
         names \in Service!Names :
        /\ Service!SlotOf(Svc(host), u1) = "user" => names = Service!NamesFor(u1)
        /\ reply' = Service!Reply("completion", u1, Service!Shown({u1}, known1),
                                  names)
  BY <1>2, <1>3, <1>4, <1>5
<1>8. reply'.query = "completion"
  BY <1>5, ReplyQuery
<1> QED BY <1>6, <1>7, <1>8 DEF Service!AbsComplete, Svc

LEMMA AllDiagnosticsRefines ==
  ASSUME host \in HostType, CachesFresh(host), AllDiagnostics
  PROVE  Service!AbsAllDiagnostics
<1>1. PICK u \in Open(host) :
        /\ host' = Ran(Ensured(host, u), u, "user")
        /\ reply' = Reply("allDiagnostics", u, Cached(host', {u}), UserNames(host'))
  BY DEF AllDiagnostics
<1>2. u \in Service!Open(Svc(host)) /\ "user" \in Slots
  BY DEF Open, Svc, Service!Open, Slots
<1>3. PICK known \in Service!Known :
        /\ Service!Shown({u}, known) = Cached(host', {u})
        /\ Svc(host') = Svc(host) /\ UserNames(host') = Service!NamesFor(u)
  <2> DEFINE g == host'
  <2>1. g = Ran(Ensured(host, u), u, "user")
    BY <1>1
  <2> HIDE DEF g
  <2>2. /\ \E known \in Service!Known : Service!Shown({u}, known) = Cached(g, {u})
        /\ Svc(g) = Svc(host) /\ UserNames(g) = Service!NamesFor(u)
    BY <1>2, <2>1, RunShown
  <2> QED BY <2>2 DEF g
<1>4. reply' = Service!Reply("allDiagnostics", u, Service!Shown({u}, known),
                             Service!NamesFor(u))
  BY <1>1, <1>3 DEF Reply, Service!Reply
<1>5. Svc(host)' = Svc(host)
  BY <1>3 DEF Svc
<1>6. \E u1 \in Service!Open(Svc(host)), known1 \in Service!Known :
        reply' = Service!Reply("allDiagnostics", u1, Service!Shown({u1}, known1),
                               Service!NamesFor(u1))
  BY <1>2, <1>4
<1>7. reply'.query = "allDiagnostics"
  BY <1>4, ReplyQuery
<1> QED BY <1>5, <1>6, <1>7 DEF Service!AbsAllDiagnostics, Svc

LEMMA FunctionsRefine ==
  ASSUME host \in HostType, CachesFresh(host),
         SignatureHelp \/ AvailableFunctionNames
  PROVE  Service!AbsOfferFunctions
<1>1. Service!Open(Svc(host)) = Open(host) /\ Service!Doc = Doc
  BY DEF Svc, Service!Open, Open, Service!Doc, Doc
<1>2. SUFFICES \E us \in SUBSET Open(host), known \in Service!Known,
                  ddl \in {None} \cup Doc :
               \E u \in {None} \cup us :
                 /\ reply' = Service!Reply("functions", u, Service!Shown(us, known),
                                           [base |-> host.base, ddl |-> ddl])
                 /\ Svc(host') = Svc(host)
  <2>1. Svc(host') = Svc(host) => Svc(host)' = Svc(host)
    BY DEF Svc
  <2>2. ASSUME NEW us \in SUBSET Open(host), NEW known \in Service!Known,
               NEW ddl \in {None} \cup Doc, NEW u \in {None} \cup us,
               reply' = Service!Reply("functions", u, Service!Shown(us, known),
                                      [base |-> host.base, ddl |-> ddl])
        PROVE  reply'.query = "functions"
    BY <2>2, ReplyQuery
  <2> QED BY <1>1, <2>1, <2>2 DEF Service!AbsOfferFunctions, Svc
<1>3. CASE SignatureHelp
  <2>1. PICK u \in Open(host) :
          /\ host' = Ensured(host, u)
          /\ reply' = Reply("functions", u, Cached(host', {u}), UserNames(host'))
    BY <1>3 DEF SignatureHelp
  <2>2. u \in Uri /\ host.docs[u] # None
    BY DEF Open
  <2>3. /\ host' \in HostType /\ CachesFresh(host') /\ Svc(host') = Svc(host)
        /\ host'.analysis[u] # None
    BY <2>1, <2>2, EnsuredOK, SvcOfOperations DEF Slots
  <2>4. PICK known \in Service!Known :
          Service!Shown({u}, known) = Cached(host', {u})
    <3> DEFINE g == host'
    <3>1. /\ g \in HostType /\ CachesFresh(g) /\ Svc(g) = Svc(host)
          /\ \A w \in Open(host) \cap {u} : g.analysis[w] # None
      BY <2>3
    <3>2. Open(host) \cap {u} = {u} /\ {u} \in SUBSET Uri
      BY <2>2
    <3> HIDE DEF g
    <3>3. \E known \in Service!Known :
            Service!Shown(Open(host) \cap {u}, known) = Cached(g, {u})
      BY <3>1, <3>2, CachedShown
    <3>4. \E known \in Service!Known : Service!Shown({u}, known) = Cached(g, {u})
      BY <3>2, <3>3
    <3> QED BY <3>4 DEF g
  <2>5. host'.layer["user"] \in {None} \cup Doc /\ host'.base = host.base
    BY <2>3 DEF HostType, Slots, Svc
  <2>6. reply' = Service!Reply("functions", u, Service!Shown({u}, known),
                   [base |-> host.base, ddl |-> host'.layer["user"]])
    BY <2>1, <2>4, <2>5 DEF Reply, Service!Reply, UserNames
  <2>7. {u} \in SUBSET Open(host)
    OBVIOUS
  <2>8. \E u1 \in {None} \cup {u} :
          /\ reply' = Service!Reply("functions", u1, Service!Shown({u}, known),
                       [base |-> host.base, ddl |-> host'.layer["user"]])
          /\ Svc(host') = Svc(host)
    BY <2>3, <2>6
  <2> DEFINE us == {u}
             ddl == host'.layer["user"]
  <2> HIDE DEF us, ddl
  <2>9. us \in SUBSET Open(host) /\ ddl \in {None} \cup Doc
    BY <2>5, <2>7 DEF us, ddl
  <2>10. \E u1 \in {None} \cup us :
          /\ reply' = Service!Reply("functions", u1, Service!Shown(us, known),
                       [base |-> host.base, ddl |-> ddl])
          /\ Svc(host') = Svc(host)
    BY <2>8 DEF us, ddl
  <2> QED BY <2>9, <2>10
<1>4. CASE AvailableFunctionNames
  <2>1. reply' = Reply("functions", None, Nothing, UserNames(host)) /\ host' = host
    BY <1>4 DEF AvailableFunctionNames
  <2>2. [w \in Open(host) |-> {}] \in Service!Known
    <3>1. [w \in Open(host) |-> {}] \in [Open(host) -> SUBSET Svc(host).defs]
      OBVIOUS
    <3> QED BY <1>1, <3>1 DEF Service!Known, Svc
  <2>3. \A known \in Service!Known : Service!Shown({}, known) = Nothing
    BY DEF Service!Shown, Nothing
  <2>4. host.layer["user"] \in {None} \cup Doc
    BY DEF HostType, Slots
  <2>5. PICK known \in Service!Known : TRUE
    BY <2>2
  <2>6. reply' = Service!Reply("functions", None, Service!Shown({}, known),
                   [base |-> host.base, ddl |-> host.layer["user"]])
    BY <2>1, <2>3 DEF Reply, Service!Reply, UserNames
  <2>7. Svc(host') = Svc(host)
    BY <2>1
  <2> QED BY <2>4, <2>6, <2>7
<1> QED BY <1>3, <1>4

LEMMA StepRefines == IInv /\ [Next]_vars => [Service!AbsNext]_(Service!absVars)
<1> SUFFICES ASSUME host \in HostType, CachesFresh(host), [Next]_vars
             PROVE  [Service!AbsNext]_(Service!absVars)
  BY DEF IInv, TypeOK, CacheIsFresh
<1>1. CASE OpenDocument \/ UpdateDocument \/ CloseDocument
  BY <1>1, EditRefines DEF Service!AbsNext
<1>2. CASE \/ SetAnalysisConfig \/ SetSchemaMap \/ SetSessionContext
           \/ SetSessionContextFromFile \/ RecordSchemaDefinitions
  BY <1>2, ConfigureRefines DEF Service!AbsNext
<1>3. CASE QueryDocument \/ QuerySemanticTokens
  BY <1>3, DocumentQueryRefines, TokensQueryRefines DEF Service!AbsNext
<1>4. CASE QueryNoSymbol \/ FindReferences
  BY <1>4, SymbolQueryRefines DEF Service!AbsNext
<1>5. CASE CompletionItems
  BY <1>5, CompletionRefines DEF Service!AbsNext
<1>6. CASE SignatureHelp \/ AvailableFunctionNames
  BY <1>6, FunctionsRefine DEF Service!AbsNext
<1>7. CASE AllDiagnostics
  BY <1>7, AllDiagnosticsRefines DEF Service!AbsNext
<1>8. CASE UNCHANGED vars
  BY <1>8 DEF vars, Service!absVars
<1> QED BY <1>1, <1>2, <1>3, <1>4, <1>5, <1>6, <1>7, <1>8 DEF Next

(* With its caches, its lazy analyses and its Document layers shared        *)
(* between documents, LspHost answers as the service that computes every    *)
(* answer from the documents, the schema and the configuration of now.      *)
THEOREM HostImplementsService == Spec => ImplementsService
<1>1. Init /\ [][Next]_vars => []IInv
  BY InitInv, StepInv, PTL
<1>2. Spec => Service!AbsInit /\ [][Service!AbsNext]_(Service!absVars)
  BY <1>1, InitRefines, StepRefines, PTL DEF Spec
<1> QED BY <1>2 DEF ImplementsService, Service!AbsSpec
=============================================================================
