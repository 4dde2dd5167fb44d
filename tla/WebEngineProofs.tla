---------------------------- MODULE WebEngineProofs ----------------------------
(***************************************************************************)
(* What holds of the web engine for any dialects, overrides, contexts,     *)
(* documents and overlapping selections.  `Typed` is the invariant all of  *)
(* them rest on; each property then has a strengthening of its own.        *)
(***************************************************************************)
EXTENDS WebEngine, TLAPS

ContextKind == {None} \cup Context

Stages == {"idle", "loading", "loaded", "failed", "fetched", "bound", "selected"}
Selections ==
  [Selection -> [stage : Stages, symbol : {None} \cup Symbol, file : BOOLEAN]]

Typed ==
  /\ session \in Session
  /\ session_context \in ContextKind
  /\ selections \in Selections
  /\ turns \in Seq(Selection)
  /\ version \in [Uri -> Nat \ {0}]
  /\ initialized \in BOOLEAN
  /\ synced \in [Uri -> Nat]

-----------------------------------------------------------------------------
(* The calls on a session *)

LEMMA NewServerType == ASSUME NEW d \in Dialects PROVE NewServer(d) \in Server
  BY DEF NewServer, Server

LEMMA LspType == ASSUME NEW s \in Session PROVE Lsp(s) \in Server
<1>1. CASE s.lsp = None
  BY <1>1, NewServerType DEF Lsp, Session
<1>2. CASE s.lsp # None
  BY <1>2 DEF Lsp, Session
<1> QED BY <1>1, <1>2

LEMMA InForceType == ASSUME NEW c \in ContextKind PROVE InForce(c) \in {None} \cup Applied
  BY ContextAssumption DEF ContextKind, InForce, Applied

(* A rebuilt session has no server, and the dialect its parts make up.      *)
LEMMA RebuiltType ==
  ASSUME NEW s \in Session
  PROVE  /\ Rebuilt(s) \in Session
         /\ Rebuilt(s).lsp = None
         /\ Rebuilt(s).dialect_template = s.dialect_template
         /\ Rebuilt(s).override = s.override
         /\ Rebuilt(s).dialect = IF s.dialect_template = None THEN None
                                 ELSE <<s.dialect_template, s.override>>
<1>1. (IF s.dialect_template = None THEN None
       ELSE <<s.dialect_template, s.override>>) \in Dialects
  BY DEF Session, Dialects
<1> QED BY <1>1 DEF Rebuilt, Session

(* A context that is taken changes the server's context and nothing else.   *)
LEMMA ApplyContextType ==
  ASSUME NEW s \in Session, NEW c \in ContextKind
  PROVE  LET t == ApplyContext(s, c) IN
         /\ t \in Session
         /\ t.dialect_template = s.dialect_template
         /\ t.override = s.override
         /\ t.dialect = s.dialect
         /\ Refuses(s, c) => t = s
         /\ ~Refuses(s, c) => t.lsp = [Lsp(s) EXCEPT !.context = InForce(c)]
<1>1. [Lsp(s) EXCEPT !.context = InForce(c)] \in Server
  BY LspType, InForceType DEF Server
<1> QED BY <1>1 DEF ApplyContext, Session

LEMMA WithDialectType ==
  ASSUME NEW s \in Session, NEW symbol \in {None} \cup Symbol
  PROVE  LET t == WithDialect(s, symbol) IN
         /\ t \in Session
         /\ t.lsp = None
         /\ t.dialect_template = symbol
         /\ t.override = s.override
         /\ t.dialect = IF symbol = None THEN None ELSE <<symbol, s.override>>
<1> DEFINE u == [s EXCEPT !.dialect_template = symbol]
<1>1. /\ u \in Session /\ u.dialect_template = symbol /\ u.override = s.override
  BY DEF Session
<1> QED BY <1>1, RebuiltType DEF WithDialect

LEMMA SetDialectPointerType ==
  ASSUME NEW s \in Session, NEW symbol \in {None} \cup Symbol, NEW c \in ContextKind
  PROVE  LET t == SetDialectPointer(s, symbol, c) IN
         /\ t \in Session
         /\ t.dialect_template = symbol
         /\ t.override = s.override
         /\ t.dialect = IF symbol = None THEN None ELSE <<symbol, s.override>>
<1>1. CASE c = None
  BY <1>1, WithDialectType DEF SetDialectPointer
<1>2. CASE c # None
  <2> DEFINE w == WithDialect(s, symbol)
  <2>1. /\ w \in Session /\ w.dialect_template = symbol /\ w.override = s.override
        /\ w.dialect = IF symbol = None THEN None ELSE <<symbol, s.override>>
    BY WithDialectType
  <2> HIDE DEF w
  <2>2. LET t == ApplyContext(w, c) IN
        /\ t \in Session /\ t.dialect_template = w.dialect_template
        /\ t.override = w.override /\ t.dialect = w.dialect
    BY <2>1, ApplyContextType
  <2>3. SetDialectPointer(s, symbol, c) = ApplyContext(w, c)
    BY <1>2 DEF SetDialectPointer, w
  <2> QED BY <2>1, <2>2, <2>3
<1> QED BY <1>1, <1>2

LEMMA SetOverrideType ==
  ASSUME NEW s \in Session, NEW o \in Override
  PROVE  LET t == SetOverride(s, o) IN
         /\ t \in Session
         /\ t.lsp = None
         /\ t.dialect_template = s.dialect_template
         /\ t.override = o
         /\ t.dialect = IF s.dialect_template = None THEN None
                        ELSE <<s.dialect_template, o>>
<1> DEFINE u == [s EXCEPT !.override = o]
<1>1. /\ u \in Session /\ u.dialect_template = s.dialect_template /\ u.override = o
  BY DEF Session
<1> QED BY <1>1, RebuiltType DEF SetOverride

-----------------------------------------------------------------------------
(* The editor's client *)

Client == [initialized : BOOLEAN, synced : [Uri -> Nat], lsp : Server]
Now    == [initialized |-> initialized, synced |-> synced, lsp |-> Lsp(session)]

LEMMA AttemptType ==
  ASSUME Typed, NEW c \in Client, NEW uri \in Uri, NEW force \in BOOLEAN
  PROVE  Attempt(c, uri, force) \in Client
<1> DEFINE e == EnsureInitialized(c)
<1>1. e \in Client
  BY DEF EnsureInitialized, Client, Server
<1> HIDE DEF e
<1>2. version[uri] \in Nat
  BY DEF Typed
<1> DEFINE sent == [e EXCEPT !.synced[uri] = version[uri]]
<1>3. sent \in Client
  BY <1>1, <1>2 DEF Client
<1>4. [sent EXCEPT !.lsp = Told(e.lsp, uri)] \in Client
  <2>1. e.lsp \in Server
    BY <1>1 DEF Client
  <2>2. Told(e.lsp, uri) \in Server
    BY <2>1, <1>2 DEF Server, Told
  <2> HIDE DEF sent
  <2> QED BY <1>3, <2>2 DEF Client
<1>5. SyncDocument(e, uri, force) \in Client
  BY <1>1, <1>3, <1>4 DEF SyncDocument
<1> QED BY <1>5 DEF Attempt, e

LEMMA ResetType ==
  ASSUME NEW c \in Client
  PROVE  /\ Reset(c) \in Client /\ Reset(c).lsp = c.lsp
         /\ ~Reset(c).initialized /\ \A uri \in Uri : Reset(c).synced[uri] = 0
  BY DEF Reset, Client

LEMMA RepeatedType ==
  ASSUME Typed, NEW c \in Client, NEW uri \in Uri, NEW force \in BOOLEAN
  PROVE  Repeated(c, uri, force) \in Client
<1>1. Attempt(c, uri, force) \in Client
  BY AttemptType
<1>2. Reset(Attempt(c, uri, force)) \in Client
  BY <1>1, ResetType
<1>3. Attempt(Reset(Attempt(c, uri, force)), uri, force) \in Client
  BY <1>2, AttemptType
<1> QED BY <1>1, <1>3 DEF Repeated

(* An attempt tells the server of documents, not of its dialect or schema.  *)
LEMMA AttemptKeeps ==
  ASSUME Typed, NEW c \in Client, NEW uri \in Uri, NEW force \in BOOLEAN
  PROVE  /\ Attempt(c, uri, force).lsp.dialect = c.lsp.dialect
         /\ Attempt(c, uri, force).lsp.context = c.lsp.context
<1> DEFINE e == EnsureInitialized(c)
<1>1. e \in Client /\ e.lsp.dialect = c.lsp.dialect /\ e.lsp.context = c.lsp.context
  BY DEF EnsureInitialized, Client, Server
<1> HIDE DEF e
<1>2. /\ SyncDocument(e, uri, force).lsp.dialect = e.lsp.dialect
      /\ SyncDocument(e, uri, force).lsp.context = e.lsp.context
  BY <1>1 DEF SyncDocument, Told, Client, Server
<1> QED BY <1>1, <1>2 DEF Attempt, e

LEMMA RepeatedKeeps ==
  ASSUME Typed, NEW c \in Client, NEW uri \in Uri, NEW force \in BOOLEAN
  PROVE  /\ Repeated(c, uri, force).lsp.dialect = c.lsp.dialect
         /\ Repeated(c, uri, force).lsp.context = c.lsp.context
<1> DEFINE first == Attempt(c, uri, force)
<1>1. /\ first \in Client
      /\ first.lsp.dialect = c.lsp.dialect /\ first.lsp.context = c.lsp.context
  BY AttemptType, AttemptKeeps
<1> HIDE DEF first
<1>2. Reset(first) \in Client /\ Reset(first).lsp = first.lsp
  BY <1>1, ResetType
<1>3. /\ Attempt(Reset(first), uri, force).lsp.dialect = first.lsp.dialect
      /\ Attempt(Reset(first), uri, force).lsp.context = first.lsp.context
  BY <1>2, AttemptKeeps
<1> QED BY <1>1, <1>3 DEF Repeated, first

-----------------------------------------------------------------------------
(* Type correctness *)

LEMMA TypedInit == Init => Typed
<1> SUFFICES ASSUME Init PROVE Typed
  OBVIOUS
<1>1. session \in Session
  <2>1. PICK o \in Override : session = NewSession(o)
    BY DEF Init
  <2> QED BY <2>1 DEF NewSession, Session, Dialects
<1>2. turns \in Seq(Selection)
  BY DEF Init
<1>3. selections \in Selections
  BY DEF Init, Idle, Selections, Stages
<1>4. version \in [Uri -> Nat \ {0}] /\ synced \in [Uri -> Nat]
  BY DEF Init
<1>5. initialized \in BOOLEAN
  BY Zenon DEF Init
<1>6. session_context \in ContextKind
  BY DEF Init, ContextKind
<1> QED BY <1>1, <1>2, <1>3, <1>4, <1>5, <1>6 DEF Typed

LEMMA StagedType ==
  ASSUME Typed, NEW i \in Selection, NEW stage \in Stages
  PROVE  Staged(i, stage) \in Selections
  BY DEF Typed, Staged, Selections

LEMMA HeadType ==
  ASSUME Typed, turns # <<>>
  PROVE  /\ Head(turns) \in Selection
         /\ Tail(turns) \in Seq(Selection)
         /\ Append(Tail(turns), Head(turns)) \in Seq(Selection)
         /\ selections[Head(turns)].symbol \in {None} \cup Symbol
  BY DEF Typed, Selections

LEMMA NowType == ASSUME Typed PROVE Now \in Client
  BY LspType DEF Typed, Now, Client

(* What Ask does, in terms of the client's attempt.                         *)
LEMMA AskIs ==
  ASSUME NEW uri \in Uri, NEW force \in BOOLEAN, Ask(uri, force)
  PROVE  LET last == Repeated(Now, uri, force) IN
         /\ session.dialect # None
         /\ session' = [session EXCEPT !.lsp = last.lsp]
         /\ initialized' = last.initialized
         /\ synced' = last.synced
         /\ answer' = [served |-> Served(last), text |-> last.lsp.docs[uri],
                       asked |-> version[uri]]
         /\ UNCHANGED <<session_context, manager, version, ghosts>>
  BY DEF Ask, Now

(* What Point does. *)
LEMMA PointType ==
  ASSUME Typed, NEW i \in Selection, NEW next \in Stages, Point(i, next)
  PROVE  /\ session' \in Session
         /\ selections' \in Selections
         /\ UNCHANGED session_context
<1>1. selections[i].symbol \in {None} \cup Symbol /\ session \in Session
      /\ session_context \in ContextKind
  BY DEF Typed, Selections
<1>2. session' \in Session
  BY <1>1, SetDialectPointerType DEF Point
<1>3. Staged(i, next) \in Selections
  BY StagedType
<1>4. Staged(i, "failed") \in Selections
  BY StagedType DEF Stages
<1> QED BY <1>2, <1>3, <1>4 DEF Point

LEMMA TypedStep == Typed /\ [Next]_vars => Typed'
<1> SUFFICES ASSUME Typed, [Next]_vars PROVE Typed'
  OBVIOUS
<1>1. ASSUME NEW i \in Selection, NEW symbol \in Symbol, NEW file \in BOOLEAN,
             Select(i, symbol, file)
      PROVE  Typed'
  <2>1. turns' \in Seq(Selection)
    BY <1>1 DEF Select, Typed
  <2>2. selections' \in Selections
    BY <1>1 DEF Select, Typed, Selections, Stages
  <2>3. UNCHANGED <<engine, client>>
    BY <1>1 DEF Select
  <2> QED BY <2>1, <2>2, <2>3 DEF Typed, engine, client
<1>2. ASSUME NEW i \in Selection, ModuleArrives(i)
      PROVE  Typed'
  <2>1. turns' \in Seq(Selection)
    BY <1>2 DEF ModuleArrives, Typed
  <2>2. selections' \in Selections /\ UNCHANGED <<engine, client>>
    BY <1>2, StagedType DEF ModuleArrives, Stages
  <2> QED BY <2>1, <2>2 DEF Typed, engine, client
<1>3. ASSUME NEW i \in Selection, ModuleFails(i)
      PROVE  Typed'
  <2>1. selections' \in Selections /\ UNCHANGED <<engine, client, turns>>
    BY <1>3, StagedType DEF ModuleFails, Stages
  <2> QED BY <2>1 DEF Typed, engine, client
<1>4. CASE Turn
  <2> DEFINE i == Head(turns)
  <2>1. turns # <<>> /\ (Loaded(i) \/ Fetched(i) \/ Bound(i))
    BY <1>4 DEF Turn
  <2>2. /\ i \in Selection /\ Tail(turns) \in Seq(Selection)
        /\ Append(Tail(turns), i) \in Seq(Selection)
    BY <2>1, HeadType
  <2> HIDE DEF i
  <2>3. CASE Loaded(i)
    <3> DEFINE next == IF selections[i].file THEN "bound" ELSE "fetched"
    <3>1. next \in Stages /\ Point(i, next)
      BY <2>3 DEF Loaded, Stages
    <3> HIDE DEF next
    <3>2. turns' \in Seq(Selection) /\ UNCHANGED client
      BY <2>2, <2>3 DEF Loaded
    <3>3. session' \in Session /\ selections' \in Selections /\ UNCHANGED session_context
      BY <2>2, <3>1, PointType
    <3> QED BY <3>2, <3>3 DEF Typed, client
  <2>4. CASE Fetched(i)
    <3>1. /\ selections' \in Selections /\ turns' \in Seq(Selection)
          /\ UNCHANGED <<engine, client>>
      BY <2>2, <2>4, StagedType DEF Fetched, Stages
    <3> QED BY <3>1 DEF Typed, engine, client
  <2>5. CASE Bound(i)
    <3>1. Point(i, "selected") /\ turns' \in Seq(Selection) /\ UNCHANGED client
      BY <2>2, <2>5 DEF Bound
    <3>2. session' \in Session /\ selections' \in Selections /\ UNCHANGED session_context
      BY <2>2, <3>1, PointType DEF Stages
    <3> QED BY <3>1, <3>2 DEF Typed, client
  <2> QED BY <2>1, <2>3, <2>4, <2>5
<1>5. ASSUME NEW c \in Context, SetContext(c)
      PROVE  Typed'
  <2>1. session' \in Session
    BY <1>5, ApplyContextType DEF SetContext, Typed, ContextKind
  <2>2. session_context' \in ContextKind
    BY <1>5 DEF SetContext, Typed, ContextKind
  <2> QED BY <1>5, <2>1, <2>2 DEF SetContext, Typed, manager, client
<1>6. CASE ClearContext
  <2>1. session' \in Session
    BY <1>6, ApplyContextType DEF ClearContext, Typed, ContextKind
  <2> QED BY <1>6, <2>1 DEF ClearContext, Typed, manager, client, ContextKind
<1>7. ASSUME NEW o \in Override, Configure(o)
      PROVE  Typed'
  <2>1. session' \in Session
    BY <1>7, SetOverrideType DEF Configure, Typed
  <2> QED BY <1>7, <2>1 DEF Configure, Typed, manager, client
<1>8. ASSUME NEW uri \in Uri, Edit(uri)
      PROVE  Typed'
  BY <1>8 DEF Edit, Typed, engine, manager
<1>9. ASSUME NEW uri \in Uri, NEW force \in BOOLEAN, Ask(uri, force)
      PROVE  Typed'
  <2> DEFINE last == Repeated(Now, uri, force)
  <2>1. last \in Client
    BY NowType, RepeatedType
  <2>2. /\ session' = [session EXCEPT !.lsp = last.lsp]
        /\ initialized' = last.initialized /\ synced' = last.synced
        /\ UNCHANGED <<session_context, manager, version>>
    BY <1>9, AskIs
  <2> HIDE DEF last
  <2>3. session' \in Session
    BY <2>1, <2>2 DEF Typed, Session, Client
  <2> QED BY <2>1, <2>2, <2>3 DEF Typed, Client, manager
<1>10. CASE UNCHANGED vars
  BY <1>10 DEF vars, engine, manager, client, Typed
<1> QED BY <1>1, <1>2, <1>3, <1>4, <1>5, <1>6, <1>7, <1>8, <1>9, <1>10 DEF Next

-----------------------------------------------------------------------------
(* ServerSpeaksTheDialect holds of each session by itself. *)

Speaks(s) ==
  /\ s.dialect = IF s.dialect_template = None THEN None
                 ELSE <<s.dialect_template, s.override>>
  /\ s.lsp # None => s.lsp.dialect = s.dialect

LEMMA LspSpeaks ==
  ASSUME NEW s \in Session, Speaks(s)
  PROVE  Lsp(s).dialect = s.dialect
  BY DEF Lsp, NewServer, Speaks

LEMMA ApplySpeaks ==
  ASSUME NEW s \in Session, NEW c \in ContextKind, Speaks(s)
  PROVE  Speaks(ApplyContext(s, c))
<1> DEFINE t == ApplyContext(s, c)
<1>1. CASE Refuses(s, c)
  BY <1>1, ApplyContextType
<1>2. CASE ~Refuses(s, c)
  <2>1. /\ t.dialect_template = s.dialect_template /\ t.override = s.override
        /\ t.dialect = s.dialect /\ t.lsp = [Lsp(s) EXCEPT !.context = InForce(c)]
    BY <1>2, ApplyContextType
  <2>2. t.lsp.dialect = s.dialect
    BY <2>1, LspSpeaks, LspType DEF Server
  <2> HIDE DEF t
  <2> QED BY <2>1, <2>2 DEF Speaks, t
<1> QED BY <1>1, <1>2

LEMMA PointSpeaks ==
  ASSUME NEW s \in Session, NEW symbol \in {None} \cup Symbol, NEW c \in ContextKind
  PROVE  Speaks(SetDialectPointer(s, symbol, c))
<1> DEFINE w == WithDialect(s, symbol)
<1>1. w \in Session /\ Speaks(w)
  <2>1. /\ w \in Session /\ w.lsp = None /\ w.dialect_template = symbol
        /\ w.override = s.override
        /\ w.dialect = IF symbol = None THEN None ELSE <<symbol, s.override>>
    BY WithDialectType
  <2> HIDE DEF w
  <2> QED BY <2>1 DEF Speaks
<1>2. SetDialectPointer(s, symbol, c) = IF c = None THEN w ELSE ApplyContext(w, c)
  BY DEF SetDialectPointer
<1> HIDE DEF w
<1> QED BY <1>1, <1>2, ApplySpeaks

LEMMA OverrideSpeaks ==
  ASSUME NEW s \in Session, NEW o \in Override
  PROVE  Speaks(SetOverride(s, o))
<1> DEFINE t == SetOverride(s, o)
<1>1. /\ t.lsp = None /\ t.dialect_template = s.dialect_template /\ t.override = o
      /\ t.dialect = IF s.dialect_template = None THEN None
                     ELSE <<s.dialect_template, o>>
  BY SetOverrideType
<1> HIDE DEF t
<1> QED BY <1>1 DEF Speaks, t

(* Point hands the runtime the dialect of a selection. *)
LEMMA PointIs ==
  ASSUME Typed, NEW i \in Selection, NEW next \in Stages, Point(i, next)
  PROVE  \E symbol \in {None} \cup Symbol :
           /\ symbol = selections[i].symbol
           /\ session' = SetDialectPointer(session, symbol, session_context)
           /\ stuck' = Throws(session, symbol, session_context)
  BY DEF Point, Typed, Selections

LEMMA SpeaksStep == Typed /\ Speaks(session) /\ [Next]_vars => Speaks(session)'
<1> SUFFICES ASSUME Typed, Speaks(session), [Next]_vars PROVE Speaks(session')
  BY DEF Speaks
<1> USE DEF Typed
<1>1. ASSUME NEW i \in Selection, NEW next \in Stages, Point(i, next)
      PROVE  Speaks(session')
  BY <1>1, PointIs, PointSpeaks
<1>2. CASE UNCHANGED session
  BY <1>2
<1>3. CASE Turn
  <2>1. PICK i \in Selection : Loaded(i) \/ Fetched(i) \/ Bound(i)
    BY <1>3, HeadType DEF Turn
  <2>2. CASE Loaded(i)
    BY <2>2, <1>1 DEF Loaded, Stages
  <2>3. CASE Fetched(i)
    BY <2>3, <1>2 DEF Fetched, engine
  <2>4. CASE Bound(i)
    BY <2>4, <1>1 DEF Bound, Stages
  <2> QED BY <2>1, <2>2, <2>3, <2>4
<1>4. ASSUME NEW c \in Context, SetContext(c)
      PROVE  Speaks(session')
  BY <1>4, ApplySpeaks DEF SetContext, ContextKind
<1>5. CASE ClearContext
  BY <1>5, ApplySpeaks DEF ClearContext, ContextKind
<1>6. ASSUME NEW o \in Override, Configure(o)
      PROVE  Speaks(session')
  BY <1>6, OverrideSpeaks DEF Configure
<1>7. ASSUME NEW uri \in Uri, NEW force \in BOOLEAN, Ask(uri, force)
      PROVE  Speaks(session')
  <2> DEFINE last == Repeated(Now, uri, force)
  <2>1. last \in Client /\ last.lsp.dialect = Now.lsp.dialect
    BY NowType, RepeatedType, RepeatedKeeps
  <2>2. Now.lsp.dialect = session.dialect
    BY LspSpeaks DEF Now
  <2>3. session' = [session EXCEPT !.lsp = last.lsp]
    BY <1>7, AskIs
  <2> HIDE DEF last
  <2> QED BY <2>1, <2>2, <2>3 DEF Speaks, Session
<1>8. ASSUME NEW i \in Selection, NEW symbol \in Symbol, NEW file \in BOOLEAN,
             Select(i, symbol, file) \/ ModuleArrives(i) \/ ModuleFails(i)
      PROVE  UNCHANGED session
  BY <1>8 DEF Select, ModuleArrives, ModuleFails, engine
<1>9. ASSUME NEW i \in Selection, ModuleArrives(i) \/ ModuleFails(i)
      PROVE  UNCHANGED session
  BY <1>9 DEF ModuleArrives, ModuleFails, engine
<1>10. ASSUME NEW uri \in Uri, Edit(uri)
      PROVE  UNCHANGED session
  BY <1>10 DEF Edit, engine
<1>11. CASE UNCHANGED vars
  BY <1>11, <1>2 DEF vars, engine
<1> QED BY <1>2, <1>3, <1>4, <1>5, <1>6, <1>7, <1>8, <1>9, <1>10, <1>11 DEF Next

(* No server outlives the dialect it was built for, and what was set on a  *)
(* session holds for every dialect selected later: whichever of the calls  *)
(* that rebuild the dialect come in whichever order.                       *)
THEOREM ServerFollowsTheDialect == Spec => []ServerSpeaksTheDialect
<1>1. Init => Typed /\ Speaks(session)
  <2> SUFFICES ASSUME Init PROVE Speaks(session)
    BY TypedInit
  <2>1. PICK o \in Override : session = NewSession(o)
    BY DEF Init
  <2> QED BY <2>1 DEF NewSession, Speaks
<1>2. Typed /\ Speaks(session) /\ [Next]_vars => (Typed /\ Speaks(session))'
  BY TypedStep, SpeaksStep
<1>3. Speaks(session) => ServerSpeaksTheDialect
  BY DEF Speaks, ServerSpeaksTheDialect
<1> QED BY <1>1, <1>2, <1>3, PTL DEF Spec

-----------------------------------------------------------------------------
(* ManagerShowsTheDialect is inductive: a turn either leaves a selection   *)
(* that has more turns to come, or ends one.                               *)

LEMMA ManagerStep ==
  Typed /\ ManagerShowsTheDialect /\ [Next]_vars => ManagerShowsTheDialect'
<1> SUFFICES ASSUME Typed, ManagerShowsTheDialect, [Next]_vars
             PROVE  ManagerShowsTheDialect'
  OBVIOUS
<1>a. ASSUME NEW q \in Seq(Selection), NEW i \in Selection
      PROVE  Append(q, i) # <<>>
  <2>1. Len(Append(q, i)) = Len(q) + 1 /\ Len(q) \in Nat /\ Len(<<>>) = 0
    OBVIOUS
  <2> QED BY <2>1
<1>b. turns \in Seq(Selection) /\ session \in Session /\ session_context \in ContextKind
  BY DEF Typed
<1>1. ASSUME NEW i \in Selection, NEW symbol \in Symbol, NEW file \in BOOLEAN,
             Select(i, symbol, file)
      PROVE  ManagerShowsTheDialect'
  BY <1>1, <1>a, <1>b DEF Select, ManagerShowsTheDialect, engine, ghosts
<1>2. ASSUME NEW i \in Selection, ModuleArrives(i)
      PROVE  ManagerShowsTheDialect'
  BY <1>2, <1>a, <1>b DEF ModuleArrives, ManagerShowsTheDialect
<1>3. ASSUME NEW i \in Selection, ModuleFails(i)
      PROVE  ManagerShowsTheDialect'
  BY <1>3 DEF ModuleFails, ManagerShowsTheDialect, engine, ghosts
<1>4. CASE Turn
  <2> DEFINE i == Head(turns)
  <2>1. i \in Selection /\ Tail(turns) \in Seq(Selection)
    BY <1>4, HeadType DEF Turn
  <2>2. Loaded(i) \/ Fetched(i) \/ Bound(i)
    BY <1>4 DEF Turn
  <2> HIDE DEF i
  <2>3. CASE Loaded(i)
    BY <2>1, <2>3, <1>a DEF Loaded, ManagerShowsTheDialect
  <2>4. CASE Fetched(i)
    BY <2>1, <2>4, <1>a DEF Fetched, ManagerShowsTheDialect
  <2>5. CASE Bound(i)
    <3>1. Point(i, "selected")
          /\ active' = IF stuck' THEN active ELSE selections[i].symbol
      BY <2>5 DEF Bound
    <3>2. session'.dialect_template = selections[i].symbol
      <4>1. "selected" \in Stages
        BY DEF Stages
      <4>2. PICK symbol \in {None} \cup Symbol :
              /\ symbol = selections[i].symbol
              /\ session' = SetDialectPointer(session, symbol, session_context)
        BY <2>1, <3>1, <4>1, PointIs
      <4> QED BY <4>2, <1>b, SetDialectPointerType
    <3> QED BY <3>1, <3>2 DEF ManagerShowsTheDialect
  <2> QED BY <2>2, <2>3, <2>4, <2>5
<1>5. ASSUME UNCHANGED <<turns, stuck, active>>,
             session'.dialect_template = session.dialect_template
      PROVE  ManagerShowsTheDialect'
  BY <1>5 DEF ManagerShowsTheDialect
<1>6. ASSUME NEW c \in Context, SetContext(c)
      PROVE  ManagerShowsTheDialect'
  BY <1>5, <1>6, <1>b, ApplyContextType DEF SetContext, manager, ContextKind
<1>7. CASE ClearContext
  BY <1>5, <1>7, <1>b, ApplyContextType DEF ClearContext, manager, ContextKind
<1>8. ASSUME NEW o \in Override, Configure(o)
      PROVE  ManagerShowsTheDialect'
  BY <1>5, <1>8, <1>b, SetOverrideType DEF Configure, manager
<1>9. ASSUME NEW uri \in Uri, Edit(uri)
      PROVE  ManagerShowsTheDialect'
  BY <1>5, <1>9 DEF Edit, engine, manager, ghosts
<1>10. ASSUME NEW uri \in Uri, NEW force \in BOOLEAN, Ask(uri, force)
      PROVE  ManagerShowsTheDialect'
  BY <1>5, <1>10, <1>b, AskIs DEF manager, ghosts, Session
<1>11. CASE UNCHANGED vars
  BY <1>5, <1>11 DEF vars, engine, manager, ghosts
<1> QED BY <1>1, <1>2, <1>3, <1>4, <1>6, <1>7, <1>8, <1>9, <1>10, <1>11 DEF Next

(* However many selections overlap, and whatever fails to load, the engine *)
(* has the dialect the manager shows once nothing is about to run, unless  *)
(* a switch failed half way (selectPreset).                                *)
THEOREM ManagerIsRight == Spec => []ManagerShowsTheDialect
<1>1. Init => ManagerShowsTheDialect
  BY DEF Init, NewSession, ManagerShowsTheDialect
<1> QED BY <1>1, TypedInit, TypedStep, ManagerStep, PTL DEF Spec

-----------------------------------------------------------------------------
(* The schema context.  The engine remembers what it must give the next    *)
(* server: as long as that is what the page wants, it is something no      *)
(* server with a dialect refuses.                                          *)

Remembered == wanted # Unknown =>
  /\ wanted = InForce(session_context)
  /\ session_context # None => session_context \in Context /\ session_context.valid

LEMMA RememberedStep == Typed /\ Remembered /\ [Next]_vars => Remembered'
<1> SUFFICES ASSUME Typed, Remembered, [Next]_vars PROVE Remembered'
  OBVIOUS
<1>1. ASSUME UNCHANGED <<wanted, session_context>> PROVE Remembered'
  BY <1>1 DEF Remembered
<1>2. ASSUME NEW i \in Selection, NEW symbol \in Symbol, NEW file \in BOOLEAN,
             Select(i, symbol, file)
      PROVE  Remembered'
  BY <1>1, <1>2 DEF Select, engine, ghosts
<1>3. ASSUME NEW i \in Selection, ModuleArrives(i) \/ ModuleFails(i)
      PROVE  Remembered'
  BY <1>1, <1>3 DEF ModuleArrives, ModuleFails, engine, ghosts
<1>4. CASE Turn
  BY <1>1, <1>4 DEF Turn, Loaded, Fetched, Bound, Point, engine, ghosts
<1>5. ASSUME NEW c \in Context, SetContext(c)
      PROVE  Remembered'
  <2> DEFINE taken == ~Refuses(session, c) /\ c.valid
  <2>1. /\ session_context' = IF c.kind = "json" \/ taken THEN c ELSE session_context
        /\ wanted' = IF taken THEN InForce(c) ELSE Unknown
    BY <1>5 DEF SetContext
  <2>2. taken => c.valid
    OBVIOUS
  <2> HIDE DEF taken
  <2>3. CASE taken
    BY <2>1, <2>2, <2>3 DEF Remembered
  <2>4. CASE ~taken
    BY <2>1, <2>4 DEF Remembered
  <2> QED BY <2>3, <2>4
<1>6. CASE ClearContext
  BY <1>6 DEF ClearContext, Remembered, InForce
<1>7. ASSUME NEW o \in Override, Configure(o)
      PROVE  Remembered'
  BY <1>1, <1>7 DEF Configure
<1>8. ASSUME NEW uri \in Uri, Edit(uri)
      PROVE  Remembered'
  BY <1>1, <1>8 DEF Edit, engine, ghosts
<1>9. ASSUME NEW uri \in Uri, NEW force \in BOOLEAN, Ask(uri, force)
      PROVE  Remembered'
  BY <1>1, <1>9, AskIs DEF ghosts
<1>10. CASE UNCHANGED vars
  BY <1>1, <1>10 DEF vars, engine, ghosts
<1> QED BY <1>2, <1>3, <1>4, <1>5, <1>6, <1>7, <1>8, <1>9, <1>10 DEF Next

(* A context that is taken is the one in force.                             *)
LEMMA TakenIsInForce ==
  ASSUME NEW s \in Session, NEW c \in ContextKind, ~Refuses(s, c)
  PROVE  ServerContext(ApplyContext(s, c)) = InForce(c)
<1> DEFINE t == ApplyContext(s, c)
<1>1. t.lsp = [Lsp(s) EXCEPT !.context = InForce(c)]
  BY ApplyContextType
<1>2. Lsp(s) \in Server
  BY LspType
<1>3. [Lsp(s) EXCEPT !.context = InForce(c)] \in Server
  BY <1>2, InForceType DEF Server
<1>4. [Lsp(s) EXCEPT !.context = InForce(c)].context = InForce(c)
  BY <1>2 DEF Server
<1> HIDE DEF t
<1>5. t.lsp # None
  BY <1>1, <1>3, NoneAssumption
<1> QED BY <1>1, <1>4, <1>5 DEF ServerContext, Lsp, t

(* A switch gives the new server what the engine remembers.                 *)
LEMMA PointKeeps ==
  ASSUME Typed, Remembered, NEW i \in Selection, NEW next \in Stages, Point(i, next)
  PROVE  ContextIsKept'
<1> SUFFICES ASSUME session'.dialect # None, wanted # Unknown
             PROVE  ServerContext(session') = wanted
  BY DEF Point, ContextIsKept
<1>1. PICK symbol \in {None} \cup Symbol :
        session' = SetDialectPointer(session, symbol, session_context)
  BY PointIs
<1>2. session \in Session /\ session_context \in ContextKind
  BY DEF Typed
<1> DEFINE w == WithDialect(session, symbol)
<1>3. w \in Session /\ w.lsp = None
  BY <1>2, WithDialectType
<1>4. session' = IF session_context = None THEN w ELSE ApplyContext(w, session_context)
  BY <1>1 DEF SetDialectPointer
<1> HIDE DEF w
<1>5. CASE session_context = None
  <2>1. wanted = None
    BY <1>5 DEF Remembered, InForce
  <2> QED BY <1>3, <1>4, <1>5, <2>1 DEF ServerContext, Lsp, NewServer
<1>6. CASE session_context # None
  <2>1. w.dialect = session'.dialect
    BY <1>2, <1>3, <1>4, <1>6, ApplyContextType
  <2>2. ~Refuses(w, session_context)
    BY <1>6, <2>1 DEF Refuses, Remembered
  <2> QED BY <1>2, <1>3, <1>4, <1>6, <2>2, TakenIsInForce DEF Remembered
<1> QED BY <1>5, <1>6

LEMMA ContextStep ==
  Typed /\ Remembered /\ ContextSurvivesSwitches /\ [Next]_vars
    => ContextSurvivesSwitches'
<1> SUFFICES ASSUME Typed, Remembered, ContextSurvivesSwitches, [Next]_vars
             PROVE  ContextSurvivesSwitches'
  OBVIOUS
<1>a. session \in Session /\ session_context \in ContextKind
  BY DEF Typed
<1>1. ASSUME UNCHANGED <<session, wanted, overridden>> PROVE ContextSurvivesSwitches'
  BY <1>1 DEF ContextSurvivesSwitches, ContextIsKept, ServerContext
<1>2. ASSUME NEW i \in Selection, NEW symbol \in Symbol, NEW file \in BOOLEAN,
             Select(i, symbol, file)
      PROVE  ContextSurvivesSwitches'
  BY <1>1, <1>2 DEF Select, engine, ghosts
<1>3. ASSUME NEW i \in Selection, ModuleArrives(i) \/ ModuleFails(i)
      PROVE  ContextSurvivesSwitches'
  BY <1>1, <1>3 DEF ModuleArrives, ModuleFails, engine, ghosts
<1>4. CASE Turn
  <2>1. PICK i \in Selection : Loaded(i) \/ Fetched(i) \/ Bound(i)
    BY <1>4, HeadType DEF Turn
  <2>2. ASSUME NEW next \in Stages, Point(i, next) PROVE ContextSurvivesSwitches'
    BY <2>2, PointKeeps DEF ContextSurvivesSwitches
  <2>3. CASE Loaded(i)
    BY <2>2, <2>3 DEF Loaded, Stages
  <2>4. CASE Fetched(i)
    BY <2>4, <1>1 DEF Fetched, engine, ghosts
  <2>5. CASE Bound(i)
    BY <2>2, <2>5 DEF Bound, Stages
  <2> QED BY <2>1, <2>3, <2>4, <2>5
<1>5. ASSUME NEW c \in Context, SetContext(c)
      PROVE  ContextSurvivesSwitches'
  <2> DEFINE taken == ~Refuses(session, c) /\ c.valid
  <2>1. /\ session' = ApplyContext(session, c)
        /\ wanted' = IF taken THEN InForce(c) ELSE Unknown
    BY <1>5 DEF SetContext
  <2>2. CASE taken
    BY <1>a, <2>1, <2>2, TakenIsInForce
       DEF ContextSurvivesSwitches, ContextIsKept, ServerContext, ContextKind
  <2>3. CASE ~taken
    BY <2>1, <2>3 DEF ContextSurvivesSwitches, ContextIsKept
  <2> QED BY <2>2, <2>3
<1>6. CASE ClearContext
  <2>1. session' = ApplyContext(session, None) /\ wanted' = None
    BY <1>6 DEF ClearContext
  <2>2. None \in ContextKind /\ InForce(None) = None
    BY DEF ContextKind, InForce
  <2>3. CASE Refuses(session, None)
    <3>1. session.dialect = None /\ session' = session
      BY <1>a, <2>1, <2>2, <2>3, ApplyContextType DEF Refuses
    <3> QED BY <3>1 DEF ContextSurvivesSwitches, ContextIsKept
  <2>4. CASE ~Refuses(session, None)
    BY <1>a, <2>1, <2>2, <2>4, TakenIsInForce
       DEF ContextSurvivesSwitches, ContextIsKept, ServerContext
  <2> QED BY <2>3, <2>4
<1>7. ASSUME NEW o \in Override, Configure(o)
      PROVE  ContextSurvivesSwitches'
  BY <1>7 DEF Configure, ContextSurvivesSwitches
<1>8. ASSUME NEW uri \in Uri, Edit(uri)
      PROVE  ContextSurvivesSwitches'
  BY <1>1, <1>8 DEF Edit, engine, ghosts
<1>9. ASSUME NEW uri \in Uri, NEW force \in BOOLEAN, Ask(uri, force)
      PROVE  ContextSurvivesSwitches'
  <2> DEFINE last == Repeated(Now, uri, force)
  <2>1. last \in Client /\ last.lsp.context = Now.lsp.context
    BY NowType, RepeatedType, RepeatedKeeps
  <2>2. /\ session' = [session EXCEPT !.lsp = last.lsp]
        /\ UNCHANGED <<wanted, overridden>>
    BY <1>9, AskIs DEF ghosts
  <2> HIDE DEF last
  <2>3. session'.dialect = session.dialect /\ session'.lsp = last.lsp
    BY <1>a, <2>2 DEF Session
  <2>4. last.lsp # None
    BY <2>1, NoneAssumption DEF Client
  <2>5. ServerContext(session') = ServerContext(session)
    BY <2>1, <2>3, <2>4 DEF ServerContext, Lsp, Now
  <2> QED BY <2>2, <2>3, <2>5 DEF ContextSurvivesSwitches, ContextIsKept, ServerContext
<1>10. CASE UNCHANGED vars
  BY <1>1, <1>10 DEF vars, engine, ghosts
<1> QED BY <1>2, <1>3, <1>4, <1>5, <1>6, <1>7, <1>8, <1>9, <1>10 DEF Next

(* The schema the page has set is the one its server checks against, after *)
(* any number of dialect switches, until a version or a flag is set (which *)
(* drops the server and gives the new one nothing).                        *)
THEOREM SchemaSurvives == Spec => []ContextSurvivesSwitches
<1>1. Init => Remembered /\ ContextSurvivesSwitches
  <2> SUFFICES ASSUME Init PROVE Remembered /\ ContextSurvivesSwitches
    OBVIOUS
  <2>1. PICK o \in Override : session = NewSession(o)
    BY DEF Init
  <2> QED BY <2>1 DEF Init, NewSession, Remembered, InForce,
                      ContextSurvivesSwitches, ContextIsKept
<1> QED BY <1>1, TypedInit, TypedStep, RememberedStep, ContextStep, PTL DEF Spec

-----------------------------------------------------------------------------
(* The editor's answers.  The client may be wrong about the server: it was *)
(* replaced and has neither its handshake nor its documents.  But a server *)
(* that has the handshake has every document as the client last sent it.   *)

Consistent(c) ==
  /\ ~c.initialized => \A uri \in Uri : c.synced[uri] = 0
  /\ Served(c) => \A uri \in Uri : c.synced[uri] = 0 \/ c.lsp.docs[uri] = c.synced[uri]

LEMMA AttemptAnswers ==
  ASSUME Typed, NEW c \in Client, Consistent(c), NEW uri \in Uri, NEW force \in BOOLEAN
  PROVE  LET r == Attempt(c, uri, force) IN
         /\ Consistent(r)
         /\ Served(r) => r.lsp.docs[uri] = version[uri]
         /\ ~c.initialized => Served(r)
<1> DEFINE e == EnsureInitialized(c)
           r == SyncDocument(e, uri, force)
<1>1. /\ e \in Client /\ Consistent(e) /\ e.initialized
      /\ ~c.initialized => Served(e)
  BY DEF EnsureInitialized, Client, Server, Consistent, Served
<1> HIDE DEF e
<1>2. version[uri] \in Nat \ {0}
  BY DEF Typed
<1>3. CASE e.synced[uri] = version[uri] /\ ~force
  <2>1. r = e
    BY <1>3 DEF SyncDocument
  <2>2. Served(e) => e.lsp.docs[uri] = version[uri]
    BY <1>1, <1>2, <1>3 DEF Consistent
  <2> HIDE DEF r
  <2> QED BY <1>1, <2>1, <2>2 DEF Attempt, e, r
<1>4. CASE ~(e.synced[uri] = version[uri] /\ ~force)
  <2> DEFINE sent == [e EXCEPT !.synced[uri] = version[uri]]
  <2>1. /\ sent.initialized /\ sent.lsp = e.lsp
        /\ sent.synced = [e.synced EXCEPT ![uri] = version[uri]]
    BY <1>1 DEF Client
  <2>2. r = IF ~Served(e) THEN sent ELSE [sent EXCEPT !.lsp = Told(e.lsp, uri)]
    BY <1>4 DEF SyncDocument, Served
  <2>3. CASE ~Served(e)
    <3>1. r = sent /\ ~Served(r) /\ r.initialized
      BY <2>1, <2>2, <2>3 DEF Served
    <3> HIDE DEF r
    <3> QED BY <1>1, <2>3, <3>1 DEF Consistent, Attempt, e, r
  <2>4. CASE Served(e)
    <3>1. r = [sent EXCEPT !.lsp = Told(e.lsp, uri)]
      BY <2>2, <2>4
    <3>2. /\ r.initialized
          /\ r.synced = [e.synced EXCEPT ![uri] = version[uri]]
          /\ r.lsp = Told(e.lsp, uri)
      BY <1>1, <3>1 DEF Client
    <3> HIDE DEF r, sent
    <3>3. /\ Told(e.lsp, uri).lifecycle = e.lsp.lifecycle
          /\ Told(e.lsp, uri).docs = [e.lsp.docs EXCEPT ![uri] = version[uri]]
      BY <1>1 DEF Told, Client, Server
    <3>4. Served(r) /\ r.lsp.docs[uri] = version[uri]
      BY <1>1, <2>4, <3>2, <3>3 DEF Served, Client, Server
    <3>5. ASSUME NEW other \in Uri
          PROVE  r.synced[other] = 0 \/ r.lsp.docs[other] = r.synced[other]
      BY <1>1, <2>4, <3>2, <3>3 DEF Consistent, Client, Server
    <3>6. Consistent(r)
      BY <3>2, <3>5 DEF Consistent
    <3> QED BY <3>4, <3>6 DEF Attempt, e, r
  <2> QED BY <2>3, <2>4
<1> QED BY <1>3, <1>4

LEMMA RepeatedAnswers ==
  ASSUME Typed, NEW c \in Client, Consistent(c), NEW uri \in Uri, NEW force \in BOOLEAN
  PROVE  LET r == Repeated(c, uri, force) IN
         Consistent(r) /\ Served(r) /\ r.lsp.docs[uri] = version[uri]
<1> DEFINE first == Attempt(c, uri, force)
<1>1. /\ first \in Client /\ Consistent(first)
      /\ Served(first) => first.lsp.docs[uri] = version[uri]
  BY AttemptType, AttemptAnswers
<1> HIDE DEF first
<1>2. Repeated(c, uri, force)
        = IF Served(first) THEN first ELSE Attempt(Reset(first), uri, force)
  BY DEF Repeated, first
<1>3. CASE Served(first)
  BY <1>1, <1>2, <1>3
<1>4. CASE ~Served(first)
  <2> DEFINE c2 == Reset(first)
  <2>1. c2 \in Client /\ c2.lsp = first.lsp /\ ~c2.initialized
        /\ \A u \in Uri : c2.synced[u] = 0
    BY <1>1, ResetType
  <2> HIDE DEF c2
  <2>2. Consistent(c2)
    BY <2>1 DEF Consistent
  <2> DEFINE last == Attempt(c2, uri, force)
  <2>3. Consistent(last) /\ Served(last) /\ last.lsp.docs[uri] = version[uri]
    BY <2>1, <2>2, AttemptAnswers
  <2> QED BY <1>2, <1>4, <2>3 DEF c2
<1> QED BY <1>3, <1>4

(* Whatever happens to the session leaves the client no more wrong: the    *)
(* server is new, or keeps its handshake and its documents.                *)
LEMMA ApplyKeepsDocs ==
  ASSUME NEW s \in Session, NEW c \in ContextKind
  PROVE  LET l == Lsp(ApplyContext(s, c)) IN
         l.lifecycle = Lsp(s).lifecycle /\ l.docs = Lsp(s).docs
<1>1. CASE Refuses(s, c)
  BY <1>1, ApplyContextType
<1>2. CASE ~Refuses(s, c)
  <2> DEFINE t == ApplyContext(s, c)
  <2>1. t.lsp = [Lsp(s) EXCEPT !.context = InForce(c)]
    BY <1>2, ApplyContextType
  <2>2. /\ [Lsp(s) EXCEPT !.context = InForce(c)] \in Server
        /\ [Lsp(s) EXCEPT !.context = InForce(c)].lifecycle = Lsp(s).lifecycle
        /\ [Lsp(s) EXCEPT !.context = InForce(c)].docs = Lsp(s).docs
    BY LspType, InForceType DEF Server
  <2> HIDE DEF t
  <2>3. Lsp(t) = t.lsp
    BY <2>1, <2>2, NoneAssumption DEF Lsp
  <2> QED BY <2>1, <2>2, <2>3 DEF t
<1> QED BY <1>1, <1>2

LEMMA PointStartsOver ==
  ASSUME Typed, NEW i \in Selection, NEW next \in Stages, Point(i, next)
  PROVE  Lsp(session').lifecycle = "Uninitialized"
<1>1. PICK symbol \in {None} \cup Symbol :
        session' = SetDialectPointer(session, symbol, session_context)
  BY PointIs
<1>2. session \in Session /\ session_context \in ContextKind
  BY DEF Typed
<1> DEFINE w == WithDialect(session, symbol)
<1>3. w \in Session /\ w.lsp = None
  BY <1>2, WithDialectType
<1>4. session' = IF session_context = None THEN w ELSE ApplyContext(w, session_context)
  BY <1>1 DEF SetDialectPointer
<1> HIDE DEF w
<1>5. Lsp(w).lifecycle = "Uninitialized"
  BY <1>3 DEF Lsp, NewServer
<1> QED BY <1>2, <1>3, <1>4, <1>5, ApplyKeepsDocs

LEMMA NowIs ==
  /\ Now.initialized = initialized /\ Now.synced = synced /\ Now.lsp = Lsp(session)
  /\ Now'.initialized = initialized' /\ Now'.synced = synced' /\ Now'.lsp = Lsp(session')
  BY DEF Now

LEMMA ConsistentStep == Typed /\ Consistent(Now) /\ [Next]_vars => Consistent(Now)'
<1> SUFFICES ASSUME Typed, Consistent(Now), [Next]_vars PROVE Consistent(Now')
  BY DEF Consistent, Served
<1>a. session \in Session /\ session_context \in ContextKind
  BY DEF Typed
<1>1. ASSUME UNCHANGED <<session, initialized, synced>> PROVE Consistent(Now')
  BY <1>1 DEF Consistent, Served, Now
<1>2. ASSUME UNCHANGED client,
             \/ Lsp(session').lifecycle = "Uninitialized"
             \/ /\ Lsp(session').lifecycle = Lsp(session).lifecycle
                /\ Lsp(session').docs = Lsp(session).docs
      PROVE  Consistent(Now')
  BY <1>2, NowIs DEF Consistent, Served, client
<1>3. ASSUME NEW i \in Selection, NEW symbol \in Symbol, NEW file \in BOOLEAN,
             Select(i, symbol, file)
      PROVE  Consistent(Now')
  BY <1>1, <1>3 DEF Select, engine, client
<1>4. ASSUME NEW i \in Selection, ModuleArrives(i) \/ ModuleFails(i)
      PROVE  Consistent(Now')
  BY <1>1, <1>4 DEF ModuleArrives, ModuleFails, engine, client
<1>5. CASE Turn
  <2>1. PICK i \in Selection : Loaded(i) \/ Fetched(i) \/ Bound(i)
    BY <1>5, HeadType DEF Turn
  <2>2. CASE Loaded(i)
    BY <1>2, <2>2, PointStartsOver DEF Loaded, Stages
  <2>3. CASE Fetched(i)
    BY <1>1, <2>3 DEF Fetched, engine, client
  <2>4. CASE Bound(i)
    BY <1>2, <2>4, PointStartsOver DEF Bound, Stages
  <2> QED BY <2>1, <2>2, <2>3, <2>4
<1>6. ASSUME NEW c \in Context, SetContext(c)
      PROVE  Consistent(Now')
  BY <1>a, <1>2, <1>6, ApplyKeepsDocs DEF SetContext, ContextKind
<1>7. CASE ClearContext
  BY <1>a, <1>2, <1>7, ApplyKeepsDocs DEF ClearContext, ContextKind
<1>8. ASSUME NEW o \in Override, Configure(o)
      PROVE  Consistent(Now')
  <2>1. session'.lsp = None
    BY <1>a, <1>8, SetOverrideType DEF Configure
  <2> QED BY <1>2, <1>8, <2>1 DEF Configure, Lsp, NewServer
<1>9. ASSUME NEW uri \in Uri, Edit(uri)
      PROVE  Consistent(Now')
  BY <1>1, <1>9 DEF Edit, engine
<1>10. ASSUME NEW uri \in Uri, NEW force \in BOOLEAN, Ask(uri, force)
       PROVE  Consistent(Now')
  <2> DEFINE last == Repeated(Now, uri, force)
  <2>1. last \in Client /\ Consistent(last)
    BY NowType, RepeatedType, RepeatedAnswers
  <2>2. /\ session' = [session EXCEPT !.lsp = last.lsp]
        /\ initialized' = last.initialized /\ synced' = last.synced
    BY <1>10, AskIs
  <2> HIDE DEF last
  <2>3. session'.lsp = last.lsp /\ last.lsp # None
    BY <1>a, <2>1, <2>2, NoneAssumption DEF Session, Client
  <2>4. Lsp(session') = last.lsp
    BY <2>3 DEF Lsp
  <2> QED BY <2>1, <2>2, <2>4, NowIs DEF Consistent, Served
<1>11. CASE UNCHANGED vars
  BY <1>1, <1>11 DEF vars, engine, client
<1> QED BY <1>3, <1>4, <1>5, <1>6, <1>7, <1>8, <1>9, <1>10, <1>11 DEF Next

(* Every answer the editor gets is given by a server that has completed    *)
(* its handshake, about the text of the moment it asked, whatever replaced *)
(* the server in between (LspSession.request).                             *)
THEOREM AnswersStayCurrent == Spec => []AnswersAreCurrent
<1>1. Init => Consistent(Now) /\ AnswersAreCurrent
  BY DEF Init, Consistent, Served, Now, Lsp, NewSession, NewServer, AnswersAreCurrent
<1>2. Typed /\ Consistent(Now) /\ AnswersAreCurrent /\ [Next]_vars => AnswersAreCurrent'
  <2> SUFFICES ASSUME Typed, Consistent(Now), AnswersAreCurrent, [Next]_vars
               PROVE  AnswersAreCurrent'
    OBVIOUS
  <2>1. ASSUME NEW uri \in Uri, NEW force \in BOOLEAN, Ask(uri, force)
        PROVE  answer'.served /\ answer'.text = answer'.asked
    <3> DEFINE last == Repeated(Now, uri, force)
    <3>1. Served(last) /\ last.lsp.docs[uri] = version[uri]
      BY NowType, RepeatedAnswers
    <3>2. answer' = [served |-> Served(last), text |-> last.lsp.docs[uri],
                     asked |-> version[uri]]
      BY <2>1, AskIs
    <3> HIDE DEF last
    <3>3. answer'.served = Served(last) /\ answer'.text = last.lsp.docs[uri]
          /\ answer'.asked = version[uri]
      BY <3>2
    <3> QED BY <3>1, <3>3
  <2>2. CASE \E uri \in Uri, force \in BOOLEAN : Ask(uri, force)
    BY <2>1, <2>2 DEF AnswersAreCurrent
  <2>3. CASE UNCHANGED answer
    BY <2>3 DEF AnswersAreCurrent
  <2>4. (\E uri \in Uri, force \in BOOLEAN : Ask(uri, force)) \/ UNCHANGED answer
    BY DEF Next, Select, ModuleArrives, ModuleFails, Turn, Loaded, Fetched, Bound,
           SetContext, ClearContext, Configure, Edit, client, vars
  <2> QED BY <2>2, <2>3, <2>4
<1> QED BY <1>1, <1>2, TypedInit, TypedStep, ConsistentStep, PTL DEF Spec

=============================================================================
