----------------------------- MODULE LspHostState -----------------------------
(***************************************************************************)
(* The operations of LspHost (syntaqlite/src/lsp/host.rs) and of its       *)
(* DocumentStore, as functions from host states to host states: LspHost    *)
(* runs them one at a time, LspServer composes them in its handlers.       *)
(*                                                                         *)
(* To the fields of LspData a host adds                                    *)
(*   analysis  the cached analysis of each document, None when dirty       *)
(*   tokens    the cached semantic tokens: the analysis they come from     *)
(*   layer     the document whose DDL the Document layer of each catalog   *)
(*             holds since the last run over it                            *)
(***************************************************************************)
EXTENDS LspData

NoneCached == [u \in Uri |-> None]

NewHost ==
  [docs |-> [u \in Uri |-> None], base |-> DialectOnly, map |-> None,
   config |-> DefaultConfig, defs |-> {}, analysis |-> NoneCached,
   tokens |-> NoneCached, layer |-> [c \in Slots |-> None]]

-----------------------------------------------------------------------------
(* Documents *)

Invalidated(h, u) == [h EXCEPT !.analysis[u] = None, !.tokens[u] = None]
InvalidatedAll(h) == [h EXCEPT !.analysis = NoneCached, !.tokens = NoneCached]

Opened(h, u, text, lang) ==
  [Invalidated(h, u) EXCEPT !.docs[u] = [text |-> text, lang |-> lang]]

(* A plausible slip: the tokens outlive the text they were derived from *)
UpdatedKeepingTokens(h, u, text) ==
  IF h.docs[u] = None THEN Opened(h, u, text, None)
  ELSE [h EXCEPT !.docs[u].text = text, !.analysis[u] = None]

(* An update of a document that is not open opens it, without a language.   *)
Updated(h, u, text) ==
  IF h.docs[u] = None THEN Opened(h, u, text, None)
  ELSE [Invalidated(h, u) EXCEPT !.docs[u].text = text]

Closed(h, u) == [Invalidated(h, u) EXCEPT !.docs[u] = None]

-----------------------------------------------------------------------------
(* Schema and configuration *)

WithConfig(h, c) == InvalidatedAll([h EXCEPT !.config = c])

WithSchema(h, b) ==
  InvalidatedAll([h EXCEPT !.base = b, !.layer["user"] = None])

WithMap(h, m) ==
  InvalidatedAll([h EXCEPT !.map = m,
    !.layer = [c \in Slots |-> IF c = "user" THEN h.layer[c] ELSE None]])

(* Nothing is invalidated: an analysis keeps the definitions it was given.  *)
WithDefinitions(h, f) == [h EXCEPT !.defs = h.defs \cup {f}]

-----------------------------------------------------------------------------
(* Analyses *)

(* A run over the document u puts its DDL in the catalog of its slot. *)
NotRan(h, u, slot) == h  \* a slip: the run is left out
Ran(h, u, slot) == [h EXCEPT !.layer[slot] = h.docs[u]]

Analyse(h, u) ==
  [Ran(h, u, SlotOf(h, u)) EXCEPT !.analysis[u] = Analysed(h, u)]

(* A plausible slip: also for a document that is not open *)
EnsuredUnopened(h, u) == IF h.analysis[u] # None THEN h ELSE Analyse(h, u)
Ensured(h, u) ==
  IF h.docs[u] = None \/ h.analysis[u] # None THEN h ELSE Analyse(h, u)

(* ensure_analysis_for every open document, in the order of a hash map:     *)
(* `last` is the document each catalog saw last, among the dirty ones.      *)
DirtyIn(h, slot) ==
  {u \in Open(h) : h.analysis[u] = None /\ SlotOf(h, u) = slot}
Orders(h) ==
  {last \in [Slots -> {None} \cup Uri] :
     \A c \in Slots : IF DirtyIn(h, c) = {} THEN last[c] = None
                      ELSE last[c] \in DirtyIn(h, c)}
EnsuredAll(h, last) ==
  [h EXCEPT
    !.analysis = [u \in Uri |-> IF u \in Open(h) /\ h.analysis[u] = None
                                THEN Analysed(h, u) ELSE h.analysis[u]],
    !.layer = [c \in Slots |-> IF last[c] = None THEN h.layer[c]
                               ELSE h.docs[last[c]]]]

TokensDerived(h, u) ==
  IF h.docs[u] = None \/ h.tokens[u] # None THEN h
  ELSE [h EXCEPT !.tokens[u] = h.analysis[u]]

(* The cached analyses of the open documents among us. *)
Cached(h, us)  == [u \in Open(h) \cap us |-> h.analysis[u]]
UserNames(h)   == [base |-> h.base, ddl |-> h.layer["user"]]

-----------------------------------------------------------------------------
HostType ==
  [docs : [Uri -> {None} \cup Doc], base : Base, map : {None} \cup Maps,
   config : Config, defs : SUBSET Source,
   analysis : [Uri -> {None} \cup Analysis],
   tokens : [Uri -> {None} \cup Analysis],
   layer : [Slots -> {None} \cup Doc]]

(* The cached analysis a of the document u is what a fresh run would give,  *)
(* but for schema files that were registered since.                         *)
UpToDate(h, u, a) ==
  /\ h.docs[u] # None
  /\ a = [Analysed(h, u) EXCEPT !.defs = a.defs]
  /\ a.defs \subseteq h.defs

CachesFresh(h) ==
  \A u \in Uri :
    /\ h.analysis[u] # None => UpToDate(h, u, h.analysis[u])
    /\ h.tokens[u] # None => h.tokens[u] = h.analysis[u]
=============================================================================
