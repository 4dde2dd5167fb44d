------------------------------- MODULE QueryWalk ------------------------------
(***************************************************************************)
(* The walk over one statement and the scopes it resolves column names in  *)
(* (syntaqlite/src/analysis/engine/query_scope.rs and engine/walker).      *)
(*                                                                         *)
(* The walker is a recursive visitor.  Its call stack is `walk`, one       *)
(* activation per node that opens a scope; the syntax tree is chosen as    *)
(* the walk goes: a FROM clause when a query is entered, a nested query or *)
(* a column reference wherever an expression may hold one.  `frames` is    *)
(* QueryScope, `ctes` the scopes of WITH clauses the walk has pushed on    *)
(* the catalog, `limit` and `right` are the walker's fields on_clause and  *)
(* right_join_in_from.                                                     *)
(*                                                                         *)
(* A HashMap is iterated in an order the program does not choose: of two   *)
(* named sources that own a column, either may be the one found.           *)
(***************************************************************************)
EXTENDS Naturals, Sequences, FiniteSets

CONSTANTS
  Name,         \* names of relations, aliases and CTEs
  Column,       \* column names
  RowId,        \* rowid, oid or _rowid_
  None, Unknown, NoName,
  Selected,     \* the name "" the SELECT aliases are bound under
  Excluded, Old, New, \* the names an upsert and a trigger bind
  Schema,       \* what the catalog's fixed layers know of each name
  FromClauses,  \* the FROM clauses a query may have
  AliasSets,    \* the SELECT aliases a query may have
  CteColumns,   \* the columns a CTE may declare or produce
  MaxDepth, MaxCtes

Sources == [cols : {Unknown} \cup SUBSET Column, rowid : BOOLEAN]
Items   == [rel : {None} \cup Name, bound : {NoName} \cup Name,
            cols : {Unknown} \cup SUBSET Column,
            join : {"inner", "left", "right"}]
Bindable == Name \cup {Selected, Excluded, Old, New}

ASSUME WalkAssumption ==
  /\ RowId \notin Column
  /\ NoName \notin Bindable
  /\ None \notin Sources \cup [frame : Nat, later : SUBSET Bindable]
  /\ {Selected, Excluded, Old, New} \cap Name = {}
  /\ Schema \in [Name -> {None} \cup Sources]
  /\ FromClauses \subseteq Seq(Items)
  /\ AliasSets \subseteq SUBSET Column
  /\ CteColumns \subseteq {Unknown} \cup SUBSET Column
  /\ MaxDepth \in Nat /\ MaxCtes \in Nat

VARIABLES
  frames,   \* QueryScope: a frame per scope, innermost last
  ctes,     \* the query scopes pushed on the catalog, innermost last
  limit,    \* the sources the ON clause being walked may not reference
  right,    \* the current query's FROM has a RIGHT or FULL join
  walk,     \* the walker's activations, innermost last
  asked     \* the column reference just walked and what was made of it

vars == <<frames, ctes, limit, right, walk, asked>>

-----------------------------------------------------------------------------
(* QueryScope *)

Empty == [named |-> [n \in Bindable |-> None], anon |-> {}]

HasColumn(s, c) ==
  \/ s.cols = Unknown
  \/ s.cols # Unknown /\ (c \in s.cols \/ (c = RowId /\ s.rowid))

Bound(f)     == {n \in Bindable : f.named[n] # None}
Owners(f, c) == {n \in Bound(f) : HasColumn(f.named[n], c)}
Owns(f, c)   == Owners(f, c) # {} \/ \E s \in f.anon : HasColumn(s, c)

Highest(S) == CHOOSE k \in S : \A j \in S : j <= k

NotFound == [kind |-> "notFound", frame |-> 0, source |-> NoName]

(* What a reference may resolve to.  The column is looked up in the        *)
(* innermost frame that may own it, among its named sources first.         *)
ResolveUnqualified(c) ==
  LET owning == {k \in DOMAIN frames : Owns(frames[k], c)}
      k == Highest(owning)
      named == Owners(frames[k], c)
  IN IF owning = {} THEN {NotFound}
     ELSE {[kind |-> "found", frame |-> k, source |-> n] :
             n \in IF named = {} THEN {NoName} ELSE named}

ResolveQualified(t, c) ==
  LET binding == {k \in DOMAIN frames : t \in Bound(frames[k])}
      k == Highest(binding)
  IN IF binding = {} THEN [kind |-> "noTable", frame |-> 0, source |-> NoName]
     ELSE [kind |-> IF HasColumn(frames[k].named[t], c) THEN "found"
                                                        ELSE "missing",
           frame |-> k, source |-> t]

(* resolving_source looks at named sources only.  In the frame a column is *)
(* found in it meets the same source first.                                *)
ResolvingSource(t, c, res) ==
  LET named == {k \in DOMAIN frames : Owners(frames[k], c) # {}}
      k == Highest(named)
  IN IF t # NoName
     THEN IF res.kind = "noTable" THEN {} ELSE {<<res.frame, t>>}
     ELSE IF named = {} THEN {}
     ELSE IF k = res.frame /\ res.source # NoName THEN {<<k, res.source>>}
     ELSE {<<k, n>> : n \in Owners(frames[k], c)}

-----------------------------------------------------------------------------
(* Binding the sources of a FROM clause *)

(* table_source_info: what the catalog knows of a name under the WITH      *)
(* clauses in cs.                                                          *)
InfoUnder(cs, n) ==
  LET known == {j \in DOMAIN cs : cs[j][n] # None} IN
  IF known # {} THEN cs[Highest(known)][n]
  ELSE IF Schema[n] # None THEN Schema[n]
  ELSE [cols |-> Unknown, rowid |-> TRUE]

SourceOf(cs, i) ==
  IF i.rel # None THEN InfoUnder(cs, i.rel)
  ELSE [cols |-> i.cols, rowid |-> TRUE]

(* register_sources: every item but an unaliased subquery; an alias used   *)
(* twice stands for the later item.                                        *)
BindNamed(named, cs, from) ==
  [n \in Bindable |->
     LET at == {k \in DOMAIN from : from[k].bound = n}
     IN IF at = {} THEN named[n] ELSE SourceOf(cs, from[Highest(at)])]
BindTablesOnly(named, cs, from) ==  \* a slip: subqueries are bound when met
  BindNamed(named, cs, SelectSeq(from, LAMBDA i : i.rel # None))
RegisterSources(named, cs, from) == BindNamed(named, cs, from)

BindItem(f, i) ==
  IF i.bound = NoName THEN [f EXCEPT !.anon = @ \cup {SourceOf(ctes, i)}]
  ELSE [f EXCEPT !.named[i.bound] = SourceOf(ctes, i)]

HasRightJoin(from) == \E k \in 2..Len(from) : from[k].join = "right"

-----------------------------------------------------------------------------
(* The walk.  An activation is                                             *)
(*   query    a SELECT: its FROM items in order, each join's ON clause     *)
(*            after its right side, the result columns, then the clauses   *)
(*            that also see the SELECT aliases                             *)
(*   source   the subquery of a FROM item     cte   the body of a CTE      *)
(*   with     a WITH clause and its query                                  *)
(*   dml      an UPDATE, DELETE or INSERT: its target, its SET list, its   *)
(*            FROM items, the rest      upsert   its DO UPDATE             *)
(*   compound the two arms of a compound SELECT    order  its ORDER BY     *)
(*   trigger  its WHEN and body       table  an expression of a CREATE     *)
(* `part` is what it walks now, `at` the item of `from` it has reached,    *)
(* `right` and `limit` what the caller's fields were.                      *)

Activation(node, from, part) ==
  [node |-> node, from |-> from, part |-> part, at |-> 1,
   aliases |-> {}, right |-> right, limit |-> limit]

Depth     == Len(walk)
Top       == walk[Depth]
Below     == walk[Depth - 1]
Inner     == frames[Len(frames)]
Called(a) == Append(walk, a)
Becomes(a) == [walk EXCEPT ![Depth] = a]
Push(named) == frames' = Append(frames, [named |-> named, anon |-> {}])
WithoutLast(s) == SubSeq(s, 1, Len(s) - 1)
Pop == frames' = WithoutLast(frames)

TopIs(node, part) == Depth > 0 /\ Top.node = node /\ Top.part = part
InExpression == Depth > 0 /\ Top.part \in {"on", "columns", "clauses"}
ExpectsQuery == Depth > 0 /\ Top.part = "query"
InArms == Depth > 0 /\ Top.node = "compound"
QueryMayStart == Depth < MaxDepth /\ (Depth = 0 \/ InExpression \/ ExpectsQuery)

(* The activations under the one that ends; one that waited for a query    *)
(* has had it, a compound when both arms are walked.                       *)
Resumed ==
  LET rest == WithoutLast(walk) IN
  IF rest = <<>> \/ Below.part # "query" THEN rest
  ELSE IF Below.node = "compound" /\ Below.at = 1
       THEN [rest EXCEPT ![Depth - 1].at = 2]
       ELSE [rest EXCEPT ![Depth - 1].part = "done"]

(* On to the next item, or out of the FROM clause.  The SET list of a dml  *)
(* comes between its target and its FROM items.                            *)
Onward(a) ==
  IF a.node = "dml" /\ a.at = 1 /\ a.part = "from"
  THEN [a EXCEPT !.part = "columns"]
  ELSE IF a.at < Len(a.from) THEN [a EXCEPT !.part = "from", !.at = @ + 1]
  ELSE [a EXCEPT !.part = IF a.node = "query" THEN "columns" ELSE "clauses"]

(* walk_join once both sides are walked: the limit on the ON clause of the *)
(* join whose right side is item a.at.  The target of a dml is not part of *)
(* its FROM clause.                                                        *)
FirstItem(a)  == IF a.node = "dml" THEN 2 ELSE 1
ClosesJoin(a) == a.at > FirstItem(a)
JoinNames(a)  == {a.from[j].bound : j \in FirstItem(a)..a.at}
LimitOf(a, r, f, frame) ==
  IF r \/ a.from[a.at].join # "inner"
  THEN [frame |-> frame, later |-> Bound(f) \ JoinNames(a)]
  ELSE None

(* Item a.at has been walked: next its ON clause, if it closes a join. *)
AfterItem(a) == IF ClosesJoin(a) THEN [a EXCEPT !.part = "on", !.limit = limit]
                                 ELSE Onward(a)
LimitAfterItem(a, f, frame) ==
  limit' = IF ClosesJoin(a) THEN LimitOf(a, right, f, frame) ELSE limit

(* walk_source_ref *)
WalkSourceRef ==
  /\ Depth > 0 /\ Top.part = "from" /\ Top.node \in {"query", "dml"}
  /\ Top.from[Top.at].rel # None
  /\ LET f == BindItem(Inner, Top.from[Top.at]) IN
     /\ frames' = [frames EXCEPT ![Len(frames)] = f]
     /\ LimitAfterItem(Top, f, Len(frames))
  /\ walk' = Becomes(AfterItem(Top))
  /\ asked' = None /\ UNCHANGED <<ctes, right>>

(* walk_scoped_source, up to its body and after it *)
EnterScopedSource ==
  /\ Depth > 0 /\ Top.part = "from" /\ Top.node \in {"query", "dml"}
  /\ Depth < MaxDepth
  /\ Top.from[Top.at].rel = None
  /\ Push(Empty.named)
  /\ walk' = Called(Activation("source", <<Top.from[Top.at]>>, "query"))
  /\ asked' = None /\ UNCHANGED <<ctes, right, limit>>

EndScopedSource ==
  /\ TopIs("source", "done")
  /\ LET k == Len(frames) - 1
         f == BindItem(frames[k], Top.from[1]) IN
     /\ frames' = [WithoutLast(frames) EXCEPT ![k] = f]
     /\ LimitAfterItem(Below, f, k)
  /\ walk' = [WithoutLast(walk) EXCEPT ![Depth - 1] = AfterItem(@)]
  /\ asked' = None /\ UNCHANGED <<ctes, right>>

(* A plausible slip: the outer ON clause's limit is not put back *)
DropLimit ==
  /\ Depth > 0 /\ Top.part = "on"
  /\ limit' = None
  /\ walk' = Becomes(Onward(Top))
  /\ asked' = None /\ UNCHANGED <<frames, ctes, right>>
EndOnClause ==
  /\ Depth > 0 /\ Top.part = "on"
  /\ limit' = Top.limit
  /\ walk' = Becomes(Onward(Top))
  /\ asked' = None /\ UNCHANGED <<frames, ctes, right>>

(* walk_query: everything FROM binds is bound before anything is walked *)
EnterQuery ==
  /\ QueryMayStart
  /\ \E from \in FromClauses, as \in AliasSets :
       /\ Push(RegisterSources(Empty.named, ctes, from))
       /\ right' = HasRightJoin(from)
       /\ walk' = Append(
            IF InArms
            THEN Becomes([Top EXCEPT !.from = @ \o from, !.aliases = @ \cup as])
            ELSE walk,
            [Activation("query", from, IF from = <<>> THEN "columns" ELSE "from")
               EXCEPT !.aliases = as])
  /\ asked' = None /\ UNCHANGED <<ctes, limit>>

BindAliases(named, as) ==
  IF as = {} THEN named
  ELSE [named EXCEPT ![Selected] = [cols |-> as, rowid |-> TRUE]]

EndColumns ==
  /\ TopIs("query", "columns")
  /\ frames' = [frames EXCEPT ![Len(frames)].named = BindAliases(@, Top.aliases)]
  /\ walk' = Becomes([Top EXCEPT !.part = "clauses"])
  /\ asked' = None /\ UNCHANGED <<ctes, right, limit>>

EndQueryKeepRight ==  \* a slip: the caller's right_join_in_from is not put back
  /\ TopIs("query", "clauses")
  /\ Pop
  /\ walk' = Resumed
  /\ asked' = None /\ UNCHANGED <<ctes, right, limit>>
EndQuery ==
  /\ TopIs("query", "clauses")
  /\ Pop
  /\ right' = Top.right
  /\ walk' = Resumed
  /\ asked' = None /\ UNCHANGED <<ctes, limit>>

(* walk_compound_scope *)
EnterCompound ==
  /\ QueryMayStart /\ ~InArms
  /\ walk' = Called(Activation("compound", <<>>, "query"))
  /\ asked' = None /\ UNCHANGED <<frames, ctes, right, limit>>

WalkOrderBy ==
  /\ TopIs("compound", "done")
  /\ Push(BindAliases(RegisterSources(Empty.named, ctes, Top.from), Top.aliases))
  /\ walk' = Becomes([Top EXCEPT !.node = "order", !.part = "clauses"])
  /\ asked' = None /\ UNCHANGED <<ctes, right, limit>>

EndCompound ==
  /\ TopIs("compound", "done")
  /\ walk' = Resumed
  /\ asked' = None /\ UNCHANGED <<frames, ctes, right, limit>>

(* walk_cte_scope and register_cte_bindings: a CTE is visible in its own   *)
(* body with the columns it declares, and to the later ones of its WITH.   *)
EnterWith ==
  /\ QueryMayStart /\ ~InArms
  /\ ctes' = Append(ctes, [n \in Name |-> None])
  /\ walk' = Called(Activation("with", <<>>, "from"))
  /\ asked' = None /\ UNCHANGED <<frames, right, limit>>

AddQueryTable(n, cols) ==
  ctes' = [ctes EXCEPT ![Len(ctes)][n] = [cols |-> cols, rowid |-> TRUE]]

WalkCte ==
  /\ TopIs("with", "from") /\ Top.at <= MaxCtes /\ Depth < MaxDepth
  /\ \E n \in Name, declared \in CteColumns :
       /\ AddQueryTable(n, declared)
       /\ walk' = Append(Becomes([Top EXCEPT !.at = @ + 1]),
            Activation("cte", <<[rel |-> None, bound |-> n, cols |-> declared,
                                 join |-> "inner"]>>, "query"))
  /\ Push(Empty.named)
  /\ asked' = None /\ UNCHANGED <<right, limit>>

EndCte ==
  /\ TopIs("cte", "done")
  /\ LET cte == Top.from[1] IN
     \E cols \in IF cte.cols = Unknown THEN CteColumns ELSE {cte.cols} :
       AddQueryTable(cte.bound, cols)
  /\ Pop
  /\ walk' = Resumed
  /\ asked' = None /\ UNCHANGED <<right, limit>>

EndBindings ==
  /\ TopIs("with", "from") /\ Top.at > 1
  /\ walk' = Becomes([Top EXCEPT !.part = "query"])
  /\ asked' = None /\ UNCHANGED <<frames, ctes, right, limit>>

EndWith ==
  /\ TopIs("with", "done")
  /\ ctes' = WithoutLast(ctes)
  /\ walk' = Resumed
  /\ asked' = None /\ UNCHANGED <<frames, right, limit>>

(* walk_dml_scope; its WITH clause is the activation below it, and only    *)
(* the statement's own WITH may stand before a dml                         *)
EnterDml ==
  /\ Depth < MaxDepth
  /\ \/ Depth = 0 \/ TopIs("trigger", "clauses")
     \/ Depth = 1 /\ TopIs("with", "query")
  /\ \E from \in FromClauses \ {<<>>} :
       /\ from[1].rel # None
       /\ Push(RegisterSources(Empty.named, ctes, from))
       /\ walk' = Called(Activation("dml", from, "from"))
  /\ asked' = None /\ UNCHANGED <<ctes, right, limit>>

EndSetList ==
  /\ TopIs("dml", "columns")
  /\ walk' = Becomes(Onward(Top))
  /\ asked' = None /\ UNCHANGED <<frames, ctes, right, limit>>

EndDml ==
  /\ TopIs("dml", "clauses")
  /\ Pop
  /\ walk' = Resumed
  /\ asked' = None /\ UNCHANGED <<ctes, right, limit>>

(* walk_upsert_scope: excluded has the columns of the INSERT's target, the *)
(* only source of the frame                                                *)
SoleColumns(f) ==
  IF Cardinality(Bound(f)) = 1 /\ f.anon = {}
  THEN f.named[CHOOSE n \in Bindable : n \in Bound(f)].cols ELSE Unknown

EnterUpsert ==
  /\ TopIs("dml", "clauses") /\ Len(Top.from) = 1 /\ Depth < MaxDepth
  /\ Push([Empty.named EXCEPT
             ![Excluded] = [cols |-> SoleColumns(Inner), rowid |-> TRUE]])
  /\ walk' = Called(Activation("upsert", <<>>, "clauses"))
  /\ asked' = None /\ UNCHANGED <<ctes, right, limit>>

(* walk_trigger_scope *)
EnterTrigger ==
  /\ Depth = 0
  /\ \E n \in Name :
       Push([Empty.named EXCEPT ![Old] = InfoUnder(ctes, n),
                                ![New] = InfoUnder(ctes, n)])
  /\ walk' = Called(Activation("trigger", <<>>, "clauses"))
  /\ asked' = None /\ UNCHANGED <<ctes, right, limit>>

(* walk_in_table_scope, walk_index_scope, walk_foreign_key: only a CHECK   *)
(* and a REFERENCES see the rowid                                          *)
EnterTable ==
  /\ Depth = 0
  /\ \E n \in Name, seesRowid \in BOOLEAN :
       LET info == InfoUnder(ctes, n) IN
       Push([Empty.named EXCEPT
               ![n] = [info EXCEPT !.rowid = @ /\ seesRowid]])
  /\ walk' = Called(Activation("table", <<>>, "clauses"))
  /\ asked' = None /\ UNCHANGED <<ctes, right, limit>>

EndScope ==
  /\ Depth > 0 /\ Top.node \in {"upsert", "order", "trigger", "table"}
  /\ Pop
  /\ walk' = Resumed
  /\ asked' = None /\ UNCHANGED <<ctes, right, limit>>

(* walk_column_ref: `late` when the reference is reported as naming a      *)
(* source joined to the right of the ON clause it stands in                *)
WalkColumnRef ==
  /\ InExpression /\ frames # <<>> /\ asked = None
  /\ \E t \in {NoName} \cup (Bindable \ {Selected}), c \in Column \cup {RowId} :
     \E res \in IF t = NoName THEN ResolveUnqualified(c)
                              ELSE {ResolveQualified(t, c)} :
     LET sources == IF limit = None THEN {} ELSE ResolvingSource(t, c, res)
         isLate(src) == src[1] = limit.frame /\ src[2] \in limit.later
     IN \E late \in IF sources = {} THEN {FALSE} ELSE {isLate(s) : s \in sources} :
          asked' = [table |-> t, column |-> c, result |-> res, late |-> late]
  /\ UNCHANGED <<frames, ctes, limit, right, walk>>

-----------------------------------------------------------------------------
Init ==
  /\ frames = <<>> /\ ctes = <<>> /\ walk = <<>>
  /\ limit = None /\ right = FALSE /\ asked = None

Next ==
  \/ WalkSourceRef \/ EnterScopedSource \/ EndScopedSource \/ EndOnClause
  \/ EnterQuery \/ EndColumns \/ EndQuery
  \/ EnterCompound \/ WalkOrderBy \/ EndCompound
  \/ EnterWith \/ WalkCte \/ EndCte \/ EndBindings \/ EndWith
  \/ EnterDml \/ EndSetList \/ EndDml \/ EnterUpsert
  \/ EnterTrigger \/ EnterTable \/ EndScope
  \/ WalkColumnRef

Spec == Init /\ [][Next]_vars

-----------------------------------------------------------------------------
(* What the statement's own nesting says, whatever the walk has done: the  *)
(* frame and the WITH clauses of activation k, the FROM items walked so    *)
(* far, and the sources an unaliased or a named item stands for.           *)
FrameOf(k) ==
  Cardinality({j \in 1..k : walk[j].node \notin {"with", "compound"}})
CtesAt(k) ==
  SubSeq(ctes, 1, Cardinality({j \in 1..k : walk[j].node = "with"}))
Selects(k) == walk[k].node \in {"query", "dml"}
Walked(a) ==
  {j \in DOMAIN a.from : \/ j < a.at
                         \/ j = a.at /\ a.part # "from"}
InScope(k) ==  \* items that can be referred to: the named and the walked ones
  LET a == walk[k] IN
  {a.from[j] : j \in {j \in DOMAIN a.from :
                        a.from[j].bound # NoName \/ j \in Walked(a)}}
Stands(k, i) == SourceOf(CtesAt(k), i)

(* No two items of a FROM clause have the same name.  Of two that have it, *)
(* only one can be referred to, first the last and then the one walked     *)
(* last: what a name stands for is said of distinct names.                 *)
Distinct(from) ==
  \A i, j \in DOMAIN from :
    from[i].bound = from[j].bound => i = j \/ from[i].bound = NoName
Resolves(k) == Selects(k) /\ Distinct(walk[k].from)

(* The frame of a query holds exactly the sources of its own FROM clause,  *)
(* in full from the moment the query is entered, as the WITH clauses       *)
(* around it define them; its aliases once its columns are walked; and     *)
(* nothing is left behind by what was nested in it (walk_query,            *)
(* register_sources, walk_scoped_source).                                  *)
FramesAreLexical ==
  /\ Len(frames) = FrameOf(Depth)
  /\ Len(ctes) = Len(CtesAt(Depth))
  /\ \A k \in 1..Depth : Selects(k) =>
       LET a == walk[k]  f == frames[FrameOf(k)]
           named == {j \in DOMAIN a.from : a.from[j].bound # NoName}
       IN /\ Bound(f) \ {Selected} = {a.from[j].bound : j \in named}
          /\ Distinct(a.from) => \A j \in named :
              f.named[a.from[j].bound] = Stands(k, a.from[j])
          /\ f.anon = {Stands(k, a.from[j]) : j \in Walked(a) \ named}
          /\ Selected \in Bound(f) <=>
               a.node = "query" /\ a.part = "clauses" /\ a.aliases # {}

(* right_join_in_from and on_clause always belong to the innermost query   *)
(* and the innermost ON clause being walked, however many subqueries and   *)
(* joins were entered and left in between (walk_query, walk_join).  The    *)
(* names outside a join are all the frame has but those the join itself    *)
(* binds, the target of a dml with them.                                   *)
LimitIsLexical ==
  LET queries == {k \in 1..Depth : walk[k].node = "query"}
      rightOf(k) == LET inner == {j \in queries : j <= k} IN
        inner # {} /\ HasRightJoin(walk[Highest(inner)].from)
      ons == {k \in 1..Depth : walk[k].part = "on"}
      on == Highest(ons)
      a == walk[on]
      outside == DOMAIN a.from \ (FirstItem(a)..a.at)
  IN /\ right = rightOf(Depth)
     /\ limit = IF ons = {} \/ ~(rightOf(on) \/ a.from[a.at].join # "inner")
                THEN None
                ELSE [frame |-> FrameOf(on),
                      later |-> {a.from[j].bound : j \in outside}
                                \ (JoinNames(a) \cup {NoName})]

(* Whatever was entered and left on the way, what the walker keeps is what *)
(* the place it is at asks for.                                            *)
ScopesAreLexical == FramesAreLexical /\ LimitIsLexical

(* A column reported unknown is owned by no source of any query around the *)
(* reference, named sources counted wherever they stand in FROM: no valid  *)
(* reference to them is flagged (emit_unresolved_column_ref).              *)
UnknownColumnsAreUnknown ==
  asked # None =>
    LET c == asked.column  t == asked.table IN
    /\ asked.result.kind = "notFound" =>
         \A k \in 1..Depth : Resolves(k) =>
           \A i \in InScope(k) : ~HasColumn(Stands(k, i), c)
    /\ asked.result.kind \in {"missing", "noTable"} =>
         \A k \in 1..Depth : Resolves(k) /\ FrameOf(k) >= asked.result.frame =>
           \A i \in InScope(k) : i.bound = t => ~HasColumn(Stands(k, i), c)

(* A reference that resolves does so in the innermost query with a source  *)
(* that may own the column: an inner source with unknown columns hides the *)
(* outer queries (resolve_unqualified: "don't leak into outer scopes").    *)
FoundIsInnermost ==
  asked # None /\ asked.result.kind = "found" =>
    \A k \in 1..Depth : Resolves(k) /\ FrameOf(k) > asked.result.frame =>
      \A i \in InScope(k) :
        ~ /\ asked.table \in {NoName, i.bound}
          /\ HasColumn(Stands(k, i), asked.column)

(* Between them: a reference resolves where the nesting says it does, or   *)
(* is flagged when nothing around it can own the column.                   *)
ResolutionIsLexical == UnknownColumnsAreUnknown /\ FoundIsInnermost

(* Two cases the walk does not follow in the FROM clause of an UPDATE: the *)
(* target, which no join of that clause is to the left of, is among the    *)
(* names a restricted ON clause may not use, and a RIGHT join restricts    *)
(* its own ON clause alone.                                                *)
RightJoined(a) ==
  \E k \in (FirstItem(a) + 1)..Len(a.from) : a.from[k].join = "right"
Unfollowed(a, source) ==
  /\ a.node = "dml"
  /\ source = a.from[1].bound \/ (RightJoined(a) /\ a.from[a.at].join = "inner")

(* A reference that resolves to a named source is reported as out of order *)
(* exactly when it stands in the ON clause of an outer join, or of any     *)
(* join of a FROM clause with a RIGHT or FULL join, and that source is     *)
(* joined to its right and no item of that name is within the join         *)
(* (walk_join, walk_column_ref).                                           *)
OrderErrorsAreJustified ==
  asked # None /\ asked.result.source # NoName =>
    LET source == asked.result.source
        ons == {k \in 1..Depth : walk[k].part = "on"}
        on == Highest(ons)
        a == walk[on]
        here == ons # {} /\ FrameOf(on) = asked.result.frame
    IN ~(here /\ Unfollowed(a, source)) =>
         (asked.late <=>
            /\ here
            /\ a.from[a.at].join # "inner" \/ RightJoined(a)
            /\ \E j \in (a.at + 1)..Len(a.from) : a.from[j].bound = source
            /\ source \notin JoinNames(a))
=============================================================================
