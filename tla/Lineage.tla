------------------------------- MODULE Lineage -------------------------------
(***************************************************************************)
(* Column lineage (syntaqlite/src/analysis/lineage/mod.rs and              *)
(* analysis/result_columns.rs): from which tables a query reads, and which *)
(* column of which table each of its result columns is.                    *)
(*                                                                         *)
(* LineageCapture is a visitor of the walk over a statement (module        *)
(* QueryWalk has the walk's own state).  `stack`, `cte_bodies`,            *)
(* `per_query` and `outer_query` are its fields; a query is summarised     *)
(* when it is left, from the sources it captured and the summaries of what *)
(* is nested in it.  `walk` is the walker's call stack with the syntax     *)
(* seen so far, `ctes` the query scopes on the catalog.                    *)
(*                                                                         *)
(* A HashMap is iterated in an order the program does not choose: where    *)
(* the code takes the first source that fits, the model takes any.         *)
(***************************************************************************)
EXTENDS Naturals, SequencesExt, FiniteSets

CONSTANTS
  Name, Column,
  None, Unknown, NoName,
  Schema,      \* what the catalog knows of each name without the WITH clauses
  Results,     \* the result lists a query may have
  Declared,    \* the column lists a CTE may declare, Unknown for none
  References,  \* the <<relation, name it is bound under>> FROM may have
  Aliases,     \* the names of subqueries in FROM, NoName for none
  Bindings,    \* the names of CTEs
  MaxNodes, MaxDepth, MaxSources

Node     == 1..MaxNodes
Names    == {Unknown} \cup Seq(Column)
Kinds    == {"table", "view", "none"}
Origins  == {None} \cup [table : Name, column : Column]
Columns  == Seq([name : Column, origin : Origins])
Relations == SUBSET [name : Name, kind : Kinds]
Meanings ==
  [names : Names, columns : Columns, relations : Relations,
   whole : BOOLEAN, followed : BOOLEAN]

(* QuerySummary and SourceInfo *)
Summaries ==
  [columns : Columns, column_names : Seq(Column), relations : Relations,
   complete : BOOLEAN]
Sources ==
  [canonical : Name, columns : Names, kind : {"table", "view"}, body : {None}] \cup
  [canonical : Name, columns : Names, kind : {"nested"}, body : Node]

ASSUME LineageAssumption ==
  /\ Schema \in [Name -> [kind : Kinds, cols : Names]]
  /\ Results \subseteq
       Seq([kind : {"star", "expression"}, table : {NoName} \cup Name,
            column : {None}, as : Column] \cup
           [kind : {"ref"}, table : {NoName} \cup Name,
            column : Column, as : Column])
  /\ Declared \subseteq Names
  /\ NoName \notin Name /\ Unknown \notin Column
  /\ None \notin Nat /\ None \notin Meanings
  /\ None \notin Summaries /\ None \notin Sources
  /\ References \subseteq Name \X Name
  /\ Aliases \subseteq {NoName} \cup Name /\ Bindings \subseteq Name
  /\ MaxNodes \in Nat /\ MaxDepth \in Nat /\ MaxSources \in Nat

VARIABLES
  stack,        \* the queries entered and not left
  cte_bodies,   \* the body of each name an outer WITH binds
  per_query,    \* the summary of each query left
  outer_query,
  walk, ctes, made, \* made: the syntax nodes numbered so far
  meant,        \* what each query left means
  main,         \* the query the statement itself is
  simple        \* no WITH and no compound where the capture misplaces them

capture == <<stack, cte_bodies, per_query, outer_query>>
vars    == <<capture, walk, ctes, made, meant, main, simple>>

Depth == Len(walk)
Top   == walk[Depth]
TopIs(node, part) == Depth > 0 /\ Top.node = node /\ Top.part = part

-----------------------------------------------------------------------------
(* What a piece of syntax reads, said without the capture: a `meaning` is  *)
(* its columns (`names` when all are known), the tables and views in its   *)
(* FROM clauses, whether every one of them could be traced, and whether    *)
(* the capture claims to follow syntax of this shape.                      *)
Untraced(names) ==
  IF names = Unknown THEN <<>>
  ELSE [i \in DOMAIN names |-> [name |-> names[i], origin |-> None]]

(* A CTE inside its own body. *)
Recursive(declared) ==
  [names |-> declared, columns |-> Untraced(declared), relations |-> {},
   whole |-> TRUE, followed |-> FALSE]

(* A CTE that renames the columns of its body. *)
Renamed(m, declared) ==
  IF declared \in {Unknown, m.names} THEN m
  ELSE [m EXCEPT !.names = declared, !.followed = FALSE, !.columns =
          IF m.names = Unknown THEN Untraced(declared)
          ELSE [i \in DOMAIN @ |-> [@[i] EXCEPT !.name = declared[i]]]]

OfRelation(n) ==
  LET r == Schema[n]  cols == IF r.cols = Unknown THEN <<>> ELSE r.cols IN
  [names |-> r.cols,
   columns |-> [i \in DOMAIN cols |->
     [name |-> cols[i],
      origin |-> IF r.kind = "view" THEN None
                 ELSE [table |-> n, column |-> cols[i]]]],
   relations |-> {[name |-> n, kind |-> r.kind]},
   whole |-> r.kind # "view",
   followed |-> r.kind # "none"]

(* The innermost WITH clause that binds n, or the catalog. *)
Meaning(n) ==
  LET binds == {k \in DOMAIN ctes : ctes[k][n] # None} IN
  IF binds = {} THEN OfRelation(n)
  ELSE ctes[CHOOSE k \in binds : \A j \in binds : j <= k][n]

-----------------------------------------------------------------------------
(* ColumnResolver: the columns of a FROM clause.  An item has the name its *)
(* columns are qualified with, and its meaning.                            *)

ItemColumns(items, j) ==
  LET names == items[j].meaning.names IN
  IF names = Unknown THEN <<[item |-> j, name |-> Unknown, at |-> 0]>>
  ELSE [i \in DOMAIN names |-> [item |-> j, name |-> names[i], at |-> i]]

StarColumns(items) ==
  FlattenSeq([j \in DOMAIN items |-> ItemColumns(items, j)])

NoFrom == <<[item |-> 0, name |-> Unknown, at |-> 0]>>

(* What one `*` or `t.*` expands to: without FROM nothing is known.        *)
Expansion(items, c) ==
  LET named == {j \in DOMAIN items : items[j].name = c.table} IN
  IF c.table = NoName THEN IF items = <<>> THEN NoFrom ELSE StarColumns(items)
  ELSE IF named = {} THEN NoFrom
  ELSE ItemColumns(items, CHOOSE j \in named : \A k \in named : j <= k)

Known(x) == x.name # Unknown

(* result_columns *)
ResultNames(items, list) ==
  LET all == FlattenSeq([i \in DOMAIN list |->
               IF list[i].kind = "star" THEN Expansion(items, list[i])
               ELSE <<[name |-> list[i].as]>>])
  IN IF \E i \in DOMAIN all : all[i].name = Unknown THEN Unknown
     ELSE [i \in DOMAIN all |-> all[i].name]

-----------------------------------------------------------------------------
(* LineageCapture and Finalizer *)

NoSources == [n \in Name |-> None]

(* table_source_info *)
TableInfo(n) == Meaning(n).names
IsView(n) == Schema[n].kind = "view" /\ \A k \in DOMAIN ctes : ctes[k][n] = None

(* classify.  A plausible slip: the catalog is asked before the WITH       *)
(* clause.                                                                 *)
ClassifyCatalogFirst(n) ==
  LET body == IF Schema[n].kind = "none" THEN cte_bodies[n] ELSE None IN
  [canonical |-> n, body |-> body,
   kind |-> IF body # None THEN "nested" ELSE IF IsView(n) THEN "view" ELSE "table",
   columns |-> IF body # None /\ per_query[body] # None
               THEN per_query[body].column_names ELSE TableInfo(n)]
Classify(n) ==
  LET body == cte_bodies[n] IN
  [canonical |-> n, body |-> body,
   kind |-> IF body # None THEN "nested" ELSE IF IsView(n) THEN "view" ELSE "table",
   columns |-> IF body # None /\ per_query[body] # None
               THEN per_query[body].column_names ELSE TableInfo(n)]

Captured(sources) == {d \in Name : sources[d] # None}

(* find_source_for: any source known to have the column, else any source.  *)
FindSourceFor(sources, c) ==
  LET owners == {d \in Captured(sources) :
                   /\ sources[d].columns # Unknown
                   /\ c \in ToSet(sources[d].columns)}
  IN IF owners # {} THEN owners ELSE Captured(sources)

OriginFromNested(body, c) ==
  IF per_query[body] = None THEN None
  ELSE LET cols == per_query[body].columns
           hits == {i \in DOMAIN cols : cols[i].name = c} IN
       IF hits = {} THEN None
       ELSE cols[CHOOSE i \in hits : \A j \in hits : i <= j].origin

OriginForSource(s, c) ==
  CASE s.kind = "table"  -> [table |-> s.canonical, column |-> c]
    [] s.kind = "view"   -> None
    [] s.kind = "nested" -> OriginFromNested(s.body, c)

(* The source a qualifier names: by the name it is bound under, else by    *)
(* the relation's own.                                                     *)
Qualified(sources, t) ==
  IF sources[t] # None THEN {t}
  ELSE {d \in Captured(sources) : sources[d].canonical = t}

(* trace_expr: the origins one result column may get.                      *)
TraceExpr(sources, c) ==
  LET from == IF c.table = NoName THEN FindSourceFor(sources, c.column)
              ELSE Qualified(sources, c.table) IN
  IF c.kind = "expression" \/ from = {} THEN {None}
  ELSE {OriginForSource(sources[d], c.column) : d \in from}

StarOrigin(sources, item, c) ==
  IF item.name = NoName \/ sources[item.name] = None THEN None
  ELSE OriginForSource(sources[item.name], c)

(* trace_result_columns, for a choice of the origins of the expressions.   *)
TracedStar(items, sources, c) ==
  LET all == Expansion(items, c) IN
  FlattenSeq([k \in DOMAIN all |->
    IF Known(all[k])
    THEN <<[name |-> all[k].name,
            origin |-> StarOrigin(sources, items[all[k].item], all[k].name)]>>
    ELSE <<>>])

TracedColumns(items, sources, list, pick) ==
  FlattenSeq([i \in DOMAIN list |->
    IF list[i].kind = "star" THEN TracedStar(items, sources, list[i])
    ELSE <<[name |-> list[i].as, origin |-> pick[i]]>>])

ColumnsComplete(items, list) ==
  \A i \in DOMAIN list : list[i].kind = "star" =>
    LET all == Expansion(items, list[i]) IN \A k \in DOMAIN all : Known(all[k])

(* aggregate_sources: a nested query that was never summarised adds        *)
(* nothing.                                                                *)
Contributes(s) ==
  IF s.kind # "nested" THEN {[name |-> s.canonical, kind |-> s.kind]}
  ELSE IF per_query[s.body] = None THEN {} ELSE per_query[s.body].relations

Traced(s) ==
  /\ s.kind # "view"
  /\ s.kind = "nested" /\ per_query[s.body] # None => per_query[s.body].complete

(* finalize *)
Finalized(items, sources, list, pick) ==
  LET columns == TracedColumns(items, sources, list, pick)
      infos == {sources[d] : d \in Captured(sources)} IN
  [columns |-> columns,
   column_names |-> [i \in DOMAIN columns |-> columns[i].name],
   relations |-> UNION {Contributes(s) : s \in infos},
   complete |-> ColumnsComplete(items, list) /\ \A s \in infos : Traced(s)]

-----------------------------------------------------------------------------
(* What a query means, from what its FROM items mean.                      *)

Candidates(items, c) ==
  {j \in DOMAIN items : c.table \in {NoName, items[j].name}}
Owners(items, c) ==
  {j \in Candidates(items, c) :
     /\ items[j].meaning.names # Unknown
     /\ c.column \in ToSet(items[j].meaning.names)}

TrueOrigin(items, c) ==
  IF c.kind = "expression" \/ Cardinality(Owners(items, c)) # 1 THEN None
  ELSE LET cols == items[CHOOSE j \in Owners(items, c) : TRUE].meaning.columns
       IN cols[CHOOSE i \in DOMAIN cols : cols[i].name = c.column].origin

TrueStar(items, c) ==
  LET all == Expansion(items, c) IN
  FlattenSeq([k \in DOMAIN all |->
    IF Known(all[k]) THEN <<items[all[k].item].meaning.columns[all[k].at]>>
    ELSE <<>>])

TrueColumns(items, list) ==
  FlattenSeq([i \in DOMAIN list |->
    IF list[i].kind = "star" THEN TrueStar(items, list[i])
    ELSE <<[name |-> list[i].as, origin |-> TrueOrigin(items, list[i])]>>])

(* A reference SQLite finds exactly one column for. *)
Determinate(items, c) ==
  /\ Cardinality(Owners(items, c)) = 1
  /\ \A j \in Candidates(items, c) : items[j].meaning.names # Unknown

(* The capture has no entry for a subquery without an alias, and none of   *)
(* two with the same name; it looks columns up by name.                    *)
ItemsFollowed(items) ==
  /\ \A j \in DOMAIN items :
       /\ items[j].name # NoName /\ items[j].meaning.followed
       /\ items[j].meaning.names # Unknown => IsInjective(items[j].meaning.names)
  /\ IsInjective([j \in DOMAIN items |-> items[j].name])

QueryMeaning(items, list) ==
  [names |-> ResultNames(items, list),
   columns |-> TrueColumns(items, list),
   relations |-> UNION {items[j].meaning.relations : j \in DOMAIN items},
   whole |-> ColumnsComplete(items, list)
             /\ \A j \in DOMAIN items : items[j].meaning.whole,
   followed |-> ItemsFollowed(items) /\ \A i \in DOMAIN list :
                  list[i].kind = "ref" => Determinate(items, list[i])]

(* A compound has the names of its left arm, and columns of no one origin. *)
CompoundMeaning(l, r) ==
  [l EXCEPT !.columns = [i \in DOMAIN @ |-> [@[i] EXCEPT !.origin = None]],
            !.relations = @ \cup r.relations,
            !.whole = @ /\ r.whole,
            !.followed = FALSE]

-----------------------------------------------------------------------------
(* The walk.  An activation keeps the bodies that were walked for it, each *)
(* with its node and its meaning.                                          *)

Activation(node, id, part) ==
  [node |-> node, id |-> id, part |-> part, items |-> <<>>, bodies |-> <<>>,
   name |-> NoName, declared |-> Unknown]

(* A WITH or compound directly in the WITH's own slot is the statement's.  *)
Outermost == walk = <<>> \/ (Depth = 1 /\ Top.node = "with" /\ Top.part = "body")

BodyMayStart ==
  /\ Depth < MaxDepth /\ made < MaxNodes
  /\ \/ walk = <<>> /\ made = 0
     \/ /\ walk # <<>> /\ Top.bodies = <<>>
        /\ (Top.node \in {"source", "cte"} \/ TopIs("with", "body"))

InArms == Depth > 0 /\ Top.node = "compound" /\ Len(Top.bodies) < 2

QueryMayStart ==
  \/ BodyMayStart
  \/ /\ Depth < MaxDepth /\ made < MaxNodes
     /\ (InArms \/ TopIs("query", "columns"))

(* The walk goes on under the activation that ends, which a query around   *)
(* an expression takes no notice of.                                       *)
Returned(body) ==
  LET rest == Front(walk) IN
  IF rest = <<>> \/ Last(rest).node = "query" THEN rest
  ELSE [rest EXCEPT ![Len(rest)].bodies = Append(@, body)]

(* walk_query and enter_query.  A plausible slip: the first query entered  *)
(* is taken for the statement's.                                           *)
EnterQueryTakeFirst ==
  /\ QueryMayStart
  /\ made' = made + 1
  /\ outer_query' = IF outer_query = None /\ stack = <<>> THEN made' ELSE outer_query
  /\ stack' = Append(stack, [node |-> made', sources |-> NoSources])
  /\ walk' = Append(walk, Activation("query", made', "from"))
  /\ main' = IF Outermost THEN made' ELSE main
  /\ UNCHANGED <<cte_bodies, per_query, ctes, simple, meant>>
EnterQuery ==
  /\ QueryMayStart
  /\ made' = made + 1
  /\ outer_query' = IF /\ outer_query = None /\ stack = <<>>
                       /\ \A n \in Name : cte_bodies[n] # made'
                    THEN made' ELSE outer_query
  /\ stack' = Append(stack, [node |-> made', sources |-> NoSources])
  /\ walk' = Append(walk, Activation("query", made', "from"))
  /\ main' = IF Outermost THEN made' ELSE main
  /\ UNCHANGED <<cte_bodies, per_query, ctes, simple, meant>>

Capture(display, source) ==
  stack' = [stack EXCEPT ![Len(stack)].sources[display] = source]
Item(name, meaning) == [name |-> name, meaning |-> meaning]
InFrom == TopIs("query", "from") /\ Len(Top.items) < MaxSources

(* walk_source_ref, on_source_ref                                          *)
WalkSourceRef ==
  /\ InFrom
  /\ \E n, display \in Name :
       /\ <<n, display>> \in References
       /\ Capture(display, Classify(n))
       /\ walk' = [walk EXCEPT ![Depth].items = Append(@, Item(display, Meaning(n)))]
  /\ UNCHANGED <<cte_bodies, per_query, outer_query, ctes, made, main, simple, meant>>

(* walk_scoped_source, on_scoped_source: a subquery of FROM.               *)
EnterScopedSource ==
  /\ InFrom /\ Depth + 1 < MaxDepth /\ made < MaxNodes
  /\ walk' = Append(walk, Activation("source", None, "body"))
  /\ UNCHANGED <<capture, ctes, made, main, simple, meant>>

EndScopedSource ==
  /\ TopIs("source", "body") /\ Len(Top.bodies) = 1
  /\ LET body == Top.bodies[1]
         names == IF per_query[body.id] = None THEN Unknown
                  ELSE per_query[body.id].column_names IN
     \E alias \in Aliases :
       /\ IF alias = NoName THEN UNCHANGED stack
          ELSE Capture(alias, [canonical |-> alias, columns |-> names,
                               kind |-> "nested", body |-> body.id])
       /\ walk' = [Front(walk) EXCEPT ![Depth - 1].items =
                     Append(@, Item(alias, body.meaning))]
  /\ UNCHANGED <<cte_bodies, per_query, outer_query, ctes, made, main, simple, meant>>

EndFrom ==
  /\ TopIs("query", "from")
  /\ walk' = [walk EXCEPT ![Depth].part = "columns"]
  /\ UNCHANGED <<capture, ctes, made, main, simple, meant>>

(* exit_query.  The result list is made of columns the query can name.     *)
ExitQuery ==
  /\ TopIs("query", "columns")
  /\ LET items == Top.items
         sources == Last(stack).sources
         named == {items[j].name : j \in DOMAIN items} \cup {NoName} IN
     \E list \in Results :
       /\ \A i \in DOMAIN list : list[i].table \in named
       /\ \E pick \in [DOMAIN list -> UNION {TraceExpr(sources, list[i]) : i \in DOMAIN list}] :
            /\ \A i \in DOMAIN list : pick[i] \in TraceExpr(sources, list[i])
            /\ per_query' = [per_query EXCEPT
                 ![Top.id] = Finalized(items, sources, list, pick)]
       /\ meant' = [meant EXCEPT ![Top.id] = QueryMeaning(items, list)]
       /\ walk' = Returned([id |-> Top.id, meaning |-> meant'[Top.id]])
  /\ stack' = Front(stack)
  /\ UNCHANGED <<cte_bodies, outer_query, ctes, made, main, simple>>

(* walk_compound_scope: its arms are queries, it is none itself.           *)
EnterCompound ==
  /\ BodyMayStart /\ Depth + 1 < MaxDepth
  /\ made' = made + 1
  /\ walk' = Append(walk, Activation("compound", made', "body"))
  /\ simple' = (simple /\ (stack # <<>> \/ Outermost))
  /\ UNCHANGED <<capture, ctes, main, meant>>

EndCompound ==
  /\ TopIs("compound", "body") /\ Len(Top.bodies) = 2
  /\ walk' = Returned([id |-> Top.id,
       meaning |-> CompoundMeaning(Top.bodies[1].meaning, Top.bodies[2].meaning)])
  /\ UNCHANGED <<capture, ctes, made, main, simple, meant>>

(* walk_cte_scope.  The WITH of the statement itself is nobody's body and   *)
(* gets no number.                                                         *)
EnterWith ==
  /\ BodyMayStart /\ Depth + 1 < MaxDepth
  /\ made' = IF walk = <<>> THEN made ELSE made + 1
  /\ ctes' = Append(ctes, [n \in Name |-> None])
  /\ walk' = Append(walk,
       Activation("with", IF walk = <<>> THEN None ELSE made', "bindings"))
  /\ simple' = (simple /\ walk = <<>>)
  /\ UNCHANGED <<capture, main, meant>>

(* register_cte_bindings, on_cte_binding: the name is bound before its     *)
(* body is walked, in the capture only if no query is being walked.        *)
Bind(n, meaning) == ctes' = [ctes EXCEPT ![Len(ctes)][n] = meaning]
WalkCte ==
  /\ TopIs("with", "bindings") /\ Depth + 1 < MaxDepth /\ made < MaxNodes
  /\ \E n \in Bindings, declared \in Declared :
       /\ cte_bodies' = IF stack = <<>> THEN [cte_bodies EXCEPT ![n] = made + 1]
                        ELSE cte_bodies
       /\ Bind(n, Recursive(declared))
       /\ walk' = Append(walk,
            [Activation("cte", None, "body") EXCEPT !.name = n, !.declared = declared])
  /\ UNCHANGED <<stack, per_query, outer_query, made, main, simple, meant>>

EndCte ==
  /\ TopIs("cte", "body") /\ Len(Top.bodies) = 1
  /\ LET body == Top.bodies[1].meaning  declared == Top.declared IN
     /\ declared # Unknown /\ body.names # Unknown => Len(declared) = Len(body.names)
     /\ Bind(Top.name, Renamed(body, declared))
  /\ walk' = Front(walk)
  /\ UNCHANGED <<capture, made, main, simple, meant>>

EndBindings ==
  /\ TopIs("with", "bindings") /\ \E n \in Name : Last(ctes)[n] # None
  /\ walk' = [walk EXCEPT ![Depth].part = "body"]
  /\ UNCHANGED <<capture, ctes, made, main, simple, meant>>

EndWith ==
  /\ TopIs("with", "body") /\ Len(Top.bodies) = 1
  /\ ctes' = Front(ctes)
  /\ walk' = Returned([id |-> Top.id,
                       meaning |-> [Top.bodies[1].meaning EXCEPT !.followed = FALSE]])
  /\ UNCHANGED <<capture, made, main, simple, meant>>

-----------------------------------------------------------------------------
Init ==
  /\ stack = <<>> /\ outer_query = None
  /\ cte_bodies = [n \in Name |-> None]
  /\ per_query = [q \in Node |-> None] /\ meant = [q \in Node |-> None]
  /\ walk = <<>> /\ ctes = <<>> /\ made = 0
  /\ main = None /\ simple = TRUE

Next ==
  \/ EnterQuery \/ WalkSourceRef \/ EnterScopedSource \/ EndScopedSource
  \/ EndFrom \/ ExitQuery
  \/ EnterCompound \/ EndCompound
  \/ EnterWith \/ WalkCte \/ EndCte \/ EndBindings \/ EndWith

Spec == Init /\ [][Next]_vars

-----------------------------------------------------------------------------
(* Every query of a shape the capture follows gets the lineage it has: the *)
(* tables and views it reads, through any nesting of subqueries and WITH   *)
(* clauses and whatever their names hide; the origin of each column, or    *)
(* none; and it counts as complete exactly when all of it was traced       *)
(* (finalize; "`Complete` means all sources traced to physical tables").   *)
LineageIsTrue == simple =>
  \A q \in Node : meant[q] # None /\ meant[q].followed =>
    /\ per_query[q].relations = meant[q].relations
    /\ per_query[q].columns = meant[q].columns
    /\ per_query[q].complete = meant[q].whole

(* The lineage shown is that of the statement's own query, though the      *)
(* bodies of its WITH clause are walked first and subqueries later         *)
(* (enter_query, build_lineage).                                           *)
OuterQueryIsTheStatements == simple /\ main # None => outer_query = main
=============================================================================
