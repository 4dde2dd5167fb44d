------------------------------ MODULE MCQueryWalk -----------------------------
(* Small instances of QueryWalk: two tables, one without a rowid, an alias *)
(* and a name the catalog does not know.                                   *)
EXTENDS QueryWalk

CONSTANTS tt, w, u, x, y, rowid

Table(cols, r) == [cols |-> cols, rowid |-> r]
TheSchema == [n \in {tt, w, u} |->
  CASE n = tt -> Table({x}, TRUE) [] n = w -> Table({y}, FALSE) [] n = u -> None]

Item(rel, bound, cols, join) ==
  [rel |-> rel, bound |-> bound, cols |-> cols, join |-> join]
From(n, join)  == Item(n, n, {}, join)
Sub(cols, join) == Item(None, NoName, cols, join)

TheFromClauses ==
  { <<>>,
    <<From(tt, "inner")>>,
    <<From(w, "inner"), Item(None, u, {x}, "left"), From(tt, "inner")>>,
    <<From(w, "inner"), From(tt, "inner"), From(u, "right")>>,
    <<From(w, "inner"), Sub({x}, "inner"), Item(tt, u, {}, "left"), From(tt, "inner")>> }
TheAliases == {{}, {y}}
TheCteColumns == {Unknown, {y}}
=============================================================================
