------------------------------ MODULE MCLineage ------------------------------
(* A table, a view and a name of nothing, which WITH clauses may hide.      *)
EXTENDS Lineage, TLC

CONSTANTS t, u, v, a, b

MCName   == {t, u, v}
MCColumn == {a, b}
MCSchema ==
  [n \in MCName |-> IF n = t THEN [kind |-> "table", cols |-> <<a, b>>]
                    ELSE IF n = u THEN [kind |-> "table", cols |-> <<b>>]
                    ELSE [kind |-> "view", cols |-> <<a>>]]

Star(x)      == [kind |-> "star", table |-> x, column |-> None, as |-> a]
Ref(x, c, s) == [kind |-> "ref", table |-> x, column |-> c, as |-> s]
MCResults ==
  {<<Star(NoName)>>, <<Ref(NoName, a, a)>>, <<Ref(NoName, b, a)>>, <<Ref(u, b, b)>>}
MCReferences == {<<t, t>>, <<t, u>>, <<u, u>>, <<v, v>>}
MCAliases    == {NoName, u}
MCBindings   == {t}
MCDeclared   == {Unknown, <<b>>}
=============================================================================
