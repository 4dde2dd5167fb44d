---------------------------- MODULE MCParserLoop ----------------------------
(* Instances of ParserLoop for TLC.                                         *)
EXTENDS ParserLoop

CONSTANTS
    Plain,         \* tokens texts are built from
    Calls,         \* macros called without an argument
    Passes,        \* and with one
    MaxWords,      \* bound: tokens of a text without calls
    MaxUnits       \* bound: tokens and calls of one with

(* An operand; chains of calls up to the depth limit; a macro that calls    *)
(* itself; one with a wrong token; one that calls an unknown one; one that  *)
(* is its argument, once or twice; two that call others, in the argument or *)
(* on it, and one whose argument is the name of another.                    *)
MC_Body ==
    [m |-> <<"x">>, twice |-> <<"m", "call">>, deep |-> <<"twice", "call">>,
     self |-> <<"x", "self", "call">>, open |-> <<"drop">>,
     lost |-> <<"unknown", "call">>,
     same |-> <<"param">>, both |-> <<"param", "param">>,
     inside |-> <<"same", "with", "x", "end">>,
     outside |-> <<"same", "with", "param", "end">>,
     apply |-> <<"param", "with", "param", "end">>]

MC_Names == DOMAIN MC_Body \cup {"unknown"}

Texts(units, n) ==
    {FlattenSeq(q) : q \in UNION {[1..k -> units] : k \in 0..n}}

Pass(names, args) == {<<n, "with">> \o a \o <<"end">> : n \in names, a \in args}

Bare == {<<c, "call">> : c \in Calls}
Simple == {<<"x">>, <<"unknown">>, <<"same">>} \cup Bare
(* A call that reaches its macro through two arguments is refused (see the  *)
(* README), and the reference would read on behind a name apply is given by *)
(* a call.                                                                  *)
Operands == Simple \ Bare
Nested ==
    Pass(Passes, Operands) \cup Pass(Passes \ {"apply"}, Bare)
    \cup Pass({"same", "both"}, Pass({"same", "both", "outside"}, Operands))
    \cup Pass({"outside"}, Pass({"same", "both"}, Simple))

Expanded ==
    Texts({<<t>> : t \in Plain}, MaxWords)
    \cup Texts({<<t>> : t \in Plain \ Comments} \cup Bare, MaxUnits)
    \cup {<<"select">> \o call \o tail :
              call \in Nested, tail \in {<<>>, <<"semi", "select", "m">>}}

(* Without a callback one name is like another.                             *)
Folded ==
    Texts({<<t>> : t \in Plain \ Comments}
          \cup {<<"m", "call">>, <<"m", "half">>} \cup Pass({"m"}, Pass({"same"}, {<<"x">>})),
          MaxUnits + 1)

(* What an earlier session leaves behind shows in the first statement.      *)
Second == {<<"select", "x", "semi">>, <<"x", "select">>, <<"note">>}

MC_Sources ==
    [callback \in BOOLEAN |-> <<IF callback THEN Expanded ELSE Folded, Second>>]

(* One macro three times, each in the argument of the one around it.        *)
MC_Threefold ==
    [callback \in BOOLEAN |->
        <<{<<"select">> \o call :
              call \in Pass({"same"}, Pass({"same"}, Pass({"same"}, {<<"x">>})))}>>]
=============================================================================
