-------------------------- MODULE StatementStream --------------------------
(***************************************************************************)
(* What a parser promises the caller of its two sessions.                   *)
(*                                                                         *)
(* A cursor hands out the statements of its source one by one: each reaches *)
(* from where the one before ended to its semicolon and the comments on the *)
(* line of it, and is OK if and only if it is well formed.  A semicolon     *)
(* alone and a comment at the end are statements without a tree.  All that  *)
(* is promised of an ill-formed statement is errors, that stop short of the *)
(* next semicolon or reach it, and no others behind it.                     *)
(*                                                                         *)
(* An incremental session hands out a statement with its semicolon or at    *)
(* the end, and passes over semicolons and comments alone; nothing is       *)
(* promised once an ill-formed statement has begun.                         *)
(***************************************************************************)
EXTENDS Naturals, Sequences, SequencesExt

CONSTANTS
    Names, Tokens, Body, MaxDepth       \* as in ParserState, ParserMacros

VARIABLES
    lookup,        \* whether macros are looked up
    session, source,
    fed,           \* tokens given to an incremental session
    results,       \* what was handed out
    over           \* no more results will come

vars == <<lookup, session, source, fed, results, over>>

Comments == {"comment", "note"}

Without(s, S) ==
    FlattenSeq([k \in DOMAIN s |-> IF s[k] \in S THEN <<>> ELSE <<s[k]>>])

(* The last position of the call at i, 0 if there is none.                  *)
CallTo(s, i) ==
    LET depth(k) == Cardinality({j \in (i + 1)..k : s[j] = "with"})
                    - Cardinality({j \in (i + 1)..k : s[j] = "end"})
        ends == {k \in (i + 2)..Len(s) : depth(k) = 0}
    IN  IF i >= Len(s) \/ s[i] \notin Names THEN 0
        ELSE IF s[i + 1] = "call" THEN i + 1
        ELSE IF s[i + 1] # "with" \/ ends = {} THEN 0
        ELSE Min(ends)

(* ... when it is that of a macro, with an argument if it takes one.        *)
MacroTo(s, i) ==
    IF /\ CallTo(s, i) # 0 /\ s[i] \in DOMAIN Body
       /\ Contains(Body[s[i]], "param") => s[i + 1] = "with"
    THEN CallTo(s, i) ELSE 0

Filled(body, arg) ==
    FlattenSeq([k \in DOMAIN body |->
                   IF body[k] = "param" THEN arg ELSE <<body[k]>>])

(* The calls of a text replaced by the bodies, one level of them.           *)
Unfolded(s) ==
    LET rest[i \in 1..(Len(s) + 1)] ==
            IF i > Len(s) THEN <<>>
            ELSE IF MacroTo(s, i) = 0 THEN <<s[i]>> \o rest[i + 1]
            ELSE Filled(Body[s[i]], SubSeq(s, i + 2, MacroTo(s, i) - 1))
                 \o rest[MacroTo(s, i) + 1]
    IN  rest[1]

(* The calls of a text without macros: names.                               *)
Folded(s) ==
    LET rest[i \in 1..(Len(s) + 1)] ==
            IF i > Len(s) THEN <<>>
            ELSE <<s[i]>> \o rest[IF CallTo(s, i) = 0 THEN i + 1
                                  ELSE CallTo(s, i) + 1]
    IN  rest[1]

(* The words of the statement a stretch of the source holds: no comments,   *)
(* calls replaced down to the depth at which expansion stops.               *)
Words(from, to) ==
    LET level[k \in 0..(MaxDepth - 1)] ==
            IF k = 0 THEN Without(SubSeq(source, from, to), Comments)
            ELSE Unfolded(level[k - 1])
    IN  IF lookup THEN level[MaxDepth - 1] ELSE Folded(level[0])

IsOperand(t) == t = "x" \/ t \in Names

WellFormed(words) ==
    LET s == Without(words, {"semi"})
    IN  \/ s = <<>>
        \/ /\ Len(s) \in {2, 3}
           /\ s[1] = "select" /\ IsOperand(s[2])
           /\ Len(s) = 3 => s[3] \in Names

(* The semicolon that ends the statement which holds position i, or the end.*)
SemiAfter(i) ==
    CHOOSE j \in i..Len(source) :
        /\ \A k \in i..(j - 1) : source[k] # "semi"
        /\ source[j] = "semi" \/ j = Len(source)

(* ... and the comments on the line of it.                                  *)
EndOf(i) ==
    CHOOSE j \in SemiAfter(i)..Len(source) :
        /\ \A k \in (SemiAfter(i) + 1)..j : source[k] = "note"
        /\ j = Len(source) \/ source[j + 1] # "note"

(* The tokens of a statement: those of its own text, calls taken out, or    *)
(* only their lists where the name stands for the call.                     *)
InCall(p) ==
    \E i \in 1..p : IF lookup THEN p <= MacroTo(source, i)
                    ELSE i < p /\ p <= CallTo(source, i)

TokensOf(from, to) ==
    Without([k \in 1..(to - from + 1) |-> from + k - 1],
            {p \in from..to : source[p] \in Comments \/ InCall(p)})

Rooted(words) == \E k \in 1..Len(words) : words[k] # "semi"

Ok(from, to) ==
    [status |-> "OK", rooted |-> Rooted(Words(from, to)),
     from |-> from, to |-> to, tokens |-> TokensOf(from, to)]

Error(from, to) ==
    [status |-> "ERROR", rooted |-> FALSE, from |-> from, to |-> to,
     tokens |-> <<>>]

Taken == IF results = <<>> THEN 0 ELSE results[Len(results)].to

----------------------------------------------------------------------------
Init ==
    lookup \in BOOLEAN
    /\ session = "none" /\ source = <<>> /\ fed = 0 /\ results = <<>>
    /\ over = FALSE

Open ==
    /\ session = "none"
    /\ session' \in {"cursor", "incremental"} /\ source' \in Seq(Tokens)
    /\ fed' = 0 /\ results' = <<>> /\ over' = FALSE
    /\ UNCHANGED lookup

Close ==
    /\ session # "none" /\ session' = "none"
    /\ UNCHANGED <<lookup, source, results, over>>
    /\ fed' = 0

(* The session is over with the statement that no semicolon ends.           *)
HandOut(result) ==
    /\ results' = Append(results, result)
    /\ over' = (result.to = Len(source)
                /\ \A k \in (Taken + 1)..result.to : source[k] # "semi")

DeliverStatement ==
    LET from == Taken + 1
        to == EndOf(from)
        words == Words(from, to)
    IN  /\ session = "cursor" /\ ~over /\ Taken < Len(source)
        /\ words # <<>> \/ \E k \in from..to : source[k] \in Comments
        /\ HandOut(IF WellFormed(words) THEN Ok(from, to) ELSE Error(from, to))
        /\ UNCHANGED <<lookup, session, source, fed>>

(* An error that stops short of the semicolon.                              *)
DeliverPart ==
    LET from == Taken + 1 IN
    /\ session = "cursor" /\ ~over /\ Taken < Len(source)
    /\ ~WellFormed(Words(from, EndOf(from)))
    /\ \E to \in from..Len(source) :
        /\ \A k \in from..to : source[k] # "semi"
        /\ results' = Append(results, Error(from, to))
    /\ UNCHANGED <<lookup, session, source, fed, over>>

End ==
    /\ session = "cursor" /\ ~over
    /\ Words(Taken + 1, Len(source)) = <<>>
    /\ \A k \in (Taken + 1)..Len(source) : source[k] \notin Comments
    /\ over' = TRUE
    /\ UNCHANGED <<lookup, session, source, fed, results>>

----------------------------------------------------------------------------
(* An ill-formed statement begins in the first n tokens.                    *)
Lost(n) ==
    \E i \in 1..n : /\ i = 1 \/ source[i - 1] = "semi"
                    /\ ~WellFormed(Without(SubSeq(source, i, SemiAfter(i)),
                                           Comments))

(* A session that is fed knows no macros.                                   *)
Waiting(n) ==
    \E k \in (Taken + 1)..n : source[k] \notin Comments \cup {"semi"}

FedOk(to) ==
    [status |-> "OK", rooted |-> TRUE, from |-> Taken + 1, to |-> to,
     tokens |-> Without([k \in 1..(to - Taken) |-> Taken + k],
                        {p \in (Taken + 1)..to : source[p] \in Comments})]

Feed ==
    /\ session = "incremental" /\ ~over /\ fed < Len(source)
    /\ fed' = fed + 1
    /\ Lost(fed') \/ results' = IF source[fed'] = "semi" /\ Waiting(fed')
                                THEN Append(results, FedOk(fed'))
                                ELSE results
    /\ UNCHANGED <<lookup, session, source, over>>

Finish ==
    /\ session = "incremental" /\ ~over /\ fed = Len(source)
    /\ Lost(fed) \/ results' = IF Waiting(fed)
                               THEN Append(results, FedOk(fed))
                               ELSE results
    /\ over' = TRUE
    /\ UNCHANGED <<lookup, session, source, fed>>

Next == Open \/ Close \/ DeliverStatement \/ DeliverPart \/ End \/ Feed
        \/ Finish

Spec == Init /\ [][Next]_vars
=============================================================================
