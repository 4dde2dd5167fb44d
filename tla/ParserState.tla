---------------------------- MODULE ParserState ----------------------------
(***************************************************************************)
(* The state of a parser handle (struct SyntaqliteParser) and the helpers   *)
(* every way of feeding it shares: reset_stmt, lemon_reinit,                *)
(* synq_parser_shift_token, stmt_boundary, synq_parser_set_result_status.   *)
(*                                                                         *)
(* A source is a sequence of tokens, an offset the number of tokens before  *)
(* it; white space is left out.  "comment" stands on a line of its own,     *)
(* "note" is a comment on the line of the token before it.  A name          *)
(* followed by "call", which is `!()`, or by "with", which is `!(` with an  *)
(* argument and its "end", is a macro call, and so is one followed by       *)
(* "half", a `!` without a list; on its own a name is an identifier.  "x"   *)
(* is an operand that is none.                                              *)
(***************************************************************************)
EXTENDS LemonDriver, Sequences, FiniteSets

CONSTANTS
    Names,         \* identifiers
    Sources,       \* [lookup -> the texts the k-th session may be opened with]
    MaxSessions    \* bound: sessions opened on one parser

VARIABLES
    lookup,        \* whether a callback is registered: p->macro.lookup_fn
    session,       \* the checked-out handle: "none", "cursor", "incremental"
    sessions,      \* how many were opened
    source,        \* p->source
    offset,        \* p->offset
    lemon,         \* p->lemon and the fields of p->ctx its rules write
    lastToken,     \* p->last_token_type, "none" for 0
    stmt,          \* what reset_stmt resets
    finished,      \* p->finished
    pendingReset,  \* p->pending_reset
    pc,            \* where the call in progress is; "idle" between calls
    layerId,       \* p->ctx.layer_id
    depth,         \* p->macro.depth
    frames,        \* the calls of expand_and_feed in progress, innermost last
    delivered      \* the results of the session, in order

handle == <<lookup, session, sessions, source>>
macros == <<layerId, depth, frames>>
vars == <<handle, offset, lemon, lastToken, stmt, finished, pendingReset, pc,
          macros, delivered>>

Comments == {"comment", "note"}
Bangs == {"call", "half", "with"}
Tokens == {"select", "drop", "x", "semi"} \cup Comments \cup Bangs
          \cup {"end"} \cup Names

ASSUME NamesAssumption ==
    Names \cap ({"select", "drop", "x", "id", "semi", "none"} \cup Comments
                \cup Bangs \cup {"end", "param"}) = {}

ASSUME SourcesAssumption ==
    /\ MaxSessions \in Nat
    /\ \A callback \in BOOLEAN, k \in 1..MaxSessions :
          Sources[callback][k] \subseteq Seq(Tokens)

(* To the grammar one identifier is like another.                           *)
Kind(t) == IF t \in Names THEN "id" ELSE t

(* Of the last token shifted it matters whether it is a semicolon.          *)
LastOf(t) == IF t = "semi" THEN "semi" ELSE "other"

EmptyStmt ==
    [hadError |-> FALSE,    \* p->had_error
     comment |-> FALSE,     \* p->had_comment
     tokens |-> <<>>,       \* p->tokens, those of the source
     from |-> 0,            \* p->stmt_start_offset, 0 for none
     layers |-> <<>>]       \* p->rewrites.layers, behind the source

(* reset_stmt on what the rules of the grammar write.                       *)
ResetCtx(y) ==
    [y EXCEPT !.root = NoRoot, !.completed = FALSE, !.error = FALSE]

(* lemon_reinit: the stack is that of a fresh parser, the result stays.     *)
Reinit(y) ==
    [Fresh EXCEPT !.root = y.root, !.completed = y.completed,
                  !.error = y.error]

(* synq_open_statement, for the first token of a statement at `at`.         *)
Opened(s, at) == IF s.from = 0 THEN [s EXCEPT !.from = at] ELSE s

(* synq_parser_shift_token for a token of the source: what becomes of the   *)
(* parser and of the statement, and whether a statement was completed.      *)
(* The flag of a completed statement stays up when the token was wrong.     *)
Shifted(token, at) ==
    LET y == FeedLemon(lemon, Kind(token), at) IN
    [lemon |-> [y EXCEPT !.error = FALSE,
                         !.completed = y.completed /\ y.error],
     hadError |-> stmt.hadError \/ y.error,
     done |-> y.completed /\ ~y.error]

Recorded(s, at) == [s EXCEPT !.tokens = Append(@, at)]

(* What a caller can read after a call that returned a status.              *)
Result(status, y, s, end) ==
    [status |-> status, root |-> y.root, from |-> s.from, to |-> end,
     tokens |-> s.tokens]

Statuses == {"OK", "ERROR"}

(* stmt_boundary: had_error is consumed for this result.                    *)
BoundaryStatus(hadError) == IF hadError THEN "ERROR" ELSE "OK"

(* finish_input, after the statement that is open when the input ends: the  *)
(* status, and the parser.  A missing semicolon is supplied first; if it    *)
(* completes the statement the end of input is not fed.                     *)
FinishInput ==
    LET semi == IF lastToken = "semi"
                THEN [lemon |-> lemon, hadError |-> stmt.hadError,
                      done |-> FALSE]
                ELSE Shifted("semi", 0)
        end == FeedEnd(semi.lemon)
    IN  IF lastToken = "none"
        THEN [status |-> IF stmt.comment THEN "OK" ELSE "DONE",
              lemon |-> lemon]
        ELSE IF semi.done
        THEN [status |-> BoundaryStatus(semi.hadError),
              lemon |-> Reinit(semi.lemon)]
        ELSE [status |->
                IF end.error \/ semi.hadError THEN "ERROR"
                ELSE IF end.root # NoRoot THEN "OK" ELSE "DONE",
              lemon |-> end]

(* A plausible slip: the stack of the session before is kept.               *)
OpenKeepsStack(kind, text) ==
    /\ session' = kind /\ sessions' = sessions + 1
    /\ source' = text
    /\ lemon' = ResetCtx(lemon) /\ lastToken' = "none"
    /\ stmt' = EmptyStmt
    /\ offset' = 0 /\ finished' = FALSE /\ pendingReset' = FALSE
    /\ depth' = 0 /\ layerId' = 0
    /\ delivered' = <<>>
    /\ UNCHANGED <<lookup, pc, frames>>

(* The reset of the parser that opens a session (syntaqlite_parser_reset).  *)
Open(kind, text) ==
    /\ session' = kind /\ sessions' = sessions + 1
    /\ source' = text
    /\ lemon' = ResetCtx(Reinit(lemon)) /\ lastToken' = "none"
    /\ stmt' = EmptyStmt
    /\ offset' = 0 /\ finished' = FALSE /\ pendingReset' = FALSE
    /\ depth' = 0 /\ layerId' = 0
    /\ delivered' = <<>>
    /\ UNCHANGED <<lookup, pc, frames>>

(* Dropping a session gives the parser back as it is.                       *)
Close ==
    /\ session # "none" /\ pc = "idle"
    /\ session' = "none"
    /\ UNCHANGED <<lookup, sessions, source, offset, lemon, lastToken, stmt, finished,
                   pendingReset, pc, macros, delivered>>
=============================================================================
