---------------------------- MODULE LemonDriver ----------------------------
(***************************************************************************)
(* The part of the generated parser that decides where a statement ends:   *)
(* the driver of sqlite_parse.c (SynqSqliteParse) with the rules for        *)
(* cmdlist, ecmd and cmdx of _common.y.  The grammar of a statement is      *)
(* abstracted to two forms:                                                 *)
(*                                                                         *)
(*   select OPERAND [NAME]                                                  *)
(*                      an expression is expected after the keyword, so     *)
(*                      that expr ::= error repairs a wrong token there;    *)
(*                      an identifier behind it is its alias                *)
(*   drop ...           no rule with `error` applies inside: a wrong token  *)
(*                      unwinds the whole statement.  What would complete   *)
(*                      it is left out.                                     *)
(*                                                                         *)
(* Every other token fits nowhere.  The stack of the parser is abstracted   *)
(* to whether a cmdlist lies at its bottom and to what lies above:          *)
(*                                                                         *)
(*   "none"     nothing              "cmd"      a whole statement           *)
(*   "select"   the keyword alone    "aliased"  the same, with an alias     *)
(*   "drop"     the keyword alone    "cmdx"     the same, reduced to cmdx   *)
(*   "error"    the error symbol                                            *)
(*   "bare"  SEMI   "cmdsemi"  cmdx SEMI   "errsemi"  error SEMI            *)
(*                                                                         *)
(* The last three are reduced only when the next token arrives.             *)
(***************************************************************************)
EXTENDS Integers

CONSTANT NoRoot          \* SYNTAQLITE_NULL_NODE

ASSUME NoRootAssumption == NoRoot \notin [at : Nat, whole : BOOLEAN]

Pending == {"bare", "cmdsemi", "errsemi"}
Whole == {"cmd", "aliased"}

(* The parser as it is allocated, and the fields of SynqParseCtx the rules  *)
(* write: root, stmt_completed and error.                                   *)
Fresh == [list |-> FALSE, top |-> "none", cmd |-> NoRoot, errcnt |-> -1,
          root |-> NoRoot, completed |-> FALSE, error |-> FALSE]

(* yyerrcnt counts down to "errors are reported again", that is below 0.    *)
Shift(y, top) ==
    [y EXCEPT !.top = top, !.errcnt = IF @ = -1 THEN -1 ELSE @ - 1]

(* cmdx ::= cmd *)
ReduceCmd(y) == [y EXCEPT !.root = y.cmd, !.completed = TRUE]

(* What is reduced whatever the next token is.                              *)
ReducePending(y) ==
    IF y.top \notin Pending THEN y
    ELSE [y EXCEPT !.list = TRUE, !.top = "none", !.cmd = NoRoot,
                   !.completed = @ \/ y.top # "cmdsemi",
                   !.root = IF y.top = "errsemi" THEN NoRoot ELSE @]

(* An error is flagged unless one was met less than three shifts ago.       *)
Flag(y) == [y EXCEPT !.error = @ \/ y.errcnt < 0, !.errcnt = 3]

(* yy_parse_failed: no state on the stack can shift the error symbol.  The  *)
(* state at the bottom is not asked.                                        *)
ParseFailed(y) ==
    [y EXCEPT !.error = TRUE, !.errcnt = 3, !.list = FALSE, !.top = "none",
              !.cmd = NoRoot]

(* The stack is unwound to the cmdlist, on which the error symbol stands.   *)
ToError(y) == [Flag(y) EXCEPT !.top = "error", !.cmd = NoRoot]

(* expr ::= error after the keyword: a tree with an Error node in it.       *)
Repaired(y) == [Flag(y) EXCEPT !.cmd.whole = FALSE]

(* A token that fits nowhere: it is discarded, and the reductions a parser  *)
(* without lookahead would do are done.                                     *)
Recover(y) ==
    IF y.top = "select" THEN [ReduceCmd(Repaired(y)) EXCEPT !.top = "cmdx"]
    ELSE LET r == IF y.top \in Whole THEN ReduceCmd(y) ELSE y
         IN  IF y.list THEN ToError(r) ELSE ParseFailed(r)

OnSemi(y) ==
    IF y.top = "none" THEN Shift(y, "bare")
    ELSE IF y.top = "error" THEN Shift(y, "errsemi")
    ELSE IF y.top = "cmdx" THEN Shift(y, "cmdsemi")
    ELSE IF y.top \in Whole THEN Shift(ReduceCmd(y), "cmdsemi")
    ELSE IF y.top = "select" THEN Shift(ReduceCmd(Repaired(y)), "cmdsemi")
    ELSE IF y.list THEN Shift(ToError(y), "errsemi")
    ELSE ParseFailed(y)

(* SynqSqliteParse for one token, at the given position.                    *)
FeedLemon(lemon, token, at) ==
    LET y == ReducePending(lemon)
    IN  IF token = "semi" THEN OnSemi(y)
        ELSE IF token \in {"select", "drop"} /\ y.top = "none"
             THEN Shift([y EXCEPT !.cmd = [at |-> at, whole |-> TRUE]], token)
        ELSE IF token \in {"x", "id"} /\ y.top = "select" THEN Shift(y, "cmd")
        ELSE IF token = "id" /\ y.top = "cmd" THEN Shift(y, "aliased")
        ELSE Recover(y)

(* The end of input, which only ever follows a semicolon: input ::= cmdlist *)
(* sets the root to that of the last command.                               *)
FeedEnd(lemon) ==
    LET y == ReducePending(lemon)
    IN  IF y.list
        THEN [Fresh EXCEPT !.root = IF lemon.top = "cmdsemi" THEN lemon.cmd
                                    ELSE NoRoot]
        ELSE ParseFailed(y)
=============================================================================
