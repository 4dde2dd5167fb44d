----------------------------- MODULE ParserLoop -----------------------------
(***************************************************************************)
(* The two ways a parser handle is driven: syntaqlite_parser_next, which    *)
(* reads its source one statement a call (the cursor session of the Rust    *)
(* API), and syntaqlite_parser_feed_token with syntaqlite_parser_finish,    *)
(* which are given the tokens (the incremental session).  A session checks  *)
(* the parser out and may be dropped between any two calls.                 *)
(*                                                                         *)
(* Steps of the model: one turn of the loop of syntaqlite_parser_next or of *)
(* expand_and_feed, one call of feed_token.                                 *)
(***************************************************************************)
EXTENDS ParserMacros

Init ==
    /\ lookup \in BOOLEAN
    /\ session = "none" /\ sessions = 0 /\ source = <<>>
    /\ offset = 0 /\ lemon = Fresh /\ lastToken = "none" /\ stmt = EmptyStmt
    /\ finished = FALSE /\ pendingReset = FALSE /\ pc = "idle"
    /\ layerId = 0 /\ depth = 0 /\ frames = <<>> /\ delivered = <<>>

CanOpen == session = "none" /\ sessions < MaxSessions

OpenCursor ==
    CanOpen /\ \E text \in Sources[lookup][sessions + 1] : Open("cursor", text)

OpenIncremental ==
    CanOpen /\ \E text \in Sources[lookup][sessions + 1] :
                  Open("incremental", text)

Deliver(status, y, s, end) ==
    IF status \in Statuses
    THEN delivered' = Append(delivered, Result(status, y, s, end))
    ELSE UNCHANGED delivered

----------------------------------------------------------------------------
(* syntaqlite_parser_next                                                   *)

BeginNext ==
    /\ session = "cursor" /\ pc = "idle" /\ ~finished
    /\ stmt' = IF offset < Len(source) THEN Opened(EmptyStmt, offset + 1)
               ELSE EmptyStmt
    /\ lemon' = ResetCtx(lemon) /\ layerId' = 0
    /\ pc' = "next"
    /\ UNCHANGED <<handle, offset, lastToken, finished, pendingReset, depth,
                   frames, delivered>>

(* A plausible slip: the loop goes on at the comment it recorded.           *)
StayAtComment ==
    /\ pc = "next" /\ offset < Len(source)
    /\ source[offset + 1] \in Comments
    /\ stmt' = [stmt EXCEPT !.comment = TRUE]
    /\ UNCHANGED <<handle, offset, lemon, lastToken, finished, pendingReset, pc,
                   macros, delivered>>

(* A comment is recorded and covered by the statement, not fed.             *)
NextComment ==
    /\ pc = "next" /\ offset < Len(source)
    /\ source[offset + 1] \in Comments
    /\ stmt' = [stmt EXCEPT !.comment = TRUE]
    /\ offset' = offset + 1
    /\ UNCHANGED <<handle, lemon, lastToken, finished, pendingReset, pc,
                   macros, delivered>>

(* The comments on the line of a terminator belong to its statement.        *)
AfterNotes(i) ==
    CHOOSE j \in i..Len(source) :
        /\ \A k \in (i + 1)..j : source[k] = "note"
        /\ j = Len(source) \/ source[j + 1] # "note"

(* One token of the source is shifted.  A semicolon that completes nothing  *)
(* closes the statement all the same when it is alone or follows an error.  *)
ShiftNext(i, hadError) ==
    LET shifted == Shifted(source[i], i)
        flagged == hadError \/ shifted.hadError
        closes == \/ shifted.done
                  \/ source[i] = "semi" /\ (lastToken = "none" \/ flagged)
        recorded == [Recorded(stmt, i) EXCEPT !.hadError = flagged]
    IN  IF closes
        THEN /\ offset' = AfterNotes(i)
             /\ lemon' = Reinit(shifted.lemon) /\ lastToken' = "none"
             /\ stmt' = [recorded EXCEPT !.hadError = FALSE]
             /\ Deliver(BoundaryStatus(flagged), shifted.lemon, recorded,
                        AfterNotes(i))
             /\ pc' = "idle"
        ELSE /\ offset' = i
             /\ lemon' = shifted.lemon /\ lastToken' = LastOf(source[i])
             /\ stmt' = recorded
             /\ pc' = "next"
             /\ UNCHANGED delivered

NextToken ==
    /\ pc = "next" /\ offset < Len(source)
    /\ source[offset + 1] \notin Comments
    /\ IsCall(source, offset + 1) =>
          ~lookup /\ CallEnd(source, offset + 1) = 0
    /\ ShiftNext(offset + 1, FALSE)
    /\ UNCHANGED <<handle, finished, pendingReset, macros>>

(* A call of a macro nobody registered is an error, and its tokens are fed  *)
(* like any others.                                                         *)
NextUnknownCall ==
    /\ pc = "next" /\ lookup
    /\ IsCall(source, offset + 1) /\ ~Known(source, offset + 1)
    /\ ShiftNext(offset + 1, TRUE)
    /\ UNCHANGED <<handle, finished, pendingReset, macros>>

(* The name of a call whose expansion failed.                               *)
NextFailedCall ==
    /\ pc = "plain"
    /\ ShiftNext(offset, FALSE)
    /\ UNCHANGED <<handle, finished, pendingReset, macros>>

NextCall ==
    LET i == offset + 1 IN
    /\ pc = "next" /\ lookup
    /\ IsCall(source, i) /\ Known(source, i)
    /\ Enter(source, i, FALSE, frames)
    /\ offset' = i
    /\ pc' = "expand"
    /\ UNCHANGED <<handle, lemon, lastToken, finished, pendingReset, delivered>>

(* Without a callback a call with its whole list is one identifier, in a    *)
(* layer that is closed at once; whether the shift completed a statement is *)
(* not asked.                                                               *)
NextFallback ==
    LET i == offset + 1 IN
    /\ pc = "next" /\ ~lookup
    /\ IsCall(source, i) /\ CallEnd(source, i) # 0
    /\ LET shifted == Shifted(source[i], i) IN
       /\ lemon' = shifted.lemon
       /\ stmt' = [Recorded(stmt, i) EXCEPT
                     !.hadError = shifted.hadError,
                     !.layers = Append(@, [name |-> source[i], parent |-> 0,
                                           internal |-> FALSE])]
    /\ lastToken' = "other"
    /\ offset' = CallEnd(source, i)
    /\ UNCHANGED <<handle, finished, pendingReset, pc, macros, delivered>>

NextEnd ==
    /\ pc = "next" /\ offset = Len(source)
    /\ LET end == FinishInput IN
       /\ Deliver(end.status, end.lemon, stmt, offset)
       /\ lemon' = end.lemon
    /\ finished' = TRUE /\ pc' = "idle"
    /\ UNCHANGED <<handle, offset, lastToken, stmt, pendingReset, macros>>

ParseNext ==
    \/ BeginNext \/ NextComment \/ NextToken \/ NextUnknownCall
    \/ NextFailedCall \/ NextCall \/ NextFallback \/ NextEnd
    \/ Expand

----------------------------------------------------------------------------
(* syntaqlite_parser_feed_token and syntaqlite_parser_finish                *)

(* The reset of the statement before, put off so that its result can be     *)
(* read until the next call.                                                *)
FeedToken ==
    /\ session = "incremental" /\ pc = "idle" /\ ~finished
    /\ offset < Len(source)
    /\ LET i == offset + 1
           open == Opened(IF pendingReset THEN EmptyStmt ELSE stmt, i)
           before == IF pendingReset THEN ResetCtx(lemon) ELSE lemon
           y == FeedLemon(before, Kind(source[i]), i)
           shifted == [y EXCEPT !.error = FALSE,
                                !.completed = y.completed /\ y.error]
           hadError == open.hadError \/ y.error
           recorded == [Recorded(open, i) EXCEPT !.hadError = hadError]
           real == y.root # NoRoot
       IN  /\ offset' = i
           /\ IF source[i] \in Comments
              THEN /\ stmt' = open
                   /\ lemon' = before /\ pendingReset' = FALSE
                   /\ UNCHANGED <<lastToken, delivered>>
              ELSE IF y.completed /\ ~y.error /\ (real \/ hadError)
              THEN /\ lemon' = IF real THEN Reinit(shifted) ELSE shifted
                   /\ lastToken' = IF real THEN "none" ELSE LastOf(source[i])
                   /\ stmt' = [recorded EXCEPT !.hadError = FALSE]
                   /\ Deliver(BoundaryStatus(hadError), y, recorded, i)
                   /\ pendingReset' = TRUE
              ELSE /\ lemon' = shifted /\ lastToken' = LastOf(source[i])
                   /\ stmt' = recorded /\ pendingReset' = FALSE
                   /\ UNCHANGED delivered
    /\ UNCHANGED <<handle, finished, pc, macros>>

(* Right after a result there is nothing to flush.                          *)
FeedFinish ==
    /\ session = "incremental" /\ pc = "idle" /\ ~finished
    /\ offset = Len(source)
    /\ IF pendingReset THEN UNCHANGED <<lemon, delivered>>
       ELSE LET end == FinishInput IN
            /\ Deliver(end.status, end.lemon, stmt, offset)
            /\ lemon' = end.lemon
    /\ pendingReset' = FALSE /\ finished' = TRUE
    /\ UNCHANGED <<handle, offset, lastToken, stmt, pc, macros>>

Feed == FeedToken \/ FeedFinish

Next == OpenCursor \/ OpenIncremental \/ ParseNext \/ Feed \/ Close

(* A call that was made runs to its end.                                    *)
Spec == Init /\ [][Next]_vars /\ WF_vars(ParseNext /\ pc # "idle")
----------------------------------------------------------------------------
(* The layer tokens are attributed to is that of the innermost macro whose  *)
(* body is being fed, its parents those around it, and none is left open    *)
(* when the parse loop goes on: on every way out of an expansion            *)
(* (synq_parser_expand_and_feed_macro, synq_end_macro).                     *)
LayersMatchFrames ==
    LET chain[k \in 0..Len(frames)] ==
            IF k = 0 THEN layerId
            ELSE IF chain[k - 1] = 0 THEN 0
            ELSE stmt.layers[chain[k - 1]].parent
    IN  session # "none" =>
        /\ depth = Len(frames)
        /\ chain[Len(frames)] = 0
        /\ \A k \in 1..Len(frames) :
              /\ chain[k - 1] # 0
              /\ stmt.layers[chain[k - 1]].name
                    = frames[Len(frames) - k + 1].name

(* A call is refused as recursive only if the bodies of macros lead from    *)
(* its macro back to it.  The comment over the check (parser_macros.c)      *)
(* speaks of the macros whose authored bodies contain the call site; the    *)
(* code looks past one argument only.                                       *)
Called(m) == {Body[m][i] : i \in {k \in DOMAIN Body[m] : IsCall(Body[m], k)}}

Leads(m) ==
    LET within[n \in Nat] ==
            IF n = 0 THEN Called(m)
            ELSE within[n - 1] \cup
                 UNION {Called(c) : c \in within[n - 1] \cap DOMAIN Body}
    IN  within[Cardinality(DOMAIN Body)]

RecursionIsReal ==
    pc = "expand" /\ IsCall(Top.text, Top.pos + 1) /\ Recursive(Top.pos + 1)
    => Top.text[Top.pos + 1] \in Leads(Top.text[Top.pos + 1])

(* A call of syntaqlite_parser_next returns: the expansions of macros that  *)
(* call one another or themselves come to an end, and the loop reads on.    *)
NextReturns == pc # "idle" ~> pc = "idle"

(* What is promised of either session (StatementStream): one session leaves *)
(* nothing behind for the next, every well-formed statement is handed out   *)
(* once, in order, with its text, its tokens and its tree, and an error in  *)
(* one never reaches past its semicolon.                                    *)
View(r) ==
    [status |-> r.status, rooted |-> r.status = "OK" /\ r.root # NoRoot,
     from |-> r.from, to |-> r.to,
     tokens |-> IF r.status = "OK" THEN r.tokens ELSE <<>>]

Stream == INSTANCE StatementStream WITH
    fed <- IF session = "incremental" THEN offset ELSE 0,
    results <- [k \in 1..Len(delivered) |-> View(delivered[k])],
    over <- finished

ImplementsStream == Stream!Spec
=============================================================================
