---------------------------- MODULE ParserMacros ----------------------------
(***************************************************************************)
(* The expansion of macro calls (parser_macros.c) while a statement is      *)
(* parsed.  frames are the C calls of expand_and_feed in progress, each     *)
(* with the buffer it feeds and the position in it; stmt.layers are the     *)
(* expansion layers of the statement.  A macro has at most one parameter,   *)
(* "param" in its body, and a call at most one argument.                    *)
(*                                                                         *)
(* Left out: node expansion, and the check for expansions that straddle a   *)
(* node.                                                                    *)
(***************************************************************************)
EXTENDS ParserState, SequencesExt

CONSTANTS
    Body,          \* [registered macros -> Seq(Tokens \cup {"param"})]
    MaxDepth       \* SYNQ_MAX_MACRO_DEPTH

ASSUME BodyAssumption ==
    /\ DOMAIN Body \subseteq Names
    /\ \A m \in DOMAIN Body :
          Body[m] \in Seq((Tokens \ Comments) \cup {"param"})
    /\ MaxDepth \in Nat \ {0}

(* A name and a bang, at position i of a buffer.                            *)
IsCall(buf, i) == i < Len(buf) /\ buf[i] \in Names /\ buf[i + 1] \in Bangs

(* Where the argument list of the call at i ends: scan_macro_args only sets *)
(* it when the list is balanced, and the caller has it initialised to 0.    *)
Nesting(t) == IF t = "with" THEN 1 ELSE IF t = "end" THEN -1 ELSE 0

CallEnd(buf, i) ==
    LET open[k \in (i + 1)..Len(buf)] ==
            IF k = i + 1 THEN 1 ELSE open[k - 1] + Nesting(buf[k])
        closing == {k \in (i + 2)..Len(buf) :
                       /\ open[k] = 0
                       /\ \A j \in (i + 2)..k : buf[j] # "semi"}
    IN  IF buf[i + 1] = "call" THEN i + 1
        ELSE IF buf[i + 1] = "half" \/ closing = {} THEN 0
        ELSE Min(closing)

Argument(buf, i) ==
    IF buf[i + 1] = "with" THEN SubSeq(buf, i + 2, CallEnd(buf, i) - 1)
    ELSE <<>>

(* The lookup callback knows the macro and accepts the arguments.           *)
Known(buf, i) ==
    /\ buf[i] \in DOMAIN Body
    /\ Contains(Body[buf[i]], "param") => Argument(buf, i) # <<>>

(* The body with the argument for its parameter; of each token, which       *)
(* substitution it comes from, 0 for none (arg_segments of the layer).      *)
Substituted(body, arg) ==
    FlattenSeq([k \in DOMAIN body |->
                   IF body[k] = "param" THEN arg ELSE <<body[k]>>])

Segments(body, arg) ==
    FlattenSeq([k \in DOMAIN body |->
                   IF body[k] = "param" THEN [j \in DOMAIN arg |-> k]
                   ELSE <<0>>])

Top == frames[Len(frames)]
Advance(n) == [frames EXCEPT ![Len(frames)].pos = n]

(* The call from i to e in the buffer being fed lies in an argument or      *)
(* reaches into one (synq_body_call_range).                                 *)
ArgInternal(i, e) ==
    \E s \in Range(Top.segments) \ {0} :
        LET segment == {k \in DOMAIN Top.segments : Top.segments[k] = s}
        IN  /\ segment \cap (i..e) # {}
            /\ (i..e) \subseteq segment \/ ~(segment \subseteq i..e)

(* The macros in whose bodies a call in the given layer is written.         *)
Wrappers(layer) ==
    LET wrappers[k \in 0..Len(stmt.layers)] ==
            IF k = 0 THEN {}
            ELSE {stmt.layers[k].name}
                 \cup (IF stmt.layers[k].internal THEN {}
                       ELSE wrappers[stmt.layers[k].parent])
    IN  wrappers[layer]

(* A plausible slip: the text of an argument counts as written in the body. *)
RecursiveInArguments(i) == Top.text[i] \in Wrappers(layerId)

(* The recursion check on a call at i in the buffer being fed; the caller   *)
(* of a macro wrote the text of its argument.                               *)
Recursive(i) ==
    Top.text[i] \in Wrappers(IF Top.segments[i] = 0 THEN layerId
                             ELSE stmt.layers[layerId].parent)

(* begin_macro_expansion for the call at i: the body is fed from now on, in *)
(* a layer of its own.                                                      *)
Enter(buf, i, internal, current) ==
    LET name == buf[i] IN
    /\ stmt' = [stmt EXCEPT !.layers =
          Append(@, [name |-> name, parent |-> layerId, internal |-> internal])]
    /\ depth' = depth + 1 /\ layerId' = Len(stmt.layers) + 1
    /\ frames' = Append(current,
          [name |-> name, pos |-> 0, resume |-> CallEnd(buf, i),
           text |-> Substituted(Body[name], Argument(buf, i)),
           segments |-> Segments(Body[name], Argument(buf, i))])

(* A plausible slip: what follows a nested call belongs to the source.      *)
EndMacroToSource ==
    /\ depth' = depth - 1
    /\ layerId' = 0

(* synq_end_macro *)
EndMacro ==
    /\ depth' = depth - 1
    /\ layerId' = IF depth = 1 THEN 0 ELSE stmt.layers[layerId].parent

(* A body is fed completely, or a statement was completed while it was fed: *)
(* what is left of it is then dropped, and the caller goes on after the     *)
(* call as in any other case.                                               *)
Return ==
    LET rest == SubSeq(frames, 1, Len(frames) - 1)
        outer == Len(rest)
    IN  /\ EndMacro
        /\ IF outer = 0
           THEN /\ offset' = Top.resume /\ frames' = rest /\ pc' = "next"
           ELSE /\ frames' = [rest EXCEPT ![outer].pos = Top.resume]
                /\ UNCHANGED <<offset, pc>>

EndBody ==
    /\ pc = "expand" /\ Len(frames) < MaxDepth
    /\ Top.pos = Len(Top.text)
    /\ Return
    /\ UNCHANGED <<handle, lemon, lastToken, stmt, finished, pendingReset,
                   delivered>>

(* A token of a body.  An error does not stop the expansion; a completed    *)
(* statement does, and its flag is lowered without handing the result out.  *)
FeedBody ==
    /\ pc = "expand" /\ Len(frames) < MaxDepth
    /\ LET buf == Top.text
           i == Top.pos + 1
           y == FeedLemon(lemon, Kind(buf[i]), offset)
           call == IsCall(buf, i)
       IN  /\ i <= Len(buf)
           /\ call => ~Known(buf, i) /\ ~Recursive(i) /\ ~stmt.hadError
           /\ lemon' = [y EXCEPT !.error = FALSE, !.completed = FALSE]
           /\ lastToken' = LastOf(buf[i])
           /\ stmt' = [stmt EXCEPT !.hadError = @ \/ y.error]
           /\ IF y.completed THEN Return
              ELSE /\ frames' = Advance(i)
                   /\ UNCHANGED <<depth, layerId, offset, pc>>
    /\ UNCHANGED <<handle, finished, pendingReset, delivered>>

(* A call in a body.                                                        *)
EnterNested ==
    /\ pc = "expand" /\ Len(frames) < MaxDepth
    /\ LET buf == Top.text
           i == Top.pos + 1
       IN  /\ IsCall(buf, i)
           /\ Known(buf, i) /\ ~Recursive(i)
           /\ Enter(buf, i, ArgInternal(i, CallEnd(buf, i)), frames)
    /\ UNCHANGED <<handle, offset, lemon, lastToken, finished, pendingReset,
                   pc, delivered>>

(* The expansion fails: it is too deep, or a call in the body is recursive  *)
(* or, in a statement that already has an error, unknown.  Every caller     *)
(* gives up in turn.                                                        *)
Fail ==
    /\ pc = "expand"
    /\ LET buf == Top.text
           i == Top.pos + 1
       IN  \/ Len(frames) >= MaxDepth
           \/ /\ Len(frames) < MaxDepth
              /\ IsCall(buf, i)
              /\ Recursive(i) \/ (~Known(buf, i) /\ stmt.hadError)
    /\ stmt' = [stmt EXCEPT !.hadError = TRUE]
    /\ pc' = "unwind"
    /\ UNCHANGED <<handle, offset, lemon, lastToken, finished, pendingReset,
                   macros, delivered>>

(* expand_and_feed_macro ends the layer of a failed expansion and passes    *)
(* the failure on; the parse loop then feeds the name as any other token.   *)
Unwind ==
    /\ pc = "unwind"
    /\ EndMacro
    /\ frames' = SubSeq(frames, 1, Len(frames) - 1)
    /\ pc' = IF Len(frames) = 1 THEN "plain" ELSE "unwind"
    /\ UNCHANGED <<handle, offset, lemon, lastToken, stmt, finished,
                   pendingReset, delivered>>

Expand == EndBody \/ FeedBody \/ EnterNested \/ Fail \/ Unwind
=============================================================================
