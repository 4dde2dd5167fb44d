--------------------------- MODULE ParserLoopProofs ---------------------------
(***************************************************************************)
(* Type correctness of the parser handle; that the expansion layers of a    *)
(* statement follow the calls of expand_and_feed in progress; that sessions  *)
(* start fresh; and that the sessions hand out the statements of            *)
(* StatementStream, a cursor over texts without macro calls.                *)
(***************************************************************************)
EXTENDS ParserLoop, SequenceLemmas

----------------------------------------------------------------------------
(* The Lemon driver                                                         *)

Cmd == [at : Nat, whole : BOOLEAN]
Holding == {"select", "drop", "cmd", "aliased", "cmdx", "cmdsemi"}
Tops == Holding \cup {"none", "error", "bare", "errsemi"}

LemonRecord ==
    [list : BOOLEAN, top : Tops, cmd : {NoRoot} \cup Cmd, errcnt : -1..3,
     root : {NoRoot} \cup Cmd, completed : BOOLEAN, error : BOOLEAN]

(* A statement on the stack has a node, and nothing else has one.           *)
LemonType ==
    {y \in LemonRecord : y.cmd \in IF y.top \in Holding THEN Cmd ELSE {NoRoot}}

LEMMA FreshType == Fresh \in LemonType
<1>1. Fresh \in LemonRecord
  BY DEF Fresh, LemonRecord, Tops
<1>2. Fresh.top \notin Holding /\ Fresh.cmd = NoRoot
  BY DEF Fresh, Holding
<1> QED BY <1>1, <1>2 DEF LemonType

LEMMA SetError ==
    ASSUME NEW y \in LemonRecord, NEW e \in BOOLEAN
    PROVE  [y EXCEPT !.error = e] \in LemonRecord
BY DEF LemonRecord

LEMMA SetErrcnt ==
    ASSUME NEW y \in LemonRecord, NEW n \in -1..3
    PROVE  [y EXCEPT !.errcnt = n] \in LemonRecord
BY DEF LemonRecord

(* What a rule leaves alone stays, and the end of a statement's text too.   *)
LEMMA FlagsType ==
    ASSUME NEW y \in LemonType, NEW c \in BOOLEAN
    PROVE  /\ [y EXCEPT !.error = FALSE, !.completed = c] \in LemonType
           /\ ResetCtx(y) \in LemonType
<1>1. /\ [y EXCEPT !.error = FALSE, !.completed = c] \in LemonRecord
      /\ [y EXCEPT !.error = FALSE, !.completed = c].top = y.top
      /\ [y EXCEPT !.error = FALSE, !.completed = c].cmd = y.cmd
  BY DEF LemonType, LemonRecord
<1>2. ResetCtx(y) \in LemonRecord
  BY DEF LemonType, LemonRecord, ResetCtx
<1>3. ResetCtx(y).top = y.top /\ ResetCtx(y).cmd = y.cmd
  BY DEF LemonType, LemonRecord, ResetCtx
<1> QED BY <1>1, <1>2, <1>3 DEF LemonType

LEMMA ReinitType ==
    ASSUME NEW y \in LemonType
    PROVE  Reinit(y) \in LemonType
<1>1. ASSUME NEW f \in LemonRecord
      PROVE  LET g == [f EXCEPT !.root = y.root, !.completed = y.completed,
                                !.error = y.error]
             IN  g \in LemonRecord /\ g.top = f.top /\ g.cmd = f.cmd
  BY DEF LemonType, LemonRecord
<1>2. Fresh \in LemonType
  BY FreshType
<1> QED BY <1>1, <1>2 DEF LemonType, Reinit

Fields == {"list", "top", "cmd", "errcnt", "root", "completed", "error"}

LEMMA SameRecord ==
    ASSUME NEW f, NEW g,
           f = [x \in Fields |-> f[x]], g = [x \in Fields |-> g[x]],
           f.list = g.list, f.top = g.top, f.cmd = g.cmd, f.errcnt = g.errcnt,
           f.root = g.root, f.completed = g.completed, f.error = g.error
    PROVE  f = g
<1>1. \A x \in Fields : f[x] = g[x]
  BY DEF Fields
<1> QED BY <1>1

(* The parser a session is given, whatever was parsed with it before.       *)
LEMMA ReopenedIsFresh ==
    ASSUME NEW y
    PROVE  ResetCtx(Reinit(y)) = Fresh
<1> DEFINE r == Reinit(y)
           s == ResetCtx(r)
<1>1. r.list = FALSE /\ r.top = "none" /\ r.cmd = NoRoot /\ r.errcnt = -1
  BY DEF Reinit, Fresh
<1>2. r = [x \in Fields |-> r[x]]
  BY DEF Reinit, Fresh, Fields
<1> HIDE DEF r
<1>3. s = [x \in Fields |-> s[x]]
  BY <1>2 DEF ResetCtx
<1>4. s.list = FALSE /\ s.top = "none" /\ s.cmd = NoRoot /\ s.errcnt = -1
  BY <1>1, <1>2 DEF ResetCtx, Fields
<1>5. s.root = NoRoot /\ s.completed = FALSE /\ s.error = FALSE
  BY <1>2 DEF ResetCtx, Fields
<1>6. Fresh = [x \in Fields |-> Fresh[x]]
  BY DEF Fresh, Fields
<1>7. /\ Fresh.list = FALSE /\ Fresh.top = "none" /\ Fresh.cmd = NoRoot
      /\ Fresh.errcnt = -1 /\ Fresh.root = NoRoot
      /\ Fresh.completed = FALSE /\ Fresh.error = FALSE
  BY DEF Fresh
<1> HIDE DEF s
<1>8. s = Fresh
  BY <1>3, <1>4, <1>5, <1>6, <1>7, SameRecord, ZenonT(30)
<1> QED BY <1>8 DEF r, s

LEMMA ReducePendingType ==
    ASSUME NEW y \in LemonType
    PROVE  /\ ReducePending(y) \in LemonType
           /\ ReducePending(y).top \notin Pending
BY DEF LemonType, LemonRecord, Tops, Holding, ReducePending, Pending

LEMMA ShiftType ==
    ASSUME NEW y \in LemonRecord, NEW top \in Tops,
           y.cmd \in IF top \in Holding THEN Cmd ELSE {NoRoot}
    PROVE  Shift(y, top) \in LemonType
<1> DEFINE n == IF y.errcnt = -1 THEN -1 ELSE y.errcnt - 1
<1>1. n \in -1..3
  BY DEF LemonRecord
<1>2. Shift(y, top) = [y EXCEPT !.top = top, !.errcnt = n]
  BY DEF Shift
<1> HIDE DEF n
<1>3. Shift(y, top) \in LemonRecord
  BY <1>1, <1>2 DEF LemonRecord
<1>4. Shift(y, top).top = top /\ Shift(y, top).cmd = y.cmd
  BY <1>2 DEF LemonRecord
<1> QED BY <1>3, <1>4 DEF LemonType

LEMMA FlagType ==
    ASSUME NEW y \in LemonType
    PROVE  /\ Flag(y) \in LemonType
           /\ Flag(y).top = y.top /\ Flag(y).cmd = y.cmd
<1> DEFINE e == y.error \/ y.errcnt < 0
           z == [y EXCEPT !.error = e]
<1>1. e \in BOOLEAN /\ 3 \in -1..3
  OBVIOUS
<1> HIDE DEF e
<1>2. z \in LemonRecord
  BY <1>1, SetError DEF LemonType
<1>3. Flag(y) = [z EXCEPT !.errcnt = 3]
  BY DEF Flag, e
<1>4. Flag(y).top = y.top /\ Flag(y).cmd = y.cmd
  BY <1>3 DEF LemonType, LemonRecord
<1> HIDE DEF z
<1>5. Flag(y) \in LemonRecord
  BY <1>1, <1>2, <1>3, SetErrcnt
<1> QED BY <1>4, <1>5 DEF LemonType

LEMMA RecoveryType ==
    ASSUME NEW y \in LemonType
    PROVE  /\ ReduceCmd(y) \in LemonType
           /\ ReduceCmd(y).top = y.top /\ ReduceCmd(y).cmd = y.cmd
           /\ ParseFailed(y) \in LemonType
           /\ ToError(y) \in LemonType
           /\ ToError(y).top = "error" /\ ToError(y).cmd = NoRoot
<1>1. /\ ReduceCmd(y) \in LemonType
      /\ ReduceCmd(y).top = y.top /\ ReduceCmd(y).cmd = y.cmd
  BY DEF LemonType, LemonRecord, ReduceCmd
<1>2. ParseFailed(y) \in LemonType
  <2> DEFINE z == [y EXCEPT !.errcnt = 3]
             w == [z EXCEPT !.error = TRUE, !.list = FALSE, !.top = "none",
                            !.cmd = NoRoot]
  <2>1. z \in LemonRecord
    <3>1. 3 \in -1..3
      OBVIOUS
    <3> QED BY <3>1, SetErrcnt DEF LemonType
  <2>2. /\ ParseFailed(y) = w
    BY DEF ParseFailed
  <2> HIDE DEF z
  <2>3. w \in LemonRecord /\ w.top = "none" /\ w.cmd = NoRoot
    BY <2>1 DEF LemonRecord, Tops
  <2> QED BY <2>2, <2>3 DEF LemonType, Holding
<1>3. /\ ToError(y) \in LemonType
      /\ ToError(y).top = "error" /\ ToError(y).cmd = NoRoot
  BY FlagType DEF LemonType, LemonRecord, Tops, Holding, ToError
<1> QED BY <1>1, <1>2, <1>3

LEMMA RepairedType ==
    ASSUME NEW y \in LemonType, y.top = "select"
    PROVE  Repaired(y) \in LemonType /\ Repaired(y).top = "select"
<1> DEFINE f == Flag(y)
           cmd == [f.cmd EXCEPT !.whole = FALSE]
<1>1. f \in LemonType /\ f.top = "select"
  BY FlagType
<1> HIDE DEF f
<1>2. cmd \in Cmd
  BY <1>1 DEF LemonType, Holding, Cmd
<1>3. [f EXCEPT !.cmd.whole = FALSE] = [f EXCEPT !.cmd = cmd]
  OBVIOUS
<1> HIDE DEF cmd
<1>4. /\ [f EXCEPT !.cmd = cmd] \in LemonType
      /\ [f EXCEPT !.cmd = cmd].top = "select"
  BY <1>1, <1>2 DEF LemonType, LemonRecord, Holding, Tops
<1> QED BY <1>3, <1>4 DEF Repaired, f

LEMMA FeedType ==
    ASSUME NEW y \in LemonType, NEW token, NEW at \in Nat
    PROVE  FeedLemon(y, token, at) \in LemonType
<1> DEFINE r == ReducePending(y)
<1>1. r \in LemonType /\ r.top \notin Pending
  BY ReducePendingType
<1> HIDE DEF r
<1>2. Recover(r) \in LemonType
  <2>1. CASE r.top = "select"
    <3> DEFINE s == ReduceCmd(Repaired(r))
    <3>1. s \in LemonType /\ s.top = "select"
      BY <1>1, <2>1, RepairedType, RecoveryType
    <3> HIDE DEF s
    <3>2. [s EXCEPT !.top = "cmdx"] \in LemonType
      BY <3>1 DEF LemonType, LemonRecord, Holding, Tops
    <3> QED BY <2>1, <3>2 DEF Recover, s
  <2>2. CASE r.top # "select"
    <3>1. ReduceCmd(r) \in LemonType
      BY <1>1, RecoveryType
    <3> QED BY <1>1, <2>2, <3>1, RecoveryType DEF Recover
  <2> QED BY <2>1, <2>2
<1>3. OnSemi(r) \in LemonType
  <2>1. CASE r.top \in {"none", "error", "cmdx"}
    BY <1>1, <2>1, ShiftType DEF OnSemi, LemonType, Holding, Tops, Whole
  <2>2. CASE r.top \in Whole
    <3>1. /\ ReduceCmd(r) \in LemonType
          /\ ReduceCmd(r).cmd \in Cmd
      BY <1>1, <2>2, RecoveryType DEF LemonType, Holding, Whole
    <3>2. Shift(ReduceCmd(r), "cmdsemi") \in LemonType
      BY <3>1, ShiftType DEF LemonType, Holding, Tops
    <3> QED BY <2>2, <3>2 DEF OnSemi, Whole
  <2>3. CASE r.top = "select"
    <3> DEFINE s == ReduceCmd(Repaired(r))
    <3>1. s \in LemonType /\ s.top = "select"
      BY <1>1, <2>3, RepairedType, RecoveryType
    <3>2. s.cmd \in Cmd
      BY <3>1 DEF LemonType, Holding
    <3> HIDE DEF s
    <3>3. Shift(s, "cmdsemi") \in LemonType
      BY <3>1, <3>2, ShiftType DEF LemonType, Holding, Tops
    <3> QED BY <2>3, <3>3 DEF OnSemi, Whole, s
  <2>4. CASE r.top \notin {"none", "error", "cmdx", "select"} \cup Whole
    <3>1. Shift(ToError(r), "errsemi") \in LemonType
      BY <1>1, RecoveryType, ShiftType DEF LemonType, Holding, Tops
    <3> QED BY <1>1, <2>4, <3>1, RecoveryType DEF OnSemi
  <2> QED BY <2>1, <2>2, <2>3, <2>4
<1>4. ASSUME token \in {"select", "drop"}, r.top = "none"
      PROVE  Shift([r EXCEPT !.cmd = [at |-> at, whole |-> TRUE]], token)
                \in LemonType
  <2> DEFINE s == [r EXCEPT !.cmd = [at |-> at, whole |-> TRUE]]
  <2>1. s \in LemonRecord /\ s.cmd \in Cmd
    BY <1>1, <1>4 DEF LemonType, LemonRecord, Cmd
  <2> HIDE DEF s
  <2>2. Shift(s, token) \in LemonType
    BY <1>4, <2>1, ShiftType DEF Holding, Tops
  <2> QED BY <2>2 DEF s
<1>5. ASSUME r.top \in {"select", "cmd"}
      PROVE  Shift(r, "cmd") \in LemonType /\ Shift(r, "aliased") \in LemonType
  <2>1. r.cmd \in Cmd
    BY <1>1, <1>5 DEF LemonType, Holding
  <2> QED BY <1>1, <2>1, ShiftType DEF LemonType, Holding, Tops
<1>6. FeedLemon(y, token, at) =
        IF token = "semi" THEN OnSemi(r)
        ELSE IF token \in {"select", "drop"} /\ r.top = "none"
             THEN Shift([r EXCEPT !.cmd = [at |-> at, whole |-> TRUE]], token)
        ELSE IF token \in {"x", "id"} /\ r.top = "select" THEN Shift(r, "cmd")
        ELSE IF token = "id" /\ r.top = "cmd" THEN Shift(r, "aliased")
        ELSE Recover(r)
  BY DEF FeedLemon, r
<1> QED BY <1>2, <1>3, <1>4, <1>5, <1>6

LEMMA FeedEndType ==
    ASSUME NEW y \in LemonType
    PROVE  FeedEnd(y) \in LemonType
<1> DEFINE r == ReducePending(y)
<1>1. r \in LemonType
  BY ReducePendingType
<1> HIDE DEF r
<1>2. ParseFailed(r) \in LemonType
  BY <1>1, RecoveryType
<1>3. ASSUME NEW root \in {NoRoot} \cup Cmd
      PROVE  [Fresh EXCEPT !.root = root] \in LemonType
  <2>1. ASSUME NEW f \in LemonRecord
        PROVE  LET g == [f EXCEPT !.root = root]
               IN  g \in LemonRecord /\ g.top = f.top /\ g.cmd = f.cmd
    BY DEF LemonRecord
  <2> QED BY <2>1, FreshType DEF LemonType
<1>4. (IF y.top = "cmdsemi" THEN y.cmd ELSE NoRoot) \in {NoRoot} \cup Cmd
  BY DEF LemonType, LemonRecord
<1>5. [Fresh EXCEPT !.root = IF y.top = "cmdsemi" THEN y.cmd ELSE NoRoot]
        \in LemonType
  BY <1>3, <1>4
<1> QED BY <1>1, <1>2, <1>5 DEF FeedEnd, r
----------------------------------------------------------------------------
(* The text of an expansion                                                 *)

(* A call ends within the buffer it is written in.                          *)
LEMMA CallEndRange ==
    ASSUME NEW S, NEW buf \in Seq(S), NEW i \in Nat, IsCall(buf, i)
    PROVE  CallEnd(buf, i) \in 0..Len(buf)
<1> DEFINE open == CHOOSE f : f = [k \in (i + 1)..Len(buf) |->
                     IF k = i + 1 THEN 1 ELSE f[k - 1] + Nesting(buf[k])]
           closing == {k \in (i + 2)..Len(buf) :
                         /\ open[k] = 0
                         /\ \A j \in (i + 2)..k : buf[j] # "semi"}
<1>1. CallEnd(buf, i) = IF buf[i + 1] = "call" THEN i + 1
                        ELSE IF buf[i + 1] = "half" \/ closing = {} THEN 0
                        ELSE Min(closing)
  BY DEF CallEnd
<1>2. closing \subseteq (i + 2)..Len(buf)
  OBVIOUS
<1> HIDE DEF closing
<1>3. ASSUME closing # {}
      PROVE  Min(closing) \in closing
  <2>1. closing \in SUBSET Nat
    BY <1>2
  <2> QED BY <1>3, <2>1, LeastNat DEF Min
<1>4. i + 1 \in 0..Len(buf) /\ 0 \in 0..Len(buf)
  BY DEF IsCall
<1>5. closing # {} => Min(closing) \in 0..Len(buf)
  <2>1. (i + 2)..Len(buf) \subseteq 0..Len(buf)
    OBVIOUS
  <2> QED BY <1>2, <1>3, <2>1
<1> QED BY <1>1, <1>4, <1>5

LEMMA ArgumentType ==
    ASSUME NEW S, NEW buf \in Seq(S), NEW i \in Nat, IsCall(buf, i)
    PROVE  Argument(buf, i) \in Seq(S)
<1>1. CallEnd(buf, i) \in 0..Len(buf)
  BY CallEndRange
<1>2. SubSeq(buf, i + 2, CallEnd(buf, i) - 1) \in Seq(S)
  BY <1>1
<1> QED BY <1>2 DEF Argument

(* The text of an expansion is one of tokens, and every token of it has a   *)
(* segment.                                                                 *)
LEMMA ExpansionType ==
    ASSUME NEW m \in DOMAIN Body, NEW arg \in Seq(Tokens)
    PROVE  /\ Substituted(Body[m], arg) \in Seq(Tokens)
           /\ Segments(Body[m], arg) \in Seq(Nat)
           /\ Len(Segments(Body[m], arg)) = Len(Substituted(Body[m], arg))
<1> DEFINE body == Body[m]
           q == [k \in DOMAIN body |-> IF body[k] = "param" THEN arg
                                       ELSE <<body[k]>>]
           r == [k \in DOMAIN body |->
                   IF body[k] = "param" THEN [j \in DOMAIN arg |-> k]
                   ELSE <<0>>]
<1>1. body \in Seq((Tokens \ Comments) \cup {"param"})
  BY BodyAssumption
<1> HIDE DEF body
<1>2. ASSUME NEW k \in DOMAIN body
      PROVE  /\ q[k] \in Seq(Tokens) /\ r[k] \in Seq(Nat)
             /\ Len(q[k]) = Len(r[k])
  <2>1. k \in 1..Len(body)
    BY <1>1
  <2>2. CASE body[k] = "param"
    <3>1. /\ [j \in DOMAIN arg |-> k] \in Seq(Nat)
          /\ Len([j \in DOMAIN arg |-> k]) = Len(arg)
      BY <2>1
    <3> QED BY <2>2, <3>1
  <2>3. CASE body[k] # "param"
    <3>1. body[k] \in Tokens
      BY <1>1, <2>1, <2>3
    <3> QED BY <2>3, <3>1
  <2> QED BY <2>2, <2>3
<1>3. /\ q \in Seq(Seq(Tokens)) /\ r \in Seq(Seq(Nat))
      /\ Len(q) = Len(body) /\ Len(r) = Len(body)
  <2>1. DOMAIN body = 1..Len(body) /\ Len(body) \in Nat
    BY <1>1
  <2> QED BY <1>2, <2>1
<1>4. \A k \in 1..Len(q) : Len(q[k]) = Len(r[k])
  BY <1>1, <1>2, <1>3
<1> HIDE DEF q, r
<1>5. FlattenSeq(q) \in Seq(Tokens) /\ FlattenSeq(r) \in Seq(Nat)
  BY <1>3, FlattenType
<1>6. Len(FlattenSeq(q)) = Len(FlattenSeq(r))
  BY <1>3, <1>4, FlattenLen
<1> QED BY <1>5, <1>6 DEF Substituted, Segments, q, r, body
----------------------------------------------------------------------------
(* The invariant                                                            *)

Layer == [name : Names, parent : Nat, internal : BOOLEAN]
StmtType == [hadError : BOOLEAN, comment : BOOLEAN, tokens : Seq(Nat),
             from : Nat, layers : Seq(Layer)]
Frame == [name : Names, pos : Nat, resume : Nat, text : Seq(Tokens),
          segments : Seq(Nat)]
Outcome == [status : Statuses, root : {NoRoot} \cup Cmd, from : Nat, to : Nat,
            tokens : Seq(Nat)]

(* The buffer the call behind the k-th frame is written in.                 *)
Around(k) == IF k = 1 THEN source ELSE frames[k - 1].text

(* The type of the parser, and that every position in it lies in its        *)
(* buffer.                                                                  *)
TypeOK ==
    /\ lookup \in BOOLEAN /\ sessions \in Nat
    /\ session \in {"none", "cursor", "incremental"}
    /\ source \in Seq(Tokens) /\ offset \in 0..Len(source)
    /\ lemon \in LemonType /\ lastToken \in {"none", "semi", "other"}
    /\ stmt \in StmtType
    /\ finished \in BOOLEAN /\ pendingReset \in BOOLEAN
    /\ pc \in {"idle", "next", "plain", "expand", "unwind"}
    /\ layerId \in Nat /\ depth \in Nat
    /\ frames \in Seq(Frame) /\ delivered \in Seq(Outcome)

Positions ==
    /\ pc \in {"plain", "expand", "unwind"} => offset # 0
    /\ \A k \in 1..Len(frames) :
          /\ frames[k].pos <= Len(frames[k].text)
          /\ Len(frames[k].segments) = Len(frames[k].text)
          /\ frames[k].resume <= Len(Around(k))

(* There are frames only while a macro is expanded.                         *)
InCall ==
    /\ session # "cursor" => pc = "idle"
    /\ frames # <<>> <=> pc \in {"expand", "unwind"}
    /\ Len(frames) <= MaxDepth

(* The layer of a call is behind that of the call it is written in.         *)
LayersNest ==
    \A k \in 1..Len(stmt.layers) : stmt.layers[k].parent < k

(* ids are the layers of the frames, outermost first.                       *)
Follow(ids) ==
    /\ \A k \in 1..Len(frames) :
          /\ stmt.layers[ids[k]].name = frames[k].name
          /\ stmt.layers[ids[k]].parent = IF k = 1 THEN 0 ELSE ids[k - 1]
    /\ layerId = IF frames = <<>> THEN 0 ELSE ids[Len(frames)]

LayersOpen ==
    /\ depth = Len(frames)
    /\ \E ids \in [1..Len(frames) -> 1..Len(stmt.layers)] : Follow(ids)

IInv == TypeOK /\ Positions /\ InCall /\ LayersNest /\ LayersOpen

LEMMA LastOfType ==
    ASSUME NEW t
    PROVE  LastOf(t) \in {"none", "semi", "other"}
BY DEF LastOf

LEMMA ShiftedType ==
    ASSUME TypeOK, NEW token, NEW at \in Nat
    PROVE  /\ Shifted(token, at).lemon \in LemonType
           /\ Shifted(token, at).hadError \in BOOLEAN
           /\ Shifted(token, at).done \in BOOLEAN
<1> DEFINE y == FeedLemon(lemon, Kind(token), at)
           c == y.completed /\ y.error
<1>1. y \in LemonType
  BY FeedType DEF TypeOK
<1>2. c \in BOOLEAN
  OBVIOUS
<1> HIDE DEF y, c
<1>3. [y EXCEPT !.error = FALSE, !.completed = c] \in LemonType
  BY <1>1, <1>2, FlagsType
<1>4. /\ (stmt.hadError \/ y.error) \in BOOLEAN
      /\ (y.completed /\ ~y.error) \in BOOLEAN
  OBVIOUS
<1>5. Shifted(token, at) =
        [lemon |-> [y EXCEPT !.error = FALSE, !.completed = c],
         hadError |-> stmt.hadError \/ y.error,
         done |-> y.completed /\ ~y.error]
  BY DEF Shifted, y, c
<1> QED BY <1>3, <1>4, <1>5

LEMMA RecordedType ==
    ASSUME NEW s \in StmtType, NEW n \in Nat
    PROVE  Recorded(s, n) \in StmtType /\ Recorded(s, n).layers = s.layers
<1> DEFINE t == Append(s.tokens, n)
<1>1. t \in Seq(Nat)
  BY DEF StmtType
<1>2. Recorded(s, n) = [s EXCEPT !.tokens = t]
  BY DEF Recorded
<1> HIDE DEF t
<1> QED BY <1>1, <1>2 DEF StmtType

LEMMA OpenedType ==
    ASSUME NEW s \in StmtType, NEW n \in Nat
    PROVE  Opened(s, n) \in StmtType /\ Opened(s, n).layers = s.layers
BY DEF StmtType, Opened

LEMMA StmtFlagsType ==
    ASSUME NEW s \in StmtType, NEW b \in BOOLEAN
    PROVE  /\ [s EXCEPT !.hadError = b] \in StmtType
           /\ [s EXCEPT !.hadError = b].layers = s.layers
           /\ [s EXCEPT !.comment = b] \in StmtType
           /\ [s EXCEPT !.comment = b].layers = s.layers
BY DEF StmtType

LEMMA EmptyStmtType == EmptyStmt \in StmtType /\ EmptyStmt.layers = <<>>
BY DEF EmptyStmt, StmtType

LEMMA DeliverType ==
    ASSUME delivered \in Seq(Outcome), NEW status, NEW y \in LemonType,
           NEW s \in StmtType, NEW end \in Nat, Deliver(status, y, s, end)
    PROVE  delivered' \in Seq(Outcome)
<1>1. CASE status \in Statuses
  <2>1. Result(status, y, s, end) \in Outcome
    BY <1>1 DEF Result, Outcome, LemonType, LemonRecord, StmtType
  <2> QED BY <1>1, <2>1 DEF Deliver
<1>2. CASE status \notin Statuses
  BY <1>2 DEF Deliver
<1> QED BY <1>1, <1>2

LEMMA FinishInputType ==
    ASSUME TypeOK
    PROVE  FinishInput.lemon \in LemonType
<1> DEFINE semi == IF lastToken = "semi"
                   THEN [lemon |-> lemon, hadError |-> stmt.hadError,
                         done |-> FALSE]
                   ELSE Shifted("semi", 0)
<1>1. semi.lemon \in LemonType
  BY ShiftedType DEF TypeOK
<1> HIDE DEF semi
<1>2. Reinit(semi.lemon) \in LemonType /\ FeedEnd(semi.lemon) \in LemonType
  BY <1>1, ReinitType, FeedEndType
<1>3. FinishInput.lemon =
        IF lastToken = "none" THEN lemon
        ELSE IF semi.done THEN Reinit(semi.lemon) ELSE FeedEnd(semi.lemon)
  BY DEF FinishInput, semi
<1> QED BY <1>2, <1>3 DEF TypeOK

LEMMA AfterNotesRange ==
    ASSUME source \in Seq(Tokens), NEW i \in 1..Len(source)
    PROVE  AfterNotes(i) \in i..Len(source)
<1> DEFINE T == {j \in i..Len(source) :
                    j = Len(source) \/ source[j + 1] # "note"}
<1>1. PICK j \in T : \A m \in T : j <= m
  <2>1. Len(source) \in T /\ T \in SUBSET Nat
    OBVIOUS
  <2> HIDE DEF T
  <2> QED BY <2>1, LeastNat
<1>2. \A k \in (i + 1)..j : source[k] = "note"
  <2>1. ASSUME NEW k \in (i + 1)..j, source[k] # "note"
        PROVE  FALSE
    <3>1. k - 1 \in i..Len(source) /\ (k - 1) + 1 = k /\ k - 1 < j
      BY <1>1
    <3>2. k - 1 \in T
      BY <2>1, <3>1
    <3> QED BY <1>1, <3>1, <3>2
  <2> QED BY <2>1
<1>3. j \in i..Len(source) /\ (j = Len(source) \/ source[j + 1] # "note")
  BY <1>1
<1> QED BY <1>2, <1>3 DEF AfterNotes

----------------------------------------------------------------------------
(* Steps outside an expansion                                               *)

(* Outside an expansion no layer is open.                                   *)
LEMMA AtRest ==
    ASSUME IInv, pc \notin {"expand", "unwind"}
    PROVE  frames = <<>> /\ layerId = 0 /\ depth = 0
<1>1. frames = <<>>
  BY DEF IInv, InCall
<1> QED BY <1>1 DEF IInv, LayersOpen, Follow

(* ... and a step that opens none keeps the invariant if it keeps the type. *)
LEMMA StaysAtRest ==
    ASSUME TypeOK', frames' = <<>>, layerId' = 0, depth' = 0,
           LayersNest', pc' \in {"idle", "next", "plain"},
           session' # "cursor" => pc' = "idle", pc' = "plain" => offset' # 0
    PROVE  IInv'
<1>1. Positions'
  BY DEF Positions
<1>2. InCall'
  BY BodyAssumption DEF InCall
<1>3. LayersOpen'
  <2> DEFINE ids == [k \in 1..0 |-> 0]
  <2>1. ids \in [1..Len(frames') -> 1..Len(stmt'.layers)]
    OBVIOUS
  <2>2. Follow(ids)'
    BY DEF Follow
  <2> HIDE DEF ids
  <2> QED BY <2>1, <2>2 DEF LayersOpen
<1> QED BY <1>1, <1>2, <1>3 DEF IInv

LEMMA ShiftNextType ==
    ASSUME TypeOK, NEW i \in 1..Len(source), NEW flag \in BOOLEAN,
           ShiftNext(i, flag)
    PROVE  /\ offset' \in 0..Len(source)
           /\ lemon' \in LemonType /\ lastToken' \in {"none", "semi", "other"}
           /\ stmt' \in StmtType /\ stmt'.layers = stmt.layers
           /\ delivered' \in Seq(Outcome)
           /\ pc' \in {"idle", "next"}
<1> DEFINE shifted == Shifted(source[i], i)
           flagged == flag \/ shifted.hadError
           closes == \/ shifted.done
                     \/ source[i] = "semi"
                        /\ (lastToken = "none" \/ flagged)
           recorded == [Recorded(stmt, i) EXCEPT !.hadError = flagged]
<1>1. shifted.lemon \in LemonType /\ flagged \in BOOLEAN
  BY ShiftedType
<1>2. recorded \in StmtType /\ recorded.layers = stmt.layers
  <2> HIDE DEF flagged
  <2>1. /\ Recorded(stmt, i) \in StmtType
        /\ Recorded(stmt, i).layers = stmt.layers
    BY RecordedType DEF TypeOK
  <2> QED BY <1>1, <2>1, StmtFlagsType
<1>3. AfterNotes(i) \in i..Len(source)
  BY AfterNotesRange DEF TypeOK
<1>4. CASE closes
  <2>1. /\ offset' = AfterNotes(i)
        /\ lemon' = Reinit(shifted.lemon) /\ lastToken' = "none"
        /\ stmt' = [recorded EXCEPT !.hadError = FALSE]
        /\ Deliver(BoundaryStatus(flagged), shifted.lemon, recorded,
                   AfterNotes(i))
        /\ pc' = "idle"
    BY <1>4 DEF ShiftNext
  <2> HIDE DEF shifted, recorded, flagged
  <2>2. /\ stmt' \in StmtType /\ stmt'.layers = stmt.layers
    BY <1>2, <2>1, StmtFlagsType
  <2>3. AfterNotes(i) \in Nat /\ AfterNotes(i) \in 0..Len(source)
    BY <1>3
  <2>4. delivered' \in Seq(Outcome)
    BY <1>1, <1>2, <2>1, <2>3, DeliverType DEF TypeOK
  <2>5. Reinit(shifted.lemon) \in LemonType
    BY <1>1, ReinitType
  <2> QED BY <2>1, <2>2, <2>3, <2>4, <2>5
<1>5. CASE ~closes
  <2>1. /\ offset' = i
        /\ lemon' = shifted.lemon /\ lastToken' = LastOf(source[i])
        /\ stmt' = recorded
        /\ pc' = "next"
        /\ delivered' = delivered
    BY <1>5 DEF ShiftNext
  <2> HIDE DEF shifted, recorded
  <2>2. i \in 0..Len(source)
    BY DEF TypeOK
  <2> QED BY <1>1, <1>2, <2>1, <2>2, LastOfType DEF TypeOK
<1> QED BY <1>4, <1>5

LEMMA OpenKeeps ==
    ASSUME IInv, NEW kind \in {"cursor", "incremental"},
           CanOpen, \E text \in Sources[lookup][sessions + 1] : Open(kind, text)
    PROVE  IInv'
<1>1. PICK text \in Sources[lookup][sessions + 1] : Open(kind, text)
  OBVIOUS
<1>2. text \in Seq(Tokens)
  BY SourcesAssumption, SMTT(30) DEF CanOpen, IInv, TypeOK
<1>3. pc = "idle"
  BY DEF CanOpen, IInv, InCall
<1>4. /\ frames' = <<>> /\ layerId' = 0 /\ depth' = 0 /\ pc' = "idle"
  BY <1>1, <1>3, AtRest DEF Open
<1>5. lemon' \in LemonType
  BY <1>1, ReopenedIsFresh, FreshType DEF Open
<1>6. TypeOK'
  <2>1. /\ sessions' = sessions + 1 /\ session' = kind /\ lookup' = lookup
        /\ source' = text /\ offset' = 0 /\ lastToken' = "none"
        /\ stmt' = EmptyStmt /\ finished' = FALSE /\ pendingReset' = FALSE
        /\ delivered' = <<>>
    BY <1>1 DEF Open
  <2>2. sessions' \in Nat /\ offset' \in 0..Len(source')
    BY <1>2, <2>1 DEF IInv, TypeOK
  <2>3. frames' \in Seq(Frame) /\ delivered' \in Seq(Outcome)
    BY <1>4, <2>1
  <2> QED BY <1>2, <1>4, <1>5, <2>1, <2>2, <2>3, EmptyStmtType
          DEF IInv, TypeOK
<1>7. LayersNest'
  BY <1>1, EmptyStmtType DEF Open, LayersNest
<1> QED BY <1>4, <1>6, <1>7, StaysAtRest

LEMMA CloseKeeps ==
    ASSUME IInv, Close
    PROVE  IInv'
<1>1. /\ frames' = <<>> /\ layerId' = 0 /\ depth' = 0 /\ pc' = "idle"
  BY AtRest DEF Close, macros
<1>2. TypeOK'
  BY <1>1 DEF Close, macros, IInv, TypeOK
<1>3. LayersNest'
  BY DEF Close, IInv, LayersNest
<1> QED BY <1>1, <1>2, <1>3, StaysAtRest

LEMMA BeginNextKeeps ==
    ASSUME IInv, BeginNext
    PROVE  IInv'
<1>1. frames' = <<>> /\ layerId' = 0 /\ depth' = 0 /\ pc' = "next"
  BY AtRest DEF BeginNext
<1>2. stmt' \in StmtType /\ stmt'.layers = <<>>
  <2>1. offset + 1 \in Nat
    BY DEF IInv, TypeOK
  <2> QED BY <2>1, EmptyStmtType, OpenedType DEF BeginNext
<1>3. lemon' \in LemonType
  BY FlagsType DEF BeginNext, IInv, TypeOK
<1>4. TypeOK'
  BY <1>1, <1>2, <1>3 DEF BeginNext, handle, IInv, TypeOK
<1>5. LayersNest'
  BY <1>2 DEF LayersNest
<1> QED BY <1>1, <1>4, <1>5, StaysAtRest DEF BeginNext, handle

LEMMA NextCommentKeeps ==
    ASSUME IInv, NextComment
    PROVE  IInv'
<1>1. frames' = <<>> /\ layerId' = 0 /\ depth' = 0 /\ pc' = "next"
  BY AtRest DEF NextComment, macros
<1>2. stmt' \in StmtType /\ stmt'.layers = stmt.layers
  BY StmtFlagsType DEF NextComment, IInv, TypeOK
<1>3. offset' \in 0..Len(source)
  BY DEF NextComment, IInv, TypeOK
<1>4. TypeOK'
  BY <1>1, <1>2, <1>3 DEF NextComment, handle, IInv, TypeOK
<1>5. LayersNest'
  BY <1>2 DEF IInv, LayersNest
<1> QED BY <1>1, <1>4, <1>5, StaysAtRest DEF NextComment, handle, IInv, InCall

(* A token fed by the parse loop, whatever it stands for.                   *)
LEMMA ShiftNextKeeps ==
    ASSUME IInv, pc \in {"next", "plain"}, NEW i \in 1..Len(source),
           NEW flag \in BOOLEAN, ShiftNext(i, flag),
           UNCHANGED <<handle, finished, pendingReset, macros>>
    PROVE  IInv'
<1>1. frames' = <<>> /\ layerId' = 0 /\ depth' = 0
  BY AtRest DEF macros
<1>2. /\ offset' \in 0..Len(source)
      /\ lemon' \in LemonType /\ lastToken' \in {"none", "semi", "other"}
      /\ stmt' \in StmtType /\ stmt'.layers = stmt.layers
      /\ delivered' \in Seq(Outcome)
      /\ pc' \in {"idle", "next"}
  BY ShiftNextType DEF IInv
<1>3. TypeOK'
  BY <1>1, <1>2 DEF handle, IInv, TypeOK
<1>4. LayersNest'
  BY <1>2 DEF IInv, LayersNest
<1> QED BY <1>1, <1>2, <1>3, <1>4, StaysAtRest DEF handle, IInv, InCall

LEMMA NextShiftsKeep ==
    ASSUME IInv, NextToken \/ NextUnknownCall \/ NextFailedCall
    PROVE  IInv'
<1>1. source \in Seq(Tokens) /\ offset \in 0..Len(source)
  BY DEF IInv, TypeOK
<1>2. CASE NextToken
  <2>1. offset + 1 \in 1..Len(source)
    BY <1>1, <1>2 DEF NextToken
  <2> QED BY <1>2, <2>1, ShiftNextKeeps DEF NextToken
<1>3. CASE NextUnknownCall
  <2>1. offset + 1 \in 1..Len(source)
    BY <1>1, <1>3 DEF NextUnknownCall, IsCall
  <2> QED BY <1>3, <2>1, ShiftNextKeeps DEF NextUnknownCall
<1>4. CASE NextFailedCall
  <2>1. offset \in 1..Len(source)
    BY <1>1, <1>4 DEF NextFailedCall, IInv, Positions
  <2> QED BY <1>4, <2>1, ShiftNextKeeps DEF NextFailedCall
<1> QED BY <1>2, <1>3, <1>4

LEMMA NextFallbackKeeps ==
    ASSUME IInv, NextFallback
    PROVE  IInv'
<1> DEFINE i == offset + 1
           shifted == Shifted(source[i], i)
           layer == [name |-> source[i], parent |-> 0, internal |-> FALSE]
           r == Recorded(stmt, i)
           layers == Append(stmt.layers, layer)
<1>1. frames' = <<>> /\ layerId' = 0 /\ depth' = 0 /\ pc' = "next"
  BY AtRest DEF NextFallback, macros
<1>2. /\ source \in Seq(Tokens) /\ i \in 1..Len(source) /\ IsCall(source, i)
      /\ source[i] \in Names
  BY DEF IInv, TypeOK, NextFallback, IsCall
<1>3. shifted.lemon \in LemonType /\ shifted.hadError \in BOOLEAN
  BY <1>2, ShiftedType DEF IInv
<1>4. r \in StmtType /\ r.layers = stmt.layers
  BY <1>2, RecordedType DEF IInv, TypeOK
<1>5. layers \in Seq(Layer)
  BY <1>2 DEF Layer, IInv, TypeOK, StmtType
<1>6. lemon' = shifted.lemon
      /\ stmt' = [r EXCEPT !.hadError = shifted.hadError, !.layers = layers]
  BY <1>4 DEF NextFallback
<1>7. LayersNest'
  <2>1. stmt'.layers = layers
    <3> HIDE DEF r, layers
    <3> QED BY <1>4, <1>6 DEF StmtType
  <2> QED BY <2>1, <1>5 DEF LayersNest, IInv, TypeOK, StmtType
<1> HIDE DEF r, layers, shifted
<1>8. stmt' \in StmtType
  BY <1>3, <1>4, <1>5, <1>6 DEF StmtType
<1>9. CallEnd(source, i) \in 0..Len(source)
  BY <1>2, CallEndRange
<1>10. TypeOK'
  BY <1>1, <1>3, <1>6, <1>8, <1>9 DEF NextFallback, handle, IInv, TypeOK
<1> QED BY <1>1, <1>7, <1>10, StaysAtRest DEF NextFallback, handle, IInv, InCall

LEMMA NextEndKeeps ==
    ASSUME IInv, NextEnd
    PROVE  IInv'
<1>1. frames' = <<>> /\ layerId' = 0 /\ depth' = 0 /\ pc' = "idle"
  BY AtRest DEF NextEnd, macros
<1>2. lemon' \in LemonType
  BY FinishInputType DEF NextEnd, IInv
<1>3. delivered' \in Seq(Outcome)
  <2>1. Deliver(FinishInput.status, FinishInput.lemon, stmt, offset)
    BY DEF NextEnd
  <2> QED BY <2>1, FinishInputType, DeliverType DEF IInv, TypeOK
<1>4. TypeOK'
  BY <1>1, <1>2, <1>3 DEF NextEnd, handle, IInv, TypeOK
<1>5. LayersNest'
  BY DEF NextEnd, IInv, LayersNest
<1> QED BY <1>1, <1>4, <1>5, StaysAtRest

LEMMA FeedTokenKeeps ==
    ASSUME IInv, FeedToken
    PROVE  IInv'
<1> DEFINE i == offset + 1
           open == Opened(IF pendingReset THEN EmptyStmt ELSE stmt, i)
           before == IF pendingReset THEN ResetCtx(lemon) ELSE lemon
           y == FeedLemon(before, Kind(source[i]), i)
           c == y.completed /\ y.error
           shifted == [y EXCEPT !.error = FALSE, !.completed = c]
           hadError == open.hadError \/ y.error
           recorded == [Recorded(open, i) EXCEPT !.hadError = hadError]
           real == y.root # NoRoot
<1>1. frames' = <<>> /\ layerId' = 0 /\ depth' = 0 /\ pc' = "idle"
  BY AtRest DEF FeedToken, macros
<1>2. i \in Nat /\ i \in 0..Len(source)
  BY DEF FeedToken, IInv, TypeOK
<1>3. before \in LemonType
  BY FlagsType DEF IInv, TypeOK
<1>4. y \in LemonType /\ c \in BOOLEAN
  <2> HIDE DEF i, before
  <2> QED BY <1>2, <1>3, FeedType
<1>5. shifted \in LemonType /\ Reinit(shifted) \in LemonType
  <2> HIDE DEF y, c
  <2> QED BY <1>4, FlagsType, ReinitType
<1> DEFINE start == IF pendingReset THEN EmptyStmt ELSE stmt
<1>6. /\ open \in StmtType
      /\ open.layers = start.layers
  BY <1>2, EmptyStmtType, OpenedType DEF IInv, TypeOK
<1>7. /\ recorded \in StmtType /\ recorded.layers = start.layers
      /\ [recorded EXCEPT !.hadError = FALSE] \in StmtType
      /\ [recorded EXCEPT !.hadError = FALSE].layers = start.layers
  <2>1. hadError \in BOOLEAN
    OBVIOUS
  <2> HIDE DEF open, start, i, hadError
  <2>2. /\ Recorded(open, i) \in StmtType
        /\ Recorded(open, i).layers = start.layers
    BY <1>2, <1>6, RecordedType
  <2>3. /\ recorded \in StmtType /\ recorded.layers = start.layers
    BY <2>1, <2>2, StmtFlagsType
  <2> QED BY <2>3, StmtFlagsType
<1>8. /\ offset' = i
      /\ \/ /\ stmt' = open /\ lemon' = before /\ pendingReset' = FALSE
            /\ lastToken' = lastToken /\ delivered' = delivered
         \/ /\ lemon' = IF real THEN Reinit(shifted) ELSE shifted
            /\ lastToken' = IF real THEN "none" ELSE LastOf(source[i])
            /\ stmt' = [recorded EXCEPT !.hadError = FALSE]
            /\ Deliver(BoundaryStatus(hadError), y, recorded, i)
            /\ pendingReset' = TRUE
         \/ /\ lemon' = shifted /\ lastToken' = LastOf(source[i])
            /\ stmt' = recorded /\ pendingReset' = FALSE
            /\ delivered' = delivered
  BY DEF FeedToken
<1> HIDE DEF y, c, shifted, recorded, open, before, hadError, real, start, i
<1>9. stmt' \in StmtType /\ stmt'.layers = start.layers
  BY <1>6, <1>7, <1>8
<1>10. lemon' \in LemonType /\ lastToken' \in {"none", "semi", "other"}
  BY <1>3, <1>5, <1>8, LastOfType DEF IInv, TypeOK
<1>11. delivered' \in Seq(Outcome) /\ pendingReset' \in BOOLEAN
  BY <1>2, <1>4, <1>7, <1>8, DeliverType DEF IInv, TypeOK
<1>12. TypeOK'
  BY <1>1, <1>2, <1>8, <1>9, <1>10, <1>11
     DEF FeedToken, handle, IInv, TypeOK
<1>13. LayersNest'
  BY <1>9, EmptyStmtType DEF start, IInv, LayersNest
<1> QED BY <1>1, <1>12, <1>13, StaysAtRest

LEMMA FeedFinishKeeps ==
    ASSUME IInv, FeedFinish
    PROVE  IInv'
<1>1. frames' = <<>> /\ layerId' = 0 /\ depth' = 0 /\ pc' = "idle"
  BY AtRest DEF FeedFinish, macros
<1>2. lemon' \in LemonType
  BY FinishInputType DEF FeedFinish, IInv, TypeOK
<1>3. delivered' \in Seq(Outcome)
  <2>1. \/ delivered' = delivered
        \/ Deliver(FinishInput.status, FinishInput.lemon, stmt, offset)
    BY DEF FeedFinish
  <2> QED BY <2>1, FinishInputType, DeliverType DEF IInv, TypeOK
<1>4. TypeOK'
  <2>1. /\ UNCHANGED <<handle, offset, lastToken, stmt>>
        /\ pendingReset' = FALSE /\ finished' = TRUE
    BY DEF FeedFinish
  <2>2. TypeOK
    BY DEF IInv
  <2>3. /\ lookup' = lookup /\ session' = session /\ sessions' = sessions
        /\ source' = source /\ offset' = offset /\ lastToken' = lastToken
        /\ stmt' = stmt
    BY <2>1 DEF handle
  <2>4. frames' \in Seq(Frame)
    BY <1>1
  <2> QED BY <1>1, <1>2, <1>3, <2>1, <2>2, <2>3, <2>4 DEF TypeOK
<1>5. LayersNest'
  BY DEF FeedFinish, IInv, LayersNest
<1> QED BY <1>1, <1>4, <1>5, StaysAtRest
----------------------------------------------------------------------------
(* Steps of an expansion                                                    *)

LEMMA SetPos ==
    ASSUME NEW q \in Seq(Frame), NEW n \in 1..Len(q), NEW v \in Nat, NEW r,
           r = [q EXCEPT ![n].pos = v]
    PROVE  /\ r \in Seq(Frame) /\ Len(r) = Len(q)
           /\ \A k \in 1..Len(q) :
                 /\ r[k].name = q[k].name /\ r[k].text = q[k].text
                 /\ r[k].segments = q[k].segments
                 /\ r[k].resume = q[k].resume
                 /\ r[k].pos = IF k = n THEN v ELSE q[k].pos
<1> DEFINE e == [q[n] EXCEPT !.pos = v]
<1>1. /\ e \in Frame /\ e.name = q[n].name /\ e.text = q[n].text
      /\ e.segments = q[n].segments /\ e.resume = q[n].resume /\ e.pos = v
  <2>1. q[n] \in Frame
    OBVIOUS
  <2> HIDE DEF e
  <2>2. ASSUME NEW f \in Frame
        PROVE  LET g == [f EXCEPT !.pos = v]
               IN  /\ g \in Frame /\ g.name = f.name /\ g.text = f.text
                   /\ g.segments = f.segments /\ g.resume = f.resume
                   /\ g.pos = v
    BY DEF Frame
  <2> QED BY <2>1, <2>2 DEF e
<1>2. r = [q EXCEPT ![n] = e]
  OBVIOUS
<1> HIDE DEF e
<1>3. r \in Seq(Frame) /\ Len(r) = Len(q)
  BY <1>1, <1>2
<1>4. \A k \in 1..Len(q) : r[k] = IF k = n THEN e ELSE q[k]
  BY <1>2
<1> QED BY <1>1, <1>3, <1>4

(* What holds of the innermost call in progress.                            *)
LEMMA InnermostCall ==
    ASSUME IInv, pc \in {"expand", "unwind"}
    PROVE  /\ Len(frames) \in Nat \ {0} /\ Len(frames) \in 1..Len(frames)
           /\ Top \in Frame /\ depth = Len(frames)
           /\ Top.pos <= Len(Top.text) /\ Top.resume <= Len(Around(Len(frames)))
           /\ session = "cursor"
           /\ frames \in Seq(Frame)
<1>1. frames # <<>> /\ frames \in Seq(Frame)
  BY DEF IInv, InCall, TypeOK
<1>2. Len(frames) \in 1..Len(frames)
  BY <1>1
<1> QED BY <1>1, <1>2
        DEF Top, IInv, LayersOpen, Positions, InCall

(* The frames that are left keep what they were given.                      *)
LEMMA FramesFit ==
    ASSUME IInv, frames' \in Seq(Frame), Len(frames') <= Len(frames),
           source' = source,
           pc' \in {"plain", "expand", "unwind"} => offset' # 0,
           \A k \in 1..Len(frames') :
              /\ frames'[k].text = frames[k].text
              /\ frames'[k].segments = frames[k].segments
              /\ frames'[k].resume = frames[k].resume
              /\ frames'[k].pos <= Len(frames[k].text)
    PROVE  Positions'
<1>1. \A k \in 1..Len(frames') : k \in 1..Len(frames)
  BY DEF IInv, TypeOK
<1>2. \A k \in 1..Len(frames') : k # 1 => k - 1 \in 1..Len(frames')
  OBVIOUS
<1>3. \A k \in 1..Len(frames') : Around(k)' = Around(k)
  BY <1>2 DEF Around
<1> QED BY <1>1, <1>3 DEF Positions, IInv

(* The layer of the caller is the parent of the one that is closed.         *)
LEMMA EndMacroCloses ==
    ASSUME IInv, pc \in {"expand", "unwind"}, EndMacro,
           stmt'.layers = stmt.layers,
           frames' \in Seq(Frame), Len(frames') = Len(frames) - 1,
           \A k \in 1..Len(frames') : frames'[k].name = frames[k].name
    PROVE  /\ LayersOpen'
           /\ layerId' \in Nat /\ depth' \in Nat
<1> DEFINE n == Len(frames)
<1>1. n \in Nat \ {0} /\ depth = n /\ n \in 1..n
  BY InnermostCall
<1>2. PICK ids \in [1..n -> 1..Len(stmt.layers)] : Follow(ids)
  BY DEF IInv, LayersOpen
<1>3. layerId = ids[n]
  BY <1>1, <1>2 DEF Follow
<1>4. stmt.layers[ids[n]].parent = IF n = 1 THEN 0 ELSE ids[n - 1]
  BY <1>1, <1>2 DEF Follow
<1>5. layerId' = IF n = 1 THEN 0 ELSE ids[n - 1]
  BY <1>1, <1>3, <1>4 DEF EndMacro
<1>6. \A k \in 1..Len(frames') : k \in 1..n
  BY <1>1
<1>7. PICK rest \in [1..Len(frames') -> 1..Len(stmt'.layers)] :
         \A k \in 1..Len(frames') : rest[k] = ids[k]
  <2> DEFINE r == [k \in 1..Len(frames') |-> ids[k]]
  <2>1. /\ r \in [1..Len(frames') -> 1..Len(stmt'.layers)]
        /\ \A k \in 1..Len(frames') : r[k] = ids[k]
    BY <1>6
  <2> QED BY <2>1
<1>8. \A k \in 1..Len(frames') : k # 1 => k - 1 \in 1..Len(frames')
  OBVIOUS
<1>9. frames' = <<>> <=> n = 1
  BY <1>1
<1>10. n # 1 => Len(frames') \in 1..Len(frames') /\ Len(frames') = n - 1
  BY <1>1
<1> HIDE DEF n
<1>11. \A k \in 1..Len(frames') :
          /\ stmt'.layers[rest[k]].name = frames'[k].name
          /\ stmt'.layers[rest[k]].parent = IF k = 1 THEN 0 ELSE rest[k - 1]
  <2>1. ASSUME NEW k \in 1..Len(frames')
        PROVE  /\ stmt.layers[ids[k]].name = frames[k].name
               /\ stmt.layers[ids[k]].parent = IF k = 1 THEN 0 ELSE ids[k - 1]
    BY <1>2, <1>6 DEF Follow, n
  <2> QED BY <2>1, <1>7, <1>8
<1>12. layerId' = IF frames' = <<>> THEN 0 ELSE rest[Len(frames')]
  BY <1>5, <1>7, <1>9, <1>10
<1>13. Follow(rest)'
  BY <1>11, <1>12 DEF Follow
<1>14. depth' = Len(frames') /\ depth' \in Nat
  BY <1>1 DEF EndMacro, n
<1>15. layerId' \in Nat
  BY <1>7, <1>9, <1>10, <1>12, SMTT(30)
<1> QED BY <1>7, <1>13, <1>14, <1>15 DEF LayersOpen

LEMMA ReturnKeeps ==
    ASSUME IInv, pc = "expand", Return, stmt'.layers = stmt.layers,
           source' = source, session' = session
    PROVE  /\ Positions' /\ InCall' /\ LayersOpen'
           /\ offset' \in 0..Len(source) /\ layerId' \in Nat /\ depth' \in Nat
           /\ frames' \in Seq(Frame) /\ pc' \in {"next", "expand"}
<1> DEFINE n == Len(frames)
           rest == SubSeq(frames, 1, n - 1)
<1>1. /\ n \in Nat \ {0} /\ Top \in Frame /\ session = "cursor"
      /\ Top.resume <= Len(Around(n)) /\ frames \in Seq(Frame)
  BY InnermostCall
<1>2. /\ rest \in Seq(Frame) /\ Len(rest) = n - 1
      /\ \A k \in 1..(n - 1) : rest[k] = frames[k]
  <2>1. frames # <<>>
    BY <1>1
  <2> QED BY <1>1, <2>1, PrefixType
<1>3. Top.resume \in Nat
  BY <1>1 DEF Frame
<1>4. \A k \in 1..n : frames[k] \in Frame /\ frames[k].pos <= Len(frames[k].text)
  BY <1>1 DEF IInv, Positions
<1>5. Len(rest) = 0 =>
        offset' = Top.resume /\ frames' = rest /\ pc' = "next"
  BY DEF Return
<1>6. Len(rest) # 0 =>
        /\ frames' = [rest EXCEPT ![Len(rest)].pos = Top.resume]
        /\ offset' = offset /\ pc' = pc
  BY DEF Return
<1>7. EndMacro
  BY DEF Return
<1> HIDE DEF rest, n
<1>8. /\ frames' \in Seq(Frame) /\ Len(frames') = n - 1
      /\ offset' \in 0..Len(source) /\ pc' \in {"next", "expand"}
      /\ frames' # <<>> <=> pc' = "expand"
      /\ \A k \in 1..Len(frames') :
           /\ frames'[k].name = frames[k].name
           /\ frames'[k].text = frames[k].text
           /\ frames'[k].segments = frames[k].segments
           /\ frames'[k].resume = frames[k].resume
           /\ frames'[k].pos <= Len(frames[k].text)
  <2>1. CASE Len(rest) = 0
    <3>1. n = 1 /\ Around(n) = source
      BY <1>1, <1>2, <2>1 DEF Around
    <3>2. Len(source) \in Nat
      BY DEF IInv, TypeOK
    <3> QED BY <1>1, <1>2, <1>3, <1>5, <2>1, <3>1, <3>2
  <2>2. CASE Len(rest) # 0
    <3> DEFINE m == Len(rest)
    <3>1. m \in 1..m /\ m = n - 1 /\ n # 1
      BY <1>1, <1>2, <2>2
    <3>2. Around(n) = frames[m].text
      BY <3>1 DEF Around
    <3> HIDE DEF m
    <3>3. frames' = [rest EXCEPT ![m].pos = Top.resume]
      BY <1>6, <2>2 DEF m
    <3>4. /\ frames' \in Seq(Frame) /\ Len(frames') = m
          /\ \A k \in 1..m :
               /\ frames'[k].name = rest[k].name
               /\ frames'[k].text = rest[k].text
               /\ frames'[k].segments = rest[k].segments
               /\ frames'[k].resume = rest[k].resume
               /\ frames'[k].pos = IF k = m THEN Top.resume ELSE rest[k].pos
      <4>1. m \in 1..Len(rest)
        BY <3>1 DEF m
      <4> QED BY <1>2, <1>3, <3>3, <4>1, SetPos, SMTT(30) DEF m
    <3>5. \A k \in 1..m : rest[k] = frames[k] /\ k \in 1..n
      BY <1>2, <3>1, <1>1
    <3>6. offset' \in 0..Len(source) /\ pc' = "expand"
      BY <1>6, <2>2 DEF IInv, TypeOK
    <3>7. \A k \in 1..m : frames'[k].pos <= Len(frames[k].text)
      BY <1>1, <1>4, <3>2, <3>4, <3>5
    <3>8. frames' # <<>>
      BY <3>1, <3>4
    <3> QED BY <3>1, <3>4, <3>5, <3>6, <3>7, <3>8
  <2> QED BY <2>1, <2>2
<1>9. Len(frames') <= Len(frames) /\ Len(frames') = Len(frames) - 1
  BY <1>1, <1>8 DEF n
<1>10. Positions'
  <2>1. pc' = "expand" => offset' # 0
    BY <1>5, <1>6 DEF IInv, Positions
  <2> QED BY <1>8, <1>9, <2>1, FramesFit
<1>11. LayersOpen' /\ layerId' \in Nat /\ depth' \in Nat
  BY <1>7, <1>8, <1>9, EndMacroCloses
<1>12. InCall'
  <2>1. Len(frames') <= MaxDepth
    BY <1>1, <1>8, BodyAssumption DEF IInv, InCall, n
  <2> QED BY <1>1, <1>8, <2>1 DEF InCall
<1> QED BY <1>8, <1>10, <1>11, <1>12

(* A call is entered in a layer behind all others, whose parent is the      *)
(* layer of the text it is written in.                                      *)
LEMMA EnterKeeps ==
    ASSUME IInv, NEW buf \in Seq(Tokens), NEW i \in Nat,
           NEW internal \in BOOLEAN,
           buf = Around(Len(frames) + 1), IsCall(buf, i), Known(buf, i),
           Len(frames) < MaxDepth, Enter(buf, i, internal, frames),
           session = "cursor", session' = session, source' = source,
           pc' = "expand", offset' # 0
    PROVE  /\ Positions' /\ InCall' /\ LayersNest' /\ LayersOpen'
           /\ frames' \in Seq(Frame) /\ stmt' \in StmtType
           /\ layerId' \in Nat /\ depth' \in Nat
<1> DEFINE n == Len(frames)
           name == buf[i]
           arg == Argument(buf, i)
           frame == [name |-> name, pos |-> 0, resume |-> CallEnd(buf, i),
                     text |-> Substituted(Body[name], arg),
                     segments |-> Segments(Body[name], arg)]
           layer == [name |-> name, parent |-> layerId, internal |-> internal]
           layers == Append(stmt.layers, layer)
<1>1. name \in DOMAIN Body /\ name \in Names
  BY BodyAssumption DEF Known
<1>2. CallEnd(buf, i) \in 0..Len(buf) /\ arg \in Seq(Tokens)
  BY CallEndRange, ArgumentType
<1>3. /\ Substituted(Body[name], arg) \in Seq(Tokens)
      /\ Segments(Body[name], arg) \in Seq(Nat)
      /\ Len(Segments(Body[name], arg)) = Len(Substituted(Body[name], arg))
  <2> HIDE DEF name, arg
  <2> QED BY <1>1, <1>2, ExpansionType
<1>4. /\ frame \in Frame /\ frame.pos <= Len(frame.text)
      /\ Len(frame.segments) = Len(frame.text) /\ frame.name = name
      /\ frame.resume <= Len(Around(n + 1))
  <2>1. CallEnd(buf, i) \in Nat
    BY <1>2
  <2> DEFINE e == CallEnd(buf, i)
             t == Substituted(Body[name], arg)
             g == Segments(Body[name], arg)
  <2> HIDE DEF e, t, g, name
  <2>2. LET f == [name |-> name, pos |-> 0, resume |-> e, text |-> t,
                  segments |-> g]
        IN  /\ f \in Frame /\ f.pos <= Len(f.text)
            /\ Len(f.segments) = Len(f.text) /\ f.name = name
            /\ f.resume <= Len(buf)
    BY <1>1, <1>2, <1>3, <2>1 DEF Frame, e, t, g
  <2> QED BY <2>2 DEF e, t, g
<1>5. /\ frames' = Append(frames, frame) /\ depth' = depth + 1
      /\ layerId' = Len(stmt.layers) + 1
      /\ stmt' = [stmt EXCEPT !.layers = layers]
  BY DEF Enter
<1> HIDE DEF frame, name, arg
<1>6. /\ stmt.layers \in Seq(Layer) /\ frames \in Seq(Frame) /\ stmt \in StmtType
  BY DEF IInv, TypeOK, StmtType
<1>7. PICK ids \in [1..n -> 1..Len(stmt.layers)] : Follow(ids)
  BY DEF IInv, LayersOpen
<1>8. layerId \in 0..Len(stmt.layers)
  <2>1. CASE frames = <<>>
    BY <1>6, <1>7, <2>1 DEF Follow
  <2>2. CASE frames # <<>>
    <3>1. n \in 1..n
      BY <1>6, <2>2
    <3> QED BY <1>6, <1>7, <2>2, <3>1 DEF Follow
  <2> QED BY <2>1, <2>2
<1>9. layer \in Layer /\ layer.name = name /\ layer.parent = layerId
  BY <1>1, <1>6, <1>8 DEF Layer
<1> HIDE DEF layer
<1>10. /\ layers \in Seq(Layer) /\ Len(layers) = Len(stmt.layers) + 1
       /\ layers[Len(stmt.layers) + 1] = layer
       /\ \A k \in 1..Len(stmt.layers) : layers[k] = stmt.layers[k]
       /\ Len(stmt.layers) \in Nat
  BY <1>6, <1>9, AppendType
<1>11. /\ frames' \in Seq(Frame) /\ Len(frames') = n + 1 /\ n \in Nat
       /\ frames'[n + 1] = frame
       /\ \A k \in 1..n : frames'[k] = frames[k]
  BY <1>4, <1>5, <1>6, AppendType
<1> HIDE DEF layers
<1>12. stmt' \in StmtType /\ stmt'.layers = layers
  BY <1>5, <1>6, <1>10 DEF StmtType
<1>13. LayersNest'
  <2>1. ASSUME NEW k \in 1..Len(layers)
        PROVE  layers[k].parent < k
    <3>1. CASE k \in 1..Len(stmt.layers)
      BY <1>10, <3>1 DEF IInv, LayersNest
    <3>2. CASE k = Len(stmt.layers) + 1
      BY <1>8, <1>9, <1>10, <3>2
    <3> QED BY <1>10, <3>1, <3>2
  <2> QED BY <1>12, <2>1 DEF LayersNest
<1>14. LayersOpen'
  <2> DEFINE m == Len(stmt.layers) + 1
             r == [k \in 1..(n + 1) |-> IF k = n + 1 THEN m ELSE ids[k]]
  <2>1. PICK own \in [1..Len(frames') -> 1..Len(stmt'.layers)] :
           /\ own[n + 1] = m
           /\ \A k \in 1..n : own[k] = ids[k]
    <3>1. r \in [1..(n + 1) -> 1..m]
      BY <1>7, <1>10, <1>11
    <3>2. r[n + 1] = m /\ \A k \in 1..n : r[k] = ids[k]
      BY <1>11
    <3> HIDE DEF r, m
    <3>3. Len(frames') = n + 1 /\ Len(stmt'.layers) = m
      BY <1>10, <1>11, <1>12 DEF m
    <3> QED BY <3>1, <3>2, <3>3
  <2>2. layerId = IF n = 0 THEN 0 ELSE ids[n]
    BY <1>6, <1>7 DEF Follow
  <2>3. ASSUME NEW k \in 1..Len(frames')
        PROVE  /\ stmt'.layers[own[k]].name = frames'[k].name
               /\ stmt'.layers[own[k]].parent
                    = IF k = 1 THEN 0 ELSE own[k - 1]
    <3>1. CASE k = n + 1
      <4>1. stmt'.layers[own[k]] = layer /\ frames'[k] = frame
        BY <1>10, <1>11, <1>12, <2>1, <3>1
      <4>2. layer.parent = IF k = 1 THEN 0 ELSE own[k - 1]
        <5>1. n # 0 => n \in 1..n
          BY <1>11
        <5> QED BY <1>9, <1>11, <2>1, <2>2, <3>1, <5>1
      <4> QED BY <1>4, <1>9, <4>1, <4>2
    <3>2. CASE k # n + 1
      <4>1. k \in 1..n /\ (k # 1 => k - 1 \in 1..n)
        BY <1>11, <3>2
      <4>2. ids[k] \in 1..Len(stmt.layers)
        BY <1>7, <4>1
      <4>3. /\ stmt'.layers[own[k]] = stmt.layers[ids[k]]
            /\ frames'[k] = frames[k]
            /\ (k # 1 => own[k - 1] = ids[k - 1])
        BY <1>10, <1>11, <1>12, <2>1, <4>1, <4>2
      <4>4. /\ stmt.layers[ids[k]].name = frames[k].name
            /\ stmt.layers[ids[k]].parent = IF k = 1 THEN 0 ELSE ids[k - 1]
        BY <1>7, <4>1 DEF Follow
      <4> QED BY <4>3, <4>4
    <3> QED BY <3>1, <3>2
  <2>4. layerId' = IF frames' = <<>> THEN 0 ELSE own[Len(frames')]
    BY <1>5, <1>11, <2>1
  <2>5. Follow(own)'
    BY <2>3, <2>4 DEF Follow
  <2>6. depth' = Len(frames')
    BY <1>5, <1>11 DEF IInv, LayersOpen
  <2> QED BY <2>1, <2>5, <2>6 DEF LayersOpen
<1>15. Positions'
  <2>1. ASSUME NEW k \in 1..Len(frames')
        PROVE  /\ frames'[k].pos <= Len(frames'[k].text)
               /\ Len(frames'[k].segments) = Len(frames'[k].text)
               /\ frames'[k].resume <= Len(Around(k)')
    <3>1. k # 1 => k - 1 \in 1..n
      BY <1>11
    <3>2. Around(k)' = Around(k)
      BY <1>11, <3>1 DEF Around
    <3>3. CASE k = n + 1
      BY <1>4, <1>11, <3>2, <3>3
    <3>4. CASE k # n + 1
      <4>1. k \in 1..n
        BY <1>11, <3>4
      <4> QED BY <1>11, <3>2, <4>1 DEF IInv, Positions
    <3> QED BY <3>3, <3>4
  <2> QED BY <2>1 DEF Positions
<1>16. InCall'
  <2>1. frames' # <<>> /\ Len(frames') <= MaxDepth
    BY <1>11, BodyAssumption
  <2> QED BY <2>1 DEF InCall
<1>17. layerId' \in Nat /\ depth' \in Nat
  BY <1>5, <1>10, SMTT(30) DEF IInv, TypeOK
<1> QED BY <1>11, <1>12, <1>13, <1>14, <1>15, <1>16, <1>17

LEMMA NextCallKeeps ==
    ASSUME IInv, NextCall
    PROVE  IInv'
<1> DEFINE i == offset + 1
<1>1. frames = <<>> /\ session = "cursor" /\ TypeOK
  BY AtRest DEF NextCall, IInv, InCall
<1>2. /\ source \in Seq(Tokens) /\ i \in Nat /\ i \in 0..Len(source)
      /\ Len(frames) = 0 /\ source = Around(Len(frames) + 1)
  BY <1>1 DEF NextCall, IsCall, TypeOK, Around
<1>3. /\ IsCall(source, i) /\ Known(source, i)
      /\ Enter(source, i, FALSE, frames)
      /\ offset' = i /\ pc' = "expand"
      /\ UNCHANGED <<lookup, session, sessions, source, lemon, lastToken,
                     finished, pendingReset, delivered>>
  BY DEF NextCall, handle
<1>4. Len(frames) < MaxDepth /\ offset' # 0
  BY <1>1, <1>2, <1>3, BodyAssumption DEF TypeOK
<1> HIDE DEF i
<1>5. /\ Positions' /\ InCall' /\ LayersNest' /\ LayersOpen'
      /\ frames' \in Seq(Frame) /\ stmt' \in StmtType
      /\ layerId' \in Nat /\ depth' \in Nat
  BY <1>1, <1>2, <1>3, <1>4, EnterKeeps
<1>6. TypeOK'
  BY <1>1, <1>2, <1>3, <1>5 DEF TypeOK
<1> QED BY <1>5, <1>6 DEF IInv

LEMMA EnterNestedKeeps ==
    ASSUME IInv, EnterNested
    PROVE  IInv'
<1> DEFINE n == Len(frames)
           buf == Top.text
           i == Top.pos + 1
           internal == ArgInternal(i, CallEnd(buf, i))
<1>1. pc = "expand" /\ n < MaxDepth /\ TypeOK
  BY DEF EnterNested, IInv
<1>2. n \in Nat \ {0} /\ Top \in Frame /\ session = "cursor"
  BY <1>1, InnermostCall
<1>3. buf \in Seq(Tokens) /\ i \in Nat
  BY <1>2 DEF Frame
<1>4. buf = Around(n + 1)
  BY <1>2 DEF Around, Top
<1>5. internal \in BOOLEAN
  BY DEF ArgInternal
<1>6. /\ IsCall(buf, i) /\ Known(buf, i) /\ offset' # 0
      /\ Enter(buf, i, internal, frames)
      /\ UNCHANGED <<lookup, session, sessions, source, offset, lemon,
                     lastToken, finished, pendingReset, pc, delivered>>
  BY DEF EnterNested, handle, IInv, Positions
<1> HIDE DEF buf, i, internal
<1>7. /\ Positions' /\ InCall' /\ LayersNest' /\ LayersOpen'
      /\ frames' \in Seq(Frame) /\ stmt' \in StmtType
      /\ layerId' \in Nat /\ depth' \in Nat
  BY <1>1, <1>2, <1>3, <1>4, <1>5, <1>6, EnterKeeps
<1>8. TypeOK'
  BY <1>1, <1>6, <1>7 DEF TypeOK
<1> QED BY <1>7, <1>8 DEF IInv

LEMMA EndBodyKeeps ==
    ASSUME IInv, EndBody
    PROVE  IInv'
<1>1. /\ pc = "expand" /\ TypeOK /\ Return
      /\ UNCHANGED <<lookup, session, sessions, source, lemon, lastToken,
                     stmt, finished, pendingReset, delivered>>
  BY DEF EndBody, handle, IInv
<1>2. /\ Positions' /\ InCall' /\ LayersOpen'
      /\ offset' \in 0..Len(source) /\ layerId' \in Nat /\ depth' \in Nat
      /\ frames' \in Seq(Frame) /\ pc' \in {"next", "expand"}
  BY <1>1, ReturnKeeps
<1>3. TypeOK'
  BY <1>1, <1>2 DEF TypeOK
<1>4. LayersNest'
  BY <1>1 DEF IInv, LayersNest
<1> QED BY <1>2, <1>3, <1>4 DEF IInv

(* The next token of the body.                                              *)
LEMMA AdvanceKeeps ==
    ASSUME IInv, pc = "expand", Top.pos + 1 <= Len(Top.text),
           frames' = Advance(Top.pos + 1), stmt'.layers = stmt.layers,
           UNCHANGED <<depth, layerId, offset, pc, session, source>>
    PROVE  /\ Positions' /\ InCall' /\ LayersOpen'
           /\ frames' \in Seq(Frame)
<1> DEFINE n == Len(frames)
           v == Top.pos + 1
<1>1. /\ n \in 1..n /\ Top \in Frame /\ frames \in Seq(Frame)
      /\ session = "cursor"
  BY InnermostCall
<1>2. v \in Nat /\ Top = frames[n]
  BY <1>1 DEF Frame, Top
<1>3. v <= Len(frames[n].text) /\ frames' = [frames EXCEPT ![n].pos = v]
  BY <1>2 DEF Advance
<1> HIDE DEF n, v
<1>4. /\ frames' \in Seq(Frame) /\ Len(frames') = Len(frames)
      /\ \A k \in 1..Len(frames) :
            /\ frames'[k].name = frames[k].name
            /\ frames'[k].text = frames[k].text
            /\ frames'[k].segments = frames[k].segments
            /\ frames'[k].resume = frames[k].resume
            /\ frames'[k].pos = IF k = n THEN v ELSE frames[k].pos
  <2>1. n \in 1..Len(frames) /\ frames \in Seq(Frame)
    BY <1>1 DEF n
  <2>2. frames' = [frames EXCEPT ![n].pos = v] /\ v \in Nat
    BY <1>2, <1>3
  <2> QED BY <2>1, <2>2, SetPos, SMTT(30)
<1>5. Len(frames') <= Len(frames)
  BY <1>1, <1>4
<1>6. \A k \in 1..Len(frames') : frames'[k].pos <= Len(frames[k].text)
  BY <1>3, <1>4 DEF IInv, Positions
<1>7. Positions'
  <2>1. offset' # 0
    BY DEF IInv, Positions
  <2> QED BY <1>4, <1>5, <1>6, <2>1, FramesFit
<1>8. frames' # <<>>
  BY <1>1, <1>4 DEF n
<1>9. InCall'
  BY <1>1, <1>4, <1>8 DEF InCall, IInv
<1>10. LayersOpen'
  <2>1. PICK ids \in [1..Len(frames) -> 1..Len(stmt.layers)] : Follow(ids)
    BY DEF IInv, LayersOpen
  <2>2. frames # <<>>
    BY <1>1 DEF n
  <2>3. Follow(ids)'
    BY <1>4, <1>8, <2>1, <2>2 DEF Follow
  <2> QED BY <1>4, <2>1, <2>3 DEF LayersOpen, IInv
<1> QED BY <1>4, <1>7, <1>9, <1>10

LEMMA FeedBodyKeeps ==
    ASSUME IInv, FeedBody
    PROVE  IInv'
<1> DEFINE y == FeedLemon(lemon, Kind(Top.text[Top.pos + 1]), offset)
           e == stmt.hadError \/ y.error
<1>1. /\ pc = "expand" /\ TypeOK /\ stmt \in StmtType
  BY DEF FeedBody, IInv, TypeOK
<1>2. offset \in Nat /\ lemon \in LemonType
  BY <1>1 DEF TypeOK
<1>3. y \in LemonType /\ e \in BOOLEAN
  BY <1>2, FeedType
<1>4. /\ Top.pos + 1 <= Len(Top.text)
      /\ lemon' = [y EXCEPT !.error = FALSE, !.completed = FALSE]
      /\ lastToken' = LastOf(Top.text[Top.pos + 1])
      /\ stmt' = [stmt EXCEPT !.hadError = e]
      /\ \/ Return
         \/ /\ frames' = Advance(Top.pos + 1)
            /\ UNCHANGED <<depth, layerId, offset, pc>>
      /\ UNCHANGED <<lookup, session, sessions, source, finished,
                     pendingReset, delivered>>
  BY DEF FeedBody, handle
<1> HIDE DEF y, e
<1>5. lemon' \in LemonType
  BY <1>3, <1>4, FlagsType
<1>6. stmt' \in StmtType /\ stmt'.layers = stmt.layers
  BY <1>1, <1>3, <1>4, StmtFlagsType
<1>7. lastToken' \in {"none", "semi", "other"}
  BY <1>4, LastOfType
<1>8. /\ Positions' /\ InCall' /\ LayersOpen'
      /\ offset' \in 0..Len(source) /\ layerId' \in Nat /\ depth' \in Nat
      /\ frames' \in Seq(Frame) /\ pc' \in {"next", "expand"}
  <2>1. CASE Return
    BY <1>1, <1>4, <1>6, <2>1, ReturnKeeps
  <2>2. CASE /\ frames' = Advance(Top.pos + 1)
             /\ UNCHANGED <<depth, layerId, offset, pc>>
    <3>1. Positions' /\ InCall' /\ LayersOpen' /\ frames' \in Seq(Frame)
      BY <1>1, <1>4, <1>6, <2>2, AdvanceKeeps
    <3> QED BY <1>1, <2>2, <3>1 DEF TypeOK
  <2> QED BY <1>4, <2>1, <2>2
<1>9. TypeOK'
  BY <1>1, <1>4, <1>5, <1>6, <1>7, <1>8 DEF TypeOK
<1>10. LayersNest'
  BY <1>6 DEF IInv, LayersNest
<1> QED BY <1>8, <1>9, <1>10 DEF IInv

LEMMA FailKeeps ==
    ASSUME IInv, Fail
    PROVE  IInv'
<1>1. /\ pc = "expand" /\ pc' = "unwind" /\ TypeOK
      /\ stmt' = [stmt EXCEPT !.hadError = TRUE]
      /\ UNCHANGED <<lookup, session, sessions, source, offset, lemon,
                     lastToken, finished, pendingReset, delivered>>
      /\ UNCHANGED <<layerId, depth, frames>>
  BY DEF Fail, handle, macros, IInv
<1>2. stmt' \in StmtType /\ stmt'.layers = stmt.layers
  <2>1. TRUE \in BOOLEAN /\ stmt \in StmtType
    BY <1>1 DEF TypeOK
  <2> QED BY <1>1, <2>1, StmtFlagsType
<1>3. TypeOK'
  BY <1>1, <1>2 DEF TypeOK
<1>4. Positions'
  BY <1>1 DEF IInv, Positions, Around
<1>5. InCall'
  BY <1>1 DEF IInv, InCall
<1>6. LayersNest'
  BY <1>2 DEF IInv, LayersNest
<1>7. LayersOpen'
  <2>1. PICK ids \in [1..Len(frames) -> 1..Len(stmt.layers)] : Follow(ids)
    BY DEF IInv, LayersOpen
  <2>2. Follow(ids)'
    BY <1>1, <1>2, <2>1 DEF Follow
  <2> QED BY <1>1, <1>2, <2>1, <2>2 DEF IInv, LayersOpen
<1> QED BY <1>3, <1>4, <1>5, <1>6, <1>7 DEF IInv

(* A call that fails gives its name back to the parse loop, which has read  *)
(* it.                                                                      *)
LEMMA UnwindKeeps ==
    ASSUME IInv, Unwind
    PROVE  IInv'
<1> DEFINE n == Len(frames)
<1>1. /\ pc = "unwind" /\ TypeOK /\ EndMacro
      /\ frames' = SubSeq(frames, 1, n - 1)
      /\ pc' = IF n = 1 THEN "plain" ELSE "unwind"
      /\ UNCHANGED <<lookup, session, sessions, source, offset, lemon,
                     lastToken, stmt, finished, pendingReset, delivered>>
  BY DEF Unwind, handle, IInv
<1>2. n \in Nat \ {0} /\ frames \in Seq(Frame) /\ session = "cursor"
  BY <1>1, InnermostCall
<1>3. /\ frames' \in Seq(Frame) /\ Len(frames') = n - 1
      /\ \A k \in 1..(n - 1) : frames'[k] = frames[k] /\ k \in 1..n
  <2>1. frames # <<>>
    BY <1>2
  <2> QED BY <1>1, <1>2, <2>1, PrefixType
<1>4. LayersOpen' /\ layerId' \in Nat /\ depth' \in Nat
  BY <1>1, <1>3, EndMacroCloses
<1>5. \A k \in 1..Len(frames') : frames'[k].pos <= Len(frames[k].text)
  BY <1>3 DEF IInv, Positions
<1>6. offset # 0
  BY <1>1 DEF IInv, Positions
<1>7. Positions'
  <2>1. Len(frames') <= Len(frames)
    BY <1>2, <1>3
  <2> QED BY <1>1, <1>3, <1>5, <1>6, <2>1, FramesFit
<1>8. InCall'
  <2>1. Len(frames') <= MaxDepth
    BY <1>2, <1>3, BodyAssumption DEF IInv, InCall
  <2>2. frames' # <<>> <=> n # 1
    BY <1>2, <1>3
  <2> QED BY <1>1, <1>2, <2>1, <2>2 DEF InCall
<1>9. TypeOK'
  BY <1>1, <1>3, <1>4 DEF TypeOK
<1>10. LayersNest'
  BY <1>1 DEF IInv, LayersNest
<1> QED BY <1>4, <1>7, <1>8, <1>9, <1>10 DEF IInv
----------------------------------------------------------------------------
LEMMA InitInv == Init => IInv
<1> SUFFICES ASSUME Init
             PROVE  IInv
  OBVIOUS
<1>1. TypeOK
  <2>1. /\ <<>> \in Seq(Tokens) /\ <<>> \in Seq(Frame) /\ <<>> \in Seq(Outcome)
        /\ 0 \in 0..Len(<<>>)
    OBVIOUS
  <2> QED BY <2>1, FreshType, EmptyStmtType DEF Init, TypeOK
<1>2. Positions /\ InCall
  BY BodyAssumption DEF Init, Positions, InCall
<1>3. LayersNest
  BY EmptyStmtType DEF Init, LayersNest
<1>4. LayersOpen
  <2> DEFINE ids == [k \in 1..0 |-> 0]
  <2>1. ids \in [1..Len(frames) -> 1..Len(stmt.layers)]
    BY DEF Init
  <2>2. Follow(ids)
    BY DEF Init, Follow
  <2> HIDE DEF ids
  <2> QED BY <2>1, <2>2 DEF Init, LayersOpen
<1> QED BY <1>1, <1>2, <1>3, <1>4 DEF IInv

LEMMA StutterKeeps ==
    ASSUME IInv, UNCHANGED vars
    PROVE  IInv'
<1>1. UNCHANGED <<lookup, session, sessions, source, offset, lemon, lastToken,
                  stmt, finished, pendingReset, pc, layerId, depth, frames,
                  delivered>>
  BY DEF vars, handle, macros
<1>2. TypeOK'
  BY <1>1 DEF IInv, TypeOK
<1>3. Positions' /\ InCall' /\ LayersNest'
  BY <1>1 DEF IInv, Positions, InCall, LayersNest, Around
<1>4. LayersOpen'
  <2>1. PICK ids \in [1..Len(frames) -> 1..Len(stmt.layers)] : Follow(ids)
    BY DEF IInv, LayersOpen
  <2>2. Follow(ids)'
    BY <1>1, <2>1 DEF Follow
  <2> QED BY <1>1, <2>1, <2>2 DEF IInv, LayersOpen
<1> QED BY <1>2, <1>3, <1>4 DEF IInv

LEMMA StepInv == IInv /\ [Next]_vars => IInv'
<1> SUFFICES ASSUME IInv, [Next]_vars
             PROVE  IInv'
  OBVIOUS
<1>1. CASE OpenCursor \/ OpenIncremental
  <2>1. \E kind \in {"cursor", "incremental"} :
           /\ CanOpen
           /\ \E text \in Sources[lookup][sessions + 1] : Open(kind, text)
    BY <1>1 DEF OpenCursor, OpenIncremental
  <2> QED BY <2>1, OpenKeeps
<1>2. CASE BeginNext
  BY <1>2, BeginNextKeeps
<1>3. CASE NextComment
  BY <1>3, NextCommentKeeps
<1>4. CASE NextToken \/ NextUnknownCall \/ NextFailedCall
  BY <1>4, NextShiftsKeep
<1>5. CASE NextCall
  BY <1>5, NextCallKeeps
<1>6. CASE NextFallback
  BY <1>6, NextFallbackKeeps
<1>7. CASE NextEnd
  BY <1>7, NextEndKeeps
<1>8. CASE EndBody
  BY <1>8, EndBodyKeeps
<1>9. CASE FeedBody
  BY <1>9, FeedBodyKeeps
<1>10. CASE EnterNested
  BY <1>10, EnterNestedKeeps
<1>11. CASE Fail
  BY <1>11, FailKeeps
<1>12. CASE Unwind
  BY <1>12, UnwindKeeps
<1>13. CASE FeedToken
  BY <1>13, FeedTokenKeeps
<1>14. CASE FeedFinish
  BY <1>14, FeedFinishKeeps
<1>15. CASE Close
  BY <1>15, CloseKeeps
<1>16. CASE UNCHANGED vars
  BY <1>16, StutterKeeps
<1> QED BY <1>1, <1>2, <1>3, <1>4, <1>5, <1>6, <1>7, <1>8, <1>9, <1>10, <1>11,
           <1>12, <1>13, <1>14, <1>15, <1>16
        DEF Next, ParseNext, Expand, Feed

(* The parser has its type in every state: positions stay within the text   *)
(* they point into, whatever the texts, the macros and the depth limit.     *)
THEOREM ParserTypeCorrect == Spec => []TypeOK
<1>1. IInv => TypeOK
  BY DEF IInv
<1> QED BY InitInv, StepInv, <1>1, PTL DEF Spec

(* Climbing from the current layer visits the layers of the frames, from    *)
(* the innermost outwards, and ends at the source.                          *)
LEMMA ParentsAreTheFrames == IInv => LayersMatchFrames
<1> SUFFICES ASSUME IInv
             PROVE  LayersMatchFrames
  OBVIOUS
<1> DEFINE n == Len(frames)
           E(f) == f = [k \in 0..n |->
                          IF k = 0 THEN layerId
                          ELSE IF f[k - 1] = 0 THEN 0
                          ELSE stmt.layers[f[k - 1]].parent]
           chain == CHOOSE f : E(f)
<1>1. n \in Nat /\ frames \in Seq(Frame) /\ depth = n
  BY DEF IInv, TypeOK, LayersOpen
<1>2. PICK ids \in [1..n -> 1..Len(stmt.layers)] : Follow(ids)
  BY DEF IInv, LayersOpen
<1>3. \A k \in 1..n :
         /\ stmt.layers[ids[k]].name = frames[k].name
         /\ stmt.layers[ids[k]].parent = IF k = 1 THEN 0 ELSE ids[k - 1]
         /\ ids[k] # 0
  BY <1>2 DEF Follow
<1> DEFINE w == [k \in 0..n |-> IF k = n THEN 0 ELSE ids[n - k]]
<1>4. w[0] = layerId
  <2>1. frames = <<>> <=> n = 0
    BY <1>1
  <2> QED BY <1>1, <1>2, <2>1 DEF Follow
<1>5. ASSUME NEW k \in 1..n
      PROVE  /\ w[k - 1] = ids[n - k + 1] /\ w[k - 1] # 0
             /\ w[k] = stmt.layers[w[k - 1]].parent
             /\ stmt.layers[w[k - 1]].name = frames[n - k + 1].name
  <2>1. /\ n - k + 1 \in 1..n /\ k - 1 \in 0..n /\ k - 1 # n
        /\ n - (k - 1) = n - k + 1 /\ (n - k + 1) - 1 = n - k
        /\ (n - k + 1 = 1 <=> k = n) /\ k \in 0..n
    BY <1>1
  <2> HIDE DEF n
  <2>2. w[k - 1] = ids[n - k + 1]
    BY <2>1
  <2>3. w[k] = IF n - k + 1 = 1 THEN 0 ELSE ids[(n - k + 1) - 1]
    BY <2>1
  <2> HIDE DEF w
  <2> QED BY <1>3, <2>1, <2>2, <2>3
<1>6. E(w)
  <2>1. ASSUME NEW k \in 0..n
        PROVE  w[k] = IF k = 0 THEN layerId
                      ELSE IF w[k - 1] = 0 THEN 0
                      ELSE stmt.layers[w[k - 1]].parent
    <3>1. k # 0 => k \in 1..n
      BY <1>1
    <3> HIDE DEF w, n
    <3> QED BY <1>4, <1>5, <3>1
  <2>2. w = [k \in 0..n |-> w[k]]
    OBVIOUS
  <2> HIDE DEF w, n
  <2> QED BY <2>1, <2>2
<1>7. E(chain)
  <2> HIDE DEF w, E
  <2> QED BY <1>6
<1>8. \A k \in 0..n : chain[k] = w[k]
  <2> DEFINE I == {k \in Nat : k \in 0..n => chain[k] = w[k]}
  <2>1. \A k \in 0..n : chain[k] = IF k = 0 THEN layerId
                                   ELSE IF chain[k - 1] = 0 THEN 0
                                   ELSE stmt.layers[chain[k - 1]].parent
    <3> HIDE DEF chain, n
    <3> QED BY <1>7
  <2>2. 0 \in I
    <3>1. 0 \in 0..n
      BY <1>1
    <3> HIDE DEF chain, w, n
    <3> QED BY <1>4, <2>1, <3>1
  <2>3. ASSUME NEW k \in Nat, k \in I
        PROVE  k + 1 \in I
    <3>1. SUFFICES ASSUME k + 1 \in 0..n
                   PROVE  chain[k + 1] = w[k + 1]
      OBVIOUS
    <3>2. /\ k + 1 \in 1..n /\ k + 1 # 0 /\ k \in 0..n /\ (k + 1) - 1 = k
      BY <1>1, <3>1
    <3>3. chain[k] = w[k]
      BY <2>3, <3>2
    <3> HIDE DEF chain, w, n
    <3>4. w[k + 1] = stmt.layers[w[k]].parent /\ w[k] # 0
      BY <1>5, <3>2
    <3> QED BY <2>1, <3>1, <3>2, <3>3, <3>4
  <2> HIDE DEF I
  <2>4. Nat \subseteq I
    BY <2>2, <2>3, InductionOverNat
  <2> HIDE DEF chain, w
  <2> QED BY <1>1, <2>4 DEF I
<1>9. /\ chain[n] = 0
      /\ \A k \in 1..n : /\ chain[k - 1] # 0
                         /\ stmt.layers[chain[k - 1]].name
                              = frames[n - k + 1].name
  <2>1. n \in 0..n /\ \A k \in 1..n : k - 1 \in 0..n
    BY <1>1
  <2>2. w[n] = 0
    BY <1>1
  <2> HIDE DEF chain, w, n
  <2> QED BY <1>5, <1>8, <2>1, <2>2, ZenonT(30)
<1> HIDE DEF chain
<1> QED BY <1>1, <1>9 DEF LayersMatchFrames, chain

(* Every layer of an expansion that opens is closed, on every way out of    *)
(* it: the layer tokens are attributed to is that of the innermost macro    *)
(* being expanded, its parents are those around it.  For all texts, macro   *)
(* bodies and depth limits.                                                 *)
THEOREM LayersFollowTheCalls == Spec => []LayersMatchFrames
BY InitInv, StepInv, ParentsAreTheFrames, PTL DEF Spec

(* A session is given the parser as if it were new, however far the session *)
(* before it came: half way through a statement, after an error, or in the  *)
(* recovery of the grammar (syntaqlite_parser_reset).                       *)
StartsFresh ==
    session = "none" /\ session' # "none" =>
        /\ lemon' = Fresh /\ lastToken' = "none" /\ stmt' = EmptyStmt
        /\ offset' = 0 /\ ~finished' /\ ~pendingReset' /\ pc' = "idle"
        /\ layerId' = 0 /\ depth' = 0 /\ frames' = <<>> /\ delivered' = <<>>

THEOREM SessionsStartFresh == Spec => [][StartsFresh]_vars
<1>1. ASSUME IInv, [Next]_vars
      PROVE  [StartsFresh]_vars
  <2>1. SUFFICES ASSUME Next, session = "none", session' # session
                 PROVE  StartsFresh
    BY <1>1 DEF StartsFresh
  <2>2. pc = "idle"
    BY <1>1, <2>1 DEF IInv, InCall
  <2>3. frames = <<>>
    BY <1>1, <2>2, AtRest
  <2>4. PICK kind, text : kind \in {"cursor", "incremental"} /\ Open(kind, text)
    BY <2>1, <2>2
       DEF Next, OpenCursor, OpenIncremental, ParseNext, Feed, Close, BeginNext,
           NextComment, NextToken, NextUnknownCall, NextFailedCall, NextCall,
           NextFallback, NextEnd, Expand, EndBody, FeedBody, EnterNested,
           Fail, Unwind, FeedToken, FeedFinish
  <2> QED BY <2>2, <2>3, <2>4, ReopenedIsFresh DEF Open, StartsFresh
<1> QED BY <1>1, InitInv, StepInv, PTL DEF Spec

----------------------------------------------------------------------------
(* Words                                                                    *)

LEMMA SameFlattening ==
    ASSUME NEW q
    PROVE  Stream!FlattenSeq(q) = FlattenSeq(q)
BY DEF Stream!FlattenSeq, FlattenSeq

LEMMA SameSequence ==
    ASSUME NEW S, NEW s \in Seq(S), NEW t \in Seq(S), Len(s) = Len(t),
           \A i \in 1..Len(s) : s[i] = t[i]
    PROVE  s = t
OBVIOUS

LEMMA WithoutIs ==
    ASSUME NEW s, NEW S
    PROVE  Stream!Without(s, S) =
             FlattenSeq([k \in DOMAIN s |-> IF s[k] \in S THEN <<>> ELSE <<s[k]>>])
BY SameFlattening DEF Stream!Without

LEMMA WithoutNothing ==
    ASSUME NEW S
    PROVE  Stream!Without(<<>>, S) = <<>>
<1> DEFINE p == [k \in DOMAIN <<>> |-> IF <<>>[k] \in S THEN <<>> ELSE << <<>>[k] >>]
<1>1. p = <<>>
  OBVIOUS
<1>2. FlattenSeq(<<>>) = <<>>
  BY DEF FlattenSeq
<1> HIDE DEF p
<1>3. Stream!Without(<<>>, S) = FlattenSeq(p)
  BY WithoutIs DEF p
<1> QED BY <1>1, <1>2, <1>3

LEMMA WithoutType ==
    ASSUME NEW T, NEW s \in Seq(T), NEW S
    PROVE  Stream!Without(s, S) \in Seq(T)
<1> DEFINE p == [k \in DOMAIN s |-> IF s[k] \in S THEN <<>> ELSE <<s[k]>>]
<1>1. p \in Seq(Seq(T))
  <2>1. \A k \in DOMAIN s : (IF s[k] \in S THEN <<>> ELSE <<s[k]>>) \in Seq(T)
    OBVIOUS
  <2>2. p \in [1..Len(s) -> Seq(T)] /\ Len(s) \in Nat
    BY <2>1
  <2> HIDE DEF p
  <2> QED BY <2>2, FunctionIsSequence
<1> HIDE DEF p
<1>2. FlattenSeq(p) \in Seq(T)
  BY <1>1, FlattenType
<1> QED BY <1>2, WithoutIs DEF p

LEMMA WithoutStep ==
    ASSUME NEW T, NEW s \in Seq(T), NEW e \in T, NEW S
    PROVE  Stream!Without(Append(s, e), S) =
             IF e \in S THEN Stream!Without(s, S)
             ELSE Append(Stream!Without(s, S), e)
<1> DEFINE P(q) == [k \in DOMAIN q |-> IF q[k] \in S THEN <<>> ELSE <<q[k]>>]
           r == IF e \in S THEN <<>> ELSE <<e>>
           n == Len(s)
<1>1. /\ Append(s, e) \in Seq(T) /\ n \in Nat /\ DOMAIN s = 1..n
      /\ DOMAIN Append(s, e) = 1..(n + 1) /\ Append(s, e)[n + 1] = e
      /\ \A i \in 1..n : Append(s, e)[i] = s[i]
      /\ \A i \in 1..(n + 1) : i \in 1..n \/ i = n + 1
  BY AppendElements
<1>0. ASSUME NEW q \in Seq(T)
      PROVE  P(q) \in Seq(Seq(T)) /\ Len(P(q)) = Len(q)
  <2>1. \A k \in 1..Len(q) : (IF q[k] \in S THEN <<>> ELSE <<q[k]>>) \in Seq(T)
    OBVIOUS
  <2>2. P(q) \in [1..Len(q) -> Seq(T)] /\ Len(q) \in Nat
    BY <2>1
  <2> HIDE DEF P
  <2> QED BY <2>2, FunctionIsSequence
<1>2. P(s) \in Seq(Seq(T)) /\ Len(P(s)) = n /\ r \in Seq(T)
  <2>1. r \in Seq(T)
    OBVIOUS
  <2> HIDE DEF P, r
  <2> QED BY <1>0, <2>1
<1>3. P(Append(s, e)) = Append(P(s), r)
  <2>1. /\ Append(P(s), r) \in Seq(Seq(T))
        /\ DOMAIN Append(P(s), r) = 1..(n + 1)
        /\ Append(P(s), r)[n + 1] = r
        /\ \A i \in 1..n : Append(P(s), r)[i] = P(s)[i]
    <3> HIDE DEF P, r
    <3> QED BY <1>2, AppendElements
  <2>2. /\ DOMAIN P(Append(s, e)) = 1..(n + 1)
        /\ P(Append(s, e))[n + 1] = r
        /\ \A i \in 1..n : P(Append(s, e))[i] = P(s)[i]
    <3>1. n + 1 \in 1..(n + 1) /\ \A i \in 1..n : i \in 1..(n + 1)
      BY <1>1
    <3> QED BY <1>1, <3>1
  <2>3. \A i \in 1..(n + 1) : P(Append(s, e))[i] = Append(P(s), r)[i]
    <3> HIDE DEF P, r
    <3> QED BY <1>1, <2>1, <2>2
  <2>4. P(Append(s, e)) \in Seq(Seq(T)) /\ Len(P(Append(s, e))) = n + 1
    <3>1. Len(Append(s, e)) = n + 1
      OBVIOUS
    <3> HIDE DEF P
    <3> QED BY <1>0, <1>1, <3>1
  <2>5. Len(Append(P(s), r)) = n + 1
    <3> HIDE DEF P, r
    <3> QED BY <1>2, AppendElements
  <2> HIDE DEF P, r
  <2> QED BY <2>1, <2>3, <2>4, <2>5, SameSequence
<1> HIDE DEF P, r
<1>4. FlattenSeq(Append(P(s), r)) = FlattenSeq(P(s)) \o r
  BY <1>2, FlattenSnoc
<1>5. FlattenSeq(P(s)) \in Seq(T)
  BY <1>2, FlattenType
<1>6. FlattenSeq(P(s)) \o r =
        IF e \in S THEN FlattenSeq(P(s)) ELSE Append(FlattenSeq(P(s)), e)
  BY <1>5 DEF r
<1> QED BY <1>3, <1>4, <1>6, WithoutIs DEF P

LEMMA WithoutConcat ==
    ASSUME NEW T, NEW s \in Seq(T), NEW t \in Seq(T), NEW S
    PROVE  Stream!Without(s \o t, S) = Stream!Without(s, S) \o Stream!Without(t, S)
<1> DEFINE P(q) == [k \in DOMAIN q |-> IF q[k] \in S THEN <<>> ELSE <<q[k]>>]
<1>1. ASSUME NEW q \in Seq(T)
      PROVE  /\ P(q) \in Seq(Seq(T)) /\ Len(P(q)) = Len(q) /\ Len(q) \in Nat
             /\ \A k \in 1..Len(q) :
                   P(q)[k] = IF q[k] \in S THEN <<>> ELSE <<q[k]>>
  <2>1. \A k \in 1..Len(q) : (IF q[k] \in S THEN <<>> ELSE <<q[k]>>) \in Seq(T)
    OBVIOUS
  <2>2. P(q) \in [1..Len(q) -> Seq(T)] /\ Len(q) \in Nat
    BY <2>1
  <2>3. \A k \in 1..Len(q) : P(q)[k] = IF q[k] \in S THEN <<>> ELSE <<q[k]>>
    OBVIOUS
  <2> HIDE DEF P
  <2> QED BY <2>2, <2>3, FunctionIsSequence
<1> HIDE DEF P
<1>2. /\ s \o t \in Seq(T) /\ Len(s \o t) = Len(s) + Len(t)
      /\ \A i \in 1..(Len(s) + Len(t)) :
            (s \o t)[i] = IF i <= Len(s) THEN s[i] ELSE t[i - Len(s)]
  OBVIOUS
<1>3. P(s \o t) = P(s) \o P(t)
  <2>1. P(s \o t) \in Seq(Seq(T)) /\ Len(P(s \o t)) = Len(s) + Len(t)
    BY <1>1, <1>2
  <2>2. ASSUME NEW i \in 1..Len(P(s \o t))
        PROVE  P(s \o t)[i] = IF i <= Len(P(s)) THEN P(s)[i] ELSE P(t)[i - Len(P(s))]
    <3>1. i \in 1..(Len(s) + Len(t))
      BY <2>1
    <3>2. P(s \o t)[i] = IF (s \o t)[i] \in S THEN <<>> ELSE <<(s \o t)[i]>>
      BY <1>1, <1>2, <3>1
    <3>3. CASE i <= Len(s)
      <4>1. i \in 1..Len(s)
        BY <3>1, <3>3
      <4> QED BY <1>1, <1>2, <3>1, <3>2, <3>3, <4>1
    <3>4. CASE ~(i <= Len(s))
      <4>1. i - Len(s) \in 1..Len(t)
        BY <1>1, <3>1, <3>4
      <4> QED BY <1>1, <1>2, <3>1, <3>2, <3>4, <4>1
    <3> QED BY <3>3, <3>4
  <2>3. /\ P(s) \in Seq(Seq(T)) /\ P(t) \in Seq(Seq(T))
        /\ Len(P(s \o t)) = Len(P(s)) + Len(P(t))
    BY <1>1, <2>1
  <2> DEFINE x == P(s)
             y == P(t)
             z == P(s \o t)
  <2>4. /\ x \in Seq(Seq(T)) /\ y \in Seq(Seq(T)) /\ z \in Seq(Seq(T))
        /\ Len(z) = Len(x) + Len(y)
        /\ \A i \in 1..Len(z) : z[i] = IF i <= Len(x) THEN x[i] ELSE y[i - Len(x)]
    BY <2>1, <2>2, <2>3
  <2> HIDE DEF x, y, z
  <2>5. z = x \o y
    BY <2>4, ConcatIs
  <2> QED BY <2>5 DEF x, y, z
<1>4. FlattenSeq(P(s) \o P(t)) = FlattenSeq(P(s)) \o FlattenSeq(P(t))
  BY <1>1, FlattenConcat
<1> QED BY <1>3, <1>4, WithoutIs DEF P

(* The words from a to b, and where they stand.                             *)
Text(s, a, b) == Stream!Without(SubSeq(s, a, b), Comments)

(* ... and those of them that are no semicolon.                             *)
Spoken(s, a, b) == Stream!Without(Text(s, a, b), {"semi"})

Places(s, a, b) ==
    Stream!Without([k \in 1..(b - a + 1) |-> a + k - 1],
                   {p \in 1..Len(s) : s[p] \in Comments})

(* What words without a semicolon are, or are the beginning of.             *)
Shape(w) ==
    IF w = <<>> THEN "none"
    ELSE IF Len(w) = 1 /\ w[1] \in {"select", "drop"} THEN w[1]
    ELSE IF Len(w) \in {2, 3} /\ w[1] = "select" /\ w[2] \in {"x"} \cup Names
         THEN IF Len(w) = 2 THEN "cmd"
              ELSE IF w[3] \in Names THEN "aliased" ELSE "broken"
    ELSE "broken"

Continued(f, t) ==
    IF f = "none" /\ t \in {"select", "drop"} THEN t
    ELSE IF f = "select" /\ t \in {"x"} \cup Names THEN "cmd"
    ELSE IF f = "cmd" /\ t \in Names THEN "aliased"
    ELSE "broken"

Complete == {"none", "cmd", "aliased"}

Taken == IF delivered = <<>> THEN 0 ELSE delivered[Len(delivered)].to

NoSemi(s, a, b) == \A k \in a..b : s[k] # "semi"

(* The parser has met no error in the statement it is in.                   *)
Unharmed(y) ==
    /\ y.errcnt = -1 /\ ~y.completed /\ ~y.error /\ y.root = NoRoot

Reset(y) == y.top = "none" /\ ~y.list /\ y.errcnt = -1

BetweenStatements ==
    /\ Taken = offset /\ lastToken = "none" /\ Reset(lemon)

CursorReads ==
    LET w == Spoken(source, Taken + 1, offset) IN
    /\ NoSemi(source, Taken + 1, offset)
    /\ stmt.from = IF Taken < Len(source) THEN Taken + 1 ELSE 0
    /\ stmt.tokens = Places(source, Taken + 1, offset)
    /\ stmt.comment <=> \E k \in (Taken + 1)..offset : source[k] \in Comments
    /\ lastToken = IF w = <<>> THEN "none" ELSE "other"
    /\ IF stmt.hadError THEN Shape(w) = "broken"
       ELSE /\ Unharmed(lemon) /\ ~lemon.list
            /\ lemon.top = Shape(w) /\ Shape(w) # "broken"

CursorInv ==
    session = "cursor" =>
        IF finished THEN pc = "idle"
        ELSE /\ Taken \in 0..offset
             /\ \/ pc = "idle" /\ BetweenStatements
                \/ pc = "next" /\ CursorReads

(* A statement that is fed begins behind a semicolon; nothing but comments  *)
(* and semicolons is between it and the result before.                      *)
Begins(b) ==
    /\ b = 0 \/ source[b] = "semi"
    /\ NoSemi(source, b + 1, offset)
    /\ \A k \in (Taken + 1)..b : source[k] \in Comments \cup {"semi"}

FedReads ==
    LET w == Spoken(source, Taken + 1, offset) IN
    /\ stmt.from = IF Taken < offset THEN Taken + 1 ELSE 0
    /\ stmt.tokens = Places(source, Taken + 1, offset)
    /\ ~stmt.comment /\ ~stmt.hadError
    /\ Unharmed(lemon)
    /\ \E b \in Taken..offset : Begins(b)
    /\ IF w = <<>>
       THEN IF lastToken = "semi" THEN lemon.top = "bare"
            ELSE lastToken = "none" /\ lemon.top = "none"
       ELSE lastToken = "other" /\ lemon.top = Shape(w) /\ Shape(w) # "broken"

FedInv ==
    session = "incremental" /\ ~finished /\ ~Stream!Lost(offset) =>
        /\ Taken \in 0..offset
        /\ Taken = 0 \/ source[Taken] = "semi"
        /\ IF pendingReset THEN BetweenStatements ELSE FedReads

LEMMA WithoutSame ==
    ASSUME NEW T, NEW s \in Seq(T), NEW S, NEW R,
           \A k \in 1..Len(s) : s[k] \in S <=> s[k] \in R
    PROVE  Stream!Without(s, S) = Stream!Without(s, R)
<1> DEFINE P(Z) == [k \in DOMAIN s |-> IF s[k] \in Z THEN <<>> ELSE <<s[k]>>]
<1>1. P(S) = P(R)
  OBVIOUS
<1> QED BY <1>1, WithoutIs

LEMMA SubSeqGrows ==
    ASSUME NEW T, NEW s \in Seq(T), NEW a \in Nat \ {0}, NEW b \in Nat,
           a <= b + 1, b + 1 <= Len(s)
    PROVE  /\ SubSeq(s, a, b + 1) = Append(SubSeq(s, a, b), s[b + 1])
           /\ SubSeq(s, a, b) \in Seq(T) /\ s[b + 1] \in T
OBVIOUS

LEMMA SubSeqSplits ==
    ASSUME NEW T, NEW s \in Seq(T), NEW a \in Nat \ {0}, NEW b \in Nat, NEW c \in Nat,
           a <= b + 1, b <= c, c <= Len(s)
    PROVE  /\ SubSeq(s, a, c) = SubSeq(s, a, b) \o SubSeq(s, b + 1, c)
           /\ SubSeq(s, a, b) \in Seq(T) /\ SubSeq(s, b + 1, c) \in Seq(T)
OBVIOUS

LEMMA SubSeqNone ==
    ASSUME NEW T, NEW s \in Seq(T), NEW a \in Nat, NEW b \in Nat, b < a
    PROVE  SubSeq(s, a, b) = <<>>
OBVIOUS

LEMMA TextStep ==
    ASSUME NEW s \in Seq(Tokens), NEW a \in Nat \ {0}, NEW b \in Nat,
           a <= b + 1, b + 1 <= Len(s)
    PROVE  Text(s, a, b + 1) = IF s[b + 1] \in Comments THEN Text(s, a, b)
                               ELSE Append(Text(s, a, b), s[b + 1])
<1> DEFINE x == SubSeq(s, a, b)
           e == s[b + 1]
           y == SubSeq(s, a, b + 1)
<1>1. y = Append(x, e) /\ x \in Seq(Tokens) /\ e \in Tokens
  BY SubSeqGrows
<1> HIDE DEF x, e, y
<1>2. Stream!Without(Append(x, e), Comments) =
        IF e \in Comments THEN Stream!Without(x, Comments)
        ELSE Append(Stream!Without(x, Comments), e)
  BY <1>1, WithoutStep
<1>3. Text(s, a, b + 1) = Stream!Without(y, Comments)
      /\ Text(s, a, b) = Stream!Without(x, Comments)
  BY DEF Text, x, y
<1>4. Text(s, a, b + 1) = IF e \in Comments THEN Text(s, a, b)
                          ELSE Append(Text(s, a, b), e)
  BY <1>1, <1>2, <1>3
<1> QED BY <1>4 DEF e

LEMMA TextNone ==
    ASSUME NEW s \in Seq(Tokens), NEW a \in Nat, NEW b \in Nat, b < a
    PROVE  Text(s, a, b) = <<>>
BY SubSeqNone, WithoutNothing DEF Text

LEMMA TextSplit ==
    ASSUME NEW s \in Seq(Tokens), NEW a \in Nat \ {0}, NEW b \in Nat, NEW c \in Nat,
           a <= b + 1, b <= c, c <= Len(s)
    PROVE  Text(s, a, c) = Text(s, a, b) \o Text(s, b + 1, c)
<1> DEFINE x == SubSeq(s, a, b)
           y == SubSeq(s, b + 1, c)
           z == SubSeq(s, a, c)
<1>1. z = x \o y /\ x \in Seq(Tokens) /\ y \in Seq(Tokens)
  BY SubSeqSplits
<1>2. /\ Text(s, a, c) = Stream!Without(z, Comments)
      /\ Text(s, a, b) = Stream!Without(x, Comments)
      /\ Text(s, b + 1, c) = Stream!Without(y, Comments)
  BY DEF Text
<1> HIDE DEF x, y, z
<1>3. Stream!Without(x \o y, Comments) =
        Stream!Without(x, Comments) \o Stream!Without(y, Comments)
  BY <1>1, WithoutConcat
<1> QED BY <1>1, <1>2, <1>3

LEMMA TextType ==
    ASSUME NEW s \in Seq(Tokens), NEW a \in Nat \ {0}, NEW b \in Nat, b <= Len(s)
    PROVE  Text(s, a, b) \in Seq(Tokens)
<1>1. SubSeq(s, a, b) \in Seq(Tokens)
  OBVIOUS
<1> QED BY <1>1, WithoutType DEF Text

LEMMA PlacesNone ==
    ASSUME NEW s, NEW a \in Nat, NEW b \in Nat, b < a
    PROVE  Places(s, a, b) = <<>>
<1>1. [k \in 1..(b - a + 1) |-> a + k - 1] = <<>>
  OBVIOUS
<1> QED BY <1>1, WithoutNothing DEF Places

LEMMA PlacesStep ==
    ASSUME NEW s \in Seq(Tokens), NEW a \in Nat \ {0}, NEW b \in Nat,
           a <= b + 1, b + 1 <= Len(s)
    PROVE  Places(s, a, b + 1) = IF s[b + 1] \in Comments THEN Places(s, a, b)
                                 ELSE Append(Places(s, a, b), b + 1)
<1> DEFINE Q(n) == [k \in 1..(n - a + 1) |-> a + k - 1]
           m == b - a + 1
<1>1. m \in Nat /\ (b + 1) - a + 1 = m + 1 /\ a + (m + 1) - 1 = b + 1 /\ b + 1 \in Nat
  OBVIOUS
<1>2. Q(b) \in [1..m -> Nat]
  OBVIOUS
<1>3. Q(b) \in Seq(Nat) /\ Len(Q(b)) = m
  <2> HIDE DEF Q, m
  <2> QED BY <1>1, <1>2, FunctionIsSequence
<1>4. Q(b + 1) \in [1..(m + 1) -> Nat]
  BY <1>1
<1>5. Q(b + 1) \in Seq(Nat) /\ Len(Q(b + 1)) = m + 1
  <2>1. m + 1 \in Nat
    BY <1>1
  <2> HIDE DEF Q, m
  <2> QED BY <2>1, <1>4, FunctionIsSequence
<1>6. /\ \A k \in 1..m : Q(b + 1)[k] = Q(b)[k]
      /\ Q(b + 1)[m + 1] = b + 1
  BY <1>1
<1>7. Q(b + 1) = Append(Q(b), b + 1)
  <2> DEFINE r == Append(Q(b), b + 1)
  <2>1. /\ r \in Seq(Nat) /\ Len(r) = m + 1 /\ r[m + 1] = b + 1
        /\ \A k \in 1..m : r[k] = Q(b)[k]
        /\ \A i \in 1..(m + 1) : i \in 1..m \/ i = m + 1
    <3> HIDE DEF Q, m
    <3> QED BY <1>1, <1>3, AppendElements
  <2> HIDE DEF Q, m, r
  <2>2. \A i \in 1..(m + 1) : Q(b + 1)[i] = r[i]
    BY <1>6, <2>1
  <2>3. Q(b + 1) = r
    BY <1>5, <2>1, <2>2, SameSequence
  <2> QED BY <2>3 DEF r
<1>8. b + 1 \in 1..Len(s)
  OBVIOUS
<1> DEFINE R == {p \in 1..Len(s) : s[p] \in Comments}
           x == Q(b)
           e == b + 1
<1>9. /\ Places(s, a, b) = Stream!Without(x, R)
      /\ Places(s, a, b + 1) = Stream!Without(Append(x, e), R)
  BY <1>7 DEF Places
<1>10. (e \in R <=> s[b + 1] \in Comments) /\ e \in Nat /\ x \in Seq(Nat)
  BY <1>1, <1>3, <1>8
<1> HIDE DEF Q, m, R, x, e
<1>11. Stream!Without(Append(x, e), R) =
         IF e \in R THEN Stream!Without(x, R) ELSE Append(Stream!Without(x, R), e)
  BY <1>10, WithoutStep, ZenonT(30)
<1>12. Places(s, a, b + 1) = IF s[b + 1] \in Comments THEN Places(s, a, b)
                             ELSE Append(Places(s, a, b), e)
  BY <1>9, <1>10, <1>11
<1> QED BY <1>12 DEF e

LEMMA AppendNotEmpty ==
    ASSUME NEW T, NEW q \in Seq(T), NEW e \in T
    PROVE  Append(q, e) # <<>>
<1>1. Len(q) \in Nat /\ Len(Append(q, e)) = Len(q) + 1
  BY AppendElements
<1>2. Len(<<>>) = 0
  OBVIOUS
<1> QED BY <1>1, <1>2

LEMMA OverText ==
    ASSUME NEW a \in Nat \ {0}, NEW m \in Nat, NEW I, a - 1 \in I,
           \A b \in Nat : a - 1 <= b /\ b + 1 <= m /\ b \in I => b + 1 \in I
    PROVE  \A b \in (a - 1)..m : b \in I
<1> DEFINE J == {n \in Nat : n \in (a - 1)..m => n \in I}
<1>1. 0 \in J
  OBVIOUS
<1>2. ASSUME NEW n \in Nat, n \in J
      PROVE  n + 1 \in J
  <2>1. SUFFICES ASSUME n + 1 \in (a - 1)..m
                 PROVE  n + 1 \in I
    OBVIOUS
  <2>2. CASE n + 1 = a - 1
    BY <2>2
  <2>3. CASE n + 1 # a - 1
    <3>1. a - 1 <= n /\ n + 1 <= m
      BY <2>1, <2>3
    <3>2. n \in (a - 1)..m
      BY <3>1
    <3> QED BY <1>2, <3>1, <3>2
  <2> QED BY <2>2, <2>3
<1> HIDE DEF J
<1>3. Nat \subseteq J
  BY <1>1, <1>2, InductionOverNat
<1> QED BY <1>3 DEF J

LEMMA SpokenStep ==
    ASSUME NEW s \in Seq(Tokens), NEW a \in Nat \ {0}, NEW b \in Nat,
           a <= b + 1, b + 1 <= Len(s)
    PROVE  Spoken(s, a, b + 1) =
             IF s[b + 1] \in Comments \cup {"semi"} THEN Spoken(s, a, b)
             ELSE Append(Spoken(s, a, b), s[b + 1])
<1> DEFINE w == Text(s, a, b)
           t == s[b + 1]
<1>1. w \in Seq(Tokens) /\ t \in Tokens
  BY TextType
<1>2. Text(s, a, b + 1) = IF t \in Comments THEN w ELSE Append(w, t)
  BY TextStep
<1> HIDE DEF w, t
<1>3. Stream!Without(Append(w, t), {"semi"}) =
        IF t \in {"semi"} THEN Stream!Without(w, {"semi"})
        ELSE Append(Stream!Without(w, {"semi"}), t)
  BY <1>1, WithoutStep
<1>4. Spoken(s, a, b) = Stream!Without(w, {"semi"})
  BY DEF Spoken, w
<1>5. Spoken(s, a, b + 1) =
        IF t \in Comments THEN Stream!Without(w, {"semi"})
        ELSE Stream!Without(Append(w, t), {"semi"})
  BY <1>2 DEF Spoken
<1>6. Spoken(s, a, b + 1) = IF t \in Comments \cup {"semi"} THEN Spoken(s, a, b)
                            ELSE Append(Spoken(s, a, b), t)
  BY <1>3, <1>4, <1>5
<1> QED BY <1>6 DEF t

LEMMA SpokenNone ==
    ASSUME NEW s \in Seq(Tokens), NEW a \in Nat, NEW b \in Nat, b < a
    PROVE  Spoken(s, a, b) = <<>>
BY TextNone, WithoutNothing DEF Spoken

LEMMA SpokenType ==
    ASSUME NEW s \in Seq(Tokens), NEW a \in Nat \ {0}, NEW b \in Nat, b <= Len(s)
    PROVE  Spoken(s, a, b) \in Seq(Tokens)
BY TextType, WithoutType DEF Spoken

LEMMA SpokenSplit ==
    ASSUME NEW s \in Seq(Tokens), NEW a \in Nat \ {0}, NEW b \in Nat, NEW c \in Nat,
           a <= b + 1, b <= c, c <= Len(s)
    PROVE  Spoken(s, a, c) = Spoken(s, a, b) \o Spoken(s, b + 1, c)
<1> DEFINE x == Text(s, a, b)
           y == Text(s, b + 1, c)
<1>1. x \in Seq(Tokens) /\ y \in Seq(Tokens)
  BY TextType
<1>2. Text(s, a, c) = x \o y
  BY TextSplit
<1>3. Spoken(s, a, b) = Stream!Without(x, {"semi"})
      /\ Spoken(s, b + 1, c) = Stream!Without(y, {"semi"})
  BY DEF Spoken
<1> HIDE DEF x, y
<1>4. Stream!Without(x \o y, {"semi"}) =
        Stream!Without(x, {"semi"}) \o Stream!Without(y, {"semi"})
  BY <1>1, WithoutConcat
<1> QED BY <1>2, <1>3, <1>4 DEF Spoken

(* What a stretch has, seen from its tokens.                                *)
LEMMA WordsOf ==
    ASSUME NEW s \in Seq(Tokens), NEW a \in Nat \ {0}, NEW m \in (a - 1)..Len(s)
    PROVE  /\ Text(s, a, m) = <<>> <=> \A k \in a..m : s[k] \in Comments
           /\ Places(s, a, m) = <<>> <=> \A k \in a..m : s[k] \in Comments
           /\ Spoken(s, a, m) = <<>>
                <=> \A k \in a..m : s[k] \in Comments \cup {"semi"}
           /\ Stream!Rooted(Text(s, a, m)) <=> Spoken(s, a, m) # <<>>
<1> DEFINE P(b) ==
             /\ Text(s, a, b) = <<>> <=> \A k \in a..b : s[k] \in Comments
             /\ Places(s, a, b) = <<>> <=> \A k \in a..b : s[k] \in Comments
             /\ Spoken(s, a, b) = <<>>
                  <=> \A k \in a..b : s[k] \in Comments \cup {"semi"}
             /\ Stream!Rooted(Text(s, a, b)) <=> Spoken(s, a, b) # <<>>
           I == {b \in Nat : P(b)}
<1>1. a - 1 \in I
  <2>1. /\ Text(s, a, a - 1) = <<>> /\ Places(s, a, a - 1) = <<>>
        /\ Spoken(s, a, a - 1) = <<>> /\ a - 1 \in Nat
    BY TextNone, PlacesNone, SpokenNone
  <2>2. ~Stream!Rooted(<<>>)
    BY DEF Stream!Rooted
  <2>3. \A k : k \notin a..(a - 1)
    OBVIOUS
  <2> QED BY <2>1, <2>2, <2>3
<1>2. ASSUME NEW b \in Nat, a - 1 <= b, b + 1 <= Len(s), b \in I
      PROVE  b + 1 \in I
  <2> DEFINE w == Text(s, a, b)
             v == Spoken(s, a, b)
             p == Places(s, a, b)
             t == s[b + 1]
  <2>1. /\ w \in Seq(Tokens) /\ v \in Seq(Tokens) /\ t \in Tokens
        /\ a <= b + 1 /\ b + 1 \in Nat
    <3>1. b <= Len(s) /\ a <= b + 1 /\ b + 1 \in Nat /\ b + 1 \in 1..Len(s)
      BY <1>2
    <3>2. w \in Seq(Tokens)
      BY <3>1, TextType
    <3>3. v \in Seq(Tokens)
      BY <3>1, SpokenType
    <3> HIDE DEF w, v
    <3> QED BY <3>1, <3>2, <3>3
  <2>2. /\ Text(s, a, b + 1) = IF t \in Comments THEN w ELSE Append(w, t)
        /\ Places(s, a, b + 1) = IF t \in Comments THEN p ELSE Append(p, b + 1)
        /\ Spoken(s, a, b + 1) = IF t \in Comments \cup {"semi"} THEN v ELSE Append(v, t)
    BY <1>2, <2>1, TextStep, PlacesStep, SpokenStep
  <2>3. P(b)
    BY <1>2
  <2>4. p \in Seq(Nat)
    <3> DEFINE q == [k \in 1..(b - a + 1) |-> a + k - 1]
    <3>1. q \in [1..(b - a + 1) -> Nat] /\ b - a + 1 \in Nat
      BY <2>1
    <3> HIDE DEF q
    <3>2. q \in Seq(Nat)
      BY <3>1, FunctionIsSequence
    <3> QED BY <3>2, WithoutType DEF Places, q
  <2>5. /\ Append(w, t) # <<>> /\ Append(v, t) # <<>> /\ Append(p, b + 1) # <<>>
    <3> HIDE DEF w, v, p, t
    <3>1. Append(w, t) # <<>> /\ Append(v, t) # <<>>
      BY <2>1, AppendNotEmpty
    <3>2. Append(p, b + 1) # <<>>
      BY <2>1, <2>4, AppendNotEmpty
    <3> QED BY <3>1, <3>2
  <2>6. Stream!Rooted(Append(w, t)) <=> Stream!Rooted(w) \/ t # "semi"
    <3> DEFINE z == Append(w, t)
    <3>1. /\ Len(z) = Len(w) + 1 /\ Len(w) \in Nat /\ z[Len(w) + 1] = t
          /\ \A i \in 1..Len(w) : z[i] = w[i]
          /\ \A i \in 1..(Len(w) + 1) : i \in 1..Len(w) \/ i = Len(w) + 1
      <4> HIDE DEF w, t
      <4> QED BY <2>1, AppendElements
    <3> HIDE DEF z, w, t
    <3>2. /\ Len(w) + 1 \in 1..(Len(w) + 1)
          /\ \A i \in 1..Len(w) : i \in 1..(Len(w) + 1)
      BY <3>1
    <3>3. Stream!Rooted(z) <=> Stream!Rooted(w) \/ t # "semi"
      BY <3>1, <3>2 DEF Stream!Rooted
    <3> QED BY <3>3 DEF z
  <2>7. \A k : k \in a..(b + 1) <=> k \in a..b \/ k = b + 1
    BY <2>1
  <2> HIDE DEF w, v, p
  <2>8. "semi" \notin Comments
    BY DEF Comments
  <2>9. P(b) <=> /\ w = <<>> <=> \A k \in a..b : s[k] \in Comments
                 /\ p = <<>> <=> \A k \in a..b : s[k] \in Comments
                 /\ v = <<>> <=> \A k \in a..b : s[k] \in Comments \cup {"semi"}
                 /\ Stream!Rooted(w) <=> v # <<>>
    BY DEF w, v, p
  <2> HIDE DEF P
  <2>10. P(b + 1)
    <3>1. CASE t \in Comments
      BY <2>2, <2>3, <2>7, <2>9, <3>1 DEF P
    <3>2. CASE t = "semi"
      BY <2>2, <2>3, <2>5, <2>6, <2>7, <2>8, <2>9, <3>2 DEF P
    <3>3. CASE t \notin Comments \cup {"semi"}
      BY <2>2, <2>3, <2>5, <2>6, <2>7, <2>9, <3>3 DEF P
    <3> QED BY <3>1, <3>2, <3>3
  <2> QED BY <2>1, <2>10
<1> HIDE DEF I
<1>3. m \in I
  <2>1. Len(s) \in Nat
    OBVIOUS
  <2>2. \A b \in (a - 1)..Len(s) : b \in I
    BY <1>1, <1>2, <2>1, OverText
  <2> QED BY <2>2
<1> QED BY <1>3 DEF I

LEMMA ShapeStep ==
    ASSUME NEW w \in Seq(Tokens), NEW t \in Tokens
    PROVE  Shape(Append(w, t)) = Continued(Shape(w), t)
<1> DEFINE z == Append(w, t)
           n == Len(w)
<1>1. /\ n \in Nat /\ Len(z) = n + 1 /\ z[n + 1] = t /\ z # <<>>
      /\ \A i \in 1..n : z[i] = w[i]
      /\ w = <<>> <=> n = 0
  OBVIOUS
<1> HIDE DEF z, n
<1>2. Shape(z) = Continued(Shape(w), t)
  <2>1. CASE n = 0
    BY <1>1, <2>1 DEF Shape, Continued, n
  <2>2. CASE n = 1
    <3>1. z[1] = w[1] /\ z[2] = t /\ Len(z) = 2
      BY <1>1, <2>2
    <3> QED BY <1>1, <2>2, <3>1 DEF Shape, Continued, n
  <2>3. CASE n = 2
    <3>1. z[1] = w[1] /\ z[2] = w[2] /\ z[3] = t /\ Len(z) = 3
      BY <1>1, <2>3
    <3> QED BY <1>1, <2>3, <3>1 DEF Shape, Continued, n
  <2>4. CASE n > 2
    BY <1>1, <2>4 DEF Shape, Continued, n
  <2> QED BY <1>1, <2>1, <2>2, <2>3, <2>4
<1> QED BY <1>2 DEF z

LEMMA ShapeBroken ==
    ASSUME NEW w \in Seq(Tokens), NEW v \in Seq(Tokens), Shape(w) = "broken"
    PROVE  Shape(w \o v) = "broken"
<1> DEFINE z == w \o v
           n == Len(w)
<1>1. /\ n \in Nat /\ Len(z) >= n /\ Len(z) \in Nat
      /\ \A i \in 1..n : z[i] = w[i]
      /\ w = <<>> <=> n = 0
      /\ z = <<>> <=> Len(z) = 0
  OBVIOUS
<1> HIDE DEF z, n
<1>2. n # 0
  BY <1>1 DEF Shape
<1>3. Shape(z) = "broken"
  <2>1. CASE n = 1
    <3>1. z[1] = w[1]
      BY <1>1, <2>1
    <3> QED BY <1>1, <2>1, <3>1 DEF Shape, n
  <2>2. CASE n = 2
    <3>1. z[1] = w[1] /\ z[2] = w[2]
      BY <1>1, <2>2
    <3> QED BY <1>1, <2>2, <3>1 DEF Shape, n
  <2>3. CASE n = 3
    <3>1. z[1] = w[1] /\ z[2] = w[2] /\ z[3] = w[3]
      BY <1>1, <2>3
    <3> QED BY <1>1, <2>3, <3>1 DEF Shape, n
  <2>4. CASE n > 3
    BY <1>1, <2>4 DEF Shape, n
  <2> QED BY <1>1, <1>2, <2>1, <2>2, <2>3, <2>4
<1> QED BY <1>3 DEF z

LEMMA WellFormedShape ==
    ASSUME NEW w \in Seq(Tokens)
    PROVE  Stream!WellFormed(w) <=> Shape(Stream!Without(w, {"semi"})) \in Complete
<1> DEFINE v == Stream!Without(w, {"semi"})
<1>1. v \in Seq(Tokens)
  BY WithoutType
<1>2. Stream!WellFormed(w) <=>
        \/ v = <<>>
        \/ /\ Len(v) \in {2, 3}
           /\ v[1] = "select" /\ (v[2] = "x" \/ v[2] \in Names)
           /\ Len(v) = 3 => v[3] \in Names
  BY DEF Stream!WellFormed, Stream!IsOperand
<1> HIDE DEF v
<1>3. Stream!WellFormed(w) <=> Shape(v) \in Complete
  BY <1>1, <1>2 DEF Shape, Complete
<1> QED BY <1>3 DEF v

----------------------------------------------------------------------------
(* The driver in a statement without an error                               *)

Start(top) == IF top = "bare" THEN "none" ELSE top

LEMMA KindOf ==
    ASSUME NEW t \in Tokens
    PROVE  /\ Kind(t) = "semi" <=> t = "semi"
           /\ Kind(t) = "select" <=> t = "select"
           /\ Kind(t) = "drop" <=> t = "drop"
           /\ Kind(t) = "x" <=> t = "x"
           /\ Kind(t) = "id" <=> t \in Names
BY NamesAssumption DEF Kind, Tokens, Comments, Bangs

LEMMA ShiftIs ==
    ASSUME NEW y \in LemonRecord, NEW top \in Tops, y.errcnt = -1
    PROVE  LET z == Shift(y, top) IN
           /\ z.top = top /\ z.errcnt = -1
           /\ z.list = y.list /\ z.root = y.root /\ z.cmd = y.cmd
           /\ z.completed = y.completed /\ z.error = y.error
BY DEF Shift, LemonRecord

LEMMA ReducedIs ==
    ASSUME NEW y \in LemonType, y.errcnt = -1, ~y.completed, ~y.error,
           y.top \in {"none", "bare", "select", "drop", "cmd", "aliased"}
    PROVE  LET z == ReducePending(y) IN
           /\ z \in LemonRecord /\ z.top = Start(y.top) /\ z.errcnt = -1
           /\ z.root = y.root /\ ~z.error /\ z.completed = (y.top = "bare")
           /\ z.list = (y.list \/ y.top = "bare")
           /\ y.top # "bare" => z.cmd = y.cmd
BY DEF ReducePending, Pending, Start, LemonType, LemonRecord, Tops

LEMMA FlagIs ==
    ASSUME NEW y \in LemonRecord, y.errcnt = -1
    PROVE  Flag(y) \in LemonRecord /\ Flag(y).error /\ Flag(y).cmd = y.cmd
<1> DEFINE e == y.error \/ y.errcnt < 0
           z == [y EXCEPT !.error = e]
<1>1. e \in BOOLEAN /\ e /\ 3 \in -1..3
  OBVIOUS
<1> HIDE DEF e
<1>2. z \in LemonRecord /\ z.error = e /\ z.cmd = y.cmd
  BY <1>1 DEF LemonRecord
<1>3. Flag(y) = [z EXCEPT !.errcnt = 3]
  BY DEF Flag, e
<1> HIDE DEF z
<1>4. [z EXCEPT !.errcnt = 3] \in LemonRecord
  BY <1>1, <1>2, SetErrcnt
<1>5. [z EXCEPT !.errcnt = 3].error = z.error /\ [z EXCEPT !.errcnt = 3].cmd = z.cmd
  BY <1>2 DEF LemonRecord
<1> QED BY <1>1, <1>2, <1>3, <1>4, <1>5

LEMMA RecoverFlags ==
    ASSUME NEW y \in LemonRecord, y.errcnt = -1, ~y.list
    PROVE  Recover(y).error
<1>1. CASE y.top = "select"
  <2>1. Flag(y) \in LemonRecord /\ Flag(y).error
    BY FlagIs
  <2> DEFINE f == Flag(y)
  <2> HIDE DEF f
  <2>2. [f EXCEPT !.cmd.whole = FALSE].error = f.error
    BY <2>1 DEF LemonRecord, f
  <2> DEFINE r == [f EXCEPT !.cmd.whole = FALSE]
  <2>3. r = [x \in Fields |-> r[x]]
    BY <2>1 DEF LemonRecord, Fields, f
  <2> HIDE DEF r
  <2>4. ReduceCmd(r).error = r.error
    BY <2>3 DEF ReduceCmd, Fields
  <2> QED BY <1>1, <2>1, <2>2, <2>4 DEF Recover, Repaired, f, r, ReduceCmd
<1>2. CASE y.top # "select"
  <2> DEFINE r == IF y.top \in Whole THEN ReduceCmd(y) ELSE y
  <2>1. r.list = y.list /\ r = [x \in Fields |-> r[x]]
    BY DEF ReduceCmd, LemonRecord, Fields
  <2>2. Recover(y) = ParseFailed(r)
    BY <1>2, <2>1 DEF Recover
  <2> HIDE DEF r
  <2>3. ParseFailed(r).error
    BY <2>1 DEF ParseFailed, Fields
  <2> QED BY <2>2, <2>3
<1> QED BY <1>1, <1>2

LEMMA FedWord ==
    ASSUME NEW y \in LemonType, y.errcnt = -1, ~y.completed, ~y.error,
           y.top \in {"none", "bare", "select", "drop", "cmd", "aliased"},
           NEW t \in Tokens \ (Comments \cup {"semi"}), NEW at
    PROVE  LET n == Continued(Start(y.top), t)
               z == FeedLemon(y, Kind(t), at)
           IN  /\ n # "broken" =>
                    /\ z.top = n /\ z.errcnt = -1 /\ z.root = y.root /\ ~z.error
                    /\ z.completed = (y.top = "bare")
                    /\ z.list = (y.list \/ y.top = "bare")
               /\ n = "broken" /\ ~y.list /\ y.top # "bare" => z.error
<1> DEFINE r == ReducePending(y)
           n == Continued(Start(y.top), t)
           z == FeedLemon(y, Kind(t), at)
           c == [r EXCEPT !.cmd = [at |-> at, whole |-> TRUE]]
<1>1. /\ r \in LemonRecord /\ r.top = Start(y.top) /\ r.errcnt = -1
      /\ r.root = y.root /\ ~r.error /\ r.completed = (y.top = "bare")
      /\ r.list = (y.list \/ y.top = "bare")
  BY ReducedIs
<1>2. z = IF Kind(t) \in {"select", "drop"} /\ r.top = "none"
             THEN Shift(c, Kind(t))
          ELSE IF Kind(t) \in {"x", "id"} /\ r.top = "select" THEN Shift(r, "cmd")
          ELSE IF Kind(t) = "id" /\ r.top = "cmd" THEN Shift(r, "aliased")
          ELSE Recover(r)
  BY KindOf DEF FeedLemon
<1>3. Kind(t) \in {"select", "drop"} =>
        LET q == Shift(c, Kind(t)) IN
        /\ q.top = Kind(t) /\ q.errcnt = -1 /\ q.root = y.root /\ ~q.error
        /\ q.completed = (y.top = "bare") /\ q.list = (y.list \/ y.top = "bare")
  <2> HIDE DEF r
  <2> QED BY <1>1 DEF Shift, LemonRecord
<1>4. ASSUME NEW top \in {"cmd", "aliased"}
      PROVE  LET q == Shift(r, top) IN
             /\ q.top = top /\ q.errcnt = -1 /\ q.root = y.root /\ ~q.error
             /\ q.completed = (y.top = "bare") /\ q.list = (y.list \/ y.top = "bare")
  <2>1. top \in Tops
    BY DEF Tops, Holding
  <2> HIDE DEF r
  <2> QED BY <1>1, <2>1, ShiftIs
<1>5. ~y.list /\ y.top # "bare" => Recover(r).error
  <2> HIDE DEF r
  <2> QED BY <1>1, RecoverFlags
<1> HIDE DEF r, c
<1>6. n # "broken" =>
         \/ /\ Kind(t) \in {"select", "drop"} /\ r.top = "none" /\ n = Kind(t)
         \/ /\ Kind(t) \in {"x", "id"} /\ r.top = "select" /\ n = "cmd"
         \/ /\ Kind(t) = "id" /\ r.top = "cmd" /\ n = "aliased"
  BY <1>1, KindOf DEF Continued, Kind
<1>7. n = "broken" =>
         /\ ~(Kind(t) \in {"select", "drop"} /\ r.top = "none")
         /\ ~(Kind(t) \in {"x", "id"} /\ r.top = "select")
         /\ ~(Kind(t) = "id" /\ r.top = "cmd")
  BY <1>1, KindOf DEF Continued
<1> HIDE DEF n, z
<1>8. n # "broken" =>
        /\ z.top = n /\ z.errcnt = -1 /\ z.root = y.root /\ ~z.error
        /\ z.completed = (y.top = "bare")
        /\ z.list = (y.list \/ y.top = "bare")
  <2>1. CASE Kind(t) \in {"select", "drop"} /\ r.top = "none" /\ n = Kind(t)
    BY <1>2, <1>3, <2>1
  <2>2. CASE Kind(t) \in {"x", "id"} /\ r.top = "select" /\ n = "cmd"
    BY <1>2, <1>4, <2>2
  <2>3. CASE Kind(t) = "id" /\ r.top = "cmd" /\ n = "aliased"
    BY <1>2, <1>4, <2>3
  <2> QED BY <1>6, <2>1, <2>2, <2>3
<1>9. n = "broken" /\ ~y.list /\ y.top # "bare" => z.error
  BY <1>2, <1>5, <1>7
<1> QED BY <1>8, <1>9 DEF n, z

LEMMA FedSemicolon ==
    ASSUME NEW y \in LemonType, y.errcnt = -1, ~y.completed, ~y.error,
           y.top \in {"none", "bare", "select", "drop", "cmd", "aliased"}, NEW at
    PROVE  LET z == FeedLemon(y, "semi", at) IN
           /\ y.top \in {"none", "bare"} =>
                /\ z.top = "bare" /\ z.errcnt = -1 /\ z.root = y.root
                /\ ~z.error /\ z.completed = (y.top = "bare")
           /\ y.top \in {"cmd", "aliased"} =>
                z.completed /\ ~z.error /\ z.root = y.cmd /\ z.root # NoRoot
           /\ y.top \in {"select", "drop"} /\ ~y.list => z.error
<1> DEFINE r == ReducePending(y)
           z == FeedLemon(y, "semi", at)
<1>1. /\ r \in LemonRecord /\ r.top = Start(y.top) /\ r.errcnt = -1
      /\ r.root = y.root /\ ~r.error /\ r.completed = (y.top = "bare")
      /\ r.list = (y.list \/ y.top = "bare")
      /\ y.top # "bare" => r.cmd = y.cmd
  BY ReducedIs
<1>2. z = OnSemi(r)
  BY DEF FeedLemon
<1> HIDE DEF r, z
<1>3. CASE y.top \in {"none", "bare"}
  <2>1. z = Shift(r, "bare") /\ "bare" \in Tops
    BY <1>1, <1>2, <1>3 DEF OnSemi, Start, Tops
  <2>2. /\ z.top = "bare" /\ z.errcnt = -1 /\ z.root = r.root
        /\ z.completed = r.completed /\ z.error = r.error
    BY <1>1, <2>1, ShiftIs
  <2> QED BY <1>1, <1>3, <2>2 DEF z
<1>4. CASE y.top \in {"cmd", "aliased"}
  <2> DEFINE q == ReduceCmd(r)
  <2>1. z = Shift(q, "cmdsemi") /\ "cmdsemi" \in Tops
    BY <1>1, <1>2, <1>4 DEF OnSemi, Start, Tops, Holding, Whole
  <2>2. q \in LemonRecord /\ q.errcnt = -1 /\ q.root = r.cmd /\ q.completed /\ ~q.error
    BY <1>1 DEF ReduceCmd, LemonRecord
  <2> HIDE DEF q
  <2>3. z.root = q.root /\ z.completed = q.completed /\ z.error = q.error
    BY <2>1, <2>2, ShiftIs
  <2>4. y.cmd # NoRoot
    BY <1>4, NoRootAssumption DEF LemonType, Holding, Cmd
  <2> QED BY <1>1, <1>4, <2>2, <2>3, <2>4 DEF z
<1>5. CASE y.top \in {"select", "drop"} /\ ~y.list
  <2>1. r.top = y.top /\ ~r.list
    BY <1>1, <1>5 DEF Start
  <2>2. CASE r.top = "select"
    <3> DEFINE f == Flag(r)
    <3>1. f \in LemonRecord /\ f.error /\ f.cmd = r.cmd
      BY <1>1, FlagIs
    <3> DEFINE g == [f EXCEPT !.cmd.whole = FALSE]
    <3>2. g.error = f.error /\ g = [x \in Fields |-> g[x]]
      <4> HIDE DEF f
      <4> QED BY <3>1 DEF LemonRecord, Fields
    <3> DEFINE h == [g EXCEPT !.root = g.cmd, !.completed = TRUE]
    <3>3. h.error = g.error /\ h = [x \in Fields |-> h[x]]
      <4> HIDE DEF g
      <4> QED BY <3>2 DEF Fields
    <3>4. z = Shift(h, "cmdsemi")
      BY <1>2, <2>2 DEF OnSemi, Whole, Repaired, ReduceCmd
    <3> HIDE DEF f, g, h
    <3>5. Shift(h, "cmdsemi").error = h.error
      BY <3>3 DEF Shift, Fields
    <3> QED BY <1>5, <3>1, <3>2, <3>3, <3>4, <3>5 DEF z
  <2>3. CASE r.top = "drop"
    <3>1. z = ParseFailed(r)
      BY <1>2, <2>1, <2>3 DEF OnSemi, Whole
    <3>2. ParseFailed(r).error
      BY <1>1 DEF ParseFailed, LemonRecord
    <3> QED BY <1>5, <3>1, <3>2 DEF z
  <2> QED BY <1>5, <2>1, <2>2, <2>3
<1>6. /\ y.top \in {"none", "bare"} =>
           /\ z.top = "bare" /\ z.errcnt = -1 /\ z.root = y.root
           /\ ~z.error /\ z.completed = (y.top = "bare")
      /\ y.top \in {"cmd", "aliased"} =>
           z.completed /\ ~z.error /\ z.root = y.cmd /\ z.root # NoRoot
      /\ y.top \in {"select", "drop"} /\ ~y.list => z.error
  BY <1>3, <1>4, <1>5 DEF z
<1> QED BY <1>6 DEF z

----------------------------------------------------------------------------
(* The statements of a text                                                 *)

LEMMA NextSemi ==
    ASSUME source \in Seq(Tokens), NEW i \in 1..Len(source)
    PROVE  /\ Stream!SemiAfter(i) \in i..Len(source)
           /\ NoSemi(source, i, Stream!SemiAfter(i) - 1)
           /\ source[Stream!SemiAfter(i)] = "semi"
                \/ Stream!SemiAfter(i) = Len(source)
<1> DEFINE T == {j \in i..Len(source) : source[j] = "semi" \/ j = Len(source)}
<1>1. PICK j \in T : \A m \in T : j <= m
  <2>1. Len(source) \in T /\ T \in SUBSET Nat
    OBVIOUS
  <2> HIDE DEF T
  <2> QED BY <2>1, LeastNat
<1>2. \A k \in i..(j - 1) : source[k] # "semi"
  <2>1. ASSUME NEW k \in i..(j - 1), source[k] = "semi"
        PROVE  FALSE
    <3>1. k \in T /\ k < j
      BY <1>1, <2>1
    <3> QED BY <1>1, <3>1
  <2> QED BY <2>1
<1>3. j \in i..Len(source) /\ (source[j] = "semi" \/ j = Len(source))
  BY <1>1
<1> QED BY <1>2, <1>3 DEF Stream!SemiAfter, NoSemi

LEMMA SemiIs ==
    ASSUME source \in Seq(Tokens), NEW i \in 1..Len(source),
           NEW e \in i..Len(source), NoSemi(source, i, e - 1),
           source[e] = "semi" \/ e = Len(source)
    PROVE  Stream!SemiAfter(i) = e
<1> DEFINE d == Stream!SemiAfter(i)
<1>1. /\ d \in i..Len(source) /\ NoSemi(source, i, d - 1)
      /\ source[d] = "semi" \/ d = Len(source)
  BY NextSemi
<1> HIDE DEF d
<1>2. ~(d < e)
  <2> SUFFICES ASSUME d < e PROVE FALSE
    OBVIOUS
  <2>1. d \in i..(e - 1) /\ d # Len(source)
    BY <1>1
  <2> QED BY <1>1, <2>1 DEF NoSemi
<1>3. ~(e < d)
  <2> SUFFICES ASSUME e < d PROVE FALSE
    OBVIOUS
  <2>1. e \in i..(d - 1) /\ e # Len(source)
    BY <1>1
  <2> QED BY <1>1, <2>1 DEF NoSemi
<1> QED BY <1>1, <1>2, <1>3 DEF d

(* The statement that holds i reaches at least as far as the text has no    *)
(* semicolon.                                                               *)
LEMMA SemiBehind ==
    ASSUME source \in Seq(Tokens), NEW i \in 1..Len(source),
           NEW e \in i..Len(source), NoSemi(source, i, e - 1)
    PROVE  e <= Stream!SemiAfter(i)
<1> DEFINE d == Stream!SemiAfter(i)
<1>1. /\ d \in i..Len(source)
      /\ source[d] = "semi" \/ d = Len(source)
  BY NextSemi
<1> HIDE DEF d
<1>2. ~(d < e)
  <2> SUFFICES ASSUME d < e PROVE FALSE
    OBVIOUS
  <2>1. d \in i..(e - 1) /\ d # Len(source)
    BY <1>1
  <2> QED BY <1>1, <2>1 DEF NoSemi
<1> QED BY <1>1, <1>2 DEF d

LEMMA EndRange ==
    ASSUME source \in Seq(Tokens), NEW i \in 1..Len(source)
    PROVE  /\ Stream!EndOf(i) = AfterNotes(Stream!SemiAfter(i))
           /\ Stream!EndOf(i) \in Stream!SemiAfter(i)..Len(source)
<1>1. Stream!SemiAfter(i) \in 1..Len(source)
  BY NextSemi
<1>2. Stream!EndOf(i) = AfterNotes(Stream!SemiAfter(i))
  BY DEF Stream!EndOf, AfterNotes
<1> QED BY <1>1, <1>2, AfterNotesRange

LEMMA NotesFollow ==
    ASSUME source \in Seq(Tokens), NEW i \in 1..Len(source)
    PROVE  /\ AfterNotes(i) \in i..Len(source)
           /\ \A k \in (i + 1)..AfterNotes(i) : source[k] = "note"
           /\ AfterNotes(i) = Len(source) \/ source[AfterNotes(i) + 1] # "note"
<1> DEFINE T == {j \in i..Len(source) :
                    j = Len(source) \/ source[j + 1] # "note"}
<1>1. PICK j \in T : \A m \in T : j <= m
  <2>1. Len(source) \in T /\ T \in SUBSET Nat
    OBVIOUS
  <2> HIDE DEF T
  <2> QED BY <2>1, LeastNat
<1>2. \A k \in (i + 1)..j : source[k] = "note"
  <2>1. ASSUME NEW k \in (i + 1)..j, source[k] # "note"
        PROVE  FALSE
    <3>1. k - 1 \in i..Len(source) /\ (k - 1) + 1 = k /\ k - 1 < j
      BY <1>1
    <3>2. k - 1 \in T
      BY <2>1, <3>1
    <3> QED BY <1>1, <3>1, <3>2
  <2> QED BY <2>1
<1>3. j \in i..Len(source) /\ (j = Len(source) \/ source[j + 1] # "note")
  BY <1>1
<1> QED BY <1>2, <1>3 DEF AfterNotes

(* Comments add nothing to the words.                                       *)
LEMMA CommentsAddNothing ==
    ASSUME NEW s \in Seq(Tokens), NEW a \in Nat \ {0}, NEW b \in Nat, a <= b + 1,
           NEW c \in b..Len(s), \A k \in (b + 1)..c : s[k] \in Comments
    PROVE  /\ Text(s, a, c) = Text(s, a, b) /\ Places(s, a, c) = Places(s, a, b)
           /\ Spoken(s, a, c) = Spoken(s, a, b)
<1> DEFINE P(n) == /\ Text(s, a, n) = Text(s, a, b)
                   /\ Places(s, a, n) = Places(s, a, b)
                   /\ Spoken(s, a, n) = Spoken(s, a, b)
           I == {n \in Nat : P(n)}
<1>1. (b + 1) - 1 \in I
  OBVIOUS
<1>2. ASSUME NEW n \in Nat, (b + 1) - 1 <= n, n + 1 <= c, n \in I
      PROVE  n + 1 \in I
  <2>1. a <= n + 1 /\ n + 1 <= Len(s) /\ s[n + 1] \in Comments
    BY <1>2
  <2>2. /\ Text(s, a, n + 1) = Text(s, a, n) /\ Places(s, a, n + 1) = Places(s, a, n)
        /\ Spoken(s, a, n + 1) = Spoken(s, a, n)
    BY <2>1, TextStep, PlacesStep, SpokenStep
  <2> QED BY <1>2, <2>2
<1> HIDE DEF I
<1>3. \A n \in ((b + 1) - 1)..c : n \in I
  <2>1. b + 1 \in Nat \ {0} /\ c \in Nat
    OBVIOUS
  <2> QED BY <1>1, <1>2, <2>1, OverText
<1>4. c \in ((b + 1) - 1)..c
  OBVIOUS
<1> QED BY <1>3, <1>4 DEF I

----------------------------------------------------------------------------
(* Texts without calls                                                      *)

Unbanged == Tokens \ Bangs

LEMMA NoCall ==
    ASSUME NEW s \in Seq(Unbanged), NEW i \in Nat \ {0}
    PROVE  /\ Stream!CallTo(s, i) = 0 /\ Stream!MacroTo(s, i) = 0
           /\ ~IsCall(s, i)
<1>1. CASE i >= Len(s)
  BY <1>1 DEF Stream!CallTo, Stream!MacroTo, IsCall
<1>2. CASE ~(i >= Len(s))
  <2>1. s[i + 1] \in Unbanged
    BY <1>2
  <2> QED BY <2>1 DEF Stream!CallTo, Stream!MacroTo, IsCall, Unbanged, Bangs
<1> QED BY <1>1, <1>2

LEMMA SubSeqOne ==
    ASSUME NEW T, NEW s \in Seq(T), NEW i \in Nat \ {0}, i <= Len(s)
    PROVE  SubSeq(s, i, i) = <<s[i]>>
<1> DEFINE x == SubSeq(s, i, i)
           y == <<s[i]>>
<1>1. x \in Seq(T) /\ Len(x) = 1 /\ x[1] = s[i]
  OBVIOUS
<1>2. y \in Seq(T) /\ Len(y) = 1 /\ y[1] = s[i]
  OBVIOUS
<1> HIDE DEF x, y
<1>3. x = y
  BY <1>1, <1>2, SameSequence
<1> QED BY <1>3 DEF x, y

(* A function that reads a text from the end, one token at a time.          *)
LEMMA ReadFromTheEnd ==
    ASSUME NEW T, NEW s \in Seq(T), NEW f,
           f = [i \in 1..(Len(s) + 1) |->
                   IF i > Len(s) THEN <<>> ELSE <<s[i]>> \o f[i + 1]]
    PROVE  f[1] = s
<1> DEFINE n == Len(s)
           R(m) == m <= n => f[(n + 1) - m] = SubSeq(s, (n + 1) - m, n)
           I == {m \in Nat : R(m)}
<1>0. n \in Nat
  OBVIOUS
<1>1. \A i \in 1..(n + 1) : f[i] = IF i > n THEN <<>> ELSE <<s[i]>> \o f[i + 1]
  OBVIOUS
<1>2. R(0)
  <2>1. (n + 1) - 0 = n + 1 /\ n + 1 \in 1..(n + 1) /\ n + 1 > n
    BY <1>0
  <2>2. SubSeq(s, n + 1, n) = <<>>
    BY <1>0, SubSeqNone
  <2> HIDE DEF n
  <2>3. f[n + 1] = <<>>
    BY <1>1, <2>1
  <2> QED BY <2>1, <2>2, <2>3
<1>3. ASSUME NEW m \in Nat, R(m)
      PROVE  R(m + 1)
  <2>1. SUFFICES ASSUME m + 1 <= n
                 PROVE  f[(n + 1) - (m + 1)] = SubSeq(s, (n + 1) - (m + 1), n)
    BY DEF R
  <2> DEFINE i == n - m
  <2>2. /\ i \in 1..n /\ i + 1 = (n + 1) - m /\ i = (n + 1) - (m + 1)
        /\ i \in 1..(n + 1) /\ ~(i > n) /\ m <= n
    BY <1>0, <2>1
  <2>3. f[i + 1] = SubSeq(s, i + 1, n)
    <3>1. f[(n + 1) - m] = SubSeq(s, (n + 1) - m, n)
      BY <1>3, <2>2
    <3> HIDE DEF i, n
    <3> QED BY <3>1, <2>2
  <2>4. SubSeq(s, i, n) = <<s[i]>> \o SubSeq(s, i + 1, n)
    <3>1. i \in Nat \ {0} /\ i <= n
      BY <1>0, <2>2
    <3> HIDE DEF i
    <3>2. /\ SubSeq(s, i, n) = SubSeq(s, i, i) \o SubSeq(s, i + 1, n)
      BY <1>0, <3>1, SubSeqSplits
    <3>3. SubSeq(s, i, i) = <<s[i]>>
      BY <3>1, SubSeqOne
    <3> QED BY <3>2, <3>3
  <2> HIDE DEF i, n
  <2>5. f[i] = <<s[i]>> \o f[i + 1]
    BY <1>1, <2>2
  <2> QED BY <2>2, <2>3, <2>4, <2>5
<1> HIDE DEF R
<1>4. n \in I
  <2>1. 0 \in I /\ \A m \in Nat : m \in I => m + 1 \in I
    BY <1>2, <1>3
  <2> HIDE DEF I
  <2> QED BY <1>0, <2>1, InductionOverNat
<1>5. (n + 1) - n = 1 /\ n <= n
  BY <1>0
<1>6. SubSeq(s, 1, n) = s
  OBVIOUS
<1>7. n <= n => f[(n + 1) - n] = SubSeq(s, (n + 1) - n, n)
  BY <1>4 DEF R
<1> HIDE DEF n
<1> QED BY <1>5, <1>6, <1>7

LEMMA ReaderExists ==
    ASSUME NEW T, NEW s \in Seq(T)
    PROVE  \E f : f = [i \in 1..(Len(s) + 1) |->
                          IF i > Len(s) THEN <<>> ELSE <<s[i]>> \o f[i + 1]]
<1> DEFINE f == [i \in 1..(Len(s) + 1) |-> SubSeq(s, i, Len(s))]
<1>1. ASSUME NEW i \in 1..(Len(s) + 1)
      PROVE  f[i] = IF i > Len(s) THEN <<>> ELSE <<s[i]>> \o f[i + 1]
  <2>1. CASE i > Len(s)
    <3>1. i \in Nat /\ Len(s) \in Nat
      OBVIOUS
    <3>2. SubSeq(s, i, Len(s)) = <<>>
      BY <2>1, <3>1, SubSeqNone
    <3> QED BY <2>1, <3>2
  <2>2. CASE ~(i > Len(s))
    <3>1. i \in Nat \ {0} /\ i <= Len(s) /\ Len(s) \in Nat /\ i + 1 \in 1..(Len(s) + 1)
      BY <2>2
    <3>2. /\ SubSeq(s, i, Len(s)) = SubSeq(s, i, i) \o SubSeq(s, i + 1, Len(s))
      BY <3>1, SubSeqSplits
    <3>3. SubSeq(s, i, i) = <<s[i]>>
      BY <3>1, SubSeqOne
    <3> QED BY <2>2, <3>1, <3>2, <3>3
  <2> QED BY <2>1, <2>2
<1>2. f = [i \in 1..(Len(s) + 1) |-> f[i]]
  OBVIOUS
<1> HIDE DEF f
<1>3. f = [i \in 1..(Len(s) + 1) |->
              IF i > Len(s) THEN <<>> ELSE <<s[i]>> \o f[i + 1]]
  BY <1>1, <1>2
<1> QED BY <1>3

(* A text without calls is its own expansion.                               *)
LEMMA NothingUnfolds ==
    ASSUME NEW s \in Seq(Unbanged)
    PROVE  Stream!Unfolded(s) = s
<1> DEFINE E(f) == f = [i \in 1..(Len(s) + 1) |->
                          IF i > Len(s) THEN <<>>
                          ELSE IF Stream!MacroTo(s, i) = 0 THEN <<s[i]>> \o f[i + 1]
                          ELSE Stream!Filled(Body[s[i]],
                                     SubSeq(s, i + 2, Stream!MacroTo(s, i) - 1))
                               \o f[Stream!MacroTo(s, i) + 1]]
           R(f) == f = [i \in 1..(Len(s) + 1) |->
                          IF i > Len(s) THEN <<>> ELSE <<s[i]>> \o f[i + 1]]
           rest == CHOOSE f : E(f)
<1>1. \A i \in 1..(Len(s) + 1) : Stream!MacroTo(s, i) = 0
  BY NoCall
<1>2. ASSUME NEW f
      PROVE  E(f) <=> R(f)
  <2>1. [i \in 1..(Len(s) + 1) |->
            IF i > Len(s) THEN <<>>
            ELSE IF Stream!MacroTo(s, i) = 0 THEN <<s[i]>> \o f[i + 1]
            ELSE Stream!Filled(Body[s[i]],
                       SubSeq(s, i + 2, Stream!MacroTo(s, i) - 1))
                 \o f[Stream!MacroTo(s, i) + 1]]
        = [i \in 1..(Len(s) + 1) |->
              IF i > Len(s) THEN <<>> ELSE <<s[i]>> \o f[i + 1]]
    BY <1>1
  <2> QED BY <2>1
<1>3. \E f : R(f)
  BY ReaderExists
<1>4. Stream!Unfolded(s) = rest[1]
  BY DEF Stream!Unfolded
<1> HIDE DEF E, R
<1>5. R(rest)
  BY <1>2, <1>3
<1> HIDE DEF rest
<1>6. rest[1] = s
  BY <1>5, ReadFromTheEnd DEF R
<1> QED BY <1>4, <1>6

LEMMA NothingFolds ==
    ASSUME NEW s \in Seq(Unbanged)
    PROVE  Stream!Folded(s) = s
<1> DEFINE E(f) == f = [i \in 1..(Len(s) + 1) |->
                          IF i > Len(s) THEN <<>>
                          ELSE <<s[i]>> \o f[IF Stream!CallTo(s, i) = 0 THEN i + 1
                                             ELSE Stream!CallTo(s, i) + 1]]
           R(f) == f = [i \in 1..(Len(s) + 1) |->
                          IF i > Len(s) THEN <<>> ELSE <<s[i]>> \o f[i + 1]]
           rest == CHOOSE f : E(f)
<1>1. \A i \in 1..(Len(s) + 1) : Stream!CallTo(s, i) = 0
  BY NoCall
<1>2. ASSUME NEW f
      PROVE  E(f) <=> R(f)
  <2>1. [i \in 1..(Len(s) + 1) |->
            IF i > Len(s) THEN <<>>
            ELSE <<s[i]>> \o f[IF Stream!CallTo(s, i) = 0 THEN i + 1
                               ELSE Stream!CallTo(s, i) + 1]]
        = [i \in 1..(Len(s) + 1) |->
              IF i > Len(s) THEN <<>> ELSE <<s[i]>> \o f[i + 1]]
    BY <1>1
  <2> QED BY <2>1
<1>3. \E f : R(f)
  BY ReaderExists
<1>4. Stream!Folded(s) = rest[1]
  BY DEF Stream!Folded
<1> HIDE DEF E, R
<1>5. R(rest)
  BY <1>2, <1>3
<1> HIDE DEF rest
<1>6. rest[1] = s
  BY <1>5, ReadFromTheEnd DEF R
<1> QED BY <1>4, <1>6

LEMMA NothingUnfoldsAtAnyDepth ==
    ASSUME NEW s \in Seq(Unbanged),
           NEW level, level = [k \in 0..(MaxDepth - 1) |->
                                 IF k = 0 THEN s ELSE Stream!Unfolded(level[k - 1])]
    PROVE  level[MaxDepth - 1] = s
<1> DEFINE I == {k \in Nat : k <= MaxDepth - 1 => level[k] = s}
<1>1. MaxDepth \in Nat \ {0}
  BY BodyAssumption
<1>2. 0 \in I
  <2>1. 0 \in 0..(MaxDepth - 1)
    BY <1>1
  <2> QED BY <2>1
<1>3. ASSUME NEW k \in Nat, k \in I
      PROVE  k + 1 \in I
  <2>1. SUFFICES ASSUME k + 1 <= MaxDepth - 1
                 PROVE  level[k + 1] = s
    OBVIOUS
  <2>2. k + 1 \in 0..(MaxDepth - 1) /\ k + 1 # 0 /\ (k + 1) - 1 = k /\ k <= MaxDepth - 1
    BY <1>1, <2>1
  <2>3. level[k + 1] = Stream!Unfolded(level[k])
    BY <2>2
  <2>4. level[k] = s
    BY <1>3, <2>2
  <2> QED BY <2>3, <2>4, NothingUnfolds
<1> HIDE DEF I
<1>4. MaxDepth - 1 \in I
  <2>1. MaxDepth - 1 \in Nat
    BY <1>1
  <2> QED BY <1>2, <1>3, <2>1, InductionOverNat
<1> QED BY <1>4 DEF I

LEMMA DepthsExist ==
    ASSUME NEW s \in Seq(Unbanged)
    PROVE  \E level : level = [k \in 0..(MaxDepth - 1) |->
                                 IF k = 0 THEN s ELSE Stream!Unfolded(level[k - 1])]
<1> DEFINE f == [k \in 0..(MaxDepth - 1) |-> s]
<1>1. MaxDepth \in Nat \ {0}
  BY BodyAssumption
<1>2. ASSUME NEW k \in 0..(MaxDepth - 1)
      PROVE  f[k] = IF k = 0 THEN s ELSE Stream!Unfolded(f[k - 1])
  <2>1. k # 0 => k - 1 \in 0..(MaxDepth - 1)
    BY <1>1
  <2>2. k # 0 => f[k - 1] = s
    BY <2>1
  <2> QED BY <2>2, NothingUnfolds
<1>3. f = [k \in 0..(MaxDepth - 1) |-> f[k]]
  OBVIOUS
<1> HIDE DEF f
<1>4. f = [k \in 0..(MaxDepth - 1) |->
              IF k = 0 THEN s ELSE Stream!Unfolded(f[k - 1])]
  BY <1>2, <1>3
<1> QED BY <1>4

LEMMA WordsAreText ==
    ASSUME source \in Seq(Unbanged), NEW from \in Nat \ {0}, NEW to \in Nat,
           to <= Len(source)
    PROVE  Stream!Words(from, to) = Text(source, from, to)
<1> DEFINE w == Text(source, from, to)
           E(f) == f = [k \in 0..(MaxDepth - 1) |->
                          IF k = 0 THEN w ELSE Stream!Unfolded(f[k - 1])]
           level == CHOOSE f : E(f)
<1>1. w \in Seq(Unbanged)
  <2>1. SubSeq(source, from, to) \in Seq(Unbanged)
    OBVIOUS
  <2> QED BY <2>1, WithoutType DEF Text
<1>2. Stream!Words(from, to) =
        IF lookup THEN level[MaxDepth - 1] ELSE Stream!Folded(level[0])
  BY DEF Stream!Words, Text, Stream!Comments, Comments
<1> HIDE DEF w
<1>3. E(level)
  <2>1. \E f : E(f)
    BY <1>1, DepthsExist
  <2> HIDE DEF E
  <2> QED BY <2>1
<1> HIDE DEF level
<1>4. level[MaxDepth - 1] = w
  BY <1>1, <1>3, NothingUnfoldsAtAnyDepth
<1>5. level[0] = w
  <2>1. 0 \in 0..(MaxDepth - 1)
    BY BodyAssumption
  <2> QED BY <1>3, <2>1
<1>6. Stream!Folded(w) = w
  BY <1>1, NothingFolds
<1> QED BY <1>2, <1>4, <1>5, <1>6 DEF w

LEMMA NumbersFrom ==
    ASSUME NEW a \in Nat \ {0}, NEW b \in Nat, a <= b + 1
    PROVE  LET q == [k \in 1..(b - a + 1) |-> a + k - 1] IN
           /\ q \in Seq(Nat) /\ Len(q) = b - a + 1
           /\ \A k \in 1..Len(q) : q[k] \in a..b
<1> DEFINE q == [k \in 1..(b - a + 1) |-> a + k - 1]
<1>1. q \in [1..(b - a + 1) -> a..b] /\ b - a + 1 \in Nat
  OBVIOUS
<1> HIDE DEF q
<1>2. q \in Seq(a..b) /\ Len(q) = b - a + 1
  BY <1>1, FunctionIsSequence
<1> QED BY <1>2 DEF q

LEMMA TokensArePlaces ==
    ASSUME source \in Seq(Unbanged), NEW from \in Nat \ {0}, NEW to \in Nat,
           from <= to + 1, to <= Len(source)
    PROVE  Stream!TokensOf(from, to) = Places(source, from, to)
<1> DEFINE q == [k \in 1..(to - from + 1) |-> from + k - 1]
           S == {p \in from..to : source[p] \in Stream!Comments \/ Stream!InCall(p)}
           R == {p \in 1..Len(source) : source[p] \in Comments}
<1>1. ASSUME NEW p \in from..to
      PROVE  p \in S <=> p \in R
  <2>1. ~Stream!InCall(p)
    <3>1. ASSUME NEW i \in 1..p
          PROVE  /\ ~(p <= Stream!MacroTo(source, i))
                 /\ ~(p <= Stream!CallTo(source, i))
      <4>1. Stream!CallTo(source, i) = 0 /\ Stream!MacroTo(source, i) = 0
        BY NoCall
      <4> QED BY <4>1
    <3> QED BY <3>1 DEF Stream!InCall
  <2>2. p \in 1..Len(source)
    OBVIOUS
  <2> QED BY <2>1, <2>2 DEF Stream!Comments, Comments
<1>2. q \in Seq(Nat) /\ \A k \in 1..Len(q) : q[k] \in from..to
  BY NumbersFrom
<1>3. /\ Stream!TokensOf(from, to) = Stream!Without(q, S)
      /\ Places(source, from, to) = Stream!Without(q, R)
  BY DEF Stream!TokensOf, Places
<1> HIDE DEF q, S, R
<1>4. Stream!Without(q, S) = Stream!Without(q, R)
  BY <1>1, <1>2, WithoutSame
<1> QED BY <1>3, <1>4

(* The same in a session that is fed, for any text.                         *)
LEMMA FedTokensArePlaces ==
    ASSUME source \in Seq(Tokens), NEW n \in Nat, NEW to \in Nat,
           n <= to, to <= Len(source)
    PROVE  Stream!Without([k \in 1..(to - n) |-> n + k],
                          {p \in (n + 1)..to : source[p] \in Stream!Comments})
             = Places(source, n + 1, to)
<1> DEFINE q == [k \in 1..(to - (n + 1) + 1) |-> (n + 1) + k - 1]
           p0 == [k \in 1..(to - n) |-> n + k]
           S == {p \in (n + 1)..to : source[p] \in Stream!Comments}
           R == {p \in 1..Len(source) : source[p] \in Comments}
<1>1. \A p \in (n + 1)..to : p \in S <=> p \in R
  BY DEF Stream!Comments, Comments
<1>2. n + 1 \in Nat \ {0} /\ n + 1 <= to + 1
  OBVIOUS
<1>3. q \in Seq(Nat) /\ \A k \in 1..Len(q) : q[k] \in (n + 1)..to
  BY <1>2, NumbersFrom
<1>4. p0 = q
  <2>1. to - (n + 1) + 1 = to - n /\ \A k \in 1..(to - n) : (n + 1) + k - 1 = n + k
    OBVIOUS
  <2> QED BY <2>1
<1>5. Places(source, n + 1, to) = Stream!Without(q, R)
  BY DEF Places
<1> HIDE DEF q, S, R, p0
<1>6. Stream!Without(q, S) = Stream!Without(q, R)
  BY <1>1, <1>3, WithoutSame
<1>7. Stream!Without(p0, S) = Places(source, n + 1, to)
  BY <1>4, <1>5, <1>6
<1> QED BY <1>7 DEF p0, S

----------------------------------------------------------------------------
(* What is handed out                                                       *)

Views == [k \in 1..Len(delivered) |-> View(delivered[k])]

LEMMA ViewsAre ==
    ASSUME delivered \in Seq(Outcome)
    PROVE  Stream!Taken = Taken /\ Taken \in Nat
<1> DEFINE V == {View(x) : x \in Outcome}
           n == Len(delivered)
<1>0. n \in Nat /\ Views \in [1..n -> V]
  BY DEF Views
<1>1. /\ Len(Views) = n /\ n \in Nat
      /\ Views = <<>> <=> delivered = <<>>
      /\ \A k \in 1..n : Views[k] = View(delivered[k])
  <2>1. Views \in Seq(V) /\ Len(Views) = n
    <3> HIDE DEF V, n
    <3> QED BY <1>0, FunctionIsSequence
  <2>2. (Views = <<>> <=> n = 0) /\ (delivered = <<>> <=> n = 0)
    <3> HIDE DEF V
    <3> QED BY <2>1
  <2> QED BY <1>0, <2>1, <2>2 DEF Views
<1>2. delivered # <<>> => Len(delivered) \in 1..Len(delivered)
  OBVIOUS
<1>3. delivered # <<>> => delivered[Len(delivered)] \in Outcome
  BY <1>2
<1>4. \A r \in Outcome : View(r).to = r.to /\ r.to \in Nat
  BY DEF View, Outcome
<1>5. Stream!Taken = IF Views = <<>> THEN 0 ELSE Views[Len(Views)].to
  BY DEF Stream!Taken, Views
<1> HIDE DEF Views
<1> QED BY <1>1, <1>2, <1>3, <1>4, <1>5 DEF Taken

LEMMA ViewsGrow ==
    ASSUME delivered \in Seq(Outcome), NEW r \in Outcome,
           delivered' = Append(delivered, r)
    PROVE  Views' = Append(Views, View(r)) /\ Taken' = r.to
<1> DEFINE V == {View(x) : x \in Outcome}
           n == Len(delivered)
<1>1. /\ n \in Nat /\ Len(delivered') = n + 1 /\ delivered'[n + 1] = r
      /\ \A i \in 1..n : delivered'[i] = delivered[i] /\ delivered[i] \in Outcome
      /\ \A i \in 1..(n + 1) : i \in 1..n \/ i = n + 1
      /\ delivered' # <<>>
  BY AppendElements
<1>2. Taken' = r.to
  BY <1>1 DEF Taken
<1>3. Views \in [1..n -> V] /\ Views' \in [1..(n + 1) -> V] /\ View(r) \in V
  BY <1>1 DEF Views
<1>4. /\ \A i \in 1..n : Views'[i] = Views[i]
      /\ Views'[n + 1] = View(r)
  <2>1. n + 1 \in 1..(n + 1) /\ \A i \in 1..n : i \in 1..(n + 1)
    BY <1>1
  <2> QED BY <1>1, <2>1 DEF Views
<1> HIDE DEF V, n
<1>5. /\ Views \in Seq(V) /\ Len(Views) = n
      /\ Views' \in Seq(V) /\ Len(Views') = n + 1
  BY <1>1, <1>3, FunctionIsSequence
<1> DEFINE v == View(r)
           x == Views
           q == Append(x, v)
<1>6. /\ q \in Seq(V) /\ Len(q) = n + 1 /\ q[n + 1] = v
      /\ \A i \in 1..n : q[i] = x[i]
  <2>1. v \in V /\ x \in Seq(V) /\ Len(x) = n
    BY <1>3, <1>5
  <2> HIDE DEF v, x
  <2> QED BY <2>1, AppendElements
<1>7. \A i \in 1..(n + 1) : Views'[i] = q[i]
  <2> HIDE DEF q
  <2> QED BY <1>1, <1>4, <1>6
<1> HIDE DEF q
<1>8. Views' = q
  BY <1>5, <1>6, <1>7, SameSequence
<1> QED BY <1>2, <1>8 DEF q

(* A text without calls: what is promised of a cursor.                      *)
LEMMA IsDelivered ==
    ASSUME TypeOK, source \in Seq(Unbanged), session = "cursor", ~finished,
           NEW e \in (Taken + 1)..Len(source),
           NoSemi(source, Taken + 1, e - 1),
           source[e] = "semi" \/ e = Len(source),
           NEW r \in Outcome, delivered' = Append(delivered, r),
           r.from = Taken + 1, r.to = AfterNotes(e),
           IF Shape(Spoken(source, Taken + 1, e)) \in Complete
           THEN /\ r.status = "OK"
                /\ r.root # NoRoot <=> Spoken(source, Taken + 1, e) # <<>>
                /\ r.tokens = Places(source, Taken + 1, e)
           ELSE r.status = "ERROR",
           finished' = (source[e] # "semi"),
           UNCHANGED <<lookup, session, source>>
    PROVE  Stream!DeliverStatement
<1> DEFINE from == Taken + 1
           to == AfterNotes(e)
<1>1. /\ Stream!Taken = Taken /\ Taken \in Nat /\ from \in 1..Len(source)
      /\ e \in from..Len(source) /\ source \in Seq(Tokens) /\ Taken < Len(source)
  BY ViewsAre DEF TypeOK
<1>2. /\ to \in e..Len(source) /\ \A k \in (e + 1)..to : source[k] \in Comments
      /\ e = Len(source) => to = Len(source)
  BY <1>1, NotesFollow, SMTT(30) DEF Comments
<1>3. Stream!EndOf(from) = to
  BY <1>1, SemiIs, EndRange
<1>4. /\ Text(source, from, to) = Text(source, from, e)
      /\ Places(source, from, to) = Places(source, from, e)
      /\ Spoken(source, from, to) = Spoken(source, from, e)
  <2>1. /\ from \in Nat \ {0} /\ e \in Nat /\ from <= e + 1
        /\ to \in e..Len(source) /\ source \in Seq(Tokens)
    BY <1>1, <1>2
  <2>2. \A k \in (e + 1)..to : source[k] \in Comments
    BY <1>2
  <2> HIDE DEF from, to
  <2> QED BY ONLY <2>1, <2>2, CommentsAddNothing
<1>5. /\ Stream!Words(from, to) = Text(source, from, e)
      /\ Stream!TokensOf(from, to) = Places(source, from, e)
  <2>1. from \in Nat \ {0} /\ to \in Nat /\ to <= Len(source) /\ from <= to + 1
    BY <1>1, <1>2
  <2> HIDE DEF from, to
  <2> QED BY <1>4, <2>1, WordsAreText, TokensArePlaces
<1> DEFINE words == Text(source, from, e)
           spoken == Spoken(source, from, e)
<1>6. words \in Seq(Tokens) /\ spoken = Stream!Without(words, {"semi"})
  <2>1. from \in Nat \ {0} /\ e \in Nat /\ e <= Len(source)
    BY <1>1
  <2> QED BY <1>1, <2>1, TextType DEF Spoken
<1>7. /\ Stream!WellFormed(words) <=> Shape(spoken) \in Complete
      /\ words # <<>> \/ \E k \in from..to : source[k] \in Stream!Comments
      /\ Stream!Rooted(words) <=> spoken # <<>>
  <2>1. from \in Nat \ {0} /\ e \in (from - 1)..Len(source) /\ e \in from..e /\ e \in from..to
    BY <1>1, <1>2
  <2>2. words = <<>> <=> \A k \in from..e : source[k] \in Comments
    BY <1>1, <2>1, WordsOf
  <2>3. Stream!Rooted(words) <=> spoken # <<>>
    BY <1>1, <2>1, WordsOf
  <2> HIDE DEF words, spoken
  <2>4. Stream!WellFormed(words) <=> Shape(spoken) \in Complete
    BY <1>6, WellFormedShape
  <2> QED BY <2>1, <2>2, <2>3, <2>4 DEF Stream!Comments, Comments
<1>8. Views' = Append(Views, View(r))
  BY ViewsGrow DEF TypeOK
<1>9. View(r) = IF Stream!WellFormed(words) THEN Stream!Ok(from, to)
                ELSE Stream!Error(from, to)
  <2>1. CASE Shape(spoken) \in Complete
    <3>1. /\ r.status = "OK" /\ (r.root # NoRoot <=> spoken # <<>>)
          /\ r.tokens = Places(source, from, e)
          /\ r.from = from /\ r.to = to
      BY <2>1
    <3>2. /\ Stream!Words(from, to) = words
          /\ Stream!TokensOf(from, to) = Places(source, from, e)
      BY <1>5
    <3>3. Stream!WellFormed(words) /\ (Stream!Rooted(words) <=> spoken # <<>>)
      BY <1>7, <2>1
    <3>4. Stream!Ok(from, to) =
            [status |-> "OK", rooted |-> Stream!Rooted(words),
             from |-> from, to |-> to, tokens |-> Places(source, from, e)]
      BY <3>2 DEF Stream!Ok
    <3> HIDE DEF from, to, spoken, words
    <3>5. (r.root # NoRoot) = Stream!Rooted(words)
      BY <3>1, <3>3 DEF Stream!Rooted
    <3> QED BY <3>1, <3>3, <3>4, <3>5 DEF View
  <2>2. CASE Shape(spoken) \notin Complete
    <3>1. r.status = "ERROR"
      BY <2>2
    <3> QED BY <1>7, <2>2, <3>1 DEF View, Stream!Error
  <2> QED BY <2>1, <2>2
<1>10. finished' = (to = Len(source) /\ \A k \in from..to : source[k] # "semi")
  <2>1. e \in from..to
    BY <1>1, <1>2
  <2>2. CASE source[e] = "semi"
    BY <2>1, <2>2
  <2>3. CASE source[e] # "semi"
    <3>1. e = Len(source) /\ to = e
      BY <1>2, <2>3
    <3>2. \A k \in from..e : k \in from..(e - 1) \/ k = e
      BY <1>1
    <3>3. \A k \in from..to : source[k] # "semi"
      BY <2>3, <3>1, <3>2 DEF NoSemi
    <3> QED BY <2>3, <3>1, <3>3
  <2> QED BY <2>2, <2>3
<1>11. View(r).to = to
  BY DEF View
<1> HIDE DEF words, spoken
<1>12. Stream!HandOut(IF Stream!WellFormed(words) THEN Stream!Ok(from, to)
                      ELSE Stream!Error(from, to))
  <2>1. Stream!HandOut(View(r))
    BY <1>1, <1>8, <1>10, <1>11 DEF Stream!HandOut, Views
  <2> QED BY <1>9, <2>1
<1>13. Stream!Words(from, to) = words
  BY <1>5 DEF words
<1> HIDE DEF to
<1> QED BY <1>1, <1>3, <1>7, <1>12, <1>13 DEF Stream!DeliverStatement

LEMMA IsPart ==
    ASSUME TypeOK, source \in Seq(Unbanged), session = "cursor", ~finished,
           NEW e \in (Taken + 1)..Len(source),
           NoSemi(source, Taken + 1, e),
           NEW r \in Outcome, delivered' = Append(delivered, r),
           r.from = Taken + 1, r.to = AfterNotes(e), r.status = "ERROR",
           Shape(Spoken(source, Taken + 1, e)) = "broken",
           UNCHANGED <<lookup, session, source, finished>>
    PROVE  Stream!DeliverPart
<1> DEFINE from == Taken + 1
           to == AfterNotes(e)
           end == Stream!EndOf(from)
<1>1. /\ Stream!Taken = Taken /\ Taken \in Nat /\ from \in 1..Len(source)
      /\ e \in from..Len(source) /\ source \in Seq(Tokens) /\ Taken < Len(source)
  BY ViewsAre DEF TypeOK
<1>2. /\ to \in e..Len(source) /\ \A k \in (e + 1)..to : source[k] = "note"
  BY <1>1, NotesFollow
<1>3. \A k \in from..to : source[k] # "semi"
  <2>1. \A k \in from..to : k \in from..e \/ k \in (e + 1)..to
    BY <1>1, <1>2
  <2> QED BY <1>2, <2>1 DEF NoSemi
<1>4. end \in e..Len(source)
  <2>1. NoSemi(source, from, e - 1)
    BY <1>1 DEF NoSemi
  <2>2. e <= Stream!SemiAfter(from)
    BY <1>1, <2>1, SemiBehind
  <2>3. /\ Stream!SemiAfter(from) \in from..Len(source)
        /\ end \in Stream!SemiAfter(from)..Len(source)
    BY <1>1, NextSemi, EndRange
  <2> HIDE DEF end, from
  <2> QED BY <1>1, <2>2, <2>3
<1> HIDE DEF end
<1>5. /\ from \in Nat \ {0} /\ e \in Nat /\ end \in Nat /\ from <= e + 1
      /\ e <= end /\ end <= Len(source) /\ e + 1 \in Nat \ {0} /\ e <= Len(source)
  BY <1>1, <1>4
<1>6. ~Stream!WellFormed(Text(source, from, end))
  <2> DEFINE x == Spoken(source, from, e)
             y == Spoken(source, e + 1, end)
             w == Text(source, from, end)
  <2>1. /\ Spoken(source, from, end) = x \o y /\ x \in Seq(Tokens) /\ y \in Seq(Tokens)
        /\ w \in Seq(Tokens)
    <3>1. source \in Seq(Tokens)
      BY <1>1
    <3> HIDE DEF from
    <3>2. Spoken(source, from, end) = x \o y
      BY ONLY <1>5, <3>1, SpokenSplit
    <3>3. x \in Seq(Tokens) /\ y \in Seq(Tokens)
      BY ONLY <1>5, <3>1, SpokenType
    <3>4. w \in Seq(Tokens)
      BY ONLY <1>5, <3>1, TextType
    <3> QED BY <3>2, <3>3, <3>4
  <2>2. Shape(x) = "broken" /\ Spoken(source, from, end) = Stream!Without(w, {"semi"})
    BY DEF Spoken
  <2> HIDE DEF x, y, w
  <2>3. Shape(Stream!Without(w, {"semi"})) = "broken"
    BY <2>1, <2>2, ShapeBroken
  <2>4. ~Stream!WellFormed(w)
    BY <2>1, <2>3, WellFormedShape DEF Complete
  <2> QED BY <2>4 DEF w
<1>7. Stream!Words(from, end) = Text(source, from, end)
  BY <1>5, WordsAreText
<1>8. Views' = Append(Views, Stream!Error(from, to))
  <2>1. View(r) = Stream!Error(from, to)
    BY DEF View, Stream!Error
  <2> QED BY <2>1, ViewsGrow DEF TypeOK
<1>9. to \in from..Len(source)
  BY <1>1, <1>2
<1> HIDE DEF to
<1> QED BY <1>1, <1>3, <1>6, <1>7, <1>8, <1>9 DEF Stream!DeliverPart, Views, end

----------------------------------------------------------------------------
(* Steps of a cursor over a text without calls                              *)

LEMMA ShiftedIs ==
    ASSUME TypeOK, NEW t, NEW at \in Nat
    PROVE  LET y == FeedLemon(lemon, Kind(t), at)
               z == Shifted(t, at)
           IN  /\ y \in LemonType /\ z.lemon \in LemonType
               /\ z.lemon.top = y.top /\ z.lemon.list = y.list
               /\ z.lemon.errcnt = y.errcnt /\ z.lemon.root = y.root
               /\ ~z.lemon.error /\ z.lemon.completed = (y.completed /\ y.error)
               /\ z.hadError = (stmt.hadError \/ y.error)
               /\ z.done = (y.completed /\ ~y.error)
<1> DEFINE y == FeedLemon(lemon, Kind(t), at)
           c == y.completed /\ y.error
           z == Shifted(t, at)
<1>1. y \in LemonType
  BY FeedType DEF TypeOK
<1>2. c \in BOOLEAN
  OBVIOUS
<1>3. z.lemon \in LemonType
  BY ShiftedType
<1>4. /\ z.lemon = [y EXCEPT !.error = FALSE, !.completed = c]
      /\ z.hadError = (stmt.hadError \/ y.error)
      /\ z.done = (y.completed /\ ~y.error)
  BY DEF Shifted
<1> HIDE DEF y, c, z
<1>5. /\ z.lemon.top = y.top /\ z.lemon.list = y.list
      /\ z.lemon.errcnt = y.errcnt /\ z.lemon.root = y.root
      /\ ~z.lemon.error /\ z.lemon.completed = c
  BY <1>1, <1>2, <1>4 DEF LemonType, LemonRecord
<1> QED BY <1>1, <1>3, <1>4, <1>5 DEF y, c, z

LEMMA RecordedIs ==
    ASSUME NEW s \in StmtType, NEW n \in Nat, NEW f \in BOOLEAN
    PROVE  LET r == [Recorded(s, n) EXCEPT !.hadError = f] IN
           /\ r \in StmtType /\ r.tokens = Append(s.tokens, n)
           /\ r.from = s.from /\ r.comment = s.comment /\ r.hadError = f
<1> DEFINE q == Append(s.tokens, n)
           u == [s EXCEPT !.tokens = q]
<1>1. q \in Seq(Nat)
  BY DEF StmtType
<1>2. Recorded(s, n) = u
  BY DEF Recorded
<1> HIDE DEF q
<1>3. /\ u \in StmtType /\ u.tokens = q /\ u.from = s.from /\ u.comment = s.comment
  BY <1>1 DEF StmtType
<1> HIDE DEF u
<1> DEFINE r == [u EXCEPT !.hadError = f]
<1>4. /\ r \in StmtType /\ r.tokens = q /\ r.from = s.from
      /\ r.comment = s.comment /\ r.hadError = f
  BY <1>3 DEF StmtType
<1> QED BY <1>2, <1>4 DEF q

LEMMA ResultIs ==
    ASSUME NEW status \in Statuses, NEW y \in LemonType, NEW s \in StmtType,
           NEW end \in Nat, Deliver(status, y, s, end)
    PROVE  LET r == Result(status, y, s, end) IN
           /\ r \in Outcome /\ delivered' = Append(delivered, r)
           /\ r.status = status /\ r.root = y.root /\ r.from = s.from
           /\ r.to = end /\ r.tokens = s.tokens
BY DEF Result, Outcome, LemonType, LemonRecord, StmtType, Deliver

(* The statement is closed.                                                 *)
LEMMA CursorCloses ==
    ASSUME TypeOK, session = "cursor", ~finished, delivered \in Seq(Outcome),
           NEW r \in Outcome, delivered' = Append(delivered, r),
           r.to \in Nat, offset' = r.to, lastToken' = "none", pc' = "idle",
           NEW y, lemon' = Reinit(y), UNCHANGED finished
    PROVE  CursorInv'
<1>1. Taken' = r.to
  BY ViewsGrow
<1>2. Reset(lemon')
  BY DEF Reset, Reinit, Fresh
<1> QED BY <1>1, <1>2 DEF CursorInv, BetweenStatements

(* The statement goes on.                                                   *)
LEMMA CursorReadsOn ==
    ASSUME TypeOK, session = "cursor", ~finished, CursorReads, Taken \in 0..offset,
           offset < Len(source),
           NEW t, t = source[offset + 1], t \notin Comments, t # "semi",
           offset' = offset + 1, lastToken' = "other", pc' = "next",
           stmt'.tokens = Append(stmt.tokens, offset + 1),
           stmt'.from = stmt.from, stmt'.comment = stmt.comment,
           IF stmt'.hadError THEN Continued(Shape(Spoken(source, Taken + 1, offset)), t) = "broken"
           ELSE /\ Unharmed(lemon') /\ ~lemon'.list
                /\ lemon'.top = Continued(Shape(Spoken(source, Taken + 1, offset)), t)
                /\ lemon'.top # "broken",
           UNCHANGED <<session, source, finished, delivered>>
    PROVE  CursorInv'
<1> DEFINE a == Taken + 1
           w == Spoken(source, a, offset)
<1>1. /\ source \in Seq(Tokens) /\ a \in Nat \ {0} /\ offset \in Nat /\ a <= offset + 1
      /\ offset + 1 <= Len(source) /\ t \in Tokens /\ Taken' = Taken
      /\ Len(source) \in Nat /\ offset <= Len(source)
  <2>1. offset + 1 \in 1..Len(source)
    BY DEF TypeOK
  <2> QED BY <2>1 DEF TypeOK, Taken
<1>2. w \in Seq(Tokens)
  BY <1>1, SpokenType
<1>3. Spoken(source, a, offset + 1) = Append(w, t)
  BY <1>1, SpokenStep
<1>4. Places(source, a, offset + 1) = Append(Places(source, a, offset), offset + 1)
  BY <1>1, PlacesStep
<1>5. \A k : k \in a..(offset + 1) <=> k \in a..offset \/ k = offset + 1
  BY <1>1
<1> HIDE DEF w
<1>6. Append(w, t) # <<>> /\ Shape(Append(w, t)) = Continued(Shape(w), t)
  BY <1>1, <1>2, AppendNotEmpty, ShapeStep
<1>7. CursorReads'
  <2>1. NoSemi(source, a, offset + 1)
    <3>1. NoSemi(source, a, offset)
      BY DEF CursorReads
    <3> HIDE DEF a
    <3> QED BY <1>5, <3>1 DEF NoSemi
  <2>2. stmt'.tokens = Places(source, a, offset + 1)
    BY <1>4 DEF CursorReads
  <2>3. stmt'.comment <=> \E k \in a..(offset + 1) : source[k] \in Comments
    <3>1. stmt.comment <=> \E k \in a..offset : source[k] \in Comments
      BY DEF CursorReads
    <3> HIDE DEF a
    <3> QED BY <1>5, <3>1
  <2>4. stmt'.from = IF Taken < Len(source) THEN Taken + 1 ELSE 0
    BY DEF CursorReads
  <2>5. IF stmt'.hadError THEN Shape(Append(w, t)) = "broken"
        ELSE /\ Unharmed(lemon') /\ ~lemon'.list
             /\ lemon'.top = Shape(Append(w, t)) /\ Shape(Append(w, t)) # "broken"
    BY <1>6 DEF w
  <2> DEFINE v == Append(w, t)
  <2> HIDE DEF v
  <2>6. Spoken(source', Taken' + 1, offset') = v
    BY <1>1, <1>3 DEF v
  <2> QED BY <1>1, <1>6, <2>1, <2>2, <2>3, <2>4, <2>5, <2>6 DEF CursorReads, v
<1> QED BY <1>1, <1>7 DEF CursorInv

LEMMA ShapeNone ==
    ASSUME NEW w \in Seq(Tokens)
    PROVE  /\ Shape(w) = "none" <=> w = <<>>
           /\ Shape(w) \in {"none", "select", "drop", "cmd", "aliased", "broken"}
<1>1. CASE w = <<>>
  BY <1>1 DEF Shape
<1>2. CASE w # <<>>
  BY <1>2 DEF Shape
<1> QED BY <1>1, <1>2

(* A semicolon behind words that are all right.                             *)
LEMMA SemicolonIs ==
    ASSUME TypeOK, Unharmed(lemon), ~lemon.list, ~stmt.hadError, NEW w \in Seq(Tokens),
           lemon.top = Shape(w), Shape(w) # "broken", NEW at \in Nat
    PROVE  LET z == Shifted("semi", at) IN
           /\ w = <<>> => ~z.done /\ ~z.hadError /\ z.lemon.root = NoRoot
           /\ w # <<>> /\ Shape(w) \in Complete =>
                 z.done /\ ~z.hadError /\ z.lemon.root # NoRoot
           /\ Shape(w) \notin Complete => z.hadError /\ ~z.done
<1> DEFINE y == FeedLemon(lemon, "semi", at)
           z == Shifted("semi", at)
<1>1. Kind("semi") = "semi"
  BY NamesAssumption DEF Kind
<1>2. /\ z.lemon.root = y.root /\ z.hadError = (stmt.hadError \/ y.error)
      /\ z.done = (y.completed /\ ~y.error) /\ y \in LemonType
  BY <1>1, ShiftedIs
<1>3. /\ Shape(w) = "none" <=> w = <<>>
      /\ Shape(w) \in {"none", "select", "drop", "cmd", "aliased"}
  BY ShapeNone
<1>4. /\ lemon \in LemonType /\ lemon.errcnt = -1 /\ ~lemon.completed /\ ~lemon.error
      /\ lemon.root = NoRoot
      /\ lemon.top \in {"none", "bare", "select", "drop", "cmd", "aliased"}
  BY <1>3 DEF Unharmed, TypeOK
<1>5. /\ lemon.top \in {"none", "bare"} =>
           ~y.error /\ y.root = lemon.root /\ y.completed = (lemon.top = "bare")
      /\ lemon.top \in {"cmd", "aliased"} =>
           y.completed /\ ~y.error /\ y.root # NoRoot
      /\ lemon.top \in {"select", "drop"} => y.error
  BY <1>4, FedSemicolon
<1> HIDE DEF y, z
<1>6. CASE w = <<>>
  BY <1>2, <1>3, <1>4, <1>5, <1>6 DEF Complete, z
<1>7. CASE w # <<>> /\ Shape(w) \in Complete
  BY <1>2, <1>3, <1>4, <1>5, <1>7 DEF Complete, z
<1>8. CASE Shape(w) \notin Complete
  BY <1>2, <1>3, <1>4, <1>5, <1>8 DEF Complete, z
<1> QED BY <1>6, <1>7, <1>8

(* Another word behind them.                                                *)
LEMMA WordIs ==
    ASSUME TypeOK, Unharmed(lemon), ~lemon.list, ~stmt.hadError, NEW w \in Seq(Tokens),
           lemon.top = Shape(w), Shape(w) # "broken",
           NEW t \in Tokens \ (Comments \cup {"semi"}), NEW at \in Nat
    PROVE  LET z == Shifted(t, at)
               n == Continued(Shape(w), t)
           IN  /\ ~z.done
               /\ IF n = "broken" THEN z.hadError
                  ELSE /\ ~z.hadError /\ Unharmed(z.lemon) /\ ~z.lemon.list
                       /\ z.lemon.top = n
<1> DEFINE y == FeedLemon(lemon, Kind(t), at)
           z == Shifted(t, at)
           n == Continued(Shape(w), t)
<1>2. /\ z.lemon.top = y.top /\ z.lemon.list = y.list
      /\ z.lemon.errcnt = y.errcnt /\ z.lemon.root = y.root
      /\ ~z.lemon.error /\ z.lemon.completed = (y.completed /\ y.error)
      /\ z.hadError = (stmt.hadError \/ y.error)
      /\ z.done = (y.completed /\ ~y.error) /\ y \in LemonType
  BY ShiftedIs
<1>3. Shape(w) \in {"none", "select", "drop", "cmd", "aliased"}
  BY ShapeNone
<1>4. /\ lemon \in LemonType /\ lemon.errcnt = -1 /\ ~lemon.completed /\ ~lemon.error
      /\ lemon.root = NoRoot /\ lemon.top # "bare" /\ Start(lemon.top) = Shape(w)
      /\ lemon.top \in {"none", "bare", "select", "drop", "cmd", "aliased"}
  BY <1>3 DEF Unharmed, TypeOK, Start
<1>5. /\ Continued(Start(lemon.top), t) # "broken" =>
           /\ y.top = Continued(Start(lemon.top), t) /\ y.errcnt = -1
           /\ y.root = lemon.root /\ ~y.error /\ y.completed = (lemon.top = "bare")
           /\ y.list = (lemon.list \/ lemon.top = "bare")
      /\ Continued(Start(lemon.top), t) = "broken" /\ ~lemon.list /\ lemon.top # "bare"
            => y.error
  BY <1>4, FedWord
<1>6. /\ n # "broken" =>
           /\ y.top = n /\ y.errcnt = -1
           /\ y.root = NoRoot /\ ~y.error /\ ~y.completed /\ ~y.list
      /\ n = "broken" => y.error
  BY <1>4, <1>5
<1> HIDE DEF y, z, n
<1>7. /\ ~z.done
      /\ IF n = "broken" THEN z.hadError
         ELSE /\ ~z.hadError /\ Unharmed(z.lemon) /\ ~z.lemon.list
              /\ z.lemon.top = n
  BY <1>2, <1>6 DEF Unharmed
<1> QED BY <1>7 DEF z, n

LEMMA NextTokenIs ==
    ASSUME IInv, CursorInv, source \in Seq(Unbanged), NextToken
    PROVE  /\ Stream!DeliverStatement \/ Stream!DeliverPart \/ UNCHANGED Stream!vars
           /\ CursorInv'
<1> DEFINE i == offset + 1
           a == Taken + 1
           t == source[i]
           w == Spoken(source, a, offset)
           z == Shifted(t, i)
           flagged == FALSE \/ z.hadError
           closes == \/ z.done
                     \/ t = "semi" /\ (lastToken = "none" \/ flagged)
           recorded == [Recorded(stmt, i) EXCEPT !.hadError = flagged]
<1>1. /\ TypeOK /\ session = "cursor" /\ ~finished /\ pc = "next" /\ CursorReads
      /\ Taken \in 0..offset /\ source \in Seq(Tokens)
  <2>1. TypeOK /\ pc = "next" /\ session = "cursor"
    BY DEF NextToken, IInv, InCall
  <2> QED BY <2>1 DEF CursorInv, TypeOK
<1>2. /\ offset \in Nat /\ offset < Len(source) /\ i \in 1..Len(source) /\ i \in Nat
      /\ t \in Tokens /\ t \notin Comments /\ a \in Nat \ {0} /\ a <= offset + 1
      /\ Len(source) \in Nat /\ offset <= Len(source) /\ i \in a..Len(source) /\ i - 1 = offset
  <2>1. offset \in 0..Len(source) /\ offset < Len(source) /\ t \notin Comments
    BY <1>1 DEF NextToken, TypeOK
  <2>2. i \in 1..Len(source)
    BY <2>1
  <2>3. t \in Tokens
    BY <1>1, <2>2
  <2> QED BY <1>1, <2>1, <2>2, <2>3
<1>3. w \in Seq(Tokens)
  BY <1>1, <1>2, SpokenType
<1>4. Spoken(source, a, i) = IF t = "semi" THEN w ELSE Append(w, t)
  BY <1>1, <1>2, SpokenStep
<1>5. Places(source, a, i) = Append(Places(source, a, offset), i)
  <2>1. /\ source \in Seq(Tokens) /\ a \in Nat \ {0} /\ offset \in Nat
        /\ a <= offset + 1 /\ offset + 1 <= Len(source)
    BY <1>1, <1>2
  <2>2. source[offset + 1] \notin Comments
    BY <1>2
  <2> HIDE DEF a
  <2> QED BY ONLY <2>1, <2>2, PlacesStep
<1>6. /\ NoSemi(source, a, offset) /\ stmt.tokens = Places(source, a, offset)
      /\ stmt.from = a
      /\ lastToken = IF w = <<>> THEN "none" ELSE "other"
      /\ IF stmt.hadError THEN Shape(w) = "broken"
         ELSE /\ Unharmed(lemon) /\ ~lemon.list
              /\ lemon.top = Shape(w) /\ Shape(w) # "broken"
  <2>1. Taken < Len(source)
    BY <1>1, <1>2
  <2> QED BY <1>1, <2>1 DEF CursorReads
<1>7. /\ z.lemon \in LemonType /\ flagged \in BOOLEAN /\ (stmt.hadError => flagged)
      /\ flagged = z.hadError
  BY <1>1, <1>2, ShiftedIs
<1>8. /\ recorded \in StmtType /\ recorded.tokens = Append(stmt.tokens, i)
      /\ recorded.from = stmt.from /\ recorded.comment = stmt.comment
      /\ recorded.hadError = flagged
  <2>1. stmt \in StmtType
    BY <1>1 DEF TypeOK
  <2> HIDE DEF flagged
  <2> QED BY <1>2, <1>7, <2>1, RecordedIs
<1>9. /\ UNCHANGED <<lookup, session, source, finished>>
      /\ ShiftNext(i, FALSE)
  BY DEF NextToken, handle
<1>10. CASE closes
  <2> DEFINE status == BoundaryStatus(flagged)
             e == AfterNotes(i)
             r == Result(status, z.lemon, recorded, e)
  <2>1. /\ offset' = e /\ lemon' = Reinit(z.lemon) /\ lastToken' = "none"
        /\ Deliver(status, z.lemon, recorded, e) /\ pc' = "idle"
    BY <1>9, <1>10 DEF ShiftNext
  <2>2. e \in Nat
    BY <1>1, <1>2, NotesFollow
  <2>3. status \in Statuses /\ (status = "ERROR" <=> flagged) /\ (status = "OK" <=> ~flagged)
    BY DEF BoundaryStatus, Statuses
  <2> HIDE DEF status, e, recorded, z, flagged, closes
  <2>4. /\ r \in Outcome /\ delivered' = Append(delivered, r)
        /\ r.status = status /\ r.root = z.lemon.root /\ r.from = a
        /\ r.to = e /\ r.tokens = Places(source, a, i)
    <3>1. /\ r \in Outcome /\ delivered' = Append(delivered, r)
          /\ r.status = status /\ r.root = z.lemon.root /\ r.from = recorded.from
          /\ r.to = e /\ r.tokens = recorded.tokens
      BY <1>7, <1>8, <2>1, <2>2, <2>3, ResultIs
    <3> HIDE DEF r, w, a, i
    <3> QED BY <1>5, <1>6, <1>8, <3>1
  <2> HIDE DEF r
  <2>5. CursorInv'
    <3>1. r.to \in Nat /\ offset' = r.to /\ delivered \in Seq(Outcome) /\ UNCHANGED finished
      BY <1>1, <1>9, <2>1, <2>2, <2>4 DEF TypeOK
    <3> QED BY ONLY <1>1, <2>1, <2>4, <3>1, CursorCloses
  <2>6. CASE t = "semi"
    <3>1. IF Shape(w) \in Complete
          THEN ~flagged /\ (z.lemon.root # NoRoot <=> w # <<>>)
          ELSE flagged
      <4>1. CASE stmt.hadError
        BY <1>6, <1>7, <4>1 DEF Complete
      <4>2. CASE ~stmt.hadError
        <5>1. /\ w = <<>> => ~z.done /\ ~z.hadError /\ z.lemon.root = NoRoot
              /\ w # <<>> /\ Shape(w) \in Complete =>
                    z.done /\ ~z.hadError /\ z.lemon.root # NoRoot
              /\ Shape(w) \notin Complete => z.hadError /\ ~z.done
          <6>1. /\ TypeOK /\ Unharmed(lemon) /\ ~lemon.list /\ ~stmt.hadError
                /\ lemon.top = Shape(w) /\ Shape(w) # "broken"
            BY <1>1, <1>6, <4>2
          <6>2. z = Shifted("semi", i)
            BY <2>6 DEF z
          <6> HIDE DEF w, i, t
          <6> QED BY <1>2, <1>3, <6>1, <6>2, SemicolonIs
        <5>2. w = <<>> => Shape(w) \in Complete
          BY <1>3, ShapeNone DEF Complete
        <5> HIDE DEF w
        <5> QED BY <1>7, <5>1, <5>2
      <4> QED BY <4>1, <4>2
    <3>2. Spoken(source, a, i) = w
      BY <1>4, <2>6
    <3> HIDE DEF w
    <3>3. IF Shape(Spoken(source, a, i)) \in Complete
          THEN /\ r.status = "OK"
               /\ r.root # NoRoot <=> Spoken(source, a, i) # <<>>
               /\ r.tokens = Places(source, a, i)
          ELSE r.status = "ERROR"
      BY <2>3, <2>4, <3>1, <3>2
    <3>4. finished' = (source[i] # "semi")
      <4>1. (source[i] # "semi") = FALSE
        BY <2>6
      <4>2. finished' = FALSE
        BY <1>1, <1>9 DEF TypeOK
      <4> QED BY <4>1, <4>2
    <3>5. NoSemi(source, a, i - 1)
      BY <1>2, <1>6
    <3>6. r.to = AfterNotes(i)
      BY <2>4 DEF e
    <3>7. UNCHANGED <<lookup, session, source>>
      BY <1>9
    <3>8. i \in a..Len(source) /\ (source[i] = "semi" \/ i = Len(source)) /\ r.from = a
          /\ r \in Outcome /\ delivered' = Append(delivered, r)
      BY <1>2, <2>4, <2>6
    <3> HIDE DEF i, t
    <3>9. Stream!DeliverStatement
      BY <1>1, <3>3, <3>4, <3>5, <3>6, <3>7, <3>8, IsDelivered
    <3> QED BY <2>5, <3>9
  <2>7. CASE t # "semi"
    <3>1. z.done
      BY <1>10, <2>7 DEF closes
    <3>2. stmt.hadError
      <4>1. SUFFICES ASSUME ~stmt.hadError PROVE FALSE
        OBVIOUS
      <4>2. ~Shifted(t, i).done
        <5>1. /\ TypeOK /\ Unharmed(lemon) /\ ~lemon.list /\ ~stmt.hadError
              /\ lemon.top = Shape(w) /\ Shape(w) # "broken"
              /\ t \in Tokens \ (Comments \cup {"semi"})
          BY <1>1, <1>2, <1>6, <2>7, <4>1
        <5> HIDE DEF w, i, t
        <5> QED BY <1>2, <1>3, <5>1, WordIs
      <4> QED BY <3>1, <4>2 DEF z
    <3>3. Shape(Spoken(source, a, i)) = "broken"
      <4>1. Shape(w) = "broken" /\ Spoken(source, a, i) = Append(w, t)
        BY <1>4, <1>6, <2>7, <3>2
      <4> HIDE DEF w, t
      <4>2. Shape(Append(w, t)) = Continued(Shape(w), t)
        BY <1>2, <1>3, ShapeStep
      <4> QED BY <4>1, <4>2 DEF Continued
    <3>4. NoSemi(source, a, i)
      <4>1. \A k \in a..i : k \in a..offset \/ k = i
        BY <1>2
      <4> QED BY <1>6, <2>7, <4>1 DEF NoSemi
    <3>5. /\ r.to = AfterNotes(i) /\ r.from = a /\ r.status = "ERROR"
          /\ r \in Outcome /\ delivered' = Append(delivered, r)
      BY <1>7, <2>3, <2>4, <3>2 DEF e
    <3>6. UNCHANGED <<lookup, session, source, finished>>
      BY <1>9
    <3> HIDE DEF i, t, w
    <3>7. Stream!DeliverPart
      BY <1>1, <1>2, <3>3, <3>4, <3>5, <3>6, IsPart
    <3> QED BY <2>5, <3>7
  <2> QED BY <2>6, <2>7
<1>11. CASE ~closes
  <2>1. /\ offset' = i /\ lemon' = z.lemon /\ lastToken' = LastOf(t)
        /\ stmt' = recorded /\ pc' = "next" /\ delivered' = delivered
    BY <1>9, <1>11 DEF ShiftNext
  <2>2. UNCHANGED Stream!vars
    BY <1>1, <1>9, <2>1 DEF Stream!vars
  <2>3. t # "semi"
    <3>1. SUFFICES ASSUME t = "semi" PROVE FALSE
      OBVIOUS
    <3>2. ~z.done /\ lastToken # "none" /\ ~flagged
      BY <1>11, <3>1
    <3>3. ~stmt.hadError /\ w # <<>>
      BY <1>6, <1>7, <3>2
    <3>4. /\ TypeOK /\ Unharmed(lemon) /\ ~lemon.list /\ ~stmt.hadError
          /\ lemon.top = Shape(w) /\ Shape(w) # "broken"
      BY <1>1, <1>6, <3>3
    <3>5. z = Shifted("semi", i)
      BY <3>1
    <3> HIDE DEF w, i, t, z
    <3>6. /\ w # <<>> /\ Shape(w) \in Complete => z.done
          /\ Shape(w) \notin Complete => z.hadError
      BY <1>2, <1>3, <3>4, <3>5, SemicolonIs
    <3> QED BY <1>7, <3>2, <3>3, <3>6
  <2>4. lastToken' = "other"
    BY <2>1, <2>3 DEF LastOf
  <2>5. IF stmt'.hadError THEN Continued(Shape(w), t) = "broken"
        ELSE /\ Unharmed(lemon') /\ ~lemon'.list
             /\ lemon'.top = Continued(Shape(w), t)
             /\ lemon'.top # "broken"
    <3>1. stmt'.hadError = z.hadError
      BY <1>7, <1>8, <2>1
    <3>2. CASE stmt.hadError
      <4>1. z.hadError /\ Shape(w) = "broken"
        BY <1>6, <1>7, <3>2
      <4> QED BY <3>1, <4>1 DEF Continued
    <3>3. CASE ~stmt.hadError
      <4>1. /\ TypeOK /\ Unharmed(lemon) /\ ~lemon.list /\ ~stmt.hadError
            /\ lemon.top = Shape(w) /\ Shape(w) # "broken"
            /\ t \in Tokens \ (Comments \cup {"semi"})
        BY <1>1, <1>2, <1>6, <2>3, <3>3
      <4> HIDE DEF w, i, t
      <4>2. IF Continued(Shape(w), t) = "broken" THEN z.hadError
            ELSE /\ ~z.hadError /\ Unharmed(z.lemon) /\ ~z.lemon.list
                 /\ z.lemon.top = Continued(Shape(w), t)
        BY <1>2, <1>3, <4>1, WordIs
      <4> QED BY <2>1, <3>1, <4>2
    <3> QED BY <3>2, <3>3
  <2>6. /\ stmt'.tokens = Append(stmt.tokens, i) /\ stmt'.from = stmt.from
        /\ stmt'.comment = stmt.comment
    BY <1>8, <2>1
  <2>7. CursorInv'
    <3>1. /\ t = source[offset + 1] /\ offset' = offset + 1
          /\ stmt'.tokens = Append(stmt.tokens, offset + 1)
          /\ UNCHANGED <<session, source, finished, delivered>>
      BY <1>9, <2>1, <2>6
    <3>2. IF stmt'.hadError THEN Continued(Shape(Spoken(source, Taken + 1, offset)), t) = "broken"
           ELSE /\ Unharmed(lemon') /\ ~lemon'.list
                /\ lemon'.top = Continued(Shape(Spoken(source, Taken + 1, offset)), t)
                /\ lemon'.top # "broken"
      BY <2>5
    <3>3. offset < Len(source) /\ t \notin Comments /\ t # "semi" /\ pc' = "next"
      BY <1>2, <2>1, <2>3
    <3> HIDE DEF t
    <3> QED BY ONLY <1>1, <2>4, <2>6, <3>1, <3>2, <3>3, CursorReadsOn
  <2> QED BY <2>2, <2>7
<1> QED BY <1>10, <1>11

LEMMA FinishInputIs ==
    ASSUME TypeOK, lastToken = "other"
    PROVE  LET z == Shifted("semi", 0) IN
           /\ z.hadError => FinishInput.status = "ERROR"
           /\ z.done /\ ~z.hadError =>
                FinishInput.status = "OK" /\ FinishInput.lemon.root = z.lemon.root
<1> DEFINE z == Shifted("semi", 0)
           end == FeedEnd(z.lemon)
<1>1. FinishInput = IF z.done
        THEN [status |-> BoundaryStatus(z.hadError), lemon |-> Reinit(z.lemon)]
        ELSE [status |-> IF end.error \/ z.hadError THEN "ERROR"
                         ELSE IF end.root # NoRoot THEN "OK" ELSE "DONE",
              lemon |-> end]
  BY DEF FinishInput
<1> HIDE DEF z, end
<1>2. Reinit(z.lemon).root = z.lemon.root
  BY DEF Reinit, Fresh
<1>3. /\ z.hadError => FinishInput.status = "ERROR"
      /\ z.done /\ ~z.hadError =>
                FinishInput.status = "OK" /\ FinishInput.lemon.root = z.lemon.root
  BY <1>1, <1>2 DEF BoundaryStatus
<1> QED BY <1>3 DEF z

LEMMA NextEndIs ==
    ASSUME IInv, CursorInv, source \in Seq(Unbanged), NextEnd
    PROVE  /\ Stream!DeliverStatement \/ Stream!End
           /\ CursorInv'
<1> DEFINE a == Taken + 1
           w == Spoken(source, a, offset)
           status == FinishInput.status
           y == FinishInput.lemon
           r == Result(status, y, stmt, offset)
<1>1. /\ TypeOK /\ session = "cursor" /\ ~finished /\ pc = "next" /\ CursorReads
      /\ Taken \in 0..offset /\ source \in Seq(Tokens) /\ offset = Len(source)
  <2>1. TypeOK /\ pc = "next" /\ session = "cursor" /\ offset = Len(source)
    BY DEF NextEnd, IInv, InCall
  <2> QED BY <2>1 DEF CursorInv, TypeOK
<1>2. /\ offset \in Nat /\ a \in Nat \ {0} /\ a <= offset + 1 /\ offset <= Len(source)
      /\ offset \in (a - 1)..Len(source) /\ Len(source) \in Nat
  BY <1>1
<1>3. w \in Seq(Tokens)
  BY <1>1, <1>2, SpokenType
<1>4. /\ NoSemi(source, a, offset) /\ stmt.tokens = Places(source, a, offset)
      /\ stmt.from = IF Taken < Len(source) THEN a ELSE 0
      /\ stmt.comment <=> \E k \in a..offset : source[k] \in Comments
      /\ lastToken = IF w = <<>> THEN "none" ELSE "other"
      /\ IF stmt.hadError THEN Shape(w) = "broken"
         ELSE /\ Unharmed(lemon) /\ ~lemon.list
              /\ lemon.top = Shape(w) /\ Shape(w) # "broken"
  BY <1>1 DEF CursorReads
<1>5. /\ Deliver(status, y, stmt, offset) /\ finished' = TRUE /\ pc' = "idle"
      /\ UNCHANGED <<lookup, session, source>>
  BY DEF NextEnd, handle
<1>6. CursorInv'
  BY <1>5 DEF CursorInv
<1>7. y \in LemonType /\ stmt \in StmtType
  BY <1>1, FinishInputType DEF TypeOK
<1> HIDE DEF w
<1>8. ASSUME Taken < offset,
             IF Shape(w) \in Complete
             THEN status = "OK" /\ (y.root # NoRoot <=> w # <<>>)
             ELSE status = "ERROR"
      PROVE  Stream!DeliverStatement
  <2>1. status \in Statuses
    BY <1>8 DEF Statuses
  <2> HIDE DEF status, y
  <2>2. /\ r \in Outcome /\ delivered' = Append(delivered, r)
        /\ r.status = status /\ r.root = y.root /\ r.from = stmt.from
        /\ r.to = offset /\ r.tokens = stmt.tokens
    BY <1>2, <1>5, <1>7, <2>1, ResultIs
  <2> HIDE DEF r
  <2>3. IF Shape(Spoken(source, a, offset)) \in Complete
        THEN /\ r.status = "OK"
             /\ r.root # NoRoot <=> Spoken(source, a, offset) # <<>>
             /\ r.tokens = Places(source, a, offset)
        ELSE r.status = "ERROR"
    BY <1>4, <1>8, <2>2 DEF w
  <2>4. offset \in a..Len(source) /\ offset \in 1..Len(source)
    BY <1>1, <1>2, <1>8
  <2>5. AfterNotes(offset) = offset
    <3>1. AfterNotes(offset) \in offset..Len(source)
      BY <1>1, <2>4, NotesFollow
    <3> QED BY <1>1, <1>2, <3>1
  <2>6. NoSemi(source, a, offset - 1) /\ source[offset] # "semi"
    <3>1. \A k \in a..(offset - 1) : k \in a..offset
      BY <1>2
    <3> QED BY <1>4, <2>4, <3>1 DEF NoSemi
  <2>7. finished' = (source[offset] # "semi")
    BY <1>5, <2>6
  <2>8. r.from = a /\ r.to = AfterNotes(offset)
    BY <1>1, <1>4, <1>8, <2>2, <2>5
  <2>9. /\ r \in Outcome /\ delivered' = Append(delivered, r)
        /\ UNCHANGED <<lookup, session, source>> /\ source \in Seq(Unbanged)
    BY <1>5, <2>2
  <2> QED BY ONLY <1>1, <2>3, <2>4, <2>6, <2>7, <2>8, <2>9, IsDelivered
<1>9. CASE w = <<>>
  <2>1. lastToken = "none" /\ Shape(w) = "none" /\ ~stmt.hadError /\ lemon.root = NoRoot
    BY <1>4, <1>9, ShapeNone, <1>3 DEF Unharmed
  <2>2. /\ status = IF stmt.comment THEN "OK" ELSE "DONE"
        /\ y = lemon
    BY <2>1 DEF FinishInput
  <2>3. CASE stmt.comment
    <3>1. Taken < offset
      BY <1>1, <1>4, <2>3
    <3>2. status = "OK" /\ y.root = NoRoot /\ Shape(w) \in Complete
      BY <2>1, <2>2, <2>3 DEF Complete
    <3> HIDE DEF status, y
    <3>3. Stream!DeliverStatement
      BY <1>8, <1>9, <3>1, <3>2
    <3> QED BY <1>6, <3>3
  <2>4. CASE ~stmt.comment
    <3>1. Taken = offset
      <4>1. SUFFICES ASSUME Taken # offset PROVE FALSE
        OBVIOUS
      <4>2. offset \in a..offset
        BY <1>1, <4>1
      <4>3. source[offset] \in Comments \cup {"semi"}
        BY <1>1, <1>2, <1>9, <4>2, WordsOf DEF w
      <4>4. source[offset] # "semi" /\ source[offset] \notin Comments
        BY <1>4, <2>4, <4>2 DEF NoSemi
      <4> QED BY <4>3, <4>4
    <3>2. delivered' = delivered
      <4>1. status \notin Statuses
        BY <2>2, <2>4 DEF Statuses
      <4> HIDE DEF status, y
      <4> QED BY <1>5, <4>1 DEF Deliver
    <3>3. Stream!Taken = Taken
      BY <1>1, ViewsAre DEF TypeOK
    <3>4. Stream!Words(a, Len(source)) = <<>>
      <4>1. Len(source) < a
        BY <1>1, <1>2, <3>1
      <4>2. Text(source, a, Len(source)) = <<>>
        BY <1>1, <1>2, <4>1, TextNone
      <4> QED BY <1>2, <4>2, WordsAreText
    <3>5. \A k \in a..Len(source) : FALSE
      BY <1>1, <1>2, <3>1
    <3>6. Stream!End
      BY <1>1, <1>5, <3>2, <3>3, <3>4, <3>5 DEF Stream!End
    <3> QED BY <1>6, <3>6
  <2> QED BY <2>3, <2>4
<1>10. CASE w # <<>>
  <2> DEFINE z == Shifted("semi", 0)
  <2>1. lastToken = "other"
    BY <1>4, <1>10
  <2>2. Taken < offset
    <3>1. SUFFICES ASSUME ~(Taken < offset) PROVE FALSE
      OBVIOUS
    <3>2. offset < a
      BY <1>1, <3>1
    <3> QED BY <1>1, <1>2, <1>10, <3>2, SpokenNone DEF w
  <2>3. /\ z.hadError => status = "ERROR"
        /\ z.done /\ ~z.hadError => status = "OK" /\ y.root = z.lemon.root
    BY <1>1, <2>1, FinishInputIs
  <2>4. IF Shape(w) \in Complete THEN z.done /\ ~z.hadError /\ z.lemon.root # NoRoot
        ELSE z.hadError
    <3>1. CASE stmt.hadError
      <4>1. z.hadError
        BY <1>1, <3>1, ShiftedIs
      <4> QED BY <1>4, <3>1, <4>1 DEF Complete
    <3>2. CASE ~stmt.hadError
      <4>1. /\ TypeOK /\ Unharmed(lemon) /\ ~lemon.list /\ ~stmt.hadError
            /\ lemon.top = Shape(w) /\ Shape(w) # "broken"
        BY <1>1, <1>4, <3>2
      <4>2. 0 \in Nat
        OBVIOUS
      <4>3. /\ w # <<>> /\ Shape(w) \in Complete =>
                 z.done /\ ~z.hadError /\ z.lemon.root # NoRoot
            /\ Shape(w) \notin Complete => z.hadError /\ ~z.done
        BY ONLY <1>3, <4>1, <4>2, SemicolonIs
      <4> HIDE DEF z
      <4> QED BY <1>10, <4>3
    <3> QED BY <3>1, <3>2
  <2> HIDE DEF z, status, y
  <2>5. IF Shape(w) \in Complete
        THEN status = "OK" /\ (y.root # NoRoot <=> w # <<>>)
        ELSE status = "ERROR"
    BY <1>10, <2>3, <2>4
  <2>6. Stream!DeliverStatement
    BY <1>8, <2>2, <2>5
  <2> QED BY <1>6, <2>6
<1> QED BY <1>9, <1>10

LEMMA BeginNextIs ==
    ASSUME IInv, CursorInv, BeginNext
    PROVE  UNCHANGED Stream!vars /\ CursorInv'
<1>1. /\ TypeOK /\ session = "cursor" /\ pc = "idle" /\ ~finished
      /\ Taken = offset /\ lastToken = "none" /\ Reset(lemon)
      /\ source \in Seq(Tokens) /\ offset \in 0..Len(source)
  BY DEF BeginNext, IInv, CursorInv, BetweenStatements, TypeOK
<1>2. /\ stmt' = IF offset < Len(source) THEN Opened(EmptyStmt, offset + 1)
                 ELSE EmptyStmt
      /\ lemon' = ResetCtx(lemon) /\ pc' = "next"
      /\ UNCHANGED <<lookup, session, source, offset, lastToken, finished, delivered>>
  BY DEF BeginNext, handle
<1>3. UNCHANGED Stream!vars
  BY <1>2 DEF Stream!vars
<1>4. Taken' = Taken
  BY <1>2 DEF Taken
<1>5. /\ stmt'.from = IF offset < Len(source) THEN offset + 1 ELSE 0
      /\ stmt'.tokens = <<>> /\ ~stmt'.comment /\ ~stmt'.hadError
  BY <1>2 DEF Opened, EmptyStmt
<1>6. Unharmed(lemon') /\ ~lemon'.list /\ lemon'.top = "none"
  BY <1>1, <1>2 DEF Unharmed, Reset, ResetCtx, TypeOK, LemonType, LemonRecord
<1>7. /\ Spoken(source, offset + 1, offset) = <<>>
      /\ Places(source, offset + 1, offset) = <<>>
      /\ \A k \in (offset + 1)..offset : FALSE
  <2>1. offset \in Nat /\ offset + 1 \in Nat /\ offset < offset + 1
    BY <1>1
  <2>2. /\ Spoken(source, offset + 1, offset) = <<>>
        /\ Places(source, offset + 1, offset) = <<>>
    BY <1>1, <2>1, SpokenNone, PlacesNone
  <2> QED BY <2>1, <2>2
<1>8. Shape(<<>>) = "none"
  BY DEF Shape
<1>9. CursorReads'
  <2>1. /\ Taken' = offset /\ source' = source /\ offset' = offset
        /\ lastToken' = "none"
    BY <1>1, <1>2, <1>4
  <2> QED BY <1>5, <1>6, <1>7, <1>8, <2>1 DEF CursorReads, NoSemi
<1>10. Taken' \in 0..offset'
  BY <1>1, <1>2, <1>4
<1> QED BY <1>1, <1>2, <1>3, <1>9, <1>10 DEF CursorInv

LEMMA NextCommentIs ==
    ASSUME IInv, CursorInv, NextComment
    PROVE  UNCHANGED Stream!vars /\ CursorInv'
<1> DEFINE a == Taken + 1
<1>1. /\ TypeOK /\ session = "cursor" /\ ~finished /\ pc = "next" /\ CursorReads
      /\ Taken \in 0..offset /\ source \in Seq(Tokens)
      /\ offset < Len(source) /\ source[offset + 1] \in Comments
  <2>1. TypeOK /\ pc = "next" /\ session = "cursor"
    BY DEF NextComment, IInv, InCall
  <2> QED BY <2>1 DEF CursorInv, TypeOK, NextComment
<1>2. /\ stmt' = [stmt EXCEPT !.comment = TRUE] /\ offset' = offset + 1
      /\ UNCHANGED <<lookup, session, source, lemon, lastToken, finished, pc, delivered>>
  BY DEF NextComment, handle
<1>3. UNCHANGED Stream!vars
  BY <1>1, <1>2 DEF Stream!vars
<1>4. Taken' = Taken
  BY <1>2 DEF Taken
<1>5. /\ stmt'.from = stmt.from /\ stmt'.tokens = stmt.tokens /\ stmt'.comment
      /\ stmt'.hadError = stmt.hadError
  BY <1>1, <1>2 DEF TypeOK, StmtType
<1>6. /\ offset \in Nat /\ a \in Nat \ {0} /\ a <= offset + 1 /\ offset + 1 <= Len(source)
      /\ offset + 1 \in a..(offset + 1) /\ Taken \in 0..(offset + 1)
      /\ \A k : k \in a..(offset + 1) <=> k \in a..offset \/ k = offset + 1
  BY <1>1 DEF TypeOK
<1>7. /\ Spoken(source, a, offset + 1) = Spoken(source, a, offset)
      /\ Places(source, a, offset + 1) = Places(source, a, offset)
  BY <1>1, <1>6, SpokenStep, PlacesStep
<1> HIDE DEF a
<1>8. NoSemi(source, a, offset + 1)
  <2>1. NoSemi(source, a, offset) /\ source[offset + 1] # "semi"
    BY <1>1 DEF CursorReads, a, Comments
  <2> QED BY <1>6, <2>1 DEF NoSemi
<1>9. \E k \in a..(offset + 1) : source[k] \in Comments
  BY <1>1, <1>6
<1>10. CursorReads'
  <2>1. /\ Taken' + 1 = a /\ source' = source /\ offset' = offset + 1
        /\ lastToken' = lastToken /\ lemon' = lemon
    BY <1>2, <1>4 DEF a
  <2>2. /\ stmt.from = IF Taken < Len(source) THEN a ELSE 0
        /\ stmt.tokens = Places(source, a, offset)
        /\ lastToken = IF Spoken(source, a, offset) = <<>> THEN "none" ELSE "other"
        /\ IF stmt.hadError THEN Shape(Spoken(source, a, offset)) = "broken"
           ELSE /\ Unharmed(lemon) /\ ~lemon.list
                /\ lemon.top = Shape(Spoken(source, a, offset))
                /\ Shape(Spoken(source, a, offset)) # "broken"
    BY <1>1 DEF CursorReads, a
  <2> QED BY <1>4, <1>5, <1>7, <1>8, <1>9, <2>1, <2>2 DEF CursorReads
<1> QED BY <1>1, <1>2, <1>3, <1>4, <1>6, <1>10 DEF CursorInv

----------------------------------------------------------------------------
(* Steps of a session that is fed                                           *)

LEMMA LostStays ==
    ASSUME NEW n \in Nat, NEW m \in Nat, n <= m, Stream!Lost(n)
    PROVE  Stream!Lost(m)
BY DEF Stream!Lost

LEMMA LostWhen ==
    ASSUME source \in Seq(Tokens), NEW j \in 1..Len(source), NEW n \in j..Len(source),
           j = 1 \/ source[j - 1] = "semi",
           NEW e \in n..Len(source), e = Stream!SemiAfter(j),
           Shape(Spoken(source, j, e)) \notin Complete
    PROVE  Stream!Lost(n)
<1> DEFINE w == Text(source, j, e)
<1>1. j \in Nat \ {0} /\ e \in Nat /\ e <= Len(source) /\ j \in 1..n
  OBVIOUS
<1>2. w \in Seq(Tokens)
  BY <1>1, TextType
<1>3. Spoken(source, j, e) = Stream!Without(w, {"semi"})
  BY DEF Spoken
<1>4. w = Stream!Without(SubSeq(source, j, Stream!SemiAfter(j)), Stream!Comments)
  BY DEF Text, Stream!Comments, Comments
<1> HIDE DEF w
<1>5. ~Stream!WellFormed(w)
  BY <1>2, <1>3, WellFormedShape
<1> QED BY <1>1, <1>4, <1>5 DEF Stream!Lost

LEMMA LostInside ==
    ASSUME source \in Seq(Tokens), NEW j \in 1..Len(source), NEW n \in j..Len(source),
           j = 1 \/ source[j - 1] = "semi", NoSemi(source, j, n),
           Shape(Spoken(source, j, n)) = "broken"
    PROVE  Stream!Lost(n)
<1> DEFINE e == Stream!SemiAfter(j)
           x == Spoken(source, j, n)
           y == Spoken(source, n + 1, e)
<1>1. NoSemi(source, j, n - 1)
  <2>1. \A k \in j..(n - 1) : k \in j..n
    OBVIOUS
  <2> QED BY <2>1 DEF NoSemi
<1>2. e \in n..Len(source)
  <2>1. n <= e
    BY <1>1, SemiBehind
  <2>2. e \in j..Len(source)
    BY NextSemi
  <2> HIDE DEF e
  <2> QED BY <2>1, <2>2
<1>3. e = Stream!SemiAfter(j)
  OBVIOUS
<1> HIDE DEF e
<1>4. /\ j \in Nat \ {0} /\ n \in Nat /\ e \in Nat /\ j <= n + 1 /\ n <= e
      /\ e <= Len(source) /\ n + 1 \in Nat \ {0} /\ n <= Len(source)
  BY <1>2
<1>5. Spoken(source, j, e) = x \o y
  BY <1>4, SpokenSplit
<1>6. x \in Seq(Tokens) /\ y \in Seq(Tokens)
  BY <1>4, SpokenType
<1>7. Shape(x) = "broken"
  OBVIOUS
<1> HIDE DEF x, y
<1>8. Shape(x \o y) = "broken"
  BY <1>6, <1>7, ShapeBroken
<1>9. Shape(Spoken(source, j, e)) \notin Complete
  BY <1>5, <1>8 DEF Complete
<1> QED BY <1>2, <1>3, <1>9, LostWhen

LEMMA LostAtTheEnd ==
    ASSUME source \in Seq(Tokens), NEW j \in 1..Len(source), NEW n \in j..Len(source),
           j = 1 \/ source[j - 1] = "semi", NoSemi(source, j, n - 1),
           source[n] = "semi" \/ n = Len(source),
           Shape(Spoken(source, j, n)) \notin Complete
    PROVE  Stream!Lost(n)
<1>1. Stream!SemiAfter(j) = n
  BY SemiIs
<1>2. n \in n..Len(source)
  OBVIOUS
<1> QED BY <1>1, <1>2, LostWhen

(* What is said since the result before is said since the last semicolon.   *)
LEMMA SaidSince ==
    ASSUME source \in Seq(Tokens), NEW a \in Nat \ {0},
           NEW b \in (a - 1)..Len(source), NEW n \in b..Len(source),
           \A k \in a..b : source[k] \in Comments \cup {"semi"}
    PROVE  Spoken(source, a, n) = Spoken(source, b + 1, n)
<1> DEFINE x == Spoken(source, a, b)
           y == Spoken(source, b + 1, n)
<1>1. /\ b \in Nat /\ n \in Nat /\ a <= b + 1 /\ b <= n /\ n <= Len(source)
      /\ b + 1 \in Nat \ {0}
  OBVIOUS
<1>2. Spoken(source, a, n) = x \o y
  BY <1>1, SpokenSplit, SMTT(30)
<1>3. x = <<>>
  BY WordsOf
<1>4. y \in Seq(Tokens)
  BY <1>1, SpokenType
<1> HIDE DEF x, y
<1>5. <<>> \o y = y
  BY <1>4
<1> QED BY <1>2, <1>3, <1>5 DEF y

LEMMA WaitingIs ==
    ASSUME TypeOK, NEW n \in Taken..Len(source)
    PROVE  Stream!Waiting(n) <=> Spoken(source, Taken + 1, n) # <<>>
<1>1. Stream!Taken = Taken /\ Taken \in Nat /\ source \in Seq(Tokens)
  BY ViewsAre DEF TypeOK
<1>2. Taken + 1 \in Nat \ {0} /\ n \in ((Taken + 1) - 1)..Len(source)
  BY <1>1
<1>3. Spoken(source, Taken + 1, n) = <<>>
        <=> \A k \in (Taken + 1)..n : source[k] \in Comments \cup {"semi"}
  BY ONLY <1>1, <1>2, WordsOf
<1>4. Stream!Waiting(n)
        <=> \E k \in (Taken + 1)..n : source[k] \notin Comments \cup {"semi"}
  BY <1>1 DEF Stream!Waiting, Stream!Comments, Comments
<1> QED BY <1>3, <1>4

LEMMA FedOkIs ==
    ASSUME TypeOK, NEW to \in Taken..Len(source), NEW r \in Outcome,
           r.status = "OK", r.root # NoRoot, r.from = Taken + 1, r.to = to,
           r.tokens = Places(source, Taken + 1, to)
    PROVE  View(r) = Stream!FedOk(to)
<1>1. Stream!Taken = Taken /\ Taken \in Nat /\ source \in Seq(Tokens)
  BY ViewsAre DEF TypeOK
<1>2. Stream!Without([k \in 1..(to - Taken) |-> Taken + k],
                     {p \in (Taken + 1)..to : source[p] \in Stream!Comments})
        = Places(source, Taken + 1, to)
  <2>1. to \in Nat /\ Taken <= to /\ to <= Len(source)
    BY <1>1 DEF TypeOK
  <2> QED BY <1>1, <2>1, FedTokensArePlaces
<1>3. Stream!FedOk(to) =
        [status |-> "OK", rooted |-> TRUE, from |-> Taken + 1, to |-> to,
         tokens |-> Places(source, Taken + 1, to)]
  BY <1>1, <1>2 DEF Stream!FedOk
<1> QED BY <1>3 DEF View

(* What a token is fed to, whether or not a reset is pending.               *)
LEMMA FedStarts ==
    ASSUME IInv, FedInv, session = "incremental", ~finished, ~Stream!Lost(offset),
           offset < Len(source)
    PROVE  LET open == Opened(IF pendingReset THEN EmptyStmt ELSE stmt, offset + 1)
               before == IF pendingReset THEN ResetCtx(lemon) ELSE lemon
               w == Spoken(source, Taken + 1, offset)
           IN  /\ open \in StmtType /\ before \in LemonType
               /\ Taken \in 0..offset /\ (Taken = 0 \/ source[Taken] = "semi")
               /\ open.from = Taken + 1 /\ open.tokens = Places(source, Taken + 1, offset)
               /\ ~open.comment /\ ~open.hadError
               /\ Unharmed(before)
               /\ \E b \in Taken..offset : Begins(b)
               /\ IF w = <<>>
                  THEN IF lastToken = "semi" THEN before.top = "bare"
                       ELSE lastToken = "none" /\ before.top = "none"
                  ELSE lastToken = "other" /\ before.top = Shape(w) /\ Shape(w) # "broken"
<1> DEFINE open == Opened(IF pendingReset THEN EmptyStmt ELSE stmt, offset + 1)
           before == IF pendingReset THEN ResetCtx(lemon) ELSE lemon
           w == Spoken(source, Taken + 1, offset)
<1>1. /\ TypeOK /\ Taken \in 0..offset /\ (Taken = 0 \/ source[Taken] = "semi")
      /\ IF pendingReset THEN BetweenStatements ELSE FedReads
  BY DEF IInv, FedInv
<1>2. /\ source \in Seq(Tokens) /\ offset \in Nat /\ lemon \in LemonType
      /\ stmt \in StmtType /\ offset + 1 \in Nat /\ offset + 1 # 0
  BY <1>1 DEF TypeOK
<1>3. open \in StmtType
  BY <1>2, EmptyStmtType, OpenedType
<1>4. CASE pendingReset
  <2>1. Taken = offset /\ lastToken = "none" /\ Reset(lemon)
    BY <1>1, <1>4 DEF BetweenStatements
  <2>2. /\ open.from = offset + 1 /\ open.tokens = <<>> /\ ~open.comment
        /\ ~open.hadError
    BY <1>4 DEF Opened, EmptyStmt
  <2>3. before \in LemonType /\ Unharmed(before) /\ before.top = "none"
    <3>1. before = ResetCtx(lemon)
      BY <1>4
    <3> HIDE DEF before
    <3> QED BY <1>2, <2>1, <3>1
            DEF ResetCtx, Unharmed, Reset, LemonType, LemonRecord
  <2>4. /\ Spoken(source, offset + 1, offset) = <<>>
        /\ Places(source, offset + 1, offset) = <<>>
    <3>1. offset < offset + 1
      BY <1>2
    <3> QED BY <1>2, <3>1, SpokenNone, PlacesNone
  <2>5. Begins(offset)
    <3>1. /\ \A k \in (offset + 1)..offset : FALSE
          /\ offset = 0 \/ source[offset] = "semi"
      BY <1>1, <1>2, <2>1
    <3> QED BY <2>1, <3>1 DEF Begins, NoSemi
  <2>6. offset \in Taken..offset
    BY <1>2, <2>1
  <2> HIDE DEF open, before
  <2> QED BY <1>1, <1>3, <2>1, <2>2, <2>3, <2>4, <2>5, <2>6 DEF open, before
<1>5. CASE ~pendingReset
  <2>1. FedReads /\ open = Opened(stmt, offset + 1) /\ before = lemon
    BY <1>1, <1>5
  <2>2. open.from = Taken + 1
    <3>1. stmt.from = IF Taken < offset THEN Taken + 1 ELSE 0
      BY <2>1 DEF FedReads
    <3>2. Taken < offset \/ Taken = offset
      BY <1>1, <1>2
    <3>3. Taken + 1 # 0
      BY <1>1, <1>2
    <3>4. open.from = IF stmt.from = 0 THEN offset + 1 ELSE stmt.from
      BY <1>2, <2>1 DEF Opened, StmtType
    <3> HIDE DEF open
    <3> QED BY <1>2, <3>1, <3>2, <3>3, <3>4
  <2>3. /\ open.tokens = stmt.tokens /\ open.comment = stmt.comment
        /\ open.hadError = stmt.hadError
    BY <1>2, <2>1 DEF Opened, StmtType
  <2>4. /\ stmt.tokens = Places(source, Taken + 1, offset)
        /\ ~stmt.comment /\ ~stmt.hadError
        /\ Unharmed(lemon)
        /\ \E b \in Taken..offset : Begins(b)
        /\ IF w = <<>>
           THEN IF lastToken = "semi" THEN lemon.top = "bare"
                ELSE lastToken = "none" /\ lemon.top = "none"
           ELSE lastToken = "other" /\ lemon.top = Shape(w) /\ Shape(w) # "broken"
    BY <2>1 DEF FedReads
  <2> HIDE DEF w
  <2>5. /\ open.from = Taken + 1 /\ open.tokens = Places(source, Taken + 1, offset)
        /\ ~open.comment /\ ~open.hadError
        /\ Unharmed(before) /\ before \in LemonType
        /\ IF w = <<>>
           THEN IF lastToken = "semi" THEN before.top = "bare"
                ELSE lastToken = "none" /\ before.top = "none"
           ELSE lastToken = "other" /\ before.top = Shape(w) /\ Shape(w) # "broken"
    BY <1>2, <2>1, <2>2, <2>3, <2>4
  <2> HIDE DEF open, before
  <2> QED BY <1>1, <1>3, <2>4, <2>5 DEF open, before, w
<1> QED BY <1>4, <1>5

LEMMA LoweredIs ==
    ASSUME NEW y \in LemonType, ~y.error
    PROVE  LET z == [y EXCEPT !.error = FALSE, !.completed = y.completed /\ y.error] IN
           /\ z.top = y.top /\ z.list = y.list /\ z.errcnt = y.errcnt
           /\ z.root = y.root /\ ~z.error /\ ~z.completed
BY DEF LemonType, LemonRecord

(* The statement goes on, or has not begun.                                 *)
LEMMA FedReadsOn ==
    ASSUME TypeOK, Taken \in 0..offset, Taken = 0 \/ source[Taken] = "semi",
           offset < Len(source), offset' = offset + 1, ~pendingReset',
           stmt'.from = Taken + 1,
           stmt'.tokens = Places(source, Taken + 1, offset + 1),
           ~stmt'.comment, ~stmt'.hadError, Unharmed(lemon'),
           NEW b \in Taken..(offset + 1),
           b = 0 \/ source[b] = "semi", NoSemi(source, b + 1, offset + 1),
           \A k \in (Taken + 1)..b : source[k] \in Comments \cup {"semi"},
           IF Spoken(source, Taken + 1, offset + 1) = <<>>
           THEN IF lastToken' = "semi" THEN lemon'.top = "bare"
                ELSE lastToken' = "none" /\ lemon'.top = "none"
           ELSE /\ lastToken' = "other"
                /\ lemon'.top = Shape(Spoken(source, Taken + 1, offset + 1))
                /\ Shape(Spoken(source, Taken + 1, offset + 1)) # "broken",
           UNCHANGED <<session, source, finished, delivered>>
    PROVE  FedInv'
<1>1. Taken' = Taken /\ source' = source
  BY DEF Taken
<1>2. Taken' \in 0..offset' /\ Taken < offset + 1
  BY <1>1 DEF TypeOK
<1>3. Begins(b)'
  BY <1>1 DEF Begins
<1>4. FedReads'
  <2> DEFINE w == Spoken(source, Taken + 1, offset + 1)
             p == Places(source, Taken + 1, offset + 1)
  <2>1. /\ Spoken(source', Taken' + 1, offset') = w
        /\ Places(source', Taken' + 1, offset') = p
        /\ stmt'.tokens = p
        /\ IF w = <<>>
           THEN IF lastToken' = "semi" THEN lemon'.top = "bare"
                ELSE lastToken' = "none" /\ lemon'.top = "none"
           ELSE lastToken' = "other" /\ lemon'.top = Shape(w) /\ Shape(w) # "broken"
    BY <1>1
  <2> HIDE DEF w, p
  <2>2. b \in Taken'..offset'
    BY <1>1
  <2>3. stmt'.from = IF Taken' < offset' THEN Taken' + 1 ELSE 0
    BY <1>1, <1>2
  <2> QED BY <1>1, <1>3, <2>1, <2>2, <2>3 DEF FedReads
<1>5. Taken' = 0 \/ source'[Taken'] = "semi"
  BY <1>1
<1> QED BY <1>2, <1>4, <1>5 DEF FedInv

LEMMA FeedTokenIs ==
    ASSUME IInv, FedInv, FeedToken
    PROVE  Stream!Feed /\ FedInv'
<1> DEFINE i == offset + 1
           a == Taken + 1
           t == source[i]
           w == Spoken(source, a, offset)
           open == Opened(IF pendingReset THEN EmptyStmt ELSE stmt, i)
           before == IF pendingReset THEN ResetCtx(lemon) ELSE lemon
           y == FeedLemon(before, Kind(t), i)
           shifted == [y EXCEPT !.error = FALSE,
                                !.completed = y.completed /\ y.error]
           hadError == open.hadError \/ y.error
           recorded == [Recorded(open, i) EXCEPT !.hadError = hadError]
           real == y.root # NoRoot
<1>1. /\ TypeOK /\ session = "incremental" /\ pc = "idle" /\ ~finished
      /\ offset < Len(source) /\ source \in Seq(Tokens) /\ offset \in Nat
      /\ i \in Nat /\ i \in 1..Len(source) /\ t \in Tokens /\ offset' = i
      /\ UNCHANGED <<lookup, session, source, finished>>
  <2>1. TypeOK /\ session = "incremental" /\ pc = "idle" /\ ~finished
        /\ offset < Len(source) /\ offset' = i
        /\ UNCHANGED <<lookup, session, source, finished>>
    BY DEF FeedToken, IInv, handle
  <2>2. source \in Seq(Tokens) /\ offset \in Nat
    BY <2>1 DEF TypeOK
  <2>3. i \in Nat /\ i \in 1..Len(source)
    BY <2>1, <2>2
  <2>4. t \in Tokens
    BY <2>2, <2>3
  <2> QED BY <2>1, <2>2, <2>3, <2>4
<1>2. /\ Stream!Lost(i) \/ Views' = (IF t = "semi" /\ Stream!Waiting(i)
                                     THEN Append(Views, Stream!FedOk(i)) ELSE Views)
         => Stream!Feed
  BY <1>1 DEF Stream!Feed, Views
<1>3. (~Stream!Lost(offset))' <=> ~Stream!Lost(i)
  BY <1>1 DEF Stream!Lost, Stream!SemiAfter
<1>4. CASE Stream!Lost(i)
  BY <1>2, <1>3, <1>4 DEF FedInv
<1>5. CASE ~Stream!Lost(i)
  <2>0. ~Stream!Lost(offset)
    BY <1>1, <1>5, LostStays
  <2>1. /\ open \in StmtType /\ before \in LemonType
        /\ Taken \in 0..offset /\ (Taken = 0 \/ source[Taken] = "semi")
        /\ open.from = a /\ open.tokens = Places(source, a, offset)
        /\ ~open.comment /\ ~open.hadError
        /\ Unharmed(before)
        /\ \E b \in Taken..offset : Begins(b)
        /\ IF w = <<>>
           THEN IF lastToken = "semi" THEN before.top = "bare"
                ELSE lastToken = "none" /\ before.top = "none"
           ELSE lastToken = "other" /\ before.top = Shape(w) /\ Shape(w) # "broken"
    BY <1>1, <2>0, FedStarts
  <2>2. PICK b \in Taken..offset : Begins(b)
    BY <2>1
  <2>3. /\ Taken \in Nat /\ a \in Nat \ {0} /\ a <= offset + 1 /\ offset + 1 <= Len(source)
        /\ Len(source) \in Nat /\ offset <= Len(source) /\ b \in Nat
        /\ i \in Taken..Len(source) /\ b \in (a - 1)..Len(source) /\ b + 1 \in 1..Len(source)
        /\ i \in b..Len(source) /\ offset \in b..Len(source) /\ i \in (b + 1)..Len(source)
        /\ b \in Taken..(offset + 1) /\ i \in Taken..(offset + 1)
        /\ i \in ((a - 1)..Len(source)) /\ Taken \in 0..i /\ (b + 1) - 1 = b /\ i - 1 = offset
        /\ b = 0 <=> b + 1 = 1
    BY <1>1, <2>1, <2>2
  <2>4. w \in Seq(Tokens)
    BY <1>1, <2>3, SpokenType
  <2>5. /\ Spoken(source, a, i) = IF t \in Comments \cup {"semi"} THEN w ELSE Append(w, t)
        /\ Places(source, a, i) = IF t \in Comments THEN Places(source, a, offset)
                                  ELSE Append(Places(source, a, offset), i)
    <3>1. /\ source \in Seq(Tokens) /\ a \in Nat \ {0} /\ offset \in Nat
          /\ a <= offset + 1 /\ offset + 1 <= Len(source)
      BY <1>1, <2>3
    <3> HIDE DEF a
    <3>2. Spoken(source, a, offset + 1) =
            IF source[offset + 1] \in Comments \cup {"semi"} THEN Spoken(source, a, offset)
            ELSE Append(Spoken(source, a, offset), source[offset + 1])
      BY ONLY <3>1, SpokenStep
    <3>3. Places(source, a, offset + 1) =
            IF source[offset + 1] \in Comments THEN Places(source, a, offset)
            ELSE Append(Places(source, a, offset), offset + 1)
      BY ONLY <3>1, PlacesStep
    <3> QED BY <3>2, <3>3
  <2>6. /\ b = 0 \/ source[b] = "semi"
        /\ NoSemi(source, b + 1, offset)
        /\ \A k \in a..b : source[k] \in Comments \cup {"semi"}
    BY <2>2 DEF Begins
  <2>7. /\ Spoken(source, a, i) = Spoken(source, b + 1, i)
        /\ Spoken(source, a, offset) = Spoken(source, b + 1, offset)
    <3> HIDE DEF a, i
    <3> QED BY <1>1, <2>3, <2>6, SaidSince
  <2>8. Stream!Waiting(i) <=> Spoken(source, a, i) # <<>>
    <3> HIDE DEF i
    <3> QED BY <1>1, <2>3, WaitingIs
  <2>9. y \in LemonType
    BY <1>1, <2>1, FeedType
  <2>10. t # "semi" => NoSemi(source, b + 1, i)
    <3>1. \A k \in (b + 1)..i : k \in (b + 1)..offset \/ k = i
      BY <1>1, <2>3
    <3> QED BY <2>6, <3>1 DEF NoSemi
  <2>11. /\ recorded \in StmtType
         /\ recorded.tokens = Append(open.tokens, i)
         /\ recorded.from = open.from /\ recorded.comment = open.comment
         /\ recorded.hadError = hadError
    <3>1. hadError \in BOOLEAN
      OBVIOUS
    <3> HIDE DEF hadError, open
    <3> QED BY <1>1, <2>1, <3>1, RecordedIs
  <2>12. delivered' = delivered => Views' = Views
    BY DEF Views
  <2>13. CASE t \in Comments
    <3>1. /\ stmt' = open /\ lemon' = before /\ pendingReset' = FALSE
          /\ lastToken' = lastToken /\ delivered' = delivered
      BY <2>13 DEF FeedToken
    <3>2. t # "semi"
      BY <2>13 DEF Comments
    <3>3. Stream!Feed
      BY <1>2, <2>12, <3>1, <3>2
    <3>4. /\ stmt'.from = a /\ stmt'.tokens = Places(source, a, offset + 1)
          /\ ~stmt'.comment /\ ~stmt'.hadError /\ Unharmed(lemon')
          /\ ~pendingReset' /\ offset' = offset + 1
          /\ NoSemi(source, b + 1, offset + 1)
          /\ UNCHANGED <<session, source, finished, delivered>>
      <4> HIDE DEF open, before
      <4> QED BY <1>1, <2>1, <2>5, <2>10, <2>13, <3>1, <3>2
    <3>5. IF Spoken(source, a, offset + 1) = <<>>
          THEN IF lastToken' = "semi" THEN lemon'.top = "bare"
               ELSE lastToken' = "none" /\ lemon'.top = "none"
          ELSE /\ lastToken' = "other"
               /\ lemon'.top = Shape(Spoken(source, a, offset + 1))
               /\ Shape(Spoken(source, a, offset + 1)) # "broken"
      <4>1. Spoken(source, a, offset + 1) = w
        BY <2>5, <2>13
      <4> HIDE DEF w, before
      <4> QED BY <2>1, <3>1, <4>1
    <3>6. FedInv'
      BY ONLY <1>1, <2>1, <2>3, <2>6, <3>4, <3>5, FedReadsOn
    <3> QED BY <3>3, <3>6
  <2>14. CASE t \notin Comments
    <3>1. IF y.completed /\ ~y.error /\ (real \/ hadError)
          THEN /\ lemon' = IF real THEN Reinit(shifted) ELSE shifted
               /\ lastToken' = IF real THEN "none" ELSE LastOf(t)
               /\ stmt' = [recorded EXCEPT !.hadError = FALSE]
               /\ Deliver(BoundaryStatus(hadError), y, recorded, i)
               /\ pendingReset' = TRUE
          ELSE /\ lemon' = shifted /\ lastToken' = LastOf(t)
               /\ stmt' = recorded /\ pendingReset' = FALSE
               /\ delivered' = delivered
      BY <2>14 DEF FeedToken
    <3>2. /\ before \in LemonType /\ before.errcnt = -1 /\ ~before.completed
          /\ ~before.error /\ before.root = NoRoot
          /\ before.top \in {"none", "bare", "select", "drop", "cmd", "aliased"}
          /\ Start(before.top) = Shape(w)
      <4>1. /\ Shape(w) = "none" <=> w = <<>>
            /\ Shape(w) \in {"none", "select", "drop", "cmd", "aliased", "broken"}
        BY <2>4, ShapeNone
      <4> HIDE DEF w, before
      <4> QED BY <2>1, <4>1 DEF Unharmed, Start
    <3>3. ASSUME ~y.error, ~real, y.errcnt = -1,
                 t = "semi" => w = <<>> /\ y.top = "bare",
                 t # "semi" => y.top = Shape(Append(w, t)) /\ y.top # "broken"
          PROVE  Stream!Feed /\ FedInv'
      <4>1. ~hadError
        BY <2>1, <3>3
      <4>2. /\ lemon' = shifted /\ lastToken' = LastOf(t)
            /\ stmt' = recorded /\ pendingReset' = FALSE
            /\ delivered' = delivered
        BY <3>1, <3>3, <4>1
      <4>3. ~(t = "semi" /\ Stream!Waiting(i))
        BY <2>5, <2>8, <3>3
      <4>4. Stream!Feed
        BY <1>2, <2>12, <4>2, <4>3
      <4>5. /\ lemon'.top = y.top /\ Unharmed(lemon')
        <5>1. /\ shifted.top = y.top /\ shifted.errcnt = y.errcnt
              /\ shifted.root = y.root /\ ~shifted.error /\ ~shifted.completed
          <6> HIDE DEF y
          <6> QED BY <2>9, <3>3, LoweredIs
        <5> HIDE DEF y, shifted
        <5> QED BY <3>3, <4>2, <5>1 DEF Unharmed
      <4>6. /\ stmt'.from = a /\ stmt'.tokens = Places(source, a, offset + 1)
            /\ ~stmt'.comment /\ ~stmt'.hadError
            /\ ~pendingReset' /\ offset' = offset + 1
            /\ UNCHANGED <<session, source, finished, delivered>>
        <5> HIDE DEF open, recorded, hadError
        <5> QED BY <1>1, <2>1, <2>5, <2>11, <2>14, <4>1, <4>2
      <4>7. CASE t = "semi"
        <5>1. Spoken(source, a, i) = <<>>
          BY <2>5, <3>3, <4>7
        <5>2. /\ i = 0 \/ source[i] = "semi"
              /\ NoSemi(source, i + 1, offset + 1)
              /\ \A k \in a..i : source[k] \in Comments \cup {"semi"}
          <6>1. \A k \in (i + 1)..(offset + 1) : FALSE
            BY <1>1
          <6>2. \A k \in a..i : source[k] \in Comments \cup {"semi"}
            <7>1. /\ source \in Seq(Tokens) /\ a \in Nat \ {0} /\ i \in (a - 1)..Len(source)
              BY <1>1, <2>3
            <7> HIDE DEF a, i
            <7> QED BY ONLY <5>1, <7>1, WordsOf
          <6> QED BY <4>7, <6>1, <6>2 DEF NoSemi
        <5>3. IF Spoken(source, a, offset + 1) = <<>>
              THEN IF lastToken' = "semi" THEN lemon'.top = "bare"
                   ELSE lastToken' = "none" /\ lemon'.top = "none"
              ELSE /\ lastToken' = "other"
                   /\ lemon'.top = Shape(Spoken(source, a, offset + 1))
                   /\ Shape(Spoken(source, a, offset + 1)) # "broken"
          BY <3>3, <4>2, <4>5, <4>7, <5>1 DEF LastOf
        <5>4. FedInv'
          BY ONLY <1>1, <2>1, <2>3, <4>5, <4>6, <5>2, <5>3, FedReadsOn
        <5> QED BY <4>4, <5>4
      <4>8. CASE t # "semi"
        <5>1. Spoken(source, a, i) = Append(w, t)
          BY <2>5, <2>14, <4>8
        <5>2. NoSemi(source, b + 1, offset + 1)
          BY <2>10, <4>8
        <5>3. IF Spoken(source, a, offset + 1) = <<>>
              THEN IF lastToken' = "semi" THEN lemon'.top = "bare"
                   ELSE lastToken' = "none" /\ lemon'.top = "none"
              ELSE /\ lastToken' = "other"
                   /\ lemon'.top = Shape(Spoken(source, a, offset + 1))
                   /\ Shape(Spoken(source, a, offset + 1)) # "broken"
          <6>1. lastToken' = "other"
            BY <4>2, <4>8 DEF LastOf
          <6> DEFINE v == Append(w, t)
          <6>2. v # <<>>
            <7> HIDE DEF w, t
            <7> QED BY <1>1, <2>4, AppendNotEmpty
          <6>3. Spoken(source, a, offset + 1) = v /\ lemon'.top = Shape(v) /\ Shape(v) # "broken"
            BY <3>3, <4>5, <4>8, <5>1
          <6> HIDE DEF v
          <6> QED BY <6>1, <6>2, <6>3
        <5>4. FedInv'
          BY ONLY <1>1, <2>1, <2>3, <2>6, <4>5, <4>6, <5>2, <5>3, FedReadsOn
        <5> QED BY <4>4, <5>4
      <4> QED BY <4>7, <4>8
    <3>4. CASE t # "semi"
      <4>1. Shape(Append(w, t)) = Continued(Shape(w), t)
        <5> HIDE DEF w, t
        <5> QED BY <1>1, <2>4, ShapeStep
      <4>2. Continued(Shape(w), t) # "broken"
        <5>1. SUFFICES ASSUME Continued(Shape(w), t) = "broken" PROVE FALSE
          OBVIOUS
        <5>2. Shape(Spoken(source, b + 1, i)) = "broken"
          <6>1. Spoken(source, b + 1, i) = Append(w, t)
            BY <2>5, <2>7, <2>14, <3>4
          <6> HIDE DEF w
          <6> QED BY <4>1, <5>1, <6>1
        <5>3. /\ b + 1 = 1 \/ source[(b + 1) - 1] = "semi"
              /\ NoSemi(source, b + 1, i)
          BY <2>3, <2>6, <2>10, <3>4
        <5>4. source \in Seq(Tokens) /\ b + 1 \in 1..Len(source) /\ i \in (b + 1)..Len(source)
          BY <1>1, <2>3
        <5> HIDE DEF i
        <5>5. Stream!Lost(i)
          BY ONLY <5>2, <5>3, <5>4, LostInside
        <5> QED BY <1>5, <5>5
      <4>3. /\ y.top = Continued(Shape(w), t) /\ y.errcnt = -1 /\ y.root = before.root
            /\ ~y.error
        <5>1. t \in Tokens \ (Comments \cup {"semi"})
          BY <1>1, <2>14, <3>4
        <5> HIDE DEF t, before, w, i
        <5> QED BY <3>2, <4>2, <5>1, FedWord
      <4> QED BY <3>2, <3>3, <3>4, <4>1, <4>2, <4>3
    <3>5. CASE t = "semi" /\ w = <<>>
      <4>1. before.top \in {"none", "bare"} /\ Kind(t) = "semi"
        BY <1>1, <2>1, <3>5, KindOf
      <4>2. y.top = "bare" /\ y.errcnt = -1 /\ y.root = before.root /\ ~y.error
        <5>1. y = FeedLemon(before, "semi", i)
          BY <4>1
        <5> HIDE DEF before, y, i
        <5> QED BY <3>2, <4>1, <5>1, FedSemicolon
      <4> QED BY <3>2, <3>3, <3>5, <4>2
    <3>6. CASE t = "semi" /\ w # <<>>
      <4>1. Spoken(source, a, i) = w /\ Spoken(source, b + 1, i) = w
        BY <2>5, <2>7, <3>6
      <4>2. Shape(w) \in Complete
        <5>1. SUFFICES ASSUME Shape(w) \notin Complete PROVE FALSE
          OBVIOUS
        <5>2. Shape(Spoken(source, b + 1, i)) \notin Complete
          <6> HIDE DEF w
          <6> QED BY <4>1, <5>1
        <5>3. /\ b + 1 = 1 \/ source[(b + 1) - 1] = "semi"
              /\ NoSemi(source, b + 1, i - 1)
              /\ source[i] = "semi" \/ i = Len(source)
          BY <2>3, <2>6, <3>6
        <5>4. source \in Seq(Tokens) /\ b + 1 \in 1..Len(source) /\ i \in (b + 1)..Len(source)
          BY <1>1, <2>3
        <5> HIDE DEF i
        <5>5. Stream!Lost(i)
          BY ONLY <5>2, <5>3, <5>4, LostAtTheEnd
        <5> QED BY <1>5, <5>5
      <4>3. before.top \in {"cmd", "aliased"} /\ Kind(t) = "semi"
        <5>1. Shape(w) # "none"
          BY <2>4, <3>6, ShapeNone
        <5>2. before.top = Shape(w)
          BY <2>1, <3>6
        <5> QED BY <1>1, <3>6, <4>2, <5>1, <5>2, KindOf DEF Complete
      <4>4. y.completed /\ ~y.error /\ real
        <5>1. y = FeedLemon(before, "semi", i)
          BY <4>3
        <5> HIDE DEF before, y, i
        <5> QED BY <3>2, <4>3, <5>1, FedSemicolon
      <4>5. ~hadError
        BY <2>1, <4>4
      <4>6. /\ lemon' = Reinit(shifted) /\ lastToken' = "none" /\ pendingReset'
            /\ Deliver("OK", y, recorded, i)
        BY <3>1, <4>4, <4>5 DEF BoundaryStatus
      <4> DEFINE r == Result("OK", y, recorded, i)
      <4>7. /\ r \in Outcome /\ delivered' = Append(delivered, r)
            /\ r.status = "OK" /\ r.root = y.root /\ r.from = a
            /\ r.to = i /\ r.tokens = Places(source, a, i)
        <5>1. "OK" \in Statuses
          BY DEF Statuses
        <5>2. /\ recorded.from = a
              /\ recorded.tokens = Places(source, a, i)
          BY <2>1, <2>5, <2>11, <2>14
        <5> HIDE DEF y, recorded, i, a
        <5> QED BY <1>1, <2>9, <2>11, <4>6, <5>1, <5>2, ResultIs
      <4> HIDE DEF r
      <4>8. Views' = Append(Views, View(r)) /\ Taken' = i
        <5>1. delivered \in Seq(Outcome)
          BY <1>1 DEF TypeOK
        <5> HIDE DEF i
        <5> QED BY <4>7, <5>1, ViewsGrow
      <4>9. View(r) = Stream!FedOk(i)
        <5>1. r.root # NoRoot
          BY <4>4, <4>7
        <5> HIDE DEF i
        <5> QED BY <1>1, <2>3, <4>7, <5>1, FedOkIs
      <4>10. Stream!Feed
        <5>1. Stream!Waiting(i)
          BY <2>8, <3>6, <4>1
        <5> QED BY <1>2, <3>6, <4>8, <4>9, <5>1
      <4>11. FedInv'
        <5>1. Reset(lemon')
          BY <4>6 DEF Reset, Reinit, Fresh
        <5>2. BetweenStatements'
          BY <1>1, <4>6, <4>8, <5>1 DEF BetweenStatements
        <5>3. Taken' \in 0..offset' /\ source'[Taken'] = "semi"
          BY <1>1, <3>6, <4>8
        <5> QED BY <4>6, <5>2, <5>3 DEF FedInv
      <4> QED BY <4>10, <4>11
    <3> QED BY <3>4, <3>5, <3>6
  <2> QED BY <2>13, <2>14
<1> QED BY <1>4, <1>5

LEMMA FeedFinishIs ==
    ASSUME IInv, FedInv, FeedFinish
    PROVE  Stream!Finish /\ FedInv'
<1> DEFINE a == Taken + 1
           w == Spoken(source, a, offset)
           status == FinishInput.status
           y == FinishInput.lemon
           r == Result(status, y, stmt, offset)
<1>1. /\ TypeOK /\ session = "incremental" /\ ~finished /\ source \in Seq(Tokens)
      /\ offset = Len(source) /\ offset \in Nat /\ finished' = TRUE
      /\ UNCHANGED <<lookup, session, source, offset>>
      /\ pendingReset => delivered' = delivered
      /\ ~pendingReset => Deliver(status, y, stmt, offset)
  <2>1. TypeOK
    BY DEF IInv
  <2> QED BY <2>1 DEF FeedFinish, handle, TypeOK
<1>2. FedInv'
  BY <1>1 DEF FedInv
<1>3. /\ Stream!Lost(offset) \/ Views' = (IF Stream!Waiting(offset)
                                          THEN Append(Views, Stream!FedOk(offset)) ELSE Views)
         => Stream!Finish
  BY <1>1 DEF Stream!Finish, Views
<1>4. CASE Stream!Lost(offset)
  BY <1>2, <1>3, <1>4
<1>5. CASE ~Stream!Lost(offset)
  <2>1. /\ Taken \in 0..offset /\ (Taken = 0 \/ source[Taken] = "semi")
        /\ IF pendingReset THEN BetweenStatements ELSE FedReads
    BY <1>1, <1>5 DEF FedInv
  <2>2. /\ Taken \in Nat /\ a \in Nat \ {0} /\ offset \in Taken..Len(source)
        /\ offset <= Len(source)
    BY <1>1, <2>1
  <2>3. Stream!Waiting(offset) <=> w # <<>>
    BY <1>1, <2>2, WaitingIs
  <2>4. w \in Seq(Tokens)
    BY <1>1, <2>2, SpokenType
  <2>5. delivered' = delivered => Views' = Views
    BY DEF Views
  <2>6. CASE pendingReset
    <3>1. w = <<>>
      <4>1. offset < a
        BY <2>1, <2>2, <2>6 DEF BetweenStatements
      <4> QED BY <1>1, <2>2, <4>1, SpokenNone
    <3>2. Views' = Views
      BY <1>1, <2>5, <2>6
    <3> HIDE DEF w
    <3> QED BY <1>2, <1>3, <2>3, <3>1, <3>2
  <2>7. CASE ~pendingReset
    <3>1. /\ stmt.from = IF Taken < offset THEN a ELSE 0
          /\ stmt.tokens = Places(source, a, offset)
          /\ ~stmt.comment /\ ~stmt.hadError /\ Unharmed(lemon)
          /\ \E b \in Taken..offset : Begins(b)
          /\ IF w = <<>>
             THEN IF lastToken = "semi" THEN lemon.top = "bare"
                  ELSE lastToken = "none" /\ lemon.top = "none"
             ELSE lastToken = "other" /\ lemon.top = Shape(w) /\ Shape(w) # "broken"
      BY <2>1, <2>7 DEF FedReads
    <3>2. lemon \in LemonType /\ stmt \in StmtType
      BY <1>1 DEF TypeOK
    <3>3. CASE w = <<>>
      <4>1. status \notin Statuses
        <5>1. CASE lastToken = "none"
          BY <3>1, <5>1 DEF FinishInput, Statuses
        <5>2. CASE lastToken = "semi"
          <6>1. lemon.top = "bare"
            BY <3>1, <3>3, <5>2
          <6>2. ~FeedEnd(lemon).error /\ FeedEnd(lemon).root = NoRoot
            <7>1. ReducePending(lemon).list
              BY <3>2, <6>1 DEF ReducePending, Pending, LemonType, LemonRecord
            <7> QED BY <6>1, <7>1 DEF FeedEnd, Fresh
          <6>3. FinishInput.status =
                  IF FeedEnd(lemon).error \/ stmt.hadError THEN "ERROR"
                  ELSE IF FeedEnd(lemon).root # NoRoot THEN "OK" ELSE "DONE"
            BY <5>2 DEF FinishInput
          <6> QED BY <3>1, <6>2, <6>3 DEF Statuses
        <5> QED BY <3>1, <3>3, <5>1, <5>2
      <4> HIDE DEF status, y
      <4>2. delivered' = delivered
        BY <1>1, <2>7, <4>1 DEF Deliver
      <4> QED BY <1>2, <1>3, <2>3, <2>5, <3>3, <4>2
    <3>4. CASE w # <<>>
      <4> DEFINE z == Shifted("semi", 0)
                 before == lemon
      <4>1. lastToken = "other" /\ lemon.top = Shape(w) /\ Shape(w) # "broken"
        BY <3>1, <3>4
      <4>2. PICK b \in Taken..offset : Begins(b)
        BY <3>1
      <4>3. /\ b = 0 \/ source[b] = "semi"
            /\ NoSemi(source, b + 1, offset)
            /\ \A k \in a..b : source[k] \in Comments \cup {"semi"}
            /\ b \in Nat /\ b \in (a - 1)..Len(source) /\ offset \in b..Len(source)
        BY <1>1, <2>2, <4>2 DEF Begins
      <4>4. w = Spoken(source, b + 1, offset)
        <5> HIDE DEF a
        <5> QED BY <1>1, <2>2, <4>3, SaidSince
      <4>5. b < offset /\ Taken < offset
        <5>1. ~(offset < b + 1)
          BY <1>1, <3>4, <4>3, <4>4, SpokenNone
        <5> QED BY <1>1, <2>2, <4>2, <4>3, <5>1
      <4>6. Shape(w) \in Complete
        <5>1. SUFFICES ASSUME Shape(w) \notin Complete PROVE FALSE
          OBVIOUS
        <5>2. Shape(Spoken(source, b + 1, offset)) \notin Complete
          <6> HIDE DEF w
          <6> QED BY <4>4, <5>1
        <5>3. /\ b + 1 = 1 \/ source[(b + 1) - 1] = "semi"
              /\ NoSemi(source, b + 1, offset - 1)
              /\ source[offset] = "semi" \/ offset = Len(source)
          <6>1. \A k \in (b + 1)..(offset - 1) : k \in (b + 1)..offset
            BY <1>1
          <6> QED BY <1>1, <4>3, <6>1 DEF NoSemi
        <5>4. source \in Seq(Tokens) /\ b + 1 \in 1..Len(source) /\ offset \in (b + 1)..Len(source)
          BY <1>1, <4>3, <4>5
        <5>5. Stream!Lost(offset)
          BY ONLY <5>2, <5>3, <5>4, LostAtTheEnd
        <5> QED BY <1>5, <5>5
      <4>7. z.done /\ ~z.hadError /\ z.lemon.root # NoRoot
        <5>1. lemon.top \in {"cmd", "aliased"}
          <6>1. Shape(w) # "none"
            BY <2>4, <3>4, ShapeNone
          <6> QED BY <4>1, <4>6, <6>1 DEF Complete
        <5> DEFINE q == FeedLemon(lemon, "semi", 0)
        <5>2. q.completed /\ ~q.error /\ q.root # NoRoot
          BY <3>1, <3>2, <5>1, FedSemicolon DEF Unharmed
        <5>3. /\ z.lemon.root = q.root /\ z.hadError = (stmt.hadError \/ q.error)
              /\ z.done = (q.completed /\ ~q.error)
          <6>1. Kind("semi") = "semi" /\ 0 \in Nat
            BY NamesAssumption DEF Kind
          <6> QED BY <1>1, <6>1, ShiftedIs
        <5> HIDE DEF q, z
        <5> QED BY <3>1, <5>2, <5>3
      <4>8. status = "OK" /\ y.root = z.lemon.root
        BY <1>1, <4>1, <4>7, FinishInputIs
      <4>9. y \in LemonType
        BY <1>1, FinishInputType
      <4> HIDE DEF status, y, z, w
      <4>10. /\ r \in Outcome /\ delivered' = Append(delivered, r)
             /\ r.status = "OK" /\ r.root = y.root /\ r.from = a
             /\ r.to = offset /\ r.tokens = Places(source, a, offset)
        <5>1. status \in Statuses /\ Deliver(status, y, stmt, offset) /\ stmt.from = a
          BY <1>1, <2>7, <3>1, <4>5, <4>8 DEF Statuses
        <5> HIDE DEF a
        <5> QED BY <1>1, <3>1, <3>2, <4>8, <4>9, <5>1, ResultIs
      <4> HIDE DEF r
      <4>11. Views' = Append(Views, View(r))
        BY <1>1, <4>10, ViewsGrow DEF TypeOK
      <4>12. View(r) = Stream!FedOk(offset)
        <5>1. r.root # NoRoot
          BY <4>7, <4>8, <4>10
        <5> QED BY <1>1, <2>2, <4>10, <5>1, FedOkIs
      <4> QED BY <1>2, <1>3, <2>3, <3>4, <4>11, <4>12
    <3> QED BY <3>3, <3>4
  <2> QED BY <2>6, <2>7
<1> QED BY <1>4, <1>5

----------------------------------------------------------------------------
(* The two sessions together                                                *)

(* A cursor reads a text without macro calls: no token with a "!".          *)
WithoutCalls ==
    session = "cursor" => \A k \in 1..Len(source) : source[k] \notin Bangs

StreamInv == IInv /\ CursorInv /\ FedInv

LEMMA StreamInit == Init => Stream!Init /\ StreamInv
<1> SUFFICES ASSUME Init
             PROVE  Stream!Init /\ StreamInv
  OBVIOUS
<1>1. Views = <<>>
  BY DEF Init, Views
<1>2. Stream!Init
  BY <1>1 DEF Init, Stream!Init, Views
<1> QED BY <1>2, InitInv DEF Init, StreamInv, CursorInv, FedInv

LEMMA OpenIs ==
    ASSUME IInv, NEW kind \in {"cursor", "incremental"},
           CanOpen, \E text \in Sources[lookup][sessions + 1] : Open(kind, text)
    PROVE  Stream!Open /\ CursorInv' /\ FedInv'
<1>1. PICK text \in Sources[lookup][sessions + 1] : Open(kind, text)
  OBVIOUS
<1>2. text \in Seq(Tokens) /\ session = "none" /\ pc = "idle"
  BY SourcesAssumption DEF CanOpen, IInv, TypeOK, InCall
<1>3. /\ session' = kind /\ source' = text /\ lemon' = Fresh /\ lastToken' = "none"
      /\ stmt' = EmptyStmt /\ offset' = 0 /\ finished' = FALSE
      /\ pendingReset' = FALSE /\ delivered' = <<>> /\ lookup' = lookup /\ pc' = "idle"
  BY <1>1, <1>2, ReopenedIsFresh DEF Open
<1>4. Views' = <<>> /\ Taken' = 0
  BY <1>3 DEF Views, Taken
<1>5. Stream!Open
  BY <1>2, <1>3, <1>4 DEF Stream!Open, Views, Tokens, Comments, Bangs
<1>6. Reset(lemon') /\ Unharmed(lemon') /\ lemon'.top = "none"
  BY <1>3 DEF Reset, Unharmed, Fresh
<1>7. BetweenStatements'
  BY <1>3, <1>4, <1>6 DEF BetweenStatements
<1>8. Spoken(text, 0 + 1, 0) = <<>> /\ Places(text, 0 + 1, 0) = <<>>
  BY <1>2, SpokenNone, PlacesNone
<1>9. Begins(0)'
  <2>1. \A k \in (0 + 1)..0 : FALSE
    OBVIOUS
  <2> QED BY <1>3, <1>4, <2>1 DEF Begins, NoSemi
<1>10. FedReads'
  <2>1. 0 \in Taken'..offset' /\ Taken' = offset'
    BY <1>3, <1>4
  <2>2. /\ Spoken(source', Taken' + 1, offset') = <<>>
        /\ Places(source', Taken' + 1, offset') = <<>>
    BY <1>3, <1>4, <1>8
  <2>3. /\ stmt'.from = 0 /\ stmt'.tokens = <<>> /\ ~stmt'.comment /\ ~stmt'.hadError
    BY <1>3 DEF EmptyStmt
  <2> QED BY <1>3, <1>4, <1>6, <1>9, <2>1, <2>2, <2>3 DEF FedReads
<1>11. Taken' \in 0..offset'
  BY <1>3, <1>4
<1> QED BY <1>3, <1>4, <1>5, <1>7, <1>10, <1>11 DEF CursorInv, FedInv

LEMMA CloseIs ==
    ASSUME Close
    PROVE  Stream!Close /\ CursorInv' /\ FedInv'
BY DEF Close, Stream!Close, CursorInv, FedInv

LEMMA StutterIs ==
    ASSUME CursorInv, FedInv, UNCHANGED vars
    PROVE  UNCHANGED Stream!vars /\ CursorInv' /\ FedInv'
<1>1. UNCHANGED <<lookup, session, source, offset, lemon, lastToken, stmt, finished,
                  pendingReset, pc, delivered>>
  BY DEF vars, handle
<1>2. UNCHANGED Stream!vars
  BY <1>1 DEF Stream!vars
<1>3. CursorInv'
  BY <1>1 DEF CursorInv, CursorReads, BetweenStatements, Taken
<1>4. FedInv'
  BY <1>1 DEF FedInv, FedReads, BetweenStatements, Begins, Taken, Stream!Lost,
              Stream!SemiAfter
<1> QED BY <1>2, <1>3, <1>4

LEMMA StreamStep ==
    ASSUME StreamInv, WithoutCalls, [Next]_vars
    PROVE  [Stream!Next]_(Stream!vars) /\ StreamInv'
<1>1. IInv /\ CursorInv /\ FedInv /\ IInv'
  BY StepInv DEF StreamInv
<1>2. CASE OpenCursor \/ OpenIncremental
  <2>1. \E kind \in {"cursor", "incremental"} :
           /\ CanOpen
           /\ \E text \in Sources[lookup][sessions + 1] : Open(kind, text)
    BY <1>2 DEF OpenCursor, OpenIncremental
  <2> QED BY <1>1, <2>1, OpenIs DEF Stream!Next, StreamInv
<1>3. CASE Close
  BY <1>1, <1>3, CloseIs DEF Stream!Next, StreamInv
<1>4. CASE UNCHANGED vars
  BY <1>1, <1>4, StutterIs DEF StreamInv
<1>5. CASE Feed
  <2>1. CursorInv'
    BY <1>5 DEF Feed, FeedToken, FeedFinish, CursorInv, handle
  <2>2. (Stream!Feed \/ Stream!Finish) /\ FedInv'
    BY <1>1, <1>5, FeedTokenIs, FeedFinishIs DEF Feed
  <2> QED BY <1>1, <2>1, <2>2 DEF Stream!Next, StreamInv
<1>6. CASE ParseNext
  <2>1. /\ session = "cursor" /\ session' = "cursor"
        /\ pc = "idle" => BeginNext
    BY <1>1, <1>6 DEF ParseNext, BeginNext, NextComment, NextToken, NextUnknownCall,
       NextFailedCall, NextCall, NextFallback, NextEnd, Expand, EndBody, FeedBody,
       EnterNested, Fail, Unwind, handle, IInv, InCall
  <2>2. FedInv'
    BY <2>1 DEF FedInv
  <2>3. source \in Seq(Unbanged) /\ pc \in {"idle", "next"}
    <3>1. source \in Seq(Tokens) /\ \A k \in 1..Len(source) : source[k] \notin Bangs
      BY <1>1, <2>1 DEF IInv, TypeOK, WithoutCalls
    <3>2. source \in Seq(Unbanged)
      BY <3>1 DEF Unbanged
    <3> QED BY <1>1, <2>1, <3>2 DEF CursorInv
  <2>4. ~IsCall(source, offset + 1)
    <3>1. offset + 1 \in Nat \ {0}
      BY <1>1 DEF IInv, TypeOK
    <3> QED BY <2>3, <3>1, NoCall
  <2>5. BeginNext \/ NextComment \/ NextToken \/ NextEnd
    BY <1>6, <2>3, <2>4
       DEF ParseNext, NextUnknownCall, NextFailedCall, NextCall, NextFallback,
           Expand, EndBody, FeedBody, EnterNested, Fail, Unwind
  <2>6. /\ \/ UNCHANGED Stream!vars \/ Stream!DeliverStatement
           \/ Stream!DeliverPart \/ Stream!End
        /\ CursorInv'
    BY <1>1, <2>3, <2>5, BeginNextIs, NextCommentIs, NextTokenIs, NextEndIs
  <2> QED BY <1>1, <2>2, <2>6 DEF Stream!Next, StreamInv
<1> QED BY <1>2, <1>3, <1>4, <1>5, <1>6 DEF Next

(* Both sessions hand out what is promised of them (StatementStream): a     *)
(* session that is fed on every text, a cursor on every text that has no    *)
(* macro call.  Whatever the sessions before left behind, each well-formed  *)
(* statement is handed out once, in order, with its text, its tokens and    *)
(* its tree; an error never reaches past its semicolon.                     *)
THEOREM StreamWithoutCalls == Spec /\ []WithoutCalls => ImplementsStream
<1>1. StreamInv /\ WithoutCalls /\ [Next]_vars
        => [Stream!Next]_(Stream!vars) /\ StreamInv'
  BY StreamStep
<1> QED BY <1>1, StreamInit, PTL DEF Spec, ImplementsStream, Stream!Spec
=============================================================================
