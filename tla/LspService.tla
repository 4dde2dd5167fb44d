------------------------------ MODULE LspService ------------------------------
(***************************************************************************)
(* What an editor host promises: every answer is computed from the         *)
(* documents and the schema as they are, as if nothing were ever cached.   *)
(* Two parts of an answer are left open, because the host does not bind    *)
(* them: which of the registered schema files a navigation knows of, and,  *)
(* for some requests, the catalog the offered names come from.             *)
(***************************************************************************)
EXTENDS LspData

VARIABLES svc, reply

absVars == <<svc, reply>>

(* The analyses of the documents us, each with the schema files it knows.  *)
Known == [Open(svc) -> SUBSET svc.defs]
Shown(us, known) ==
  [u \in us |-> [Analysed(svc, u) EXCEPT !.defs = known[u]]]

(* The names of the user's schema and of the document u. *)
NamesFor(u) == [base |-> svc.base, ddl |-> svc.docs[u]]

(* Asked about a document, the host shows that document. *)
AbsAnswer ==
  /\ UNCHANGED svc
  /\ reply'.query \in AnalysisQuery \cup {"tokens"}
  /\ \E u \in Uri, known \in Known :
       reply' = Reply(reply'.query, u, Shown(Open(svc) \cap {u}, known), None)

(* Asked about a symbol, it shows every open document, or none when there   *)
(* is no symbol at the cursor.                                              *)
AbsAnswerAll ==
  /\ UNCHANGED svc
  /\ reply'.query \in AllQuery
  /\ \E u \in Uri, known \in Known :
       \/ reply' = Reply(reply'.query, u, Nothing, None)
       \/ /\ u \in Open(svc)
          /\ reply' = Reply(reply'.query, u, Shown(Open(svc), known), None)

(* Completion offers the names of the schema and of the document.           *)
AbsComplete ==
  /\ UNCHANGED svc
  /\ reply'.query = "completion"
  /\ \E u \in Open(svc), known \in Known, names \in Names :
       /\ SlotOf(svc, u) = "user" => names = NamesFor(u)
       /\ reply' = Reply("completion", u, Shown({u}, known), names)

(* Signature help, and the list of functions: only the schema is promised.  *)
AbsOfferFunctions ==
  /\ UNCHANGED svc
  /\ reply'.query = "functions"
  /\ \E us \in SUBSET Open(svc), known \in Known, ddl \in {None} \cup Doc :
       \E u \in {None} \cup us :
         reply' = Reply("functions", u, Shown(us, known),
                        [base |-> svc.base, ddl |-> ddl])

(* Diagnostics on demand: the parse errors of the document, and an analysis *)
(* with the user's schema, whatever the schema map says.                    *)
AbsAllDiagnostics ==
  /\ UNCHANGED svc
  /\ reply'.query = "allDiagnostics"
  /\ \E u \in Open(svc), known \in Known :
       reply' = Reply("allDiagnostics", u, Shown({u}, known), NamesFor(u))

AbsEdit ==
  /\ \E u \in Uri, d \in {None} \cup Doc : svc' = [svc EXCEPT !.docs[u] = d]
  /\ reply' = NoReply

AbsConfigure ==
  /\ \/ \E b \in Base : svc' = [svc EXCEPT !.base = b]
     \/ \E m \in Maps : svc' = [svc EXCEPT !.map = m]
     \/ \E c \in Configs : svc' = [svc EXCEPT !.config = c]
     \/ \E f \in Source : svc' = [svc EXCEPT !.defs = @ \cup {f}]
     \/ \E b \in Base, f \in Source :
          svc' = [docs |-> svc.docs, base |-> b, map |-> svc.map,
                  config |-> svc.config, defs |-> svc.defs \cup {f}]
  /\ reply' = NoReply

AbsInit ==
  /\ svc = [docs |-> [u \in Uri |-> None], base |-> DialectOnly, map |-> None,
            config |-> DefaultConfig, defs |-> {}]
  /\ reply = NoReply

AbsNext ==
  \/ AbsAnswer \/ AbsAnswerAll \/ AbsComplete \/ AbsOfferFunctions
  \/ AbsAllDiagnostics \/ AbsEdit \/ AbsConfigure

AbsSpec == AbsInit /\ [][AbsNext]_absVars
=============================================================================
