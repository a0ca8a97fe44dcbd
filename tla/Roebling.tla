------------------------------ MODULE Roebling ------------------------------
(* Roebling of ext/parser/roebling.c: an incremental parser.  Its steps each *)
(* set the patterns that may come next; the first that matches is captured  *)
(* and says, by its jump, which step is next.  Text comes in pieces: a feed  *)
(* adds a segment to the vector the cursor reads and Roebling_Run goes on    *)
(* until the cursor is at the end.                                           *)
(*                                                                           *)
(* A grammar (see Formats) has the names of its steps in order, ended by one *)
(* without patterns, and the patterns of each step.                          *)
EXTENDS Match, Captures

CONSTANTS Cases,      \* the [grammar, text, feed, end, want] a behaviour starts with
          MAX_CUTS    \* pieces beyond the first

VARIABLES case, rest, cuts, curs, rbl
vars == <<case, rest, cuts, curs, rbl>>

(* feed: how the owner of the vector tells the parser that it grew, with    *)
(* Cursor_Add, with Cursor_Update (cmdfile.c) or not at all (http_req.c), or *)
(* that it has all segments before the parser is run (Json_FromPath).       *)
(* end: what the owner does when there is no more text.                     *)
Feeds == {"Cursor_Add", "Cursor_Update", "Buff_Add", "Buff_Read"}
Ends == {"none", "Roebling_Last", "Roebling_Finalize"}

ASSUME CasesAssumption ==
  /\ MAX_CUTS \in Nat
  /\ \A c \in Cases : c.feed \in Feeds /\ c.end \in Ends

Grammar == case.grammar

(* Roebling_SetPattern for every pattern of a step.                        *)
Patterns(step) ==
  LET ps == Grammar.patterns[step]
  IN  [k \in DOMAIN ps |-> Match_Make(ps[k].def, ps[k].key, ps[k].jump)]

Rbl_Make(g) == [kind |-> g.kind, step |-> g.steps[1], state |-> {}, matches |-> <<>>, at |-> 0,
                doc |-> Doc0(g.kind), tokens |-> <<>>, running |-> FALSE, over |-> FALSE]

(* rbl->capture(rbl, key, text), of which only JSON tells of an error.      *)
Capture(r, key, text) ==
  LET d == Captured(r.kind, r.doc, key, text)
  IN  [r EXCEPT !.doc = d, !.tokens = Append(@, <<key, Len(text)>>),
                !.state = @ \union (IF r.kind = "json" THEN IF d.error THEN {"ERROR"} ELSE {} ELSE {})]

-----------------------------------------------------------------------------
(* Roebling_Dispatch: capture, go to the next step, and give the bytes the  *)
(* match saw but does not claim back to the cursor.                         *)
Roebling_Dispatch(r, c, k) ==
  LET mt == r.matches[k]
      sn == mt.backlog[Len(mt.backlog)]
      r1 == [r EXCEPT !.state = (@ \union {"NEXT"}) \ {"PROCESSING"}, !.at = k]
  IN  [rbl  |-> Capture(r1, mt.captureKey, StrVec_Snip(mt.backlog, c)),
       curs |-> IF sn.state = "U" THEN Cursor_Decr(c, sn.length) ELSE c]

(* One byte to every match in turn, up to the first that succeeds: the      *)
(* matches after it are left as they are, and the last one tells whether    *)
(* all of them have given up.                                               *)
FirstIn(ks) == IF ks = {} THEN 0 ELSE CHOOSE k \in ks : \A j \in ks : k <= j
Won(fed) == FirstIn({k \in DOMAIN fed : "SUCCESS" \in fed[k].state})
UpTo(matches, fed, won) ==
  [matches |-> [k \in DOMAIN fed |-> IF won = 0 \/ k <= won THEN fed[k] ELSE matches[k]],
   won     |-> won,
   lost    |-> won = 0 /\ \A k \in DOMAIN fed : "NOOP" \in fed[k].state]
FedOf(matches, fed) == UpTo(matches, fed, Won(fed))
FeedAll(matches, c) == FedOf(matches, [k \in DOMAIN matches |-> Match_Feed(matches[k], c)])

(* A match that goes on over the boundary of a segment marks it.           *)
AtBoundary(matches, c) ==
  [k \in DOMAIN matches |->
     IF "BOUNDRY" \in c.state /\ "PROCESSING" \in matches[k].state
     THEN Match_AddBoundrySnip(matches[k]) ELSE matches[k]]

RECURSIVE Roebling_RunMatches(_, _)
Decide(r, c, fed) ==
  IF fed.won # 0 THEN Roebling_Dispatch([r EXCEPT !.matches = fed.matches], c, fed.won)
  ELSE IF fed.lost
  THEN [rbl |-> [r EXCEPT !.matches = fed.matches, !.state = @ \union {"NOOP", "END", "ERROR"}],
        curs |-> c]
  ELSE Roebling_RunMatches([r EXCEPT !.matches = fed.matches], c)
AtByte(r, c) ==
  IF "END" \in c.state THEN [rbl |-> [r EXCEPT !.state = @ \union {"END"}], curs |-> c]
  ELSE Decide(r, c, FeedAll(AtBoundary(r.matches, c), Byte(c)))
Roebling_RunMatches(r, c) == AtByte(r, Cursor_NextByte(c))

(* Roebling_ResetPatterns and the step's own function, unless the step is   *)
(* being gone on with.                                                      *)
SetStep_Always(r) == [r EXCEPT !.matches = Patterns(r.step), !.state = @ \union {"PROCESSING"}]
SetStep(r) ==
  IF "PROCESSING" \in r.state THEN r
  ELSE [r EXCEPT !.matches = Patterns(r.step), !.state = @ \union {"PROCESSING"}]

NextStep(r) ==
  IF "NEXT" \in r.state
  THEN [r EXCEPT !.step = r.matches[r.at].jump, !.state = @ \ {"NEXT"}]
  ELSE r

(* Roebling_RunCycle.                                                      *)
AtStep(r, c) ==
  IF r.step \in DOMAIN Grammar.patterns THEN Roebling_RunMatches(SetStep(r), c)
  ELSE [rbl |-> [r EXCEPT !.state = {"SUCCESS"}], curs |-> c]
RunCycle(r, c) == AtStep(NextStep([r EXCEPT !.state = @ \ {"END"}]), c)

(* Roebling_Run returns once a cycle says so, and forgets END.             *)
Stopping == {"SUCCESS", "ERROR", "END", "NOOP"}
Returned(x) == IF x.rbl.state \intersect Stopping = {} THEN x
               ELSE [x EXCEPT !.rbl.state = @ \ {"END"}, !.rbl.running = FALSE]

(* Roebling_Run as one function, for the text in one piece.                *)
RECURSIVE RunAll(_)
RunAll(x) == IF x.rbl.running THEN RunAll(Returned(RunCycle(x.rbl, x.curs))) ELSE x

(* Roebling_Finalize without a match: the bytes of a last term that was    *)
(* still being matched are captured from where the cursor ended.            *)
Finalized(r, c) ==
  LET k  == FirstIn({j \in DOMAIN r.matches : "LAST_TERM" \in r.matches[j].state})
      mt == SnipSpan_Add(r.matches[k])
  IN  IF k = 0 THEN r
      ELSE Capture([r EXCEPT !.matches[k] = Without(mt, {"LAST_TERM"})], mt.captureKey,
                   StrVec_Snip(mt.backlog, c))

(* Roebling_Last: a NUL to each match that has begun, up to one that it     *)
(* completes.                                                               *)
Begun(mt) == "PROCESSING" \in mt.state
LastFed(r, c, fed, won) ==
  IF won = 0 THEN [rbl |-> [r EXCEPT !.matches = fed], curs |-> c]
  ELSE Roebling_Dispatch([r EXCEPT !.matches = fed], c, won)
LastOf(r, c, fed) ==
  LastFed(r, c, fed, FirstIn({k \in DOMAIN fed : Begun(r.matches[k]) /\ "SUCCESS" \in fed[k].state}))
Lasted(r, c) ==
  LastOf(r, c, [k \in DOMAIN r.matches |->
                  IF Begun(r.matches[k]) THEN Match_Feed(r.matches[k], NUL) ELSE r.matches[k]])

-----------------------------------------------------------------------------
Init ==
  /\ case \in Cases
  /\ rest = case.text /\ cuts = 0
  /\ curs = Cursor_Setup(<<>>)
  /\ rbl = Rbl_Make(case.grammar)

(* More text: it is added to the vector, and the owner calls Roebling_Run,  *)
(* which does nothing when the cursor is at its end.                        *)
FeedBy(piece) ==
  CASE case.feed = "Cursor_Add"    -> Cursor_Add(curs, piece)
    [] case.feed = "Cursor_Update" -> Cursor_Update([curs EXCEPT !.v = Append(@, piece)])
    [] OTHER                       -> [curs EXCEPT !.v = Append(@, piece)]

Feed ==
  /\ ~rbl.running /\ rest # <<>>
  /\ rbl.state \intersect {"SUCCESS", "ERROR"} = {}
  /\ \E n \in 1 .. Len(rest) :
       /\ n < Len(rest) => cuts < MAX_CUTS
       /\ cuts' = IF n < Len(rest) THEN cuts + 1 ELSE cuts
       /\ curs' = FeedBy(SubSeq(rest, 1, n))
       /\ rest' = SubSeq(rest, n + 1, Len(rest))
  /\ rbl' = [rbl EXCEPT !.running = /\ "END" \notin curs'.state
                                   /\ case.feed = "Buff_Read" => rest' = <<>>]
  /\ UNCHANGED case

Roebling_RunCycle ==
  /\ rbl.running
  /\ LET x == Returned(RunCycle(rbl, curs))
     IN  rbl' = x.rbl /\ curs' = x.curs
  /\ UNCHANGED <<case, rest, cuts>>

(* The owner has run the parser over all of the text.                       *)
Idle == ~rbl.running /\ rest = <<>>

Roebling_Finalize ==
  /\ Idle /\ ~rbl.over /\ case.end = "Roebling_Finalize"
  /\ rbl' = [Finalized(rbl, curs) EXCEPT !.over = TRUE]
  /\ UNCHANGED <<case, rest, cuts, curs>>

Roebling_Last ==
  /\ Idle /\ ~rbl.over /\ case.end = "Roebling_Last"
  /\ LET x == Lasted(rbl, curs)
     IN  rbl' = [x.rbl EXCEPT !.over = TRUE] /\ curs' = x.curs
  /\ UNCHANGED <<case, rest, cuts>>

Next == Feed \/ Roebling_RunCycle \/ Roebling_Finalize \/ Roebling_Last
Spec == Init /\ [][Next]_vars
Over == Idle /\ (case.end # "none" => rbl.over)

-----------------------------------------------------------------------------
(* The vector holds what has been fed, the cursor is in it, the parser is at *)
(* one of its steps.                                                        *)
TypeOK ==
  /\ FlattenSeq(curs.v) \o rest = case.text
  /\ curs.i \in 1 .. Len(curs.v) + 1
  /\ rbl.step \in Range(Grammar.steps)

(* What a text gives when it is there at once.                              *)
Whole(c) ==
  LET x == RunAll([rbl |-> [Rbl_Make(c.grammar) EXCEPT !.running = TRUE],
                   curs |-> Cursor_Setup(<<c.text>>)])
  IN  CASE c.end = "none"              -> x.rbl
        [] c.end = "Roebling_Finalize" -> Finalized(x.rbl, x.curs)
        [] c.end = "Roebling_Last"     -> Lasted(x.rbl, x.curs).rbl
WholeOf == [c \in Cases |-> Whole(c)]

(* A text that comes in pieces, however it is cut, is taken for the same    *)
(* tokens, of the same length, as one that comes at once: a pattern begun   *)
(* in one piece is gone on with in the next.                                *)
SameTokens == Over => rbl.tokens = WholeOf[case].tokens
=============================================================================
