------------------------ MODULE GraphExecutorProofs ------------------------
(***************************************************************************)
(* What holds of a run of any workflow graph, whatever its nodes answer:   *)
(* the first terminal is the run's, and an unfinished run keeps its latest *)
(* answer and the approved pointer, at whichever of the terminals of       *)
(* GraphExecutor it ends; and an advisory node only adds.  Of any graph    *)
(* with the fold next to its judge: which draft that pointer names.  Of    *)
(* any graph whose walks have an outline: that it implements Delivery.  Of *)
(* any graph at all: that a run follows a route of Routes, so that what    *)
(* holds of the few places of the routes holds of every run, and with the  *)
(* judges' replies and the failure log, that a revision has ground and is  *)
(* told of it, and that nothing is delivered over an objection.            *)
(*                                                                         *)
(* Bookkeeping is what makes CandidateKept inductive: while a run has no   *)
(* status nothing is kept, so _close_candidate writes both fields; once it *)
(* has one the walk is over, so nothing makes a further draft.  Pointer    *)
(* and OutlineInv, further down, speak of the place the walk is at; both   *)
(* rest on what the stack of frames may hold (StackOK, StackOutlined), as  *)
(* does RouteInv (StackRouted).  JudgedInv, of the adapter's record, is    *)
(* kept by every step because the routes ask the judges in turn.           *)
(***************************************************************************)
EXTENDS JudgedRun, FiniteSetTheorems, TLAPS

Bookkeeping ==
  /\ status = None => candidate = 0 /\ approved = NoPointer
  /\ status # None => frames = <<>>

Inv == Bookkeeping /\ CandidateKept

(* The pointer an ended run gets is never mistaken for none.               *)
LEMMA PointerIsSet ==
  ASSUME NEW history, NEW latest
  PROVE  ApprovedPointer(history, latest) # NoPointer
<1>1. LatestLabel(history, latest) # "unset"
  BY DEF LatestLabel
<1> QED
  BY <1>1 DEF ApprovedPointer, NoPointer

(* A terminal that is not completed, reached while there is none.          *)
LEMMA EndKeeps ==
  ASSUME Inv, status = None, CloseCandidate, status' # None,
         draft' = draft, frames' = <<>>
  PROVE  Inv'
<1>1. candidate' = draft /\ approved' = ApprovedPointer(iterations', draft)
  BY DEF CloseCandidate, Inv, Bookkeeping
<1>2. approved' # NoPointer
  BY <1>1, PointerIsSet
<1> QED
  BY <1>1, <1>2 DEF Inv, Bookkeeping, CandidateKept, NoPointer

(* A walk under way has no status yet.                                     *)
LEMMA UnderWay == Inv /\ Running => status = None
  BY DEF Inv, Bookkeeping, Running

(* The actions that leave a walk under way, or a run over, as it was.      *)
LEMMA RecordKept ==
  ASSUME Inv, status = None \/ UNCHANGED <<frames, draft>>, UNCHANGED record
  PROVE  Inv'
  BY DEF Inv, Bookkeeping, CandidateKept, record, NoPointer, None

LEMMA InitInv == Init => Inv
  BY DEF Init, Inv, Bookkeeping, CandidateKept, None

(* Every action that does not end the run leaves its record alone.         *)
LEMMA GoesOn ==
  ASSUME Inv,
         \/ Skip \/ Complete \/ Raise \/ AdvisoryGivesUp \/ ConditionFails
         \/ GatePasses \/ GateStops \/ GateRoutes
         \/ EnterLoop \/ NextAttempt \/ Converge
         \/ ExhaustedHandsOff \/ ExhaustedGoesOn \/ Return
  PROVE  Inv'
<1>1. Running /\ UNCHANGED record
  <2>1. CASE Skip
    BY <2>1 DEF Skip, AtNode
  <2>2. CASE Complete
    BY <2>2 DEF Complete, AtWork, Wanting, AtNode
  <2>3. CASE Raise
    BY <2>3 DEF Raise, AtWork, Wanting, AtNode
  <2>4. CASE AdvisoryGivesUp
    BY <2>4 DEF AdvisoryGivesUp, AtWork, Wanting, AtNode
  <2>5. CASE ConditionFails
    BY <2>5 DEF ConditionFails, AtNode, AtGate, Wanting, AtEnd
  <2>6. CASE GatePasses
    BY <2>6 DEF GatePasses, AtGate, Wanting, AtNode
  <2>7. CASE GateStops
    BY <2>7 DEF GateStops, Closed, AtGate, Wanting, AtNode
  <2>8. CASE GateRoutes
    BY <2>8 DEF GateRoutes, Closed, AtGate, Wanting, AtNode
  <2>9. CASE EnterLoop
    BY <2>9 DEF EnterLoop, Wanting, AtNode
  <2>10. CASE NextAttempt
    BY <2>10 DEF NextAttempt, AtLoopEnd, AtEnd
  <2>11. CASE Converge
    BY <2>11 DEF Converge, AtLoopEnd, AtEnd
  <2>12. CASE ExhaustedHandsOff
    BY <2>12 DEF ExhaustedHandsOff, Exhausted, AtLoopEnd, AtEnd
  <2>13. CASE ExhaustedGoesOn
    BY <2>13 DEF ExhaustedGoesOn, Exhausted, AtLoopEnd, AtEnd
  <2>14. CASE Return
    BY <2>14 DEF Return, AtEnd
  <2> QED
    BY <2>1, <2>2, <2>3, <2>4, <2>5, <2>6, <2>7, <2>8, <2>9, <2>10, <2>11,
       <2>12, <2>13, <2>14
<1> QED
  BY <1>1, UnderWay, RecordKept

(* Every action that ends the run or finds it ended.                       *)
LEMMA Ends ==
  ASSUME Inv,
         \/ Cut \/ GateEnds \/ ExhaustedEnds
         \/ FinishEnded \/ FinishUndone \/ FinishCompleted \/ Over
  PROVE  Inv'
<1>1. CASE Cut
  <2>1. Running /\ CloseCandidate /\ status' = "blocked" /\ draft' = draft /\ frames' = <<>>
    BY <1>1 DEF Cut, CutRun, Unwind, AtWork, Wanting, AtNode
  <2> QED
    BY <2>1, UnderWay, EndKeeps DEF None
<1>2. CASE GateEnds
  <2>1. Running /\ CloseCandidate /\ status' = Here.onFail /\ draft' = draft /\ frames' = <<>>
    BY <1>2 DEF GateEnds, End, Store, Unwind, Closed, AtGate, Wanting, AtNode
  <2>2. Here.onFail \in TerminalStatuses
    BY <1>2 DEF GateEnds
  <2>3. status' # None
    BY <2>1, <2>2 DEF TerminalStatuses, None
  <2> QED
    BY <2>1, <2>3, UnderWay, EndKeeps
<1>3. CASE ExhaustedEnds
  <2>1. Running /\ CloseCandidate /\ status' # None /\ draft' = draft /\ frames' = <<>>
    BY <1>3 DEF ExhaustedEnds, End, Store, Unwind, Exhausted, AtLoopEnd, AtEnd
  <2> QED
    BY <2>1, UnderWay, EndKeeps
<1>4. CASE FinishEnded
  BY <1>4, RecordKept DEF FinishEnded, work
<1>5. CASE FinishUndone
  <2>1. status = None /\ CloseCandidate /\ status' = "blocked" /\ draft' = draft /\ frames' = <<>>
    BY <1>5 DEF FinishUndone, Finished, End, work
  <2> QED
    BY <2>1, EndKeeps DEF None
<1>6. CASE FinishCompleted
  BY <1>6 DEF FinishCompleted, Finished, Inv, Bookkeeping, CandidateKept, None
<1>7. CASE Over
  BY <1>7, RecordKept DEF Over, vars, work
<1> QED
  BY <1>1, <1>2, <1>3, <1>4, <1>5, <1>6, <1>7

LEMMA NextInv == Inv /\ [Next]_vars => Inv'
<1> SUFFICES ASSUME Inv, [Next]_vars PROVE Inv'
  OBVIOUS
<1>1. CASE UNCHANGED vars
  BY <1>1, RecordKept DEF vars, work
<1>2. CASE Next
  BY <1>2, GoesOn, Ends DEF Next
<1> QED
  BY <1>1, <1>2

(* What a run keeps is right at every step, of any graph.                  *)
THEOREM SpecInv == Spec => []Inv
  BY InitInv, NextInv, PTL DEF Spec

(* Whatever the graph and the answers, a run that ends blocked or          *)
(* escalated keeps its latest answer and the approved pointer.             *)
THEOREM SpecCandidateKept == Spec => []CandidateKept
<1>1. Inv => CandidateKept
  BY DEF Inv
<1> QED
  BY <1>1, SpecInv, PTL

-----------------------------------------------------------------------------
(* Once a run of any graph has a status, nothing changes what it leaves.   *)
THEOREM SpecFirstEndIsTheEnd == Spec => FirstEndIsTheEnd
<1>1. ASSUME Inv, [Next]_vars
      PROVE  [status # None => UNCHANGED <<record, work>>]_vars
  <2> SUFFICES ASSUME Next, status # None
               PROVE  UNCHANGED <<record, work>>
    BY <1>1
  <2>1. ~Running
    BY <1>1, UnderWay
  <2>2. ~AtNode /\ ~AtEnd
    BY <2>1 DEF AtNode, AtEnd
  <2>3. FinishEnded \/ FinishUndone \/ FinishCompleted \/ Over
    BY <2>2 DEF Next, Skip, Complete, Cut, Raise, AdvisoryGivesUp,
                ConditionFails, GatePasses, GateStops, GateEnds, GateRoutes,
                Closed, AtWork, AtGate, Wanting, EnterLoop, NextAttempt,
                Converge, ExhaustedEnds, ExhaustedHandsOff, ExhaustedGoesOn,
                Exhausted, AtLoopEnd, Return
  <2> QED
    BY <2>3 DEF FinishEnded, FinishUndone, FinishCompleted, Over, vars
<1> QED
  BY <1>1, SpecInv, PTL DEF Spec, FirstEndIsTheEnd

(* After an advisory node the walk is at the next one with no status, no   *)
(* cut and nothing raised, in any graph and with any outputs.              *)
THEOREM SpecAdvisoryOnlyAdds == Spec => AdvisoryOnlyAdds
<1> DEFINE Onward == frames' = Advance(frames) /\ UNCHANGED <<status, mode, cut>>
<1>1. ASSUME [Next]_vars
      PROVE  [AtWork /\ Here.advisory => Onward]_vars
  <2> SUFFICES ASSUME Next, AtWork, Here.advisory
               PROVE  Onward
    BY <1>1
  <2>1. AtNode /\ ~AtEnd /\ ~Finished
    BY DEF AtWork, Wanting, AtNode, AtEnd, Finished, Running
  <2>2. Here.kind # "gate" /\ Here.body = <<>>
    BY DEF AtWork
  <2>3. Here.when # NoTest => Defined(Here.when) /\ Holds(Here.when)
    BY DEF AtWork, Wanting
  <2>4. Complete \/ AdvisoryGivesUp
    BY <2>1, <2>2, <2>3
       DEF Next, Skip, Cut, Raise, ConditionFails, GatePasses, GateStops,
           GateEnds, GateRoutes, Closed, AtGate, EnterLoop, NextAttempt,
           Converge, ExhaustedEnds, ExhaustedHandsOff, ExhaustedGoesOn,
           Exhausted, AtLoopEnd, Return, FinishEnded, FinishUndone,
           FinishCompleted, Over, Finished, AtNode, Running
  <2> QED
    BY <2>4 DEF Complete, AdvisoryGivesUp, GoOn, record
<1> QED
  BY <1>1, PTL DEF Spec, AdvisoryOnlyAdds

-----------------------------------------------------------------------------
(***************************************************************************)
(* Which draft the pointer names.  The iteration history has an entry for  *)
(* the judges' verdict before the fold has passed the draft, so the two    *)
(* differ while the walk is at the fold, and only then: Pointer.  For that *)
(* the walk must come to a fold from the judge before it and from nowhere  *)
(* else, whatever was handed off and came back meanwhile: StackOK.         *)
(***************************************************************************)

(* The fold and the history are of one rule (judges_agree of checks.py and *)
(* what the validating phase records), and an output is of a node.         *)
FoldIsAgreement ==
  \A w \in DOMAIN Graphs : \A o : DOMAIN o = Ids(Graphs[w]) =>
    /\ Agreed(o) \in BOOLEAN
    /\ \A n \in Ids(Graphs[w]) : \A p \in Outcomes(n, o) : DOMAIN p = DOMAIN o
    /\ FoldNode \in Ids(Graphs[w]) =>
         \A p \in Outcomes(FoldNode, o) : p[FoldNode] = "passed" <=> Agreed(o)

Frames(w) ==
  [loop : Ids(Graphs[w]) \cup {None}, nodes : Walks(w), pos : Nat \ {0}, attempt : Nat]

AtNodeOf(frame) == frame.pos \in DOMAIN frame.nodes

(* A frame under another is at the gate or the loop that pushed it.        *)
StackOK(w, stack) ==
  /\ stack \in Seq(Frames(w))
  /\ \A i \in DOMAIN stack :
       i < Len(stack) => /\ AtNodeOf(stack[i])
                         /\ stack[i].nodes[stack[i].pos] # JudgingNode

AtFold(stack) ==
  /\ stack # <<>> /\ AtNodeOf(stack[Len(stack)])
  /\ stack[Len(stack)].nodes[stack[Len(stack)].pos] = FoldNode

HistoryEntries == [iteration : Nat, draft : Nat, agreed : BOOLEAN, partial : BOOLEAN]

LastAgreed(history) ==
  IF AgreedAt(history) = 0 THEN 0 ELSE history[AgreedAt(history)].draft

WalkOK ==
  /\ workflow \in DOMAIN Graphs /\ StackOK(workflow, frames)
  /\ iteration \in Nat /\ DOMAIN outputs = Nodes

History ==
  /\ draft \in Nat /\ endorsed \in 0 .. draft
  /\ iterations \in Seq(HistoryEntries) /\ AgreedAt(iterations) \in 0 .. Len(iterations)

Pointer ==
  status = None =>
    IF AtFold(frames)
    THEN /\ LastAgreed(iterations) = IF Agreed(outputs) THEN draft ELSE endorsed
         /\ draft # 0 => JudgingNode \in current
    ELSE LastAgreed(iterations) = endorsed

PointerInv == WalkOK /\ History /\ Pointer /\ ApprovedIsEndorsed

-----------------------------------------------------------------------------
(* The walk: a node gives way to its successor, and a frame to the one it  *)
(* was pushed on.                                                          *)

LEMMA FoldIsAfterJudge ==
  ASSUME NEW w \in DOMAIN Graphs, NEW frame \in Frames(w), AtNodeOf(frame),
         frame.pos + 1 \in DOMAIN frame.nodes
  PROVE  frame.nodes[frame.pos + 1] = FoldNode <=> frame.nodes[frame.pos] = JudgingNode
<1>1. /\ frame.nodes \in Walks(w) /\ frame.nodes \in Seq(Ids(Graphs[w]))
      /\ frame.pos \in DOMAIN frame.nodes
  BY FoldAssumption DEF Frames, AtNodeOf
<1>2. \A i \in DOMAIN frame.nodes :
        /\ frame.nodes[i] = JudgingNode => i < Len(frame.nodes) /\ frame.nodes[i + 1] = FoldNode
        /\ frame.nodes[i] = FoldNode => i > 1 /\ frame.nodes[i - 1] = JudgingNode
  BY <1>1, FoldAssumption
<1>3. frame.pos \in Nat /\ (frame.pos + 1) - 1 = frame.pos
  BY <1>1
<1> QED
  BY <1>1, <1>2, <1>3

LEMMA JudgeIsNotLast ==
  ASSUME NEW w \in DOMAIN Graphs, NEW frame \in Frames(w), AtNodeOf(frame),
         frame.nodes[frame.pos] = JudgingNode
  PROVE  frame.pos + 1 \in DOMAIN frame.nodes
<1>1. /\ frame.nodes \in Walks(w) /\ frame.nodes \in Seq(Ids(Graphs[w]))
      /\ frame.pos \in DOMAIN frame.nodes
  BY FoldAssumption DEF Frames, AtNodeOf
<1>2. frame.pos < Len(frame.nodes)
  BY <1>1, FoldAssumption
<1> QED
  BY <1>1, <1>2

(* Advancing a stack whose top is at a node.                               *)
LEMMA AdvanceOK ==
  ASSUME NEW w \in DOMAIN Graphs, NEW stack, StackOK(w, stack), stack # <<>>,
         AtNodeOf(stack[Len(stack)])
  PROVE  /\ StackOK(w, Advance(stack))
         /\ AtFold(Advance(stack)) <=> stack[Len(stack)].nodes[stack[Len(stack)].pos] = JudgingNode
<1> DEFINE top == stack[Len(stack)]
           next == [top EXCEPT !.pos = @ + 1]
           after == Advance(stack)
<1>1. stack \in Seq(Frames(w)) /\ Len(stack) \in DOMAIN stack /\ top \in Frames(w)
  BY DEF StackOK
<1>2. next \in Frames(w) /\ next.nodes = top.nodes /\ next.pos = top.pos + 1
  <2>1. /\ top = [loop |-> top.loop, nodes |-> top.nodes, pos |-> top.pos, attempt |-> top.attempt]
        /\ top.loop \in Ids(Graphs[w]) \cup {None} /\ top.nodes \in Walks(w)
        /\ top.pos \in Nat \ {0} /\ top.attempt \in Nat
    <3> HIDE DEF top
    <3> QED BY <1>1 DEF Frames
  <2>2. next = [loop |-> top.loop, nodes |-> top.nodes, pos |-> top.pos + 1, attempt |-> top.attempt]
    <3> HIDE DEF top
    <3> QED BY <2>1
  <2> HIDE DEF top, next
  <2> QED BY <2>1, <2>2 DEF Frames
<1>3. after = [stack EXCEPT ![Len(stack)] = next]
  BY DEF Advance
<1>4. /\ after \in Seq(Frames(w)) /\ Len(after) = Len(stack) /\ after[Len(stack)] = next
      /\ \A i \in DOMAIN after : i < Len(stack) => after[i] = stack[i]
  BY <1>1, <1>2, <1>3
<1>5. StackOK(w, after)
  BY <1>1, <1>4 DEF StackOK
<1>6. after # <<>>
  BY <1>1, <1>4
<1>7. AtFold(after) <=> /\ top.pos + 1 \in DOMAIN top.nodes
                        /\ top.nodes[top.pos + 1] = FoldNode
  BY <1>2, <1>4, <1>6 DEF AtFold, AtNodeOf
<1>8. AtFold(after) <=> top.nodes[top.pos] = JudgingNode
  BY <1>1, <1>7, FoldIsAfterJudge, JudgeIsNotLast
<1> QED
  BY <1>5, <1>8

LEMMA FrontIs ==
  ASSUME NEW S, NEW s \in Seq(S), s # <<>>
  PROVE  /\ Front(s) \in Seq(S) /\ Len(Front(s)) = Len(s) - 1
         /\ \A i \in 1 .. Len(s) - 1 : Front(s)[i] = s[i]
<1> DEFINE n == Len(s) - 1
<1>1. Len(s) \in Nat /\ Len(s) # 0 /\ \A i \in 1 .. Len(s) : s[i] \in S
  OBVIOUS
<1>2. Front(s) = SubSeq(s, 1, n)
  BY DEF Front
<1>3. n \in Nat /\ \A i \in 1 .. n : s[i] \in S
  BY <1>1
<1> HIDE DEF n
<1>4. /\ SubSeq(s, 1, n) \in Seq(S) /\ Len(SubSeq(s, 1, n)) = n
      /\ \A i \in 1 .. n : SubSeq(s, 1, n)[i] = s[i]
  BY <1>3
<1> QED BY <1>2, <1>4 DEF n

(* What is left when the top frame goes, advanced: it is not at a fold.    *)
LEMMA PopOK ==
  ASSUME NEW w \in DOMAIN Graphs, NEW stack, StackOK(w, stack), stack # <<>>
  PROVE  StackOK(w, Advance(Front(stack))) /\ ~AtFold(Advance(Front(stack)))
<1> DEFINE rest == Front(stack)
<1>1. stack \in Seq(Frames(w)) /\ Len(stack) \in Nat \ {0}
  BY DEF StackOK
<1>2. /\ rest \in Seq(Frames(w)) /\ Len(rest) = Len(stack) - 1
      /\ \A i \in DOMAIN rest : i \in DOMAIN stack /\ i < Len(stack) /\ rest[i] = stack[i]
  <2>1. stack \in Seq(Frames(w)) /\ stack # <<>>
    BY <1>1
  <2>2. /\ rest \in Seq(Frames(w)) /\ Len(rest) = Len(stack) - 1
        /\ \A i \in 1 .. Len(stack) - 1 : rest[i] = stack[i]
    BY <2>1, FrontIs
  <2> HIDE DEF rest
  <2> QED BY <1>1, <2>2
<1>3. StackOK(w, rest)
  BY <1>1, <1>2 DEF StackOK
<1>4. CASE rest = <<>>
  <2>1. Advance(rest) = <<>>
    BY <1>4 DEF Advance
  <2> QED BY <2>1 DEF StackOK, AtFold
<1>5. CASE rest # <<>>
  <2>1. Len(rest) \in DOMAIN rest
    BY <1>2, <1>5
  <2>2. AtNodeOf(rest[Len(rest)]) /\ rest[Len(rest)].nodes[rest[Len(rest)].pos] # JudgingNode
    BY <1>2, <2>1 DEF StackOK
  <2> QED BY <1>3, <1>5, <2>2, AdvanceOK
<1> QED BY <1>4, <1>5

(* A frame pushed at its first node or past its last is not at a fold.     *)
LEMMA PushOK ==
  ASSUME NEW w \in DOMAIN Graphs, NEW stack, StackOK(w, stack),
         stack # <<>> => /\ AtNodeOf(stack[Len(stack)])
                         /\ stack[Len(stack)].nodes[stack[Len(stack)].pos] # JudgingNode,
         NEW frame \in Frames(w), frame.pos \in {1, Len(frame.nodes) + 1}
  PROVE  StackOK(w, Append(stack, frame)) /\ ~AtFold(Append(stack, frame))
<1> DEFINE after == Append(stack, frame)
<1>1. stack \in Seq(Frames(w))
  BY DEF StackOK
<1>2. /\ after \in Seq(Frames(w)) /\ Len(after) = Len(stack) + 1 /\ after[Len(after)] = frame
      /\ \A i \in DOMAIN after : i < Len(after) => i \in DOMAIN stack /\ after[i] = stack[i]
  BY <1>1
<1>3. StackOK(w, after)
  <2> SUFFICES ASSUME NEW i \in DOMAIN after, i < Len(after)
               PROVE  AtNodeOf(after[i]) /\ after[i].nodes[after[i].pos] # JudgingNode
    BY <1>2 DEF StackOK
  <2>1. i \in DOMAIN stack /\ after[i] = stack[i] /\ stack # <<>>
    BY <1>1, <1>2
  <2>2. CASE i = Len(stack)
    BY <2>1, <2>2
  <2>3. CASE i < Len(stack)
    BY <2>1, <2>3 DEF StackOK
  <2> QED BY <1>1, <2>1, <2>2, <2>3
<1>4. ~AtFold(after)
  <2>1. frame.nodes \in Seq(Ids(Graphs[w])) /\ frame.nodes \in Walks(w)
    BY FoldAssumption DEF Frames
  <2>2. 1 \in DOMAIN frame.nodes => frame.nodes[1] # FoldNode
    <3>1. \A i \in DOMAIN frame.nodes : frame.nodes[i] = FoldNode => i > 1
      BY <2>1, FoldAssumption
    <3> QED BY <3>1
  <2>3. Len(frame.nodes) + 1 \notin DOMAIN frame.nodes
    BY <2>1
  <2> QED BY <1>2, <2>2, <2>3 DEF AtFold, AtNodeOf
<1> QED BY <1>3, <1>4

-----------------------------------------------------------------------------
(* The history: an entry appended is its last agreed one, or no news.      *)

LEMMA Appended ==
  ASSUME NEW history \in Seq(HistoryEntries), NEW entry \in HistoryEntries,
         AgreedAt(history) \in 0 .. Len(history)
  PROVE  LET after == Append(history, entry)
         IN /\ after \in Seq(HistoryEntries) /\ AgreedAt(after) \in 0 .. Len(after)
            /\ LastAgreed(after) = IF entry.agreed /\ ~entry.partial THEN entry.draft
                                  ELSE LastAgreed(history)
<1> DEFINE after == Append(history, entry)
           Places(h) == {0} \cup {i \in DOMAIN h : h[i].agreed /\ ~h[i].partial}
           n == Len(history)
<1>1. /\ n \in Nat /\ after \in Seq(HistoryEntries) /\ Len(after) = n + 1
      /\ DOMAIN history = 1 .. n /\ DOMAIN after = 1 .. n + 1 /\ after[n + 1] = entry
      /\ \A i \in 1 .. n : after[i] = history[i]
  OBVIOUS
<1>2. AgreedAt(history) = Max(Places(history)) /\ AgreedAt(after) = Max(Places(after))
  BY DEF AgreedAt
<1> HIDE DEF after
<1>3. Places(after) = Places(history) \cup (IF entry.agreed /\ ~entry.partial THEN {n + 1} ELSE {})
  <2> HIDE DEF n
  <2> QED BY <1>1
<1>4. CASE entry.agreed /\ ~entry.partial
  <2>1. Places(history) \subseteq 0 .. n
    BY <1>1
  <2>2. n + 1 \in Places(after) /\ \A i \in Places(after) : i \in Nat /\ n + 1 >= i
    BY <1>1, <1>3, <1>4, <2>1
  <2> HIDE DEF Places, n
  <2>3. \A x \in Places(after) : (\A y \in Places(after) : x >= y) => x = n + 1
    BY <1>1, <2>2
  <2>4. Max(Places(after)) = n + 1
    BY <2>2, <2>3 DEF Max
  <2>5. AgreedAt(after) = n + 1 /\ n + 1 # 0
    BY <1>1, <1>2, <2>4
  <2> QED BY <1>1, <1>4, <2>5 DEF LastAgreed, after
<1>5. CASE ~(entry.agreed /\ ~entry.partial)
  <2>1. AgreedAt(after) = AgreedAt(history)
    BY <1>2, <1>3, <1>5
  <2>2. AgreedAt(after) # 0 => after[AgreedAt(after)] = history[AgreedAt(history)]
    BY <1>1, <2>1
  <2> QED BY <1>1, <1>5, <2>1, <2>2 DEF LastAgreed, after
<1> QED BY <1>4, <1>5

(* The partial iteration of a cut is never the agreed one.                 *)
LEMMA PartialChangesNothing ==
  ASSUME NEW history \in Seq(HistoryEntries), AgreedAt(history) \in 0 .. Len(history),
         NEW round \in Nat, NEW answer \in Nat
  PROVE  LET after == WithPartial(history, round, answer)
         IN /\ after \in Seq(HistoryEntries) /\ AgreedAt(after) \in 0 .. Len(after)
            /\ LastAgreed(after) = LastAgreed(history)
<1>1. Partial(round, answer) \in HistoryEntries /\ ~Partial(round, answer).agreed
  BY DEF Partial, HistoryEntries
<1>2. CASE WithPartial(history, round, answer) = history
  BY <1>2
<1>3. CASE WithPartial(history, round, answer) = Append(history, Partial(round, answer))
  BY <1>1, <1>3, Appended
<1> QED BY <1>2, <1>3 DEF WithPartial

LEMMA PointerReads ==
  ASSUME NEW history, NEW latest
  PROVE  ApprovedPointer(history, latest).agreed = LastAgreed(history)
BY DEF ApprovedPointer, LastAgreed

-----------------------------------------------------------------------------
(* Where the walk is. *)

LEMMA NodeUnderWay ==
  ASSUME WalkOK, AtNode
  PROVE  /\ frames # <<>> /\ AtNodeOf(frames[Len(frames)])
         /\ HereId = frames[Len(frames)].nodes[frames[Len(frames)].pos] /\ HereId \in Nodes
         /\ AtFold(frames) <=> HereId = FoldNode
         /\ HereId \in {JudgingNode, FoldNode} =>
              Here.kind # "gate" /\ Here.body = <<>> /\ Here.when = NoTest /\ ~Here.advisory
<1> DEFINE top == frames[Len(frames)]
<1>1. frames # <<>> /\ Top = top /\ Top.pos <= Len(Top.nodes)
  BY DEF AtNode, Running, Top, Last
<1>2. frames \in Seq(Frames(workflow))
  BY DEF WalkOK, StackOK
<1>3. top \in Frames(workflow)
  BY <1>1, <1>2
<1>4. top.nodes \in Walks(workflow) /\ top.pos \in Nat \ {0}
  <2> HIDE DEF top
  <2> QED BY <1>3 DEF Frames
<1>5. top.nodes \in Seq(Nodes)
  BY <1>4, FoldAssumption DEF WalkOK, Nodes, Graph
<1> HIDE DEF top
<1>6. top.pos \in DOMAIN top.nodes /\ HereId = top.nodes[top.pos] /\ HereId \in Nodes
  BY <1>1, <1>4, <1>5 DEF HereId
<1>7. Here = Graphs[workflow].node[HereId]
  BY DEF Here, HereId, Graph
<1>8. HereId \in {JudgingNode, FoldNode} =>
        Here.kind # "gate" /\ Here.body = <<>> /\ Here.when = NoTest /\ ~Here.advisory
  BY <1>6, <1>7, FoldAssumption DEF WalkOK, Nodes, Graph
<1> QED BY <1>1, <1>6, <1>8 DEF AtFold, AtNodeOf, top

LEMMA EndUnderWay ==
  ASSUME WalkOK, AtEnd
  PROVE  /\ frames # <<>> /\ ~AtFold(frames)
         /\ Top \in Frames(workflow)
<1> DEFINE top == frames[Len(frames)]
<1>1. frames # <<>> /\ Top = top /\ ~(Top.pos <= Len(Top.nodes))
  BY DEF AtEnd, AtNode, Running, Top, Last
<1>2. frames \in Seq(Frames(workflow))
  BY DEF WalkOK, StackOK
<1>3. top \in Frames(workflow)
  BY <1>1, <1>2
<1>4. top.nodes \in Walks(workflow) /\ top.pos \in Nat \ {0}
  <2> HIDE DEF top
  <2> QED BY <1>3 DEF Frames
<1>5. top.nodes \in Seq(Nodes)
  BY <1>4, FoldAssumption DEF WalkOK, Nodes, Graph
<1>6. top.pos \notin DOMAIN top.nodes
  <2> HIDE DEF top
  <2> QED BY <1>1, <1>4, <1>5
<1> QED BY <1>1, <1>3, <1>6 DEF AtFold, AtNodeOf

-----------------------------------------------------------------------------
(* The steps of a walk that neither judge nor end leave the pointer right. *)

Quiet ==
  /\ UNCHANGED <<workflow, record, iterations, draft, endorsed>>
  /\ StackOK(workflow, frames') /\ ~AtFold(frames) /\ ~AtFold(frames')
  /\ iteration' \in Nat /\ DOMAIN outputs' = Nodes

LEMMA QuietStep == PointerInv /\ status = None /\ Quiet => PointerInv'
<1> SUFFICES ASSUME PointerInv, status = None, Quiet PROVE PointerInv'
  OBVIOUS
<1>1. WalkOK'
  BY DEF PointerInv, Quiet, WalkOK, Nodes, Graph
<1>2. History'
  BY DEF PointerInv, Quiet, History
<1>3. Pointer'
  <2>1. LastAgreed(iterations) = endorsed
    BY DEF PointerInv, Quiet, Pointer
  <2>2. LastAgreed(iterations') = endorsed' /\ ~AtFold(frames')
    BY <2>1 DEF Quiet
  <2> QED BY <2>2 DEF Pointer
<1>4. ApprovedIsEndorsed'
  BY DEF Quiet, record, ApprovedIsEndorsed, None
<1> QED BY <1>1, <1>2, <1>3, <1>4 DEF PointerInv

(* A node's walk, off the judge and the fold, goes on to the next.         *)
LEMMA Onward ==
  ASSUME WalkOK, AtNode, HereId \notin {JudgingNode, FoldNode}, GoOn
  PROVE  /\ StackOK(workflow, frames') /\ ~AtFold(frames) /\ ~AtFold(frames')
         /\ workflow' = workflow /\ iteration' \in Nat
<1>1. frames' = Advance(frames) /\ workflow' = workflow /\ iteration' = iteration
  BY DEF GoOn
<1>2. /\ frames # <<>> /\ AtNodeOf(frames[Len(frames)]) /\ ~AtFold(frames)
      /\ frames[Len(frames)].nodes[frames[Len(frames)].pos] # JudgingNode
  BY NodeUnderWay
<1>3. StackOK(workflow, frames') /\ ~AtFold(frames')
  BY <1>1, <1>2, AdvanceOK DEF WalkOK
<1> QED BY <1>1, <1>2, <1>3 DEF WalkOK

(* A gate or a loop hands the walk to a sequence of its own.               *)
LEMMA HandsTo ==
  ASSUME WalkOK, AtNode, HereId \notin {JudgingNode, FoldNode},
         NEW frame \in Frames(workflow), frame.pos \in {1, Len(frame.nodes) + 1},
         frames' = Append(frames, frame)
  PROVE  StackOK(workflow, frames') /\ ~AtFold(frames) /\ ~AtFold(frames')
<1>1. /\ frames # <<>> /\ AtNodeOf(frames[Len(frames)]) /\ ~AtFold(frames)
      /\ frames[Len(frames)].nodes[frames[Len(frames)].pos] # JudgingNode
  BY NodeUnderWay
<1> QED BY <1>1, PushOK DEF WalkOK

(* A frame at its end gives way to another of the same depth.              *)
LEMMA Replaces ==
  ASSUME WalkOK, AtEnd,
         NEW frame \in Frames(workflow), frame.pos = 1,
         frames' = Append(Front(frames), frame)
  PROVE  StackOK(workflow, frames') /\ ~AtFold(frames) /\ ~AtFold(frames')
<1> DEFINE rest == Front(frames)
<1>1. frames # <<>> /\ ~AtFold(frames) /\ frames \in Seq(Frames(workflow))
  BY EndUnderWay DEF WalkOK, StackOK
<1>2. rest \in Seq(Frames(workflow)) /\ Len(rest) = Len(frames) - 1
      /\ \A i \in 1 .. Len(frames) - 1 : rest[i] = frames[i]
  BY <1>1, FrontIs
<1>3. \A i \in DOMAIN rest : i \in DOMAIN frames /\ i < Len(frames) /\ rest[i] = frames[i]
  <2> HIDE DEF rest
  <2> QED BY <1>1, <1>2
<1>4. \A i \in DOMAIN rest : AtNodeOf(rest[i]) /\ rest[i].nodes[rest[i].pos] # JudgingNode
  <2> HIDE DEF rest
  <2> QED BY <1>3 DEF WalkOK, StackOK
<1>5. StackOK(workflow, rest)
  BY <1>2, <1>4 DEF StackOK
<1>6. rest # <<>> => Len(rest) \in DOMAIN rest
  <2> HIDE DEF rest
  <2> QED BY <1>2
<1> HIDE DEF rest
<1> QED BY <1>1, <1>4, <1>5, <1>6, PushOK DEF rest, WalkOK

LEMMA WalkFrames ==
  ASSUME WalkOK
  PROVE  /\ \A t \in Targets(Graph) : Walk(Handoff[workflow][t]) \in Frames(workflow)
         /\ \A n \in Nodes, a \in Nat : BodyOf(n, a) \in Frames(workflow)
         /\ \A n \in Nodes, a \in Nat :
              [BodyOf(n, a) EXCEPT !.pos = Len(Graph.node[n].body) + 1] \in Frames(workflow)
<1>1. \A t \in Targets(Graph) : Handoff[workflow][t] \in Walks(workflow)
  BY DEF Walks, Graph
<1>2. \A n \in Nodes : Graph.node[n].body \in Walks(workflow)
  BY DEF Walks, Graph, Nodes
<1>3. \A n \in Nodes : Len(Graph.node[n].body) + 1 \in Nat \ {0}
  <2>1. \A n \in Nodes : Graph.node[n].body \in Seq(Nodes)
    BY <1>2, FoldAssumption DEF WalkOK, Nodes, Graph
  <2> QED BY <2>1
<1>4. \A n \in Nodes, a \in Nat :
        [BodyOf(n, a) EXCEPT !.pos = Len(Graph.node[n].body) + 1]
          = [loop |-> n, nodes |-> Graph.node[n].body,
             pos |-> Len(Graph.node[n].body) + 1, attempt |-> a]
  BY DEF BodyOf
<1>5. Nodes = Ids(Graphs[workflow])
  BY DEF Nodes, Graph
<1> QED BY <1>1, <1>2, <1>3, <1>4, <1>5 DEF Walk, BodyOf, Frames

(* A condition, a gate, an advisory node that gave up.                     *)
LEMMA NodesAreQuiet ==
  ASSUME WalkOK, Skip \/ AdvisoryGivesUp \/ GatePasses \/ GateStops \/ GateRoutes
  PROVE  Quiet
<1>1. WalkOK /\ DOMAIN outputs = Nodes
  BY DEF WalkOK
<1>2. CASE Skip
  <2>1. AtNode /\ HereId \notin {JudgingNode, FoldNode} /\ GoOn
    BY <1>1, <1>2, NodeUnderWay DEF Skip
  <2> QED BY <1>1, <1>2, <2>1, Onward DEF Skip, Quiet, work
<1>3. CASE AdvisoryGivesUp
  <2>1. AtNode /\ HereId \notin {JudgingNode, FoldNode} /\ GoOn
    BY <1>1, <1>3, NodeUnderWay DEF AdvisoryGivesUp, AtWork, Wanting
  <2>2. DOMAIN outputs' = Nodes
    BY <1>1, <1>3 DEF AdvisoryGivesUp
  <2> QED BY <1>1, <1>3, <2>1, <2>2, Onward DEF AdvisoryGivesUp, Quiet
<1>4. CASE GatePasses
  <2>1. AtNode /\ HereId \notin {JudgingNode, FoldNode} /\ GoOn
    BY <1>1, <1>4, NodeUnderWay DEF GatePasses, AtGate, Wanting
  <2>2. DOMAIN outputs' = Nodes
    BY <1>1, <1>4 DEF GatePasses, Store
  <2> QED BY <1>1, <1>4, <2>1, <2>2, Onward DEF GatePasses, Store, Quiet
<1>5. CASE GateStops
  <2>1. AtNode /\ HereId # FoldNode
    BY <1>1, <1>5, NodeUnderWay DEF GateStops, Closed, AtGate, Wanting
  <2>2. DOMAIN outputs' = Nodes
    BY <1>1, <1>5 DEF GateStops, Store
  <2>3. ~AtFold(frames)
    BY <1>1, <2>1, NodeUnderWay
  <2>4. frames' = <<>> /\ iteration' = 0 /\ workflow' = workflow
    BY <1>5 DEF GateStops, Unwind
  <2>5. StackOK(workflow, frames') /\ ~AtFold(frames')
    BY <2>4 DEF StackOK, AtFold
  <2> QED BY <1>5, <2>2, <2>3, <2>4, <2>5 DEF GateStops, Store, Quiet
<1>6. CASE GateRoutes
  <2> DEFINE frame == Walk(Handoff[workflow][Here.onFail])
  <2>1. AtNode /\ HereId \notin {JudgingNode, FoldNode} /\ HereId \in Nodes
    BY <1>1, <1>6, NodeUnderWay DEF GateRoutes, Closed, AtGate, Wanting
  <2>2. DOMAIN outputs' = Nodes
    BY <1>1, <1>6 DEF GateRoutes, Store
  <2>3. Here = Graph.node[HereId]
    BY DEF Here, HereId
  <2>4. Here.onFail \in Targets(Graph)
    BY <1>6, <2>1, <2>3 DEF GateRoutes, Targets, Nodes
  <2>5. frame \in Frames(workflow) /\ frame.pos = 1
    BY <1>1, <2>4, WalkFrames DEF Walk
  <2>6. frames' = Append(frames, frame) /\ iteration' = iteration /\ workflow' = workflow
    BY <1>6 DEF GateRoutes
  <2> HIDE DEF frame
  <2>7. StackOK(workflow, frames') /\ ~AtFold(frames) /\ ~AtFold(frames')
    BY <1>1, <2>1, <2>5, <2>6, HandsTo
  <2> QED BY <1>1, <1>6, <2>2, <2>6, <2>7 DEF GateRoutes, Store, Quiet, WalkOK
<1> QED BY <1>2, <1>3, <1>4, <1>5, <1>6

(* A loop entered, tried again, left, or handed off; a sub-graph returning.*)
LEMMA LoopsAreQuiet ==
  ASSUME WalkOK,
         \/ EnterLoop \/ NextAttempt \/ Converge
         \/ ExhaustedHandsOff \/ ExhaustedGoesOn \/ Return
  PROVE  Quiet
<1>1. WalkOK /\ DOMAIN outputs = Nodes /\ iteration \in Nat /\ workflow \in DOMAIN Graphs
      /\ StackOK(workflow, frames)
  BY DEF WalkOK
<1>2. AtEnd => /\ frames # <<>> /\ ~AtFold(frames)
               /\ Top.attempt \in Nat /\ (Top.loop # None => Top.loop \in Nodes)
  <2>1. AtEnd => frames # <<>> /\ ~AtFold(frames) /\ Top \in Frames(workflow)
    BY <1>1, EndUnderWay
  <2> QED BY <2>1 DEF Frames, Nodes, Graph
<1>3. CASE EnterLoop
  <2> DEFINE frame == [BodyOf(HereId, 0) EXCEPT !.pos = Len(Here.body) + 1]
  <2>1. AtNode /\ HereId \notin {JudgingNode, FoldNode} /\ HereId \in Nodes
    BY <1>1, <1>3, NodeUnderWay DEF EnterLoop, Wanting
  <2>2. Here = Graph.node[HereId]
    BY DEF Here, HereId
  <2>3. frame \in Frames(workflow)
    BY <1>1, <2>1, <2>2, WalkFrames
  <2>4. frame.pos = Len(frame.nodes) + 1
    BY <2>2 DEF BodyOf
  <2>5. frames' = Append(frames, frame)
    BY <1>3 DEF EnterLoop
  <2> HIDE DEF frame
  <2>6. StackOK(workflow, frames') /\ ~AtFold(frames) /\ ~AtFold(frames')
    BY <1>1, <2>1, <2>3, <2>4, <2>5, HandsTo
  <2> QED BY <1>1, <1>3, <2>6 DEF EnterLoop, Quiet, work
<1>4. CASE NextAttempt
  <2> DEFINE frame == BodyOf(Top.loop, Top.attempt + 1)
  <2>1. AtEnd /\ Top.loop \in Nodes /\ Top.attempt + 1 \in Nat
    BY <1>2, <1>4 DEF NextAttempt, AtLoopEnd
  <2>2. frame \in Frames(workflow) /\ frame.pos = 1
    BY <1>1, <2>1, WalkFrames DEF BodyOf
  <2>3. frames' = Append(Front(frames), frame) /\ iteration' = Top.attempt + 1
    BY <1>4 DEF NextAttempt
  <2> HIDE DEF frame
  <2>4. StackOK(workflow, frames') /\ ~AtFold(frames) /\ ~AtFold(frames')
    BY <1>1, <2>1, <2>2, <2>3, Replaces
  <2> QED BY <1>1, <1>4, <2>1, <2>3, <2>4 DEF NextAttempt, Quiet, work
<1>5. CASE ExhaustedHandsOff
  <2> DEFINE frame == Walk(Handoff[workflow][Loop.onExhausted])
  <2>1. AtEnd /\ Top.loop \in Nodes /\ Loop = Graph.node[Top.loop] /\ Loop.onExhausted # None
    BY <1>2, <1>5 DEF ExhaustedHandsOff, Exhausted, AtLoopEnd, Loop
  <2>2. Loop.onExhausted \notin TerminalStatuses
    BY <1>1, <2>1, FoldAssumption DEF Nodes, Graph
  <2>3. Loop.onExhausted \in Targets(Graph)
    BY <2>1, <2>2 DEF Targets, Nodes
  <2>4. frame \in Frames(workflow) /\ frame.pos = 1
    BY <1>1, <2>3, WalkFrames DEF Walk
  <2>5. frames' = Append(Front(frames), frame) /\ iteration' = 0
    BY <1>5 DEF ExhaustedHandsOff
  <2>6. DOMAIN outputs' = Nodes
    BY <1>1, <1>5 DEF ExhaustedHandsOff, Store
  <2> HIDE DEF frame
  <2>7. StackOK(workflow, frames') /\ ~AtFold(frames) /\ ~AtFold(frames')
    BY <1>1, <2>1, <2>4, <2>5, Replaces
  <2> QED BY <1>1, <1>5, <2>5, <2>6, <2>7 DEF ExhaustedHandsOff, Store, Quiet
<1>6. CASE Converge \/ ExhaustedGoesOn \/ Return
  <2>1. AtEnd /\ frames' = Advance(Front(frames)) /\ workflow' = workflow /\ iteration' \in {0, iteration}
    BY <1>6 DEF Converge, ExhaustedGoesOn, Return, Exhausted, AtLoopEnd
  <2>2. UNCHANGED <<record, iterations, draft, endorsed>> /\ DOMAIN outputs' = Nodes
    BY <1>1, <1>6 DEF Converge, ExhaustedGoesOn, Return, Store, work
  <2>3. StackOK(workflow, frames') /\ ~AtFold(frames) /\ ~AtFold(frames')
    BY <1>1, <1>2, <2>1, PopOK
  <2> QED BY <1>1, <2>1, <2>2, <2>3 DEF Quiet
<1> QED BY <1>3, <1>4, <1>5, <1>6

-----------------------------------------------------------------------------
(* A node's work finished: a new draft, the judge's entry, the fold, or    *)
(* something else.                                                         *)
LEMMA CompleteKeepsPointer ==
  ASSUME FoldIsAgreement, PointerInv, status = None, Complete
  PROVE  PointerInv'
<1>1. WalkOK /\ History /\ Pointer
  BY DEF PointerInv
<1>2. AtNode /\ GoOn /\ UNCHANGED record /\ outputs' \in Outcomes(HereId, outputs)
  BY DEF Complete, AtWork, Wanting
<1>3. HereId \in Nodes /\ (AtFold(frames) <=> HereId = FoldNode)
  BY <1>1, <1>2, NodeUnderWay
<1>4. DOMAIN outputs' = Nodes /\ workflow' = workflow /\ iteration' = iteration
  BY <1>1, <1>2, <1>3, FoldIsAgreement DEF FoldIsAgreement, WalkOK, GoOn, Nodes, Graph
<1>5. HereId = FoldNode => (outputs'[FoldNode] = "passed" <=> Agreed(outputs))
  BY <1>1, <1>2, <1>3, FoldIsAgreement DEF FoldIsAgreement, WalkOK, Nodes, Graph
<1>6. Agreed(outputs') \in BOOLEAN
  BY <1>1, <1>4, FoldIsAgreement DEF FoldIsAgreement, WalkOK, Nodes, Graph
<1>7. StackOK(workflow, frames') /\ (AtFold(frames') <=> HereId = JudgingNode)
  <2>1. frames' = Advance(frames) /\ StackOK(workflow, frames) /\ workflow \in DOMAIN Graphs
    BY <1>1, <1>2 DEF GoOn, WalkOK
  <2>2. /\ frames # <<>> /\ AtNodeOf(frames[Len(frames)])
        /\ HereId = frames[Len(frames)].nodes[frames[Len(frames)].pos]
    BY <1>1, <1>2, NodeUnderWay
  <2> QED BY <2>1, <2>2, AdvanceOK
<1>8. WalkOK'
  BY <1>1, <1>4, <1>7 DEF WalkOK, Nodes, Graph
<1>9. ApprovedIsEndorsed'
  BY <1>2 DEF record, ApprovedIsEndorsed, None
<1>10. ArtifactNode # JudgingNode /\ ArtifactNode # FoldNode /\ JudgingNode # FoldNode
  BY DEF ArtifactNode, JudgingNode, FoldNode
<1>11. CASE HereId = JudgingNode
  <2> DEFINE entry == Judged(iteration, draft, Agreed(outputs'))
  <2>1. iterations' = Append(iterations, entry) /\ draft' = draft /\ endorsed' = endorsed
    BY <1>10, <1>11 DEF Complete
  <2>2. entry \in HistoryEntries /\ entry.agreed = Agreed(outputs') /\ ~entry.partial /\ entry.draft = draft
    BY <1>1, <1>6 DEF Judged, HistoryEntries, WalkOK, History
  <2>3. draft # 0 => JudgingNode \in current'
    BY <1>10, <1>11 DEF Complete
  <2>4. LastAgreed(iterations) = endorsed
    BY <1>1, <1>3, <1>10, <1>11 DEF Pointer
  <2> HIDE DEF entry
  <2>5. /\ iterations' \in Seq(HistoryEntries) /\ AgreedAt(iterations') \in 0 .. Len(iterations')
        /\ LastAgreed(iterations') = IF Agreed(outputs') THEN draft ELSE LastAgreed(iterations)
    BY <1>1, <2>1, <2>2, Appended DEF History
  <2>6. History'
    BY <1>1, <2>1, <2>5 DEF History
  <2>7. Pointer'
    BY <1>7, <1>11, <2>1, <2>3, <2>4, <2>5 DEF Pointer
  <2> QED BY <1>8, <1>9, <2>6, <2>7 DEF PointerInv
<1>12. CASE HereId = FoldNode
  <2>1. /\ iterations' = iterations /\ draft' = draft
        /\ endorsed' = IF Agreed(outputs) THEN draft ELSE endorsed
    BY <1>5, <1>10, <1>12 DEF Complete
  <2>2. LastAgreed(iterations') = endorsed'
    BY <1>1, <1>3, <1>12, <2>1 DEF Pointer, None
  <2>3. ~AtFold(frames')
    BY <1>7, <1>10, <1>12
  <2>4. History'
    BY <1>1, <2>1 DEF History
  <2>5. Pointer'
    BY <2>2, <2>3 DEF Pointer
  <2> QED BY <1>8, <1>9, <2>4, <2>5 DEF PointerInv
<1>13. CASE HereId \notin {JudgingNode, FoldNode}
  <2>1. /\ iterations' = iterations /\ draft' \in {draft, draft + 1} /\ endorsed' = endorsed
    BY <1>13 DEF Complete
  <2>2. LastAgreed(iterations') = endorsed'
    BY <1>1, <1>3, <1>13, <2>1 DEF Pointer
  <2>3. ~AtFold(frames')
    BY <1>7, <1>13
  <2>4. History'
    BY <1>1, <2>1 DEF History
  <2>5. Pointer'
    BY <2>2, <2>3 DEF Pointer
  <2> QED BY <1>8, <1>9, <2>4, <2>5 DEF PointerInv
<1> QED BY <1>11, <1>12, <1>13

(* A terminal reads the pointer from the history as it is then: at the     *)
(* fold, the latest draft when the judges agree on it.                     *)
LEMMA EndReadsPointer ==
  ASSUME Inv, PointerInv, status = None, CloseCandidate, status' # None,
         iterations' \in {iterations, WithPartial(iterations, iteration, draft)},
         UNCHANGED <<workflow, draft, current, endorsed>>,
         frames' = <<>>, iteration' \in Nat, DOMAIN outputs' = Nodes,
         AtFold(frames) => cut'.node = FoldNode
  PROVE  PointerInv'
<1>1. WalkOK /\ History /\ Pointer
  BY DEF PointerInv
<1>2. /\ iterations' \in Seq(HistoryEntries) /\ AgreedAt(iterations') \in 0 .. Len(iterations')
      /\ LastAgreed(iterations') = LastAgreed(iterations)
  <2>1. CASE iterations' = iterations
    BY <1>1, <2>1 DEF History
  <2>2. CASE iterations' = WithPartial(iterations, iteration, draft)
    BY <1>1, <2>2, PartialChangesNothing DEF History, WalkOK
  <2> QED BY <2>1, <2>2
<1>3. approved'.agreed = LastAgreed(iterations)
  <2>1. approved' = ApprovedPointer(iterations', draft)
    BY DEF CloseCandidate, Inv, Bookkeeping
  <2> QED BY <1>2, <2>1, PointerReads
<1>4. ApprovedIsEndorsed'
  <2>1. CASE ~AtFold(frames) \/ ~Agreed(outputs)
    <3>1. approved'.agreed = endorsed'
      BY <1>1, <1>3, <2>1 DEF Pointer
    <3> QED BY <3>1 DEF ApprovedIsEndorsed
  <2>2. CASE AtFold(frames) /\ Agreed(outputs)
    <3>1. approved'.agreed = draft' /\ cut'.node = FoldNode
      BY <1>1, <1>3, <2>2 DEF Pointer
    <3>2. CASE draft = 0
      <4>1. endorsed' = draft'
        BY <1>1, <3>2 DEF History
      <4> QED BY <3>1, <4>1 DEF ApprovedIsEndorsed
    <3>3. CASE draft # 0
      <4>1. JudgingNode \in current'
        BY <1>1, <2>2, <3>3 DEF Pointer
      <4> QED BY <3>1, <4>1 DEF ApprovedIsEndorsed
    <3> QED BY <3>2, <3>3
  <2> QED BY <2>1, <2>2
<1>5. WalkOK'
  <2>1. StackOK(workflow, frames')
    BY DEF StackOK
  <2> QED BY <1>1, <2>1 DEF WalkOK, Nodes, Graph
<1>6. History' /\ Pointer'
  BY <1>1, <1>2 DEF History, Pointer
<1> QED BY <1>4, <1>5, <1>6 DEF PointerInv

(* The steps that end the run, or find it ended.                           *)
LEMMA EndsKeepPointer ==
  ASSUME Inv, PointerInv,
         \/ Cut \/ GateEnds \/ ExhaustedEnds
         \/ FinishEnded \/ FinishUndone \/ FinishCompleted
  PROVE  PointerInv'
<1>1. WalkOK /\ History /\ Pointer /\ DOMAIN outputs = Nodes
  BY DEF PointerInv, WalkOK
<1>2. CASE Cut
  <2>1. /\ Running /\ AtNode /\ CloseCandidate /\ status' = "blocked" /\ cut'.node = HereId
        /\ iterations' = WithPartial(iterations, iteration, draft)
        /\ UNCHANGED <<workflow, outputs, draft, current, endorsed>>
        /\ frames' = <<>> /\ iteration' = 0
    BY <1>2 DEF Cut, CutRun, Unwind, AtWork, Wanting, AtNode
  <2>2. AtFold(frames) => cut'.node = FoldNode
    BY <1>1, <2>1, NodeUnderWay
  <2> QED BY <1>1, <2>1, <2>2, UnderWay, EndReadsPointer DEF None
<1>3. CASE GateEnds
  <2>1. /\ Running /\ AtNode /\ Here.kind = "gate" /\ CloseCandidate
        /\ status' = Here.onFail /\ Here.onFail \in TerminalStatuses
        /\ UNCHANGED <<workflow, iterations, draft, current, endorsed>>
        /\ frames' = <<>> /\ iteration' = 0
    BY <1>3 DEF GateEnds, End, Store, Unwind, Closed, AtGate, Wanting, AtNode
  <2>2. DOMAIN outputs' = Nodes
    BY <1>1, <1>3 DEF GateEnds, Store
  <2>3. ~AtFold(frames)
    BY <1>1, <2>1, NodeUnderWay
  <2>4. status' # None
    BY <2>1 DEF TerminalStatuses, None
  <2> QED BY <2>1, <2>2, <2>3, <2>4, UnderWay, EndReadsPointer
<1>4. CASE ExhaustedEnds
  <2>1. /\ Running /\ AtEnd /\ CloseCandidate /\ status' # None
        /\ UNCHANGED <<workflow, iterations, draft, current, endorsed>>
        /\ frames' = <<>> /\ iteration' = 0
    BY <1>4 DEF ExhaustedEnds, End, Store, Unwind, Exhausted, AtLoopEnd, AtEnd
  <2>2. DOMAIN outputs' = Nodes
    BY <1>1, <1>4 DEF ExhaustedEnds, Store
  <2>3. ~AtFold(frames)
    BY <1>1, <2>1, EndUnderWay
  <2> QED BY <2>1, <2>2, <2>3, UnderWay, EndReadsPointer
<1>5. CASE FinishEnded
  BY <1>5 DEF FinishEnded, record, work, PointerInv, WalkOK, History, Pointer,
              ApprovedIsEndorsed, Nodes, Graph
<1>6. CASE FinishUndone
  <2>1. /\ status = None /\ CloseCandidate /\ status' = "blocked" /\ frames = <<>>
        /\ UNCHANGED <<workflow, frames, iteration, outputs, iterations, draft, current, endorsed>>
    BY <1>6 DEF FinishUndone, Finished, End, work
  <2>2. ~AtFold(frames)
    BY <2>1 DEF AtFold
  <2> QED BY <1>1, <2>1, <2>2, EndReadsPointer DEF WalkOK, None
<1>7. CASE FinishCompleted
  BY <1>7 DEF FinishCompleted, work, PointerInv, WalkOK, History, Pointer,
              ApprovedIsEndorsed, Nodes, Graph, None
<1> QED BY <1>2, <1>3, <1>4, <1>5, <1>6, <1>7

LEMMA InitPointer == Init => PointerInv
<1> SUFFICES ASSUME Init PROVE PointerInv
  OBVIOUS
<1> DEFINE frame == Walk(Schedule[workflow])
<1>1. workflow \in DOMAIN Graphs /\ frames = <<frame>> /\ status = None
  BY DEF Init
<1>2. frame \in Frames(workflow) /\ frame.pos = 1
  BY DEF Frames, Walk, Walks
<1> HIDE DEF frame
<1>3. StackOK(workflow, <<>>) /\ frames = Append(<<>>, frame)
  BY <1>1 DEF StackOK
<1>4. StackOK(workflow, frames) /\ ~AtFold(frames)
  BY <1>1, <1>2, <1>3, PushOK
<1>5. iterations = <<>> /\ AgreedAt(iterations) = 0
  <2>1. iterations = <<>> /\ \A i \in DOMAIN iterations : FALSE
    BY DEF Init
  <2>2. {0} \cup {i \in DOMAIN iterations : iterations[i].agreed /\ ~iterations[i].partial} = {0}
    BY <2>1
  <2>3. Max({0}) = 0
    BY DEF Max
  <2> QED BY <2>1, <2>2, <2>3 DEF AgreedAt
<1>6. draft = 0 /\ endorsed = 0 /\ iteration = 0 /\ DOMAIN outputs = Nodes
  BY DEF Init
<1>7. LastAgreed(iterations) = endorsed
  BY <1>5, <1>6 DEF LastAgreed
<1>8. WalkOK /\ History /\ Pointer
  BY <1>1, <1>4, <1>5, <1>6, <1>7 DEF WalkOK, History, Pointer
<1> QED BY <1>1, <1>8 DEF PointerInv, ApprovedIsEndorsed, None

LEMMA NextPointer ==
  ASSUME FoldIsAgreement
  PROVE  Inv /\ PointerInv /\ [Next]_vars => PointerInv'
<1> SUFFICES ASSUME Inv, PointerInv, [Next]_vars PROVE PointerInv'
  OBVIOUS
<1>1. CASE \/ UNCHANGED vars \/ Raise \/ ConditionFails \/ Over
  <2>1. UNCHANGED <<workflow, frames, iteration, record, work>>
    BY <1>1 DEF vars, Raise, ConditionFails, Over
  <2> QED BY <2>1 DEF record, work, PointerInv, WalkOK, History, Pointer,
                      ApprovedIsEndorsed, Nodes, Graph
<1>2. CASE Complete
  <2>1. status = None
    BY <1>2, UnderWay DEF Complete, AtWork, Wanting, AtNode
  <2> QED BY <1>2, <2>1, CompleteKeepsPointer
<1>3. CASE Skip \/ AdvisoryGivesUp \/ GatePasses \/ GateStops \/ GateRoutes
  <2>1. status = None
    BY <1>3, UnderWay DEF Skip, AdvisoryGivesUp, GatePasses, GateStops, GateRoutes,
                          Closed, AtGate, AtWork, Wanting, AtNode
  <2> QED BY <1>3, <2>1, NodesAreQuiet, QuietStep DEF PointerInv
<1>4. CASE \/ EnterLoop \/ NextAttempt \/ Converge
           \/ ExhaustedHandsOff \/ ExhaustedGoesOn \/ Return
  <2>1. status = None
    BY <1>4, UnderWay DEF EnterLoop, NextAttempt, Converge, ExhaustedHandsOff,
                          ExhaustedGoesOn, Return, Exhausted, AtLoopEnd, AtEnd, Wanting, AtNode
  <2> QED BY <1>4, <2>1, LoopsAreQuiet, QuietStep DEF PointerInv
<1>5. CASE \/ Cut \/ GateEnds \/ ExhaustedEnds
           \/ FinishEnded \/ FinishUndone \/ FinishCompleted
  BY <1>5, EndsKeepPointer
<1> QED BY <1>1, <1>2, <1>3, <1>4, <1>5 DEF Next

(* In every workflow whose fold comes after its last judge, and of the     *)
(* judges' own rule: the approved pointer of a run that ends blocked or    *)
(* escalated, at any node of any nesting of loops and handoffs, is the     *)
(* last draft the fold passed, or the latest if cut at that very fold.     *)
THEOREM SpecApprovedIsEndorsed ==
  ASSUME FoldIsAgreement
  PROVE  Spec => []ApprovedIsEndorsed
<1>1. Init => Inv /\ PointerInv
  BY InitInv, InitPointer
<1>2. Inv /\ PointerInv /\ [Next]_vars => (Inv /\ PointerInv)'
  BY NextInv, NextPointer
<1>3. Inv /\ PointerInv => ApprovedIsEndorsed
  BY DEF PointerInv
<1> QED
  BY <1>1, <1>2, <1>3, PTL DEF Spec

-----------------------------------------------------------------------------
(***************************************************************************)
(* Why a workflow with an outline of its walks (Outlined) implements       *)
(* Delivery.  What the outline says of the place the walk is at is known;  *)
(* of the places the frames below will come to, it is what the frame above *)
(* returns: StackOutlined, whatever the depth.  So when the bottom frame   *)
(* returns, every approval the workflow requires is of the latest draft.   *)
(***************************************************************************)

(* A phase leaves the judges' outputs alone but for its own, and the       *)
(* review fold passes only what fold and repeated review have approved.    *)
PhasesKeepToTheirs ==
  \A w \in DOMAIN Graphs : \A o : DOMAIN o = Ids(Graphs[w]) =>
    \A n \in Ids(Graphs[w]) : \A p \in Outcomes(n, o) :
      /\ DOMAIN p = DOMAIN o
      /\ \A m \in (Arbiters \cap Ids(Graphs[w])) \ {n} : p[m] = o[m]
      /\ n = "review_fold" /\ p[n] = "passed" =>
           o[FoldNode] = "passed" /\ o["rework_review"] = "ship"

KnownAll(facts) == \A fact \in facts : Known(fact)

(* What is known at a frame; a loop's frame is pushed before its first     *)
(* attempt with what that attempt will start from.                         *)
KnownAt(facts, frame) ==
  IF frame.loop # None /\ frame.attempt = 0 THEN facts[frame.nodes][1]
  ELSE facts[frame.nodes][frame.pos]

Returned(facts, gives, frame) ==
  IF frame.loop = None THEN facts[frame.nodes][Len(frame.nodes) + 1]
  ELSE gives[frame.loop]

Framed(w, frame) ==
  /\ frame.pos <= Len(frame.nodes) + 1
  /\ frame.loop # None =>
       /\ frame.nodes = Graphs[w].node[frame.loop].body /\ frame.nodes # <<>>
       /\ frame.attempt = 0 => frame.pos = Len(frame.nodes) + 1

StackOutlined(w, facts, gives, stack) ==
  /\ \A i \in DOMAIN stack : Framed(w, stack[i])
  /\ stack # <<>> => Needed(w) \subseteq Returned(facts, gives, stack[1])
  /\ \A i \in DOMAIN stack : i < Len(stack) =>
       facts[stack[i].nodes][stack[i].pos + 1] \subseteq Returned(facts, gives, stack[i + 1])

OutlineInv(facts, gives) ==
  /\ WalkOK /\ draft \in Nat /\ current \subseteq Nodes /\ (draft = 0 => current = {})
  /\ StackOutlined(workflow, facts[workflow], gives[workflow], frames)
  /\ frames # <<>> => KnownAll(KnownAt(facts[workflow], frames[Len(frames)]))
  /\ (status = None /\ frames = <<>>) \/ status = "completed" => KnownAll(Needed(workflow))

-----------------------------------------------------------------------------
(* The outline of a stack, as frames advance, go and are pushed.           *)

LEMMA OutlineAdvance ==
  ASSUME NEW w \in DOMAIN Graphs, NEW facts, NEW gives, NEW stack,
         StackOK(w, stack), StackOutlined(w, facts, gives, stack), stack # <<>>,
         AtNodeOf(stack[Len(stack)])
  PROVE  LET after == Advance(stack)
             top == stack[Len(stack)]
         IN /\ StackOutlined(w, facts, gives, after) /\ after # <<>>
            /\ KnownAt(facts, after[Len(after)]) = facts[top.nodes][top.pos + 1]
<1> DEFINE top == stack[Len(stack)]
           next == [top EXCEPT !.pos = @ + 1]
           after == Advance(stack)
<1>1. stack \in Seq(Frames(w)) /\ Len(stack) \in DOMAIN stack /\ Len(stack) \in Nat
  BY DEF StackOK
<1>2. top \in Frames(w) /\ Framed(w, top)
  BY <1>1 DEF StackOutlined
<1> HIDE DEF top
<1>3. /\ next.nodes = top.nodes /\ next.pos = top.pos + 1
      /\ next.loop = top.loop /\ next.attempt = top.attempt
  BY <1>2 DEF Frames
<1> HIDE DEF next
<1>4. after = [stack EXCEPT ![Len(stack)] = next]
  BY DEF Advance, next, top
<1> HIDE DEF after
<1>5. /\ Len(after) = Len(stack) /\ DOMAIN after = DOMAIN stack /\ after[Len(stack)] = next
      /\ \A i \in DOMAIN after : i # Len(stack) => after[i] = stack[i]
  BY <1>1, <1>4
<1>6. top.pos \in Nat /\ top.pos \in DOMAIN top.nodes /\ top.nodes \in Seq(Ids(Graphs[w]))
  BY <1>2, FoldAssumption DEF AtNodeOf, Frames, top
<1>7. top.loop # None => top.attempt # 0
  BY <1>2, <1>6 DEF Framed
<1>8. Framed(w, next)
  BY <1>2, <1>3, <1>6, <1>7 DEF Framed
<1>9. Returned(facts, gives, next) = Returned(facts, gives, top)
  BY <1>3 DEF Returned
<1>10. KnownAt(facts, next) = facts[top.nodes][top.pos + 1]
  BY <1>3, <1>7 DEF KnownAt
<1>11. \A i \in DOMAIN after : /\ Framed(w, after[i])
                               /\ Returned(facts, gives, after[i]) = Returned(facts, gives, stack[i])
  BY <1>1, <1>5, <1>8, <1>9 DEF StackOutlined, top
<1>12. after # <<>> /\ 1 \in DOMAIN after
  BY <1>1, <1>5
<1>13. ASSUME NEW i \in DOMAIN after, i < Len(after)
       PROVE  facts[after[i].nodes][after[i].pos + 1] \subseteq Returned(facts, gives, after[i + 1])
  <2>1. i \in DOMAIN stack /\ i + 1 \in DOMAIN after /\ after[i] = stack[i] /\ i < Len(stack)
    BY <1>1, <1>5, <1>13
  <2> QED BY <1>11, <2>1 DEF StackOutlined
<1>14. StackOutlined(w, facts, gives, after)
  BY <1>11, <1>12, <1>13 DEF StackOutlined
<1> QED BY <1>1, <1>5, <1>10, <1>12, <1>14 DEF after, top

LEMMA OutlineFront ==
  ASSUME NEW w \in DOMAIN Graphs, NEW facts, NEW gives, NEW stack,
         StackOK(w, stack), StackOutlined(w, facts, gives, stack), stack # <<>>
  PROVE  LET rest == Front(stack)
         IN /\ StackOK(w, rest) /\ StackOutlined(w, facts, gives, rest)
            /\ rest = <<>> => Needed(w) \subseteq Returned(facts, gives, stack[Len(stack)])
            /\ rest # <<>> =>
                 /\ AtNodeOf(rest[Len(rest)])
                 /\ rest[Len(rest)].nodes[rest[Len(rest)].pos] # JudgingNode
                 /\ facts[rest[Len(rest)].nodes][rest[Len(rest)].pos + 1]
                      \subseteq Returned(facts, gives, stack[Len(stack)])
<1> DEFINE rest == Front(stack)
<1>1. stack \in Seq(Frames(w)) /\ Len(stack) \in Nat \ {0} /\ Len(stack) \in DOMAIN stack
  BY DEF StackOK
<1>2. /\ rest \in Seq(Frames(w)) /\ Len(rest) = Len(stack) - 1
      /\ \A i \in 1 .. Len(stack) - 1 : rest[i] = stack[i]
  BY <1>1, FrontIs
<1> HIDE DEF rest
<1>3. \A i \in DOMAIN rest : /\ i \in DOMAIN stack /\ i < Len(stack) /\ rest[i] = stack[i]
                             /\ i + 1 \in DOMAIN stack
  BY <1>1, <1>2
<1>4. \A i \in DOMAIN rest : AtNodeOf(rest[i]) /\ rest[i].nodes[rest[i].pos] # JudgingNode
  BY <1>3 DEF StackOK
<1>5. StackOK(w, rest)
  BY <1>2, <1>4 DEF StackOK
<1>6. \A i \in DOMAIN rest :
        facts[rest[i].nodes][rest[i].pos + 1] \subseteq Returned(facts, gives, stack[i + 1])
  BY <1>3 DEF StackOutlined
<1>7. \A i \in DOMAIN rest : i < Len(rest) => rest[i + 1] = stack[i + 1]
  BY <1>2, <1>3
<1>8. rest # <<>> => 1 \in DOMAIN rest /\ rest[1] = stack[1] /\ Len(rest) \in DOMAIN rest
  BY <1>2, <1>3
<1>9. StackOutlined(w, facts, gives, rest)
  BY <1>3, <1>6, <1>7, <1>8 DEF StackOutlined
<1>10. rest = <<>> => Len(stack) = 1
  BY <1>1, <1>2
<1>11. rest # <<>> => Len(rest) + 1 = Len(stack)
  BY <1>1, <1>2
<1>12. rest = <<>> => Needed(w) \subseteq Returned(facts, gives, stack[Len(stack)])
  BY <1>10 DEF StackOutlined
<1>13. rest # <<>> =>
         /\ AtNodeOf(rest[Len(rest)])
         /\ rest[Len(rest)].nodes[rest[Len(rest)].pos] # JudgingNode
         /\ facts[rest[Len(rest)].nodes][rest[Len(rest)].pos + 1]
              \subseteq Returned(facts, gives, stack[Len(stack)])
  BY <1>4, <1>6, <1>8, <1>11
<1> QED BY <1>5, <1>9, <1>12, <1>13 DEF rest

(* The top frame gone: the next place of the one below is one of those it  *)
(* returned to, and the caller's if there is none.                         *)
LEMMA OutlinePop ==
  ASSUME NEW w \in DOMAIN Graphs, NEW facts, NEW gives, NEW stack,
         StackOK(w, stack), StackOutlined(w, facts, gives, stack), stack # <<>>
  PROVE  LET after == Advance(Front(stack))
             back == Returned(facts, gives, stack[Len(stack)])
         IN /\ StackOutlined(w, facts, gives, after)
            /\ after # <<>> => KnownAt(facts, after[Len(after)]) \subseteq back
            /\ after = <<>> => Needed(w) \subseteq back
<1> DEFINE rest == Front(stack)
<1>1. CASE rest = <<>>
  <2>1. Advance(rest) = <<>>
    BY <1>1 DEF Advance
  <2>2. StackOutlined(w, facts, gives, <<>>)
    BY DEF StackOutlined
  <2> QED BY <1>1, <2>1, <2>2, OutlineFront
<1>2. CASE rest # <<>>
  <2>1. /\ StackOK(w, rest) /\ StackOutlined(w, facts, gives, rest) /\ AtNodeOf(rest[Len(rest)])
        /\ facts[rest[Len(rest)].nodes][rest[Len(rest)].pos + 1]
             \subseteq Returned(facts, gives, stack[Len(stack)])
    BY <1>2, OutlineFront
  <2> QED BY <1>2, <2>1, OutlineAdvance
<1> QED BY <1>1, <1>2

(* A frame pushed where the one below waits for what it returns.           *)
LEMMA OutlinePush ==
  ASSUME NEW w \in DOMAIN Graphs, NEW facts, NEW gives, NEW stack,
         StackOK(w, stack), StackOutlined(w, facts, gives, stack),
         NEW frame \in Frames(w), Framed(w, frame),
         stack = <<>> => Needed(w) \subseteq Returned(facts, gives, frame),
         stack # <<>> => facts[stack[Len(stack)].nodes][stack[Len(stack)].pos + 1]
                           \subseteq Returned(facts, gives, frame)
  PROVE  LET after == Append(stack, frame)
         IN /\ StackOutlined(w, facts, gives, after) /\ after # <<>>
            /\ after[Len(after)] = frame
<1> DEFINE after == Append(stack, frame)
<1>1. stack \in Seq(Frames(w)) /\ Len(stack) \in Nat
  BY DEF StackOK
<1>2. /\ Len(after) = Len(stack) + 1 /\ after[Len(after)] = frame /\ after # <<>>
      /\ \A i \in DOMAIN after : i # Len(after) => i \in DOMAIN stack /\ after[i] = stack[i]
      /\ DOMAIN after = 1 .. Len(stack) + 1 /\ DOMAIN stack = 1 .. Len(stack)
  BY <1>1
<1> HIDE DEF after
<1>3. \A i \in DOMAIN after : Framed(w, after[i])
  BY <1>2 DEF StackOutlined
<1>4. Needed(w) \subseteq Returned(facts, gives, after[1])
  <2>1. CASE stack = <<>>
    BY <1>1, <1>2, <2>1
  <2>2. CASE stack # <<>>
    <3>1. 1 \in DOMAIN after /\ 1 # Len(after)
      BY <1>1, <1>2, <2>2
    <3> QED BY <1>2, <2>2, <3>1 DEF StackOutlined
  <2> QED BY <2>1, <2>2
<1>5. ASSUME NEW i \in DOMAIN after, i < Len(after)
      PROVE  facts[after[i].nodes][after[i].pos + 1] \subseteq Returned(facts, gives, after[i + 1])
  <2>1. i \in DOMAIN stack /\ after[i] = stack[i] /\ i + 1 \in DOMAIN after
    BY <1>1, <1>2, <1>5
  <2>2. CASE i = Len(stack)
    <3>1. stack # <<>> /\ after[i + 1] = frame
      BY <1>1, <1>2, <2>1, <2>2
    <3> QED BY <2>1, <2>2, <3>1
  <2>3. CASE i < Len(stack)
    <3>1. after[i + 1] = stack[i + 1]
      BY <1>1, <1>2, <2>1, <2>3
    <3> QED BY <2>1, <2>3, <3>1 DEF StackOutlined
  <2> QED BY <1>1, <1>2, <2>1, <2>2, <2>3
<1>6. StackOutlined(w, facts, gives, after)
  BY <1>3, <1>4, <1>5 DEF StackOutlined
<1> QED BY <1>2, <1>6 DEF after

(* A frame in place of one that would have returned no more.               *)
LEMMA OutlineReplace ==
  ASSUME NEW w \in DOMAIN Graphs, NEW facts, NEW gives, NEW stack,
         StackOK(w, stack), StackOutlined(w, facts, gives, stack), stack # <<>>,
         NEW frame \in Frames(w), Framed(w, frame),
         Returned(facts, gives, stack[Len(stack)]) \subseteq Returned(facts, gives, frame)
  PROVE  LET after == Append(Front(stack), frame)
         IN /\ StackOutlined(w, facts, gives, after) /\ after # <<>>
            /\ after[Len(after)] = frame
<1> DEFINE rest == Front(stack)
<1>1. /\ StackOK(w, rest) /\ StackOutlined(w, facts, gives, rest)
      /\ rest = <<>> => Needed(w) \subseteq Returned(facts, gives, frame)
      /\ rest # <<>> => facts[rest[Len(rest)].nodes][rest[Len(rest)].pos + 1]
                          \subseteq Returned(facts, gives, frame)
  BY OutlineFront
<1> HIDE DEF rest
<1>2. LET after == Append(rest, frame)
      IN /\ StackOutlined(w, facts, gives, after) /\ after # <<>>
         /\ after[Len(after)] = frame
  BY <1>1, OutlinePush
<1> QED BY <1>2 DEF rest

-----------------------------------------------------------------------------
(* What steps do to what is known. *)

Answered == <<draft, current, [m \in Arbiters \cap Nodes |-> outputs[m]]>>

(* It stays known while the judges' outputs are the answer's.              *)
LEMMA KnownStays ==
  ASSUME current \subseteq Nodes, workflow' = workflow, UNCHANGED Answered,
         NEW known, KnownAll(known)
  PROVE  \A fact \in known : Known(fact)'
<1> SUFFICES ASSUME NEW fact \in known PROVE Known(fact)'
  OBVIOUS
<1>1. Known(fact)
  BY DEF KnownAll
<1>2. Nodes' = Nodes /\ draft' = draft /\ current' = current
  BY DEF Nodes, Graph, Answered
<1>3. \A m \in Arbiters \cap Nodes : outputs'[m] = outputs[m]
  <2> DEFINE seen == [m \in Arbiters \cap Nodes |-> outputs[m]]
             seenNext == [m \in Arbiters \cap Nodes |-> outputs'[m]]
  <2>1. seenNext = seen
    BY <1>2 DEF Answered
  <2>2. \A m \in Arbiters \cap Nodes : seenNext[m] = seen[m]
    BY <2>1
  <2> QED BY <2>2
<1>4. {"review", "rework_review", "review_fold", FoldNode} = Arbiters
  BY DEF Arbiters
<1> QED BY <1>1, <1>2, <1>3, <1>4 DEF Known, FoldNode

LEMMA StoreKeepsKnown ==
  ASSUME WalkOK, current \subseteq Nodes, workflow' = workflow,
         NEW n \in Nodes, n \notin Arbiters, NEW value, Store(n, value)
  PROVE  UNCHANGED Answered /\ DOMAIN outputs' = Nodes
<1>1. outputs' = [outputs EXCEPT ![n] = value] /\ draft' = draft /\ current' = current
  BY DEF Store
<1>2. Nodes' = Nodes /\ DOMAIN outputs = Nodes
  BY DEF Nodes, Graph, WalkOK
<1>3. \A m \in Arbiters \cap Nodes : outputs'[m] = outputs[m]
  BY <1>1, <1>2
<1> QED BY <1>1, <1>2, <1>3 DEF Answered

(* A condition that holds says what it says of the answer.                 *)
LEMMA ConditionTells ==
  ASSUME NEW test, NEW known, KnownAll(known), Holds(test)
  PROVE  KnownAll(WhenHolds(test, known))
<1>1. CASE test = Passed(FoldNode) /\ "judged" \in known
  <2>1. outputs[FoldNode] = "passed" /\ FoldNode \in current
    BY <1>1 DEF Holds, Passed, Test, KnownAll, Known
  <2>2. Known("built")
    BY <2>1 DEF Known
  <2>3. test # Test("review", {"ship"}) /\ test # Passed("review_fold")
    BY <1>1 DEF Passed, Test, FoldNode
  <2> QED BY <1>1, <2>2, <2>3 DEF KnownAll, WhenHolds, Given
<1>2. CASE test = Test("review", {"ship"}) /\ "reviewed" \in known
  <2>1. outputs["review"] = "ship" /\ "review" \in current
    BY <1>2 DEF Holds, Test, KnownAll, Known
  <2>2. Known("cleared")
    BY <2>1 DEF Known
  <2>3. test # Passed(FoldNode) /\ test # Passed("review_fold")
    BY <1>2 DEF Passed, Test, FoldNode
  <2> QED BY <1>2, <2>2, <2>3 DEF KnownAll, WhenHolds, Given
<1>3. CASE test = Passed("review_fold") /\ "folded" \in known
  <2>1. outputs["review_fold"] = "passed" /\ Known("folded")
    BY <1>3 DEF Holds, Passed, Test, KnownAll
  <2>2. /\ FoldNode \in current /\ outputs[FoldNode] = "passed"
        /\ "rework_review" \in current /\ outputs["rework_review"] = "ship"
    BY <2>1 DEF Known
  <2>3. Known("built") /\ Known("cleared")
    BY <2>2 DEF Known
  <2>4. test # Passed(FoldNode) /\ test # Test("review", {"ship"})
    BY <1>3 DEF Passed, Test, FoldNode
  <2> QED BY <1>3, <2>3, <2>4 DEF KnownAll, WhenHolds, Given
<1> QED BY <1>1, <1>2, <1>3 DEF KnownAll, WhenHolds, Given

(* After a node's work, or a skip stored in its place: what it answers is  *)
(* of the draft that is current, or a draft is new.                        *)
LEMMA WorkTells ==
  ASSUME WalkOK, draft \in Nat, current \subseteq Nodes, draft = 0 => current = {},
         workflow' = workflow, NEW n \in Nodes,
         \A m \in (Arbiters \cap Nodes) \ {n} : outputs'[m] = outputs[m],
         n = "review_fold" /\ outputs'[n] = "passed" =>
           outputs[FoldNode] = "passed" /\ outputs["rework_review"] = "ship",
         draft' = IF n = ArtifactNode THEN draft + 1 ELSE draft,
         current' = IF n = ArtifactNode THEN {ArtifactNode}
                    ELSE IF draft = 0 THEN {} ELSE current \cup {n},
         NEW known, KnownAll(known)
  PROVE  \A fact \in AfterWork(n, known) : Known(fact)'
<1> SUFFICES ASSUME NEW fact \in AfterWork(n, known) PROVE Known(fact)'
  OBVIOUS
<1>1. Nodes' = Nodes
  BY DEF Nodes, Graph
<1>2. CASE n = ArtifactNode
  <2>1. fact = "drafted" /\ draft' # 0
    BY <1>2 DEF AfterWork, ArtifactNode, FoldNode
  <2> QED BY <2>1 DEF Known
<1>3. CASE n # ArtifactNode
  <2>1. /\ draft' = draft /\ (draft # 0 => n \in current' /\ current \subseteq current')
        /\ current # {} => draft # 0
    BY <1>3
  <2>2. \A m \in Arbiters \cap current : m # n => m \in current' /\ outputs'[m] = outputs[m]
    BY <2>1
  <2>3. FoldNode \in Arbiters /\ {"review", "rework_review", "review_fold"} \subseteq Arbiters
    BY DEF Arbiters
  <2>4. CASE fact = "drafted"
    <3>1. "drafted" \in known
      BY <1>3, <2>4 DEF AfterWork, Given
    <3> QED BY <2>1, <2>4, <3>1 DEF KnownAll, Known
  <2>5. CASE fact = "judged"
    <3>1. "judged" \in known \/ (n = FoldNode /\ "drafted" \in known)
      BY <1>3, <2>5 DEF AfterWork, Given
    <3>2. FoldNode \in current \/ (n = FoldNode /\ draft # 0)
      BY <3>1 DEF KnownAll, Known
    <3> QED BY <2>1, <2>5, <3>2 DEF Known
  <2>6. CASE fact = "reviewed"
    <3>1. "reviewed" \in known \/ (n = "review" /\ "drafted" \in known)
      BY <1>3, <2>6 DEF AfterWork, Given
    <3>2. "review" \in current \/ (n = "review" /\ draft # 0)
      BY <3>1 DEF KnownAll, Known
    <3> QED BY <2>1, <2>6, <3>2 DEF Known
  <2>7. CASE fact = "reworked"
    <3>1. "reworked" \in known \/ (n = "rework_review" /\ "drafted" \in known)
      BY <1>3, <2>7 DEF AfterWork, Given
    <3>2. "rework_review" \in current \/ (n = "rework_review" /\ draft # 0)
      BY <3>1 DEF KnownAll, Known
    <3> QED BY <2>1, <2>7, <3>2 DEF Known
  <2>8. CASE fact = "built"
    <3>1. "built" \in known /\ n # FoldNode
      BY <1>3, <2>8 DEF AfterWork, Given, FoldNode, ArtifactNode
    <3>2. FoldNode \in current /\ outputs[FoldNode] = "passed"
      BY <3>1 DEF KnownAll, Known
    <3> QED BY <2>2, <2>3, <2>8, <3>1, <3>2 DEF Known
  <2>9. CASE fact = "cleared"
    <3>1. "cleared" \in known /\ n \notin {"review", "rework_review"}
      BY <1>3, <2>9 DEF AfterWork, Given, FoldNode, ArtifactNode
    <3>2. PICK r \in {"review", "rework_review"} \cap current : outputs[r] = "ship"
      BY <3>1 DEF KnownAll, Known
    <3>3. r \in {"review", "rework_review"} \cap current' /\ outputs'[r] = "ship"
      BY <2>2, <2>3, <3>1, <3>2
    <3> QED BY <2>9, <3>3 DEF Known
  <2>10. CASE fact = "folded"
    <3>1. CASE n = "review_fold"
      <4>1. {"judged", "reworked"} \subseteq known
        BY <1>3, <2>10, <3>1 DEF AfterWork, Given, FoldNode, ArtifactNode
      <4>2. FoldNode \in current /\ "rework_review" \in current
        BY <4>1 DEF KnownAll, Known
      <4>3. FoldNode # n /\ "rework_review" # n
        BY <3>1 DEF FoldNode
      <4>4. /\ FoldNode \in current' /\ outputs'[FoldNode] = outputs[FoldNode]
            /\ "rework_review" \in current' /\ outputs'["rework_review"] = outputs["rework_review"]
        BY <2>2, <2>3, <4>2, <4>3
      <4> QED BY <1>1, <2>10, <3>1, <4>4 DEF Known
    <3>2. CASE n # "review_fold"
      <4>1. "folded" \in known /\ n # FoldNode /\ n # "rework_review"
        BY <1>3, <2>10, <3>2 DEF AfterWork, Given, FoldNode, ArtifactNode
      <4>2. /\ "review_fold" \in Nodes
            /\ outputs["review_fold"] = "passed" =>
                 /\ FoldNode \in current /\ outputs[FoldNode] = "passed"
                 /\ "rework_review" \in current /\ outputs["rework_review"] = "ship"
        BY <4>1 DEF KnownAll, Known
      <4>3. outputs'["review_fold"] = outputs["review_fold"]
        BY <2>3, <3>2, <4>2
      <4>4. outputs["review_fold"] = "passed" =>
              /\ FoldNode \in current' /\ outputs'[FoldNode] = "passed"
              /\ "rework_review" \in current' /\ outputs'["rework_review"] = "ship"
        BY <2>2, <2>3, <4>1, <4>2
      <4> QED BY <1>1, <2>10, <4>2, <4>3, <4>4 DEF Known
    <3> QED BY <3>1, <3>2
  <2>11. CASE fact \notin {"drafted", "judged", "reviewed", "reworked", "built", "cleared", "folded"}
    BY <2>11 DEF Known
  <2> QED BY <2>4, <2>5, <2>6, <2>7, <2>8, <2>9, <2>10, <2>11
<1> QED BY <1>2, <1>3

-----------------------------------------------------------------------------
(* The steps of an outlined walk. *)

HereKnown(facts) == facts[workflow][frames[Len(frames)].nodes][frames[Len(frames)].pos]
NextKnown(facts) == facts[workflow][frames[Len(frames)].nodes][frames[Len(frames)].pos + 1]
SubGraph(t) == Handoff[workflow][t]

(* The outline at the node under way.                                      *)
LEMMA PlaceUnderWay ==
  ASSUME NEW facts, NEW gives, OutlineInv(facts, gives),
         Outlined(workflow, facts[workflow], gives[workflow]), AtNode
  PROVE  /\ HereId \in Nodes /\ KnownAll(HereKnown(facts))
         /\ Here.when # NoTest => NextKnown(facts) \subseteq HereKnown(facts)
         /\ Here.kind # "gate" /\ Here.body = <<>> =>
              NextKnown(facts) \subseteq AfterWork(HereId, HereKnown(facts))
         /\ Here.body # <<>> =>
              /\ facts[workflow][Here.body][1] \subseteq HereKnown(facts)
              /\ NextKnown(facts) \subseteq gives[workflow][HereId]
         /\ Here.kind = "gate" =>
              /\ NextKnown(facts) \subseteq WhenHolds(Here.condition, HereKnown(facts))
              /\ Here.onFail \in {None, "completed"} => Needed(workflow) \subseteq HereKnown(facts)
              /\ Here.onFail \notin TerminalStatuses \cup {None} =>
                   /\ facts[workflow][SubGraph(Here.onFail)][1] \subseteq HereKnown(facts)
                   /\ NextKnown(facts) \subseteq
                        facts[workflow][SubGraph(Here.onFail)][Len(SubGraph(Here.onFail)) + 1]
         /\ HereId \in {ArtifactNode} \cup Arbiters => Here.kind # "gate" /\ Here.body = <<>>
         /\ HereId = ArtifactNode => ~Here.advisory
<1> DEFINE top == frames[Len(frames)]
<1>1. WalkOK /\ StackOutlined(workflow, facts[workflow], gives[workflow], frames)
  BY DEF OutlineInv
<1>2. /\ frames # <<>> /\ AtNodeOf(top) /\ HereId = top.nodes[top.pos] /\ HereId \in Nodes
  BY <1>1, NodeUnderWay
<1>3. frames \in Seq(Frames(workflow)) /\ Len(frames) \in DOMAIN frames
  BY <1>1, <1>2 DEF WalkOK, StackOK
<1>4. top \in Frames(workflow) /\ Framed(workflow, top)
  BY <1>1, <1>3 DEF StackOutlined
<1> HIDE DEF top
<1>5. top.nodes \in Walks(workflow) /\ top.pos \in DOMAIN top.nodes /\ top.nodes \in Seq(Nodes)
  BY <1>1, <1>2, <1>4, FoldAssumption DEF Frames, AtNodeOf, WalkOK, Nodes, Graph
<1>6. top.loop # None => top.attempt # 0
  BY <1>4, <1>5 DEF Framed
<1>7. KnownAll(HereKnown(facts))
  BY <1>2, <1>6 DEF OutlineInv, KnownAt, HereKnown, top
<1>8. PlaceOutlined(workflow, facts[workflow], gives[workflow], top.nodes, top.pos)
  BY <1>5 DEF Outlined
<1>9. Here = Graphs[workflow].node[HereId]
  BY DEF Here, HereId, Graph
<1>10. HereId \in {ArtifactNode} \cup Arbiters =>
         /\ Here.kind # "gate" /\ Here.body = <<>>
         /\ HereId = ArtifactNode => ~Here.advisory
  BY <1>2, <1>9 DEF Outlined, Nodes, Graph
<1>11. /\ HereKnown(facts) = facts[workflow][top.nodes][top.pos]
       /\ NextKnown(facts) = facts[workflow][top.nodes][top.pos + 1]
  BY DEF HereKnown, NextKnown, top
<1> QED BY <1>2, <1>7, <1>8, <1>9, <1>10, <1>11 DEF PlaceOutlined, SubGraph

(* What an action has to show.                                             *)
Follows(facts, gives) ==
  /\ workflow' = workflow /\ StackOK(workflow, frames') /\ iteration' \in Nat
  /\ DOMAIN outputs' = Nodes
  /\ draft' \in Nat /\ current' \subseteq Nodes /\ (draft' = 0 => current' = {})
  /\ StackOutlined(workflow, facts[workflow], gives[workflow], frames')
  /\ frames' # <<>> =>
       \A fact \in KnownAt(facts[workflow], frames'[Len(frames')]) : Known(fact)'
  /\ (status' = None /\ frames' = <<>>) \/ status' = "completed" =>
       \A fact \in Needed(workflow) : Known(fact)'

LEMMA FollowsIsEnough ==
  ASSUME NEW facts, NEW gives, OutlineInv(facts, gives), Follows(facts, gives)
  PROVE  OutlineInv(facts, gives)'
<1>1. workflow' = workflow /\ Nodes' = Nodes /\ workflow \in DOMAIN Graphs
  BY DEF OutlineInv, WalkOK, Follows, Nodes, Graph
<1>2. WalkOK'
  BY <1>1 DEF WalkOK, Follows
<1> QED BY <1>1, <1>2 DEF OutlineInv, Follows, KnownAll

(* On to the next node.                                                    *)
LEMMA GoOnFollows ==
  ASSUME NEW facts, NEW gives, OutlineInv(facts, gives), AtNode, GoOn,
         status' = None, DOMAIN outputs' = Nodes,
         draft' \in Nat, current' \subseteq Nodes, draft' = 0 => current' = {},
         \A fact \in NextKnown(facts) : Known(fact)'
  PROVE  Follows(facts, gives)
<1>1. /\ WalkOK /\ StackOutlined(workflow, facts[workflow], gives[workflow], frames)
      /\ workflow \in DOMAIN Graphs /\ StackOK(workflow, frames) /\ iteration \in Nat
  BY DEF OutlineInv, WalkOK
<1>2. frames # <<>> /\ AtNodeOf(frames[Len(frames)])
  BY <1>1, NodeUnderWay
<1>3. frames' = Advance(frames) /\ workflow' = workflow /\ iteration' = iteration
  BY DEF GoOn
<1>4. StackOK(workflow, frames')
  BY <1>1, <1>2, <1>3, AdvanceOK
<1>5. /\ StackOutlined(workflow, facts[workflow], gives[workflow], frames') /\ frames' # <<>>
      /\ KnownAt(facts[workflow], frames'[Len(frames')]) = NextKnown(facts)
  BY <1>1, <1>2, <1>3, OutlineAdvance DEF NextKnown
<1> QED BY <1>1, <1>3, <1>4, <1>5 DEF Follows, None

LEMMA NodesFollow ==
  ASSUME PhasesKeepToTheirs, NEW facts, NEW gives, OutlineInv(facts, gives), status = None,
         Outlined(workflow, facts[workflow], gives[workflow]),
         Skip \/ Complete \/ AdvisoryGivesUp \/ GatePasses
  PROVE  Follows(facts, gives)
<1>1. /\ WalkOK /\ draft \in Nat /\ current \subseteq Nodes /\ (draft = 0 => current = {})
      /\ DOMAIN outputs = Nodes /\ workflow \in DOMAIN Graphs
  BY DEF OutlineInv, WalkOK
<1>2. AtNode /\ GoOn /\ UNCHANGED record
  BY DEF Skip, Complete, AdvisoryGivesUp, GatePasses, AtWork, AtGate, Wanting
<1>3. status' = None /\ workflow' = workflow /\ HereId \in Nodes /\ KnownAll(HereKnown(facts))
  BY <1>2, PlaceUnderWay DEF record, GoOn
<1>4. CASE Skip
  <2>1. NextKnown(facts) \subseteq HereKnown(facts)
    BY <1>2, <1>4, PlaceUnderWay DEF Skip
  <2>2. KnownAll(NextKnown(facts))
    BY <1>3, <2>1 DEF KnownAll
  <2>3. UNCHANGED <<outputs, draft, current>>
    BY <1>4 DEF Skip, work
  <2>4. UNCHANGED Answered
    BY <1>3, <2>3 DEF Answered, Nodes, Graph
  <2>5. \A fact \in NextKnown(facts) : Known(fact)'
    BY <1>1, <1>3, <2>2, <2>4, KnownStays
  <2> QED BY <1>1, <1>2, <1>3, <2>3, <2>5, GoOnFollows
<1>5. CASE GatePasses
  <2>1. Here.kind = "gate" /\ Holds(Here.condition) /\ Store(HereId, "passed")
    BY <1>5 DEF GatePasses, AtGate
  <2>2. HereId \notin Arbiters /\ NextKnown(facts) \subseteq WhenHolds(Here.condition, HereKnown(facts))
    BY <1>2, <2>1, PlaceUnderWay
  <2>3. KnownAll(NextKnown(facts))
    BY <1>3, <2>1, <2>2, ConditionTells DEF KnownAll
  <2>4. UNCHANGED Answered /\ DOMAIN outputs' = Nodes
    BY <1>1, <1>3, <2>1, <2>2, StoreKeepsKnown
  <2>5. \A fact \in NextKnown(facts) : Known(fact)'
    BY <1>1, <1>3, <2>3, <2>4, KnownStays
  <2>6. UNCHANGED <<draft, current>>
    BY <2>1 DEF Store
  <2> QED BY <1>1, <1>2, <1>3, <2>4, <2>5, <2>6, GoOnFollows
<1>6. CASE Complete \/ AdvisoryGivesUp
  <2>1. /\ AtWork /\ Here.kind # "gate" /\ Here.body = <<>>
        /\ NextKnown(facts) \subseteq AfterWork(HereId, HereKnown(facts))
        /\ HereId = ArtifactNode => ~Here.advisory
    BY <1>2, <1>6, PlaceUnderWay DEF Complete, AdvisoryGivesUp, AtWork
  <2>2. /\ DOMAIN outputs' = Nodes
        /\ \A m \in (Arbiters \cap Nodes) \ {HereId} : outputs'[m] = outputs[m]
        /\ HereId = "review_fold" /\ outputs'[HereId] = "passed" =>
             outputs[FoldNode] = "passed" /\ outputs["rework_review"] = "ship"
    <3>1. CASE Complete
      <4>1. outputs' \in Outcomes(HereId, outputs)
        BY <3>1 DEF Complete
      <4> QED BY <1>1, <1>3, <4>1, PhasesKeepToTheirs DEF PhasesKeepToTheirs, Nodes, Graph
    <3>2. CASE AdvisoryGivesUp
      <4>1. outputs' = [outputs EXCEPT ![HereId] = "skipped"]
        BY <3>2 DEF AdvisoryGivesUp
      <4>2. outputs'[HereId] = "skipped"
        BY <1>1, <1>3, <4>1
      <4> QED BY <1>1, <4>1, <4>2
    <3> QED BY <1>6, <3>1, <3>2
  <2>3. /\ draft' = IF HereId = ArtifactNode THEN draft + 1 ELSE draft
        /\ current' = IF HereId = ArtifactNode THEN {ArtifactNode}
                      ELSE IF draft = 0 THEN {} ELSE current \cup {HereId}
    <3>1. CASE Complete
      BY <3>1 DEF Complete
    <3>2. CASE AdvisoryGivesUp
      BY <2>1, <3>2 DEF AdvisoryGivesUp
    <3> QED BY <1>6, <3>1, <3>2
  <2>4. \A fact \in AfterWork(HereId, HereKnown(facts)) : Known(fact)'
    BY <1>1, <1>3, <2>2, <2>3, WorkTells
  <2>5. draft' \in Nat /\ current' \subseteq Nodes /\ (draft' = 0 => current' = {})
    BY <1>1, <1>3, <2>3
  <2> QED BY <1>2, <1>3, <2>1, <2>2, <2>4, <2>5, GoOnFollows
<1> QED BY <1>4, <1>5, <1>6

(* A closed gate: the walk stops, or a sub-graph is walked in its place.   *)
LEMMA ClosedGatesFollow ==
  ASSUME NEW facts, NEW gives, OutlineInv(facts, gives), status = None,
         Outlined(workflow, facts[workflow], gives[workflow]),
         GateStops \/ GateRoutes
  PROVE  Follows(facts, gives)
<1>1. /\ WalkOK /\ draft \in Nat /\ current \subseteq Nodes /\ (draft = 0 => current = {})
      /\ StackOutlined(workflow, facts[workflow], gives[workflow], frames)
      /\ workflow \in DOMAIN Graphs /\ StackOK(workflow, frames)
  BY DEF OutlineInv, WalkOK
<1>2. AtNode /\ UNCHANGED record /\ Here.kind = "gate" /\ Store(HereId, "closed")
  BY DEF GateStops, GateRoutes, Closed, AtGate, Wanting
<1>3. status' = None /\ workflow' = workflow /\ HereId \in Nodes /\ KnownAll(HereKnown(facts))
      /\ HereId \notin Arbiters
  BY <1>2, PlaceUnderWay DEF record, GateStops, GateRoutes, Unwind
<1>4. UNCHANGED Answered /\ DOMAIN outputs' = Nodes
  BY <1>1, <1>2, <1>3, StoreKeepsKnown
<1>5. UNCHANGED <<draft, current>>
  BY <1>2 DEF Store
<1>6. Quiet
  BY <1>1, NodesAreQuiet
<1>7. CASE GateStops
  <2>1. Needed(workflow) \subseteq HereKnown(facts) /\ frames' = <<>>
    BY <1>2, <1>7, PlaceUnderWay DEF GateStops, Unwind
  <2>2. KnownAll(Needed(workflow))
    BY <1>3, <2>1 DEF KnownAll
  <2>3. \A fact \in Needed(workflow) : Known(fact)'
    BY <1>1, <1>3, <1>4, <2>2, KnownStays
  <2>4. StackOutlined(workflow, facts[workflow], gives[workflow], frames')
    BY <2>1 DEF StackOutlined
  <2> QED BY <1>1, <1>3, <1>4, <1>5, <1>6, <2>1, <2>3, <2>4 DEF Follows, Quiet
<1>8. CASE GateRoutes
  <2> DEFINE sub == SubGraph(Here.onFail)
             frame == Walk(sub)
  <2>1. /\ Here.onFail \notin TerminalStatuses \cup {None} /\ frames' = Append(frames, frame)
    BY <1>8 DEF GateRoutes, SubGraph
  <2>2. /\ facts[workflow][sub][1] \subseteq HereKnown(facts)
        /\ NextKnown(facts) \subseteq facts[workflow][sub][Len(sub) + 1]
    BY <1>2, <2>1, PlaceUnderWay
  <2>3. Here = Graph.node[HereId]
    BY DEF Here, HereId
  <2>4. Here.onFail \in Targets(Graph)
    BY <1>3, <2>1, <2>3 DEF Targets, Nodes
  <2>5. frame \in Frames(workflow) /\ sub \in Walks(workflow)
    BY <1>1, <2>4, WalkFrames DEF SubGraph, Walks, Graph
  <2>6. Len(sub) \in Nat
    <3>1. sub \in Seq(Ids(Graphs[workflow]))
      BY <1>1, <2>5, FoldAssumption
    <3> QED BY <3>1
  <2>7. /\ frame.loop = None /\ frame.nodes = sub /\ frame.pos = 1
    BY DEF Walk
  <2> HIDE DEF frame, sub
  <2>8. /\ Framed(workflow, frame) /\ KnownAt(facts[workflow], frame) = facts[workflow][sub][1]
        /\ Returned(facts[workflow], gives[workflow], frame) = facts[workflow][sub][Len(sub) + 1]
    BY <2>6, <2>7 DEF Framed, KnownAt, Returned
  <2>9. frames # <<>>
    BY <1>2 DEF AtNode, Running
  <2>10. /\ StackOutlined(workflow, facts[workflow], gives[workflow], frames')
         /\ frames' # <<>> /\ frames'[Len(frames')] = frame
    BY <1>1, <2>1, <2>2, <2>5, <2>8, <2>9, OutlinePush DEF NextKnown
  <2>11. KnownAll(facts[workflow][sub][1])
    BY <1>3, <2>2 DEF KnownAll
  <2>12. \A fact \in facts[workflow][sub][1] : Known(fact)'
    BY <1>1, <1>3, <1>4, <2>11, KnownStays
  <2> QED BY <1>1, <1>3, <1>4, <1>5, <1>6, <2>8, <2>10, <2>12 DEF Follows, Quiet, None
<1> QED BY <1>7, <1>8

FirstKnown(facts) == facts[workflow][Loop.body][1]
LastKnown(facts) == facts[workflow][Loop.body][Len(Loop.body) + 1]

(* The outline at the end of a loop's body.                                *)
LEMMA LoopUnderWay ==
  ASSUME NEW facts, NEW gives, OutlineInv(facts, gives),
         Outlined(workflow, facts[workflow], gives[workflow]), AtLoopEnd
  PROVE  /\ frames # <<>> /\ Top.loop \in Nodes /\ Top.loop \notin Arbiters /\ Top.attempt \in Nat
         /\ Loop.body # <<>> /\ Loop.body \in Seq(Nodes) /\ Loop.onExhausted \notin TerminalStatuses
         /\ KnownAll(FirstKnown(facts)) /\ (Top.attempt > 0 => KnownAll(LastKnown(facts)))
         /\ Returned(facts[workflow], gives[workflow], frames[Len(frames)]) = gives[workflow][Top.loop]
         /\ gives[workflow][Top.loop] \subseteq WhenHolds(Loop.until, LastKnown(facts))
         /\ Loop.exhaustedStatus \in TerminalStatuses \cup {None}
         /\ Loop.exhaustedStatus = "completed" => Needed(workflow) \subseteq FirstKnown(facts)
         /\ Loop.exhaustedStatus = None /\ Loop.onExhausted = None =>
              gives[workflow][Top.loop] \subseteq FirstKnown(facts)
         /\ Loop.exhaustedStatus = None /\ Loop.onExhausted # None =>
              /\ facts[workflow][SubGraph(Loop.onExhausted)][1] \subseteq FirstKnown(facts)
              /\ gives[workflow][Top.loop] \subseteq
                   facts[workflow][SubGraph(Loop.onExhausted)][Len(SubGraph(Loop.onExhausted)) + 1]
<1> DEFINE top == frames[Len(frames)]
<1>1. /\ WalkOK /\ StackOutlined(workflow, facts[workflow], gives[workflow], frames)
      /\ workflow \in DOMAIN Graphs
  BY DEF OutlineInv, WalkOK
<1>2. AtEnd /\ Top.loop # None /\ Top = top /\ frames # <<>> /\ ~(Top.pos <= Len(Top.nodes))
  BY DEF AtLoopEnd, AtEnd, AtNode, Running, Top, Last
<1>3. frames \in Seq(Frames(workflow)) /\ Len(frames) \in DOMAIN frames
  BY <1>1, <1>2 DEF WalkOK, StackOK
<1>4. top \in Frames(workflow) /\ Framed(workflow, top)
  BY <1>1, <1>3 DEF StackOutlined
<1>5. top.loop \in Nodes /\ top.attempt \in Nat /\ top.pos \in Nat /\ top.nodes \in Walks(workflow)
  <2> HIDE DEF top
  <2> QED BY <1>2, <1>4 DEF Frames, Nodes, Graph
<1>6. Loop = Graphs[workflow].node[top.loop] /\ top.nodes = Loop.body /\ Loop.body # <<>>
  BY <1>2, <1>4 DEF Framed, Loop, Graph
<1>7. Loop.body \in Seq(Nodes)
  BY <1>1, <1>5, <1>6, FoldAssumption DEF Nodes, Graph
<1>8. top.pos = Len(Loop.body) + 1
  <2>1. Len(Loop.body) \in Nat
    BY <1>7
  <2>2. top.pos <= Len(Loop.body) + 1 /\ ~(top.pos <= Len(Loop.body))
    BY <1>2, <1>4, <1>6 DEF Framed
  <2> HIDE DEF top
  <2> QED BY <1>5, <2>1, <2>2
<1>9. Loop.onExhausted \notin TerminalStatuses
  BY <1>1, <1>5, <1>6, FoldAssumption DEF Nodes, Graph
<1>10. top.loop \notin Arbiters
  BY <1>5, <1>6 DEF Outlined, Nodes, Graph
<1>11. LoopOutlined(workflow, facts[workflow], gives[workflow], top.loop)
  BY <1>5, <1>6 DEF Outlined, Nodes, Graph
<1>12. Returned(facts[workflow], gives[workflow], top) = gives[workflow][top.loop]
  BY <1>2 DEF Returned
<1>13. KnownAll(KnownAt(facts[workflow], top))
  BY <1>2 DEF OutlineInv
<1>14. FirstKnown(facts) \subseteq LastKnown(facts)
  BY <1>6, <1>11 DEF LoopOutlined, FirstKnown, LastKnown
<1>15. KnownAt(facts[workflow], top) = IF top.attempt = 0 THEN FirstKnown(facts) ELSE LastKnown(facts)
  BY <1>2, <1>6, <1>8 DEF KnownAt, FirstKnown, LastKnown
<1>16. KnownAll(FirstKnown(facts)) /\ (Top.attempt > 0 => KnownAll(LastKnown(facts)))
  <2>1. top.attempt > 0 => top.attempt # 0
    BY <1>5
  <2> QED BY <1>2, <1>13, <1>14, <1>15, <2>1 DEF KnownAll
<1> HIDE DEF top
<1>17. /\ gives[workflow][top.loop] \subseteq WhenHolds(Loop.until, LastKnown(facts))
       /\ Loop.exhaustedStatus \in TerminalStatuses \cup {None}
       /\ Loop.exhaustedStatus = "completed" => Needed(workflow) \subseteq FirstKnown(facts)
       /\ Loop.exhaustedStatus = None /\ Loop.onExhausted = None =>
            gives[workflow][top.loop] \subseteq FirstKnown(facts)
       /\ Loop.exhaustedStatus = None /\ Loop.onExhausted # None =>
            /\ facts[workflow][SubGraph(Loop.onExhausted)][1] \subseteq FirstKnown(facts)
            /\ gives[workflow][top.loop] \subseteq
                 facts[workflow][SubGraph(Loop.onExhausted)][Len(SubGraph(Loop.onExhausted)) + 1]
  BY <1>6, <1>11 DEF LoopOutlined, FirstKnown, LastKnown, SubGraph
<1> QED BY <1>2, <1>5, <1>6, <1>7, <1>9, <1>10, <1>12, <1>16, <1>17 DEF top

(* The top frame has returned: on, below it, with what it returns.         *)
LEMMA PopFollows ==
  ASSUME NEW facts, NEW gives, OutlineInv(facts, gives), frames # <<>>,
         frames' = Advance(Front(frames)), workflow' = workflow, iteration' \in Nat,
         DOMAIN outputs' = Nodes, UNCHANGED <<draft, current>>, status' = None,
         \A fact \in Returned(facts[workflow], gives[workflow], frames[Len(frames)]) : Known(fact)'
  PROVE  Follows(facts, gives)
<1>1. /\ draft \in Nat /\ current \subseteq Nodes /\ (draft = 0 => current = {})
      /\ StackOutlined(workflow, facts[workflow], gives[workflow], frames)
      /\ workflow \in DOMAIN Graphs /\ StackOK(workflow, frames)
  BY DEF OutlineInv, WalkOK
<1>2. StackOK(workflow, frames')
  BY <1>1, PopOK
<1>3. /\ StackOutlined(workflow, facts[workflow], gives[workflow], frames')
      /\ frames' # <<>> => KnownAt(facts[workflow], frames'[Len(frames')])
                            \subseteq Returned(facts[workflow], gives[workflow], frames[Len(frames)])
      /\ frames' = <<>> => Needed(workflow)
                            \subseteq Returned(facts[workflow], gives[workflow], frames[Len(frames)])
  BY <1>1, OutlinePop
<1> QED BY <1>1, <1>2, <1>3 DEF Follows, None

LEMMA LoopsFollow ==
  ASSUME NEW facts, NEW gives, OutlineInv(facts, gives), status = None,
         Outlined(workflow, facts[workflow], gives[workflow]),
         \/ EnterLoop \/ NextAttempt \/ Converge
         \/ ExhaustedHandsOff \/ ExhaustedGoesOn \/ Return
  PROVE  Follows(facts, gives)
<1>1. /\ WalkOK /\ draft \in Nat /\ current \subseteq Nodes /\ (draft = 0 => current = {})
      /\ StackOutlined(workflow, facts[workflow], gives[workflow], frames)
      /\ workflow \in DOMAIN Graphs /\ StackOK(workflow, frames)
  BY DEF OutlineInv, WalkOK
<1>2. Quiet /\ UNCHANGED <<draft, current>> /\ workflow' = workflow /\ status' = None
  BY <1>1, LoopsAreQuiet
     DEF EnterLoop, NextAttempt, Converge, ExhaustedHandsOff, ExhaustedGoesOn, Return,
         Store, work, record
<1>3. iteration' \in Nat /\ DOMAIN outputs' = Nodes /\ StackOK(workflow, frames')
  BY <1>2 DEF Quiet
<1>4. EnterLoop \/ NextAttempt \/ Return => UNCHANGED Answered
  BY <1>2 DEF EnterLoop, NextAttempt, Return, work, Answered, Nodes, Graph
<1>5. Converge \/ ExhaustedHandsOff \/ ExhaustedGoesOn => AtLoopEnd /\ UNCHANGED Answered
  <2>1. ASSUME Converge \/ ExhaustedHandsOff \/ ExhaustedGoesOn
        PROVE  AtLoopEnd /\ \E value : Store(Top.loop, value)
    BY <2>1 DEF Converge, ExhaustedHandsOff, ExhaustedGoesOn, Exhausted
  <2> QED BY <1>1, <1>2, <2>1, LoopUnderWay, StoreKeepsKnown
<1>6. CASE EnterLoop
  <2> DEFINE frame == [BodyOf(HereId, 0) EXCEPT !.pos = Len(Here.body) + 1]
  <2>1. /\ AtNode /\ Here.body # <<>> /\ frames' = Append(frames, frame) /\ frames # <<>>
        /\ Here = Graph.node[HereId]
    BY <1>6 DEF EnterLoop, Wanting, AtNode, Running, Here, HereId
  <2>2. /\ HereId \in Nodes /\ KnownAll(HereKnown(facts))
        /\ facts[workflow][Here.body][1] \subseteq HereKnown(facts)
        /\ NextKnown(facts) \subseteq gives[workflow][HereId]
    BY <2>1, PlaceUnderWay
  <2>3. HereId # None
    BY <2>2 DEF Outlined, Nodes, Graph
  <2>4. frame \in Frames(workflow)
    BY <1>1, <2>1, <2>2, WalkFrames
  <2>5. /\ frame.loop = HereId /\ frame.nodes = Here.body /\ frame.attempt = 0
        /\ frame.pos = Len(Here.body) + 1
    BY <2>1 DEF BodyOf
  <2>6. frame.pos \in Nat
    <3> HIDE DEF frame
    <3> QED BY <2>4 DEF Frames
  <2> HIDE DEF frame
  <2>7. Framed(workflow, frame)
    BY <2>1, <2>5, <2>6 DEF Framed, Graph
  <2>8. /\ KnownAt(facts[workflow], frame) = facts[workflow][Here.body][1]
        /\ Returned(facts[workflow], gives[workflow], frame) = gives[workflow][HereId]
    BY <2>3, <2>5 DEF KnownAt, Returned
  <2>9. /\ StackOutlined(workflow, facts[workflow], gives[workflow], frames')
        /\ frames' # <<>> /\ frames'[Len(frames')] = frame
    BY <1>1, <2>1, <2>2, <2>4, <2>7, <2>8, OutlinePush DEF NextKnown
  <2>10. KnownAll(facts[workflow][Here.body][1])
    BY <2>2 DEF KnownAll
  <2>11. \A fact \in facts[workflow][Here.body][1] : Known(fact)'
    BY <1>1, <1>2, <1>4, <1>6, <2>10, KnownStays
  <2> QED BY <1>1, <1>2, <1>3, <2>8, <2>9, <2>11 DEF Follows, None
<1>7. CASE NextAttempt
  <2> DEFINE frame == BodyOf(Top.loop, Top.attempt + 1)
  <2>1. AtLoopEnd /\ frames' = Append(Front(frames), frame) /\ Top.loop # None
    BY <1>7 DEF NextAttempt, AtLoopEnd
  <2>2. /\ frames # <<>> /\ Top.loop \in Nodes /\ Top.attempt \in Nat /\ Loop.body # <<>>
        /\ Loop.body \in Seq(Nodes) /\ KnownAll(FirstKnown(facts))
        /\ Returned(facts[workflow], gives[workflow], frames[Len(frames)]) = gives[workflow][Top.loop]
    BY <2>1, LoopUnderWay
  <2>3. frame \in Frames(workflow)
    BY <1>1, <2>2, WalkFrames
  <2>4. /\ frame.loop = Top.loop /\ frame.nodes = Loop.body /\ frame.pos = 1
        /\ frame.attempt = Top.attempt + 1
    BY DEF BodyOf, Loop
  <2> HIDE DEF frame
  <2>5. frame.attempt # 0 /\ frame.pos <= Len(frame.nodes) + 1
    BY <2>2, <2>4
  <2>6. Framed(workflow, frame)
    BY <2>2, <2>4, <2>5 DEF Framed, Loop, Graph
  <2>7. /\ KnownAt(facts[workflow], frame) = FirstKnown(facts)
        /\ Returned(facts[workflow], gives[workflow], frame) = gives[workflow][Top.loop]
    BY <2>1, <2>4, <2>5 DEF KnownAt, Returned, FirstKnown
  <2>8. /\ StackOutlined(workflow, facts[workflow], gives[workflow], frames')
        /\ frames' # <<>> /\ frames'[Len(frames')] = frame
    BY <1>1, <2>1, <2>2, <2>3, <2>6, <2>7, OutlineReplace
  <2>9. \A fact \in FirstKnown(facts) : Known(fact)'
    BY <1>1, <1>2, <1>4, <1>7, <2>2, KnownStays
  <2> QED BY <1>1, <1>2, <1>3, <2>7, <2>8, <2>9 DEF Follows, None
<1>8. CASE ExhaustedHandsOff
  <2> DEFINE sub == SubGraph(Loop.onExhausted)
             frame == Walk(sub)
  <2>1. /\ AtLoopEnd /\ Loop.exhaustedStatus = None /\ Loop.onExhausted # None
        /\ frames' = Append(Front(frames), frame)
    BY <1>8 DEF ExhaustedHandsOff, Exhausted, SubGraph
  <2>2. /\ frames # <<>> /\ Top.loop \in Nodes /\ KnownAll(FirstKnown(facts))
        /\ Loop.onExhausted \notin TerminalStatuses
        /\ Returned(facts[workflow], gives[workflow], frames[Len(frames)]) = gives[workflow][Top.loop]
        /\ facts[workflow][sub][1] \subseteq FirstKnown(facts)
        /\ gives[workflow][Top.loop] \subseteq facts[workflow][sub][Len(sub) + 1]
    BY <2>1, LoopUnderWay
  <2>3. Loop.onExhausted \in Targets(Graph)
    BY <2>1, <2>2 DEF Targets, Loop, Nodes
  <2>4. frame \in Frames(workflow) /\ sub \in Walks(workflow)
    BY <1>1, <2>3, WalkFrames DEF SubGraph, Walks, Graph
  <2>5. Len(sub) \in Nat
    <3>1. sub \in Seq(Ids(Graphs[workflow]))
      BY <1>1, <2>4, FoldAssumption
    <3> QED BY <3>1
  <2>6. frame.loop = None /\ frame.nodes = sub /\ frame.pos = 1
    BY DEF Walk
  <2> HIDE DEF frame, sub
  <2>7. /\ Framed(workflow, frame) /\ KnownAt(facts[workflow], frame) = facts[workflow][sub][1]
        /\ Returned(facts[workflow], gives[workflow], frame) = facts[workflow][sub][Len(sub) + 1]
    BY <2>5, <2>6 DEF Framed, KnownAt, Returned
  <2>8. /\ StackOutlined(workflow, facts[workflow], gives[workflow], frames')
        /\ frames' # <<>> /\ frames'[Len(frames')] = frame
    BY <1>1, <2>1, <2>2, <2>4, <2>7, OutlineReplace
  <2>9. KnownAll(facts[workflow][sub][1])
    BY <2>2 DEF KnownAll
  <2>10. \A fact \in facts[workflow][sub][1] : Known(fact)'
    BY <1>1, <1>2, <1>5, <1>8, <2>9, KnownStays
  <2> QED BY <1>1, <1>2, <1>3, <2>7, <2>8, <2>10 DEF Follows, None
<1>9. CASE Converge
  <2>1. AtLoopEnd /\ Top.attempt > 0 /\ Holds(Loop.until) /\ frames' = Advance(Front(frames))
    BY <1>9 DEF Converge
  <2>2. /\ frames # <<>> /\ KnownAll(LastKnown(facts))
        /\ Returned(facts[workflow], gives[workflow], frames[Len(frames)]) = gives[workflow][Top.loop]
        /\ gives[workflow][Top.loop] \subseteq WhenHolds(Loop.until, LastKnown(facts))
    BY <2>1, LoopUnderWay
  <2>3. KnownAll(gives[workflow][Top.loop])
    BY <2>1, <2>2, ConditionTells DEF KnownAll
  <2>4. \A fact \in gives[workflow][Top.loop] : Known(fact)'
    BY <1>1, <1>2, <1>5, <1>9, <2>3, KnownStays
  <2> QED BY <1>2, <1>3, <2>1, <2>2, <2>4, PopFollows
<1>10. CASE ExhaustedGoesOn
  <2>1. /\ AtLoopEnd /\ Loop.exhaustedStatus = None /\ Loop.onExhausted = None
        /\ frames' = Advance(Front(frames))
    BY <1>10 DEF ExhaustedGoesOn, Exhausted
  <2>2. /\ frames # <<>> /\ KnownAll(FirstKnown(facts))
        /\ Returned(facts[workflow], gives[workflow], frames[Len(frames)]) = gives[workflow][Top.loop]
        /\ gives[workflow][Top.loop] \subseteq FirstKnown(facts)
    BY <2>1, LoopUnderWay
  <2>3. KnownAll(gives[workflow][Top.loop])
    BY <2>2 DEF KnownAll
  <2>4. \A fact \in gives[workflow][Top.loop] : Known(fact)'
    BY <1>1, <1>2, <1>5, <1>10, <2>3, KnownStays
  <2> QED BY <1>2, <1>3, <2>1, <2>2, <2>4, PopFollows
<1>11. CASE Return
  <2> DEFINE top == frames[Len(frames)]
  <2>1. /\ AtEnd /\ Top = top /\ Top.loop = None /\ frames' = Advance(Front(frames))
        /\ frames # <<>> /\ ~(Top.pos <= Len(Top.nodes))
    BY <1>11 DEF Return, AtEnd, AtNode, Running, Top, Last
  <2>2. frames \in Seq(Frames(workflow)) /\ Len(frames) \in DOMAIN frames
    BY <1>1, <2>1 DEF StackOK
  <2>3. top \in Frames(workflow) /\ Framed(workflow, top) /\ KnownAll(KnownAt(facts[workflow], top))
    BY <1>1, <2>1, <2>2 DEF StackOutlined, OutlineInv
  <2> HIDE DEF top
  <2>4. top.nodes \in Seq(Ids(Graphs[workflow])) /\ top.pos \in Nat
    BY <1>1, <2>3, FoldAssumption DEF Frames
  <2>5. top.pos = Len(top.nodes) + 1
    BY <2>1, <2>3, <2>4 DEF Framed
  <2>6. KnownAll(Returned(facts[workflow], gives[workflow], top))
    BY <2>1, <2>3, <2>5 DEF KnownAt, Returned
  <2>7. \A fact \in Returned(facts[workflow], gives[workflow], top) : Known(fact)'
    BY <1>1, <1>2, <1>4, <1>11, <2>6, KnownStays
  <2> QED BY <1>2, <1>3, <2>1, <2>7, PopFollows DEF top
<1> QED BY <1>6, <1>7, <1>8, <1>9, <1>10, <1>11

(* A step that ends the run leaves the answer as it is, and completes only *)
(* with all the workflow needs.                                            *)
LEMMA EndFollows ==
  ASSUME NEW facts, NEW gives, OutlineInv(facts, gives),
         UNCHANGED <<workflow, draft, current>>, UNCHANGED Answered,
         frames' = <<>>, iteration' \in Nat, DOMAIN outputs' = Nodes,
         status' # None, status' = "completed" => KnownAll(Needed(workflow))
  PROVE  Follows(facts, gives)
<1>1. /\ draft \in Nat /\ current \subseteq Nodes /\ (draft = 0 => current = {})
  BY DEF OutlineInv
<1>2. StackOK(workflow, frames') /\ StackOutlined(workflow, facts[workflow], gives[workflow], frames')
  BY DEF StackOK, StackOutlined
<1>3. status' = "completed" => \A fact \in Needed(workflow) : Known(fact)'
  BY <1>1, KnownStays
<1> QED BY <1>1, <1>2, <1>3 DEF Follows

LEMMA AnswerEnds ==
  ASSUME NEW facts, NEW gives, OutlineInv(facts, gives),
         Outlined(workflow, facts[workflow], gives[workflow]),
         Cut \/ GateEnds \/ ExhaustedEnds \/ FinishUndone \/ FinishCompleted
  PROVE  /\ UNCHANGED <<workflow, draft, current>> /\ UNCHANGED Answered
         /\ frames' = <<>> /\ iteration' \in Nat /\ DOMAIN outputs' = Nodes
         /\ status' \in TerminalStatuses
         /\ status' = "completed" => KnownAll(Needed(workflow))
<1>1. /\ WalkOK /\ draft \in Nat /\ current \subseteq Nodes /\ (draft = 0 => current = {})
      /\ DOMAIN outputs = Nodes /\ iteration \in Nat
  BY DEF OutlineInv, WalkOK
<1>2. CASE Cut
  <2>1. /\ UNCHANGED <<workflow, outputs, draft, current>> /\ frames' = <<>> /\ iteration' = 0
        /\ status' = "blocked"
    BY <1>2 DEF Cut, CutRun, Unwind
  <2>2. UNCHANGED Answered
    BY <2>1 DEF Answered, Nodes, Graph
  <2> QED BY <1>1, <2>1, <2>2 DEF TerminalStatuses
<1>3. CASE GateEnds
  <2>1. /\ AtNode /\ Here.kind = "gate" /\ Store(HereId, "closed") /\ status' = Here.onFail
        /\ Here.onFail \in TerminalStatuses
        /\ frames' = <<>> /\ iteration' = 0 /\ UNCHANGED workflow
    BY <1>3 DEF GateEnds, End, Unwind, Closed, AtGate, Wanting
  <2>2. /\ HereId \in Nodes /\ HereId \notin Arbiters /\ KnownAll(HereKnown(facts))
        /\ Here.onFail = "completed" => Needed(workflow) \subseteq HereKnown(facts)
    BY <2>1, PlaceUnderWay
  <2>3. UNCHANGED Answered /\ DOMAIN outputs' = Nodes
    BY <1>1, <2>1, <2>2, StoreKeepsKnown
  <2>4. UNCHANGED <<draft, current>>
    BY <2>1 DEF Store
  <2>5. status' = "completed" => KnownAll(Needed(workflow))
    BY <2>1, <2>2 DEF KnownAll
  <2> QED BY <2>1, <2>3, <2>4, <2>5
<1>4. CASE ExhaustedEnds
  <2>1. /\ AtLoopEnd /\ Store(Top.loop, "exhausted") /\ status' = Loop.exhaustedStatus
        /\ Loop.exhaustedStatus # None
        /\ frames' = <<>> /\ iteration' = 0 /\ UNCHANGED workflow
    BY <1>4 DEF ExhaustedEnds, Exhausted, End, Unwind
  <2>2. /\ Top.loop \in Nodes /\ Top.loop \notin Arbiters /\ KnownAll(FirstKnown(facts))
        /\ Loop.exhaustedStatus \in TerminalStatuses \cup {None}
        /\ Loop.exhaustedStatus = "completed" => Needed(workflow) \subseteq FirstKnown(facts)
    BY <2>1, LoopUnderWay
  <2>3. UNCHANGED Answered /\ DOMAIN outputs' = Nodes
    BY <1>1, <2>1, <2>2, StoreKeepsKnown
  <2>4. UNCHANGED <<draft, current>>
    BY <2>1 DEF Store
  <2>5. status' = "completed" => KnownAll(Needed(workflow))
    BY <2>1, <2>2 DEF KnownAll
  <2> QED BY <2>1, <2>2, <2>3, <2>4, <2>5
<1>5. CASE FinishUndone \/ FinishCompleted
  <2>1. /\ UNCHANGED <<workflow, frames, iteration, outputs, draft, current>>
        /\ status = None /\ frames = <<>> /\ status' \in {"blocked", "completed"}
    BY <1>5 DEF FinishUndone, FinishCompleted, Finished, End, work
  <2>2. UNCHANGED Answered
    BY <2>1 DEF Answered, Nodes, Graph
  <2>3. KnownAll(Needed(workflow))
    BY <2>1 DEF OutlineInv
  <2> QED BY <1>1, <2>1, <2>2, <2>3 DEF TerminalStatuses
<1> QED BY <1>2, <1>3, <1>4, <1>5

LEMMA EndsFollow ==
  ASSUME NEW facts, NEW gives, OutlineInv(facts, gives),
         Outlined(workflow, facts[workflow], gives[workflow]),
         Cut \/ GateEnds \/ ExhaustedEnds \/ FinishUndone \/ FinishCompleted
  PROVE  Follows(facts, gives)
<1>1. status' \in TerminalStatuses => status' # None
  BY DEF TerminalStatuses, None
<1> QED BY <1>1, AnswerEnds, EndFollows

LEMMA InitOutline ==
  ASSUME NEW facts, NEW gives, Init,
         Outlined(workflow, facts[workflow], gives[workflow])
  PROVE  OutlineInv(facts, gives)
<1> DEFINE frame == Walk(Schedule[workflow])
<1>1. /\ workflow \in DOMAIN Graphs /\ frames = <<frame>> /\ status = None
      /\ draft = 0 /\ current = {}
  BY DEF Init
<1>2. WalkOK
  BY InitPointer DEF PointerInv
<1>3. Schedule[workflow] \in Seq(Ids(Graphs[workflow]))
  BY <1>1, FoldAssumption DEF Walks
<1>4. frame.loop = None /\ frame.nodes = Schedule[workflow] /\ frame.pos = 1
  BY DEF Walk
<1> HIDE DEF frame
<1>5. /\ Framed(workflow, frame) /\ KnownAt(facts[workflow], frame) = {}
      /\ Needed(workflow) \subseteq Returned(facts[workflow], gives[workflow], frame)
  BY <1>3, <1>4 DEF Framed, KnownAt, Returned, Outlined
<1>6. /\ frames # <<>> /\ Len(frames) = 1 /\ DOMAIN frames = {1} /\ frames[1] = frame
  BY <1>1
<1>7. StackOutlined(workflow, facts[workflow], gives[workflow], frames)
  BY <1>5, <1>6 DEF StackOutlined
<1> QED BY <1>1, <1>2, <1>5, <1>6, <1>7 DEF OutlineInv, KnownAll, None

LEMMA NextOutline ==
  ASSUME PhasesKeepToTheirs, NEW facts, NEW gives, Inv, OutlineInv(facts, gives),
         Outlined(workflow, facts[workflow], gives[workflow]), [Next]_vars
  PROVE  OutlineInv(facts, gives)'
<1>1. CASE UNCHANGED vars \/ Raise \/ ConditionFails \/ FinishEnded \/ Over
  <2>1. UNCHANGED <<workflow, frames, iteration, outputs, draft, current, status>>
    BY <1>1 DEF vars, record, work, Raise, ConditionFails, FinishEnded, Over
  <2> QED BY <2>1 DEF OutlineInv, WalkOK, Nodes, Graph, KnownAll, Known
<1>2. CASE \/ Skip \/ Complete \/ AdvisoryGivesUp \/ GatePasses \/ GateStops \/ GateRoutes
           \/ EnterLoop \/ NextAttempt \/ Converge
           \/ ExhaustedHandsOff \/ ExhaustedGoesOn \/ Return
  <2>1. Running
    BY <1>2 DEF Skip, Complete, AdvisoryGivesUp, GatePasses, GateStops, GateRoutes, Closed,
                AtGate, AtWork, EnterLoop, NextAttempt, Converge, ExhaustedHandsOff,
                ExhaustedGoesOn, Return, Exhausted, AtLoopEnd, AtEnd, Wanting, AtNode
  <2>2. status = None
    BY <2>1, UnderWay
  <2> QED BY <1>2, <2>2, NodesFollow, ClosedGatesFollow, LoopsFollow, FollowsIsEnough
<1>3. CASE Cut \/ GateEnds \/ ExhaustedEnds \/ FinishUndone \/ FinishCompleted
  BY <1>3, EndsFollow, FollowsIsEnough
<1> QED BY <1>1, <1>2, <1>3 DEF Next

-----------------------------------------------------------------------------
(* The refinement. *)

LEMMA NeededIsAll ==
  ASSUME Requires[workflow] \subseteq {"build", "review"}, KnownAll(Needed(workflow))
  PROVE  Approvals = Requires[workflow]
<1> SUFFICES ASSUME NEW a \in Requires[workflow] PROVE a \in Approvals
  BY DEF Approvals
<1>1. CASE a = "build"
  <2>1. Known("built")
    BY <1>1 DEF KnownAll, Needed
  <2> QED BY <1>1, <2>1 DEF Known, Approvals
<1>2. CASE a = "review"
  <2>1. Known("cleared")
    BY <1>2 DEF KnownAll, Needed
  <2> QED BY <1>2, <2>1 DEF Known, Approvals
<1> QED BY <1>1, <1>2

(* Between two steps of an open run the answer may be drafted or judged.   *)
LEMMA OpenStep ==
  ASSUME workflow' = workflow, Outcome = "open", Outcome' = "open",
         \/ draft' = draft
         \/ draft' = draft + 1 /\ current' = {ArtifactNode}
  PROVE  [Promise!Next]_(Promise!delivery)
<1>1. CASE draft' = draft
  <2>1. Approvals' \in SUBSET Requires[workflow]
    BY DEF Approvals
  <2>2. Approvals' = Approvals => UNCHANGED Promise!delivery
    BY <1>1 DEF Promise!delivery
  <2>3. Approvals' # Approvals => Promise!Judge
    BY <1>1, <2>1 DEF Promise!Judge
  <2> QED BY <2>2, <2>3 DEF Promise!Next
<1>2. CASE draft' = draft + 1 /\ current' = {ArtifactNode}
  <2>1. Approvals' = {}
    BY <1>2 DEF Approvals, FoldNode, ArtifactNode
  <2>2. Promise!Draft
    BY <1>2, <2>1 DEF Promise!Draft
  <2> QED BY <2>2 DEF Promise!Next
<1> QED BY <1>1, <1>2

LEMMA ApprovalsStay ==
  ASSUME current \subseteq Nodes, workflow' = workflow, UNCHANGED Answered
  PROVE  Approvals' = Approvals
<1>1. current' = current /\ \A m \in Arbiters \cap Nodes : outputs'[m] = outputs[m]
  <2> DEFINE seen == [m \in Arbiters \cap Nodes |-> outputs[m]]
             seenNext == [m \in Arbiters \cap Nodes |-> outputs'[m]]
  <2>1. Nodes' = Nodes /\ current' = current
    BY DEF Nodes, Graph, Answered
  <2>2. seenNext = seen
    BY <2>1 DEF Answered
  <2>3. \A m \in Arbiters \cap Nodes : seenNext[m] = seen[m]
    BY <2>2
  <2> QED BY <2>1, <2>3
<1>2. {"review", "rework_review", FoldNode} \subseteq Arbiters
  BY DEF Arbiters
<1>3. FoldNode \in current => outputs'[FoldNode] = outputs[FoldNode]
  BY <1>1, <1>2
<1>4. \A r \in {"review", "rework_review"} \cap current : outputs'[r] = outputs[r]
  BY <1>1, <1>2
<1> QED BY <1>1, <1>3, <1>4 DEF Approvals

(* The run ends, on the answer as it was.                                  *)
LEMMA CloseStep ==
  ASSUME NEW facts, NEW gives, OutlineInv(facts, gives),
         Requires[workflow] \subseteq {"build", "review"},
         workflow' = workflow, draft' = draft, UNCHANGED Answered,
         Outcome = "open", Outcome' \in Promise!Endings,
         Outcome' = "completed" => KnownAll(Needed(workflow))
  PROVE  [Promise!Next]_(Promise!delivery)
<1>1. Approvals' = Approvals
  BY ApprovalsStay DEF OutlineInv
<1>2. CASE Outcome' = "completed"
  <2>1. Approvals = Requires[workflow]
    BY <1>2, NeededIsAll
  <2>2. Promise!Complete
    BY <1>1, <1>2, <2>1 DEF Promise!Complete
  <2> QED BY <2>2 DEF Promise!Next
<1>3. CASE Outcome' # "completed"
  <2>1. Promise!Abandon
    BY <1>1, <1>3 DEF Promise!Abandon
  <2> QED BY <2>1 DEF Promise!Next
<1> QED BY <1>2, <1>3

LEMMA NextImplements ==
  ASSUME NEW facts, NEW gives, Inv, OutlineInv(facts, gives),
         Outlined(workflow, facts[workflow], gives[workflow]), [Next]_vars
  PROVE  [Promise!Next]_(Promise!delivery)
<1>1. /\ Requires[workflow] \subseteq {"build", "review"}
      /\ WalkOK /\ current \subseteq Nodes /\ DOMAIN outputs = Nodes
  BY DEF Outlined, OutlineInv, WalkOK
<1>2. CASE UNCHANGED vars \/ Over
  <2>1. UNCHANGED <<workflow, draft, current, outputs, mode, status>>
    BY <1>2 DEF vars, record, work, Over
  <2> QED BY <2>1 DEF Promise!delivery, Approvals, Outcome
<1>3. CASE FinishEnded
  <2>1. /\ UNCHANGED <<workflow, draft, current, outputs, status>>
        /\ mode = "running" /\ mode' = "returned"
    BY <1>3 DEF record, work, FinishEnded, Finished
  <2> QED BY <2>1 DEF Promise!delivery, Approvals, Outcome
<1>4. CASE \/ Skip \/ Complete \/ AdvisoryGivesUp \/ GatePasses \/ GateStops \/ GateRoutes
           \/ EnterLoop \/ NextAttempt \/ Converge
           \/ ExhaustedHandsOff \/ ExhaustedGoesOn \/ Return
  <2>1. Running /\ UNCHANGED <<workflow, mode>> /\ UNCHANGED record
    BY <1>4 DEF Skip, Complete, AdvisoryGivesUp, GatePasses, GateStops, GateRoutes, Closed,
                AtGate, AtWork, EnterLoop, NextAttempt, Converge, ExhaustedHandsOff,
                ExhaustedGoesOn, Return, Exhausted, AtLoopEnd, AtEnd, Wanting, AtNode,
                GoOn, Unwind
  <2>2. status = None /\ status' = None /\ mode = "running" /\ mode' = "running"
    BY <2>1, UnderWay DEF record, Running
  <2>3. Outcome = "open" /\ Outcome' = "open"
    BY <2>2 DEF Outcome
  <2>4. \/ draft' = draft
        \/ draft' = draft + 1 /\ current' = {ArtifactNode}
    <3>1. CASE Complete
      BY <3>1 DEF Complete
    <3>2. CASE ~Complete
      BY <1>4, <3>2 DEF Skip, AdvisoryGivesUp, GatePasses, GateStops, GateRoutes, EnterLoop,
                        NextAttempt, Converge, ExhaustedHandsOff, ExhaustedGoesOn, Return,
                        Store, work
    <3> QED BY <3>1, <3>2
  <2> QED BY <2>1, <2>3, <2>4, OpenStep
<1>5. CASE Cut \/ GateEnds \/ ExhaustedEnds \/ FinishUndone \/ FinishCompleted
  <2>1. /\ status = None /\ mode = "running" /\ mode' \in {"running", "returned"}
    <3>1. CASE Cut \/ GateEnds \/ ExhaustedEnds
      <4>1. Running /\ mode' = mode
        BY <3>1 DEF Cut, CutRun, GateEnds, ExhaustedEnds, Unwind, Closed, AtGate, AtWork,
                    Exhausted, AtLoopEnd, AtEnd, Wanting, AtNode
      <4> QED BY <4>1, UnderWay DEF Running
    <3>2. CASE FinishUndone \/ FinishCompleted
      BY <3>2 DEF FinishUndone, FinishCompleted, Finished
    <3> QED BY <1>5, <3>1, <3>2
  <2>2. /\ UNCHANGED <<workflow, draft, current>> /\ UNCHANGED Answered
        /\ status' \in TerminalStatuses
        /\ status' = "completed" => KnownAll(Needed(workflow))
    BY <1>5, AnswerEnds
  <2>3. Outcome = "open"
    BY <2>1 DEF Outcome
  <2>4. Outcome' = status' /\ status' \in Promise!Endings
    BY <2>1, <2>2 DEF Outcome, TerminalStatuses, None, Promise!Endings
  <2> QED BY <1>1, <2>2, <2>3, <2>4, CloseStep
<1>6. CASE Raise \/ ConditionFails
  <2>1. /\ Running /\ mode' \in {"raised", "condition_error"}
        /\ UNCHANGED <<workflow, draft, current, outputs>>
    BY <1>6 DEF Raise, ConditionFails, AtWork, AtGate, AtEnd, Wanting, AtNode, work
  <2>2. Outcome = "open" /\ Outcome' = "raised"
    BY <2>1, UnderWay DEF Outcome, Running
  <2>3. UNCHANGED Answered
    BY <2>1 DEF Answered, Nodes, Graph
  <2>4. "raised" \in Promise!Endings
    BY DEF Promise!Endings
  <2> QED BY <1>1, <2>1, <2>2, <2>3, <2>4, CloseStep
<1> QED BY <1>2, <1>3, <1>4, <1>5, <1>6 DEF Next

(* A workflow whose walks have an outline delivers only an answer whose    *)
(* current draft holds every approval it requires, whatever its phases     *)
(* answer, through loops and handoffs of any depth: completed is reached   *)
(* by no gate, no exhausted loop and no end of a walk short of that.       *)
THEOREM SpecImplementsDelivery ==
  ASSUME PhasesKeepToTheirs, NEW facts, NEW gives,
         \A w \in DOMAIN Graphs : Outlined(w, facts[w], gives[w])
  PROVE  Spec => ImplementsDelivery
<1>1. Init => Promise!Init
  <2> SUFFICES ASSUME Init PROVE Promise!Init
    OBVIOUS
  <2>1. Requires[workflow] \subseteq {"build", "review"}
    BY DEF Init, Outlined
  <2>2. Approvals = {}
    BY <2>1 DEF Init, Approvals
  <2>3. Outcome = "open" /\ draft = 0
    BY DEF Init, Outcome
  <2> QED BY <2>1, <2>2, <2>3 DEF Promise!Init
<1>2. Init => Inv /\ OutlineInv(facts, gives)
  BY InitInv, InitOutline DEF Init
<1>3. Inv /\ OutlineInv(facts, gives) /\ [Next]_vars => (Inv /\ OutlineInv(facts, gives))'
  BY NextInv, NextOutline DEF OutlineInv, WalkOK
<1>4. Inv /\ OutlineInv(facts, gives) /\ [Next]_vars => [Promise!Next]_(Promise!delivery)
  BY NextImplements DEF OutlineInv, WalkOK
<1> QED
  BY <1>1, <1>2, <1>3, <1>4, PTL DEF Spec, ImplementsDelivery, Promise!Spec


-----------------------------------------------------------------------------
(***************************************************************************)
(* Why a run of any workflow is a walk of Routes.  The routes forget the   *)
(* call stack; what makes them enough is StackRouted: at every depth, the  *)
(* place where the frame below will go on is one that Routes lets a walk   *)
(* go on at after the loop, or a caller of the sub-graph, above it.        *)
(***************************************************************************)

(* A node's work leaves an output for each node, and no others.            *)
OutputsAreOfNodes ==
  \A w \in DOMAIN Graphs : \A o : DOMAIN o = Ids(Graphs[w]) =>
    \A n \in Ids(Graphs[w]) : \A p \in Outcomes(n, o) : DOMAIN p = DOMAIN o

NextPlace(frame) == [loop |-> frame.loop, nodes |-> frame.nodes, pos |-> frame.pos + 1]

ReturnsTo(w, frame) ==
  Route!After(w, IF frame.loop # None THEN {frame.loop} ELSE Route!Callers(w, frame.nodes))

StackRouted(w, stack) ==
  /\ \A i \in DOMAIN stack :
       Framed(w, stack[i]) /\ <<stack[i].loop, stack[i].nodes>> \in Route!Strands(w)
  /\ stack # <<>> => stack[1].loop = None /\ stack[1].nodes = Schedule[w]
  /\ \A i \in DOMAIN stack : i < Len(stack) => NextPlace(stack[i]) \in ReturnsTo(w, stack[i + 1])

Recorded == \E S : iterations \in Seq(S)

RouteInv ==
  /\ WalkOK /\ StackRouted(workflow, frames) /\ Recorded
  /\ draft \in Nat /\ (draft = 0 <=> current = {}) /\ heard \in BOOLEAN

LEMMA RoutedAdvance ==
  ASSUME NEW w \in DOMAIN Graphs, NEW stack, StackOK(w, stack), StackRouted(w, stack),
         stack # <<>>, AtNodeOf(stack[Len(stack)])
  PROVE  LET after == Advance(stack)
         IN /\ StackRouted(w, after) /\ after # <<>>
            /\ PlaceOf(after[Len(after)]) = NextPlace(stack[Len(stack)])
<1> DEFINE top == stack[Len(stack)]
           next == [top EXCEPT !.pos = @ + 1]
           after == Advance(stack)
<1>1. stack \in Seq(Frames(w)) /\ Len(stack) \in DOMAIN stack /\ Len(stack) \in Nat
  BY DEF StackOK
<1>2. top \in Frames(w) /\ Framed(w, top)
  <2>1. top \in Frames(w)
    BY <1>1
  <2>2. Framed(w, stack[Len(stack)])
    BY <1>1 DEF StackRouted
  <2> QED BY <2>1, <2>2
<1> HIDE DEF top
<1>3. /\ next.nodes = top.nodes /\ next.pos = top.pos + 1
      /\ next.loop = top.loop /\ next.attempt = top.attempt
  BY <1>2 DEF Frames
<1> HIDE DEF next
<1>4. after = [stack EXCEPT ![Len(stack)] = next]
  BY DEF Advance, next, top
<1> HIDE DEF after
<1>5. /\ Len(after) = Len(stack) /\ DOMAIN after = DOMAIN stack /\ after[Len(stack)] = next
      /\ \A i \in DOMAIN after : i # Len(stack) => after[i] = stack[i]
  BY <1>1, <1>4
<1>6. top.pos \in Nat /\ top.pos \in DOMAIN top.nodes /\ top.nodes \in Seq(Ids(Graphs[w]))
  BY <1>2, FoldAssumption DEF AtNodeOf, Frames, top
<1>7. top.loop # None => top.attempt # 0
  BY <1>2, <1>6 DEF Framed
<1>8. Framed(w, next)
  BY <1>2, <1>3, <1>6, <1>7 DEF Framed
<1>9. PlaceOf(next) = NextPlace(top)
  BY <1>3, <1>7 DEF PlaceOf, NextPlace
<1>10. \A i \in DOMAIN after : /\ Framed(w, after[i])
                               /\ after[i].loop = stack[i].loop /\ after[i].nodes = stack[i].nodes
  BY <1>1, <1>3, <1>5, <1>8 DEF StackRouted, top
<1>11. after # <<>> /\ 1 \in DOMAIN after
  BY <1>1, <1>5
<1>12. ASSUME NEW i \in DOMAIN after, i < Len(after)
       PROVE  NextPlace(after[i]) \in ReturnsTo(w, after[i + 1])
  <2>1. i \in DOMAIN stack /\ i + 1 \in DOMAIN after /\ after[i] = stack[i] /\ i < Len(stack)
    BY <1>1, <1>5, <1>12
  <2>2. ReturnsTo(w, after[i + 1]) = ReturnsTo(w, stack[i + 1])
    BY <1>10, <2>1 DEF ReturnsTo
  <2> QED BY <2>1, <2>2 DEF StackRouted
<1>13. StackRouted(w, after)
  BY <1>1, <1>5, <1>10, <1>11, <1>12 DEF StackRouted
<1> QED BY <1>1, <1>5, <1>9, <1>11, <1>13 DEF after, top

LEMMA RoutedFront ==
  ASSUME NEW w \in DOMAIN Graphs, NEW stack, StackOK(w, stack), StackRouted(w, stack),
         stack # <<>>
  PROVE  LET rest == Front(stack)
             top == stack[Len(stack)]
         IN /\ StackOK(w, rest) /\ StackRouted(w, rest)
            /\ rest = <<>> => top.loop = None /\ top.nodes = Schedule[w]
            /\ rest # <<>> =>
                 AtNodeOf(rest[Len(rest)]) /\ NextPlace(rest[Len(rest)]) \in ReturnsTo(w, top)
<1> DEFINE rest == Front(stack)
<1>1. stack \in Seq(Frames(w)) /\ Len(stack) \in Nat \ {0} /\ Len(stack) \in DOMAIN stack
  BY DEF StackOK
<1>2. /\ rest \in Seq(Frames(w)) /\ Len(rest) = Len(stack) - 1
      /\ \A i \in 1 .. Len(stack) - 1 : rest[i] = stack[i]
  BY <1>1, FrontIs
<1> HIDE DEF rest
<1>3. \A i \in DOMAIN rest : /\ i \in DOMAIN stack /\ i < Len(stack) /\ rest[i] = stack[i]
                             /\ i + 1 \in DOMAIN stack
  BY <1>1, <1>2
<1>4. \A i \in DOMAIN rest : AtNodeOf(rest[i]) /\ rest[i].nodes[rest[i].pos] # JudgingNode
  BY <1>3 DEF StackOK
<1>5. StackOK(w, rest)
  BY <1>2, <1>4 DEF StackOK
<1>6. \A i \in DOMAIN rest : NextPlace(rest[i]) \in ReturnsTo(w, stack[i + 1])
  BY <1>3 DEF StackRouted
<1>7. \A i \in DOMAIN rest : i < Len(rest) => rest[i + 1] = stack[i + 1]
  BY <1>2, <1>3
<1>8. rest # <<>> => 1 \in DOMAIN rest /\ rest[1] = stack[1] /\ Len(rest) \in DOMAIN rest
  BY <1>2, <1>3
<1>9. StackRouted(w, rest)
  BY <1>3, <1>6, <1>7, <1>8 DEF StackRouted
<1>10. rest = <<>> => Len(stack) = 1
  BY <1>1, <1>2
<1>11. rest # <<>> => Len(rest) + 1 = Len(stack)
  BY <1>1, <1>2
<1>12. rest = <<>> => stack[Len(stack)].loop = None /\ stack[Len(stack)].nodes = Schedule[w]
  BY <1>10 DEF StackRouted
<1>13. rest # <<>> =>
         /\ AtNodeOf(rest[Len(rest)])
         /\ NextPlace(rest[Len(rest)]) \in ReturnsTo(w, stack[Len(stack)])
  BY <1>4, <1>6, <1>8, <1>11
<1> QED BY <1>5, <1>9, <1>12, <1>13 DEF rest

(* The top frame gone: the walk goes on where it returns, or is at the end *)
(* of the schedule.                                                        *)
LEMMA RoutedPop ==
  ASSUME NEW w \in DOMAIN Graphs, NEW stack, StackOK(w, stack), StackRouted(w, stack),
         stack # <<>>
  PROVE  LET after == Advance(Front(stack))
             top == stack[Len(stack)]
         IN /\ StackRouted(w, after)
            /\ after # <<>> => PlaceOf(after[Len(after)]) \in ReturnsTo(w, top)
            /\ after = <<>> => top.loop = None /\ top.nodes = Schedule[w]
<1> DEFINE rest == Front(stack)
<1>1. CASE rest = <<>>
  <2>1. Advance(rest) = <<>>
    BY <1>1 DEF Advance
  <2>2. StackRouted(w, <<>>)
    BY DEF StackRouted
  <2> QED BY <1>1, <2>1, <2>2, RoutedFront
<1>2. CASE rest # <<>>
  <2>1. /\ StackOK(w, rest) /\ StackRouted(w, rest) /\ AtNodeOf(rest[Len(rest)])
        /\ NextPlace(rest[Len(rest)]) \in ReturnsTo(w, stack[Len(stack)])
    BY <1>2, RoutedFront
  <2> HIDE DEF rest
  <2>2. /\ StackRouted(w, Advance(rest)) /\ Advance(rest) # <<>>
        /\ PlaceOf(Advance(rest)[Len(Advance(rest))]) = NextPlace(rest[Len(rest)])
    BY <1>2, <2>1, RoutedAdvance
  <2> QED BY <1>2, <2>1, <2>2 DEF rest
<1> QED BY <1>1, <1>2

(* A frame pushed where the one below goes on after it.                    *)
LEMMA RoutedPush ==
  ASSUME NEW w \in DOMAIN Graphs, NEW stack, StackOK(w, stack), StackRouted(w, stack),
         stack # <<>>, NEW frame \in Frames(w), Framed(w, frame),
         <<frame.loop, frame.nodes>> \in Route!Strands(w),
         NextPlace(stack[Len(stack)]) \in ReturnsTo(w, frame)
  PROVE  LET after == Append(stack, frame)
         IN StackRouted(w, after) /\ after # <<>> /\ after[Len(after)] = frame
<1> DEFINE after == Append(stack, frame)
<1>1. stack \in Seq(Frames(w)) /\ Len(stack) \in Nat
  BY DEF StackOK
<1>2. /\ Len(after) = Len(stack) + 1 /\ after[Len(after)] = frame /\ after # <<>>
      /\ \A i \in DOMAIN after : i # Len(after) => i \in DOMAIN stack /\ after[i] = stack[i]
      /\ DOMAIN after = 1 .. Len(stack) + 1 /\ DOMAIN stack = 1 .. Len(stack)
  BY <1>1
<1> HIDE DEF after
<1>3. \A i \in DOMAIN after :
        Framed(w, after[i]) /\ <<after[i].loop, after[i].nodes>> \in Route!Strands(w)
  BY <1>2 DEF StackRouted
<1>4. after[1].loop = None /\ after[1].nodes = Schedule[w]
  <2>1. 1 \in DOMAIN after /\ 1 # Len(after)
    BY <1>1, <1>2
  <2> QED BY <1>2, <2>1 DEF StackRouted
<1>5. ASSUME NEW i \in DOMAIN after, i < Len(after)
      PROVE  NextPlace(after[i]) \in ReturnsTo(w, after[i + 1])
  <2>1. i \in DOMAIN stack /\ after[i] = stack[i] /\ i + 1 \in DOMAIN after
    BY <1>1, <1>2, <1>5
  <2>2. CASE i = Len(stack)
    <3>1. after[i + 1] = frame
      BY <1>1, <1>2, <2>1, <2>2
    <3> QED BY <2>1, <2>2, <3>1
  <2>3. CASE i < Len(stack)
    <3>1. after[i + 1] = stack[i + 1]
      BY <1>1, <1>2, <2>1, <2>3
    <3> QED BY <2>1, <2>3, <3>1 DEF StackRouted
  <2> QED BY <1>1, <1>2, <2>1, <2>2, <2>3
<1>6. StackRouted(w, after)
  BY <1>3, <1>4, <1>5 DEF StackRouted
<1> QED BY <1>2, <1>6 DEF after

(* A frame in place of a loop's, that returns to wherever the loop would.  *)
LEMMA RoutedReplace ==
  ASSUME NEW w \in DOMAIN Graphs, NEW stack, StackOK(w, stack), StackRouted(w, stack),
         stack # <<>>, stack[Len(stack)].loop # None,
         NEW frame \in Frames(w), Framed(w, frame),
         <<frame.loop, frame.nodes>> \in Route!Strands(w),
         ReturnsTo(w, stack[Len(stack)]) \subseteq ReturnsTo(w, frame)
  PROVE  LET after == Append(Front(stack), frame)
         IN StackRouted(w, after) /\ after # <<>> /\ after[Len(after)] = frame
<1> DEFINE rest == Front(stack)
<1>1. /\ StackOK(w, rest) /\ StackRouted(w, rest) /\ rest # <<>>
      /\ NextPlace(rest[Len(rest)]) \in ReturnsTo(w, frame)
  BY RoutedFront
<1> HIDE DEF rest
<1>2. LET after == Append(rest, frame)
      IN StackRouted(w, after) /\ after # <<>> /\ after[Len(after)] = frame
  BY <1>1, RoutedPush
<1> QED BY <1>2 DEF rest


(* Routes walks the same sequences of the same nodes.                      *)
LEMMA SameGraphs ==
  /\ Route!None = None /\ Route!NoTest = NoTest
  /\ \A g : Route!Ids(g) = Ids(g) /\ Route!Targets(g) = Targets(g)
  /\ Route!Schedule = Schedule /\ Route!Handoff = Handoff
<1>1. Route!None = None /\ Route!TerminalStatuses = TerminalStatuses
  BY DEF Route!None, None, Route!TerminalStatuses, TerminalStatuses
<1>2. Route!NoTest = NoTest
  BY <1>1 DEF Route!NoTest, NoTest, Route!Test, Test
<1>3. \A g : Route!Ids(g) = Ids(g)
  BY DEF Route!Ids, Ids
<1>4. \A g : Route!Targets(g) = Targets(g)
  BY <1>1, <1>3 DEF Route!Targets, Targets
<1>5. \A g : Route!BodyMembers(g) = BodyMembers(g)
  BY <1>3 DEF Route!BodyMembers, BodyMembers, Route!ToSet, ToSet
<1>6. \A g : Route!HandoffReachable(g) = HandoffReachable(g)
  BY <1>3, <1>4, <1>5 DEF Route!HandoffReachable, HandoffReachable
<1>7. \A g, S : Route!Levels(g, S) = Levels(g, S)
  BY DEF Route!Levels, Levels, Route!InFileOrder, InFileOrder
<1>8. \A g, n : Route!Wanted(g, n) = Wanted(g, n)
  BY DEF Route!Wanted, Wanted, Route!HandoffReachable, HandoffReachable,
         Route!BodyMembers, BodyMembers, Route!ToSet, ToSet, Route!Targets, Targets,
         Route!Ids, Ids, Route!TerminalStatuses, TerminalStatuses, Route!None, None
<1>10. \A g : Route!ExecutionOrder(g) = ExecutionOrder(g)
  BY <1>3, <1>6, <1>7 DEF Route!ExecutionOrder, ExecutionOrder, Route!TopLevel, TopLevel
<1>11. \A g, t : Route!HandoffSubgraph(g, t) = HandoffSubgraph(g, t)
  BY <1>7, <1>8 DEF Route!HandoffSubgraph, HandoffSubgraph
<1> QED BY <1>1, <1>2, <1>3, <1>4, <1>10, <1>11
         DEF Route!Schedule, Schedule, Route!Handoff, Handoff

-----------------------------------------------------------------------------
(* The run that has not ended short of its end, seen as a route. *)

LEMMA OpenMaps ==
  ASSUME status \in {None, "completed"}, heard \in BOOLEAN
  PROVE  /\ RouteOutputs = outputs /\ RouteCurrent = current /\ RouteHeard = heard
         /\ RouteAt = IF frames = <<>> THEN EndOfSchedule ELSE PlaceOf(frames[Len(frames)])
  BY DEF Abandoned, None, RouteOutputs, RouteCurrent, RouteHeard, RouteAt, Top, Last

LEMMA StillOpenMaps ==
  ASSUME status' \in {None, "completed"}, heard' \in BOOLEAN
  PROVE  /\ RouteOutputs' = outputs' /\ RouteCurrent' = current' /\ RouteHeard' = heard'
         /\ frames' = <<>> => RouteAt' = EndOfSchedule'
         /\ frames' # <<>> => RouteAt' = PlaceOf(frames'[Len(frames')])
<1>1. ~Abandoned'
  BY DEF Abandoned, None
<1>2. Top' = frames'[Len(frames')]
  BY DEF Top, Last
<1>3. frames' # <<>> => RouteAt' = PlaceOf(Top)'
  BY <1>1 DEF RouteAt
<1> QED BY <1>1, <1>2, <1>3 DEF RouteOutputs, RouteCurrent, RouteHeard, RouteAt, PlaceOf

(* The same iteration, or another.                                         *)
LEMMA SameJudged ==
  ASSUME RouteHeard' = RouteHeard, UNCHANGED <<iteration, iterations>>
  PROVE  RouteJudged' = RouteJudged
  BY DEF RouteJudged

LEMMA JudgedAnew ==
  ASSUME RouteHeard' = RouteHeard
  PROVE  Route!NewIteration
<1>1. RouteJudged' \in BOOLEAN /\ RouteHeard \in BOOLEAN
  BY DEF RouteJudged, RouteHeard
<1>2. RouteJudged' => RouteHeard'
  BY DEF RouteJudged
<1> QED BY <1>1, <1>2 DEF Route!NewIteration

(* At a node.                                                              *)
LEMMA NodeMaps ==
  ASSUME RouteInv, status = None, AtNode
  PROVE  LET top == frames[Len(frames)]
         IN /\ frames # <<>> /\ AtNodeOf(top) /\ top \in Frames(workflow)
            /\ RouteAt = [loop |-> top.loop, nodes |-> top.nodes, pos |-> top.pos]
            /\ HereId \in Nodes /\ Here = Graph.node[HereId]
            /\ Route!AtNode /\ Route!HereId = HereId /\ Route!Here = Here
            /\ \A S : HereId \in S => NextPlace(top) \in Route!After(workflow, S)
<1> DEFINE top == frames[Len(frames)]
<1>1. WalkOK /\ StackRouted(workflow, frames) /\ heard \in BOOLEAN /\ workflow \in DOMAIN Graphs
  BY DEF RouteInv, WalkOK
<1>2. /\ frames # <<>> /\ AtNodeOf(top) /\ HereId = top.nodes[top.pos] /\ HereId \in Nodes
  BY <1>1, NodeUnderWay
<1>3. Here = Graph.node[HereId]
  BY DEF Here, HereId
<1>4. Len(frames) \in DOMAIN frames /\ top \in Frames(workflow)
  BY <1>1, <1>2 DEF WalkOK, StackOK
<1>5. Framed(workflow, top) /\ <<top.loop, top.nodes>> \in Route!Strands(workflow)
  BY <1>1, <1>4 DEF StackRouted
<1>6. RouteAt = PlaceOf(top)
  BY <1>1, <1>2, OpenMaps
<1> HIDE DEF top
<1>7. top.nodes \in Seq(Nodes) /\ top.pos \in DOMAIN top.nodes /\ top.pos \in Nat
  BY <1>1, <1>2, <1>4, FoldAssumption DEF Frames, AtNodeOf, Nodes, Graph
<1>8. top.loop # None => top.attempt # 0
  BY <1>5, <1>7 DEF Framed
<1>9. RouteAt = [loop |-> top.loop, nodes |-> top.nodes, pos |-> top.pos]
  BY <1>6, <1>8 DEF PlaceOf
<1>10. Route!AtNode /\ Route!HereId = HereId
  BY <1>2, <1>7, <1>9 DEF Route!AtNode, Route!HereId
<1>11. Route!Here = Here
  BY <1>3, <1>10 DEF Route!Here, Route!Graph, Graph
<1>12. ASSUME NEW S, HereId \in S
       PROVE  NextPlace(top) \in Route!After(workflow, S)
  <2> DEFINE s == <<top.loop, top.nodes>>
  <2>1. s \in Route!Strands(workflow) /\ s[1] = top.loop /\ s[2] = top.nodes
    BY <1>5
  <2> HIDE DEF s
  <2>2. NextPlace(top) = Route!Place(s[1], s[2], top.pos + 1)
    BY <2>1 DEF NextPlace, Route!Place
  <2>3. top.pos \in {j \in DOMAIN s[2] : s[2][j] \in S}
    BY <1>2, <1>7, <1>12, <2>1
  <2> QED BY <2>1, <2>2, <2>3 DEF Route!After
<1> QED BY <1>2, <1>3, <1>4, <1>9, <1>10, <1>11, <1>12 DEF top

(* Its tests and its guards, seen as a route.                              *)
LEMMA GuardsMap ==
  ASSUME RouteInv, status = None, AtNode
  PROVE  /\ \A test : (Route!Defined(test) <=> Defined(test)) /\ (Route!Holds(test) <=> Holds(test))
         /\ Route!Wanting <=> Wanting
         /\ Route!AtGate <=> AtGate
         /\ AtWork => Route!AtWork
<1>1. Route!AtNode /\ Route!Here = Here
  BY NodeMaps
<1>2. RouteOutputs = outputs
  BY OpenMaps DEF RouteInv
<1>3. \A test : (Route!Defined(test) <=> Defined(test)) /\ (Route!Holds(test) <=> Holds(test))
  BY <1>2, SameGraphs DEF Route!Defined, Route!Holds, Defined, Holds
<1>4. Route!NoTest = NoTest
  BY SameGraphs
<1>5. Route!Wanting <=> Wanting
  BY <1>1, <1>3, <1>4 DEF Route!Wanting, Wanting
<1> QED BY <1>1, <1>3, <1>5 DEF Route!AtGate, AtGate, Route!AtWork, AtWork

(* On to the next node.                                                    *)
LEMMA OnwardMaps ==
  ASSUME RouteInv, status = None, status' = None, heard' \in BOOLEAN, AtNode,
         frames' = Advance(frames), workflow' = workflow
  PROVE  /\ StackOK(workflow, frames') /\ StackRouted(workflow, frames')
         /\ Route!GoOn
<1> DEFINE top == frames[Len(frames)]
<1>1. /\ workflow \in DOMAIN Graphs /\ StackOK(workflow, frames) /\ StackRouted(workflow, frames)
  BY DEF RouteInv, WalkOK
<1>2. /\ frames # <<>> /\ AtNodeOf(top)
      /\ RouteAt = [loop |-> top.loop, nodes |-> top.nodes, pos |-> top.pos]
  BY NodeMaps
<1> HIDE DEF top
<1>3. /\ StackRouted(workflow, frames') /\ frames' # <<>>
      /\ PlaceOf(frames'[Len(frames')]) = NextPlace(top)
  BY <1>1, <1>2, RoutedAdvance DEF top
<1>4. StackOK(workflow, frames')
  BY <1>1, <1>2, AdvanceOK DEF top
<1>5. RouteAt' = NextPlace(top)
  BY <1>3, StillOpenMaps
<1>6. RouteAt' = [RouteAt EXCEPT !.pos = @ + 1]
  BY <1>2, <1>5 DEF NextPlace
<1> QED BY <1>3, <1>4, <1>6 DEF Route!GoOn


-----------------------------------------------------------------------------
(* The steps of nodes. *)

LEMMA QuietWalks == WalkOK /\ Quiet => WalkOK'
  BY DEF WalkOK, Quiet, Nodes, Graph

LEMMA NodesRoute ==
  ASSUME RouteInv, status = None, Skip \/ AdvisoryGivesUp \/ GatePasses
  PROVE  Route!Next /\ RouteInv'
<1>1. /\ AtNode /\ GoOn /\ UNCHANGED record
      /\ UNCHANGED <<workflow, iteration, iterations, draft, heard>>
  BY DEF Skip, AdvisoryGivesUp, GatePasses, AtWork, AtGate, Wanting, GoOn, Store, work
<1>2. status' = None /\ heard \in BOOLEAN /\ heard' \in BOOLEAN /\ WalkOK
  BY <1>1 DEF record, RouteInv
<1>3. WalkOK'
  BY <1>2, NodesAreQuiet, QuietWalks
<1>4. Route!GoOn /\ StackRouted(workflow, frames')
  BY <1>1, <1>2, OnwardMaps DEF GoOn
<1>5. /\ RouteOutputs = outputs /\ RouteCurrent = current /\ RouteHeard = heard
      /\ RouteOutputs' = outputs' /\ RouteCurrent' = current' /\ RouteHeard' = heard'
  BY <1>2, OpenMaps, StillOpenMaps
<1>6. RouteHeard' = RouteHeard /\ RouteJudged' = RouteJudged
  BY <1>1, <1>5, SameJudged
<1>7. Route!AtNode /\ Route!HereId = HereId /\ Route!Here = Here
  BY <1>1, NodeMaps
<1>8. CASE Skip
  <2>1. current' = current /\ outputs' = outputs
    BY <1>8 DEF Skip, work
  <2>2. Here.when # Route!NoTest /\ Route!Defined(Here.when) /\ ~Route!Holds(Here.when)
    BY <1>1, <1>8, GuardsMap, SameGraphs DEF Skip
  <2>3. Route!Skip
    BY <1>1, <1>4, <1>5, <1>6, <1>7, <2>1, <2>2 DEF Route!Skip
  <2>4. RouteInv'
    BY <1>1, <1>2, <1>3, <1>4, <2>1 DEF RouteInv, Recorded
  <2> QED BY <2>3, <2>4 DEF Route!Next
<1>9. CASE AdvisoryGivesUp
  <2>1. /\ Here.advisory /\ outputs' = [outputs EXCEPT ![HereId] = "skipped"]
        /\ current' = IF draft = 0 THEN {} ELSE current \cup {HereId}
        /\ AtWork
    BY <1>9 DEF AdvisoryGivesUp
  <2>2. draft = 0 <=> current = {}
    BY DEF RouteInv
  <2>3. Route!AtWork
    BY <1>1, <2>1, GuardsMap
  <2>4. Route!GiveUp
    BY <1>1, <1>4, <1>5, <1>6, <1>7, <2>1, <2>2, <2>3 DEF Route!GiveUp, Route!Store
  <2>5. draft' = 0 <=> current' = {}
    BY <1>1, <2>1, <2>2
  <2>6. RouteInv'
    BY <1>1, <1>2, <1>3, <1>4, <2>5 DEF RouteInv, Recorded
  <2> QED BY <2>4, <2>6 DEF Route!Next
<1>10. CASE GatePasses
  <2>1. /\ outputs' = [outputs EXCEPT ![HereId] = "passed"] /\ current' = current
        /\ AtGate /\ Defined(Here.condition) /\ Holds(Here.condition)
    BY <1>10 DEF GatePasses, Store
  <2>2. Route!AtGate /\ Route!Defined(Here.condition) /\ Route!Holds(Here.condition)
    BY <1>1, <2>1, GuardsMap
  <2>3. Route!GateOpens
    BY <1>1, <1>4, <1>5, <1>6, <1>7, <2>1, <2>2 DEF Route!GateOpens, Route!Store
  <2>4. RouteInv'
    BY <1>1, <1>2, <1>3, <1>4, <2>1 DEF RouteInv, Recorded
  <2> QED BY <2>3, <2>4 DEF Route!Next
<1> QED BY <1>8, <1>9, <1>10

LEMMA Appends ==
  ASSUME NEW S, NEW s \in Seq(S), NEW e
  PROVE  /\ \E T : Append(s, e) \in Seq(T)
         /\ Append(s, e) # <<>> /\ Last(Append(s, e)) = e
<1>1. s \in Seq(S \cup {e}) /\ e \in S \cup {e}
  OBVIOUS
<1>2. Append(s, e) \in Seq(S \cup {e}) /\ Len(Append(s, e)) = Len(s) + 1
      /\ Append(s, e)[Len(s) + 1] = e /\ Len(s) \in Nat
  BY <1>1
<1>3. Append(s, e) # <<>>
  BY <1>2
<1> QED BY <1>2, <1>3 DEF Last

LEMMA CompleteRoutes ==
  ASSUME OutputsAreOfNodes, RouteInv, status = None, Complete
  PROVE  Route!Next /\ RouteInv'
<1>1. /\ AtNode /\ AtWork /\ frames' = Advance(frames) /\ UNCHANGED <<workflow, iteration>>
      /\ status' = None /\ outputs' \in Outcomes(HereId, outputs)
  BY DEF Complete, AtWork, Wanting, GoOn, record
<1>2. /\ draft' = IF HereId = ArtifactNode THEN draft + 1 ELSE draft
      /\ current' = IF HereId = ArtifactNode THEN {ArtifactNode}
                    ELSE IF draft = 0 THEN {} ELSE current \cup {HereId}
      /\ heard' = IF HereId = JudgingNode THEN TRUE
                  ELSE IF HereId \in {ArtifactNode, "domain_review"} THEN FALSE ELSE heard
      /\ iterations' = IF HereId = JudgingNode
                       THEN Append(iterations, Judged(iteration, draft, Agreed(outputs')))
                       ELSE iterations
  BY DEF Complete
<1>3. /\ WalkOK /\ Recorded /\ heard \in BOOLEAN /\ heard' \in BOOLEAN
      /\ draft \in Nat /\ (draft = 0 <=> current = {})
  BY <1>2 DEF RouteInv
<1>4. /\ StackOK(workflow, frames') /\ StackRouted(workflow, frames') /\ Route!GoOn
  BY <1>1, <1>3, OnwardMaps
<1>5. /\ RouteOutputs = outputs /\ RouteCurrent = current /\ RouteHeard = heard
      /\ RouteOutputs' = outputs' /\ RouteCurrent' = current' /\ RouteHeard' = heard'
  BY <1>1, <1>3, OpenMaps, StillOpenMaps
<1>6. /\ Route!AtWork /\ Route!HereId = HereId /\ HereId \in Nodes
  BY <1>1, NodeMaps, GuardsMap
<1>7. RouteInv'
  <2>1. DOMAIN outputs' = Nodes
    BY <1>1, <1>3, <1>6, OutputsAreOfNodes DEF OutputsAreOfNodes, WalkOK, Nodes, Graph
  <2>2. WalkOK'
    BY <1>1, <1>3, <1>4, <2>1 DEF WalkOK, Nodes, Graph
  <2>3. draft' \in Nat /\ (draft' = 0 <=> current' = {})
    BY <1>2, <1>3
  <2>4. Recorded'
    BY <1>2, <1>3, Appends DEF Recorded
  <2> QED BY <1>1, <1>3, <1>4, <2>2, <2>3, <2>4 DEF RouteInv
<1>8. RouteCurrent' = IF HereId = "implement" THEN {"implement"}
                      ELSE IF RouteCurrent = {} THEN {} ELSE RouteCurrent \cup {HereId}
  BY <1>2, <1>3, <1>5 DEF ArtifactNode
<1>9. IF HereId = "validate" THEN RouteHeard' = TRUE /\ RouteJudged' = TRUE
      ELSE IF HereId \in {"implement", "domain_review"}
      THEN RouteHeard' = FALSE /\ RouteJudged' = FALSE
      ELSE RouteHeard' = RouteHeard /\ RouteJudged' = RouteJudged
  <2>1. CASE HereId = "validate"
    <3>1. heard' = TRUE /\ iterations' = Append(iterations, Judged(iteration, draft, Agreed(outputs')))
      BY <1>2, <2>1 DEF JudgingNode
    <3>2. RouteHeard'
      BY <1>5, <3>1
    <3> DEFINE entry == Judged(iteration, draft, Agreed(outputs'))
    <3>3. iterations' # <<>> /\ Last(iterations') = entry
      BY <1>3, <3>1, Appends DEF Recorded
    <3>4. entry.iteration = iteration'
      BY <1>1 DEF Judged
    <3>5. RouteJudged' <=> TRUE
      BY <3>2, <3>3, <3>4 DEF RouteJudged
    <3>6. RouteJudged' \in BOOLEAN /\ RouteHeard' \in BOOLEAN
      BY DEF RouteJudged, RouteHeard
    <3> QED BY <2>1, <3>2, <3>5, <3>6
  <2>2. CASE HereId \in {"implement", "domain_review"}
    <3>1. heard' = FALSE
      BY <1>2, <2>2 DEF JudgingNode, ArtifactNode
    <3>2. RouteHeard' = FALSE
      BY <1>5, <3>1
    <3>3. RouteJudged' = FALSE
      BY <3>2 DEF RouteJudged
    <3> QED BY <2>2, <3>2, <3>3
  <2>3. CASE HereId \notin {"validate", "implement", "domain_review"}
    <3>1. heard' = heard /\ iterations' = iterations
      BY <1>2, <2>3 DEF JudgingNode, ArtifactNode
    <3>2. RouteHeard' = RouteHeard
      BY <1>5, <3>1
    <3>3. RouteJudged' = RouteJudged
      BY <1>1, <3>1, <3>2, SameJudged
    <3> QED BY <2>3, <3>2, <3>3
  <2> QED BY <2>1, <2>2, <2>3
<1>10. Route!Answer
  BY <1>1, <1>4, <1>5, <1>6, <1>8, <1>9 DEF Route!Answer
<1> QED BY <1>7, <1>10 DEF Route!Next

-----------------------------------------------------------------------------
(* The steps of gates that close. *)

LEMMA EndIsFinal == EndOfSchedule = Route!Final
  BY SameGraphs DEF EndOfSchedule, Route!Final, Route!Place

(* Only an output is stored.                                               *)
LEMMA StoreMaps ==
  ASSUME RouteInv, status = None, status' \in {None, "completed"}, NEW n, NEW value,
         Store(n, value)
  PROVE  /\ Route!Store(n, value) /\ Route!NewIteration /\ RouteCurrent' = RouteCurrent
         /\ heard' \in BOOLEAN /\ Recorded'
         /\ draft' \in Nat /\ (draft' = 0 <=> current' = {})
<1>1. /\ outputs' = [outputs EXCEPT ![n] = value]
      /\ UNCHANGED <<iterations, draft, current, heard>>
  BY DEF Store
<1>2. heard \in BOOLEAN /\ heard' \in BOOLEAN
  BY <1>1 DEF RouteInv
<1>3. /\ RouteOutputs = outputs /\ RouteCurrent = current /\ RouteHeard = heard
      /\ RouteOutputs' = outputs' /\ RouteCurrent' = current' /\ RouteHeard' = heard'
  BY <1>2, OpenMaps, StillOpenMaps
<1>4. RouteHeard' = RouteHeard
  BY <1>1, <1>3
<1>5. Route!NewIteration
  BY <1>4, JudgedAnew
<1> QED BY <1>1, <1>2, <1>3, <1>5 DEF Route!Store, RouteInv, Recorded

(* A walk that is over, at whatever depth, is at the end of the schedule.  *)
LEMMA OverMaps ==
  ASSUME WalkOK, status' \in {None, "completed"}, heard' \in BOOLEAN,
         frames' = <<>>, iteration' \in Nat, workflow' = workflow, DOMAIN outputs' = Nodes
  PROVE  RouteAt' = Route!Final /\ WalkOK' /\ StackRouted(workflow, frames')
<1>1. RouteAt' = EndOfSchedule'
  BY StillOpenMaps
<1>2. EndOfSchedule' = EndOfSchedule
  BY DEF EndOfSchedule
<1>3. StackOK(workflow, frames') /\ StackRouted(workflow, frames')
  BY DEF StackOK, StackRouted
<1>4. WalkOK'
  BY <1>3 DEF WalkOK, Nodes, Graph
<1> QED BY <1>1, <1>2, <1>3, <1>4, EndIsFinal

LEMMA ClosedGateMaps ==
  ASSUME RouteInv, status = None, Closed
  PROVE  /\ Route!AtGate /\ Route!Defined(Here.condition) /\ ~Route!Holds(Here.condition)
         /\ Route!Here = Here /\ Route!HereId = HereId /\ HereId \in Nodes /\ WalkOK /\ AtNode
<1>1. AtNode /\ AtGate /\ Defined(Here.condition) /\ ~Holds(Here.condition)
  BY DEF Closed, AtGate, Wanting
<1> QED BY <1>1, NodeMaps, GuardsMap DEF RouteInv

LEMMA GateOverRoutes ==
  ASSUME RouteInv, status = None, Closed, Here.onFail \in {None, "completed"},
         Store(HereId, "closed"), Unwind, status' \in {None, "completed"}
  PROVE  Route!Next /\ RouteInv'
<1>1. /\ Route!AtGate /\ Route!Defined(Here.condition) /\ ~Route!Holds(Here.condition)
      /\ Route!Here = Here /\ Route!HereId = HereId /\ WalkOK
  BY ClosedGateMaps
<1>2. /\ Route!Store(HereId, "closed") /\ Route!NewIteration /\ RouteCurrent' = RouteCurrent
      /\ heard' \in BOOLEAN /\ Recorded'
      /\ draft' \in Nat /\ (draft' = 0 <=> current' = {})
  BY StoreMaps
<1>3. DOMAIN outputs' = Nodes
  BY <1>1 DEF WalkOK, Store
<1>4. frames' = <<>> /\ iteration' \in Nat /\ workflow' = workflow
  BY DEF Unwind
<1>5. RouteAt' = Route!Final /\ WalkOK' /\ StackRouted(workflow, frames')
  BY <1>1, <1>2, <1>3, <1>4, OverMaps
<1>6. RouteInv'
  BY <1>2, <1>4, <1>5 DEF RouteInv
<1>7. Route!Here.onFail \notin {"blocked", "escalated"} /\ Route!Here.onFail \in {Route!None, "completed"}
  BY <1>1, SameGraphs DEF None
<1>8. Route!GateCloses
  BY <1>1, <1>2, <1>4, <1>5, <1>7 DEF Route!GateCloses
<1> QED BY <1>6, <1>8 DEF Route!Next

LEMMA GateStopsRoutes ==
  ASSUME RouteInv, status = None, GateStops
  PROVE  Route!Next /\ RouteInv'
<1>1. /\ Closed /\ Here.onFail \in {None, "completed"} /\ Store(HereId, "closed") /\ Unwind
      /\ status' \in {None, "completed"}
  BY DEF GateStops, record
<1> QED BY <1>1, GateOverRoutes

(* A sub-graph's frame, from its beginning.                                *)
LEMMA SubMaps ==
  ASSUME WalkOK, NEW t \in Targets(Graph)
  PROVE  LET frame == Walk(Handoff[workflow][t])
         IN /\ frame \in Frames(workflow) /\ Framed(workflow, frame) /\ frame.loop = None
            /\ <<frame.loop, frame.nodes>> \in Route!Strands(workflow)
            /\ PlaceOf(frame) = Route!Sub(t)
            /\ frame.nodes = Handoff[workflow][t] /\ frame.pos = 1
            /\ \A n \in Nodes : t \in {Graph.node[n].onFail, Graph.node[n].onExhausted}
                 => n \in Route!Callers(workflow, frame.nodes)
<1> DEFINE frame == Walk(Handoff[workflow][t])
<1>1. frame.loop = None /\ frame.nodes = Handoff[workflow][t] /\ frame.pos = 1
  BY DEF Walk
<1>2. frame \in Frames(workflow)
  BY WalkFrames
<1> HIDE DEF frame
<1>3. frame.nodes \in Seq(Nodes)
  BY <1>2, FoldAssumption DEF Frames, Nodes, Graph, WalkOK
<1>4. Framed(workflow, frame)
  BY <1>1, <1>3 DEF Framed
<1>5. t \in Route!Targets(Graphs[workflow]) /\ frame.nodes = Route!Handoff[workflow][t]
  BY <1>1, SameGraphs DEF Graph
<1>6. <<frame.loop, frame.nodes>> \in Route!Strands(workflow)
  BY <1>1, <1>5, SameGraphs DEF Route!Strands
<1>7. PlaceOf(frame) = Route!Sub(t)
  BY <1>1, <1>5, SameGraphs DEF PlaceOf, Route!Sub, Route!Place
<1>8. ASSUME NEW n \in Nodes, t \in {Graph.node[n].onFail, Graph.node[n].onExhausted}
      PROVE  n \in Route!Callers(workflow, frame.nodes)
  <2>1. n \in Route!Ids(Graphs[workflow])
    BY SameGraphs DEF Nodes, Graph
  <2> QED BY <1>5, <1>8, <2>1 DEF Route!Callers, Graph
<1> QED BY <1>1, <1>2, <1>4, <1>6, <1>7, <1>8 DEF frame

LEMMA GateRoutesRoutes ==
  ASSUME RouteInv, status = None, GateRoutes
  PROVE  Route!Next /\ RouteInv'
<1> DEFINE target == Here.onFail
           frame == Walk(Handoff[workflow][target])
           top == frames[Len(frames)]
<1>1. /\ Closed /\ target \notin TerminalStatuses \cup {None} /\ Store(HereId, "closed")
      /\ frames' = Append(frames, frame)
      /\ UNCHANGED <<workflow, iteration>> /\ status' \in {None, "completed"}
  BY DEF GateRoutes, record
<1>2. /\ Route!AtGate /\ Route!Defined(Here.condition) /\ ~Route!Holds(Here.condition)
      /\ Route!Here = Here /\ Route!HereId = HereId /\ HereId \in Nodes /\ WalkOK /\ AtNode
  BY <1>1, ClosedGateMaps
<1>3. /\ frames # <<>> /\ Here = Graph.node[HereId]
      /\ \A S : HereId \in S => NextPlace(top) \in Route!After(workflow, S)
  BY <1>2, NodeMaps
<1>4. target \in Targets(Graph)
  BY <1>1, <1>2, <1>3 DEF Targets, Nodes
<1>5. /\ Route!Store(HereId, "closed") /\ Route!NewIteration /\ RouteCurrent' = RouteCurrent
      /\ heard' \in BOOLEAN /\ Recorded'
      /\ draft' \in Nat /\ (draft' = 0 <=> current' = {})
  BY <1>1, StoreMaps
<1>6. WalkOK'
  BY <1>1, <1>2, NodesAreQuiet, QuietWalks
<1> HIDE DEF target
<1>7. /\ frame \in Frames(workflow) /\ Framed(workflow, frame) /\ frame.loop = None
      /\ <<frame.loop, frame.nodes>> \in Route!Strands(workflow)
      /\ PlaceOf(frame) = Route!Sub(target)
      /\ HereId \in Route!Callers(workflow, frame.nodes)
  BY <1>2, <1>3, <1>4, SubMaps DEF target
<1> HIDE DEF frame, top
<1>8. NextPlace(top) \in ReturnsTo(workflow, frame)
  BY <1>3, <1>7 DEF ReturnsTo
<1>9. /\ workflow \in DOMAIN Graphs /\ StackOK(workflow, frames) /\ StackRouted(workflow, frames)
  BY DEF RouteInv, WalkOK
<1>10. /\ StackRouted(workflow, frames') /\ frames' # <<>> /\ frames'[Len(frames')] = frame
  BY <1>1, <1>3, <1>7, <1>8, <1>9, RoutedPush DEF top
<1>11. RouteAt' = Route!Sub(target)
  BY <1>1, <1>5, <1>7, <1>10, StillOpenMaps
<1>12. RouteInv'
  BY <1>1, <1>5, <1>6, <1>10 DEF RouteInv
<1>13. /\ Route!Here.onFail = target /\ target \notin {"blocked", "escalated"}
       /\ target \notin {Route!None, "completed"}
  BY <1>1, <1>2, SameGraphs DEF target, TerminalStatuses
<1>14. Route!GateCloses
  BY <1>1, <1>2, <1>5, <1>11, <1>13 DEF Route!GateCloses
<1> QED BY <1>12, <1>14 DEF Route!Next

-----------------------------------------------------------------------------
(* The steps that end a run. *)

LEMMA StopMaps ==
  ASSUME status' \in {"blocked", "escalated"}, workflow' = workflow
  PROVE  Route!Stop
<1>1. Abandoned'
  BY DEF Abandoned
<1>2. RouteAt' = Nowhere' /\ RouteOutputs' = [n \in Nodes |-> None] /\ RouteCurrent' = {}
  BY <1>1 DEF RouteAt, RouteOutputs, RouteCurrent, Nodes, Graph
<1>3. (RouteHeard' <=> FALSE) /\ RouteHeard' \in BOOLEAN
  BY <1>1 DEF RouteHeard
<1>4. RouteHeard' = FALSE
  BY <1>3
<1>5. RouteJudged' = FALSE
  BY <1>4 DEF RouteJudged
<1>6. RouteAt' = Route!Nowhere
  BY <1>2, SameGraphs DEF Nowhere, Route!Nowhere, Route!Place
<1>7. RouteOutputs' = Route!Blank
  BY <1>2, SameGraphs DEF Route!Blank, Route!Nodes, Route!Graph, Nodes, Graph
<1> QED BY <1>2, <1>4, <1>5, <1>6, <1>7 DEF Route!Stop

LEMMA StoppedInv ==
  ASSUME RouteInv, frames' = <<>>, iteration' \in Nat, DOMAIN outputs' = Nodes, Recorded',
         UNCHANGED <<workflow, draft, current, heard>>
  PROVE  RouteInv'
<1>1. StackOK(workflow, frames') /\ StackRouted(workflow, frames')
  BY DEF StackOK, StackRouted
<1>2. WalkOK'
  BY <1>1 DEF RouteInv, WalkOK, Nodes, Graph
<1> QED BY <1>1, <1>2 DEF RouteInv

LEMMA GateEndsRoutes ==
  ASSUME RouteInv, status = None, GateEnds
  PROVE  Route!Next /\ RouteInv'
<1>1. /\ Closed /\ Here.onFail \in TerminalStatuses /\ Store(HereId, "closed") /\ Unwind
      /\ status' = Here.onFail
  BY DEF GateEnds, End
<1>2. CASE Here.onFail = "completed"
  BY <1>1, <1>2, GateOverRoutes
<1>3. CASE Here.onFail # "completed"
  <2>1. status' \in {"blocked", "escalated"} /\ workflow' = workflow
    BY <1>1, <1>3 DEF TerminalStatuses, Unwind
  <2>2. /\ frames' = <<>> /\ iteration' \in Nat /\ DOMAIN outputs' = Nodes /\ Recorded'
        /\ UNCHANGED <<workflow, draft, current, heard>>
    BY <1>1 DEF Unwind, Store, RouteInv, WalkOK, Recorded
  <2> QED BY <2>1, <2>2, StopMaps, StoppedInv DEF Route!Next
<1> QED BY <1>2, <1>3

LEMMA CutRoutes ==
  ASSUME RouteInv, status = None, Cut
  PROVE  Route!Next /\ RouteInv'
<1>1. /\ status' = "blocked" /\ iterations' = WithPartial(iterations, iteration, draft) /\ Unwind
      /\ UNCHANGED <<outputs, draft, current, heard>>
  BY DEF Cut, CutRun
<1>2. Recorded'
  BY <1>1, Appends DEF WithPartial, RouteInv, Recorded
<1>3. /\ frames' = <<>> /\ iteration' \in Nat /\ DOMAIN outputs' = Nodes
      /\ UNCHANGED <<workflow, draft, current, heard>>
  BY <1>1 DEF Unwind, RouteInv, WalkOK
<1> QED BY <1>1, <1>2, <1>3, StopMaps, StoppedInv DEF Route!Next

LEMMA FinishRoutes ==
  ASSUME RouteInv, status = None, FinishUndone \/ FinishCompleted
  PROVE  [Route!Next]_Route!vars /\ RouteInv'
<1>1. /\ frames = <<>> /\ UNCHANGED <<workflow, frames, iteration, work>>
  BY DEF FinishUndone, FinishCompleted, Finished
<1>2. RouteInv'
  BY <1>1 DEF RouteInv, WalkOK, Recorded, Nodes, Graph, work
<1>3. CASE FinishUndone
  BY <1>1, <1>2, <1>3, StopMaps DEF FinishUndone, End, Route!Next
<1>4. CASE FinishCompleted
  <2>1. status' \in {None, "completed"} /\ heard \in BOOLEAN /\ heard' \in BOOLEAN
    BY <1>1, <1>4 DEF FinishCompleted, RouteInv, work
  <2>2. /\ RouteOutputs' = RouteOutputs /\ RouteCurrent' = RouteCurrent /\ RouteHeard' = RouteHeard
        /\ RouteAt' = RouteAt
    BY <1>1, <2>1, OpenMaps, StillOpenMaps DEF work, EndOfSchedule
  <2>3. RouteJudged' = RouteJudged
    BY <1>1, <2>2, SameJudged DEF work
  <2> QED BY <1>1, <1>2, <2>2, <2>3 DEF Route!vars
<1> QED BY <1>3, <1>4

(* What changes nothing but the mode changes no route.                     *)
LEMMA StandsStill ==
  ASSUME UNCHANGED <<workflow, frames, iteration, record, work>>
  PROVE  UNCHANGED Route!vars /\ (RouteInv => RouteInv')
<1>1. UNCHANGED <<RouteAt, RouteOutputs, RouteCurrent, RouteHeard>>
  BY DEF RouteAt, RouteOutputs, RouteCurrent, RouteHeard, Abandoned, Nowhere, EndOfSchedule,
         PlaceOf, Top, Nodes, Graph, record, work
<1>2. UNCHANGED RouteJudged
  BY <1>1, SameJudged DEF work
<1>3. RouteInv => RouteInv'
  BY DEF RouteInv, WalkOK, Recorded, Nodes, Graph, work
<1> QED BY <1>1, <1>2, <1>3 DEF Route!vars

-----------------------------------------------------------------------------
(* The steps of loops and of sub-graphs. *)

(* At the end of a sequence.                                               *)
LEMMA EndMaps ==
  ASSUME RouteInv, status = None, AtEnd
  PROVE  /\ frames # <<>> /\ Top = frames[Len(frames)] /\ Top \in Frames(workflow)
         /\ Framed(workflow, Top) /\ <<Top.loop, Top.nodes>> \in Route!Strands(workflow)
         /\ Top.nodes \in Seq(Nodes) /\ Top.pos = Len(Top.nodes) + 1 /\ Top.attempt \in Nat
         /\ RouteAt = PlaceOf(Top) /\ WalkOK
         /\ \A test : (Route!Defined(test) <=> Defined(test)) /\ (Route!Holds(test) <=> Holds(test))
<1>1. WalkOK /\ StackRouted(workflow, frames) /\ heard \in BOOLEAN /\ workflow \in DOMAIN Graphs
  BY DEF RouteInv, WalkOK
<1>2. frames # <<>> /\ Top \in Frames(workflow) /\ Top = frames[Len(frames)]
  BY <1>1, EndUnderWay DEF Top, Last
<1>3. Len(frames) \in DOMAIN frames
  BY <1>1, <1>2 DEF WalkOK, StackOK
<1>4. Framed(workflow, Top) /\ <<Top.loop, Top.nodes>> \in Route!Strands(workflow)
  BY <1>1, <1>2, <1>3 DEF StackRouted
<1>5. Top.nodes \in Seq(Nodes) /\ Top.pos \in Nat /\ Top.attempt \in Nat
  BY <1>1, <1>2, FoldAssumption DEF Frames, Nodes, Graph
<1>6. ~(Top.pos <= Len(Top.nodes))
  BY DEF AtEnd, AtNode
<1>7. Top.pos = Len(Top.nodes) + 1
  BY <1>4, <1>5, <1>6 DEF Framed
<1>8. RouteAt = PlaceOf(Top) /\ RouteOutputs = outputs
  BY <1>1, <1>2, OpenMaps
<1>9. \A test : (Route!Defined(test) <=> Defined(test)) /\ (Route!Holds(test) <=> Holds(test))
  BY <1>8, SameGraphs DEF Route!Defined, Route!Holds, Defined, Holds
<1> QED BY <1>1, <1>2, <1>4, <1>5, <1>7, <1>8, <1>9

LEMMA LoopMaps ==
  ASSUME RouteInv, status = None, AtLoopEnd
  PROVE  /\ Top.loop \in Nodes /\ Loop = Graph.node[Top.loop] /\ Loop.budget \in Nat
         /\ Loop.body = Top.nodes /\ Loop.body # <<>> /\ Loop.body \in Seq(Nodes)
         /\ RouteAt.loop = Top.loop /\ RouteAt.loop # Route!None /\ RouteAt.nodes = Loop.body
         /\ Route!Loop = Loop
         /\ RouteAt.pos = 0 <=> Top.attempt = 0
         /\ RouteAt = [loop |-> Top.loop, nodes |-> Loop.body, pos |-> RouteAt.pos]
         /\ Top.attempt # 0 => Route!AtBodyEnd
         /\ Route!Again <=> Again
         /\ ReturnsTo(workflow, Top) = Route!After(workflow, {Top.loop})
<1>1. /\ AtEnd /\ Top.loop # None
  BY DEF AtLoopEnd
<1>2. /\ Top \in Frames(workflow) /\ Framed(workflow, Top) /\ RouteAt = PlaceOf(Top)
      /\ Top.nodes \in Seq(Nodes) /\ Top.pos = Len(Top.nodes) + 1 /\ Top.attempt \in Nat
      /\ workflow \in DOMAIN Graphs
      /\ \A test : (Route!Defined(test) <=> Defined(test)) /\ (Route!Holds(test) <=> Holds(test))
  BY <1>1, EndMaps DEF WalkOK
<1>3. Top.loop \in Nodes /\ Loop = Graph.node[Top.loop]
  BY <1>1, <1>2 DEF Frames, Nodes, Graph, Loop
<1>4. Loop.body = Top.nodes /\ Loop.body # <<>> /\ Loop.body \in Seq(Nodes)
  BY <1>1, <1>2, <1>3 DEF Framed, Graph
<1>5. Loop.budget \in Nat
  BY <1>2, <1>3, FoldAssumption DEF Nodes, Graph
<1>6. /\ RouteAt = [loop |-> Top.loop, nodes |-> Loop.body,
                    pos |-> IF Top.attempt = 0 THEN 0 ELSE Top.pos]
  BY <1>1, <1>2, <1>4 DEF PlaceOf
<1>7. /\ RouteAt.loop = Top.loop /\ RouteAt.nodes = Loop.body
      /\ RouteAt.pos = IF Top.attempt = 0 THEN 0 ELSE Len(Loop.body) + 1
  BY <1>2, <1>4, <1>6
<1>8. Len(Loop.body) \in Nat
  BY <1>4
<1>9. Route!Loop = Loop
  BY <1>3, <1>7 DEF Route!Loop, Route!Graph, Graph
<1>10. RouteAt.loop # Route!None
  BY <1>1, <1>7, SameGraphs
<1>11. Route!AtBodyEnd <=> Top.attempt # 0
  BY <1>7, <1>8, <1>10 DEF Route!AtBodyEnd
<1>12. RouteAt.pos = 0 <=> Top.attempt = 0
  BY <1>7, <1>8
<1>13. Route!Again <=> Again
  BY <1>2, <1>9, <1>10, <1>11, <1>12 DEF Route!Again, Again
<1>14. ReturnsTo(workflow, Top) = Route!After(workflow, {Top.loop})
  BY <1>1 DEF ReturnsTo
<1> QED BY <1>3, <1>4, <1>5, <1>6, <1>7, <1>9, <1>10, <1>11, <1>12, <1>13, <1>14

(* A sequence is left.                                                     *)
LEMMA PopMaps ==
  ASSUME RouteInv, status = None, AtEnd, frames' = Advance(Front(frames)), workflow' = workflow,
         status' \in {None, "completed"}, heard' \in BOOLEAN
  PROVE  /\ StackRouted(workflow, frames')
         /\ frames' # <<>> => RouteAt' \in ReturnsTo(workflow, Top)
         /\ frames' = <<>> => RouteAt' = Route!Final /\ Top.loop = None /\ Top.nodes = Schedule[workflow]
<1>1. frames # <<>> /\ Top = frames[Len(frames)]
  BY EndMaps
<1>2. /\ workflow \in DOMAIN Graphs /\ StackOK(workflow, frames) /\ StackRouted(workflow, frames)
  BY DEF RouteInv, WalkOK
<1>3. /\ StackRouted(workflow, frames')
      /\ frames' # <<>> => PlaceOf(frames'[Len(frames')]) \in ReturnsTo(workflow, Top)
      /\ frames' = <<>> => Top.loop = None /\ Top.nodes = Schedule[workflow]
  BY <1>1, <1>2, RoutedPop
<1>4. EndOfSchedule' = Route!Final
  BY EndIsFinal DEF EndOfSchedule
<1> QED BY <1>3, <1>4, StillOpenMaps

(* A loop's frame: as it is pushed, and at an attempt.                     *)
LEMMA BodyMaps ==
  ASSUME WalkOK, NEW n \in Nodes, Graph.node[n].body # <<>>, NEW attempt \in Nat
  PROVE  LET due == [BodyOf(n, 0) EXCEPT !.pos = Len(Graph.node[n].body) + 1]
             tried == BodyOf(n, attempt)
         IN /\ due \in Frames(workflow) /\ Framed(workflow, due)
            /\ due.loop = n /\ due.nodes = Graph.node[n].body
            /\ PlaceOf(due) = Route!Place(n, Graph.node[n].body, 0)
            /\ tried \in Frames(workflow) /\ tried.loop = n /\ tried.nodes = Graph.node[n].body
            /\ attempt # 0 => Framed(workflow, tried)
                              /\ PlaceOf(tried) = Route!Place(n, Graph.node[n].body, 1)
            /\ n # None /\ <<n, Graph.node[n].body>> \in Route!Strands(workflow)
<1> DEFINE body == Graph.node[n].body
           due == [BodyOf(n, 0) EXCEPT !.pos = Len(body) + 1]
           tried == BodyOf(n, attempt)
<1>1. due \in Frames(workflow) /\ tried \in Frames(workflow)
  BY WalkFrames
<1>2. due = [loop |-> n, nodes |-> body, pos |-> Len(body) + 1, attempt |-> 0]
  BY DEF BodyOf
<1>3. tried = [loop |-> n, nodes |-> body, pos |-> 1, attempt |-> attempt]
  BY DEF BodyOf
<1>4. n # None
  BY FoldAssumption DEF Nodes, Graph, WalkOK
<1>5. body \in Seq(Nodes)
  BY FoldAssumption DEF WalkOK, Walks, Nodes, Graph
<1> HIDE DEF due, tried
<1>6. Framed(workflow, due) /\ PlaceOf(due) = Route!Place(n, body, 0)
  BY <1>2, <1>4, <1>5 DEF Framed, PlaceOf, Route!Place, Graph
<1>7. ASSUME attempt # 0
      PROVE  Framed(workflow, tried) /\ PlaceOf(tried) = Route!Place(n, body, 1)
  <2>1. /\ tried.loop = n /\ tried.nodes = body /\ tried.pos = 1 /\ tried.attempt # 0
    BY <1>3, <1>7
  <2>2. Framed(workflow, tried)
    BY <1>5, <2>1 DEF Framed, Graph
  <2>3. PlaceOf(tried) = Route!Place(n, body, 1)
    BY <2>1 DEF PlaceOf, Route!Place
  <2> QED BY <2>2, <2>3
<1>8. <<n, body>> \in Route!Strands(workflow)
  <2>1. n \in Route!Ids(Graphs[workflow])
    BY SameGraphs DEF Nodes, Graph
  <2> QED BY <2>1 DEF Route!Strands, Graph
<1> QED BY <1>1, <1>2, <1>3, <1>4, <1>6, <1>7, <1>8 DEF due, tried

LEMMA EnterLoopRoutes ==
  ASSUME RouteInv, status = None, EnterLoop
  PROVE  Route!Next /\ RouteInv'
<1> DEFINE frame == [BodyOf(HereId, 0) EXCEPT !.pos = Len(Graph.node[HereId].body) + 1]
           top == frames[Len(frames)]
<1>1. /\ AtNode /\ Wanting /\ Here.body # <<>> /\ Here = Graph.node[HereId]
      /\ frames' = Append(frames, frame)
      /\ UNCHANGED <<workflow, iteration, record, work>>
  BY NodeMaps DEF EnterLoop, Wanting
<1>2. /\ HereId \in Nodes /\ frames # <<>> /\ WalkOK /\ Route!Here = Here /\ Route!HereId = HereId
      /\ \A S : HereId \in S => NextPlace(top) \in Route!After(workflow, S)
  BY <1>1, NodeMaps DEF RouteInv
<1>3. Route!Wanting
  BY <1>1, GuardsMap
<1>4. /\ frame \in Frames(workflow) /\ Framed(workflow, frame) /\ frame.loop = HereId
      /\ <<frame.loop, frame.nodes>> \in Route!Strands(workflow)
      /\ PlaceOf(frame) = Route!Place(HereId, Here.body, 0) /\ HereId # None
  BY <1>1, <1>2, BodyMaps
<1> HIDE DEF frame, top
<1>5. NextPlace(top) \in ReturnsTo(workflow, frame)
  BY <1>2, <1>4 DEF ReturnsTo
<1>6. /\ workflow \in DOMAIN Graphs /\ StackOK(workflow, frames) /\ StackRouted(workflow, frames)
      /\ heard \in BOOLEAN
  BY DEF RouteInv, WalkOK
<1>7. /\ StackRouted(workflow, frames') /\ frames' # <<>> /\ frames'[Len(frames')] = frame
  BY <1>1, <1>2, <1>4, <1>5, <1>6, RoutedPush DEF top
<1>8. status' \in {None, "completed"} /\ heard' \in BOOLEAN
  BY <1>1, <1>6 DEF record, work
<1>9. /\ RouteAt' = Route!Place(HereId, Here.body, 0)
      /\ RouteOutputs' = RouteOutputs /\ RouteCurrent' = RouteCurrent /\ RouteHeard' = RouteHeard
  BY <1>1, <1>4, <1>6, <1>7, <1>8, OpenMaps, StillOpenMaps DEF work
<1>10. RouteJudged' = RouteJudged
  BY <1>1, <1>9, SameJudged DEF work
<1>11. Route!EnterLoop
  BY <1>1, <1>2, <1>3, <1>9, <1>10 DEF Route!EnterLoop
<1>12. WalkOK'
  BY <1>2, LoopsAreQuiet, QuietWalks
<1>13. RouteInv'
  BY <1>1, <1>7, <1>12 DEF RouteInv, Recorded, work
<1> QED BY <1>11, <1>13 DEF Route!Next

LEMMA NextAttemptRoutes ==
  ASSUME RouteInv, status = None, NextAttempt
  PROVE  Route!Next /\ RouteInv'
<1> DEFINE frame == BodyOf(Top.loop, Top.attempt + 1)
<1>1. /\ AtLoopEnd /\ AtEnd /\ Again /\ Top.attempt < Loop.budget /\ Top.loop # None
      /\ frames' = Append(Front(frames), frame)
      /\ UNCHANGED <<workflow, record, work>>
  BY DEF NextAttempt, AtLoopEnd
<1>2. /\ frames # <<>> /\ Top = frames[Len(frames)] /\ Top.attempt \in Nat /\ WalkOK
  BY <1>1, EndMaps
<1>3. /\ Top.loop \in Nodes /\ Loop = Graph.node[Top.loop] /\ Loop.budget \in Nat
      /\ Loop.body # <<>> /\ Route!Loop = Loop /\ Route!Again
      /\ RouteAt = [loop |-> Top.loop, nodes |-> Loop.body, pos |-> RouteAt.pos]
      /\ ReturnsTo(workflow, Top) = Route!After(workflow, {Top.loop})
  BY <1>1, LoopMaps
<1>4. /\ frame \in Frames(workflow) /\ Framed(workflow, frame) /\ frame.loop = Top.loop
      /\ <<frame.loop, frame.nodes>> \in Route!Strands(workflow)
      /\ PlaceOf(frame) = Route!Place(Top.loop, Loop.body, 1)
  <2>1. Top.attempt + 1 \in Nat /\ Top.attempt + 1 # 0
    BY <1>2
  <2> QED BY <1>2, <1>3, <2>1, BodyMaps
<1> HIDE DEF frame
<1>5. ReturnsTo(workflow, Top) \subseteq ReturnsTo(workflow, frame)
  BY <1>1, <1>4 DEF ReturnsTo
<1>6. /\ workflow \in DOMAIN Graphs /\ StackOK(workflow, frames) /\ StackRouted(workflow, frames)
      /\ heard \in BOOLEAN
  BY DEF RouteInv, WalkOK
<1>7. /\ StackRouted(workflow, frames') /\ frames' # <<>> /\ frames'[Len(frames')] = frame
  BY <1>1, <1>2, <1>4, <1>5, <1>6, RoutedReplace
<1>8. status' \in {None, "completed"} /\ heard' \in BOOLEAN
  BY <1>1, <1>6 DEF record, work
<1>9. /\ RouteAt' = Route!Place(Top.loop, Loop.body, 1)
      /\ RouteOutputs' = RouteOutputs /\ RouteCurrent' = RouteCurrent /\ RouteHeard' = RouteHeard
  BY <1>1, <1>4, <1>6, <1>7, <1>8, OpenMaps, StillOpenMaps DEF work
<1>10. Route!NewIteration
  BY <1>9, JudgedAnew
<1>11. RouteAt' = [RouteAt EXCEPT !.pos = 1]
  BY <1>3, <1>9 DEF Route!Place
<1>12. Loop.budget > 0
  BY <1>1, <1>2, <1>3
<1>13. Route!Attempt
  BY <1>1, <1>3, <1>9, <1>10, <1>11, <1>12 DEF Route!Attempt
<1>14. WalkOK'
  BY <1>2, LoopsAreQuiet, QuietWalks
<1>15. RouteInv'
  BY <1>1, <1>7, <1>14 DEF RouteInv, Recorded, work
<1> QED BY <1>13, <1>15 DEF Route!Next

LEMMA ConvergeRoutes ==
  ASSUME RouteInv, status = None, Converge \/ ExhaustedGoesOn
  PROVE  Route!Next /\ RouteInv'
<1>1. /\ AtLoopEnd /\ AtEnd /\ Top.loop # None
      /\ frames' = Advance(Front(frames)) /\ UNCHANGED <<workflow, record>>
      /\ \E value : Store(Top.loop, value)
  BY DEF Converge, ExhaustedGoesOn, Exhausted, AtLoopEnd
<1>2. WalkOK /\ status' \in {None, "completed"}
  BY <1>1 DEF record, RouteInv
<1>3. /\ Route!NewIteration /\ RouteCurrent' = RouteCurrent
      /\ heard' \in BOOLEAN /\ Recorded'
      /\ draft' \in Nat /\ (draft' = 0 <=> current' = {})
      /\ \A value : Store(Top.loop, value) => Route!Store(Top.loop, value)
  BY <1>1, <1>2, StoreMaps
<1>4. /\ Top.attempt \in Nat
      /\ \A test : (Route!Defined(test) <=> Defined(test)) /\ (Route!Holds(test) <=> Holds(test))
  BY <1>1, EndMaps
<1>5. /\ Loop.budget \in Nat /\ Route!Loop = Loop /\ RouteAt.loop = Top.loop
      /\ RouteAt.pos = 0 <=> Top.attempt = 0
      /\ Top.attempt # 0 => Route!AtBodyEnd
      /\ Route!Again <=> Again
      /\ ReturnsTo(workflow, Top) = Route!After(workflow, {Top.loop})
  BY <1>1, LoopMaps
<1>6. /\ StackRouted(workflow, frames') /\ RouteAt' \in Route!After(workflow, {RouteAt.loop})
  BY <1>1, <1>2, <1>3, <1>5, PopMaps
<1>7. WalkOK'
  BY <1>2, LoopsAreQuiet, QuietWalks
<1>8. RouteInv'
  BY <1>1, <1>3, <1>6, <1>7 DEF RouteInv
<1>9. CASE Converge
  <2>1. /\ Store(Top.loop, "converged") /\ Top.attempt # 0
        /\ Defined(Loop.until) /\ Holds(Loop.until)
    BY <1>4, <1>9 DEF Converge
  <2>2. Route!Converge
    BY <1>1, <1>3, <1>4, <1>5, <1>6, <2>1 DEF Route!Converge
  <2> QED BY <1>8, <2>2 DEF Route!Next
<1>10. CASE ExhaustedGoesOn
  <2>1. /\ Store(Top.loop, "exhausted") /\ Again /\ Top.attempt >= Loop.budget
        /\ Loop.exhaustedStatus = None /\ Loop.onExhausted = None
    BY <1>10 DEF ExhaustedGoesOn, Exhausted
  <2>2. RouteAt.pos = 0 => Loop.budget = 0
    BY <1>4, <1>5, <2>1
  <2>3. Route!Loop.exhaustedStatus = Route!None /\ Route!Loop.onExhausted = Route!None
        /\ Route!Loop.exhaustedStatus # "completed"
    BY <1>5, <2>1, SameGraphs DEF None
  <2>4. Route!Exhaust
    BY <1>1, <1>3, <1>5, <1>6, <2>1, <2>2, <2>3 DEF Route!Exhaust
  <2> QED BY <1>8, <2>4 DEF Route!Next
<1> QED BY <1>9, <1>10

LEMMA ExhaustedHandsOffRoutes ==
  ASSUME RouteInv, status = None, ExhaustedHandsOff
  PROVE  Route!Next /\ RouteInv'
<1> DEFINE target == Loop.onExhausted
           frame == Walk(Handoff[workflow][target])
<1>1. /\ AtLoopEnd /\ AtEnd /\ Again /\ Top.attempt >= Loop.budget /\ Top.loop # None
      /\ Loop.exhaustedStatus = None /\ target # None
      /\ Store(Top.loop, "exhausted")
      /\ frames' = Append(Front(frames), frame)
      /\ UNCHANGED <<workflow, record>>
  BY DEF ExhaustedHandsOff, Exhausted, AtLoopEnd
<1>2. /\ frames # <<>> /\ Top = frames[Len(frames)] /\ Top.attempt \in Nat /\ WalkOK
      /\ status' \in {None, "completed"}
  BY <1>1, EndMaps DEF record
<1>3. /\ Top.loop \in Nodes /\ Loop = Graph.node[Top.loop] /\ Loop.budget \in Nat
      /\ Route!Loop = Loop /\ Route!Again /\ RouteAt.loop = Top.loop
      /\ RouteAt.pos = 0 <=> Top.attempt = 0
      /\ ReturnsTo(workflow, Top) = Route!After(workflow, {Top.loop})
  BY <1>1, LoopMaps
<1>4. target \in Targets(Graph)
  <2>1. target \notin TerminalStatuses
    BY <1>2, <1>3, FoldAssumption DEF WalkOK, Nodes, Graph
  <2> QED BY <1>1, <1>3, <2>1 DEF Targets, Nodes
<1>5. /\ Route!Store(Top.loop, "exhausted") /\ Route!NewIteration /\ RouteCurrent' = RouteCurrent
      /\ heard' \in BOOLEAN /\ Recorded'
      /\ draft' \in Nat /\ (draft' = 0 <=> current' = {})
  BY <1>1, <1>2, StoreMaps
<1> HIDE DEF target
<1>6. /\ frame \in Frames(workflow) /\ Framed(workflow, frame) /\ frame.loop = None
      /\ <<frame.loop, frame.nodes>> \in Route!Strands(workflow)
      /\ PlaceOf(frame) = Route!Sub(target)
      /\ Top.loop \in Route!Callers(workflow, frame.nodes)
  BY <1>2, <1>3, <1>4, SubMaps DEF target
<1> HIDE DEF frame
<1>7. ReturnsTo(workflow, Top) \subseteq ReturnsTo(workflow, frame)
  BY <1>3, <1>6 DEF ReturnsTo, Route!After
<1>8. /\ workflow \in DOMAIN Graphs /\ StackOK(workflow, frames) /\ StackRouted(workflow, frames)
  BY DEF RouteInv, WalkOK
<1>9. /\ StackRouted(workflow, frames') /\ frames' # <<>> /\ frames'[Len(frames')] = frame
  BY <1>1, <1>2, <1>6, <1>7, <1>8, RoutedReplace
<1>10. RouteAt' = Route!Sub(target)
  BY <1>2, <1>5, <1>6, <1>9, StillOpenMaps
<1>11. RouteAt.pos = 0 => Loop.budget = 0
  BY <1>1, <1>2, <1>3
<1>12. /\ Route!Loop.exhaustedStatus = Route!None /\ Route!Loop.exhaustedStatus # "completed"
       /\ Route!Loop.onExhausted = target /\ target # Route!None
  BY <1>1, <1>3, SameGraphs DEF None, target
<1>13. Route!Exhaust
  BY <1>1, <1>3, <1>5, <1>10, <1>11, <1>12 DEF Route!Exhaust
<1>14. WalkOK'
  BY <1>2, LoopsAreQuiet, QuietWalks
<1>15. RouteInv'
  BY <1>1, <1>5, <1>9, <1>14 DEF RouteInv
<1> QED BY <1>13, <1>15 DEF Route!Next

LEMMA ExhaustedEndsRoutes ==
  ASSUME RouteInv, status = None, ExhaustedEnds
  PROVE  Route!Next /\ RouteInv'
<1>1. /\ AtLoopEnd /\ AtEnd /\ Again /\ Top.attempt >= Loop.budget
      /\ Loop.exhaustedStatus # None /\ status' = Loop.exhaustedStatus
      /\ Store(Top.loop, "exhausted") /\ Unwind
  BY DEF ExhaustedEnds, Exhausted, AtLoopEnd, End
<1>2. Top.attempt \in Nat /\ WalkOK
  BY <1>1, EndMaps
<1>3. /\ Top.loop \in Nodes /\ Loop = Graph.node[Top.loop] /\ Loop.budget \in Nat
      /\ Route!Loop = Loop /\ Route!Again /\ RouteAt.loop = Top.loop
      /\ RouteAt.pos = 0 <=> Top.attempt = 0
  BY <1>1, LoopMaps
<1>4. /\ frames' = <<>> /\ iteration' \in Nat /\ DOMAIN outputs' = Nodes /\ Recorded'
      /\ UNCHANGED <<workflow, draft, current, heard>>
  BY <1>1 DEF Unwind, Store, RouteInv, WalkOK, Recorded
<1>5. CASE Loop.exhaustedStatus = "completed"
  <2>1. /\ Route!Store(Top.loop, "exhausted") /\ Route!NewIteration /\ RouteCurrent' = RouteCurrent
        /\ heard' \in BOOLEAN
    BY <1>1, <1>5, StoreMaps
  <2>2. RouteAt' = Route!Final
    BY <1>1, <1>2, <1>4, <1>5, <2>1, OverMaps
  <2>3. RouteAt.pos = 0 => Loop.budget = 0
    BY <1>1, <1>2, <1>3
  <2>4. Route!Exhaust
    BY <1>3, <1>4, <1>5, <2>1, <2>2, <2>3 DEF Route!Exhaust
  <2> QED BY <1>4, <2>4, StoppedInv DEF Route!Next
<1>6. CASE Loop.exhaustedStatus # "completed"
  <2>1. Loop.exhaustedStatus \in TerminalStatuses
    BY <1>1, <1>2, <1>3, FoldAssumption DEF WalkOK, Nodes, Graph
  <2>2. status' \in {"blocked", "escalated"}
    BY <1>1, <1>6, <2>1 DEF TerminalStatuses
  <2> QED BY <1>4, <2>2, StopMaps, StoppedInv DEF Route!Next
<1> QED BY <1>5, <1>6

LEMMA ReturnRoutes ==
  ASSUME RouteInv, status = None, Return
  PROVE  [Route!Next]_Route!vars /\ RouteInv'
<1>1. /\ AtEnd /\ Top.loop = None /\ frames' = Advance(Front(frames))
      /\ UNCHANGED <<workflow, iteration, record, work>>
  BY DEF Return
<1>2. /\ Top.nodes \in Seq(Nodes) /\ Top.pos = Len(Top.nodes) + 1 /\ WalkOK
      /\ RouteAt = PlaceOf(Top)
  BY <1>1, EndMaps
<1>3. /\ status' \in {None, "completed"} /\ heard \in BOOLEAN /\ heard' \in BOOLEAN
  BY <1>1 DEF record, work, RouteInv
<1>4. /\ StackRouted(workflow, frames')
      /\ frames' # <<>> => RouteAt' \in ReturnsTo(workflow, Top)
      /\ frames' = <<>> => RouteAt' = Route!Final /\ Top.nodes = Schedule[workflow]
  BY <1>1, <1>3, PopMaps
<1>5. WalkOK'
  BY <1>2, LoopsAreQuiet, QuietWalks
<1>6. RouteInv'
  BY <1>1, <1>4, <1>5 DEF RouteInv, Recorded, work
<1>7. RouteAt = [loop |-> None, nodes |-> Top.nodes, pos |-> Len(Top.nodes) + 1]
  BY <1>1, <1>2 DEF PlaceOf
<1>8. RouteOutputs' = RouteOutputs /\ RouteCurrent' = RouteCurrent /\ RouteHeard' = RouteHeard
  BY <1>1, <1>3, OpenMaps, StillOpenMaps DEF work
<1>9. RouteJudged' = RouteJudged
  BY <1>1, <1>8, SameJudged DEF work
<1>10. CASE frames' = <<>>
  <2>1. RouteAt' = RouteAt
    BY <1>4, <1>7, <1>10, SameGraphs DEF Route!Final, Route!Place
  <2> QED BY <1>1, <1>6, <1>8, <1>9, <2>1 DEF Route!vars
<1>11. CASE frames' # <<>>
  <2>1. ReturnsTo(workflow, Top) = Route!After(workflow, Route!Callers(workflow, Top.nodes))
    BY <1>1 DEF ReturnsTo
  <2>2. RouteAt.loop = Route!None /\ RouteAt.nodes = Top.nodes /\ RouteAt.pos = Len(RouteAt.nodes) + 1
    BY <1>7, SameGraphs
  <2>3. Route!Return
    BY <1>1, <1>4, <1>8, <1>9, <1>11, <2>1, <2>2 DEF Route!Return
  <2> QED BY <1>6, <2>3 DEF Route!Next
<1> QED BY <1>10, <1>11

-----------------------------------------------------------------------------
(* Every run. *)

LEMMA InitRoute == Init => Route!Init /\ RouteInv
<1> SUFFICES ASSUME Init PROVE Route!Init /\ RouteInv
  OBVIOUS
<1> DEFINE frame == Walk(Schedule[workflow])
<1>1. /\ workflow \in DOMAIN Graphs /\ frames = <<frame>> /\ iteration = 0
      /\ outputs = [n \in Nodes |-> None] /\ status = None /\ iterations = <<>>
      /\ draft = 0 /\ current = {} /\ heard = FALSE
  BY DEF Init
<1>2. frame.loop = None /\ frame.nodes = Schedule[workflow] /\ frame.pos = 1 /\ frame.attempt = 0
  BY DEF Walk
<1>3. frame \in Frames(workflow)
  BY <1>1 DEF Walk, Frames, Walks
<1> HIDE DEF frame
<1>4. StackOK(workflow, frames) /\ frames # <<>> /\ frames[Len(frames)] = frame
  BY <1>1, <1>3 DEF StackOK
<1>5. frame.nodes \in Seq(Nodes)
  BY <1>1, <1>3, FoldAssumption DEF Frames, Nodes, Graph
<1>6. Framed(workflow, frame) /\ <<frame.loop, frame.nodes>> \in Route!Strands(workflow)
  BY <1>2, <1>5, SameGraphs DEF Framed, Route!Strands
<1>7. \A i \in DOMAIN frames : frames[i] = frame /\ i = 1
  BY <1>1
<1>8. StackRouted(workflow, frames)
  BY <1>1, <1>2, <1>6, <1>7 DEF StackRouted
<1>9. Recorded
  BY <1>1 DEF Recorded
<1>10. WalkOK
  BY <1>1, <1>4 DEF WalkOK
<1>11. RouteInv
  BY <1>1, <1>8, <1>9, <1>10 DEF RouteInv
<1>12. /\ RouteOutputs = outputs /\ RouteCurrent = current /\ RouteHeard = heard
       /\ RouteAt = PlaceOf(frame)
  BY <1>1, <1>4, OpenMaps
<1>13. RouteAt = Route!First
  BY <1>2, <1>12, SameGraphs DEF PlaceOf, Route!First, Route!Place
<1>14. outputs = Route!Blank
  BY <1>1, SameGraphs DEF Route!Blank, Route!Nodes, Route!Graph, Nodes, Graph
<1>15. RouteJudged = FALSE
  BY <1>1, <1>12 DEF RouteJudged
<1> QED BY <1>1, <1>11, <1>12, <1>13, <1>14, <1>15 DEF Route!Init

LEMMA NextRoutes ==
  ASSUME OutputsAreOfNodes, Inv, RouteInv, [Next]_vars
  PROVE  [Route!Next]_Route!vars /\ RouteInv'
<1>1. CASE UNCHANGED vars \/ Over \/ Raise \/ ConditionFails \/ FinishEnded
  BY <1>1, StandsStill DEF vars, Over, Raise, ConditionFails, FinishEnded
<1>2. CASE FinishUndone \/ FinishCompleted
  <2>1. status = None
    BY <1>2 DEF FinishUndone, FinishCompleted
  <2> QED BY <1>2, <2>1, FinishRoutes
<1>3. CASE \/ Skip \/ AdvisoryGivesUp \/ GatePasses \/ Complete \/ Cut
           \/ GateStops \/ GateEnds \/ GateRoutes \/ EnterLoop \/ NextAttempt \/ Converge
           \/ ExhaustedEnds \/ ExhaustedHandsOff \/ ExhaustedGoesOn \/ Return
  <2>1. Running
    BY <1>3 DEF Skip, AdvisoryGivesUp, GatePasses, Complete, Cut, GateStops, GateEnds, GateRoutes,
                EnterLoop, NextAttempt, Converge, ExhaustedEnds, ExhaustedHandsOff, ExhaustedGoesOn,
                Return, Exhausted, AtLoopEnd, Closed, AtWork, AtGate, Wanting, AtNode, AtEnd
  <2>2. status = None
    BY <2>1, UnderWay
  <2> QED BY <1>3, <2>2, NodesRoute, CompleteRoutes, CutRoutes, GateStopsRoutes, GateEndsRoutes,
             GateRoutesRoutes, EnterLoopRoutes, NextAttemptRoutes, ConvergeRoutes,
             ExhaustedEndsRoutes, ExhaustedHandsOffRoutes, ReturnRoutes
<1> QED BY <1>1, <1>2, <1>3 DEF Next

Steps == Init /\ [][Next]_vars

LEMMA SpecSteps == Spec => Steps
  BY PTL DEF Spec, Steps

LEMMA StepsRoute ==
  ASSUME OutputsAreOfNodes
  PROVE  Steps => [](Inv /\ RouteInv) /\ Route!Spec
<1>1. Init => Inv /\ RouteInv /\ Route!Init
  BY InitInv, InitRoute
<1>2. Inv /\ RouteInv /\ [Next]_vars => Inv' /\ RouteInv' /\ [Route!Next]_Route!vars
  BY NextInv, NextRoutes
<1> QED BY <1>1, <1>2, PTL DEF Steps, Route!Spec

(* A run is a walk of Routes, for any graphs and whatever their budgets:   *)
(* what the routes keep to, every run does.                                *)
THEOREM SpecFollowsRoute ==
  ASSUME OutputsAreOfNodes
  PROVE  Spec => FollowsRoute
  BY SpecSteps, StepsRoute, PTL DEF FollowsRoute

-----------------------------------------------------------------------------
(* What the routes keep to, kept by every run: TLC goes through the routes *)
(* of a workflow to the last one, and they are the same whatever its       *)
(* budgets are above zero.                                                 *)

LEMMA TestsAreDefined ==
  ASSUME Inv, RouteInv, Route!TestsDefined, workflow \notin Careless
  PROVE  ~ConditionFails
<1> SUFFICES ASSUME ConditionFails PROVE FALSE
  OBVIOUS
<1>1. Running
  BY DEF ConditionFails, AtGate, Wanting, AtNode, AtEnd
<1>2. status = None
  BY <1>1, UnderWay
<1>3. CASE AtNode /\ Here.when # NoTest /\ ~Defined(Here.when)
  <2>1. Route!AtNode /\ Route!Here = Here /\ ~Route!Defined(Here.when) /\ Here.when # Route!NoTest
    BY <1>2, <1>3, NodeMaps, GuardsMap, SameGraphs
  <2> QED BY <2>1 DEF Route!TestsDefined
<1>4. CASE AtGate /\ ~Defined(Here.condition)
  <2>1. AtNode
    BY <1>4 DEF AtGate, Wanting
  <2>2. Route!AtGate /\ Route!Here = Here /\ ~Route!Defined(Here.condition)
    BY <1>2, <1>4, <2>1, NodeMaps, GuardsMap
  <2> QED BY <2>2 DEF Route!TestsDefined
<1>5. CASE /\ AtEnd /\ Top.loop # None /\ Top.attempt > 0
           /\ ~Defined(Graph.node[Top.loop].until)
  <2>1. AtLoopEnd /\ Top.attempt # 0 /\ Loop = Graph.node[Top.loop]
    BY <1>2, <1>5, EndMaps DEF AtLoopEnd, Loop
  <2>2. Route!AtBodyEnd /\ Route!Loop = Loop /\ ~Route!Defined(Loop.until)
    BY <1>2, <1>5, <2>1, LoopMaps, EndMaps
  <2> QED BY <2>2 DEF Route!TestsDefined
<1> QED BY <1>3, <1>4, <1>5 DEF ConditionFails

LEMMA ConditionStep ==
  Inv /\ RouteInv /\ Route!TestsDefined /\ ConditionsDefined /\ [Next]_vars => ConditionsDefined'
<1> SUFFICES ASSUME Inv, RouteInv, Route!TestsDefined, ConditionsDefined, [Next]_vars
             PROVE  ConditionsDefined'
  OBVIOUS
<1>1. workflow' = workflow
  BY DEF vars, Next, Skip, Complete, Cut, CutRun, Unwind, Raise, AdvisoryGivesUp,
         ConditionFails, GatePasses, GateStops, GateEnds, GateRoutes, EnterLoop,
         NextAttempt, Converge, ExhaustedEnds, ExhaustedHandsOff, ExhaustedGoesOn,
         Return, FinishEnded, FinishUndone, FinishCompleted, Over, GoOn
<1>2. ConditionFails \/ mode' \in {mode, "raised", "returned"}
  BY DEF vars, Next, Skip, Complete, Cut, CutRun, Unwind, Raise, AdvisoryGivesUp,
         GatePasses, GateStops, GateEnds, GateRoutes, EnterLoop,
         NextAttempt, Converge, ExhaustedEnds, ExhaustedHandsOff, ExhaustedGoesOn,
         Return, FinishEnded, FinishUndone, FinishCompleted, Over, GoOn
<1> QED BY <1>1, <1>2, TestsAreDefined DEF ConditionsDefined

LEMMA ConditionStart == Init => ConditionsDefined
  BY DEF Init, ConditionsDefined

(* No condition of a run, nor of one with any other budgets, is tested     *)
(* before the node it reads has an output, when none is on a route.        *)
THEOREM SpecConditionsDefined ==
  ASSUME OutputsAreOfNodes, Route!Spec => []Route!TestsDefined
  PROVE  Spec => []ConditionsDefined
  BY SpecSteps, StepsRoute, ConditionStart, ConditionStep, PTL DEF Steps

(* A run is completed at the end of its route, and nowhere else.           *)
LEMMA CompletesOnce ==
  ASSUME CompletesAtTheEnd, Inv, RouteInv, [Next]_vars, status' = "completed"
  PROVE  \/ status = "completed" /\ UNCHANGED <<workflow, record, work>>
         \/ /\ FinishCompleted /\ status = None /\ UNCHANGED <<workflow, work>>
            /\ RouteAt = Route!Final /\ RouteOutputs = outputs /\ RouteCurrent = current
<1>1. CASE UNCHANGED vars \/ Over \/ FinishEnded \/ Raise \/ ConditionFails
  BY <1>1 DEF vars, Over, FinishEnded, Raise, ConditionFails, record, work
<1>2. CASE FinishUndone
  BY <1>2 DEF FinishUndone, End
<1>3. CASE FinishCompleted
  <2>1. status = None /\ frames = <<>> /\ UNCHANGED <<workflow, work>> /\ heard \in BOOLEAN
    BY <1>3 DEF FinishCompleted, Finished, RouteInv
  <2>2. RouteAt = Route!Final /\ RouteOutputs = outputs /\ RouteCurrent = current
    BY <2>1, OpenMaps, EndIsFinal
  <2> QED BY <1>3, <2>1, <2>2
<1>4. CASE Cut
  BY <1>4 DEF Cut, CutRun
<1>5. CASE GateEnds
  <2>1. Closed /\ AtNode /\ status' = Here.onFail
    BY <1>5 DEF GateEnds, Closed, AtGate, Wanting, End
  <2>2. HereId \in Nodes /\ workflow \in DOMAIN Graphs
    BY <2>1, NodeUnderWay DEF RouteInv, WalkOK
  <2>3. Here = Graphs[workflow].node[HereId]
    BY DEF Here, HereId, Graph
  <2>4. Here.onFail # "completed"
    BY <2>2, <2>3 DEF CompletesAtTheEnd, Nodes, Graph
  <2> QED BY <2>1, <2>4
<1>6. CASE ExhaustedEnds
  <2>1. AtLoopEnd /\ AtEnd /\ status' = Loop.exhaustedStatus
    BY <1>6 DEF ExhaustedEnds, Exhausted, AtLoopEnd, End
  <2>2. status = None
    BY <2>1, UnderWay DEF AtEnd
  <2>3. Top.loop \in Nodes /\ Loop = Graph.node[Top.loop] /\ workflow \in DOMAIN Graphs
    BY <2>1, <2>2, LoopMaps DEF RouteInv, WalkOK
  <2>4. Loop.exhaustedStatus # "completed"
    BY <2>3 DEF CompletesAtTheEnd, Nodes, Graph
  <2> QED BY <2>1, <2>4
<1>7. CASE \/ Skip \/ Complete \/ AdvisoryGivesUp \/ GatePasses \/ GateStops \/ GateRoutes
           \/ EnterLoop \/ NextAttempt \/ Converge
           \/ ExhaustedHandsOff \/ ExhaustedGoesOn \/ Return
  <2>1. Running /\ UNCHANGED record
    BY <1>7 DEF Skip, Complete, AdvisoryGivesUp, GatePasses, GateStops, GateRoutes, Closed,
                AtGate, AtWork, EnterLoop, NextAttempt, Converge, ExhaustedHandsOff,
                ExhaustedGoesOn, Return, Exhausted, AtLoopEnd, AtEnd, Wanting, AtNode
  <2>2. status' = None
    BY <2>1, UnderWay DEF record
  <2> QED BY <2>2 DEF None
<1> QED BY <1>1, <1>2, <1>3, <1>4, <1>5, <1>6, <1>7 DEF Next

LEMMA ClearedStep ==
  ASSUME CompletesAtTheEnd
  PROVE  Inv /\ RouteInv /\ Route!FinalIsCleared /\ CompletedIsCleared /\ [Next]_vars
           => CompletedIsCleared'
<1> SUFFICES ASSUME Inv, RouteInv, Route!FinalIsCleared, CompletedIsCleared, [Next]_vars,
                    status' = "completed"
             PROVE  CompletedIsCleared'
  BY DEF CompletedIsCleared
<1>1. CASE status = "completed" /\ UNCHANGED <<workflow, record, work>>
  BY <1>1 DEF CompletedIsCleared, record, work, Nodes, Graph
<1>2. CASE /\ FinishCompleted /\ status = None /\ UNCHANGED <<workflow, work>>
           /\ RouteAt = Route!Final /\ RouteOutputs = outputs /\ RouteCurrent = current
  <2>1. draft # 0 => outputs[ArtifactNode] \notin Undone
    BY <1>2 DEF FinishCompleted
  <2>2. {"triage", "independent_check"} \subseteq Nodes /\ outputs["triage"] = "unrecallable" =>
          "independent_check" \in current /\ outputs["independent_check"] # "veto"
    BY <1>2, SameGraphs DEF Route!FinalIsCleared, Route!Nodes, Route!Graph, Nodes, Graph
  <2> QED BY <1>2, <2>1, <2>2 DEF CompletedIsCleared, work, Nodes, Graph
<1> QED BY <1>1, <1>2, CompletesOnce

LEMMA ClearedStart == Init => CompletedIsCleared
  BY DEF Init, CompletedIsCleared, None

(* Work triage called unrecallable is delivered only with its independent  *)
(* check, and nothing that says of itself it is not done, when no route    *)
(* gets to the end of such work without the check.                         *)
THEOREM SpecCompletedIsCleared ==
  ASSUME OutputsAreOfNodes, CompletesAtTheEnd, Route!Spec => []Route!FinalIsCleared
  PROVE  Spec => []CompletedIsCleared
  BY SpecSteps, StepsRoute, ClearedStart, ClearedStep, PTL DEF Steps

-----------------------------------------------------------------------------
(***************************************************************************)
(* The judges' words (JudgedRun).  What a refusal rests on, what the log   *)
(* says of it, and what is left of both when the answer is delivered: kept *)
(* by every step, because the routes ask the judges in turn (HeardInTurn). *)
(***************************************************************************)

PhasesAnswer == \A n, o : Outcomes(n, o) = PhaseOutcomes(n, o)

LogEntries ==
  [iteration : Nat, causes : SUBSET [who : JudgeNodes, draft : Nat], objects : BOOLEAN]

IsTold(n) == \E c \in Told : c.who = n /\ c.draft = draft

(* A judge that has anchored an objection to the answer refuses it yet.    *)
AnchorsStand ==
  \A g \in grounds : g.why = "anchor" =>
    \/ g.who = "domain_review" /\ g.who \in current /\ "implement" \in Refusing
    \/ g.who \in Refusing \ {"implement", "blocked_check"}
    \/ g.who = "independent_check" /\ g.who \in current /\ outputs[g.who] = "veto"

(* A judge that refuses the answer has given a ground.                     *)
RefusalsGrounded ==
  /\ "implement" \in current /\ outputs["implement"] \notin Green =>
       \E g \in grounds : g.who \in {"implement", "domain_review"}
  /\ \A n \in Refusing \cap {"validate", "review", "rework_review"} :
       \E g \in grounds : g.who = n

(* The last entry of the log tells of every refusal, but of what the       *)
(* implementer or the peers say until validate has answered; and it is of  *)
(* the iteration validate answered in.  An autopsy has read it all.        *)
RefusalsLogged ==
  IF "escalation" \in current THEN log = <<>> /\ directive = draft
  ELSE /\ \A n \in Refusing : IsTold(n) \/ (n = "implement" /\ ~heard)
       /\ heard /\ Refusing \cap {"implement", "validate"} # {} =>
            log # <<>> /\ Last(log).iteration = Last(iterations).iteration

Standing ==
  /\ current \subseteq Nodes /\ (current # {} => "implement" \in current)
  /\ AnchorsStand /\ RefusalsGrounded /\ RefusalsLogged

JudgedInv == log \in Seq(LogEntries) /\ entered \in BOOLEAN /\ (status = None => Standing)

-----------------------------------------------------------------------------

LEMMA PhasesOfNodes == PhasesAnswer => OutputsAreOfNodes
  BY DEF PhasesAnswer, OutputsAreOfNodes, PhaseOutcomes

(* The phases of the workflow files do what SpecApprovedIsEndorsed and      *)
(* SpecImplementsDelivery ask of them: none writes a judge's output but    *)
(* the judge's own (domain_review turns the implementation red, no other), *)
(* the review fold passes on a passed build fold and a review that ships,  *)
(* and the build fold by the rule that validate records an iteration by.   *)
THEOREM PhasesQualify ==
  ASSUME PhasesAnswer, \A o : Agreed(o) = BuildAgrees(o)
  PROVE  FoldIsAgreement /\ PhasesKeepToTheirs
<1> SUFFICES ASSUME NEW w \in DOMAIN Graphs, NEW o, DOMAIN o = Ids(Graphs[w])
             PROVE  /\ Agreed(o) \in BOOLEAN
                    /\ FoldNode \in Ids(Graphs[w]) =>
                         \A p \in Outcomes(FoldNode, o) : p[FoldNode] = "passed" <=> Agreed(o)
                    /\ \A n \in Ids(Graphs[w]) : \A p \in Outcomes(n, o) :
                         /\ DOMAIN p = DOMAIN o
                         /\ \A m \in (Arbiters \cap Ids(Graphs[w])) \ {n} : p[m] = o[m]
                         /\ n = "review_fold" /\ p[n] = "passed" =>
                              o[FoldNode] = "passed" /\ o["rework_review"] = "ship"
  BY DEF FoldIsAgreement, PhasesKeepToTheirs
<1>1. Agreed(o) \in BOOLEAN
  BY DEF BuildAgrees
<1>2. ASSUME FoldNode \in Ids(Graphs[w]), NEW p \in Outcomes(FoldNode, o)
      PROVE  p[FoldNode] = "passed" <=> Agreed(o)
  <2>1. p = [o EXCEPT ![FoldNode] = IF BuildAgrees(o) THEN "passed" ELSE "failed"]
    BY <1>2 DEF PhasesAnswer, PhaseOutcomes, Answers, FoldNode, Verdict
  <2>2. p[FoldNode] = IF BuildAgrees(o) THEN "passed" ELSE "failed"
    BY <1>2, <2>1
  <2> QED BY <2>2
<1>3. ASSUME NEW n \in Ids(Graphs[w]), NEW p \in Outcomes(n, o)
      PROVE  /\ DOMAIN p = DOMAIN o
             /\ \A m \in (Arbiters \cap Ids(Graphs[w])) \ {n} : p[m] = o[m]
  <2>1. PICK a : \/ p = [o EXCEPT ![n] = a]
                 \/ p = [[o EXCEPT ![n] = a] EXCEPT !["implement"] = RedOf(@)]
    BY DEF PhasesAnswer, PhaseOutcomes
  <2>2. "implement" \notin Arbiters
    BY DEF Arbiters, FoldNode
  <2> QED BY <2>1, <2>2
<1>4. ASSUME "review_fold" \in Ids(Graphs[w]), NEW p \in Outcomes("review_fold", o),
             p["review_fold"] = "passed"
      PROVE  o[FoldNode] = "passed" /\ o["rework_review"] = "ship"
  <2>1. p = [o EXCEPT !["review_fold"] = IF ReviewAgrees(o) THEN "passed" ELSE "failed"]
    BY <1>4 DEF PhasesAnswer, PhaseOutcomes, Answers, Verdict
  <2>2. p["review_fold"] = IF ReviewAgrees(o) THEN "passed" ELSE "failed"
    BY <1>4, <2>1
  <2>3. ReviewAgrees(o)
    BY <1>4, <2>2
  <2> QED BY <2>3 DEF ReviewAgrees, FoldNode
<1> QED BY <1>1, <1>2, <1>3, <1>4

LEMMA JudgedNextIsNext == JudgedNext => Next
<1>1. OtherWork => Complete
  BY DEF OtherWork
<1>2. Judging => Complete \/ Raise
  BY DEF Judging, Implementing, CheckingBlocked, DomainReviewing, Validating, Reviewing,
         Checking, Escalating, Answer
<1> QED BY <1>1, <1>2 DEF JudgedNext, Walking, Next

LEMMA JudgedSteps == JudgedSpec => Steps
<1>1. JudgedInit => Init
  BY DEF JudgedInit
<1>2. [JudgedNext]_<<vars, adapter>> => [Next]_vars
  BY JudgedNextIsNext
<1> QED BY <1>1, <1>2, PTL DEF JudgedSpec, Steps

(* Who refuses depends on the answers of the judges that have spoken.      *)
LEMMA SameRefusal ==
  ASSUME NEW n, n \in current' <=> n \in current, n \in current => outputs'[n] = outputs[n]
  PROVE  n \in Refusing' <=> n \in Refusing
  BY DEF Refusing

LEMMA RefusersJudge ==
  /\ Refusing \subseteq current
  /\ Refusing \subseteq {"implement", "validate", "blocked_check", "review", "rework_review"}
  /\ Refusing \subseteq JudgeNodes
  BY DEF Refusing, JudgeNodes

(* A step at which no judge speaks.                                        *)
Aside ==
  /\ UNCHANGED <<workflow, draft, heard, iterations, adapter>>
  /\ current' \subseteq Nodes
  /\ \A n \in JudgeNodes : /\ n \in current' <=> n \in current
                           /\ n \in current => outputs'[n] = outputs[n]
  /\ current' # {} => current # {}

LEMMA AsideKeeps ==
  ASSUME JudgedInv, Aside, status = None
  PROVE  JudgedInv'
<1>1. /\ UNCHANGED <<workflow, draft, heard, iterations, log, directive, entered, grounds>>
      /\ Standing /\ log \in Seq(LogEntries) /\ entered \in BOOLEAN
  BY DEF Aside, adapter, JudgedInv
<1>2. Refusing' = Refusing
  <2>1. \A n \in JudgeNodes : n \in Refusing' <=> n \in Refusing
    BY SameRefusal DEF Aside
  <2>2. Refusing \subseteq JudgeNodes /\ Refusing' \subseteq JudgeNodes
    BY DEF Refusing, JudgeNodes
  <2> QED BY <2>1, <2>2
<1>3. \A n \in JudgeNodes : /\ n \in current' <=> n \in current
                            /\ n \in current => outputs'[n] = outputs[n]
  BY DEF Aside
<1>4. current' \subseteq Nodes' /\ (current' # {} => "implement" \in current')
  BY <1>1, <1>3 DEF Aside, Standing, Nodes, Graph, JudgeNodes
<1>5. AnchorsStand'
  BY <1>1, <1>2, <1>3 DEF Standing, AnchorsStand, JudgeNodes
<1>6. RefusalsGrounded'
  BY <1>1, <1>2, <1>3 DEF Standing, RefusalsGrounded, JudgeNodes
<1>7. RefusalsLogged'
  <2>1. "escalation" \in current' <=> "escalation" \in current
    BY <1>3 DEF JudgeNodes
  <2> QED BY <1>1, <1>2, <2>1 DEF Standing, RefusalsLogged, IsTold, Told
<1> QED BY <1>1, <1>4, <1>5, <1>6, <1>7 DEF JudgedInv, Standing

(* A gate or a loop stores its own output.                                 *)
LEMMA StoreIsAside ==
  ASSUME JudgedInv, status = None, NEW n, n \notin JudgeNodes, NEW value, Store(n, value),
         UNCHANGED <<workflow, adapter>>
  PROVE  Aside
  BY DEF Store, Aside, JudgedInv, Standing

LEMMA WalkingKeeps ==
  ASSUME JudgesAreWork, Inv, RouteInv, JudgedInv, Walking, UNCHANGED adapter
  PROVE  JudgedInv'
<1>1. UNCHANGED <<log, entered>> /\ log \in Seq(LogEntries) /\ entered \in BOOLEAN
  BY DEF adapter, JudgedInv
<1>2. status' # None => JudgedInv'
  BY <1>1 DEF JudgedInv
<1>3. CASE GateEnds \/ ExhaustedEnds \/ Cut \/ FinishUndone \/ FinishCompleted
  <2>1. status' # None
    BY <1>3 DEF GateEnds, ExhaustedEnds, Cut, CutRun, FinishUndone, FinishCompleted, End,
                TerminalStatuses, None
  <2> QED BY <1>2, <2>1
<1>4. CASE FinishEnded
  BY <1>2, <1>4 DEF FinishEnded, record
<1>5. CASE Over
  <2>1. status # None => status' # None
    BY <1>5 DEF Over, vars, record
  <2>2. status = None => Aside
    BY <1>5 DEF Over, vars, work, Aside, JudgedInv, Standing
  <2> QED BY <1>2, <2>1, <2>2, AsideKeeps
<1>6. CASE Skip \/ Raise \/ EnterLoop \/ NextAttempt \/ Return
  <2>1. Running /\ UNCHANGED <<workflow, work>>
    BY <1>6 DEF Skip, Raise, EnterLoop, NextAttempt, Return, AtLoopEnd, AtWork, Wanting,
                AtNode, AtEnd, GoOn
  <2>2. status = None
    BY <2>1, UnderWay
  <2>3. Aside
    BY <2>1, <2>2 DEF work, Aside, JudgedInv, Standing
  <2> QED BY <2>2, <2>3, AsideKeeps
<1>7. CASE GatePasses \/ GateRoutes
  <2>1. /\ AtNode /\ Running /\ Here.kind = "gate" /\ UNCHANGED workflow
        /\ \E value : Store(HereId, value)
    BY <1>7 DEF GatePasses, GateRoutes, Closed, AtGate, Wanting, AtNode, GoOn
  <2>2. status = None /\ HereId \in Nodes /\ workflow \in DOMAIN Graphs
    BY <2>1, UnderWay, NodeMaps DEF RouteInv, WalkOK
  <2>3. HereId \notin JudgeNodes
    BY <2>1, <2>2 DEF JudgesAreWork, Nodes, Graph, Here, HereId
  <2> QED BY <2>1, <2>2, <2>3, StoreIsAside, AsideKeeps
<1>8. CASE Converge \/ ExhaustedHandsOff \/ ExhaustedGoesOn
  <2>1. /\ AtLoopEnd /\ Running /\ UNCHANGED workflow
        /\ \E value : Store(Top.loop, value)
    BY <1>8 DEF Converge, ExhaustedHandsOff, ExhaustedGoesOn, Exhausted, AtLoopEnd, AtEnd
  <2>2. status = None
    BY <2>1, UnderWay
  <2>3. Top.loop \in Nodes /\ Graph.node[Top.loop].body # <<>> /\ workflow \in DOMAIN Graphs
    BY <2>1, <2>2, LoopMaps DEF RouteInv, WalkOK
  <2>4. Top.loop \notin JudgeNodes
    BY <2>3 DEF JudgesAreWork, Nodes, Graph
  <2> QED BY <2>1, <2>2, <2>4, StoreIsAside, AsideKeeps
<1> QED BY <1>3, <1>4, <1>5, <1>6, <1>7, <1>8 DEF Walking

-----------------------------------------------------------------------------
(* A judge speaks. *)

(* When each is asked, by the routes.                                      *)
LEMMA Turns ==
  ASSUME JudgesAreWork, RouteInv, status = None, AtWork, Route!HeardInTurn
  PROVE  /\ HereId \in JudgeNodes \ {"implement"} => "implement" \in current /\ draft # 0
         /\ HereId \in {"blocked_check", "validate", "review", "rework_review", "escalation"} =>
              "escalation" \notin current
         /\ HereId = "blocked_check" =>
              Refusing \subseteq {"blocked_check"} \cup (IF heard THEN {} ELSE {"implement"})
         /\ HereId = "validate" => Refusing \subseteq {"implement", "validate"}
         /\ HereId = "review" => Refusing \subseteq {"review"}
         /\ HereId = "rework_review" =>
              /\ heard /\ Last(iterations).iteration = iteration
              /\ Refusing \subseteq {"implement", "validate", "rework_review"}
         /\ HereId = "escalation" /\ "implement" \in Refusing => heard
<1>1. AtNode /\ workflow \in DOMAIN Graphs /\ heard \in BOOLEAN /\ (draft = 0 <=> current = {})
  BY DEF AtWork, Wanting, RouteInv, WalkOK
<1>2. Route!AtWork /\ Route!HereId = HereId
  BY <1>1, NodeMaps, GuardsMap
<1>3. RouteOutputs = outputs /\ RouteCurrent = current /\ RouteHeard = heard
  BY <1>1, OpenMaps
<1>4. Route!Refusing = Refusing
  BY <1>3 DEF Route!Refusing, Refusing
<1>5. "review" \in Requires[workflow]
  BY <1>1 DEF JudgesAreWork
<1>6. \A n : Route!Asked(n) <=> HereId = n
  BY <1>2 DEF Route!Asked
<1>7. RouteJudged => heard /\ Last(iterations).iteration = iteration
  BY <1>3 DEF RouteJudged
<1>8. HereId \in JudgeNodes \ {"implement"} => "implement" \in current
  BY <1>2, <1>3, <1>5 DEF Route!HeardInTurn, JudgeNodes
<1>9. HereId \in {"blocked_check", "validate", "review", "rework_review", "escalation"} =>
        "escalation" \notin current
  BY <1>2, <1>3, <1>5 DEF Route!HeardInTurn
<1>10. /\ HereId = "blocked_check" =>
              Refusing \subseteq {"blocked_check"} \cup (IF heard THEN {} ELSE {"implement"})
       /\ HereId = "validate" => Refusing \subseteq {"implement", "validate"}
       /\ HereId = "review" => Refusing \subseteq {"review"}
       /\ HereId = "rework_review" =>
            RouteJudged /\ Refusing \subseteq {"implement", "validate", "rework_review"}
       /\ HereId = "escalation" /\ "implement" \in Refusing => heard
  BY <1>3, <1>4, <1>5, <1>6 DEF Route!HeardInTurn
<1> QED BY <1>1, <1>7, <1>8, <1>9, <1>10

(* What its answer leaves as it was.                                       *)
LEMMA Spoken ==
  ASSUME PhasesAnswer, RouteInv, status = None, JudgedInv, Complete
  PROVE  /\ HereId \in Nodes /\ AtWork /\ AtNode /\ Standing
         /\ status' = None /\ UNCHANGED <<workflow, iteration>>
         /\ draft \in Nat /\ (draft = 0 <=> current = {}) /\ iteration \in Nat
         /\ draft' = IF HereId = "implement" THEN draft + 1 ELSE draft
         /\ current' = IF HereId = "implement" THEN {"implement"}
                       ELSE IF draft = 0 THEN {} ELSE current \cup {HereId}
         /\ HereId # "validate" => iterations' = iterations
         /\ HereId = "validate" => Last(iterations').iteration = iteration
         /\ heard' = IF HereId = "validate" THEN TRUE
                     ELSE IF HereId \in {"implement", "domain_review"} THEN FALSE ELSE heard
         /\ \A n \in Nodes : n # HereId /\ (HereId = "domain_review" => n # "implement") =>
              outputs'[n] = outputs[n]
         /\ DOMAIN outputs' = Nodes
<1>1. /\ AtWork /\ AtNode /\ UNCHANGED <<workflow, iteration, status>>
      /\ outputs' \in Outcomes(HereId, outputs)
      /\ draft' = IF HereId = "implement" THEN draft + 1 ELSE draft
      /\ current' = IF HereId = "implement" THEN {"implement"}
                    ELSE IF draft = 0 THEN {} ELSE current \cup {HereId}
      /\ iterations' = IF HereId = "validate"
                       THEN Append(iterations, Judged(iteration, draft, Agreed(outputs')))
                       ELSE iterations
      /\ heard' = IF HereId = "validate" THEN TRUE
                  ELSE IF HereId \in {"implement", "domain_review"} THEN FALSE ELSE heard
  BY DEF Complete, GoOn, AtWork, Wanting, record, ArtifactNode, JudgingNode
<1>2. HereId \in Nodes
  BY <1>1, NodeMaps
<1>3. DOMAIN outputs = Nodes /\ iteration \in Nat /\ Recorded /\ draft \in Nat
      /\ (draft = 0 <=> current = {})
  BY DEF RouteInv, WalkOK
<1>4. outputs' \in PhaseOutcomes(HereId, outputs)
  BY <1>1 DEF PhasesAnswer
<1>5. \A n \in Nodes : n # HereId /\ (HereId = "domain_review" => n # "implement") =>
        outputs'[n] = outputs[n]
  BY <1>2, <1>3, <1>4 DEF PhaseOutcomes
<1>6. DOMAIN outputs' = Nodes
  BY <1>3, <1>4 DEF PhaseOutcomes
<1>7. ASSUME HereId = "validate" PROVE Last(iterations').iteration = iteration
  <2> DEFINE entry == Judged(iteration, draft, Agreed(outputs'))
  <2>1. Last(iterations') = entry
    BY <1>1, <1>3, <1>7, Appends DEF Recorded
  <2>2. entry.iteration = iteration
    BY DEF Judged
  <2> QED BY <2>1, <2>2
<1> QED BY <1>1, <1>2, <1>3, <1>5, <1>6, <1>7 DEF JudgedInv

LEMMA OtherWorkKeeps ==
  ASSUME PhasesAnswer, RouteInv, status = None, JudgedInv, OtherWork, UNCHANGED adapter
  PROVE  JudgedInv'
<1>1. Complete /\ HereId \notin JudgeNodes
  BY DEF OtherWork
<1>2. /\ HereId \in Nodes /\ Standing /\ UNCHANGED workflow
      /\ (draft = 0 <=> current = {})
      /\ \A n \in Nodes : n # HereId /\ (HereId = "domain_review" => n # "implement") =>
           outputs'[n] = outputs[n]
      /\ UNCHANGED <<draft, heard, iterations>>
      /\ current' = IF draft = 0 THEN {} ELSE current \cup {HereId}
  BY <1>1, Spoken DEF JudgeNodes
<1>3. \A n \in JudgeNodes : /\ n \in current' <=> n \in current
                            /\ n \in current => outputs'[n] = outputs[n]
  BY <1>1, <1>2 DEF Standing, JudgeNodes
<1>4. Aside
  BY <1>2, <1>3 DEF Aside, Standing
<1> QED BY <1>4, AsideKeeps

(* A judge other than the implementer and the peers has answered: who else *)
(* refuses, and what their refusals rest on, is as it was.                 *)
LEMMA OthersStand ==
  ASSUME PhasesAnswer, JudgesAreWork, RouteInv, status = None, JudgedInv, Route!HeardInTurn,
         Complete, HereId \in JudgeNodes \ {"implement", "domain_review"}
  PROVE  /\ current' = current \cup {HereId} /\ draft' = draft /\ "implement" \in current
         /\ current' \subseteq Nodes' /\ (current' # {} => "implement" \in current')
         /\ \A n \in Refusing' : n = HereId \/ n \in Refusing
         /\ \A n \in Refusing : n = HereId \/ n \in Refusing'
         /\ HereId # "implement" /\ HereId # "domain_review"
         /\ \A n \in current : n # HereId => outputs'[n] = outputs[n]
<1>1. /\ HereId \in Nodes /\ AtWork /\ Standing /\ UNCHANGED workflow
      /\ draft' = draft /\ (draft = 0 <=> current = {})
      /\ current' = IF draft = 0 THEN {} ELSE current \cup {HereId}
      /\ \A n \in Nodes : n # HereId => outputs'[n] = outputs[n]
  BY Spoken
<1>2. "implement" \in current /\ draft # 0
  BY <1>1, Turns
<1>3. current' = current \cup {HereId} /\ current \subseteq Nodes
  BY <1>1, <1>2 DEF Standing
<1>4. \A n : n # HereId => (n \in Refusing' <=> n \in Refusing)
  <2> SUFFICES ASSUME NEW n, n # HereId PROVE n \in Refusing' <=> n \in Refusing
    OBVIOUS
  <2> QED BY <1>1, <1>3, SameRefusal
<1>5. Nodes' = Nodes
  BY <1>1 DEF Nodes, Graph
<1> QED BY <1>1, <1>2, <1>3, <1>4, <1>5

(* Their anchored objections and their grounds, then, stand as well.       *)
LEMMA GroundsStand ==
  ASSUME PhasesAnswer, JudgesAreWork, RouteInv, status = None, JudgedInv, Route!HeardInTurn,
         Complete, HereId \in JudgeNodes \ {"implement", "domain_review"},
         NEW why, Hears(why),
         "anchor" \in why =>
           \/ HereId \in {"validate", "review", "rework_review"} /\ HereId \in Refusing'
           \/ HereId = "independent_check" /\ outputs'[HereId] = "veto",
         HereId \in {"validate", "review", "rework_review"} /\ HereId \in Refusing' => why # {}
  PROVE  AnchorsStand' /\ RefusalsGrounded'
<1>1. /\ current' = current \cup {HereId} /\ "implement" \in current
      /\ \A n \in Refusing' : n = HereId \/ n \in Refusing
      /\ \A n \in Refusing : n = HereId \/ n \in Refusing'
      /\ HereId # "implement" /\ HereId # "domain_review"
      /\ \A n \in current : n # HereId => outputs'[n] = outputs[n]
  BY OthersStand
<1>2. AnchorsStand /\ RefusalsGrounded
  BY DEF JudgedInv, Standing
<1>3. grounds' = {g \in grounds : g.who # HereId} \cup {Ground(HereId, w) : w \in why}
  BY DEF Hears
<1>4. \A w : Ground(HereId, w).who = HereId /\ Ground(HereId, w).why = w
  BY DEF Ground
<1>5. ASSUME NEW g \in grounds', g.why = "anchor"
      PROVE  \/ g.who = "domain_review" /\ g.who \in current' /\ "implement" \in Refusing'
             \/ g.who \in Refusing' \ {"implement", "blocked_check"}
             \/ g.who = "independent_check" /\ g.who \in current' /\ outputs'[g.who] = "veto"
  <2>1. CASE g.who = HereId
    <3>1. "anchor" \in why
      BY <1>3, <1>4, <1>5, <2>1
    <3> QED BY <1>1, <2>1, <3>1
  <2>2. CASE g.who # HereId
    <3>1. g \in grounds
      BY <1>3, <1>4, <2>2
    <3>2. \/ g.who = "domain_review" /\ g.who \in current /\ "implement" \in Refusing
          \/ g.who \in Refusing \ {"implement", "blocked_check"}
          \/ g.who = "independent_check" /\ g.who \in current /\ outputs[g.who] = "veto"
      BY <1>2, <1>5, <3>1 DEF AnchorsStand
    <3> QED BY <1>1, <2>2, <3>2
  <2> QED BY <2>1, <2>2
<1>6. "implement" \in current' /\ outputs'["implement"] \notin Green =>
        \E g \in grounds' : g.who \in {"implement", "domain_review"}
  BY <1>1, <1>2, <1>3 DEF RefusalsGrounded
<1>7. ASSUME NEW n \in Refusing' \cap {"validate", "review", "rework_review"}
      PROVE  \E g \in grounds' : g.who = n
  <2>1. CASE n = HereId
    BY <1>3, <1>4, <1>7, <2>1
  <2>2. CASE n # HereId
    <3>1. \E g \in grounds : g.who = n
      BY <1>1, <1>2, <1>7, <2>2 DEF RefusalsGrounded
    <3> QED BY <1>3, <2>2, <3>1
  <2> QED BY <2>1, <2>2
<1> QED BY <1>5, <1>6, <1>7 DEF AnchorsStand, RefusalsGrounded

-----------------------------------------------------------------------------
(* What a reply comes to, and the ground it gives. *)

(* The verdicts' reading of a dissent is the ruling's.                     *)
LEMMA ShownIsAnchored ==
  ASSUME KindsAreRead(Dissents), NEW d \in Dissents
  PROVE  Shown(d) <=> DissentAnchored(d)
<1>1. /\ d.kind \in {"unmet_ask", "wrong_fact", "hazard", "", "other"}
      /\ d.kind = "other" => ~d.hazard
  BY JudgedAssumption DEF KindsAreRead, Dissent, DissentKinds
<1>2. CASE d.kind = "unmet_ask"
  BY <1>2 DEF Shown, DissentAnchored, DissentKind, DissentKinds, QuoteAnchors
<1>3. CASE d.kind = "hazard" \/ (d.kind = "" /\ d.hazard)
  BY <1>3 DEF Shown, DissentAnchored, DissentKind, DissentKinds, QuoteAnchors
<1>4. CASE d.kind = "wrong_fact" \/ (d.kind \in {"", "other"} /\ ~d.hazard)
  <2>1. DissentKind(d) = "wrong_fact"
    BY <1>4 DEF DissentKind, DissentKinds
  <2>2. Shown(d) <=> d.source_quote \cap {"request", "sources"} # {}
    BY <1>4 DEF Shown
  <2> QED BY <2>1, <2>2 DEF DissentAnchored, QuoteAnchors
<1> QED BY <1>1, <1>2, <1>3, <1>4

LEMMA Member ==
  ASSUME NEW S, NEW s \in Seq(S)
  PROVE  /\ \A i \in DOMAIN s : s[i] \in S
         /\ s # <<>> => 1 \in DOMAIN s /\ Head(s) = s[1]
  OBVIOUS

LEMMA ImplementWhy ==
  ASSUME NEW r \in ImplementResults, ~r.raises
  PROVE  /\ r.output \notin Green => r.why # {}
         /\ "anchor" \notin r.why /\ r.entered \in BOOLEAN
<1>0. PICK s \in ImplementReply :
        r = [raises |-> ImplementRaises(s), output |-> ImplementOutput(s),
             entered |-> s.blocked # <<>>,
             why |-> IF ToSet(s.blocked) \ {"why only"} # {} THEN {"ask"} ELSE {}]
  BY DEF ImplementResults
<1>1. /\ r.raises = ImplementRaises(s)
      /\ r.output = ImplementOutput(s)
      /\ r.entered = (s.blocked # <<>>)
      /\ r.why = IF ToSet(s.blocked) \ {"why only"} # {} THEN {"ask"} ELSE {}
  BY <1>0
<1>2. s.blocked \in Seq(Entries)
  <2>1. s.blocked \in BoundedSeq(Entries, 2)
    BY DEF ImplementReply
  <2>2. PICK m \in 0 .. 2 : s.blocked \in [1 .. m -> Entries]
    BY <2>1 DEF BoundedSeq, SeqOf
  <2> QED BY <2>2
<1>3. ASSUME r.output \notin Green
      PROVE  r.why # {}
  <2>1. CASE NamesAnAsk(s)
    <3>1. "ask" \in ToSet(s.blocked) \ {"why only"}
      BY <2>1 DEF NamesAnAsk
    <3> QED BY <1>1, <3>1
  <2>2. CASE ~NamesAnAsk(s)
    <3>1. ~ImplementGreen(s) /\ ~ImplementRaises(s)
      BY <1>1, <1>3, <2>2 DEF ImplementOutput, Green
    <3>2. s.blocked # <<>> /\ Head(s.blocked) # "why only"
      BY <3>1 DEF ImplementGreen, ImplementRaises, OwnRed
    <3>3. 1 \in DOMAIN s.blocked /\ Head(s.blocked) = s.blocked[1]
      BY <1>2, <3>2, Member
    <3>4. Head(s.blocked) \in ToSet(s.blocked)
      BY <3>3 DEF ToSet
    <3> QED BY <1>1, <3>2, <3>4
  <2> QED BY <2>1, <2>2
<1>4. r.entered \in BOOLEAN
  <2>1. CASE s.blocked = <<>>
    BY <1>1, <2>1
  <2>2. CASE s.blocked # <<>>
    BY <1>1, <2>2
  <2> QED BY <2>1, <2>2
<1>5. "anchor" \notin r.why
  <2>1. r.why = {"ask"} \/ r.why = {}
    BY <1>1, Zenon
  <2> QED BY <2>1
<1> QED BY <1>3, <1>4, <1>5

LEMMA DomainWhy ==
  ASSUME KindsAreRead(Dissents), NEW r \in DomainResults
  PROVE  /\ r.critical \in BOOLEAN /\ r.critical => r.why # {}
         /\ "anchor" \in r.why => r.critical
<1>0. PICK cs \in {{}} \cup {{c} : c \in Concern(Dissents)} :
        r = [critical |-> Critical(cs),
             why |-> IF \E c \in cs : c.critical /\ Shown(c.dissent) THEN {"anchor"} ELSE {}]
  BY DEF DomainResults
<1>1. /\ r.critical = Critical(cs)
      /\ r.why = IF \E c \in cs : c.critical /\ Shown(c.dissent) THEN {"anchor"} ELSE {}
  BY <1>0
<1>2. \A c \in cs : c.dissent \in Dissents
  BY DEF Concern
<1> QED BY <1>1, <1>2, ShownIsAnchored DEF Critical

LEMMA ValidateWhy ==
  ASSUME KindsAreRead(Dissents), NEW r \in ValidateResults
  PROVE  /\ r.output \in {"green", "red"}
         /\ r.output = "red" => r.why # {}
         /\ "anchor" \in r.why => r.output = "red"
<1>0. PICK s \in ValidateReply(Dissents) :
        r = [output |-> IF ValidateGreen(s) THEN "green" ELSE "red",
             why |-> IF WantsRed(s) /\ Shown(s.dissent) THEN {"anchor"}
                     ELSE IF ~s.substance THEN {"no assessment"} ELSE {}]
  BY DEF ValidateResults
<1>1. /\ r.output = IF ValidateGreen(s) THEN "green" ELSE "red"
      /\ r.why = IF WantsRed(s) /\ Shown(s.dissent) THEN {"anchor"}
                 ELSE IF ~s.substance THEN {"no assessment"} ELSE {}
  BY <1>0
<1>2. s.dissent \in Dissents /\ s.cause \in BOOLEAN /\ s.substance \in BOOLEAN
  BY DEF ValidateReply
<1>3. Shown(s.dissent) <=> DissentAnchored(s.dissent)
  BY <1>2, ShownIsAnchored
<1> QED BY <1>1, <1>2, <1>3 DEF ValidateGreen, WantsRed, ResolveGreen

LEMMA ReviewWhy ==
  ASSUME KindsAreRead(Dissents), NEW r \in ReviewResults
  PROVE  /\ r.output \in {"ship", "hold"}
         /\ r.output = "hold" => r.why # {}
         /\ "anchor" \in r.why => r.output = "hold"
<1>0. PICK p \in Panels :
        r = [output |-> IF ReviewShips(p) THEN "ship" ELSE "hold",
             why |-> IF \E i \in Completed(p) : \E f \in p[i].findings :
                          f.severity = "high" /\ Shown(f.dissent)
                     THEN {"anchor"}
                     ELSE IF Cardinality({i \in DOMAIN p : ~p[i].completed}) * 2 > Len(p)
                     THEN {"no quorum"} ELSE {}]
  BY DEF ReviewResults
<1>1. /\ r.output = IF ReviewShips(p) THEN "ship" ELSE "hold"
      /\ r.why = IF \E i \in Completed(p) : \E f \in p[i].findings :
                      f.severity = "high" /\ Shown(f.dissent)
                 THEN {"anchor"}
                 ELSE IF Cardinality({i \in DOMAIN p : ~p[i].completed}) * 2 > Len(p)
                 THEN {"no quorum"} ELSE {}
  BY <1>0
<1>2. p \in Seq([completed : BOOLEAN,
                 findings : SUBSET [severity : {"high", "note"}, dissent : Dissents]])
  BY JudgedAssumption
<1>3. \A i \in DOMAIN p : \A f \in p[i].findings : f.dissent \in Dissents
  <2> SUFFICES ASSUME NEW i \in DOMAIN p, NEW f \in p[i].findings PROVE f.dissent \in Dissents
    OBVIOUS
  <2>1. p[i] \in [completed : BOOLEAN,
                  findings : SUBSET [severity : {"high", "note"}, dissent : Dissents]]
    BY <1>2, Member
  <2>2. p[i].findings \subseteq [severity : {"high", "note"}, dissent : Dissents]
    BY <2>1
  <2>3. f \in [severity : {"high", "note"}, dissent : Dissents]
    BY <2>2
  <2> QED BY <2>3
<1>4. \A i \in Completed(p) : \A f \in p[i].findings : Shown(f.dissent) <=> DissentAnchored(f.dissent)
  BY <1>3, ShownIsAnchored DEF Completed
<1>5. Blocked(p) <=> \E i \in Completed(p) : \E f \in p[i].findings :
                        f.severity = "high" /\ Shown(f.dissent)
  BY <1>4 DEF Blocked, Blocks
<1>6. ASSUME ~Quorate(p)
      PROVE  Cardinality({i \in DOMAIN p : ~p[i].completed}) * 2 > Len(p)
  <2> DEFINE missing == {i \in DOMAIN p : ~p[i].completed}
  <2>1. DOMAIN p = 1 .. Len(p) /\ Len(p) \in Nat
    BY <1>2
  <2>2. IsFiniteSet(DOMAIN p) /\ Cardinality(DOMAIN p) = Len(p)
    <3>1. \A b \in Int : /\ IsFiniteSet(1 .. b)
                        /\ Cardinality(1 .. b) = IF 1 > b THEN 0 ELSE b - 1 + 1
      BY FS_Interval
    <3> QED BY <2>1, <3>1
  <2>3. Completed(p) \subseteq DOMAIN p /\ missing = DOMAIN p \ Completed(p)
    BY DEF Completed
  <2> HIDE DEF missing
  <2>4. /\ IsFiniteSet(Completed(p)) /\ Cardinality(Completed(p)) \in Nat
        /\ DOMAIN p \cap Completed(p) = Completed(p)
    BY <2>2, <2>3, FS_Subset, FS_CardinalityType
  <2>5. Cardinality(missing) = Len(p) - Cardinality(Completed(p))
    <3>1. \A T : Cardinality(DOMAIN p \ T) = Cardinality(DOMAIN p) - Cardinality(DOMAIN p \cap T)
      BY <2>2, FS_Difference
    <3> QED BY <2>2, <2>3, <2>4, <3>1
  <2>6. 2 * Cardinality(Completed(p)) < Len(p)
    BY <1>6, <2>1, <2>4 DEF Quorate
  <2>7. Cardinality(missing) * 2 > Len(p)
    BY <2>1, <2>4, <2>5, <2>6
  <2> QED BY <2>7 DEF missing
<1> QED BY <1>1, <1>5, <1>6 DEF ReviewShips

LEMMA IndependentWhy ==
  ASSUME KindsAreRead(Dissents), NEW r \in IndependentResults
  PROVE  "anchor" \in r.why => r.output = "veto"
<1>1. CASE r = [output |-> "skipped", why |-> {}]
  BY <1>1
<1>2. CASE r \in {[output |-> IF Vetoes(issues) THEN "veto" ELSE "ship",
                   why |-> IF \E d \in issues : Shown(d) THEN {"anchor"} ELSE {}] :
                     issues \in {{}} \cup {{d} : d \in Dissents}}
  <2>1. PICK issues \in {{}} \cup {{d} : d \in Dissents} :
          /\ r.output = IF Vetoes(issues) THEN "veto" ELSE "ship"
          /\ r.why = IF \E d \in issues : Shown(d) THEN {"anchor"} ELSE {}
    BY <1>2
  <2>2. issues \subseteq Dissents
    OBVIOUS
  <2> QED BY <2>1, <2>2, ShownIsAnchored DEF Vetoes
<1> QED BY <1>1, <1>2 DEF IndependentResults

-----------------------------------------------------------------------------
(* The log. *)

LEMMA LastReplaced ==
  ASSUME NEW S, NEW s \in Seq(S), s # <<>>, NEW e \in S
  PROVE  /\ [s EXCEPT ![Len(s)] = e] \in Seq(S) /\ [s EXCEPT ![Len(s)] = e] # <<>>
         /\ Last([s EXCEPT ![Len(s)] = e]) = e
  BY DEF Last

LEMMA LogFailureAdds ==
  ASSUME log \in Seq(LogEntries), NEW entry \in LogEntries
  PROVE  LET after == LogFailure(entry)
         IN /\ after \in Seq(LogEntries) /\ after # <<>>
            /\ Last(after).iteration = entry.iteration
            /\ entry.causes \subseteq Last(after).causes
            /\ log # <<>> /\ Last(log).iteration = entry.iteration =>
                 Last(log).causes \subseteq Last(after).causes
<1> DEFINE after == LogFailure(entry)
<1>1. CASE log # <<>> /\ Last(log).iteration = entry.iteration
  <2> DEFINE folded == Folded(log[Len(log)], entry)
  <2>1. log[Len(log)] \in LogEntries /\ Last(log) = log[Len(log)]
    BY <1>1 DEF Last
  <2>2. after = [log EXCEPT ![Len(log)] = folded]
    BY <1>1 DEF LogFailure
  <2>3. /\ folded \in LogEntries /\ folded.iteration = log[Len(log)].iteration
        /\ folded.causes = log[Len(log)].causes \cup entry.causes
    BY <2>1 DEF LogEntries, Folded
  <2> HIDE DEF folded, after
  <2>4. after \in Seq(LogEntries) /\ after # <<>> /\ Last(after) = folded
    BY <1>1, <2>2, <2>3, LastReplaced
  <2> QED BY <1>1, <2>1, <2>3, <2>4 DEF after
<1>2. CASE ~(log # <<>> /\ Last(log).iteration = entry.iteration)
  <2>1. after = Append(log, entry)
    BY <1>2 DEF LogFailure
  <2> HIDE DEF after
  <2>2. after \in Seq(LogEntries) /\ after # <<>> /\ Last(after) = entry
    BY <2>1, Appends
  <2> QED BY <1>2, <2>2 DEF after
<1> QED BY <1>1, <1>2

LEMMA EntryOK ==
  ASSUME iteration \in Nat, draft \in Nat, NEW causes, NEW objects \in BOOLEAN,
         \A c \in causes : \E n \in JudgeNodes : c = Refusal(n)
  PROVE  /\ Entry(causes, objects) \in LogEntries
         /\ Entry(causes, objects).iteration = iteration /\ Entry(causes, objects).causes = causes
  BY DEF Entry, LogEntries, Refusal

LEMMA SaidIsTold ==
  ASSUME NEW n, log' # <<>>, Refusal(n) \in Last(log').causes, draft' = draft
  PROVE  IsTold(n)'
  BY DEF IsTold, Told, Refusal


-----------------------------------------------------------------------------
(* Each judge in turn. *)

(* One that gives the answer no ground, and takes none from it.            *)
LEMMA OwnGroundsStand ==
  ASSUME PhasesAnswer, JudgesAreWork, RouteInv, status = None, JudgedInv, Route!HeardInTurn,
         Complete, HereId \in {"blocked_check", "escalation"}, UNCHANGED grounds
  PROVE  AnchorsStand' /\ RefusalsGrounded'
<1>1. /\ current' = current \cup {HereId} /\ "implement" \in current
      /\ \A n \in Refusing' : n = HereId \/ n \in Refusing
      /\ \A n \in Refusing : n = HereId \/ n \in Refusing'
      /\ \A n \in current : n # HereId => outputs'[n] = outputs[n]
  BY OthersStand DEF JudgeNodes
<1>2. AnchorsStand /\ RefusalsGrounded
  BY DEF JudgedInv, Standing
<1>3. "escalation" \notin Refusing /\ HereId # "implement"
  BY DEF Refusing
<1>4. AnchorsStand'
  BY <1>1, <1>2, <1>3 DEF AnchorsStand
<1>5. RefusalsGrounded'
  BY <1>1, <1>2 DEF RefusalsGrounded
<1> QED BY <1>4, <1>5

LEMMA ImplementingKeeps ==
  ASSUME PhasesAnswer, JudgesAreWork, Inv, RouteInv, status = None, JudgedInv, Implementing
  PROVE  JudgedInv'
<1>1. PICK r \in ImplementResults :
        \/ /\ r.raises /\ Raise
           /\ UNCHANGED <<log, directive, entered, grounds>>
        \/ /\ ~r.raises /\ Answer(r.output)
           /\ entered' = r.entered
           /\ grounds' = {Ground("implement", w) : w \in r.why}
           /\ UNCHANGED <<log, directive>>
  BY DEF Implementing
<1>2. CASE Raise /\ UNCHANGED <<log, directive, entered, grounds>>
  BY <1>2, WalkingKeeps DEF Walking, adapter
<1>3. CASE /\ ~r.raises /\ Answer(r.output)
           /\ entered' = r.entered
           /\ grounds' = {Ground("implement", w) : w \in r.why}
           /\ UNCHANGED <<log, directive>>
  <2>1. HereId = "implement" /\ Complete /\ outputs'["implement"] = r.output
    BY <1>3 DEF Implementing, Answer
  <2>2. /\ HereId \in Nodes /\ UNCHANGED workflow
        /\ current' = {"implement"} /\ heard' = FALSE
    BY <2>1, Spoken
  <2>3. /\ r.output \notin Green => r.why # {}
        /\ "anchor" \notin r.why /\ r.entered \in BOOLEAN
    BY <1>3, ImplementWhy
  <2>4. \A w : Ground("implement", w).who = "implement" /\ Ground("implement", w).why = w
    BY DEF Ground
  <2>5. Refusing' \subseteq {"implement"}
    BY <2>2 DEF Refusing
  <2>6. AnchorsStand'
    BY <1>3, <2>3, <2>4 DEF AnchorsStand
  <2>7. RefusalsGrounded'
    BY <1>3, <2>1, <2>3, <2>4, <2>5 DEF RefusalsGrounded
  <2>8. RefusalsLogged'
    BY <2>2, <2>5 DEF RefusalsLogged
  <2>9. current' \subseteq Nodes' /\ "implement" \in current'
    BY <2>1, <2>2 DEF Nodes, Graph
  <2>10. log' \in Seq(LogEntries) /\ entered' \in BOOLEAN
    BY <1>3, <2>3 DEF JudgedInv
  <2> QED BY <2>6, <2>7, <2>8, <2>9, <2>10 DEF JudgedInv, Standing
<1> QED BY <1>1, <1>2, <1>3

LEMMA CheckingBlockedKeeps ==
  ASSUME PhasesAnswer, JudgesAreWork, RouteInv, status = None, JudgedInv, Route!HeardInTurn,
         AtWork, CheckingBlocked
  PROVE  JudgedInv'
<1> DEFINE entry == Entry({Refusal("blocked_check")}, FALSE)
<1>1. /\ HereId = "blocked_check" /\ Complete
      /\ log' = IF outputs'["blocked_check"] = "failed" THEN LogFailure(entry) ELSE log
      /\ UNCHANGED <<entered, grounds>>
  BY DEF CheckingBlocked
<1>2. HereId \in JudgeNodes \ {"implement", "domain_review"}
  BY <1>1 DEF JudgeNodes
<1>3. /\ current' = current \cup {HereId} /\ draft' = draft
      /\ current' \subseteq Nodes' /\ (current' # {} => "implement" \in current')
      /\ \A n \in Refusing' : n = HereId \/ n \in Refusing
  BY <1>1, <1>2, OthersStand
<1>4. heard' = heard /\ iteration \in Nat /\ draft \in Nat
  BY <1>1, Spoken
<1>5. /\ "escalation" \notin current
      /\ Refusing \subseteq {"blocked_check"} \cup (IF heard THEN {} ELSE {"implement"})
  BY <1>1, Turns
<1>6. AnchorsStand' /\ RefusalsGrounded'
  BY <1>1, OwnGroundsStand
<1>7. log \in Seq(LogEntries) /\ entered' \in BOOLEAN
  BY <1>1 DEF JudgedInv
<1>8. entry \in LogEntries /\ entry.causes = {Refusal("blocked_check")}
  BY <1>2, <1>1, <1>4, EntryOK
<1> HIDE DEF entry
<1>9. log' \in Seq(LogEntries)
  BY <1>1, <1>7, <1>8, LogFailureAdds
<1>10. ASSUME "blocked_check" \in Refusing'
       PROVE  IsTold("blocked_check")'
  <2>1. outputs'["blocked_check"] = "failed"
    BY <1>10 DEF Refusing
  <2>2. log' # <<>> /\ Refusal("blocked_check") \in Last(log').causes
    BY <1>1, <1>7, <1>8, <2>1, LogFailureAdds
  <2> QED BY <1>3, <2>2, SaidIsTold
<1>11. RefusalsLogged'
  BY <1>1, <1>3, <1>4, <1>5, <1>10 DEF RefusalsLogged
<1> QED BY <1>3, <1>6, <1>7, <1>9, <1>11 DEF JudgedInv, Standing

(* The peers are asked of a green answer, which a critical concern reddens.*)
LEMMA DomainReviewingKeeps ==
  ASSUME PhasesAnswer, JudgesAreWork, KindsAreRead(Dissents), RouteInv, status = None, JudgedInv,
         Route!HeardInTurn, AtWork, DomainReviewing
  PROVE  JudgedInv'
<1>1. PICK r \in DomainResults :
        /\ Complete
        /\ outputs'["implement"] = IF r.critical THEN RedOf(outputs["implement"])
                                   ELSE outputs["implement"]
        /\ Hears(r.why)
  BY DEF DomainReviewing
<1>2. HereId = "domain_review" /\ UNCHANGED <<log, directive, entered>>
  BY DEF DomainReviewing
<1>3. /\ "implement" \in current /\ draft # 0
  BY <1>2, Turns DEF JudgeNodes
<1>4. /\ HereId \in Nodes /\ Standing /\ UNCHANGED <<workflow, iterations>>
      /\ draft' = draft /\ current' = current \cup {"domain_review"} /\ heard' = FALSE
      /\ \A n \in Nodes : n # HereId /\ n # "implement" => outputs'[n] = outputs[n]
  BY <1>1, <1>2, <1>3, Spoken
<1>5. outputs["implement"] \in Green
  <2>1. Here = Graphs[workflow].node["domain_review"] /\ workflow \in DOMAIN Graphs
        /\ "domain_review" \in Ids(Graphs[workflow])
    BY <1>2, <1>4 DEF Here, HereId, Graph, Nodes, RouteInv, WalkOK
  <2>2. Here.when = Test("implement", Green)
    BY <2>1 DEF JudgesAreWork, JudgeNodes
  <2>3. Here.when # NoTest => Holds(Here.when)
    BY DEF AtWork, Wanting
  <2>4. Here.when.reads = "implement" /\ Here.when.holds = Green /\ NoTest.reads = "none"
    BY <2>2 DEF Test, NoTest, None
  <2> QED BY <2>3, <2>4 DEF Holds
<1>6. /\ r.critical \in BOOLEAN /\ r.critical => r.why # {}
      /\ "anchor" \in r.why => r.critical
  BY DomainWhy
<1>7. /\ r.critical => outputs'["implement"] \in {"red", "red undone"}
      /\ outputs'["implement"] \notin Green => r.critical
  BY <1>1, <1>5, <1>6 DEF Green, RedOf
<1>8. "implement" \in Refusing' <=> outputs'["implement"] \in {"red", "red undone"}
  BY <1>3, <1>4 DEF Refusing
<1>9. "implement" \notin Refusing /\ "domain_review" \notin Refusing
      /\ "domain_review" \notin Refusing'
  BY <1>5 DEF Refusing, Green
<1>10. current \subseteq Nodes
  BY <1>4 DEF Standing
<1>11. \A n : n \notin {"implement", "domain_review"} => (n \in Refusing' <=> n \in Refusing)
  <2> SUFFICES ASSUME NEW n, n \notin {"implement", "domain_review"}
               PROVE  n \in Refusing' <=> n \in Refusing
    OBVIOUS
  <2> QED BY <1>2, <1>4, <1>10, SameRefusal
<1>12. grounds' = {g \in grounds : g.who # "domain_review"}
                    \cup {Ground("domain_review", w) : w \in r.why}
  BY <1>1, <1>2 DEF Hears
<1>13. \A w : Ground("domain_review", w).who = "domain_review"
              /\ Ground("domain_review", w).why = w
  BY DEF Ground
<1>14. AnchorsStand'
  <2> SUFFICES ASSUME NEW g \in grounds', g.why = "anchor"
      PROVE  \/ g.who = "domain_review" /\ g.who \in current' /\ "implement" \in Refusing'
             \/ g.who \in Refusing' \ {"implement", "blocked_check"}
             \/ g.who = "independent_check" /\ g.who \in current' /\ outputs'[g.who] = "veto"
    BY DEF AnchorsStand
  <2>1. CASE g.who = "domain_review"
    <3>1. "anchor" \in r.why
      BY <1>12, <1>13, <2>1
    <3> QED BY <1>4, <1>6, <1>7, <1>8, <2>1, <3>1
  <2>2. CASE g.who # "domain_review"
    <3>1. g \in grounds
      BY <1>12, <1>13, <2>2
    <3>2. \/ g.who \in Refusing \ {"implement", "blocked_check"}
          \/ g.who = "independent_check" /\ g.who \in current /\ outputs[g.who] = "veto"
      BY <1>4, <2>2, <3>1 DEF Standing, AnchorsStand
    <3> QED BY <1>2, <1>4, <1>9, <1>10, <1>11, <3>2
  <2> QED BY <2>1, <2>2
<1>15. RefusalsGrounded'
  <2>1. outputs'["implement"] \notin Green => \E g \in grounds' : g.who = "domain_review"
    BY <1>6, <1>7, <1>12, <1>13
  <2>2. ASSUME NEW n \in Refusing' \cap {"validate", "review", "rework_review"}
        PROVE  \E g \in grounds' : g.who = n
    <3>1. \E g \in grounds : g.who = n
      BY <1>4, <1>11, <2>2 DEF Standing, RefusalsGrounded
    <3> QED BY <1>12, <2>2, <3>1
  <2> QED BY <2>1, <2>2 DEF RefusalsGrounded
<1>16. RefusalsLogged'
  <2>1. \A n \in Refusing' : n = "implement" \/ (n \in Refusing /\ n # "implement")
    BY <1>9, <1>11
  <2>2. \A n : IsTold(n)' <=> IsTold(n)
    BY <1>2, <1>4 DEF IsTold, Told
  <2>3. "escalation" \in current' <=> "escalation" \in current
    BY <1>4
  <2> QED BY <1>2, <1>4, <2>1, <2>2, <2>3 DEF Standing, RefusalsLogged
<1>17. current' \subseteq Nodes' /\ "implement" \in current'
  BY <1>2, <1>3, <1>4, <1>10 DEF Nodes, Graph
<1>18. log' \in Seq(LogEntries) /\ entered' \in BOOLEAN
  BY <1>2 DEF JudgedInv
<1> QED BY <1>14, <1>15, <1>16, <1>17, <1>18 DEF JudgedInv, Standing


LEMMA ValidatingKeeps ==
  ASSUME PhasesAnswer, JudgesAreWork, KindsAreRead(Dissents), RouteInv, status = None, JudgedInv,
         Route!HeardInTurn, AtWork, Validating
  PROVE  JudgedInv'
<1>1. PICK r \in ValidateResults, missed \in BOOLEAN :
        /\ Answer(r.output)
        /\ Hears(r.why)
        /\ log' = IF ValidateRefusals(r.output) # {} \/ missed
                  THEN LogFailure(Entry(ValidateRefusals(r.output), entered)) ELSE log
  BY DEF Validating
<1> DEFINE refusals == ValidateRefusals(r.output)
           entry == Entry(refusals, entered)
<1>2. /\ HereId = "validate" /\ UNCHANGED <<directive, entered>>
      /\ Complete /\ outputs'["validate"] = r.output
  BY <1>1 DEF Validating, Answer
<1>3. HereId \in JudgeNodes \ {"implement", "domain_review"}
  BY <1>2 DEF JudgeNodes
<1>4. /\ current' = current \cup {HereId} /\ draft' = draft /\ "implement" \in current
      /\ current' \subseteq Nodes' /\ (current' # {} => "implement" \in current')
      /\ \A n \in Refusing' : n = HereId \/ n \in Refusing
      /\ \A n \in current : n # HereId => outputs'[n] = outputs[n]
  BY <1>2, <1>3, OthersStand
<1>5. /\ heard' = TRUE /\ Last(iterations').iteration = iteration
      /\ iteration \in Nat /\ draft \in Nat
  BY <1>2, Spoken
<1>6. "escalation" \notin current /\ Refusing \subseteq {"implement", "validate"}
  BY <1>2, Turns
<1>7. /\ r.output \in {"green", "red"} /\ r.output = "red" => r.why # {}
      /\ "anchor" \in r.why => r.output = "red"
  BY ValidateWhy
<1>8. "validate" \in Refusing' <=> r.output = "red"
  BY <1>2, <1>4 DEF Refusing
<1>9. AnchorsStand' /\ RefusalsGrounded'
  BY <1>1, <1>2, <1>3, <1>7, <1>8, GroundsStand
<1>10. log \in Seq(LogEntries) /\ entered \in BOOLEAN
  BY DEF JudgedInv
<1>11. \A c \in refusals : \E n \in JudgeNodes : c = Refusal(n)
  BY DEF ValidateRefusals, JudgeNodes
<1>12. /\ entry \in LogEntries /\ entry.iteration = iteration /\ entry.causes = refusals
  BY <1>5, <1>10, <1>11, EntryOK
<1>13. "implement" \in Refusing' => Refusal("implement") \in refusals
  BY <1>2, <1>4 DEF Refusing, ValidateRefusals, Green
<1>14. "validate" \in Refusing' => Refusal("validate") \in refusals
  BY <1>8 DEF ValidateRefusals
<1>15. log' = IF refusals # {} \/ missed THEN LogFailure(entry) ELSE log
  BY <1>1
<1> HIDE DEF refusals, entry
<1>16. log' \in Seq(LogEntries)
  BY <1>10, <1>12, <1>15, LogFailureAdds
<1>17. Refusing' \subseteq {"implement", "validate"}
  BY <1>2, <1>4, <1>6
<1>18. refusals # {} => /\ log' # <<>> /\ Last(log').iteration = iteration
                        /\ refusals \subseteq Last(log').causes
  BY <1>10, <1>12, <1>15, LogFailureAdds
<1>19. \A n \in Refusing' : IsTold(n)'
  <2> SUFFICES ASSUME NEW n \in Refusing' PROVE IsTold(n)'
    OBVIOUS
  <2>1. Refusal(n) \in refusals
    BY <1>13, <1>14, <1>17
  <2>2. log' # <<>> /\ Refusal(n) \in Last(log').causes
    BY <1>18, <2>1
  <2> QED BY <1>4, <2>2, SaidIsTold
<1>20. Refusing' # {} => refusals # {}
  BY <1>13, <1>14, <1>17
<1>21. RefusalsLogged'
  BY <1>2, <1>4, <1>5, <1>6, <1>18, <1>19, <1>20 DEF RefusalsLogged
<1> QED BY <1>2, <1>4, <1>9, <1>10, <1>16, <1>21 DEF JudgedInv, Standing

(* A review holds what every judge of its iteration has let through, a     *)
(* rework's what some have not: its entry is folded into theirs.           *)
LEMMA ReviewingKeeps ==
  ASSUME PhasesAnswer, JudgesAreWork, KindsAreRead(Dissents), RouteInv, status = None, JudgedInv,
         Route!HeardInTurn, AtWork, Reviewing
  PROVE  JudgedInv'
<1> DEFINE entry == Entry({Refusal(HereId)}, FALSE)
<1>1. PICK r \in ReviewResults :
        /\ Answer(r.output)
        /\ Hears(r.why)
        /\ log' = IF r.output = "hold" THEN LogFailure(entry) ELSE log
  BY DEF Reviewing
<1>2. /\ HereId \in {"review", "rework_review"} /\ UNCHANGED <<directive, entered>>
      /\ Complete /\ outputs'[HereId] = r.output
  BY <1>1 DEF Reviewing, Answer
<1>3. HereId \in JudgeNodes \ {"implement", "domain_review"}
  BY <1>2 DEF JudgeNodes
<1>4. /\ current' = current \cup {HereId} /\ draft' = draft
      /\ current' \subseteq Nodes' /\ (current' # {} => "implement" \in current')
      /\ \A n \in Refusing' : n = HereId \/ n \in Refusing
  BY <1>2, <1>3, OthersStand
<1>5. /\ heard' = heard /\ iterations' = iterations
      /\ iteration \in Nat /\ draft \in Nat
  BY <1>2, Spoken
<1>6. /\ "escalation" \notin current
      /\ HereId = "review" => Refusing \subseteq {"review"}
      /\ HereId = "rework_review" =>
           /\ heard /\ Last(iterations).iteration = iteration
           /\ Refusing \subseteq {"implement", "validate", "rework_review"}
  BY <1>2, Turns
<1>7. /\ r.output \in {"ship", "hold"} /\ r.output = "hold" => r.why # {}
      /\ "anchor" \in r.why => r.output = "hold"
  BY ReviewWhy
<1>8. HereId \in Refusing' <=> r.output = "hold"
  BY <1>2, <1>4 DEF Refusing
<1>9. AnchorsStand' /\ RefusalsGrounded'
  BY <1>1, <1>2, <1>3, <1>7, <1>8, GroundsStand
<1>10. log \in Seq(LogEntries) /\ entered \in BOOLEAN /\ RefusalsLogged
  BY DEF JudgedInv, Standing
<1>11. /\ entry \in LogEntries /\ entry.iteration = iteration /\ entry.causes = {Refusal(HereId)}
  BY <1>3, <1>5, EntryOK
<1> HIDE DEF entry
<1>12. log' \in Seq(LogEntries)
  BY <1>1, <1>10, <1>11, LogFailureAdds
<1>13. r.output = "hold" =>
         /\ log' # <<>> /\ Last(log').iteration = iteration /\ Refusal(HereId) \in Last(log').causes
         /\ log # <<>> /\ Last(log).iteration = iteration => Last(log).causes \subseteq Last(log').causes
  BY <1>1, <1>10, <1>11, LogFailureAdds
<1>14. ASSUME NEW n \in Refusing', n = HereId
       PROVE  IsTold(n)'
  <2>1. log' # <<>> /\ Refusal(n) \in Last(log').causes
    BY <1>8, <1>13, <1>14
  <2> QED BY <1>4, <2>1, SaidIsTold
<1>15. "escalation" \notin current'
  BY <1>2, <1>4, <1>6
<1>16. ASSUME HereId = "review" PROVE RefusalsLogged'
  <2>1. Refusing' \cap {"implement", "validate"} = {}
    BY <1>4, <1>6, <1>16
  <2>2. \A n \in Refusing' : IsTold(n)'
    BY <1>4, <1>6, <1>14, <1>16
  <2> QED BY <1>15, <2>1, <2>2 DEF RefusalsLogged
<1>17. ASSUME HereId = "rework_review" PROVE RefusalsLogged'
  <2>1. /\ \A n \in Refusing : IsTold(n)
        /\ Refusing \cap {"implement", "validate"} # {} =>
             log # <<>> /\ Last(log).iteration = iteration
    BY <1>6, <1>10, <1>17 DEF RefusalsLogged
  <2>2. ASSUME NEW n \in Refusing', n # HereId
        PROVE  /\ IsTold(n)' /\ log' # <<>> /\ Last(log').iteration = iteration
    <3>1. n \in Refusing /\ n \in {"implement", "validate"}
      BY <1>4, <1>6, <1>17, <2>2
    <3>2. /\ IsTold(n) /\ log # <<>> /\ Last(log).iteration = iteration
      BY <2>1, <3>1
    <3>3. /\ log' # <<>> /\ Last(log').iteration = iteration
          /\ Last(log).causes \subseteq Last(log').causes
      BY <1>1, <1>7, <1>13, <3>2
    <3> QED BY <1>4, <3>2, <3>3 DEF IsTold, Told
  <2>3. \A n \in Refusing' : IsTold(n)'
    BY <1>14, <2>2
  <2>4. Refusing' \cap {"implement", "validate"} # {} =>
          log' # <<>> /\ Last(log').iteration = Last(iterations').iteration
    BY <1>5, <1>6, <1>17, <2>2
  <2> QED BY <1>15, <2>3, <2>4 DEF RefusalsLogged
<1> QED BY <1>2, <1>4, <1>9, <1>10, <1>12, <1>16, <1>17 DEF JudgedInv, Standing

LEMMA CheckingKeeps ==
  ASSUME PhasesAnswer, JudgesAreWork, KindsAreRead(Dissents), RouteInv, status = None, JudgedInv,
         Route!HeardInTurn, AtWork, Checking
  PROVE  JudgedInv'
<1>1. PICK r \in IndependentResults : Answer(r.output) /\ Hears(r.why)
  BY DEF Checking
<1>2. /\ HereId = "independent_check" /\ UNCHANGED <<log, directive, entered>>
      /\ Complete /\ outputs'["independent_check"] = r.output
  BY <1>1 DEF Checking, Answer
<1>3. HereId \in JudgeNodes \ {"implement", "domain_review"}
  BY <1>2 DEF JudgeNodes
<1>4. /\ current' = current \cup {HereId} /\ draft' = draft
      /\ current' \subseteq Nodes' /\ (current' # {} => "implement" \in current')
      /\ \A n \in Refusing' : n = HereId \/ n \in Refusing
  BY <1>2, <1>3, OthersStand
<1>5. heard' = heard /\ iterations' = iterations
  BY <1>2, Spoken
<1>6. "anchor" \in r.why => r.output = "veto"
  BY IndependentWhy
<1>7. AnchorsStand' /\ RefusalsGrounded'
  BY <1>1, <1>2, <1>3, <1>6, GroundsStand
<1>8. log' \in Seq(LogEntries) /\ entered' \in BOOLEAN
  BY <1>2 DEF JudgedInv
<1>9. \A n \in Refusing' : n \in Refusing
  BY <1>2, <1>4 DEF Refusing
<1>10. \A n : IsTold(n)' <=> IsTold(n)
  BY <1>2, <1>4 DEF IsTold, Told
<1>11. "escalation" \in current' <=> "escalation" \in current
  BY <1>2, <1>4
<1>12. RefusalsLogged'
  BY <1>2, <1>4, <1>5, <1>9, <1>10, <1>11 DEF JudgedInv, Standing, RefusalsLogged
<1> QED BY <1>4, <1>7, <1>8, <1>12 DEF JudgedInv, Standing

LEMMA EscalatingKeeps ==
  ASSUME PhasesAnswer, JudgesAreWork, Inv, RouteInv, status = None, JudgedInv,
         Route!HeardInTurn, AtWork, Escalating
  PROVE  JudgedInv'
<1>1. HereId = "escalation" /\ UNCHANGED <<entered, grounds>>
  BY DEF Escalating
<1>2. CASE Raise /\ UNCHANGED <<log, directive>>
  BY <1>1, <1>2, WalkingKeeps DEF Walking, adapter
<1>3. CASE Complete /\ directive' = draft /\ log' = <<>>
  <2>1. HereId \in JudgeNodes \ {"implement", "domain_review"}
    BY <1>1 DEF JudgeNodes
  <2>2. /\ current' = current \cup {HereId} /\ draft' = draft
        /\ current' \subseteq Nodes' /\ (current' # {} => "implement" \in current')
    BY <1>3, <2>1, OthersStand
  <2>3. AnchorsStand' /\ RefusalsGrounded'
    BY <1>1, <1>3, OwnGroundsStand
  <2>4. log' \in Seq(LogEntries) /\ entered' \in BOOLEAN
    BY <1>1, <1>3 DEF JudgedInv
  <2>5. RefusalsLogged'
    BY <1>1, <1>3, <2>2 DEF RefusalsLogged
  <2> QED BY <2>2, <2>3, <2>4, <2>5 DEF JudgedInv, Standing
<1> QED BY <1>2, <1>3 DEF Escalating


-----------------------------------------------------------------------------
(* The whole of it, kept by every step of a judged run. *)

LEMMA JudgedStart == JudgedInit => JudgedInv
<1> SUFFICES ASSUME JudgedInit PROVE JudgedInv
  OBVIOUS
<1>1. current = {} /\ heard = FALSE /\ log = <<>> /\ grounds = {} /\ entered = FALSE
  BY DEF JudgedInit, Init
<1>2. Refusing = {}
  BY <1>1 DEF Refusing
<1>3. AnchorsStand /\ RefusalsGrounded /\ RefusalsLogged
  BY <1>1, <1>2 DEF AnchorsStand, RefusalsGrounded, RefusalsLogged
<1>4. log \in Seq(LogEntries)
  BY <1>1
<1> QED BY <1>1, <1>3, <1>4 DEF JudgedInv, Standing

LEMMA JudgedStep ==
  ASSUME PhasesAnswer, JudgesAreWork, KindsAreRead(Dissents)
  PROVE  Inv /\ RouteInv /\ Route!HeardInTurn /\ JudgedInv /\ [JudgedNext]_<<vars, adapter>>
           => JudgedInv'
<1> SUFFICES ASSUME Inv, RouteInv, Route!HeardInTurn, JudgedInv, [JudgedNext]_<<vars, adapter>>
             PROVE  JudgedInv'
  OBVIOUS
<1>1. CASE UNCHANGED <<vars, adapter>>
  <2>1. status # None => JudgedInv'
    BY <1>1 DEF JudgedInv, vars, record, adapter
  <2>2. status = None => Aside
    BY <1>1 DEF vars, work, Aside, JudgedInv, Standing
  <2> QED BY <2>1, <2>2, AsideKeeps
<1>2. AtWork => status = None
  BY UnderWay DEF AtWork, Wanting, AtNode
<1>3. CASE Judging
  <2>1. AtWork /\ status = None
    BY <1>2, <1>3 DEF Judging
  <2> QED BY <1>3, <2>1, ImplementingKeeps, CheckingBlockedKeeps, DomainReviewingKeeps,
             ValidatingKeeps, ReviewingKeeps, CheckingKeeps, EscalatingKeeps DEF Judging
<1>4. CASE OtherWork /\ UNCHANGED adapter
  <2>1. status = None
    BY <1>2, <1>4 DEF OtherWork
  <2> QED BY <1>4, <2>1, OtherWorkKeeps
<1>5. CASE Walking /\ UNCHANGED adapter
  BY <1>5, WalkingKeeps
<1> QED BY <1>1, <1>3, <1>4, <1>5 DEF JudgedNext

LEMMA JudgedKept ==
  ASSUME PhasesAnswer, JudgesAreWork, KindsAreRead(Dissents), Route!Spec => []Route!HeardInTurn
  PROVE  JudgedSpec => []JudgedInv
  BY PhasesOfNodes, JudgedSteps, StepsRoute, JudgedStart, JudgedStep, PTL DEF JudgedSpec

(* What a revision, or the autopsy, is told, where the routes have them.   *)
LEMMA Informed ==
  ASSUME JudgesAreWork
  PROVE  Inv /\ RouteInv /\ JudgedInv /\ Route!HeardInTurn /\ Route!RevisedOnRefusal
           => ToldWhy /\ RevisionHasGround
<1> SUFFICES ASSUME Inv, RouteInv, JudgedInv, Route!HeardInTurn, Route!RevisedOnRefusal,
                    Revising \/ Autopsy
             PROVE  /\ \/ Refusing \subseteq {c.who : c \in {c \in Told : c.draft = draft}}
                       \/ Revising /\ log = <<>> /\ directive = draft
                    /\ Revising => grounds # {}
  BY DEF ToldWhy, RevisionHasGround
<1>1. AtWork /\ AtNode /\ status = None
  BY UnderWay DEF Revising, Autopsy, AtWork, Wanting, AtNode
<1>2. Standing /\ heard \in BOOLEAN /\ (draft = 0 <=> current = {})
  BY <1>1 DEF JudgedInv, RouteInv, WalkOK
<1>3. RouteOutputs = outputs /\ RouteCurrent = current /\ RouteHeard = heard
  BY <1>1, <1>2, OpenMaps
<1>4. Route!Refusing = Refusing
  BY <1>3 DEF Route!Refusing, Refusing
<1>5. Route!AtWork /\ Route!HereId = HereId
  BY <1>1, NodeMaps, GuardsMap
<1>6. Revising => /\ current # {}
                  /\ outputs["implement"] \notin Green \/ Refusing \ {"blocked_check"} # {}
                  /\ "implement" \in Refusing => heard \/ "escalation" \in current
  <2> SUFFICES ASSUME Revising
               PROVE  /\ current # {}
                      /\ outputs["implement"] \notin Green \/ Refusing \ {"blocked_check"} # {}
                      /\ "implement" \in Refusing => heard \/ "escalation" \in current
    OBVIOUS
  <2>1. current # {} /\ Route!Asked("implement")
    BY <1>2, <1>5 DEF Revising, Route!Asked
  <2>2. /\ outputs["implement"] \notin {"green", "green undone"}
             \/ Refusing \ {"blocked_check"} # {}
        /\ "implement" \in Refusing => heard \/ "escalation" \in current
    BY <1>3, <1>4, <2>1 DEF Route!RevisedOnRefusal
  <2> QED BY <2>1, <2>2 DEF Green
<1>7. Autopsy => "escalation" \notin current /\ ("implement" \in Refusing => heard)
  BY <1>1, Turns DEF Autopsy
<1>8. Revising => grounds # {}
  <2> SUFFICES ASSUME Revising PROVE \E g : g \in grounds
    OBVIOUS
  <2>1. "implement" \in current /\ RefusalsGrounded
    BY <1>2, <1>6 DEF Standing
  <2>2. CASE outputs["implement"] \notin Green
    BY <2>1, <2>2 DEF RefusalsGrounded
  <2>3. CASE outputs["implement"] \in Green
    <3>1. PICK n \in Refusing : n # "blocked_check"
      BY <1>6, <2>3
    <3>2. n \in {"validate", "review", "rework_review"}
      BY <2>3, <3>1 DEF Refusing, Green
    <3> QED BY <2>1, <3>1, <3>2 DEF RefusalsGrounded
  <2> QED BY <2>2, <2>3
<1>9. CASE "escalation" \in current
  <2>1. Revising /\ log = <<>> /\ directive = draft
    BY <1>2, <1>7, <1>9 DEF Standing, RefusalsLogged
  <2> QED BY <1>8, <2>1
<1>10. CASE "escalation" \notin current
  <2>1. \A n \in Refusing : IsTold(n)
    BY <1>2, <1>6, <1>7, <1>10 DEF Standing, RefusalsLogged
  <2>2. Refusing \subseteq {c.who : c \in {c \in Told : c.draft = draft}}
    BY <2>1 DEF IsTold
  <2> QED BY <1>8, <2>2
<1> QED BY <1>9, <1>10

LEMMA ToldHold ==
  ASSUME PhasesAnswer, JudgesAreWork, KindsAreRead(Dissents), Route!Spec => []Route!HeardInTurn,
         Route!Spec => []Route!RevisedOnRefusal
  PROVE  JudgedSpec => [](ToldWhy /\ RevisionHasGround)
  BY PhasesOfNodes, JudgedSteps, StepsRoute, JudgedKept, Informed, PTL

(* A revision, and the autopsy, are told of every refusal of the draft     *)
(* before them, whatever the judges say and whatever the budgets, when the *)
(* routes ask the judges in turn (the run routes goes through them all).   *)
THEOREM SpecToldWhy ==
  ASSUME PhasesAnswer, JudgesAreWork, KindsAreRead(Dissents), Route!Spec => []Route!HeardInTurn,
         Route!Spec => []Route!RevisedOnRefusal
  PROVE  JudgedSpec => []ToldWhy
  BY ToldHold, PTL

(* No revision is paid for without the ground of a refusal, nor for an     *)
(* objection whose words were not found.                                   *)
THEOREM SpecRevisionHasGround ==
  ASSUME PhasesAnswer, JudgesAreWork, KindsAreRead(Dissents), Route!Spec => []Route!HeardInTurn,
         Route!Spec => []Route!RevisedOnRefusal
  PROVE  JudgedSpec => []RevisionHasGround
  BY ToldHold, PTL

LEMMA DeliveredStep ==
  ASSUME CompletesAtTheEnd, JudgesAreWork
  PROVE  Inv /\ RouteInv /\ JudgedInv /\ Route!FinalIsUncontested /\ NoObjectionDelivered
           /\ [JudgedNext]_<<vars, adapter>> => NoObjectionDelivered'
<1> SUFFICES ASSUME Inv, RouteInv, JudgedInv, Route!FinalIsUncontested, NoObjectionDelivered,
                    [JudgedNext]_<<vars, adapter>>, status' = "completed"
             PROVE  \A g \in grounds' : g.why # "anchor"
  BY DEF NoObjectionDelivered
<1>1. [Next]_vars
  BY JudgedNextIsNext
<1>2. ~Judging
  <2> SUFFICES ASSUME Judging PROVE FALSE
    OBVIOUS
  <2>1. AtWork /\ (Complete \/ Raise)
    BY DEF Judging, Implementing, CheckingBlocked, DomainReviewing, Validating, Reviewing,
           Checking, Escalating, Answer
  <2>2. status = None
    BY <2>1, UnderWay DEF AtWork, Wanting, AtNode
  <2>3. UNCHANGED status
    BY <2>1 DEF Complete, Raise, record
  <2> QED BY <2>2, <2>3 DEF None
<1>3. grounds' = grounds
  BY <1>2 DEF JudgedNext, adapter
<1>4. CASE status = "completed"
  BY <1>3, <1>4 DEF NoObjectionDelivered
<1>5. CASE /\ FinishCompleted /\ status = None /\ UNCHANGED <<workflow, work>>
           /\ RouteAt = Route!Final /\ RouteOutputs = outputs /\ RouteCurrent = current
  <2>1. "review" \in Requires[workflow]
    BY DEF JudgesAreWork, RouteInv, WalkOK
  <2>2. Route!Refusing = Refusing
    BY <1>5 DEF Route!Refusing, Refusing
  <2>3. /\ Refusing = {}
        /\ "independent_check" \in current => outputs["independent_check"] # "veto"
    BY <1>5, <2>1, <2>2 DEF Route!FinalIsUncontested
  <2>4. AnchorsStand
    BY <1>5 DEF JudgedInv, Standing
  <2> QED BY <1>3, <2>3, <2>4 DEF AnchorsStand
<1> QED BY <1>1, <1>4, <1>5, CompletesOnce

LEMMA DeliveredStart == JudgedInit => NoObjectionDelivered
  BY DEF JudgedInit, NoObjectionDelivered

(* Nothing is delivered over an objection anchored in it: the routes come  *)
(* to the end only with an answer no judge refuses, and one that has       *)
(* anchored an objection refuses it till it speaks again.                  *)
THEOREM SpecNoObjectionDelivered ==
  ASSUME PhasesAnswer, JudgesAreWork, KindsAreRead(Dissents), CompletesAtTheEnd,
         Route!Spec => []Route!HeardInTurn, Route!Spec => []Route!FinalIsUncontested
  PROVE  JudgedSpec => []NoObjectionDelivered
  BY PhasesOfNodes, JudgedSteps, StepsRoute, JudgedKept, DeliveredStart, DeliveredStep, PTL
     DEF JudgedSpec


-----------------------------------------------------------------------------
(* The replies and the graph-level answers. *)

LEMMA AnswersRange ==
  ASSUME NEW n, n # "domain_review", n \in DOMAIN outputs
  PROVE  {o[n] : o \in PhaseOutcomes(n, outputs)} = Answers(n, outputs)
<1>1. PhaseOutcomes(n, outputs) = {[outputs EXCEPT ![n] = a] : a \in Answers(n, outputs)}
  BY DEF PhaseOutcomes
<1>2. \A a : [outputs EXCEPT ![n] = a][n] = a
  OBVIOUS
<1>3. ASSUME NEW o \in PhaseOutcomes(n, outputs) PROVE o[n] \in Answers(n, outputs)
  BY <1>1, <1>2
<1>4. ASSUME NEW a \in Answers(n, outputs)
      PROVE  \E o \in PhaseOutcomes(n, outputs) : o[n] = a
  <2>1. [outputs EXCEPT ![n] = a] \in PhaseOutcomes(n, outputs)
    BY <1>1
  <2> QED BY <1>2, <2>1
<1> QED BY <1>3, <1>4

LEMMA Nothing == ASSUME NEW S PROVE <<>> \in Seq(S) /\ Len(<<>>) \in 0 .. 2
  OBVIOUS

LEMMA Single == ASSUME NEW S, NEW a \in S PROVE <<a>> \in Seq(S) /\ Len(<<a>>) \in 0 .. 2
  OBVIOUS

LEMMA AsFunction == ASSUME NEW S, NEW s \in Seq(S) PROVE s \in [1 .. Len(s) -> S]
  OBVIOUS

LEMMA BlockedReplies ==
  ASSUME NEW blocked \in Seq(Entries), Len(blocked) \in 0 .. 2,
         NEW green \in GreenSaid, NEW cause \in BOOLEAN, NEW substance \in BOOLEAN,
         NEW done \in BOOLEAN, green = "false" => cause
  PROVE  [green |-> green, cause |-> cause, substance |-> substance, done |-> done,
          blocked |-> blocked] \in ImplementReply
<1>1. blocked \in [1 .. Len(blocked) -> Entries]
  BY AsFunction
<1>2. BoundedSeq(Entries, 2) = UNION {[1 .. k -> Entries] : k \in 0 .. 2}
  BY DEF BoundedSeq, SeqOf
<1>3. blocked \in BoundedSeq(Entries, 2)
  BY <1>1, <1>2
<1> QED BY <1>3 DEF ImplementReply, WellFormed

LEMMA SomeBlocked ==
  /\ <<>> \in Seq(Entries) /\ Len(<<>>) \in 0 .. 2
  /\ <<"ask">> \in Seq(Entries) /\ Len(<<"ask">>) \in 0 .. 2
  /\ <<"stray ask">> \in Seq(Entries) /\ Len(<<"stray ask">>) \in 0 .. 2
<1>1. "ask" \in Entries /\ "stray ask" \in Entries
  BY DEF Entries
<1> QED BY <1>1, Nothing, Single, Zenon

LEMMA ImplementRange ==
  {r.output : r \in {r \in ImplementResults : ~r.raises}} = Green \cup {"red", "red undone", "unmet"}
<1> DEFINE Of(s) == [raises |-> ImplementRaises(s), output |-> ImplementOutput(s),
                     entered |-> s.blocked # <<>>,
                     why |-> IF ToSet(s.blocked) \ {"why only"} # {} THEN {"ask"} ELSE {}]
           Reply(green, cause, done, blocked) ==
             [green |-> green, cause |-> cause, substance |-> TRUE, done |-> done,
              blocked |-> blocked]
<1>1. ImplementResults = {Of(s) : s \in ImplementReply}
  BY DEF ImplementResults
<1>2. \A s : Of(s).raises = ImplementRaises(s) /\ Of(s).output = ImplementOutput(s)
  OBVIOUS
<1> HIDE DEF Of
<1>3. ASSUME NEW r \in ImplementResults
      PROVE  r.output \in Green \cup {"red", "red undone", "unmet"}
  <2>1. PICK s \in ImplementReply : r = Of(s)
    BY <1>1
  <2> QED BY <1>2, <2>1 DEF ImplementOutput, Green
<1>4. ASSUME NEW s \in ImplementReply, ~ImplementRaises(s), NEW a, ImplementOutput(s) = a
      PROVE  \E r \in {r \in ImplementResults : ~r.raises} : r.output = a
  <2>1. Of(s) \in ImplementResults /\ ~Of(s).raises /\ Of(s).output = a
    BY <1>1, <1>2, <1>4
  <2> QED BY <2>1
<1>5. ToSet(<<>>) = {} /\ ToSet(<<"ask">>) = {"ask"} /\ ToSet(<<"stray ask">>) = {"stray ask"}
  <2>1. ToSet(<<>>) = {}
    BY DEF ToSet
  <2>2. \A a : ToSet(<<a>>) = {a}
    BY DEF ToSet
  <2> QED BY <2>1, <2>2
<1>6. \E r \in {r \in ImplementResults : ~r.raises} : r.output = "green"
  <2>1. Reply("true", FALSE, TRUE, <<>>) \in ImplementReply
    BY BlockedReplies, SomeBlocked DEF GreenSaid
  <2>2. /\ ~ImplementRaises(Reply("true", FALSE, TRUE, <<>>))
        /\ ImplementOutput(Reply("true", FALSE, TRUE, <<>>)) = "green"
    BY <1>5 DEF ImplementRaises, ImplementOutput, NamesAnAsk, ImplementGreen, ResolveGreen
  <2> QED BY <1>4, <2>1, <2>2
<1>7. \E r \in {r \in ImplementResults : ~r.raises} : r.output = "green undone"
  <2>1. Reply("true", FALSE, FALSE, <<>>) \in ImplementReply
    BY BlockedReplies, SomeBlocked DEF GreenSaid
  <2>2. /\ ~ImplementRaises(Reply("true", FALSE, FALSE, <<>>))
        /\ ImplementOutput(Reply("true", FALSE, FALSE, <<>>)) = "green undone"
    BY <1>5 DEF ImplementRaises, ImplementOutput, NamesAnAsk, ImplementGreen, ResolveGreen
  <2> QED BY <1>4, <2>1, <2>2
<1>8. \E r \in {r \in ImplementResults : ~r.raises} : r.output = "red"
  <2>1. Reply("false", TRUE, TRUE, <<"stray ask">>) \in ImplementReply
    BY BlockedReplies, SomeBlocked DEF GreenSaid
  <2>2. Head(<<"stray ask">>) = "stray ask" /\ <<"stray ask">> # <<>>
    OBVIOUS
  <2>3. /\ ~ImplementRaises(Reply("false", TRUE, TRUE, <<"stray ask">>))
        /\ ImplementOutput(Reply("false", TRUE, TRUE, <<"stray ask">>)) = "red"
    BY <1>5, <2>2 DEF ImplementRaises, ImplementOutput, NamesAnAsk, ImplementGreen, ResolveGreen,
                      OwnRed
  <2> QED BY <1>4, <2>1, <2>3
<1>9. \E r \in {r \in ImplementResults : ~r.raises} : r.output = "red undone"
  <2>1. Reply("false", TRUE, FALSE, <<"stray ask">>) \in ImplementReply
    BY BlockedReplies, SomeBlocked DEF GreenSaid
  <2>2. Head(<<"stray ask">>) = "stray ask" /\ <<"stray ask">> # <<>>
    OBVIOUS
  <2>3. /\ ~ImplementRaises(Reply("false", TRUE, FALSE, <<"stray ask">>))
        /\ ImplementOutput(Reply("false", TRUE, FALSE, <<"stray ask">>)) = "red undone"
    BY <1>5, <2>2 DEF ImplementRaises, ImplementOutput, NamesAnAsk, ImplementGreen, ResolveGreen,
                      OwnRed
  <2> QED BY <1>4, <2>1, <2>3
<1>10. \E r \in {r \in ImplementResults : ~r.raises} : r.output = "unmet"
  <2>1. Reply("true", FALSE, TRUE, <<"ask">>) \in ImplementReply
    BY BlockedReplies, SomeBlocked DEF GreenSaid
  <2>2. /\ ~ImplementRaises(Reply("true", FALSE, TRUE, <<"ask">>))
        /\ ImplementOutput(Reply("true", FALSE, TRUE, <<"ask">>)) = "unmet"
    BY <1>5 DEF ImplementRaises, ImplementOutput, NamesAnAsk, ResolveGreen
  <2> QED BY <1>4, <2>1, <2>2
<1> QED BY <1>3, <1>6, <1>7, <1>8, <1>9, <1>10 DEF Green

LEMMA ValidateRange ==
  ASSUME Dissents # {}
  PROVE  {r.output : r \in ValidateResults} = {"green", "red"}
<1> DEFINE Of(s) == [output |-> IF ValidateGreen(s) THEN "green" ELSE "red",
                     why |-> IF WantsRed(s) /\ Shown(s.dissent) THEN {"anchor"}
                             ELSE IF ~s.substance THEN {"no assessment"} ELSE {}]
           Reply(substance, d) ==
             [green |-> "true", cause |-> FALSE, substance |-> substance, dissent |-> d]
<1>1. ValidateResults = {Of(s) : s \in ValidateReply(Dissents)}
  BY DEF ValidateResults
<1>2. \A s : Of(s).output = IF ValidateGreen(s) THEN "green" ELSE "red"
  OBVIOUS
<1> HIDE DEF Of
<1>3. PICK d : d \in Dissents
  OBVIOUS
<1>4. Reply(TRUE, d) \in ValidateReply(Dissents) /\ Reply(FALSE, d) \in ValidateReply(Dissents)
  BY <1>3 DEF ValidateReply, WellFormed, GreenSaid
<1>5. ValidateGreen(Reply(TRUE, d)) /\ ~ValidateGreen(Reply(FALSE, d))
  BY DEF ValidateGreen, WantsRed, ResolveGreen
<1>6. Of(Reply(TRUE, d)).output = "green" /\ Of(Reply(FALSE, d)).output = "red"
  BY <1>2, <1>5
<1>7. Of(Reply(TRUE, d)) \in ValidateResults /\ Of(Reply(FALSE, d)) \in ValidateResults
  BY <1>1, <1>4
<1>8. \A r \in ValidateResults : r.output \in {"green", "red"}
  BY <1>1, <1>2
<1> QED BY <1>6, <1>7, <1>8

LEMMA ReviewRange ==
  ASSUME \E p \in Panels : ReviewShips(p), \E p \in Panels : ~ReviewShips(p)
  PROVE  {r.output : r \in ReviewResults} = {"ship", "hold"}
<1> DEFINE Of(p) == [output |-> IF ReviewShips(p) THEN "ship" ELSE "hold",
                     why |-> IF \E i \in Completed(p) : \E f \in p[i].findings :
                                  f.severity = "high" /\ Shown(f.dissent)
                             THEN {"anchor"}
                             ELSE IF Cardinality({i \in DOMAIN p : ~p[i].completed}) * 2 > Len(p)
                             THEN {"no quorum"} ELSE {}]
<1>1. ReviewResults = {Of(p) : p \in Panels}
  BY DEF ReviewResults
<1>2. \A p : Of(p).output = IF ReviewShips(p) THEN "ship" ELSE "hold"
  OBVIOUS
<1> HIDE DEF Of
<1> QED BY <1>1, <1>2

LEMMA IndependentRange ==
  ASSUME \E d \in Dissents : DissentAnchored(d)
  PROVE  {r.output : r \in IndependentResults} = {"ship", "veto", "skipped"}
<1> DEFINE Of(issues) == [output |-> IF Vetoes(issues) THEN "veto" ELSE "ship",
                          why |-> IF \E d \in issues : Shown(d) THEN {"anchor"} ELSE {}]
           skipped == [output |-> "skipped", why |-> {}]
<1>1. IndependentResults = {Of(issues) : issues \in {{}} \cup {{d} : d \in Dissents}} \cup {skipped}
  BY DEF IndependentResults
<1>2. /\ \A issues : Of(issues).output = IF Vetoes(issues) THEN "veto" ELSE "ship"
      /\ skipped.output = "skipped"
  OBVIOUS
<1> HIDE DEF Of, skipped
<1>3. PICK d \in Dissents : DissentAnchored(d)
  OBVIOUS
<1>4. Vetoes({d}) /\ ~Vetoes({})
  BY <1>3 DEF Vetoes
<1>5. Of({d}) \in IndependentResults /\ Of({}) \in IndependentResults
      /\ skipped \in IndependentResults
  BY <1>1, <1>3
<1>6. \A r \in IndependentResults : r.output \in {"ship", "veto", "skipped"}
  BY <1>1, <1>2
<1> QED BY <1>2, <1>4, <1>5, <1>6

LEMMA Exact ==
  ASSUME \E d \in Dissents : DissentAnchored(d),
         \E p \in Panels : ReviewShips(p), \E p \in Panels : ~ReviewShips(p)
  PROVE  Inv /\ RouteInv => PhasesAreExact
<1> SUFFICES ASSUME Inv, RouteInv, AtWork PROVE PhasesAreExact
  BY DEF PhasesAreExact
<1>1. HereId \in DOMAIN outputs
  <2>1. status = None /\ AtNode
    BY UnderWay DEF AtWork, Wanting, AtNode
  <2> QED BY <2>1, NodeMaps DEF RouteInv, WalkOK
<1>2. /\ Answers("implement", outputs) = Green \cup {"red", "red undone", "unmet"}
      /\ Answers("validate", outputs) = {"green", "red"}
      /\ Answers("review", outputs) = {"ship", "hold"}
      /\ Answers("rework_review", outputs) = {"ship", "hold"}
      /\ Answers("independent_check", outputs) = {"ship", "veto", "skipped"}
  BY DEF Answers
<1>3. \A n \in {"implement", "validate", "review", "rework_review", "independent_check"} :
        HereId = n => {o[n] : o \in PhaseOutcomes(n, outputs)} = Answers(n, outputs)
  BY <1>1, AnswersRange
<1>4. Dissents # {}
  OBVIOUS
<1> QED BY <1>2, <1>3, <1>4, ImplementRange, ValidateRange, ReviewRange, IndependentRange
        DEF PhasesAreExact

(* The answers the graph-level runs and the routes let a judge give are    *)
(* what its replies come to, whatever dissents and panels there are, when  *)
(* one can object and a panel can ship and can hold.                       *)
THEOREM SpecPhasesAreExact ==
  ASSUME PhasesAnswer, \E d \in Dissents : DissentAnchored(d),
         \E p \in Panels : ReviewShips(p), \E p \in Panels : ~ReviewShips(p)
  PROVE  JudgedSpec => []PhasesAreExact
  BY PhasesOfNodes, JudgedSteps, StepsRoute, Exact, PTL

-----------------------------------------------------------------------------
(***************************************************************************)
(* Who reviews (Roster): of any roles and domains, finitely many.          *)
(***************************************************************************)

LEMMA NamesAreListed ==
  ASSUME NEW S, IsFiniteSet(S), NEW names \in Named(S)
  PROVE  names \in Seq(S)
<1>1. PICK part \in SUBSET S : names \in SetToSeqs(part)
  BY DEF Named
<1>2. Cardinality(part) \in Nat
  BY <1>1, FS_Subset, FS_CardinalityType
<1>3. names \in [1 .. Cardinality(part) -> part]
  BY <1>1 DEF SetToSeqs
<1>4. names \in [1 .. Cardinality(part) -> S]
  BY <1>1, <1>3
<1> QED BY <1>2, <1>4

LEMMA WithRoleTold ==
  ASSUME NEW names \in Seq(Role), NEW role \in Role
  PROVE  WithRole(names, role) \in Seq(Role) \ {<<>>}
<1>1. CASE role \in ToSet(names)
  <2>1. names # <<>>
    BY <1>1 DEF ToSet
  <2> QED BY <1>1, <2>1 DEF WithRole
<1>2. CASE role \notin ToSet(names)
  <2>1. /\ Append(names, role) \in Seq(Role) /\ Len(Append(names, role)) = Len(names) + 1
        /\ Len(names) \in Nat
    OBVIOUS
  <2>2. Len(<<>>) = 0
    OBVIOUS
  <2>3. Append(names, role) # <<>>
    BY <2>1, <2>2
  <2> QED BY <1>2, <2>1, <2>3 DEF WithRole
<1> QED BY <1>1, <1>2

(* Risky work and work across domains always has somebody assigned.        *)
LEMMA CastIsOf ==
  ASSUME IsFiniteSet(Role), IsFiniteSet(Domain), NEW t \in Cast
  PROVE  /\ t.specialists \in Seq(Role) /\ t.domains \in Seq(Domain)
         /\ t.specialists = <<>> => t.risk \in {"low", "medium"} /\ Len(t.domains) < 2
<1>1. PICK s \in Triages, p \in Sound : t = EnforceComposition(s, p)
  BY DEF Cast
<1>2. /\ s.risk \in Risks /\ s.domains \in Seq(Domain) /\ s.specialists \in Seq(Role)
      /\ p.checker \in Role /\ p.architect \in Role
      /\ s = [risk |-> s.risk, domains |-> s.domains, specialists |-> s.specialists]
  <2>1. s.domains \in Named(Domain) /\ s.specialists \in Named(Role)
    BY <1>1 DEF Triages
  <2>2. s.domains \in Seq(Domain) /\ s.specialists \in Seq(Role)
    BY <2>1, NamesAreListed
  <2> QED BY <1>1, <2>2 DEF Triages, Sound, Profiles
<1> DEFINE checked == IF s.risk \in {"high", "critical"}
                      THEN WithRole(s.specialists, p.checker) ELSE s.specialists
           completed == IF Len(s.domains) > 1 THEN WithRole(checked, p.architect) ELSE checked
<1>3. t = [s EXCEPT !.specialists = completed]
  BY <1>1 DEF EnforceComposition
<1>4. checked \in Seq(Role) /\ (s.risk \in {"high", "critical"} => checked # <<>>)
  BY <1>2, WithRoleTold
<1>5. /\ completed \in Seq(Role)
      /\ s.risk \in {"high", "critical"} \/ Len(s.domains) > 1 => completed # <<>>
  <2> HIDE DEF checked
  <2> QED BY <1>2, <1>4, WithRoleTold
<1>6. t.specialists = completed /\ t.domains = s.domains /\ t.risk = s.risk
  <2> HIDE DEF completed
  <2> QED BY <1>2, <1>3
<1>7. Len(s.domains) \in Nat
  BY <1>2
<1> HIDE DEF completed
<1> QED BY <1>2, <1>5, <1>6, <1>7 DEF Risks

(* Places of a list have a first one: the sets 1 .. i of those places are  *)
(* finite, so one of them holds no other.                                  *)
LEMMA FirstPlace ==
  ASSUME NEW n \in Nat, NEW places \in SUBSET (1 .. n), places # {}
  PROVE  \E i \in places : \A j \in places : i <= j
<1> DEFINE Upto(i) == 1 .. i
           heads == {Upto(i) : i \in places}
<1>1. IsFiniteSet(1 .. n)
  BY FS_Interval
<1>2. IsWellFoundedOn(StrictSubsetOrdering(1 .. n), SUBSET (1 .. n))
  BY <1>1, FS_StrictSubsetOrderingWellFounded, FS_FiniteSubsetsOfFinite
<1>3. heads \subseteq SUBSET (1 .. n) /\ heads # {}
  <2>1. \A i \in places : Upto(i) \subseteq 1 .. n
    OBVIOUS
  <2> HIDE DEF Upto
  <2> QED BY <2>1
<1>4. PICK h \in heads : \A g \in heads : ~(<<g, h>> \in StrictSubsetOrdering(1 .. n))
  <2> HIDE DEF heads
  <2> QED BY <1>2, <1>3, WFMin
<1>5. PICK i \in places : h = Upto(i)
  OBVIOUS
<1>6. ASSUME NEW j \in places, j < i PROVE FALSE
  <2>1. Upto(j) \subseteq Upto(i) /\ Upto(j) # Upto(i) /\ Upto(i) \subseteq 1 .. n
    BY <1>6
  <2>2. <<Upto(j), Upto(i)>> \in StrictSubsetOrdering(1 .. n)
    BY <2>1 DEF StrictSubsetOrdering
  <2> QED BY <1>4, <1>5, <2>2
<1> QED BY <1>6

LEMMA FirstIsOne ==
  ASSUME NEW names \in Seq(Role), NEW team, team \cap ToSet(names) # {}
  PROVE  FirstOf(names, team) \in team \cap ToSet(names)
<1> DEFINE places == {i \in DOMAIN names : names[i] \in team}
<1>1. DOMAIN names = 1 .. Len(names) /\ Len(names) \in Nat
  OBVIOUS
<1>2. places \in SUBSET (1 .. Len(names)) /\ places # {}
  BY <1>1 DEF ToSet
<1>3. \E i \in places : \A j \in places : i <= j
  <2> HIDE DEF places
  <2> QED BY <1>1, <1>2, FirstPlace
<1>4. \E i \in DOMAIN names :
        names[i] \in team /\ \A j \in DOMAIN names : names[j] \in team => i <= j
  BY <1>3
<1> QED BY <1>4 DEF FirstOf, ToSet

LEMMA BuildersAssigned ==
  ASSUME IsFiniteSet(Role), NEW t, NEW p, t.specialists \in Seq(Role) \ {<<>>}
  PROVE  /\ Builders(t, p) \subseteq ToSet(t.specialists) /\ Builders(t, p) # {}
         /\ IsFiniteSet(Builders(t, p))
         /\ Lead(t, p) \in Builders(t, p)
<1>1. IsFiniteSet(ToSet(t.specialists)) /\ ToSet(t.specialists) # {}
  <2>1. DOMAIN t.specialists = 1 .. Len(t.specialists) /\ Len(t.specialists) \in Nat \ {0}
    OBVIOUS
  <2>2. t.specialists \in [DOMAIN t.specialists -> Role]
    BY <2>1
  <2>3. ToSet(t.specialists) \subseteq Role
    BY <2>2 DEF ToSet
  <2>4. 1 \in DOMAIN t.specialists /\ t.specialists[1] \in ToSet(t.specialists)
    BY <2>1 DEF ToSet
  <2> QED BY <2>3, <2>4, FS_Subset
<1>2. Builders(t, p) \subseteq ToSet(t.specialists) /\ Builders(t, p) # {}
  BY <1>1 DEF Builders
<1>3. IsFiniteSet(Builders(t, p))
  BY <1>1, <1>2, FS_Subset
<1>4. FirstOf(t.specialists, Builders(t, p)) \in Builders(t, p)
  BY <1>2, FirstIsOne
<1> QED BY <1>2, <1>3, <1>4 DEF Lead

(* Above low risk nobody reviews alone: the checker and the holder of the  *)
(* system view are two.                                                    *)
LEMMA NoneReviewsAlone ==
  ASSUME NEW t, NEW q \in Sound, t.risk # "low", NEW lead, ReviewTeam(t, q) = {lead}
  PROVE  FALSE
<1> DEFINE leads == {LeadForDomain(d, q) : d \in ToSet(t.domains)}
           assigned == IF t.specialists = <<>> THEN leads ELSE ToSet(t.specialists)
           team == assigned \cup {q.checker}
                     \cup (IF t.risk \in {"high", "critical"} THEN {q.architect} ELSE {})
                     \cup (IF t.risk = "critical" THEN leads ELSE {})
<1>1. ReviewTeam(t, q) = IF Cardinality(team) < 2 THEN team \cup {q.architect} ELSE team
  BY DEF ReviewTeam
<1>2. q.checker \in team /\ q.checker # q.architect
  BY DEF Sound
<1> HIDE DEF team
<1>3. CASE Cardinality(team) < 2
  BY <1>1, <1>2, <1>3
<1>4. CASE ~(Cardinality(team) < 2)
  <2>1. team = {lead}
    BY <1>1, <1>4
  <2>2. Cardinality({lead}) = 1
    BY FS_Singleton
  <2> QED BY <1>4, <2>1, <2>2
<1> QED BY <1>3, <1>4

LEMMA HomeworkIsMarked ==
  ASSUME IsFiniteSet(Role), IsFiniteSet(Domain)
  PROVE  NobodyMarksHisOwn
<1> SUFFICES ASSUME NEW t \in Cast, t.specialists # <<>>
             PROVE  /\ t.risk # "low" =>
                         LET teams == {ReviewTeam(t, q) : q \in Sound}
                         IN \A lead \in {Lead(t, p) : p \in Sound}, team \in teams : team # {lead}
                    /\ \A p \in Sound :
                         /\ Lead(t, p) = p.checker => ToSet(t.specialists) = {p.checker}
                         /\ t.domains # <<>> => Peers(t, p) = Builders(t, p) \ {Lead(t, p)}
  BY CastIsOf DEF NobodyMarksHisOwn
<1>1. t.specialists \in Seq(Role) \ {<<>>}
  BY CastIsOf
<1>2. t.risk # "low" =>
        LET teams == {ReviewTeam(t, q) : q \in Sound}
        IN \A lead \in {Lead(t, p) : p \in Sound}, team \in teams : team # {lead}
  BY NoneReviewsAlone
<1>3. ASSUME NEW p \in Sound, Lead(t, p) = p.checker
      PROVE  ToSet(t.specialists) = {p.checker}
  <2>1. p.checker \in Builders(t, p) /\ Builders(t, p) \subseteq ToSet(t.specialists)
    BY <1>1, <1>3, BuildersAssigned
  <2> QED BY <2>1 DEF Builders
<1>4. ASSUME NEW p \in Sound, t.domains # <<>>
      PROVE  Peers(t, p) = Builders(t, p) \ {Lead(t, p)}
  <2>1. Lead(t, p) \in Builders(t, p) /\ IsFiniteSet(Builders(t, p))
    BY <1>1, BuildersAssigned
  <2>2. Cardinality(Builders(t, p)) = 1 => Builders(t, p) = {Lead(t, p)}
    BY <2>1, FS_Singleton
  <2> QED BY <1>4, <2>2 DEF Peers
<1> QED BY <1>2, <1>3, <1>4

(* Nobody marks his own homework, of any roles and domains, whatever       *)
(* triage returned and whichever profiles are in force at build and review.*)
THEOREM SpecReviewedByAnother ==
  ASSUME IsFiniteSet(Role), IsFiniteSet(Domain)
  PROVE  JudgedSpec => []ReviewedByAnother
<1>1. ReviewedByAnother
  BY HomeworkIsMarked DEF ReviewedByAnother
<1> QED BY <1>1, PTL
=============================================================================
