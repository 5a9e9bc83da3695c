------------------------------ MODULE ArmUnit ------------------------------
(***************************************************************************)
(* One unit of the experiments, call by call: the arm executors            *)
(* (_arm_single, _arm_b, _arm_c, _arm_e/_arm_f) under run_unit's deadline  *)
(* and exception handlers.  A reply is what the unit's control reads of    *)
(* it: whether it has text, its finish reason, the tools it asks for, and, *)
(* for arm C's check, the JSON it carries.                                 *)
(***************************************************************************)
EXTENDS Preflight

CONSTANTS
  UnitArms,          \* the arms run
  CheckAttempts,     \* ARM_C_CHECK_ATTEMPTS
  ToolLimit,         \* ARM_B_TOOL_INVOCATION_LIMIT
  ToolsPerReply      \* the largest number of tools a reply asks for

ASSUME ArmUnitAssumption ==
  /\ UnitArms \subseteq Arms
  /\ CheckAttempts \in Nat \ {0}
  /\ ToolLimit \in Nat /\ ToolsPerReply \in Nat
  /\ CallLimit > 1      \* arm C's draft and its check

VARIABLES
  arm,        \* the unit's arm
  pc,         \* the call it is about to make, or "ended"
  replies,    \* the replies it got, in order
  answer,     \* the reply it delivers, 0 when there is none yet
  check,      \* the JSON of arm C's last check reply
  asked,      \* the tools arm B was asked for (its invocation records)
  invoked,    \* those it executed
  end         \* how it ended

vars == <<arm, pc, replies, answer, check, asked, invoked, end>>

Finishes == {"stop", "error"}     \* "length" is classed as "stop" is
Payloads == [concur : {"yes", "no", "other"}, objections : {"none", "some", "other"}]
NoCheck == [concur |-> "other", objections |-> "other"]
Replies == [text : {"text", "blank"}, finish : Finishes]

NotEnded == Outcome("none", FALSE, FALSE)

First(a) == CASE a = "C" -> "draft" [] a \in Pipelines -> "pipeline" [] OTHER -> "call"

Init ==
  /\ arm \in UnitArms
  /\ pc = First(arm)
  /\ replies = <<>> /\ answer = 0
  /\ check = NoCheck
  /\ asked = 0 /\ invoked = 0
  /\ end = NotEnded

Calls == Len(replies)

-----------------------------------------------------------------------------
(* The end of a unit.  The class of an empty answer is read from the last  *)
(* finish reason of the unit.                                              *)

Close(outcome) == pc' = "ended" /\ end' = outcome

Deliver(list, i) ==
  /\ answer' = i
  /\ Close(Outcome(AnswerStatus(list[i].text, list[Len(list)].finish), FALSE, TRUE))

(* A call fails: the deadline, a provider failure or a refusal of the      *)
(* spend guard, an error status, a 402, or anything else.                  *)
CallFails ==
  /\ pc \in {"call", "draft", "check", "revise"}
  /\ \E status \in {"deadline", "incomplete"}, credit \in BOOLEAN :
       /\ credit => status = "incomplete"
       /\ Close(Outcome(status, credit, TRUE))
  /\ UNCHANGED <<arm, replies, answer, check, asked, invoked>>

-----------------------------------------------------------------------------
(* Arms A, D and D-pages: one call. *)

SingleReplies ==
  /\ arm \in SingleCall /\ pc = "call"
  /\ \E r \in Replies :
       /\ replies' = <<r>>
       /\ Deliver(<<r>>, 1)
  /\ UNCHANGED <<arm, check, asked, invoked>>

-----------------------------------------------------------------------------
(* Arm B: rounds of tools, then an answer.  Asking past the limit is       *)
(* answered with an error, without running the tool.                       *)
Allowed(wanted) ==
  IF asked >= ToolLimit THEN 0
  ELSE IF wanted < ToolLimit - asked THEN wanted ELSE ToolLimit - asked

ToolRound ==
  /\ arm = "B" /\ pc = "call" /\ Calls + 1 < CallLimit
  /\ \E r \in Replies, wanted \in 1..ToolsPerReply :
       /\ replies' = Append(replies, r)
       /\ asked' = asked + wanted
       /\ invoked' = invoked + Allowed(wanted)
  /\ UNCHANGED <<arm, pc, answer, check, end>>

(* The reply that asks for no tool is the answer, and so is the last call, *)
(* whose tool_choice is "none".                                            *)
ToolAnswer ==
  /\ arm = "B" /\ pc = "call"
  /\ \E r \in Replies :
       /\ replies' = Append(replies, r)
       /\ Deliver(replies', Len(replies'))
  /\ UNCHANGED <<arm, check, asked, invoked>>

-----------------------------------------------------------------------------
(* Arm C: a draft, a typed check, at most one revision. *)

Draft ==
  /\ arm = "C" /\ pc = "draft"
  /\ \E r \in Replies : replies' = <<r>>
  /\ pc' = "check"
  /\ UNCHANGED <<arm, answer, check, asked, invoked, end>>

ParseCheckVerdict_ProseConcurs(p) ==
  IF p.concur = "no" /\ p.objections = "some" THEN "object" ELSE "concur"

(* parse_check_verdict: a verdict is a boolean and the objections it       *)
(* needs; anything else is none.                                           *)
ParseCheckVerdict(p) ==
  IF p.concur = "yes" /\ p.objections = "none" THEN "concur"
  ELSE IF p.concur = "no" /\ p.objections = "some" THEN "object" ELSE "none"

Attempts == Calls - 1

(* The check asks again, while attempts and calls remain, for a verdict it *)
(* can read; an objection is revised while a call remains.                 *)
Check ==
  /\ arm = "C" /\ pc = "check"
  /\ \E r \in Replies, p \in Payloads :
       LET list == Append(replies, r)
           v == ParseCheckVerdict(p)
       IN /\ replies' = list /\ check' = p
          /\ IF v = "none" /\ Attempts + 1 < CheckAttempts /\ Calls + 1 < CallLimit
             THEN UNCHANGED <<pc, answer, end>>
             ELSE IF v = "object" /\ Calls + 1 < CallLimit
             THEN pc' = "revise" /\ UNCHANGED <<answer, end>>
             ELSE Deliver(list, 1)
  /\ UNCHANGED <<arm, asked, invoked>>

Revise ==
  /\ arm = "C" /\ pc = "revise"
  /\ \E r \in Replies :
       /\ replies' = Append(replies, r)
       /\ Deliver(replies', Len(replies'))
  /\ UNCHANGED <<arm, check, asked, invoked>>

(* The check record's status.                                              *)
CheckStatus ==
  IF ParseCheckVerdict(check) = "none" THEN "unavailable"
  ELSE IF ParseCheckVerdict(check) = "concur" THEN "concurred"
  ELSE IF answer = 1 THEN "starved" ELSE "objected"

-----------------------------------------------------------------------------
(* Arms E and F: run_scenario returns, with or without a 402, or the       *)
(* outer deadline cancels it.                                              *)

RunStates == [status : {"completed", "escalated", "blocked"},
              approved : BOOLEAN, candidate : BOOLEAN]

PipelineReturns ==
  /\ arm \in Pipelines /\ pc = "pipeline"
  /\ \E run \in RunStates, credit \in BOOLEAN :
       /\ credit => run.status # "completed"
       /\ Close(Outcome(PipelineStatus(AnswerOf(run)), credit, TRUE))
  /\ UNCHANGED <<arm, replies, answer, check, asked, invoked>>

PipelineCut ==
  /\ arm \in Pipelines /\ pc = "pipeline"
  /\ Close(Outcome("deadline", FALSE, FALSE))
  /\ UNCHANGED <<arm, replies, answer, check, asked, invoked>>

Next ==
  \/ CallFails \/ SingleReplies \/ ToolRound \/ ToolAnswer
  \/ Draft \/ Check \/ Revise \/ PipelineReturns \/ PipelineCut

Spec == Init /\ [][Next]_vars

-----------------------------------------------------------------------------
(* Properties. *)

(* What run_unit may tell the sweep is what the sweep's model assumes of a *)
(* unit (UnitOutcomes): no ending of an arm's protocol is missing there.   *)
EndsAsClassified == pc = "ended" => end \in UnitOutcomes(arm)

(* "Recorded as unavailable - never as concurrence": a check concurred     *)
(* only by saying so without an objection, and a draft is delivered over   *)
(* an objection only when the retries spent the last call.                 *)
CheckIsHonoured ==
  arm = "C" /\ answer # 0 =>
    /\ CheckStatus = "concurred" => check.concur = "yes" /\ check.objections = "none"
    /\ CheckStatus = "starved" => Calls = CallLimit
    /\ answer # 1 <=> CheckStatus = "objected"

(* "An empty reply with finish error is the serving's own failure, never a *)
(* refusal": holds of every arm whose answer is its last reply.  Arm C     *)
(* reads the check's finish reason for an unrevised draft.                 *)
RefusalIsTheModels ==
  end.status = "refusal" /\ (arm = "C" => answer = Calls) =>
    replies[answer].finish # "error"

(* What a unit reports is what its calls earned.                           *)
EndingIsEarned == EndsAsClassified /\ CheckIsHonoured /\ RefusalIsTheModels
=============================================================================
