------------------------------ MODULE RunGate ------------------------------
(***************************************************************************)
(* _RunGate of autornd/api/routes.py and the three routes that pass it:    *)
(* POST /workflows (a background task), POST /workflows/sync and           *)
(* POST /workflows/{id}/doublecheck.  The server is one event loop, so     *)
(* what lies between two awaits is one step; requests interleave at every  *)
(* commit, call and close.                                                 *)
(***************************************************************************)
EXTENDS Integers, FiniteSets

CONSTANTS
  Submissions,         \* the requests that arrive
  Kind,                \* the route of each
  Caller,              \* who sends it (_caller_key)
  Key,                 \* its request text and workflow
  MaxConcurrentRuns,   \* settings.max_concurrent_runs
  Unclosable           \* the submissions whose client may fail to close

Kinds == {"background", "sync", "doublecheck"}

ASSUME GateAssumption ==
  /\ Kind \in [Submissions -> Kinds]
  /\ MaxConcurrentRuns \in Nat

VARIABLES
  slots,      \* _in_flight: the caller and key of every admitted run
  pc          \* where each submission is

vars == <<slots, pc>>

Slot(s) == <<Caller[s], Key[s]>>

Points == {"idle", "refused", "storing", "queued", "running", "closing",
           "saving", "ended"}
Busy == {"storing", "queued", "running", "closing", "saving"}
Live == {s \in Submissions : pc[s] \in Busy}

Init ==
  /\ slots = {}
  /\ pc = [s \in Submissions |-> "idle"]

Go(s, point) == pc' = [pc EXCEPT ![s] = point]

-----------------------------------------------------------------------------
(* _admit_run. *)

Duplicate(s) == Slot(s) \in slots

Full == Cardinality(slots) >= MaxConcurrentRuns

(* A doublecheck has its row already.                                      *)
Admit(s) ==
  /\ pc[s] = "idle" /\ ~Duplicate(s) /\ ~Full
  /\ slots' = slots \cup {Slot(s)}
  /\ Go(s, IF Kind[s] = "doublecheck" THEN "running" ELSE "storing")

(* 409 or 429, before a row exists.                                        *)
Refuse(s) ==
  /\ pc[s] = "idle" /\ (Duplicate(s) \/ Full)
  /\ Go(s, "refused")
  /\ UNCHANGED slots

-----------------------------------------------------------------------------
(* The routes. *)

Ended_KeepsSlot(s) == Go(s, "ended") /\ UNCHANGED slots

(* The run is over and its slot released.                                  *)
Ended(s) == Go(s, "ended") /\ slots' = slots \ {Slot(s)}

(* The row is committed; a background run waits for its task to start.     *)
Store(s) ==
  /\ pc[s] = "storing"
  /\ Go(s, IF Kind[s] = "background" THEN "queued" ELSE "running")
  /\ UNCHANGED slots

StoreFails_KeepsSlot(s) ==
  /\ pc[s] = "storing"
  /\ Ended_KeepsSlot(s)

(* The commit raises or the request is cancelled at it.                    *)
StoreFails(s) ==
  /\ pc[s] = "storing"
  /\ Ended(s)

Start(s) ==
  /\ pc[s] = "queued"
  /\ Go(s, "running")
  /\ UNCHANGED slots

RowMissing_KeepsSlot(s) ==
  /\ pc[s] = "running" /\ Kind[s] = "background"
  /\ Ended_KeepsSlot(s)

(* The background task cannot open its session or read its row.            *)
RowMissing(s) ==
  /\ pc[s] = "running" /\ Kind[s] = "background"
  /\ Ended(s)

(* The run or the call returns or raises; either way its client is closed. *)
Finish(s) ==
  /\ pc[s] = "running"
  /\ Go(s, "closing")
  /\ UNCHANGED slots

Close(s) ==
  /\ pc[s] = "closing"
  /\ Ended(s)

(* A doublecheck that has a verdict goes on to save it.                    *)
CloseToSave(s) ==
  /\ pc[s] = "closing" /\ Kind[s] = "doublecheck"
  /\ Go(s, "saving")
  /\ UNCHANGED slots

(* client.close() raises or is cancelled: the outer finally of the         *)
(* background and doublecheck routes releases, /workflows/sync does not.   *)
CloseFails(s) ==
  /\ pc[s] = "closing" /\ s \in Unclosable
  /\ IF Kind[s] = "sync" THEN Go(s, "ended") /\ UNCHANGED slots ELSE Ended(s)

(* The commit of the verdict succeeds or raises.                           *)
Save(s) ==
  /\ pc[s] = "saving"
  /\ Ended(s)

Step(s) ==
  \/ Admit(s) \/ Refuse(s) \/ Store(s) \/ StoreFails(s) \/ Start(s)
  \/ RowMissing(s) \/ Finish(s) \/ Close(s) \/ CloseToSave(s) \/ CloseFails(s)
  \/ Save(s)

Next == \E s \in Submissions : Step(s)

(* Every await ends: a commit, a task's start, a run (RunEnds of the       *)
(* executor) and a close.                                                  *)
Spec == Init /\ [][Next]_vars /\ \A s \in Submissions : WF_vars(Step(s))

-----------------------------------------------------------------------------
(* Properties. *)

TypeOK ==
  /\ pc \in [Submissions -> Points]
  /\ slots \subseteq {Slot(s) : s \in Submissions}

(* "At most settings.max_concurrent_runs API runs in flight at once", with *)
(* commits, calls and closes of the three routes interleaved in any order. *)
LiveWithinCap == Cardinality(Live) <= MaxConcurrentRuns

(* "Never twice the same request text through the same workflow from the   *)
(* same caller".                                                           *)
NoTwins == \A s, t \in Live : Slot(s) = Slot(t) => s = t

(* A slot is held exactly while a run it admitted is under way: a live run *)
(* is never without one, and none outlives its run, "whatever way it ends".*)
SlotsAreTheLive == slots = {Slot(s) : s \in Live}

(* What admission promises of the runs under way, all three at once.       *)
AdmissionHolds == LiveWithinCap /\ NoTwins /\ SlotsAreTheLive

(* Whatever fails, a slot taken is freed, so a caller is never refused     *)
(* forever.                                                                *)
EverySlotFreed == \A s \in Submissions : Slot(s) \in slots ~> Slot(s) \notin slots
=============================================================================
