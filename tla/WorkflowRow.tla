---------------------------- MODULE WorkflowRow ----------------------------
(***************************************************************************)
(* WorkflowEngine.execute of autornd/engine/workflow.py: the database row  *)
(* of one run.  The executor reports each finished node to on_phase, which *)
(* adds a writer to a chain of tasks; a writer saves its node and the      *)
(* row's visible status in a transaction of its own while the run goes on, *)
(* and the end of the run waits for the chain before it writes the         *)
(* terminal.  A poll sees only what is committed.                          *)
(*                                                                         *)
(* The executor is its reports and its outcome (GraphExecutor models it).  *)
(***************************************************************************)
EXTENDS Integers, Sequences, SequencesExt

CONSTANTS
  Phases,        \* the nodes a run reports
  NodeStatus,    \* _NODE_STATUS: the visible status of some of them
  MaxPhases,     \* bound: the reports of a run
  RefreshFails,  \* whether the refresh after a failed write may fail too
  CommitFails    \* whether the terminal's commit may fail

Terminal == {"completed", "blocked", "escalated"}
ArtifactNode == "implement"

ASSUME RowAssumption ==
  /\ ArtifactNode \in Phases /\ {"workflow", "candidate"} \cap Phases = {}
  /\ DOMAIN NodeStatus \subseteq Phases
  /\ \A p \in DOMAIN NodeStatus : NodeStatus[p] \notin Terminal \cup {"pending", "expired"}
  /\ MaxPhases \in Nat /\ RefreshFails \in BOOLEAN /\ CommitFails \in BOOLEAN

VARIABLES
  run,       \* where execute() is
  outcome,   \* what the executor returned: a status, "raised" or "none" yet
  items,     \* pending_saves: what was reported, in order
  consumed,  \* how many of them the chain has dealt with
  chain,     \* the chain of writers: idle, in a transaction, or raised
  lost,      \* _lost_progress
  seen,      \* workflow.status of the instance in memory, or "expired"
  row        \* committed: the status, the saved items, the losses named

execution == <<run, outcome>>
writer == <<consumed, chain, lost>>
vars == <<execution, items, writer, seen, row>>

Over == {"returned", "escaped", "uncommitted", "cancelled", "crashed"}

(* The row is committed and the workflow's name reported before the run.   *)
Init ==
  /\ run = "running" /\ outcome = "none"
  /\ items = <<"workflow">>
  /\ consumed = 0 /\ chain = "idle" /\ lost = {}
  /\ seen = "pending"
  /\ row = [status |-> "pending", saved |-> <<>>, named |-> {}]

-----------------------------------------------------------------------------
(* The executor. *)

Report(phase) ==
  /\ run = "running" /\ Len(items) < MaxPhases
  /\ items' = Append(items, phase)
  /\ UNCHANGED <<execution, writer, seen, row>>

(* The except clause first reads workflow.id, which an expired instance    *)
(* cannot give.                                                            *)
Excepts == run' = IF seen = "expired" THEN "escaped" ELSE "failing"

(* "odd" is an on_exhausted_status that is no member of WorkflowStatus; a  *)
(* run not completed that has an answer reports its candidate.             *)
Returns(status) ==
  /\ run = "running"
  /\ outcome' = status
  /\ items' = IF status # "completed" /\ ArtifactNode \in ToSet(items)
              THEN Append(items, "candidate") ELSE items
  /\ run' = "draining"
  /\ UNCHANGED <<writer, seen, row>>

Raises ==
  /\ run = "running"
  /\ outcome' = "raised"
  /\ Excepts
  /\ UNCHANGED <<items, writer, seen, row>>

-----------------------------------------------------------------------------
(* _write_progress, one writer at a time, in the order reported. *)

Item == items[consumed + 1]
MayWrite == chain = "idle" /\ consumed < Len(items) /\ run # "crashed"

(* The phase is added and the status set in memory, but never over a       *)
(* terminal; the transaction is open.                                      *)
BeginWrite ==
  /\ MayWrite /\ seen # "expired"
  /\ chain' = "writing"
  /\ seen' = IF Item \in DOMAIN NodeStatus /\ seen \notin Terminal
             THEN NodeStatus[Item] ELSE seen
  /\ UNCHANGED <<execution, items, consumed, lost, row>>

(* workflow.id is read outside the try: on an expired instance the writer  *)
(* raises, and with it every later one that awaits it.                     *)
WriterRaises ==
  /\ MayWrite /\ seen = "expired"
  /\ chain' = "raised"
  /\ UNCHANGED <<execution, items, consumed, lost, seen, row>>

CommitWrite ==
  /\ chain = "writing" /\ run # "crashed"
  /\ row' = [row EXCEPT !.status = seen, !.saved = Append(@, consumed + 1)]
  /\ consumed' = consumed + 1 /\ chain' = "idle"
  /\ UNCHANGED <<execution, items, lost, seen>>

WriteFails_Unnamed ==
  /\ chain = "writing" /\ run # "crashed"
  /\ consumed' = consumed + 1 /\ chain' = "idle"
  /\ seen' \in {row.status} \cup (IF RefreshFails THEN {"expired"} ELSE {})
  /\ UNCHANGED <<execution, items, lost, row>>

WriteFails_Retried ==
  /\ chain = "writing" /\ run # "crashed"
  /\ chain' = "idle"
  /\ seen' \in {row.status} \cup (IF RefreshFails THEN {"expired"} ELSE {})
  /\ UNCHANGED <<execution, items, consumed, lost, row>>

(* D48: the item is consumed and named, the session rolled back, the row   *)
(* re-read; when that fails too the instance stays expired.                *)
WriteFails ==
  /\ chain = "writing" /\ run # "crashed"
  /\ lost' = lost \cup {consumed + 1}
  /\ consumed' = consumed + 1 /\ chain' = "idle"
  /\ seen' \in {row.status} \cup (IF RefreshFails THEN {"expired"} ELSE {})
  /\ UNCHANGED <<execution, items, row>>

-----------------------------------------------------------------------------
(* The end of execute(). *)

(* _flush_phases returns: every writer is done and every item consumed.    *)
Drained == chain = "idle" /\ consumed = Len(items)

Settle_NoDrain ==
  /\ run = "draining" /\ outcome \in Terminal
  /\ seen' = outcome
  /\ run' = "committing"
  /\ UNCHANGED <<outcome, items, writer, row>>

Settle ==
  /\ run = "draining" /\ Drained /\ outcome \in Terminal
  /\ seen' = outcome
  /\ run' = "committing"
  /\ UNCHANGED <<outcome, items, writer, row>>

(* WorkflowStatus(state.status) raises.                                    *)
SettleRaises ==
  /\ run = "draining" /\ Drained /\ outcome \notin Terminal
  /\ Excepts
  /\ UNCHANGED <<outcome, items, writer, seen, row>>

(* Awaiting a chain that raised raises, in the try and in the except.      *)
DrainRaises ==
  /\ run \in {"draining", "failing"} /\ chain = "raised"
  /\ run' = "escaped"
  /\ UNCHANGED <<outcome, items, writer, seen, row>>

Fail ==
  /\ run = "failing" /\ Drained
  /\ seen' = "blocked"
  /\ run' = "committing"
  /\ UNCHANGED <<outcome, items, writer, row>>

(* _lost_note comes last in the row's error, its losses in order.  After   *)
(* an exception the whole is cut to 2000 characters, and a long text       *)
(* leaves room for the first of them only, or for none.                    *)
NotesWritten ==
  IF outcome \in Terminal THEN {lost} ELSE {lost \cap (1 .. k) : k \in 0 .. consumed}

CommitEnd ==
  /\ run = "committing"
  /\ \E note \in NotesWritten : row' = [row EXCEPT !.status = seen, !.named = note]
  /\ run' = "returned"
  /\ UNCHANGED <<outcome, items, writer, seen>>

CommitEndFails ==
  /\ run = "committing" /\ CommitFails
  /\ run' = "uncommitted"
  /\ UNCHANGED <<outcome, items, writer, seen, row>>

(* A cancelled request leaves its writers running, a crash does not.       *)
Interrupted ==
  /\ run \notin Over
  /\ run' \in {"cancelled", "crashed"}
  /\ UNCHANGED <<outcome, items, writer, seen, row>>

Execute ==
  \/ \E phase \in Phases : Report(phase)
  \/ \E status \in Terminal \cup {"odd"} : Returns(status)
  \/ Raises \/ Settle \/ SettleRaises \/ DrainRaises \/ Fail
  \/ CommitEnd \/ CommitEndFails

Write == BeginWrite \/ WriterRaises \/ CommitWrite \/ WriteFails

Next == Execute \/ Write \/ Interrupted

(* The run ends (RunEnds of GraphExecutor) and every transaction does.     *)
Spec == Init /\ [][Next]_vars /\ WF_vars(Execute) /\ WF_vars(Write)

-----------------------------------------------------------------------------
(* Properties. *)

TypeOK ==
  /\ run \in {"running", "draining", "failing", "committing"} \cup Over
  /\ outcome \in Terminal \cup {"none", "odd", "raised"}
  /\ items \in Seq(Phases \cup {"workflow", "candidate"})
  /\ consumed \in 0 .. Len(items)
  /\ chain \in {"idle", "writing", "raised"}
  /\ row.saved \in Seq(1 .. consumed)

(* "One failed progress write loses that node's record and nothing else":  *)
(* every reported node the chain got to is saved once, in order, or is     *)
(* named lost, never both.                                                 *)
SavedOrNamed ==
  /\ \A i, j \in DOMAIN row.saved : i < j => row.saved[i] < row.saved[j]
  /\ ToSet(row.saved) \cup lost = 1 .. consumed
  /\ ToSet(row.saved) \cap lost = {}

(* When execute() returns, the row has the executor's terminal, blocked    *)
(* for a run that raised or a status that is none, and every report was    *)
(* dealt with.  It names as lost only what was, and after a terminal of    *)
(* the executor all of it; after an exception the cut may drop losses.     *)
EndIsWhole ==
  run = "returned" =>
    /\ row.status = IF outcome \in Terminal THEN outcome ELSE "blocked"
    /\ consumed = Len(items)
    /\ row.named \subseteq lost /\ (outcome \in Terminal => row.named = lost)

(* "none of them may land after the terminal": a terminal row never        *)
(* changes again.                                                          *)
EndSticks == [][row.status \in Terminal => row' = row]_vars

(* Only a second failure, of the rollback or refresh after a failed write, *)
(* lets an exception out of execute() before the terminal's commit.        *)
EscapesOnlyTwiceFailed == run = "escaped" => seen = "expired"

(* A run that is not interrupted gets its terminal on record, unless its   *)
(* last commit fails or a write failed twice.                              *)
RowSettles == <>(row.status \in Terminal \/ run \in Over \ {"returned"})

-----------------------------------------------------------------------------
(* The instance checked: two nodes move the visible status, the recompute  *)
(* vote does not.                                                          *)
TwoStatuses == [implement |-> "implement", review |-> "review"]
=============================================================================
