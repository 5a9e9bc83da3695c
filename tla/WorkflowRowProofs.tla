------------------------- MODULE WorkflowRowProofs -------------------------
(***************************************************************************)
(* The record of a run, for any number of reports, any nodes and any       *)
(* failures of the database: every report the chain dealt with is saved    *)
(* once, in order, or noted as lost; a terminal sticks and says what the   *)
(* run did, and all it lost unless the run raised; and one failed write    *)
(* never keeps the terminal from being written.                            *)
(*                                                                         *)
(* The terminal sticks because execute() does not reach it before the      *)
(* chain is drained (AtRest), and then no writer can start.                *)
(***************************************************************************)
EXTENDS WorkflowRow, TLAPS

RunPoints == {"running", "draining", "failing", "committing"} \cup Over
Committing == {"committing", "returned", "uncommitted"}

Types ==
  /\ run \in RunPoints
  /\ outcome \in Terminal \cup {"none", "odd", "raised"}
  /\ chain \in {"idle", "writing", "raised"}
  /\ items \in Seq(Phases \cup {"workflow", "candidate"})
  /\ consumed \in Nat /\ consumed <= Len(items)
  /\ chain = "writing" => consumed < Len(items)
  /\ row = [status |-> row.status, saved |-> row.saved, named |-> row.named]
  /\ row.saved \in Seq(Nat)

(* Once a terminal is set, in memory or on record, no writer is left.      *)
AtRest ==
  /\ seen \in Terminal \/ run \in Committing => Drained
  /\ seen \in Terminal => run \notin {"running", "draining", "failing"}
  /\ row.status \in Terminal => run = "returned"

(* What is about to be committed is the terminal of the run's outcome.     *)
Ending ==
  /\ run = "failing" => outcome \notin Terminal
  /\ run = "committing" => seen = IF outcome \in Terminal THEN outcome ELSE "blocked"

(* A chain raises, and an exception escapes, only from an expired instance.*)
Expiry ==
  /\ chain = "raised" \/ run = "escaped" => seen = "expired"
  /\ chain = "writing" => seen # "expired"

Inv == Types /\ AtRest /\ Ending /\ Expiry /\ EndIsWhole

LEMMA InitInv == Init => Inv
<1> SUFFICES ASSUME Init PROVE Inv
  OBVIOUS
<1>1. items \in Seq(Phases \cup {"workflow", "candidate"}) /\ Len(items) = 1
  BY DEF Init
<1>2. Types
  BY <1>1 DEF Init, Types, RunPoints, Terminal
<1> QED
  BY <1>2 DEF Init, Inv, AtRest, Ending, Expiry, EndIsWhole, Committing, Terminal

(* The executor's steps only append reports and move run.                  *)
LEMMA ExecutorInv ==
  ASSUME Inv,
         \/ \E phase \in Phases : Report(phase)
         \/ \E status \in Terminal \cup {"odd"} : Returns(status)
         \/ Raises
  PROVE  Inv'
<1>1. run = "running" /\ UNCHANGED <<writer, seen, row>>
  BY DEF Report, Returns, Raises
<1>2. run' \in {"running", "draining", "failing", "escaped"}
  BY <1>1 DEF Report, Returns, Raises, Excepts, execution
<1>3. /\ items' \in Seq(Phases \cup {"workflow", "candidate"})
      /\ Len(items) <= Len(items')
  <2>1. CASE items' = items
    BY <2>1 DEF Inv, Types
  <2>2. ASSUME NEW p \in Phases \cup {"workflow", "candidate"}, items' = Append(items, p)
        PROVE  <1>3
    BY <2>2 DEF Inv, Types
  <2> QED
    BY <2>1, <2>2 DEF Report, Returns, Raises
<1>4. outcome' \in Terminal \cup {"none", "odd", "raised"}
  BY DEF Report, Returns, Raises, execution, Inv, Types
<1>5. Types'
  BY <1>1, <1>2, <1>3, <1>4 DEF Inv, Types, RunPoints, Over, writer
<1>6. run' = "failing" => outcome' \notin Terminal
  BY <1>1 DEF Report, Returns, Raises, Excepts, execution, Terminal
<1>7. run' = "escaped" => seen' = "expired"
  BY <1>1 DEF Report, Returns, Raises, Excepts, execution
<1>8. seen \notin Terminal /\ row.status \notin Terminal
  BY <1>1 DEF Inv, AtRest
<1> QED
  BY <1>1, <1>2, <1>5, <1>6, <1>7, <1>8
     DEF Inv, AtRest, Ending, Expiry, EndIsWhole, Committing, writer

(* A writer that starts sets no terminal.                                  *)
LEMMA BeginWriteInv == Inv /\ BeginWrite => Inv'
<1> SUFFICES ASSUME Inv, BeginWrite PROVE Inv'
  OBVIOUS
<1>1. chain = "idle" /\ consumed < Len(items) /\ chain' = "writing"
  BY DEF BeginWrite, MayWrite
<1>2. seen \notin Terminal /\ run \notin Committing /\ row.status \notin Terminal
  BY <1>1 DEF Inv, AtRest, Drained, Types, Committing
<1>3. seen' \notin Terminal \cup {"expired"}
  <2>1. CASE Item \in DOMAIN NodeStatus
    BY <1>2, <2>1, RowAssumption DEF BeginWrite
  <2>2. CASE Item \notin DOMAIN NodeStatus
    BY <1>2, <2>2 DEF BeginWrite
  <2> QED
    BY <2>1, <2>2
<1>4. UNCHANGED <<run, outcome, items, consumed, lost, row>>
  BY DEF BeginWrite, execution
<1>5. Types'
  BY <1>1, <1>4 DEF Inv, Types
<1>6. run # "escaped"
  BY DEF BeginWrite, Inv, Expiry
<1> QED
  BY <1>1, <1>2, <1>3, <1>4, <1>5, <1>6
     DEF Inv, AtRest, Ending, Expiry, EndIsWhole, Committing

LEMMA WriterRaisesInv == Inv /\ WriterRaises => Inv'
<1> SUFFICES ASSUME Inv, WriterRaises PROVE Inv'
  OBVIOUS
<1>1. chain = "idle" /\ consumed < Len(items) /\ chain' = "raised" /\ seen = "expired"
  BY DEF WriterRaises, MayWrite
<1>2. run \notin Committing /\ row.status \notin Terminal
  BY <1>1 DEF Inv, AtRest, Drained, Types, Committing
<1>3. UNCHANGED <<run, outcome, items, consumed, lost, seen, row>>
  BY DEF WriterRaises, execution
<1>4. Types'
  BY <1>1, <1>3 DEF Inv, Types
<1> QED
  BY <1>1, <1>2, <1>3, <1>4
     DEF Inv, AtRest, Ending, Expiry, EndIsWhole, Committing, Terminal

(* While a transaction is open no terminal is set anywhere.                *)
LEMMA WritingIsEarly ==
  Inv /\ chain = "writing" => /\ seen \notin Terminal /\ run \notin Committing
                              /\ row.status \notin Terminal
  BY DEF Inv, AtRest, Drained, Committing

LEMMA CommitWriteInv == Inv /\ CommitWrite => Inv'
<1> SUFFICES ASSUME Inv, CommitWrite PROVE Inv'
  OBVIOUS
<1>1. /\ chain = "writing" /\ chain' = "idle" /\ consumed' = consumed + 1
      /\ UNCHANGED <<run, outcome, items, lost, seen>>
  BY DEF CommitWrite, execution
<1>2. row' = [row EXCEPT !.status = seen, !.saved = Append(@, consumed + 1)]
  BY DEF CommitWrite
<1>3. row'.status = seen /\ row'.saved = Append(row.saved, consumed + 1) /\ row'.named = row.named
  BY <1>2 DEF Inv, Types
<1>4. row' = [status |-> row'.status, saved |-> row'.saved, named |-> row'.named]
  BY <1>2 DEF Inv, Types
<1>5. Types'
  BY <1>1, <1>3, <1>4 DEF Inv, Types
<1>6. seen \notin Terminal /\ run \notin Committing
  BY <1>1, WritingIsEarly
<1> QED
  BY <1>1, <1>3, <1>5, <1>6
     DEF Inv, AtRest, Ending, Expiry, EndIsWhole, Committing

LEMMA WriteFailsInv == Inv /\ WriteFails => Inv'
<1> SUFFICES ASSUME Inv, WriteFails PROVE Inv'
  OBVIOUS
<1>1. /\ chain = "writing" /\ chain' = "idle" /\ consumed' = consumed + 1
      /\ UNCHANGED <<run, outcome, items, row>>
  BY DEF WriteFails, execution
<1>2. seen' = row.status \/ seen' = "expired"
  BY DEF WriteFails
<1>3. run \notin Committing /\ row.status \notin Terminal /\ seen # "expired"
  BY <1>1, WritingIsEarly DEF Inv, Expiry
<1>4. seen' \notin Terminal
  BY <1>2, <1>3 DEF Terminal
<1>5. Types'
  BY <1>1 DEF Inv, Types
<1> QED
  BY <1>1, <1>3, <1>4, <1>5
     DEF Inv, AtRest, Ending, Expiry, EndIsWhole, Committing

(* The end of execute(): run moves on, and the terminal is set only when   *)
(* the chain is drained.                                                   *)
LEMMA EndInv ==
  ASSUME Inv, Settle \/ SettleRaises \/ DrainRaises \/ Fail
  PROVE  Inv'
<1>1. /\ UNCHANGED <<outcome, items, consumed, chain, lost, row>>
      /\ run \in {"draining", "failing"}
  BY DEF Settle, SettleRaises, DrainRaises, Fail, writer
<1>2. run' \in {"committing", "failing", "escaped"}
  BY DEF Settle, SettleRaises, DrainRaises, Fail, Excepts
<1>3. Types'
  BY <1>1, <1>2 DEF Inv, Types, RunPoints, Over
<1>4. row.status \notin Terminal
  BY <1>1 DEF Inv, AtRest
<1>5. CASE Settle
  BY <1>1, <1>3, <1>4, <1>5
     DEF Settle, Inv, AtRest, Ending, Expiry, EndIsWhole, Drained, Committing
<1>6. CASE SettleRaises
  BY <1>1, <1>2, <1>3, <1>4, <1>6
     DEF SettleRaises, Excepts, Inv, AtRest, Ending, Expiry, EndIsWhole,
         Drained, Committing, Terminal
<1>7. CASE DrainRaises
  BY <1>1, <1>3, <1>4, <1>7
     DEF DrainRaises, Inv, AtRest, Ending, Expiry, EndIsWhole, Drained,
         Committing, Terminal
<1>8. CASE Fail
  BY <1>1, <1>3, <1>4, <1>8
     DEF Fail, Inv, AtRest, Ending, Expiry, EndIsWhole, Drained, Committing
<1> QED
  BY <1>5, <1>6, <1>7, <1>8

LEMMA CommitEndInv == Inv /\ CommitEnd => Inv'
<1> SUFFICES ASSUME Inv, CommitEnd PROVE Inv'
  OBVIOUS
<1>1. /\ run = "committing" /\ run' = "returned"
      /\ UNCHANGED <<outcome, items, consumed, chain, lost, seen>>
  BY DEF CommitEnd, writer
<1>2. PICK note \in NotesWritten : row' = [row EXCEPT !.status = seen, !.named = note]
  BY DEF CommitEnd
<1>3. row'.status = seen /\ row'.saved = row.saved /\ row'.named = note
      /\ row' = [status |-> row'.status, saved |-> row'.saved, named |-> row'.named]
  BY <1>2 DEF Inv, Types
<1>4. note \subseteq lost /\ (outcome \in Terminal => note = lost)
  BY <1>2 DEF NotesWritten
<1>5. Drained
  BY <1>1 DEF Inv, AtRest, Committing
<1>6. Types'
  BY <1>1, <1>3 DEF Inv, Types, RunPoints, Over
<1> QED
  BY <1>1, <1>3, <1>4, <1>5, <1>6
     DEF Inv, AtRest, Ending, Expiry, EndIsWhole, Drained, Committing

LEMMA StopInv ==
  ASSUME Inv, CommitEndFails \/ Interrupted
  PROVE  Inv'
<1>1. /\ UNCHANGED <<outcome, items, consumed, chain, lost, seen, row>>
      /\ run # "returned"
  BY DEF CommitEndFails, Interrupted, Over, writer
<1>2. \/ run = "committing" /\ run' = "uncommitted"
      \/ run' \in {"cancelled", "crashed"}
  BY DEF CommitEndFails, Interrupted
<1>3. Types'
  BY <1>1, <1>2 DEF Inv, Types, RunPoints, Over
<1> QED
  BY <1>1, <1>2, <1>3
     DEF Inv, AtRest, Ending, Expiry, EndIsWhole, Drained, Committing

LEMMA NextInv == Inv /\ [Next]_vars => Inv'
<1> SUFFICES ASSUME Inv, [Next]_vars PROVE Inv'
  OBVIOUS
<1>1. CASE UNCHANGED vars
  BY <1>1 DEF vars, execution, writer, Inv, Types, AtRest, Ending, Expiry,
              EndIsWhole, Drained
<1>2. CASE Execute
  BY <1>2, ExecutorInv, EndInv, CommitEndInv, StopInv DEF Execute
<1>3. CASE Write
  BY <1>3, BeginWriteInv, WriterRaisesInv, CommitWriteInv, WriteFailsInv DEF Write
<1>4. CASE Interrupted
  BY <1>4, StopInv
<1> QED
  BY <1>1, <1>2, <1>3, <1>4 DEF Next

(* The record is right at every step, however the database fails.          *)
THEOREM SpecInv == Spec => []Inv
  BY InitInv, NextInv, PTL DEF Spec

(* When execute() returns, the row says what the run did, every report was *)
(* dealt with, and what was lost is named in full unless the run raised.   *)
THEOREM SpecEndIsWhole == Spec => []EndIsWhole
<1>1. Inv => EndIsWhole
  BY DEF Inv
<1> QED
  BY <1>1, SpecInv, PTL

(* Nothing but a second failure, after the first of a write, lets an       *)
(* exception out before the terminal.                                      *)
THEOREM SpecEscapesOnlyTwiceFailed == Spec => []EscapesOnlyTwiceFailed
<1>1. Inv => EscapesOnlyTwiceFailed
  BY DEF Inv, Expiry, EscapesOnlyTwiceFailed
<1> QED
  BY <1>1, SpecInv, PTL

(* A terminal row never changes: no writer lands after it.                 *)
THEOREM SpecEndSticks == Spec => EndSticks
<1>1. ASSUME Inv, [Next]_vars
      PROVE  [row.status \in Terminal => row' = row]_vars
  <2> SUFFICES ASSUME Next, row.status \in Terminal
               PROVE  row' = row
    BY <1>1
  <2>1. run = "returned" /\ chain = "idle"
    BY <1>1 DEF Inv, AtRest, Committing, Drained
  <2>2. CASE Execute
    BY <2>1, <2>2 DEF Execute, Report, Returns, Raises, Settle, SettleRaises,
                      DrainRaises, Fail, CommitEnd, CommitEndFails
  <2>3. CASE Write
    BY <2>1, <2>3 DEF Write, BeginWrite, WriterRaises, CommitWrite, WriteFails
  <2>4. CASE Interrupted
    BY <2>1, <2>4 DEF Interrupted
  <2> QED
    BY <2>2, <2>3, <2>4 DEF Next
<1> QED
  BY <1>1, SpecInv, PTL DEF Spec, EndSticks

-----------------------------------------------------------------------------
(* Each report the chain has dealt with is saved once, in order, or named. *)
LEMMA AppendedSet ==
  ASSUME NEW s \in Seq(Nat), NEW n \in Nat
  PROVE  ToSet(Append(s, n)) = ToSet(s) \cup {n}
<1>1. Append(s, n) \in Seq(Nat) /\ Len(Append(s, n)) = Len(s) + 1
  OBVIOUS
<1>2. \A i \in 1 .. Len(s) : Append(s, n)[i] = s[i]
  OBVIOUS
<1>3. Append(s, n)[Len(s) + 1] = n
  OBVIOUS
<1>4. \A i \in 1 .. Len(s) + 1 : i \in 1 .. Len(s) \/ i = Len(s) + 1
  OBVIOUS
<1> QED
  BY <1>1, <1>2, <1>3, <1>4 DEF ToSet

LEMMA CommitWriteSaves ==
  ASSUME Types, SavedOrNamed, CommitWrite
  PROVE  SavedOrNamed'
<1> DEFINE n == consumed + 1
<1>1. row'.saved = Append(row.saved, n) /\ lost' = lost /\ consumed' = n
  BY DEF CommitWrite, Types
<1>2. row.saved \in Seq(Nat) /\ n \in Nat
  BY DEF Types
<1>3. ToSet(row'.saved) = ToSet(row.saved) \cup {n}
  BY <1>1, <1>2, AppendedSet
<1>4. 1 .. n = (1 .. consumed) \cup {n} /\ n \notin 1 .. consumed
  BY DEF Types
<1>5. \A i \in DOMAIN row.saved : row.saved[i] < n
  <2>1. \A i \in DOMAIN row.saved : row.saved[i] \in 1 .. consumed
    BY DEF SavedOrNamed, ToSet
  <2> QED
    BY <2>1 DEF Types
<1>6. ASSUME NEW i \in DOMAIN row'.saved, NEW j \in DOMAIN row'.saved, i < j
      PROVE  row'.saved[i] < row'.saved[j]
  <2>1. DOMAIN row'.saved = 1 .. Len(row.saved) + 1
    BY <1>1, <1>2
  <2>2. i \in 1 .. Len(row.saved) /\ row'.saved[i] = row.saved[i]
    BY <1>1, <1>2, <1>6, <2>1
  <2>3. CASE j \in 1 .. Len(row.saved)
    <3>1. row'.saved[j] = row.saved[j]
      BY <1>1, <1>2, <2>3
    <3> QED
      BY <1>2, <1>6, <2>2, <2>3, <3>1 DEF SavedOrNamed
  <2>4. CASE j = Len(row.saved) + 1
    <3>1. row'.saved[j] = n
      BY <1>1, <1>2, <2>4
    <3> QED
      BY <1>2, <1>5, <2>2, <3>1
  <2> QED
    BY <1>2, <2>1, <2>3, <2>4
<1>7. n \notin lost
  BY <1>4 DEF SavedOrNamed
<1>8. ToSet(row'.saved) \cup lost' = 1 .. consumed' /\ ToSet(row'.saved) \cap lost' = {}
  BY <1>1, <1>3, <1>4, <1>7 DEF SavedOrNamed
<1> QED
  BY <1>6, <1>8 DEF SavedOrNamed

LEMMA WriteFailsNames ==
  ASSUME Types, SavedOrNamed, WriteFails
  PROVE  SavedOrNamed'
<1> DEFINE n == consumed + 1
<1>1. row' = row /\ lost' = lost \cup {n} /\ consumed' = n
  BY DEF WriteFails
<1>2. 1 .. n = (1 .. consumed) \cup {n} /\ n \notin 1 .. consumed
  BY DEF Types
<1>3. n \notin ToSet(row.saved)
  BY <1>2 DEF SavedOrNamed
<1>4. ToSet(row'.saved) = ToSet(row.saved)
  BY <1>1
<1>5. ToSet(row'.saved) \cup lost' = 1 .. consumed' /\ ToSet(row'.saved) \cap lost' = {}
  BY <1>1, <1>2, <1>3, <1>4 DEF SavedOrNamed
<1> QED
  BY <1>1, <1>5 DEF SavedOrNamed

(* The record of the reports is exact whatever the database does: one      *)
(* failed write loses its own node and nothing else.                       *)
THEOREM SpecSavedOrNamed == Spec => []SavedOrNamed
<1>1. Init => SavedOrNamed
  BY DEF Init, SavedOrNamed, ToSet
<1>2. ASSUME Inv, SavedOrNamed, [Next]_vars
      PROVE  SavedOrNamed'
  <2>1. CASE CommitWrite
    BY <1>2, <2>1, CommitWriteSaves DEF Inv
  <2>2. CASE WriteFails
    BY <1>2, <2>2, WriteFailsNames DEF Inv
  <2>3. CASE UNCHANGED <<row, lost, consumed>>
    BY <1>2, <2>3 DEF SavedOrNamed
  <2>4. CASE CommitEnd
    <3>1. row'.saved = row.saved /\ UNCHANGED <<lost, consumed>>
      BY <1>2, <2>4 DEF CommitEnd, writer, Inv, Types
    <3> QED
      BY <1>2, <3>1 DEF SavedOrNamed
  <2> QED
    BY <1>2, <2>1, <2>2, <2>3, <2>4
       DEF Next, Execute, Write, Report, Returns, Raises, Settle, SettleRaises,
           DrainRaises, Fail, CommitEndFails, Interrupted, BeginWrite,
           WriterRaises, vars, writer
<1> QED
  BY <1>1, <1>2, SpecInv, PTL DEF Spec
=============================================================================
