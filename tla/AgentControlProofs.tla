-------------------------- MODULE AgentControlProofs --------------------------
(***************************************************************************)
(* What Agent control promises for any buttons, operations and failures:   *)
(* the operation an owner sees is AgentOperation's, a stopped Agent stays  *)
(* down, a Start's attempts are bounded, and the cloud keeps the session   *)
(* the daemon runs.                                                        *)
(***************************************************************************)
EXTENDS AgentControl, TLAPS

-----------------------------------------------------------------------------
(* The inductive invariant.                                                *)

PhasesOf(action) ==
  CASE action = "none"       -> {"completed"}
    [] action = "start"      -> {"starting"} \cup Terminal
    [] action = "stop"       -> {"stopping", "stopped"} \cup Terminal
    [] action = "full-reset" -> Pending \cup Settled \cup Terminal
    [] OTHER                 -> {"stopping", "stopped", "starting"} \cup Terminal

Length(action) == Len(Chain(action))

(* The operation is at most one step behind what was taken for it, and     *)
(* nothing was taken for one that has not begun.                           *)
OperationInv ==
  /\ ctl.phase \in PhasesOf(ctl.action)
  /\ ctl.epoch = 0 <=> ctl.action = "none"
  /\ \A e \in Epochs : e > ctl.epoch => performed[e] = 0
  /\ ctl.epoch # 0 /\ ctl.phase # "failed" =>
       /\ Confirmed(ctl) <= performed[ctl.epoch] /\ performed[ctl.epoch] <= Confirmed(ctl) + 1
       /\ performed[ctl.epoch] <= Length(ctl.action)

(* An operation is begun over one that leaves room for it.                 *)
WriterInv ==
  \A c \in Callers : writer[c] # NoWriter =>
    writer[c].action # "none" /\ writer[c].seen.epoch < MaxEpoch

(* The operation op has come as far as the step.                           *)
Reached(op, step) ==
  /\ step = "stop" => op.action \notin {"none", "start"}
  /\ step = "reset-workspace" =>
       op.action = "full-reset" /\ (op.phase = "failed" \/ Confirmed(op) >= 1)
  /\ step = "start" =>
       /\ op.action \notin {"none", "stop"}
       /\ op.phase = "failed" \/ Confirmed(op) >= Length(op.action) - 1

(* A result tells of a step that was taken.                                *)
Vouched(op, done, r) ==
  r # NoResult =>
    /\ r.phase # "none" /\ r.epoch \in 1..op.epoch
    /\ r.phase = "stopped" => done[r.epoch] >= 1
    /\ r.phase = "workspace-reset" => done[r.epoch] >= 2
    /\ r.phase = "started" /\ r.epoch = op.epoch => done[r.epoch] >= Length(op.action)

WireInv ==
  /\ link = "boot" => commands = {}
  /\ \A c \in commands : c.epoch <= ctl.epoch /\ (c.epoch = ctl.epoch => Reached(ctl, c.step))
  /\ \A r \in results : Vouched(ctl, performed, r)

Launches == {"launch", "join", "spawn"}

(* What the daemon's record stands for was asked of it.                    *)
RecordInv ==
  /\ rec.epoch <= ctl.epoch /\ (rec.phase # "none" => rec.epoch # 0)
  /\ rec.launch # 0 => rec.launch = rec.epoch
  /\ Vouched(ctl, performed, rec.stopResult) /\ Vouched(ctl, performed, rec.resetResult)
  /\ Vouched(ctl, performed, rec.startResult) /\ Vouched(ctl, performed, rec.lastResult)
  /\ rec.stopResult.phase = "stopped" => rec.stopResult.epoch = rec.epoch
  /\ rec.lastResult.phase = "stopped" => rec.lastResult.epoch = rec.epoch /\ rec.stopResult # NoResult
  /\ rec.resetResult.phase # "stopped" /\ rec.startResult.phase # "stopped"
  /\ rec.epoch = ctl.epoch => /\ rec.phase = "starting" => Reached(ctl, "start")
                              /\ rec.phase = "stopping" => Reached(ctl, "stop")
  /\ work.op = "stop" => rec.phase = "stopping"
  /\ work.op \in Launches => rec.phase = "starting"

(* Once the Computer has taken a Stop, nothing is there to bring the Agent *)
(* up: the record refuses older commands, or knows nothing and none is on  *)
(* its way.                                                                *)
DownInv ==
  ctl.action = "stop" /\ ctl.epoch # 0 /\ performed[ctl.epoch] >= 1 =>
    /\ ~proc.up /\ restart = 0 /\ wake = "no"
    /\ rec.phase # "starting"
    /\ rec.epoch = ctl.epoch \/ (rec.epoch = 0 /\ \A c \in commands : c.epoch = ctl.epoch)

(* The record has handled the Stop of epoch e.                             *)
Handled(record, e) == record.epoch > e \/ (record.epoch = e /\ record.stopResult # NoResult)

(* A Stop's command does not outlive its handling: the record is not begun *)
(* anew for it when the Start of the same operation is under way.          *)
StopInv ==
  /\ \A c, d \in commands : c.step = "stop" /\ d.step = "start" /\ c.epoch = d.epoch
                              => Handled(rec, c.epoch)
  /\ \A c \in commands : c.step = "stop" /\ tries[c.epoch] > 0 => Handled(rec, c.epoch)
  /\ \A c \in commands : c.step = "stop" /\ c.epoch = ctl.epoch /\ Confirmed(ctl) >= 1
                           => Handled(rec, c.epoch)
  /\ \A r \in results : link # "boot" /\ r.phase = "stopped" /\ r.epoch = ctl.epoch
                           => Handled(rec, r.epoch)

(* The attempts of a Start are those of the work or of the retry, and the  *)
(* record that ended them begins none again.                               *)
TriesInv ==
  /\ \A e \in Epochs : tries[e] <= MaxAttempts /\ (tries[e] > 0 => e <= rec.epoch)
  /\ ctl.epoch # 0 /\ ctl.phase # "failed" => (tries[ctl.epoch] > 0 => Reached(ctl, "start"))
  /\ rec.epoch # 0 /\ tries[rec.epoch] > 0 =>
       rec.phase \in {"starting", "failed"} \/ rec.startResult # NoResult
  /\ work.op \in Launches => tries[rec.epoch] <= work.attempt
  /\ rec.phase = "starting" => tries[rec.epoch] > 0
  /\ retry.state # "none" =>
       /\ retry.epoch <= rec.epoch
       /\ retry.epoch = rec.epoch => rec.phase = "starting" /\ tries[rec.epoch] < retry.attempt

IInv ==
  TypeOK /\ OperationInv /\ WriterInv /\ WireInv /\ RecordInv /\ DownInv /\ StopInv /\ TriesInv

(* What ImplementsOperation and SessionCarriedOver say of a step.          *)
Refines == [Operation!Next]_(Operation!vars)
Carries == ctl'.epoch # ctl.epoch => ctl'.session = ctl.session

-----------------------------------------------------------------------------
(* How far an operation is.                                                *)

LEMMA Lengths ==
  /\ Length("none") = 0 /\ Length("start") = 1 /\ Length("stop") = 1
  /\ Length("restart") = 2 /\ Length("reset-session") = 2 /\ Length("full-reset") = 3
  BY DEF Length, Chain

LEMMA LengthType ==
  ASSUME NEW action \in Actions
  PROVE  Length(action) \in 0..3 /\ (action # "none" => Length(action) >= 1)
  BY Lengths DEF Actions

LEMMA OperationFields ==
  ASSUME NEW op \in Operations
  PROVE  /\ op.epoch \in 0..MaxEpoch /\ op.action \in Actions
         /\ op.phase \in Pending \cup Settled \cup Terminal
         /\ op.session \in Sessions /\ op.controlSequence \in Nat /\ op.sessionSequence \in Nat
  BY DEF Operations

(* The steps that are confirmed in every phase.                            *)
LEMMA ConfirmedSteps ==
  ASSUME NEW op \in Operations
  PROVE  /\ op.phase \in {"stopping", "failed"} => Confirmed(op) = 0
         /\ op.phase \in {"stopped", "clearing"} => Confirmed(op) = 1
         /\ op.phase = "workspace-reset" => Confirmed(op) = 2
         /\ op.phase = "starting" => Confirmed(op) = Length(op.action) - 1
         /\ op.phase = "completed" => Confirmed(op) = Length(op.action)
  BY DEF Confirmed, Length

LEMMA ConfirmedType ==
  ASSUME NEW op \in Operations, op.phase \in PhasesOf(op.action)
  PROVE  Confirmed(op) \in 0..3 /\ Confirmed(op) <= Length(op.action)
<1>1. op.action \in Actions /\ Length(op.action) \in 0..3
  BY OperationFields, LengthType
<1>2. op.phase \in {"starting", "stopping", "clearing", "stopped", "workspace-reset", "completed", "failed"}
  BY OperationFields DEF Pending, Settled, Terminal
<1>3. QED
  BY <1>1, <1>2, ConfirmedSteps, Lengths DEF PhasesOf, Actions, Pending, Settled, Terminal

(* The operation goes on: it fails, or comes at least as far.              *)
GoesOn(old, new) ==
  /\ new \in Operations /\ new.phase \in PhasesOf(new.action)
  /\ new.epoch = old.epoch /\ new.action = old.action
  /\ old.phase = "failed" => new.phase = "failed"
  /\ new.phase = "failed" \/ Confirmed(old) <= Confirmed(new)

LEMMA ReachedStays ==
  ASSUME NEW old \in Operations, old.phase \in PhasesOf(old.action), NEW new, GoesOn(old, new),
         NEW step, Reached(old, step)
  PROVE  Reached(new, step)
<1>1. /\ Confirmed(old) \in 0..3 /\ Confirmed(new) \in 0..3
      /\ Length(old.action) \in 0..3 /\ Length(new.action) \in 0..3
  BY ConfirmedType, OperationFields, LengthType DEF GoesOn
<1>2. QED
  BY <1>1 DEF GoesOn, Reached

(* The steps of the abstract operation are those of the chain.             *)
LEMMA AbstractLength ==
  ASSUME NEW a \in Actions
  PROVE  Len(Operation!Steps(a)) = Length(a)
<1>1. /\ Len(Operation!Steps("none")) = 0 /\ Len(Operation!Steps("start")) = 1
      /\ Len(Operation!Steps("stop")) = 1 /\ Len(Operation!Steps("restart")) = 2
      /\ Len(Operation!Steps("reset-session")) = 2 /\ Len(Operation!Steps("full-reset")) = 3
  BY DEF Operation!Steps
<1>2. QED
  BY <1>1, Lengths DEF Actions

-----------------------------------------------------------------------------
(* Steps that leave the operation as it is.                                *)

LEMMA Types ==
  ASSUME TypeOK
  PROVE  /\ ctl \in Operations /\ performed \in [Epochs -> 0..3] /\ tries \in [Epochs -> Nat]
         /\ rec \in Records /\ work \in Works /\ retry \in Retries /\ proc \in Processes
         /\ commands \subseteq Commands /\ results \subseteq Results /\ reports \subseteq Reports
         /\ writer \in [Callers -> Writers] /\ stopped \in BOOLEAN
  BY DEF TypeOK

LEMMA OperationStays ==
  ASSUME OperationInv, UNCHANGED <<ctl, performed>>
  PROVE  OperationInv' /\ Refines /\ Carries
<1>1. OperationInv'
  BY DEF OperationInv
<1>2. UNCHANGED Operation!vars
  BY DEF Operation!vars, Taken, Outcome
<1>3. QED
  BY <1>1, <1>2 DEF Refines, Carries

(* More is taken on the Computer for some operation.                       *)
Grows == /\ performed' \in [Epochs -> 0..3]
         /\ \A e \in Epochs : performed[e] <= performed'[e]

LEMMA VouchedStays ==
  ASSUME TypeOK, ctl' = ctl, Grows, NEW r \in Results, Vouched(ctl, performed, r)
  PROVE  Vouched(ctl', performed', r)
<1>1. performed \in [Epochs -> 0..3] /\ performed' \in [Epochs -> 0..3] /\ ctl \in Operations
  BY DEF TypeOK, Grows
<1>2. Length(ctl.action) \in 0..3 /\ ctl.epoch \in 0..MaxEpoch
  BY <1>1, OperationFields, LengthType
<1>3. CASE r = NoResult
  BY <1>3 DEF Vouched
<1>4. CASE r # NoResult
  <2>1. r.epoch \in 1..ctl.epoch /\ r.epoch \in Epochs
    BY <1>2, <1>4, ControlBounds DEF Vouched, Epochs
  <2>2. performed[r.epoch] <= performed'[r.epoch] /\ performed[r.epoch] \in 0..3 /\ performed'[r.epoch] \in 0..3
    BY <1>1, <2>1 DEF Grows
  <2>3. QED
    BY <1>2, <2>1, <2>2 DEF Vouched
<1>5. QED
  BY <1>3, <1>4

(* The k-th step is taken for an operation that has come as far as it.     *)
LEMMA Taking ==
  ASSUME IInv, ctl' = ctl, NEW e \in Epochs, e <= ctl.epoch, NEW k \in 0..3,
         Performs(e, k),
         e = ctl.epoch /\ ctl.phase # "failed" =>
           k <= Length(ctl.action) /\ k <= Confirmed(ctl) + 1
  PROVE  /\ Grows /\ performed'[e] >= k /\ \A d \in Epochs : d # e => performed'[d] = performed[d]
         /\ OperationInv' /\ Refines /\ Carries
<1>1. /\ performed \in [Epochs -> 0..3] /\ ctl \in Operations /\ ctl.phase \in PhasesOf(ctl.action)
      /\ Epochs = 1..MaxEpoch /\ MaxEpoch \in Nat
  BY ControlBounds DEF IInv, TypeOK, OperationInv, Epochs
<1>2. /\ ctl.epoch \in 0..MaxEpoch /\ ctl.action \in Actions /\ Length(ctl.action) \in 0..3
      /\ Confirmed(ctl) \in 0..3 /\ Confirmed(ctl) <= Length(ctl.action)
  BY <1>1, OperationFields, LengthType, ConfirmedType
<1>3. /\ performed' \in [Epochs -> 0..3]
      /\ performed'[e] = Max2(performed[e], k)
      /\ \A d \in Epochs : d # e => performed'[d] = performed[d]
  BY <1>1 DEF Performs, Max2
<1>4. Grows /\ performed'[e] >= k
  BY <1>1, <1>3 DEF Grows, Max2
<1>5. e = ctl.epoch /\ ctl.phase # "failed" =>
        /\ Confirmed(ctl) <= performed[e] /\ performed[e] <= Confirmed(ctl) + 1
        /\ performed[e] <= Length(ctl.action)
  BY <1>1 DEF IInv, OperationInv
<1>6. OperationInv'
  <2>1. e = ctl.epoch /\ ctl.phase # "failed" =>
          /\ Confirmed(ctl) <= performed'[e] /\ performed'[e] <= Confirmed(ctl) + 1
          /\ performed'[e] <= Length(ctl.action)
    BY <1>1, <1>2, <1>3, <1>5 DEF Max2
  <2>2. \A d \in Epochs : d > ctl.epoch => performed'[d] = 0
    BY <1>1, <1>2, <1>3 DEF IInv, OperationInv
  <2>3. ctl.epoch # 0 /\ ctl.phase # "failed" =>
          /\ Confirmed(ctl) <= performed'[ctl.epoch] /\ performed'[ctl.epoch] <= Confirmed(ctl) + 1
          /\ performed'[ctl.epoch] <= Length(ctl.action)
    BY <1>1, <1>2, <1>3, <2>1 DEF IInv, OperationInv
  <2>4. QED
    BY <1>1, <2>2, <2>3 DEF IInv, OperationInv
<1>7. Refines
  <2>1. CASE e # ctl.epoch \/ ctl.phase = "failed" \/ performed'[e] = performed[e]
    <3>1. Taken' = Taken
      BY <1>1, <1>2, <1>3, <2>1 DEF Taken
    <3>2. QED
      BY <3>1 DEF Refines, Operation!vars, Outcome
  <2>2. CASE e = ctl.epoch /\ ctl.phase # "failed" /\ performed'[e] # performed[e]
    <3>1. performed[e] = Confirmed(ctl) /\ performed'[e] = performed[e] + 1
          /\ performed[e] < Length(ctl.action)
      BY <1>1, <1>2, <1>3, <1>5, <2>2 DEF Max2
    <3>2. ctl.phase \notin Terminal
      BY <1>1, <2>2, <3>1, ConfirmedSteps DEF Terminal
    <3>3. Taken = performed[e] /\ Taken' = performed'[e] /\ Outcome = "pending" /\ Outcome' = "pending"
      BY <1>1, <2>2, <3>2 DEF Taken, Outcome, Terminal
    <3>4. Operation!Take
      BY <1>2, <3>1, <3>3, AbstractLength DEF Operation!Take
    <3>5. QED
      BY <3>4 DEF Refines, Operation!Next
  <2>3. QED
    BY <2>1, <2>2
<1>8. QED
  BY <1>3, <1>4, <1>6, <1>7 DEF Carries

-----------------------------------------------------------------------------
(* What the wire and the record keep through a step of the daemon.         *)

HandledStays == \A e \in Epochs : Handled(rec, e) => Handled(rec', e)

(* What is answered tells of a step that was taken, and a Stop's answer of *)
(* one that is handled.                                                    *)
Answers(r) == Vouched(ctl', performed', r) /\ (r.phase = "stopped" => Handled(rec', r.epoch))
Answered == \A r \in results' : r \in results \/ Answers(r)

(* A daemon that is gone receives nothing, and the next one answers anew.  *)
LinkMoves == /\ link' = "boot" => commands' = {}
             /\ link = "boot" /\ link' # "boot" => results' = {}

LEMMA WireStep ==
  ASSUME IInv, TypeOK', ctl' = ctl, Grows, commands' \subseteq commands, LinkMoves, Answered
  PROVE  WireInv'
<1>1. \A c \in commands' : c.epoch <= ctl'.epoch /\ (c.epoch = ctl'.epoch => Reached(ctl', c.step))
  BY DEF IInv, WireInv
<1>2. ASSUME NEW r \in results'
      PROVE  Vouched(ctl', performed', r)
  <2>1. CASE r \in results
    BY <2>1, VouchedStays DEF IInv, TypeOK, WireInv
  <2>2. CASE Answers(r)
    BY <2>2 DEF Answers
  <2>3. QED
    BY <1>2, <2>1, <2>2 DEF Answered
<1>3. QED
  BY <1>1, <1>2 DEF WireInv, LinkMoves

LEMMA VouchedEpoch ==
  ASSUME ctl \in Operations, NEW done, NEW r, r # NoResult, Vouched(ctl, done, r)
  PROVE  r.epoch \in Epochs /\ r.epoch <= ctl.epoch
<1>1. ctl.epoch \in 0..MaxEpoch /\ r.epoch \in 1..ctl.epoch /\ MaxEpoch \in Nat
  BY OperationFields, ControlBounds DEF Vouched
<1>2. QED
  BY <1>1 DEF Epochs

LEMMA StopStep ==
  ASSUME IInv, TypeOK', ctl' = ctl, commands' \subseteq commands, LinkMoves, Answered,
         HandledStays \/ link' = "boot",
         \A c \in commands' : c.step = "stop" /\ tries'[c.epoch] > 0 =>
           tries[c.epoch] > 0 \/ Handled(rec, c.epoch)
  PROVE  StopInv'
<1>1. CASE link' = "boot"
  BY <1>1 DEF StopInv, LinkMoves
<1>2. CASE link' # "boot"
  <2>1. HandledStays /\ commands' \subseteq Commands /\ (link = "boot" => results' = {})
    BY <1>2 DEF LinkMoves, TypeOK
  <2>2. \A c \in commands' : c.epoch \in Epochs
    BY <2>1 DEF Commands
  <2>3. ASSUME NEW c \in commands', c.step = "stop",
               \/ \E d \in commands' : d.step = "start" /\ c.epoch = d.epoch
               \/ tries'[c.epoch] > 0
               \/ c.epoch = ctl'.epoch /\ Confirmed(ctl') >= 1
        PROVE  Handled(rec', c.epoch)
    <3>1. Handled(rec, c.epoch)
      BY <2>3 DEF IInv, StopInv
    <3>2. QED
      BY <2>1, <2>2, <3>1 DEF HandledStays
  <2>4. ASSUME NEW r \in results', r.phase = "stopped", r.epoch = ctl'.epoch
        PROVE  Handled(rec', r.epoch)
    <3>1. CASE r \in results
      <4>1. Handled(rec, r.epoch) /\ Vouched(ctl, performed, r)
        BY <2>1, <2>4, <3>1 DEF IInv, StopInv, WireInv
      <4>2. r # NoResult
        BY <2>4 DEF NoResult
      <4>3. r.epoch \in Epochs
        BY <4>1, <4>2, VouchedEpoch DEF IInv, TypeOK
      <4>4. QED
        BY <2>1, <4>1, <4>3 DEF HandledStays
    <3>2. CASE Answers(r)
      BY <2>4, <3>2 DEF Answers
    <3>3. QED
      BY <2>4, <3>1, <3>2 DEF Answered
  <2>5. QED
    BY <2>3, <2>4 DEF StopInv
<1>3. QED
  BY <1>1, <1>2

(* The record of the same operation, with the same results.                *)
Kept(r, s) ==
  /\ s.epoch = r.epoch /\ s.launch = r.launch
  /\ s.stopResult = r.stopResult /\ s.resetResult = r.resetResult
  /\ s.startResult = r.startResult /\ s.lastResult = r.lastResult
  /\ s.phase = r.phase \/ (/\ r.phase \in {"stopping", "stopped", "running"}
                           /\ s.phase \in {"stopped", "running"})

(* A step that takes and begins nothing: no work, retry or process is new, *)
(* unless a wake brings the process up.                                    *)
WorkQuiet ==
  \/ work'.op = "idle"
  \/ /\ rec'.phase = rec.phase /\ work'.attempt = work.attempt
     /\ work'.op = "stop" <=> work.op = "stop"
     /\ work'.op \in Launches <=> work.op \in Launches
RetryQuiet ==
  \/ retry'.state = "none"
  \/ retry.state # "none" /\ retry'.epoch = retry.epoch /\ retry'.attempt = retry.attempt
ProcessQuiet ==
  /\ proc'.up => proc.up \/ wake # "no"
  /\ restart' = restart \/ restart' = 0
  /\ wake' # "no" => wake # "no" \/ restart # 0

LEMMA DownStep ==
  ASSUME IInv, TypeOK', ctl' = ctl, commands' \subseteq commands, ProcessQuiet,
         performed'[ctl.epoch] >= 1 => ctl.action # "stop" \/ performed[ctl.epoch] >= 1,
         rec'.phase = "starting" => rec.phase = "starting",
         rec'.epoch = rec.epoch
  PROVE  DownInv'
  BY DEF IInv, DownInv, ProcessQuiet

LEMMA CalmStep ==
  ASSUME IInv, TypeOK', WriterInv', UNCHANGED <<ctl, performed, tries>>,
         commands' \subseteq commands, LinkMoves, Answered, Kept(rec, rec'),
         WorkQuiet, RetryQuiet, ProcessQuiet
  PROVE  IInv' /\ Refines /\ Carries
<1>1. OperationInv' /\ Refines /\ Carries
  BY OperationStays DEF IInv
<1>2. Grows
  <2>1. performed \in [Epochs -> 0..3] /\ performed' = performed
    BY DEF IInv, TypeOK
  <2>2. QED
    BY <2>1 DEF Grows
<1>3. WireInv'
  BY <1>2, WireStep
<1>4. HandledStays
  BY DEF HandledStays, Handled, Kept
<1>5. StopInv'
  BY <1>4, StopStep
<1>6. DownInv'
  BY DownStep DEF Kept
<1>7. RecordInv'
  <2>1. RecordInv
    BY DEF IInv
  <2>2. QED
    BY <2>1 DEF RecordInv, Kept, WorkQuiet, Launches
<1>8. TriesInv'
  <2>1. TriesInv
    BY DEF IInv
  <2>2. QED
    BY <2>1 DEF TriesInv, Kept, WorkQuiet, RetryQuiet, Launches
<1>9. QED
  BY <1>1, <1>3, <1>5, <1>6, <1>7, <1>8 DEF IInv

-----------------------------------------------------------------------------
(* The shape of what the daemon writes.                                    *)

LEMMA Bounds ==
  /\ MaxEpoch \in Nat \ {0} /\ MaxAttempts \in Nat \ {0} /\ MaxEvents \in Nat
  /\ \A e \in Epochs : e \in 0..MaxEpoch /\ e # 0
  /\ \A e \in 0..MaxEpoch : e # 0 => e \in Epochs
  /\ NoSession \in Sessions /\ 0 \in 0..MaxEpoch
  BY ControlBounds DEF Epochs, NoSession, Sessions

LEMMA RecordFields ==
  ASSUME NEW r \in Records
  PROVE  /\ r.epoch \in 0..MaxEpoch /\ r.launch \in 0..MaxEpoch /\ r.seq \in Nat
         /\ r.session \in Sessions /\ r.report \subseteq Reports
         /\ r.stopResult \in Results /\ r.resetResult \in Results
         /\ r.startResult \in Results /\ r.lastResult \in Results
         /\ r.phase \in {"none", "stopping", "stopped", "workspace-reset", "starting",
                         "running", "failed"}
  BY DEF Records

LEMMA NoResultType == NoResult \in Results /\ NoResult.phase = "none" /\ NoResult.epoch = 0
  BY Bounds DEF NoResult, Results

LEMMA NoRecordType ==
  /\ NoRecord \in Records /\ NoRecord.epoch = 0 /\ NoRecord.phase = "none" /\ NoRecord.launch = 0
  /\ NoRecord.stopResult = NoResult /\ NoRecord.resetResult = NoResult
  /\ NoRecord.startResult = NoResult /\ NoRecord.lastResult = NoResult
  BY Bounds, NoResultType DEF NoRecord, Records

LEMMA NoneTypes ==
  /\ NoWork \in Works /\ NoWork.op = "idle" /\ NoRetry \in Retries /\ NoRetry.state = "none"
  /\ NoProcess \in Processes /\ ~NoProcess.up
  BY Bounds DEF NoWork, Works, NoRetry, Retries, NoProcess, Processes

LEMMA ResultType ==
  ASSUME NEW e \in Epochs, NEW p \in ResultPhases, NEW n \in Nat, NEW s \in Sessions
  PROVE  /\ [epoch |-> e, phase |-> p, seq |-> n + 1, session |-> s] \in Results
         /\ [epoch |-> e, phase |-> p, seq |-> n + 1, session |-> s].epoch = e
         /\ [epoch |-> e, phase |-> p, seq |-> n + 1, session |-> s].phase = p
         /\ [epoch |-> e, phase |-> p, seq |-> n + 1, session |-> s] # NoResult
  BY Bounds DEF Results, ResultPhases, NoResult

LEMMA CapturedKept ==
  ASSUME NEW r \in Records, r.launch # 0 => r.epoch # 0
  PROVE  Captured(r) \in Records /\ Kept(r, Captured(r)) /\ Captured(r).phase = r.phase
         /\ Captured(r).session = r.session
<1>1. CASE r.session = NoSession \/ r.launch = 0
  BY <1>1 DEF Captured, Kept
<1>2. CASE ~(r.session = NoSession \/ r.launch = 0)
  <2> DEFINE report == [kind |-> "session", epoch |-> r.epoch, seq |-> r.seq + 1,
                        session |-> r.session]
  <2>1. report \in Reports
    BY <1>2, RecordFields, Bounds DEF Reports
  <2>2. Captured(r) = [r EXCEPT !.seq = r.seq + 1, !.report = {report}]
    BY <1>2 DEF Captured
  <2> HIDE DEF report
  <2>3. r.seq + 1 \in Nat /\ {report} \subseteq Reports
    BY <2>1, RecordFields
  <2> DEFINE s == [r EXCEPT !.seq = r.seq + 1, !.report = {report}]
  <2>4. s \in Records
    BY <2>3 DEF Records
  <2>5. Kept(r, s) /\ s.phase = r.phase /\ s.session = r.session
    BY DEF Records, Kept
  <2>6. QED
    BY <2>2, <2>4, <2>5
<1>3. QED
  BY <1>1, <1>2

LEMMA RepairedKept ==
  ASSUME TypeOK
  PROVE  /\ Repaired \in Records /\ Kept(rec, Repaired)
         /\ Repaired.phase = rec.phase \/ (rec.phase = "stopping" /\ Repaired.phase = "stopped")
<1>1. rec \in Records
  BY DEF TypeOK
<1>2. CASE rec.phase = "stopping" /\ rec.stopResult.phase = "failed" /\ ~proc.up
  BY <1>1, <1>2 DEF Repaired, Records, Kept
<1>3. CASE ~(rec.phase = "stopping" /\ rec.stopResult.phase = "failed" /\ ~proc.up)
  BY <1>1, <1>3 DEF Repaired, Kept
<1>4. QED
  BY <1>2, <1>3

(* An answer that tells of a step taken is the only one that is new.       *)
LEMMA AnswerAnswers ==
  ASSUME TypeOK, NEW r \in Results, Answer(r), Answers(r)
  PROVE  Answered /\ results' \subseteq Results
  BY DEF Answer, Answered, TypeOK

LEMMA SameAnswered ==
  ASSUME results' \subseteq results
  PROVE  Answered
  BY DEF Answered

LEMMA ReportReports ==
  ASSUME TypeOK, NEW r \in Records, Report(r)
  PROVE  reports' \subseteq Reports
  BY RecordFields DEF Report, TypeOK

LEMMA KeptStays ==
  ASSUME UNCHANGED rec
  PROVE  Kept(rec, rec')
  BY DEF Kept

(* A result of the record is answered again.                               *)
LEMMA RecordAnswers ==
  ASSUME IInv, UNCHANGED <<ctl, performed>>, NEW r, Vouched(ctl, performed, r), Kept(rec, rec'),
         r = rec.stopResult \/ r = rec.resetResult \/ r = rec.startResult \/ r = rec.lastResult,
         r.phase = "stopped" => r.epoch = rec.epoch /\ rec.stopResult # NoResult
  PROVE  Answers(r)
  BY DEF Answers, Handled, Kept

-----------------------------------------------------------------------------
(* The calm steps: the cloud's requests and its waiter's end.              *)

LEMMA CloudCalm ==
  ASSUME IInv, TypeOK', WriterInv', UNCHANGED <<ctl, wireVars, controlVars, processVars>>,
         UNCHANGED <<performed, tries>>
  PROVE  IInv' /\ Refines /\ Carries
<1>1. LinkMoves
  BY DEF wireVars, LinkMoves, IInv, WireInv
<1>2. Answered /\ commands' \subseteq commands
  BY SameAnswered DEF wireVars
<1>3. Kept(rec, rec') /\ WorkQuiet /\ RetryQuiet
  BY KeptStays DEF controlVars, WorkQuiet, RetryQuiet
<1>4. ProcessQuiet
  BY DEF processVars, ProcessQuiet
<1>5. QED
  BY <1>1, <1>2, <1>3, <1>4, CalmStep

LEMMA WriterStays ==
  ASSUME IInv, UNCHANGED writer
  PROVE  WriterInv'
  BY DEF IInv, WriterInv

LEMMA JoinStep ==
  ASSUME IInv, Join
  PROVE  IInv' /\ Refines /\ Carries
<1>1. TypeOK'
  BY DEF Join, IInv, TypeOK, wireVars, controlVars, processVars, historyVars
<1>2. QED
  BY <1>1, WriterStays, CloudCalm DEF Join, historyVars

LEMMA WriterType ==
  ASSUME TypeOK, NEW action \in Actions, NEW recovers \in BOOLEAN
  PROVE  [action |-> action, seen |-> ctl, attempt |-> 1, recovers |-> recovers] \in Writers
  BY DEF TypeOK, Writers

LEMMA ReadStep ==
  ASSUME IInv, NEW caller \in Callers, NEW action \in Actions \ {"none"}, NEW recovers \in BOOLEAN,
         ReadToBegin(caller, action, recovers)
  PROVE  writer' \in [Callers -> Writers] /\ WriterInv'
<1> DEFINE w == [action |-> action, seen |-> ctl, attempt |-> 1, recovers |-> recovers]
<1>1. w \in Writers /\ w.action = action /\ w.seen = ctl
  BY WriterType DEF IInv
<1>2. /\ writer \in [Callers -> Writers] /\ writer' = [writer EXCEPT ![caller] = w]
      /\ ctl.epoch < MaxEpoch
  BY DEF IInv, TypeOK, ReadToBegin
<1> HIDE DEF w
<1>3. writer' \in [Callers -> Writers]
  BY <1>1, <1>2
<1>4. WriterInv'
  BY <1>1, <1>2 DEF IInv, WriterInv
<1>5. QED
  BY <1>3, <1>4

LEMMA ExecuteStep ==
  ASSUME IInv, NEW action \in Buttons, Execute(action)
  PROVE  IInv' /\ Refines /\ Carries
<1>1. action \in Actions \ {"none"} /\ "lock" \in Callers /\ FALSE \in BOOLEAN
  BY ControlBounds DEF Actions, Callers
<1>2. writer' \in [Callers -> Writers] /\ WriterInv'
  BY <1>1, ReadStep DEF Execute
<1>3. TypeOK'
  BY <1>2 DEF Execute, IInv, TypeOK, wireVars, controlVars, processVars, historyVars
<1>4. QED
  BY <1>2, <1>3, CloudCalm DEF Execute, historyVars

LEMMA FaultType ==
  ASSUME TypeOK, NEW kind, Fault(kind)
  PROVE  events' \in 0..MaxEvents
  BY ControlBounds DEF Fault, TypeOK

LEMMA PublishFailsStep ==
  ASSUME IInv, PublishFails
  PROVE  IInv' /\ Refines /\ Carries
<1>1. events' \in 0..MaxEvents
  BY FaultType DEF PublishFails, IInv
<1>2. ctl.epoch \in Epochs
  <2>1. ctl.action # "none"
    BY DEF PublishFails, IInv, OperationInv, PhasesOf, Pending
  <2>2. QED
    BY <2>1, OperationFields, Bounds DEF IInv, TypeOK, OperationInv
<1>3. TypeOK'
  BY <1>1, <1>2 DEF PublishFails, IInv, TypeOK, wireVars, controlVars, processVars
<1>4. QED
  BY <1>3, WriterStays, CloudCalm DEF PublishFails

LEMMA DriveTimesOutStep ==
  ASSUME IInv, DriveTimesOut
  PROVE  IInv' /\ Refines /\ Carries
<1>1. TypeOK'
  BY DEF DriveTimesOut, IInv, TypeOK, wireVars, controlVars, processVars, historyVars
<1>2. QED
  BY <1>1, WriterStays, CloudCalm DEF DriveTimesOut, historyVars

-----------------------------------------------------------------------------
(* The calm steps: the process, its wakes and the daemon's timers.         *)

(* Nothing happens on the wire or to the cloud.                            *)
LEMMA DaemonCalm ==
  ASSUME IInv, TypeOK', UNCHANGED <<cloudVars, link, commands, results>>,
         UNCHANGED <<performed, tries>>,
         Kept(rec, rec'), WorkQuiet, RetryQuiet, ProcessQuiet
  PROVE  IInv' /\ Refines /\ Carries
<1>1. UNCHANGED <<ctl, writer>>
  BY DEF cloudVars
<1>2. LinkMoves /\ Answered /\ commands' \subseteq commands
  BY SameAnswered DEF LinkMoves, IInv, WireInv
<1>3. QED
  BY <1>1, <1>2, WriterStays, CalmStep

LEMMA LaunchAuthorizedStep ==
  ASSUME IInv, LaunchAuthorized
  PROVE  IInv' /\ Refines /\ Carries
<1>1. work' \in Works /\ work'.op = "spawn" /\ work'.attempt = work.attempt /\ work.op = "launch"
  BY DEF LaunchAuthorized, IInv, TypeOK, Works
<1>2. TypeOK'
  BY <1>1 DEF LaunchAuthorized, IInv, TypeOK, cloudVars, wireVars, processVars, historyVars
<1>3. Kept(rec, rec') /\ WorkQuiet /\ RetryQuiet
  BY <1>1, KeptStays DEF LaunchAuthorized, WorkQuiet, RetryQuiet, Launches
<1>4. ProcessQuiet
  BY DEF LaunchAuthorized, processVars, ProcessQuiet
<1>5. QED
  BY <1>2, <1>3, <1>4, DaemonCalm DEF LaunchAuthorized, wireVars, historyVars

LEMMA SessionMissingStep ==
  ASSUME IInv, SessionMissing
  PROVE  IInv' /\ Refines /\ Carries
<1>1. rec \in Records /\ work \in Works /\ rec.epoch # 0 /\ work.session \in Sessions
  BY DEF SessionMissing, IInv, TypeOK, RecordInv, Launches, Works
<1>2. work' \in Works /\ work'.op = "launch" /\ work'.attempt = work.attempt /\ work.op = "spawn"
  BY <1>1, Bounds DEF SessionMissing, Works
<1>3. events' \in 0..MaxEvents
  BY FaultType DEF SessionMissing, IInv, TypeOK
<1>4. [kind |-> "gone", epoch |-> rec.epoch, seq |-> 0, session |-> work.session] \in Reports
  BY <1>1, RecordFields, Bounds DEF Reports
<1>5. reports' \subseteq Reports /\ lost' \subseteq Sessions
  BY <1>1, <1>4 DEF SessionMissing, IInv, TypeOK
<1>6. TypeOK'
  BY <1>2, <1>3, <1>5 DEF SessionMissing, IInv, TypeOK, cloudVars, historyVars
<1>7. Kept(rec, rec') /\ WorkQuiet /\ RetryQuiet
  BY <1>2, KeptStays DEF SessionMissing, WorkQuiet, RetryQuiet, Launches
<1>8. ProcessQuiet
  BY DEF SessionMissing, ProcessQuiet
<1>9. QED
  BY <1>6, <1>7, <1>8, DaemonCalm DEF SessionMissing, historyVars

LEMMA LaunchUnconfirmedStep ==
  ASSUME IInv, LaunchUnconfirmed
  PROVE  IInv' /\ Refines /\ Carries
<1>1. proc' \in Processes /\ proc'.up = proc.up /\ work' \in Works /\ work'.op = "idle"
  BY NoneTypes DEF LaunchUnconfirmed, IInv, TypeOK, Processes
<1>2. events' \in 0..MaxEvents
  BY FaultType DEF LaunchUnconfirmed, IInv, TypeOK
<1>3. TypeOK'
  BY <1>1, <1>2 DEF LaunchUnconfirmed, IInv, TypeOK, cloudVars, wireVars, historyVars
<1>4. Kept(rec, rec') /\ WorkQuiet /\ RetryQuiet
  BY <1>1, KeptStays DEF LaunchUnconfirmed, WorkQuiet, RetryQuiet
<1>5. ProcessQuiet
  BY <1>1 DEF LaunchUnconfirmed, ProcessQuiet
<1>6. QED
  BY <1>3, <1>4, <1>5, DaemonCalm DEF LaunchUnconfirmed, wireVars, historyVars

LEMMA RetryFiresStep ==
  ASSUME IInv, RetryFires
  PROVE  IInv' /\ Refines /\ Carries
<1>1. /\ retry' \in Retries /\ retry'.epoch = retry.epoch /\ retry'.attempt = retry.attempt
      /\ retry.state # "none"
  BY DEF RetryFires, IInv, TypeOK, Retries
<1>2. TypeOK'
  BY <1>1 DEF RetryFires, IInv, TypeOK, cloudVars, wireVars, processVars, historyVars
<1>3. Kept(rec, rec') /\ WorkQuiet /\ RetryQuiet
  BY <1>1, KeptStays DEF RetryFires, WorkQuiet, RetryQuiet
<1>4. ProcessQuiet
  BY DEF RetryFires, processVars, ProcessQuiet
<1>5. QED
  BY <1>2, <1>3, <1>4, DaemonCalm DEF RetryFires, wireVars, historyVars

(* Nothing is written in the control record either.                        *)
LEMMA ProcessCalm ==
  ASSUME IInv, TypeOK', UNCHANGED <<cloudVars, wireVars, controlVars, historyVars>>, ProcessQuiet
  PROVE  IInv' /\ Refines /\ Carries
<1>1. Kept(rec, rec') /\ WorkQuiet /\ RetryQuiet
  BY KeptStays DEF controlVars, WorkQuiet, RetryQuiet
<1>2. QED
  BY <1>1, DaemonCalm DEF wireVars, historyVars

LEMMA ProcessExitsStep ==
  ASSUME IInv, ProcessExits
  PROVE  IInv' /\ Refines /\ Carries
<1>1. proc' \in Processes /\ ~proc'.up /\ proc.launch \in 0..MaxEpoch
  BY DEF ProcessExits, IInv, TypeOK, Processes
<1>2. [kind |-> "exit", launch |-> proc.launch] \in Callbacks
  BY <1>1 DEF Callbacks
<1>3. callbacks' \in Seq(Callbacks)
  BY <1>2 DEF ProcessExits, IInv, TypeOK
<1>4. events' \in 0..MaxEvents
  BY FaultType DEF ProcessExits, IInv
<1>5. TypeOK'
  BY <1>1, <1>3, <1>4 DEF ProcessExits, IInv, TypeOK, cloudVars, wireVars, controlVars, historyVars
<1>6. ProcessQuiet
  BY <1>1 DEF ProcessExits, ProcessQuiet
<1>7. QED
  BY <1>5, <1>6, ProcessCalm DEF ProcessExits

LEMMA WakeStep ==
  ASSUME IInv, Wake
  PROVE  IInv' /\ Refines /\ Carries
<1>1. TypeOK'
  BY DEF Wake, IInv, TypeOK, cloudVars, wireVars, controlVars, historyVars
<1>2. ProcessQuiet
  BY DEF Wake, ProcessQuiet
<1>3. QED
  BY <1>1, <1>2, ProcessCalm DEF Wake

LEMMA WakeAuthorizedStep ==
  ASSUME IInv, WakeAuthorized
  PROVE  IInv' /\ Refines /\ Carries
<1>1. TypeOK'
  BY DEF WakeAuthorized, IInv, TypeOK, cloudVars, wireVars, controlVars, historyVars
<1>2. ProcessQuiet
  BY DEF WakeAuthorized, ProcessQuiet
<1>3. QED
  BY <1>1, <1>2, ProcessCalm DEF WakeAuthorized

LEMMA WokenStep ==
  ASSUME IInv, Woken
  PROVE  IInv' /\ Refines /\ Carries
<1>1. restart \in 0..MaxEpoch /\ proc \in Processes /\ callbacks \in Seq(Callbacks)
  BY DEF IInv, TypeOK
<1>2. [kind |-> "wake", launch |-> restart] \in Callbacks
  BY <1>1 DEF Callbacks
<1>3. proc' \in Processes
  BY <1>1 DEF Woken, Processes
<1>4. callbacks' \in Seq(Callbacks)
  BY <1>1, <1>2 DEF Woken
<1>5. events' \in 0..MaxEvents
  BY FaultType DEF Woken, IInv, TypeOK
<1>6. TypeOK'
  BY <1>3, <1>4, <1>5 DEF Woken, IInv, TypeOK, cloudVars, wireVars, controlVars, historyVars
<1>7. ProcessQuiet
  BY DEF Woken, ProcessQuiet
<1>8. QED
  BY <1>6, <1>7, ProcessCalm DEF Woken

LEMMA CallbackStep ==
  ASSUME IInv, Callback
  PROVE  IInv' /\ Refines /\ Carries
<1> DEFINE c == Head(callbacks)
           next == IF c.kind = "exit" THEN "stopped" ELSE "running"
           known == rec.launch = c.launch
                    /\ rec.phase = IF c.kind = "exit" THEN "running" ELSE "stopped"
           moved == [rec EXCEPT !.phase = next]
<1>1. /\ rec \in Records /\ callbacks \in Seq(Callbacks) /\ callbacks # <<>>
      /\ callbacks' = Tail(callbacks) /\ work'.op = "idle"
      /\ rec' = IF known THEN Captured(moved) ELSE rec
      /\ Report(rec') \/ UNCHANGED reports
  BY NoneTypes DEF Callback, Idle, IInv, TypeOK
<1>2. next \in {"stopped", "running"}
  OBVIOUS
<1>3. known => rec.phase \in {"stopped", "running"}
  OBVIOUS
<1>4. rec.launch # 0 => rec.epoch # 0
  BY <1>1, RecordFields DEF IInv, RecordInv
<1> HIDE DEF next, known
<1>5. moved \in Records
  BY <1>1, <1>2 DEF Records
<1>6. known => Kept(rec, moved) /\ (moved.launch # 0 => moved.epoch # 0)
  BY <1>1, <1>2, <1>3, <1>4 DEF Records, Kept
<1> HIDE DEF moved
<1>7. rec' \in Records
  BY <1>1, <1>5, <1>6, CapturedKept
<1>8. Kept(rec, rec')
  <2>1. CASE known
    <3>1. rec' = Captured(moved) /\ Kept(rec, moved) /\ Kept(moved, Captured(moved))
          /\ Captured(moved).phase = moved.phase
      BY <1>1, <1>5, <1>6, <2>1, CapturedKept
    <3>2. QED
      BY <3>1 DEF Kept
  <2>2. CASE ~known
    BY <1>1, <2>2, KeptStays
  <2>3. QED
    BY <2>1, <2>2
<1>9. reports' \subseteq Reports
  BY <1>1, <1>7, ReportReports DEF IInv, TypeOK, Report
<1>10. callbacks' \in Seq(Callbacks)
  BY <1>1
<1>11. TypeOK'
  BY <1>7, <1>9, <1>10 DEF Callback, IInv, TypeOK, cloudVars, historyVars
<1>12. WorkQuiet /\ RetryQuiet /\ ProcessQuiet
  BY <1>1 DEF Callback, WorkQuiet, RetryQuiet, ProcessQuiet
<1>13. QED
  BY <1>8, <1>11, <1>12, DaemonCalm DEF Callback, historyVars

LEMMA UpdatedStep ==
  ASSUME IInv, Updated
  PROVE  IInv' /\ Refines /\ Carries
<1> DEFINE moved == [rec EXCEPT !.session = proc.session]
<1>1. /\ rec \in Records /\ work'.op = "idle" /\ proc.session \in Sessions
      /\ rec' = Captured(moved) /\ Report(rec')
      /\ UNCHANGED <<cloudVars, link, commands, results, work, retry, processVars, historyVars>>
  BY NoneTypes DEF Updated, Idle, IInv, TypeOK, Processes
<1>2. rec.launch # 0 => rec.epoch # 0
  BY <1>1, RecordFields DEF IInv, RecordInv
<1>3. moved \in Records /\ Kept(rec, moved) /\ (moved.launch # 0 => moved.epoch # 0)
  BY <1>1, <1>2 DEF Records, Kept
<1>4. moved.phase = rec.phase
  BY <1>1 DEF Records
<1> HIDE DEF moved
<1>5. rec' \in Records /\ Kept(rec, rec')
  <2>1. /\ Captured(moved) \in Records /\ Kept(moved, Captured(moved))
        /\ Captured(moved).phase = moved.phase
    BY <1>3, CapturedKept
  <2>2. QED
    BY <1>1, <1>3, <1>4, <2>1 DEF Kept
<1>6. reports' \subseteq Reports
  BY <1>1, <1>5, ReportReports DEF IInv
<1>7. events' \in 0..MaxEvents
  BY FaultType DEF Updated, IInv
<1>8. TypeOK'
  BY <1>1, <1>5, <1>6, <1>7 DEF IInv, TypeOK, cloudVars, processVars, historyVars
<1>9. WorkQuiet /\ RetryQuiet /\ ProcessQuiet
  BY <1>1 DEF WorkQuiet, RetryQuiet, ProcessQuiet, processVars
<1>10. QED
  BY <1>1, <1>5, <1>8, <1>9, DaemonCalm DEF historyVars

-----------------------------------------------------------------------------
(* The connection: what is lost with it, and `ready`.                      *)

LEMMA WireCalm ==
  ASSUME IInv, TypeOK', UNCHANGED <<cloudVars, controlVars, processVars>>,
         UNCHANGED <<performed, tries>>,
         commands' \subseteq commands, results' \subseteq results, LinkMoves
  PROVE  IInv' /\ Refines /\ Carries
<1>1. UNCHANGED <<ctl, writer>>
  BY DEF cloudVars
<1>2. Kept(rec, rec') /\ WorkQuiet /\ RetryQuiet
  BY KeptStays DEF controlVars, WorkQuiet, RetryQuiet
<1>3. ProcessQuiet
  BY DEF processVars, ProcessQuiet
<1>4. QED
  BY <1>1, <1>2, <1>3, SameAnswered, WriterStays, CalmStep

LEMMA DisconnectStep ==
  ASSUME IInv, Disconnect
  PROVE  IInv' /\ Refines /\ Carries
<1>1. /\ link \in {"up"} \cup Handshakes /\ link' = "down"
      /\ commands' \subseteq commands /\ results' \subseteq results /\ reports' \subseteq reports
  BY DEF Disconnect, Connected
<1>2. events' \in 0..MaxEvents
  BY FaultType DEF Disconnect, IInv
<1>3. TypeOK'
  BY <1>1, <1>2 DEF Disconnect, IInv, TypeOK, cloudVars, controlVars, processVars, historyVars
<1>4. LinkMoves
  BY <1>1 DEF LinkMoves, Handshakes
<1>5. QED
  BY <1>1, <1>3, <1>4, WireCalm DEF Disconnect, historyVars

LEMMA ReadyStep ==
  ASSUME IInv, Ready
  PROVE  IInv' /\ Refines /\ Carries
<1>1. /\ link' \in Handshakes /\ results' \subseteq results /\ reports' \subseteq reports
      /\ link = "boot" => results' = {}
  BY DEF Ready, Handshakes
<1>2. ctl.phase \in Pending \cup Settled => ctl.epoch \in Epochs
  <2>1. ctl.phase \in Pending \cup Settled => ctl.action # "none"
    BY DEF IInv, OperationInv, PhasesOf, Pending, Settled
  <2>2. QED
    BY <2>1, OperationFields, Bounds DEF IInv, TypeOK, OperationInv
<1>3. stranded' \subseteq Epochs
  BY <1>2 DEF Ready, IInv, TypeOK
<1>4. outrun' \subseteq 0..MaxEpoch
  <2>1. ctl.epoch \in 0..MaxEpoch /\ outrun \subseteq 0..MaxEpoch
    BY OperationFields DEF IInv, TypeOK
  <2>2. QED
    BY <2>1 DEF Ready
<1>5. TypeOK'
  BY <1>1, <1>3, <1>4 DEF Ready, IInv, TypeOK, cloudVars, controlVars, processVars
<1>6. LinkMoves
  BY <1>1 DEF LinkMoves, Handshakes
<1>7. QED
  BY <1>1, <1>5, <1>6, WireCalm DEF Ready

LEMMA CrashStep ==
  ASSUME IInv, Crash
  PROVE  IInv' /\ Refines /\ Carries
<1>1. /\ UNCHANGED <<ctl, performed, writer>> /\ link' = "boot" /\ commands' = {}
      /\ results' \subseteq results /\ reports' \subseteq reports
      /\ rec' = NoRecord /\ work' = NoWork /\ retry' = NoRetry
      /\ proc' = NoProcess /\ restart' = 0 /\ wake' = "no"
      /\ tries' = [e \in Epochs |-> 0]
  BY DEF Crash, cloudVars
<1>2. events' \in 0..MaxEvents
  BY FaultType DEF Crash, IInv
<1>3. TypeOK'
  <2>1. callbacks' \in Seq(Callbacks) /\ tries' \in [Epochs -> Nat]
    BY <1>1 DEF Crash
  <2>2. QED
    BY <1>1, <1>2, <2>1, NoRecordType, NoneTypes, Bounds DEF Crash, IInv, TypeOK, cloudVars
<1>4. OperationInv' /\ Refines /\ Carries
  BY <1>1, OperationStays DEF IInv
<1>5. Grows
  <2>1. performed \in [Epochs -> 0..3] /\ performed' = performed
    BY <1>1 DEF IInv, TypeOK
  <2>2. QED
    BY <2>1 DEF Grows
<1>6. LinkMoves /\ Answered /\ commands' \subseteq commands
  BY <1>1, SameAnswered DEF LinkMoves
<1>7. WireInv'
  BY <1>1, <1>3, <1>5, <1>6, WireStep
<1>8. RecordInv'
  BY <1>1, NoRecordType, NoResultType, NoneTypes, OperationFields DEF IInv, TypeOK, RecordInv, Vouched, Launches
<1>9. DownInv'
  BY <1>1, NoRecordType, NoneTypes DEF DownInv
<1>10. StopInv'
  BY <1>1 DEF StopInv
<1>11. TriesInv'
  <2>1. \A e \in Epochs : tries'[e] = 0
    BY <1>1
  <2>2. ctl.epoch # 0 => ctl.epoch \in Epochs
    BY OperationFields, Bounds DEF IInv, TypeOK
  <2>3. QED
    BY <1>1, <2>1, <2>2, NoRecordType, NoneTypes, Bounds DEF TriesInv, Launches
<1>12. QED
  BY <1>1, <1>3, <1>4, <1>7, <1>8, <1>9, <1>10, <1>11, WriterStays DEF IInv

-----------------------------------------------------------------------------
(* The daemon: a command that is refused, or answered as before.           *)

LEMMA CommandFields ==
  ASSUME IInv, NEW c \in commands
  PROVE  /\ c.epoch \in Epochs /\ c.session \in Sessions /\ c.epoch <= ctl.epoch
         /\ c.epoch = ctl.epoch => Reached(ctl, c.step)
  BY DEF IInv, TypeOK, WireInv, Commands

LEMMA ReceiveFacts ==
  ASSUME IInv, NEW c, Receive(c)
  PROVE  /\ c \in commands /\ commands' \subseteq commands /\ UNCHANGED <<ctl, writer, link>>
         /\ UNCHANGED cloudVars
         /\ work.op = "idle" /\ LinkMoves /\ WriterInv'
<1>1. UNCHANGED <<cloudVars, link>> /\ link # "boot" /\ work.op = "idle"
  BY NoneTypes DEF Receive, Idle
<1>2. QED
  BY <1>1, WriterStays DEF Receive, LinkMoves, cloudVars

(* Of the daemon, only its record is repaired and its retry dropped.       *)
LEMMA HandledCalmly ==
  ASSUME IInv, NEW c, Receive(c), Answered, results' \subseteq Results,
         rec' = Repaired, UNCHANGED <<work, performed, tries, reports>>,
         refused' \subseteq Epochs, UNCHANGED <<stranded, outrun>>, events' \in 0..MaxEvents,
         retry' \in {retry, NoRetry},
         proc' \in {proc, [proc EXCEPT !.held = TRUE]},
         UNCHANGED <<restart, wake, callbacks, minted, lost>>
  PROVE  IInv' /\ Refines /\ Carries
<1>1. Kept(rec, rec') /\ rec' \in Records
  BY RepairedKept DEF IInv
<1>2. proc' \in Processes /\ proc'.up = proc.up /\ retry' \in Retries
  BY NoneTypes DEF IInv, TypeOK, Processes
<1>3. TypeOK'
  BY <1>1, <1>2, ReceiveFacts DEF IInv, TypeOK, cloudVars
<1>4. WorkQuiet /\ RetryQuiet /\ ProcessQuiet
  BY <1>2, ReceiveFacts, NoneTypes DEF WorkQuiet, RetryQuiet, ProcessQuiet
<1>5. QED
  BY <1>1, <1>3, <1>4, ReceiveFacts, CalmStep

LEMMA RefuseStep ==
  ASSUME IInv, NEW c, Receive(c), Refuse
  PROVE  IInv' /\ Refines /\ Carries
<1>1. Answered /\ results' \subseteq Results
  BY SameAnswered DEF Refuse, IInv, TypeOK
<1>2. QED
  BY <1>1, HandledCalmly DEF Refuse, processVars, historyVars, IInv, TypeOK

LEMMA ReplayStep ==
  ASSUME IInv, NEW c, Receive(c), NEW r, Replay(r),
         r \in {rec.stopResult, rec.resetResult, rec.startResult},
         r.phase = "stopped" => r.epoch = rec.epoch /\ rec.stopResult # NoResult
  PROVE  IInv' /\ Refines /\ Carries
<1>1. /\ UNCHANGED <<ctl, performed>> /\ Kept(rec, rec') /\ r \in Results
      /\ Vouched(ctl, performed, r)
  BY ReceiveFacts, RepairedKept, RecordFields DEF Replay, historyVars, IInv, TypeOK, RecordInv
<1>2. Answers(r)
  BY <1>1, RecordAnswers
<1>3. Answered /\ results' \subseteq Results
  BY <1>1, <1>2, AnswerAnswers DEF Replay, IInv
<1>4. QED
  BY <1>3, HandledCalmly DEF Replay, processVars, historyVars, IInv, TypeOK

-----------------------------------------------------------------------------
(* The daemon: a Stop.                                                     *)

(* The record is begun anew for a Stop it has not handled.                 *)
StopBegins(c) ==
  /\ rec' = [NoRecord EXCEPT !.epoch = c.epoch, !.phase = "stopping",
                 !.seq = IF Same(c) THEN rec.seq ELSE 0, !.session = rec.session]
  /\ work' = [NoWork EXCEPT !.op = "stop"] /\ retry' = NoRetry
  /\ UNCHANGED <<results, reports, processVars, historyVars, events>>

LEMMA StopBeginsStep ==
  ASSUME IInv, NEW c, c.step = "stop", Receive(c), StopBegins(c), ~Stale(c),
         ~(Same(c) /\ rec.stopResult # NoResult)
  PROVE  IInv' /\ Refines /\ Carries
<1>1. /\ c \in commands /\ c.epoch \in Epochs /\ c.epoch <= ctl.epoch /\ rec \in Records
      /\ c.epoch = ctl.epoch => Reached(ctl, "stop")
      /\ MaxEpoch \in Nat /\ Epochs = 1..MaxEpoch /\ rec.epoch \in 0..MaxEpoch
      /\ ctl.epoch \in 0..MaxEpoch /\ rec.epoch <= c.epoch
  <2>1. rec \in Records /\ ctl \in Operations
    BY DEF IInv, TypeOK
  <2>2. QED
    BY <2>1, ReceiveFacts, CommandFields, RecordFields, OperationFields, Bounds DEF Stale, Epochs
<1>2. /\ rec' \in Records /\ rec'.epoch = c.epoch /\ rec'.phase = "stopping" /\ rec'.launch = 0
      /\ rec'.stopResult = NoResult /\ rec'.resetResult = NoResult
      /\ rec'.startResult = NoResult /\ rec'.lastResult = NoResult
  <2> DEFINE seq == IF Same(c) THEN rec.seq ELSE 0
  <2>1. /\ NoRecord \in Records /\ seq \in Nat /\ rec.session \in Sessions
        /\ c.epoch \in 0..MaxEpoch
    BY <1>1, NoRecordType, RecordFields
  <2>2. rec' = [NoRecord EXCEPT !.epoch = c.epoch, !.phase = "stopping", !.seq = seq,
                                !.session = rec.session]
    BY DEF StopBegins
  <2> HIDE DEF seq
  <2>3. rec' \in Records
    BY <2>1, <2>2 DEF Records
  <2>4. QED
    BY <2>1, <2>2, <2>3, NoRecordType DEF Records
<1>3. /\ work' \in Works /\ work'.op = "stop" /\ retry' = NoRetry
      /\ UNCHANGED <<results, reports, proc, restart, wake, performed, tries>>
  BY NoneTypes DEF StopBegins, processVars, historyVars, Works
<1>4. TypeOK'
  BY <1>2, <1>3, ReceiveFacts, NoneTypes DEF StopBegins, IInv, TypeOK, cloudVars, processVars, historyVars
<1>5. OperationInv' /\ Refines /\ Carries
  BY <1>3, ReceiveFacts, OperationStays DEF IInv
<1>6. Grows
  <2>1. performed \in [Epochs -> 0..3] /\ performed' = performed
    BY <1>3 DEF IInv, TypeOK
  <2>2. QED
    BY <2>1 DEF Grows
<1>7. Answered /\ WireInv'
  BY <1>3, <1>4, <1>6, ReceiveFacts, SameAnswered, WireStep
<1>8. RecordInv'
  BY <1>1, <1>2, <1>3, ReceiveFacts, NoResultType DEF RecordInv, Vouched, Launches, NoResult
<1>9. DownInv'
  <2>1. ctl.action = "stop" /\ ctl.epoch # 0 /\ performed[ctl.epoch] >= 1 =>
          c.epoch = ctl.epoch /\ ~proc.up /\ restart = 0 /\ wake = "no"
    BY <1>1 DEF IInv, DownInv
  <2>2. QED
    BY <1>2, <1>3, <2>1, ReceiveFacts DEF DownInv
<1>10. StopInv'
  <2>1. HandledStays
    BY <1>1, <1>2 DEF HandledStays, Handled, Same
  <2>2. QED
    BY <1>3, <1>4, <1>7, <2>1, ReceiveFacts, StopStep
<1>11. TriesInv'
  <2>1. ~Handled(rec, c.epoch)
    BY <1>1 DEF Handled, Same, Stale
  <2>2. tries[c.epoch] = 0
    <3>1. ~(tries[c.epoch] > 0) /\ tries[c.epoch] \in Nat
      BY <1>1, <2>1 DEF IInv, StopInv, TypeOK
    <3>2. QED
      BY <3>1
  <2>3. \A e \in Epochs : tries[e] <= MaxAttempts /\ (tries[e] > 0 => e <= rec'.epoch)
    BY <1>1, <1>2 DEF IInv, TriesInv
  <2>4. ctl.epoch # 0 /\ ctl.phase # "failed" => (tries[ctl.epoch] > 0 => Reached(ctl, "start"))
    BY DEF IInv, TriesInv
  <2>5. QED
    BY <1>2, <1>3, <2>2, <2>3, <2>4, ReceiveFacts, NoneTypes DEF TriesInv, Launches
<1>12. QED
  BY <1>4, <1>5, <1>7, <1>8, <1>9, <1>10, <1>11, ReceiveFacts DEF IInv

LEMMA StopCommandStep ==
  ASSUME IInv, NEW c \in commands, StopCommand(c)
  PROVE  IInv' /\ Refines /\ Carries
<1>1. c.step = "stop" /\ Receive(c)
  BY DEF StopCommand
<1>2. CASE Refuse
  BY <1>1, <1>2, RefuseStep
<1>3. CASE rec.stopResult # NoResult /\ Replay(rec.stopResult)
  <2>1. rec.stopResult.phase = "stopped" => rec.stopResult.epoch = rec.epoch
    BY DEF IInv, RecordInv
  <2>2. QED
    BY <1>1, <1>3, <2>1, ReplayStep
<1>4. CASE StopBegins(c) /\ ~Stale(c) /\ ~(Same(c) /\ rec.stopResult # NoResult)
  BY <1>1, <1>4, StopBeginsStep
<1>5. QED
  BY <1>2, <1>3, <1>4 DEF StopCommand, StopBegins

(* Where the daemon works, its record's operation has begun.               *)
LEMMA RecordEpoch ==
  ASSUME IInv, rec.phase # "none"
  PROVE  /\ rec \in Records /\ rec.epoch \in Epochs /\ rec.epoch <= ctl.epoch
         /\ rec.epoch \in 1..ctl.epoch /\ rec.seq \in Nat /\ rec.session \in Sessions
         /\ ctl \in Operations /\ ctl.epoch \in 0..MaxEpoch
         /\ Length(ctl.action) \in 0..3 /\ Confirmed(ctl) \in 0..3
<1>1. /\ rec \in Records /\ ctl \in Operations /\ rec.epoch # 0 /\ rec.epoch <= ctl.epoch
      /\ ctl.phase \in PhasesOf(ctl.action)
  BY DEF IInv, TypeOK, RecordInv, OperationInv
<1>2. QED
  BY <1>1, RecordFields, OperationFields, LengthType, ConfirmedType, Bounds DEF Epochs

LEMMA SameGrows ==
  ASSUME TypeOK, UNCHANGED performed
  PROVE  Grows
<1>1. performed \in [Epochs -> 0..3] /\ performed' = performed
  BY DEF TypeOK
<1>2. QED
  BY <1>1 DEF Grows

(* A record keeps the operation, with another result or phase.             *)
LEMMA RecordVouched ==
  ASSUME IInv, ctl' = ctl, Grows
  PROVE  /\ Vouched(ctl', performed', rec.stopResult) /\ Vouched(ctl', performed', rec.resetResult)
         /\ Vouched(ctl', performed', rec.startResult) /\ Vouched(ctl', performed', rec.lastResult)
<1>1. /\ rec.stopResult \in Results /\ rec.resetResult \in Results
      /\ rec.startResult \in Results /\ rec.lastResult \in Results
  BY RecordFields DEF IInv, TypeOK
<1>2. QED
  BY <1>1, VouchedStays DEF IInv, RecordInv

LEMMA StopEndsStep ==
  ASSUME IInv, StopEnds
  PROVE  IInv' /\ Refines /\ Carries
<1> DEFINE session == IF proc.up THEN proc.session ELSE rec.session
           result == [epoch |-> rec.epoch, phase |-> "stopped", seq |-> rec.seq + 1,
                      session |-> session]
<1>1. /\ work.op = "stop" /\ wake = "no" /\ rec.phase = "stopping"
      /\ rec' = [rec EXCEPT !.phase = "stopped", !.session = session, !.seq = rec.seq + 1,
                            !.stopResult = result, !.lastResult = result]
      /\ Answer(result)
      /\ proc' = NoProcess /\ restart' = 0 /\ work' = NoWork /\ Performs(rec.epoch, 1)
      /\ UNCHANGED <<cloudVars, link, commands, reports, retry, wake, callbacks, minted, lost,
                     tries, stranded, refused, outrun, events>>
      /\ ctl' = ctl
  BY DEF StopEnds, WakeEnded, IInv, RecordInv, cloudVars
<1>2. /\ rec \in Records /\ rec.epoch \in Epochs /\ rec.epoch <= ctl.epoch
      /\ rec.epoch \in 1..ctl.epoch /\ rec.seq \in Nat /\ session \in Sessions
      /\ ctl.epoch \in 0..MaxEpoch /\ Length(ctl.action) \in 0..3 /\ Confirmed(ctl) \in 0..3
      /\ ctl.action \in Actions
  <2>1. proc.session \in Sessions /\ ctl \in Operations
    BY DEF IInv, TypeOK, Processes
  <2>2. QED
    BY <1>1, <2>1, RecordEpoch, OperationFields
<1>3. result \in Results /\ result.epoch = rec.epoch /\ result.phase = "stopped" /\ result # NoResult
  <2>1. "stopped" \in ResultPhases
    BY DEF ResultPhases
  <2> HIDE DEF session
  <2>2. QED
    BY <1>2, <2>1, ResultType
<1> HIDE DEF session, result
<1>4. rec' \in Records
  <2>1. rec.seq + 1 \in Nat
    BY <1>2
  <2>2. QED
    BY <1>1, <1>2, <1>3, <2>1 DEF Records
<1>5. /\ rec'.epoch = rec.epoch /\ rec'.launch = rec.launch /\ rec'.phase = "stopped"
      /\ rec'.stopResult = result /\ rec'.lastResult = result
      /\ rec'.resetResult = rec.resetResult /\ rec'.startResult = rec.startResult
  BY <1>1, <1>2 DEF Records
<1>6. rec.epoch = ctl.epoch => Reached(ctl, "stop")
  BY <1>1 DEF IInv, RecordInv
<1>7. /\ Grows /\ performed'[rec.epoch] >= 1
      /\ \A d \in Epochs : d # rec.epoch => performed'[d] = performed[d]
      /\ OperationInv' /\ Refines /\ Carries
  <2>1. rec.epoch = ctl.epoch /\ ctl.phase # "failed" =>
          1 <= Length(ctl.action) /\ 1 <= Confirmed(ctl) + 1
    BY <1>2, <1>6, LengthType DEF Reached
  <2>2. QED
    BY <1>1, <1>2, <2>1, Taking
<1>8. Vouched(ctl', performed', result) /\ Answers(result)
  BY <1>1, <1>2, <1>3, <1>5, <1>7 DEF Vouched, Answers, Handled
<1>9. Answered /\ results' \subseteq Results
  BY <1>1, <1>3, <1>8, AnswerAnswers DEF IInv
<1>10. TypeOK'
  BY <1>1, <1>4, <1>7, <1>9, NoneTypes, Bounds DEF IInv, TypeOK, cloudVars, Grows
<1>11. LinkMoves /\ WriterInv' /\ WireInv'
  <2>1. LinkMoves
    BY <1>1 DEF LinkMoves, IInv, WireInv
  <2>2. UNCHANGED writer
    BY <1>1 DEF cloudVars
  <2>3. QED
    BY <1>1, <1>7, <1>9, <1>10, <2>1, <2>2, WireStep, WriterStays
<1>12. RecordInv'
  BY <1>1, <1>2, <1>3, <1>5, <1>7, <1>8, RecordVouched, NoneTypes DEF IInv, RecordInv, Launches
<1>13. DownInv'
  <2>1. ctl.action = "stop" /\ ctl.epoch # 0 /\ performed'[ctl.epoch] >= 1 =>
          rec.epoch = ctl.epoch
    BY <1>1, <1>2, <1>7, Bounds DEF IInv, DownInv
  <2>2. QED
    BY <1>1, <1>5, <2>1, NoneTypes DEF DownInv
<1>14. StopInv'
  <2>1. HandledStays
    BY <1>3, <1>5 DEF HandledStays, Handled
  <2>2. QED
    BY <1>1, <1>9, <1>10, <1>11, <2>1, StopStep
<1>15. TriesInv'
  BY <1>1, <1>2, <1>5, NoneTypes DEF IInv, TriesInv, Launches
<1>16. QED
  BY <1>7, <1>10, <1>11, <1>12, <1>13, <1>14, <1>15 DEF IInv

LEMMA StopFailsStep ==
  ASSUME IInv, StopFails
  PROVE  IInv' /\ Refines /\ Carries
<1> DEFINE result == [epoch |-> rec.epoch, phase |-> "failed", seq |-> rec.seq + 1,
                      session |-> NoSession]
<1>1. /\ work.op = "stop" /\ rec.phase = "stopping"
      /\ rec' = [rec EXCEPT !.seq = rec.seq + 1, !.stopResult = result, !.lastResult = result]
      /\ Answer(result)
      /\ proc' = [proc EXCEPT !.held = TRUE] /\ work' = NoWork
      /\ UNCHANGED <<cloudVars, link, commands, reports, retry, restart, wake, callbacks, minted,
                     lost, historyVars>>
      /\ ctl' = ctl /\ performed' = performed /\ tries' = tries
  BY DEF StopFails, IInv, RecordInv, cloudVars, historyVars
<1>2. /\ rec \in Records /\ rec.epoch \in Epochs /\ rec.epoch <= ctl.epoch
      /\ rec.epoch \in 1..ctl.epoch /\ rec.seq \in Nat
  BY <1>1, RecordEpoch
<1>3. result \in Results /\ result.epoch = rec.epoch /\ result.phase = "failed" /\ result # NoResult
  <2>1. "failed" \in ResultPhases
    BY DEF ResultPhases
  <2>2. QED
    BY <1>2, <2>1, ResultType, Bounds
<1> HIDE DEF result
<1>4. rec' \in Records
  <2>1. rec.seq + 1 \in Nat
    BY <1>2
  <2>2. QED
    BY <1>1, <1>2, <1>3, <2>1 DEF Records
<1>5. /\ rec'.epoch = rec.epoch /\ rec'.launch = rec.launch /\ rec'.phase = "stopping"
      /\ rec'.stopResult = result /\ rec'.lastResult = result
      /\ rec'.resetResult = rec.resetResult /\ rec'.startResult = rec.startResult
  BY <1>1, <1>2 DEF Records
<1>6. OperationInv' /\ Refines /\ Carries /\ Grows
  BY <1>1, OperationStays, SameGrows DEF IInv
<1>7. Vouched(ctl', performed', result) /\ Answers(result)
  BY <1>1, <1>2, <1>3 DEF Vouched, Answers
<1>8. Answered /\ results' \subseteq Results
  BY <1>1, <1>3, <1>7, AnswerAnswers DEF IInv
<1>9. proc' \in Processes /\ proc'.up = proc.up /\ events' \in 0..MaxEvents
  <2>1. proc' \in Processes /\ proc'.up = proc.up
    BY <1>1 DEF IInv, TypeOK, Processes
  <2>2. events' \in 0..MaxEvents
    BY FaultType DEF StopFails, IInv, TypeOK
  <2>3. QED
    BY <2>1, <2>2
<1>10. TypeOK'
  BY <1>1, <1>4, <1>8, <1>9, NoneTypes DEF IInv, TypeOK, cloudVars, historyVars
<1>11. LinkMoves /\ WriterInv' /\ WireInv'
  <2>1. LinkMoves
    BY <1>1 DEF LinkMoves, IInv, WireInv
  <2>2. UNCHANGED writer
    BY <1>1 DEF cloudVars
  <2>3. QED
    BY <1>1, <1>6, <1>8, <1>10, <2>1, <2>2, WireStep, WriterStays
<1>12. RecordInv'
  BY <1>1, <1>2, <1>3, <1>5, <1>6, <1>7, RecordVouched, NoneTypes DEF IInv, RecordInv, Launches
<1>13. DownInv'
  <2>1. ProcessQuiet
    BY <1>1, <1>9 DEF ProcessQuiet
  <2>2. QED
    BY <1>1, <1>5, <1>10, <2>1, DownStep
<1>14. StopInv'
  <2>1. HandledStays
    BY <1>3, <1>5 DEF HandledStays, Handled
  <2>2. QED
    BY <1>1, <1>8, <1>10, <1>11, <2>1, StopStep
<1>15. TriesInv'
  BY <1>1, <1>2, <1>5, NoneTypes DEF IInv, TriesInv, Launches
<1>16. QED
  BY <1>6, <1>10, <1>11, <1>12, <1>13, <1>14, <1>15 DEF IInv

-----------------------------------------------------------------------------
(* The daemon: the workspace is reset.                                     *)

(* The workspace is cleared, between the Stop and the Start of an operation.*)
Clears(result) ==
  /\ rec' = [rec EXCEPT !.phase = "workspace-reset", !.seq = @ + 1,
               !.session = NoSession, !.report = {},
               !.resetResult = result, !.lastResult = result]
  /\ Answer(result) /\ Performs(rec.epoch, 2)
  /\ UNCHANGED <<reports, work, retry, processVars, tries, stranded, refused, outrun, events>>

LEMMA ClearsStep ==
  ASSUME IInv, NEW c, c.step = "reset-workspace", Receive(c), Same(c),
         rec.stopResult.phase = "stopped", rec.phase = "stopped", rec.startResult = NoResult,
         NEW result,
         result = [epoch |-> rec.epoch, phase |-> "workspace-reset", seq |-> rec.seq + 1,
                   session |-> NoSession],
         Clears(result)
  PROVE  IInv' /\ Refines /\ Carries
<1>1. /\ rec' = [rec EXCEPT !.phase = "workspace-reset", !.seq = rec.seq + 1,
                   !.session = NoSession, !.report = {},
                   !.resetResult = result, !.lastResult = result]
      /\ Answer(result) /\ Performs(rec.epoch, 2)
      /\ UNCHANGED <<reports, work, retry, processVars, tries, stranded, refused, outrun, events>>
      /\ c \in commands /\ commands' \subseteq commands /\ UNCHANGED <<cloudVars, ctl, writer, link>>
      /\ work.op = "idle" /\ LinkMoves /\ WriterInv'
  BY ReceiveFacts DEF Clears
<1>2. /\ rec \in Records /\ rec.epoch \in Epochs /\ rec.epoch <= ctl.epoch
      /\ rec.epoch \in 1..ctl.epoch /\ rec.seq \in Nat
      /\ Length(ctl.action) \in 0..3 /\ Confirmed(ctl) \in 0..3
  BY RecordEpoch
<1>3. result \in Results /\ result.epoch = rec.epoch /\ result.phase = "workspace-reset"
      /\ result # NoResult
  <2>1. "workspace-reset" \in ResultPhases
    BY DEF ResultPhases
  <2>2. QED
    BY <1>2, <2>1, ResultType, Bounds
<1>4. rec' \in Records
  <2>1. NoSession \in Sessions /\ {} \subseteq Reports /\ rec.seq + 1 \in Nat
    BY <1>2, Bounds
  <2>2. QED
    BY <1>1, <1>2, <1>3, <2>1 DEF Records
<1>5. /\ rec'.epoch = rec.epoch /\ rec'.launch = rec.launch /\ rec'.phase = "workspace-reset"
      /\ rec'.resetResult = result /\ rec'.lastResult = result
      /\ rec'.stopResult = rec.stopResult /\ rec'.startResult = rec.startResult
  BY <1>1, <1>2 DEF Records
<1>6. rec.epoch = ctl.epoch => Reached(ctl, "reset-workspace")
  BY <1>1, CommandFields DEF Same
<1>7. /\ Grows /\ performed'[rec.epoch] >= 2
      /\ \A d \in Epochs : d # rec.epoch => performed'[d] = performed[d]
      /\ OperationInv' /\ Refines /\ Carries
  <2>1. rec.epoch = ctl.epoch /\ ctl.phase # "failed" =>
          2 <= Length(ctl.action) /\ 2 <= Confirmed(ctl) + 1
    BY <1>2, <1>6, Lengths DEF Reached
  <2>2. QED
    BY <1>1, <1>2, <2>1, Taking
<1>8. Vouched(ctl', performed', result) /\ Answers(result)
  BY <1>1, <1>2, <1>3, <1>7 DEF Vouched, Answers
<1>9. Answered /\ results' \subseteq Results
  BY <1>1, <1>3, <1>8, AnswerAnswers DEF IInv
<1>10. TypeOK'
  BY <1>1, <1>4, <1>7, <1>9 DEF IInv, TypeOK, cloudVars, processVars, Grows
<1>11. WireInv'
  BY <1>1, <1>7, <1>9, <1>10, WireStep
<1>12. RecordInv'
  BY <1>1, <1>2, <1>3, <1>5, <1>7, <1>8, RecordVouched DEF IInv, RecordInv, Launches
<1>13. DownInv'
  <2>1. performed'[ctl.epoch] >= 1 => ctl.action # "stop" \/ performed[ctl.epoch] >= 1
    <3>1. CASE rec.epoch = ctl.epoch
      BY <1>6, <3>1 DEF Reached
    <3>2. CASE rec.epoch # ctl.epoch
      <4>1. ctl.epoch \in Epochs
        <5>1. ctl.epoch \in 0..MaxEpoch /\ ctl.epoch # 0
          BY <1>2, OperationFields DEF IInv, TypeOK
        <5>2. QED
          BY <5>1, Bounds
      <4>2. QED
        BY <1>7, <3>2, <4>1
    <3>3. QED
      BY <3>1, <3>2
  <2>2. ProcessQuiet
    BY <1>1 DEF processVars, ProcessQuiet
  <2>3. QED
    BY <1>1, <1>5, <1>10, <2>1, <2>2, DownStep
<1>14. StopInv'
  <2>1. HandledStays
    BY <1>5 DEF HandledStays, Handled
  <2>2. QED
    BY <1>1, <1>9, <1>10, <2>1, StopStep
<1>15. TriesInv'
  BY <1>1, <1>2, <1>5 DEF IInv, TriesInv, Launches
<1>16. QED
  BY <1>1, <1>7, <1>10, <1>11, <1>12, <1>13, <1>14, <1>15 DEF IInv

LEMMA ResetCommandStep ==
  ASSUME IInv, NEW c \in commands, ResetCommand(c)
  PROVE  IInv' /\ Refines /\ Carries
<1> DEFINE result == [epoch |-> rec.epoch, phase |-> "workspace-reset", seq |-> rec.seq + 1,
                      session |-> NoSession]
<1>1. c.step = "reset-workspace" /\ Receive(c)
  BY DEF ResetCommand
<1>2. CASE Refuse
  BY <1>1, <1>2, RefuseStep
<1>3. CASE Same(c) /\ rec.stopResult.phase = "stopped" /\ Replay(rec.resetResult)
  <2>1. rec.stopResult # NoResult
    BY <1>3, NoResultType
  <2>2. rec.resetResult.phase # "stopped"
    BY DEF IInv, RecordInv
  <2>3. QED
    BY <1>1, <1>3, <2>2, ReplayStep
<1>4. CASE /\ Same(c) /\ rec.stopResult.phase = "stopped" /\ rec.phase = "stopped"
           /\ rec.startResult = NoResult /\ Clears(result)
  <2> HIDE DEF Clears
  <2>1. QED
    BY <1>1, <1>4, ClearsStep
<1>5. QED
  <2>1. \/ Refuse
        \/ Same(c) /\ rec.stopResult.phase = "stopped" /\ Replay(rec.resetResult)
        \/ /\ Same(c) /\ rec.stopResult.phase = "stopped" /\ rec.phase = "stopped"
           /\ rec.startResult = NoResult /\ Clears(result)
    BY DEF ResetCommand, Clears
  <2>2. QED
    BY <1>2, <1>3, <1>4, <2>1

-----------------------------------------------------------------------------
(* The daemon: a launch is attempted.                                      *)

(* The Computer has not taken the Stop that is current.                    *)
NotDown == ~(ctl.action = "stop" /\ ctl.epoch # 0 /\ performed[ctl.epoch] >= 1)

(* The record goes on with the operation e, or is begun anew for it.       *)
Resumes(r, e) ==
  /\ r \in Records
  /\ \/ r = NoRecord /\ rec.epoch < e
     \/ Kept(rec, r) /\ rec.epoch = e

LEMMA AttemptStep ==
  ASSUME IInv, NEW r, NEW e \in Epochs, NEW session \in Sessions, NEW attempt \in 1..MaxAttempts,
         Attempt(r, e, session, attempt), Resumes(r, e),
         e <= ctl.epoch, e = ctl.epoch => Reached(ctl, "start"), NotDown,
         tries[e] < attempt, retry' \in Retries, retry'.state # "none" => retry'.epoch < e,
         \A c \in commands' : c.step = "stop" /\ c.epoch = e => Handled(rec, e),
         commands' \subseteq commands, LinkMoves, proc' \in Processes, restart' \in 0..MaxEpoch,
         UNCHANGED <<cloudVars, link, results, reports, wake, callbacks, minted, lost, performed,
                     stranded, refused, outrun, events>>
  PROVE  IInv' /\ Refines /\ Carries
<1>1. /\ r \in Records /\ rec \in Records /\ ctl \in Operations /\ tries \in [Epochs -> Nat]
      /\ rec.epoch <= e /\ e \in 0..MaxEpoch /\ e # 0 /\ ctl.epoch \in 0..MaxEpoch
      /\ UNCHANGED <<ctl, writer, performed>> /\ Epochs = 1..MaxEpoch /\ MaxEpoch \in Nat
      /\ rec.epoch \in 0..MaxEpoch
  <2>1. rec \in Records /\ ctl \in Operations /\ tries \in [Epochs -> Nat]
    BY DEF IInv, TypeOK
  <2>2. e \in 0..MaxEpoch /\ e # 0 /\ UNCHANGED <<ctl, writer, performed>>
    BY Bounds DEF cloudVars
  <2>3. rec.epoch \in 0..MaxEpoch /\ ctl.epoch \in 0..MaxEpoch /\ MaxEpoch \in Nat
    BY <2>1, RecordFields, OperationFields, Bounds
  <2>4. QED
    BY <2>1, <2>2, <2>3 DEF Resumes, Epochs
<1>2. /\ rec' \in Records /\ rec'.epoch = e /\ rec'.phase = "starting" /\ rec'.launch = e
      /\ rec'.stopResult = r.stopResult /\ rec'.resetResult = r.resetResult
      /\ rec'.startResult = r.startResult /\ rec'.lastResult = r.lastResult
  <2>1. rec' = [r EXCEPT !.epoch = e, !.phase = "starting", !.launch = e, !.report = {}]
    BY DEF Attempt
  <2>2. {} \subseteq Reports
    OBVIOUS
  <2>3. QED
    BY <1>1, <2>1, <2>2 DEF Records
<1>3. work' \in Works /\ work'.op \in {"launch", "join"} /\ work'.attempt = attempt
  BY Bounds DEF Attempt, Works
<1>4. /\ tries' \in [Epochs -> Nat] /\ tries'[e] = tries[e] + 1
      /\ \A d \in Epochs : d # e => tries'[d] = tries[d]
  BY <1>1 DEF Attempt
<1>5. TypeOK'
  BY <1>2, <1>3, <1>4 DEF IInv, TypeOK, cloudVars
<1>6. OperationInv' /\ Refines /\ Carries /\ Grows
  BY <1>1, OperationStays, SameGrows DEF IInv
<1>7. Answered /\ WriterInv' /\ WireInv'
  BY <1>1, <1>5, <1>6, SameAnswered, WireStep, WriterStays
<1>8. RecordInv'
  <2>1. CASE r = NoRecord
    BY <1>1, <1>2, <1>3, <2>1, NoRecordType, NoResultType DEF RecordInv, Vouched, Launches
  <2>2. CASE Kept(rec, r) /\ rec.epoch = e
    BY <1>1, <1>2, <1>3, <2>2 DEF IInv, RecordInv, Kept, Launches
  <2>3. QED
    BY <2>1, <2>2 DEF Resumes
<1>9. DownInv'
  BY <1>1 DEF NotDown, DownInv
<1>10. StopInv'
  <2>1. HandledStays
    BY <1>1, <1>2 DEF HandledStays, Handled, Resumes, Kept
  <2>2. ASSUME NEW c \in commands', c.step = "stop", tries'[c.epoch] > 0
        PROVE  tries[c.epoch] > 0 \/ Handled(rec, c.epoch)
    <3>1. c.epoch \in Epochs
      BY <1>5 DEF TypeOK, Commands
    <3>2. QED
      BY <1>4, <2>2, <3>1
  <2>3. QED
    BY <1>1, <1>5, <1>7, <2>1, <2>2, StopStep
<1>11. TriesInv'
  <2>1. \A d \in Epochs : tries'[d] <= MaxAttempts /\ (tries'[d] > 0 => d <= e)
    <3>1. tries'[e] <= MaxAttempts
      BY <1>1, <1>4, Bounds
    <3>2. \A d \in Epochs : d # e => tries'[d] <= MaxAttempts /\ (tries'[d] > 0 => d <= e)
      BY <1>1, <1>4 DEF IInv, TriesInv
    <3>3. QED
      BY <1>1, <3>1, <3>2
  <2>2. ctl.epoch # 0 /\ ctl.phase # "failed" => (tries'[ctl.epoch] > 0 => Reached(ctl, "start"))
    <3>1. CASE ctl.epoch = e
      BY <3>1
    <3>2. CASE ctl.epoch # e /\ ctl.epoch # 0
      <4>1. ctl.epoch \in Epochs
        BY <1>1, <3>2
      <4>2. tries'[ctl.epoch] = tries[ctl.epoch]
        BY <1>4, <3>2, <4>1
      <4>3. QED
        BY <4>2 DEF IInv, TriesInv
    <3>3. QED
      BY <3>1, <3>2
  <2>3. tries'[e] > 0 /\ tries'[e] <= attempt
    BY <1>1, <1>4
  <2>4. retry'.state # "none" => retry'.epoch <= e /\ retry'.epoch # e
    BY <1>1 DEF Retries
  <2>5. QED
    BY <1>1, <1>2, <1>3, <2>1, <2>2, <2>3, <2>4 DEF TriesInv
<1>12. QED
  BY <1>5, <1>6, <1>7, <1>8, <1>9, <1>10, <1>11 DEF IInv

LEMMA RetryRunsStep ==
  ASSUME IInv, RetryRuns
  PROVE  IInv' /\ Refines /\ Carries
<1>1. /\ work.op = "idle" /\ retry.state = "fired" /\ retry' = NoRetry
      /\ retry' \in Retries /\ retry'.state = "none" /\ retry \in Retries
      /\ UNCHANGED <<cloudVars, wireVars, processVars, performed, stranded, refused, outrun, events>>
  BY NoneTypes DEF RetryRuns, Idle, IInv, TypeOK
<1>2. CASE rec.phase = "starting" /\ rec.epoch = retry.epoch /\ ~proc.up
  <2>1. Attempt(rec, rec.epoch, retry.session, retry.attempt)
    BY <1>2 DEF RetryRuns
  <2>2. /\ rec \in Records /\ rec.epoch \in Epochs /\ rec.epoch <= ctl.epoch
        /\ rec.epoch = ctl.epoch => Reached(ctl, "start")
    BY <1>2, RecordEpoch DEF IInv, RecordInv
  <2>3. tries[rec.epoch] > 0 /\ tries[rec.epoch] < retry.attempt
    BY <1>1, <1>2 DEF IInv, TriesInv
  <2>4. retry.session \in Sessions /\ retry.attempt \in 1..MaxAttempts
    <3>1. tries[rec.epoch] \in Nat /\ retry.session \in Sessions /\ retry.attempt \in 0..MaxAttempts
      BY <2>2 DEF IInv, TypeOK, Retries
    <3>2. QED
      BY <2>3, <3>1, Bounds
  <2>5. Resumes(rec, rec.epoch)
    BY <2>2 DEF Resumes, Kept
  <2>6. NotDown
    BY <1>2 DEF NotDown, IInv, DownInv
  <2>7. \A c \in commands' : c.step = "stop" /\ c.epoch = rec.epoch => Handled(rec, rec.epoch)
    BY <1>1, <2>3 DEF wireVars, IInv, StopInv
  <2>8. /\ commands' = commands /\ LinkMoves /\ proc' \in Processes /\ restart' \in 0..MaxEpoch
        /\ UNCHANGED <<link, results, reports, wake, callbacks, minted, lost>>
    BY <1>1 DEF wireVars, processVars, LinkMoves, IInv, WireInv, TypeOK
  <2>9. QED
    BY <1>1, <2>1, <2>2, <2>3, <2>4, <2>5, <2>6, <2>7, <2>8, AttemptStep
<1>3. CASE ~(rec.phase = "starting" /\ rec.epoch = retry.epoch /\ ~proc.up)
  <2>1. UNCHANGED <<rec, work, tries>>
    BY <1>3 DEF RetryRuns
  <2>2. TypeOK'
    BY <1>1, <2>1 DEF IInv, TypeOK, cloudVars, wireVars, processVars
  <2>3. Kept(rec, rec') /\ WorkQuiet /\ RetryQuiet /\ ProcessQuiet
    BY <1>1, <2>1, KeptStays DEF WorkQuiet, RetryQuiet, ProcessQuiet, processVars
  <2>4. QED
    BY <1>1, <2>1, <2>2, <2>3, DaemonCalm DEF wireVars
<1>4. QED
  BY <1>2, <1>3

LEMMA RetryOfType ==
  ASSUME TypeOK, NEW c
  PROVE  RetryOf(c) \in Retries /\ RetryOf(c) \in {retry, NoRetry}
  BY NoneTypes DEF RetryOf, TypeOK

(* A Start's command that is not older than the record.                    *)
LEMMA StartFresh ==
  ASSUME IInv, NEW c \in commands, c.step = "start", ~Stale(c)
  PROVE  /\ c.epoch \in Epochs /\ c.session \in Sessions /\ c.epoch <= ctl.epoch
         /\ c.epoch = ctl.epoch => Reached(ctl, "start")
         /\ rec.epoch <= c.epoch /\ NotDown /\ rec.epoch \in 0..MaxEpoch
         /\ ctl.epoch \in 0..MaxEpoch /\ Epochs = 1..MaxEpoch /\ MaxEpoch \in Nat
<1>1. /\ c.epoch \in Epochs /\ c.session \in Sessions /\ c.epoch <= ctl.epoch
      /\ c.epoch = ctl.epoch => Reached(ctl, "start")
  BY CommandFields
<1>2. rec.epoch \in 0..MaxEpoch /\ ctl.epoch \in 0..MaxEpoch /\ Epochs = 1..MaxEpoch /\ MaxEpoch \in Nat
  BY RecordFields, OperationFields, Bounds DEF IInv, TypeOK, Epochs
<1>3. rec.epoch <= c.epoch
  BY <1>1, <1>2 DEF Stale
<1>4. NotDown
  <2>1. CASE c.epoch = ctl.epoch
    BY <1>1, <2>1 DEF NotDown, Reached
  <2>2. CASE c.epoch # ctl.epoch
    BY <1>1, <1>2, <1>3, <2>2 DEF NotDown, IInv, DownInv
  <2>3. QED
    BY <2>1, <2>2
<1>5. QED
  BY <1>1, <1>2, <1>3, <1>4

LEMMA StartBeginsStep ==
  ASSUME IInv, NEW c, c.step = "start", Receive(c), ~Stale(c),
         ~(Same(c) /\ rec.startResult # NoResult), ~Uncompleted(c), StartBegins(c),
         proc' \in Processes, restart' \in 0..MaxEpoch
  PROVE  IInv' /\ Refines /\ Carries
<1> DEFINE r == IF Same(c) THEN Repaired ELSE NoRecord
<1>1. /\ c \in commands /\ commands' \subseteq commands /\ LinkMoves /\ UNCHANGED cloudVars
      /\ UNCHANGED link
  BY ReceiveFacts
<1>2. /\ c.epoch \in Epochs /\ c.session \in Sessions /\ c.epoch <= ctl.epoch
      /\ c.epoch = ctl.epoch => Reached(ctl, "start")
      /\ rec.epoch <= c.epoch /\ NotDown /\ rec.epoch \in 0..MaxEpoch
      /\ Epochs = 1..MaxEpoch /\ MaxEpoch \in Nat
  BY <1>1, StartFresh
<1>3. /\ Attempt(r, c.epoch, c.session, 1) /\ retry' = RetryOf(c)
      /\ UNCHANGED <<results, reports, wake, callbacks, minted, lost, performed, stranded, refused,
                     outrun, events>>
  BY DEF StartBegins
<1>4. Resumes(r, c.epoch)
  BY <1>2, RepairedKept, NoRecordType DEF Resumes, Same, IInv
<1> HIDE DEF r
<1>5. 1 \in 1..MaxAttempts
  BY Bounds
<1>6. /\ Repaired.phase = "starting" => rec.phase = "starting" /\ RetrySuperseded(c)
      /\ rec.phase = "starting" => RetrySuperseded(c)
      /\ Same(c) => rec.phase \notin {"starting", "failed"}
  <2>1. /\ Repaired.phase = rec.phase \/ (rec.phase = "stopping" /\ Repaired.phase = "stopped")
        /\ ~(Repaired.phase = "starting" /\ ~RetrySuperseded(c))
        /\ ~(Repaired.phase = "failed" /\ Same(c))
    BY RepairedKept DEF Uncompleted, IInv
  <2>2. Same(c) => ~RetrySuperseded(c)
    BY <1>2 DEF Same, RetrySuperseded
  <2>3. RetrySuperseded(c) => rec.phase = "starting"
    BY DEF RetrySuperseded
  <2>4. QED
    BY <2>1, <2>2, <2>3
<1>7. tries[c.epoch] < 1
  <2>1. tries[c.epoch] \in Nat
    BY <1>2 DEF IInv, TypeOK
  <2>2. ~(tries[c.epoch] > 0)
    <3>1. CASE Same(c)
      BY <1>2, <1>6, <3>1 DEF IInv, TriesInv, Same
    <3>2. CASE ~Same(c)
      BY <1>2, <3>2 DEF IInv, TriesInv, Same
    <3>3. QED
      BY <3>1, <3>2
  <2>3. QED
    BY <2>1, <2>2
<1>8. retry' \in Retries /\ (retry'.state # "none" => retry'.epoch < c.epoch)
  <2>1. retry' \in Retries
    BY <1>3, RetryOfType DEF IInv
  <2>2. CASE RetrySuperseded(c)
    BY <1>3, <2>1, <2>2, NoneTypes DEF RetryOf
  <2>3. CASE ~RetrySuperseded(c)
    <3>1. retry' = retry /\ retry.epoch \in 0..MaxEpoch
      BY <1>3, <2>3 DEF RetryOf, IInv, TypeOK, Retries
    <3>2. rec.phase # "starting"
      BY <1>6, <2>3
    <3>3. retry.state # "none" => retry.epoch <= rec.epoch /\ retry.epoch # rec.epoch
      BY <3>2 DEF IInv, TriesInv
    <3>4. QED
      BY <1>2, <2>1, <3>1, <3>3
  <2>4. QED
    BY <2>2, <2>3
<1>9. ASSUME NEW d \in commands', d.step = "stop", d.epoch = c.epoch
      PROVE  Handled(rec, c.epoch)
  BY <1>1, <1>9 DEF IInv, StopInv
<1>10. QED
  BY <1>1, <1>2, <1>3, <1>4, <1>5, <1>7, <1>8, <1>9, AttemptStep

-----------------------------------------------------------------------------
(* The daemon: the Agent runs, launched or adopted.                        *)

LEMMA StartResultType ==
  ASSUME NEW q \in Records, q.epoch \in Epochs
  PROVE  /\ StartResult(q) \in Records /\ StartResult(q).epoch = q.epoch
         /\ StartResult(q).launch = q.launch /\ StartResult(q).phase = "running"
         /\ StartResult(q).stopResult = q.stopResult /\ StartResult(q).resetResult = q.resetResult
         /\ StartResult(q).startResult = Started(q) /\ StartResult(q).lastResult = Started(q)
         /\ Started(q) \in Results /\ Started(q).epoch = q.epoch /\ Started(q).phase = "started"
         /\ Started(q) # NoResult
<1>1. q.seq \in Nat /\ q.session \in Sessions /\ "started" \in ResultPhases /\ q.seq + 1 \in Nat
  BY RecordFields DEF ResultPhases
<1>2. /\ Started(q) \in Results /\ Started(q).epoch = q.epoch /\ Started(q).phase = "started"
      /\ Started(q) # NoResult
  BY <1>1, ResultType DEF Started
<1>3. StartResult(q) = [q EXCEPT !.phase = "running", !.seq = q.seq + 1,
                                 !.startResult = Started(q), !.lastResult = Started(q)]
  BY DEF StartResult
<1>4. QED
  BY <1>1, <1>2, <1>3 DEF Records

(* The record q that the Start's result is written to.                     *)
Adopts(q) ==
  /\ q \in Records /\ q.epoch \in Epochs /\ q.epoch <= ctl.epoch /\ rec.epoch <= q.epoch
  /\ q.launch # 0 => q.launch = q.epoch
  /\ q.epoch = ctl.epoch => Reached(ctl, "start")
  /\ \/ rec.epoch = q.epoch /\ q.stopResult = rec.stopResult /\ q.resetResult = rec.resetResult
     \/ rec.epoch < q.epoch /\ q.stopResult = NoResult /\ q.resetResult = NoResult
  /\ NotDown
Runs(q) ==
  /\ rec' = Captured(StartResult(q)) /\ Answer(Started(q))
  /\ Performs(q.epoch, StepCount(q.epoch))

(* What is written then.                                                   *)
LEMMA RunsFacts ==
  ASSUME IInv, ctl' = ctl, NEW q, Adopts(q), Runs(q)
  PROVE  /\ rec' \in Records /\ rec'.epoch = q.epoch /\ rec'.phase = "running"
         /\ rec'.launch = q.launch
         /\ rec'.stopResult = q.stopResult /\ rec'.resetResult = q.resetResult
         /\ rec'.startResult = Started(q) /\ rec'.lastResult = Started(q)
         /\ Started(q).phase = "started" /\ Started(q) # NoResult
         /\ Vouched(ctl', performed', Started(q))
         /\ Answered /\ results' \subseteq Results
         /\ Grows /\ OperationInv' /\ Refines /\ Carries
         /\ \A d \in Epochs : d # q.epoch => performed'[d] = performed[d]
         /\ ctl.epoch \in 0..MaxEpoch /\ q.epoch \in 1..MaxEpoch /\ rec.epoch \in 0..MaxEpoch
         /\ MaxEpoch \in Nat /\ Epochs = 1..MaxEpoch
<1>1. /\ ctl.epoch \in 0..MaxEpoch /\ Length(ctl.action) \in 0..3 /\ Confirmed(ctl) \in 0..3
      /\ rec.epoch \in 0..MaxEpoch /\ MaxEpoch \in Nat /\ Epochs = 1..MaxEpoch
      /\ q \in Records /\ q.epoch \in Epochs /\ q.epoch <= ctl.epoch
  <2>1. ctl \in Operations /\ rec \in Records /\ ctl.phase \in PhasesOf(ctl.action)
    BY DEF IInv, TypeOK, OperationInv
  <2>2. QED
    BY <2>1, OperationFields, RecordFields, LengthType, ConfirmedType, Bounds DEF Adopts, Epochs
<1>2. /\ StartResult(q) \in Records /\ StartResult(q).epoch = q.epoch
      /\ StartResult(q).launch = q.launch /\ StartResult(q).phase = "running"
      /\ StartResult(q).stopResult = q.stopResult /\ StartResult(q).resetResult = q.resetResult
      /\ StartResult(q).startResult = Started(q) /\ StartResult(q).lastResult = Started(q)
      /\ Started(q) \in Results /\ Started(q).epoch = q.epoch /\ Started(q).phase = "started"
      /\ Started(q) # NoResult
  BY <1>1, StartResultType
<1>3. /\ rec' \in Records /\ rec'.epoch = q.epoch /\ rec'.phase = "running"
      /\ rec'.launch = q.launch
      /\ rec'.stopResult = q.stopResult /\ rec'.resetResult = q.resetResult
      /\ rec'.startResult = Started(q) /\ rec'.lastResult = Started(q)
  <2>1. StartResult(q).launch # 0 => StartResult(q).epoch # 0
    BY <1>1, <1>2, Bounds
  <2>2. /\ Captured(StartResult(q)) \in Records /\ Kept(StartResult(q), Captured(StartResult(q)))
        /\ Captured(StartResult(q)).phase = StartResult(q).phase
    BY <1>2, <2>1, CapturedKept
  <2>3. QED
    BY <1>2, <2>2 DEF Runs, Kept
<1>4. /\ Grows /\ performed'[q.epoch] >= StepCount(q.epoch)
      /\ \A d \in Epochs : d # q.epoch => performed'[d] = performed[d]
      /\ OperationInv' /\ Refines /\ Carries
  <2>1. StepCount(q.epoch) = IF q.epoch = ctl.epoch THEN Length(ctl.action) ELSE 0
    BY DEF StepCount, Length
  <2>2. StepCount(q.epoch) \in 0..3
    BY <1>1, <2>1
  <2>3. q.epoch = ctl.epoch /\ ctl.phase # "failed" =>
          StepCount(q.epoch) <= Length(ctl.action) /\ StepCount(q.epoch) <= Confirmed(ctl) + 1
    BY <1>1, <2>1 DEF Adopts, Reached
  <2>4. QED
    BY <1>1, <2>2, <2>3, Taking DEF Runs
<1>5. Vouched(ctl', performed', Started(q))
  <2>1. q.epoch = ctl.epoch => performed'[q.epoch] >= Length(ctl.action)
    BY <1>4 DEF StepCount, Length
  <2>2. q.epoch \in 1..ctl.epoch
    BY <1>1
  <2>3. QED
    BY <1>2, <2>1, <2>2 DEF Vouched
<1>6. Answered /\ results' \subseteq Results
  BY <1>2, <1>5, AnswerAnswers DEF Answers, Runs, IInv
<1>7. QED
  BY <1>1, <1>2, <1>3, <1>4, <1>5, <1>6

LEMMA RunsStep ==
  ASSUME IInv, TypeOK', UNCHANGED <<ctl, writer, tries>>, NEW q, Adopts(q), Runs(q),
         commands' \subseteq commands, LinkMoves,
         work'.op = "idle", retry'.state # "none" => retry' = retry /\ retry.epoch < q.epoch
  PROVE  IInv' /\ Refines /\ Carries
<1>1. /\ rec' \in Records /\ rec'.epoch = q.epoch /\ rec'.phase = "running"
      /\ rec'.launch = q.launch
      /\ rec'.stopResult = q.stopResult /\ rec'.resetResult = q.resetResult
      /\ rec'.startResult = Started(q) /\ rec'.lastResult = Started(q)
      /\ Started(q).phase = "started" /\ Started(q) # NoResult
      /\ Vouched(ctl', performed', Started(q))
      /\ Answered /\ results' \subseteq Results
      /\ Grows /\ OperationInv' /\ Refines /\ Carries
      /\ \A d \in Epochs : d # q.epoch => performed'[d] = performed[d]
      /\ ctl.epoch \in 0..MaxEpoch /\ q.epoch \in 1..MaxEpoch /\ rec.epoch \in 0..MaxEpoch
      /\ MaxEpoch \in Nat /\ Epochs = 1..MaxEpoch
  BY RunsFacts
<1>2. /\ q.epoch <= ctl.epoch /\ rec.epoch <= q.epoch /\ (q.launch # 0 => q.launch = q.epoch)
      /\ q.epoch = ctl.epoch => Reached(ctl, "start")
      /\ \/ rec.epoch = q.epoch /\ q.stopResult = rec.stopResult /\ q.resetResult = rec.resetResult
         \/ rec.epoch < q.epoch /\ q.stopResult = NoResult /\ q.resetResult = NoResult
      /\ NotDown
  BY DEF Adopts
<1>3. WireInv' /\ WriterInv'
  BY <1>1, WireStep, WriterStays
<1>4. RecordInv'
  <2>1. /\ Vouched(ctl', performed', q.stopResult) /\ Vouched(ctl', performed', q.resetResult)
        /\ q.resetResult.phase # "stopped"
        /\ q.stopResult.phase = "stopped" => q.stopResult.epoch = q.epoch
    <3>1. CASE rec.epoch = q.epoch /\ q.stopResult = rec.stopResult /\ q.resetResult = rec.resetResult
      BY <1>1, <3>1, RecordVouched DEF IInv, RecordInv
    <3>2. CASE q.stopResult = NoResult /\ q.resetResult = NoResult
      BY <3>2, NoResultType DEF Vouched
    <3>3. QED
      BY <1>2, <3>1, <3>2
  <2>2. QED
    BY <1>1, <1>2, <2>1, Bounds DEF RecordInv, Launches
<1>5. DownInv'
  <2>1. ctl.action = "stop" /\ ctl.epoch # 0 => performed'[ctl.epoch] = performed[ctl.epoch]
    <3>1. CASE q.epoch = ctl.epoch
      BY <1>2, <3>1 DEF Reached
    <3>2. CASE q.epoch # ctl.epoch
      <4>1. ctl.epoch # 0 => ctl.epoch \in Epochs
        BY <1>1
      <4>2. QED
        BY <1>1, <3>2, <4>1
    <3>3. QED
      BY <3>1, <3>2
  <2>2. QED
    BY <1>2, <2>1 DEF NotDown, DownInv
<1>6. StopInv'
  <2>1. HandledStays
    BY <1>1, <1>2 DEF HandledStays, Handled
  <2>2. QED
    BY <1>1, <2>1, StopStep
<1>7. TriesInv'
  <2>1. \A e \in Epochs : tries[e] <= MaxAttempts /\ (tries[e] > 0 => e <= q.epoch)
    BY <1>1, <1>2 DEF IInv, TriesInv
  <2>2. ctl.epoch # 0 /\ ctl.phase # "failed" => (tries[ctl.epoch] > 0 => Reached(ctl, "start"))
    BY DEF IInv, TriesInv
  <2>3. retry'.state # "none" => retry'.epoch <= q.epoch /\ retry'.epoch # q.epoch
    <3>1. retry.epoch \in 0..MaxEpoch
      BY DEF IInv, TypeOK, Retries
    <3>2. QED
      BY <1>1, <3>1
  <2>4. QED
    BY <1>1, <2>1, <2>2, <2>3 DEF TriesInv, Launches
<1>8. QED
  BY <1>1, <1>3, <1>4, <1>5, <1>6, <1>7 DEF IInv

LEMMA LaunchStep ==
  ASSUME IInv, work.op \in Launches, NEW session \in Sessions, Launch(session),
         proc' \in Processes, restart' \in 0..MaxEpoch, minted' \in Sessions, lost' = lost
  PROVE  IInv' /\ Refines /\ Carries
<1> DEFINE q == [rec EXCEPT !.session = session]
<1>1. /\ rec' = Captured(StartResult(q)) /\ Answer(StartResult(q).startResult)
      /\ work' = NoWork /\ retry' = NoRetry /\ Performs(rec.epoch, StepCount(rec.epoch))
      /\ Report(Captured(StartResult(q))) \/ UNCHANGED reports
      /\ UNCHANGED <<cloudVars, link, commands, wake, callbacks, tries, stranded, refused, outrun,
                     events>>
      /\ UNCHANGED <<ctl, writer>>
  BY DEF Launch, cloudVars
<1>2. /\ rec.phase = "starting" /\ rec \in Records /\ rec.epoch \in Epochs /\ rec.epoch <= ctl.epoch
      /\ rec.epoch = ctl.epoch => Reached(ctl, "start")
      /\ rec.launch # 0 => rec.launch = rec.epoch
      /\ rec.epoch <= rec.epoch
  <2>1. rec.phase = "starting"
    BY DEF IInv, RecordInv
  <2>2. rec.epoch <= rec.epoch
    BY RecordFields, Bounds DEF IInv, TypeOK
  <2>3. QED
    BY <2>1, <2>2, RecordEpoch DEF IInv, RecordInv
<1>3. NotDown
  BY <1>2 DEF NotDown, IInv, DownInv
<1>4. /\ q \in Records /\ q.epoch = rec.epoch /\ q.launch = rec.launch
      /\ q.stopResult = rec.stopResult /\ q.resetResult = rec.resetResult
  BY <1>2 DEF Records
<1> HIDE DEF q
<1>5. Adopts(q)
  BY <1>2, <1>3, <1>4 DEF Adopts
<1>6. Runs(q)
  BY <1>1, <1>2, <1>4, StartResultType DEF Runs
<1>7. rec' \in Records /\ results' \subseteq Results /\ Grows
  BY <1>1, <1>5, <1>6, RunsFacts
<1>8. reports' \subseteq Reports
  BY <1>1, <1>7, ReportReports DEF IInv, TypeOK
<1>9. TypeOK'
  BY <1>1, <1>7, <1>8, NoneTypes DEF IInv, TypeOK, cloudVars, Grows
<1>10. LinkMoves
  BY <1>1 DEF LinkMoves, IInv, WireInv
<1>11. QED
  BY <1>1, <1>5, <1>6, <1>9, <1>10, NoneTypes, RunsStep

LEMMA SpawnedStep ==
  ASSUME IInv, Spawned
  PROVE  IInv' /\ Refines /\ Carries
<1> DEFINE session == IF work.session # NoSession THEN work.session ELSE minted + 1
<1>1. /\ work.op \in Launches
      /\ minted' = IF work.session # NoSession THEN minted ELSE minted + 1
      /\ proc' = [up |-> TRUE, held |-> FALSE, launch |-> rec.epoch, session |-> session]
      /\ restart' = rec.epoch /\ Launch(session) /\ lost' = lost
  BY DEF Spawned, Launches
<1>2. session \in Sessions /\ minted' \in Sessions /\ rec.epoch \in 0..MaxEpoch
  BY <1>1, RecordFields DEF IInv, TypeOK, Works, Sessions
<1> HIDE DEF session
<1>3. proc' \in Processes
  BY <1>1, <1>2 DEF Processes
<1>4. QED
  BY <1>1, <1>2, <1>3, LaunchStep

LEMMA JoinedWakeStep ==
  ASSUME IInv, JoinedWake
  PROVE  IInv' /\ Refines /\ Carries
<1>1. work.op \in Launches /\ Launch(proc.session) /\ UNCHANGED <<proc, restart, minted, lost>>
  BY DEF JoinedWake, Launches
<1>2. /\ proc.session \in Sessions /\ proc' \in Processes /\ restart' \in 0..MaxEpoch
      /\ minted' \in Sessions
  BY <1>1 DEF IInv, TypeOK, Processes
<1>3. QED
  BY <1>1, <1>2, LaunchStep

(* A launch that failed is retried, or the Start has failed.               *)
LEMMA LaunchRejectedStep ==
  ASSUME IInv, LaunchRejected
  PROVE  IInv' /\ Refines /\ Carries
<1> DEFINE result == [epoch |-> rec.epoch, phase |-> "failed", seq |-> rec.seq + 1,
                      session |-> NoSession]
           armed == [state |-> "armed", epoch |-> rec.epoch, session |-> work.asked,
                     attempt |-> work.attempt + 1]
<1>1. /\ work.op \in Launches /\ work' = NoWork /\ restart' = 0 /\ proc' = NoProcess
      /\ \/ AttemptsLeft /\ retry' = armed /\ UNCHANGED <<rec, results>>
         \/ /\ rec' = [rec EXCEPT !.phase = "failed", !.seq = rec.seq + 1, !.lastResult = result]
            /\ retry' = NoRetry /\ Answer(result)
      /\ UNCHANGED <<cloudVars, link, commands, reports, wake, callbacks, minted, lost, historyVars>>
      /\ UNCHANGED <<ctl, writer, performed, tries>>
  BY DEF LaunchRejected, LaunchFailed, Launches, cloudVars, historyVars
<1>2. /\ rec.phase = "starting" /\ rec \in Records /\ rec.epoch \in Epochs /\ rec.epoch <= ctl.epoch
      /\ rec.epoch \in 1..ctl.epoch /\ rec.seq \in Nat /\ rec.epoch \in 0..MaxEpoch
  <2>1. rec.phase = "starting"
    BY <1>1 DEF IInv, RecordInv
  <2>2. QED
    BY <2>1, RecordEpoch, Bounds
<1>3. result \in Results /\ result.epoch = rec.epoch /\ result.phase = "failed" /\ result # NoResult
  <2>1. "failed" \in ResultPhases
    BY DEF ResultPhases
  <2>2. QED
    BY <1>2, <2>1, ResultType, Bounds
<1>4. tries[rec.epoch] <= work.attempt /\ tries[rec.epoch] \in Nat /\ work.attempt \in 0..MaxAttempts
  BY <1>1, <1>2 DEF IInv, TriesInv, TypeOK, Works
<1>5. AttemptsLeft => armed \in Retries
  <2>1. AttemptsLeft => work.attempt + 1 \in 0..MaxAttempts
    BY <1>4, Bounds DEF AttemptsLeft
  <2>2. work.asked \in Sessions
    BY DEF IInv, TypeOK, Works
  <2>3. QED
    BY <1>2, <2>1, <2>2 DEF Retries
<1>6. armed.state = "armed" /\ armed.epoch = rec.epoch /\ tries[rec.epoch] < armed.attempt
  BY <1>4
<1>7. WriterInv' /\ OperationInv' /\ Refines /\ Carries /\ Grows /\ LinkMoves
  <2>1. LinkMoves
    BY <1>1 DEF LinkMoves, IInv, WireInv
  <2>2. QED
    BY <1>1, <2>1, OperationStays, SameGrows, WriterStays DEF IInv
<1>8. events' \in 0..MaxEvents
  BY FaultType DEF LaunchRejected, IInv, TypeOK
<1>9. ProcessQuiet
  BY <1>1, NoneTypes DEF ProcessQuiet
<1> HIDE DEF result, armed
<1>10. CASE AttemptsLeft /\ retry' = armed /\ UNCHANGED <<rec, results>>
  <2>1. TypeOK'
    BY <1>1, <1>5, <1>8, <1>10, NoneTypes, Bounds DEF IInv, TypeOK, cloudVars, historyVars
  <2>2. Answered /\ HandledStays
    BY <1>10, SameAnswered DEF HandledStays
  <2>3. WireInv' /\ StopInv'
    BY <1>1, <1>7, <2>1, <2>2, WireStep, StopStep
  <2>4. DownInv'
    BY <1>1, <1>9, <1>10, <2>1, DownStep
  <2>5. RecordInv'
    BY <1>1, <1>10, NoneTypes DEF IInv, RecordInv, Launches
  <2>6. TriesInv'
    <3>1. retry'.epoch = rec'.epoch /\ tries'[rec'.epoch] < retry'.attempt /\ rec'.phase = "starting"
          /\ retry'.epoch <= rec'.epoch
      BY <1>1, <1>2, <1>6, <1>10
    <3>2. QED
      BY <1>1, <1>10, <3>1, NoneTypes DEF IInv, TriesInv, Launches
  <2>7. QED
    BY <1>7, <2>1, <2>3, <2>4, <2>5, <2>6 DEF IInv
<1>11. CASE /\ rec' = [rec EXCEPT !.phase = "failed", !.seq = rec.seq + 1, !.lastResult = result]
            /\ retry' = NoRetry /\ Answer(result)
  <2>1. rec' \in Records
    <3>1. rec.seq + 1 \in Nat
      BY <1>2
    <3>2. QED
      BY <1>2, <1>3, <1>11, <3>1 DEF Records
  <2>2. /\ rec'.epoch = rec.epoch /\ rec'.launch = rec.launch /\ rec'.phase = "failed"
        /\ rec'.lastResult = result /\ rec'.stopResult = rec.stopResult
        /\ rec'.resetResult = rec.resetResult /\ rec'.startResult = rec.startResult
    BY <1>2, <1>11 DEF Records
  <2>3. Vouched(ctl', performed', result) /\ Answers(result)
    BY <1>1, <1>2, <1>3 DEF Vouched, Answers
  <2>4. Answered /\ results' \subseteq Results /\ HandledStays
    BY <1>3, <1>11, <2>2, <2>3, AnswerAnswers DEF IInv, HandledStays, Handled
  <2>5. TypeOK'
    BY <1>1, <1>8, <1>11, <2>1, <2>4, NoneTypes, Bounds DEF IInv, TypeOK, cloudVars, historyVars
  <2>6. WireInv' /\ StopInv'
    BY <1>1, <1>7, <2>4, <2>5, WireStep, StopStep
  <2>7. DownInv'
    BY <1>1, <1>9, <2>2, <2>5, DownStep
  <2>8. RecordInv'
    BY <1>1, <1>2, <1>3, <1>7, <2>2, <2>3, RecordVouched, NoneTypes DEF IInv, RecordInv, Launches
  <2>9. TriesInv'
    BY <1>1, <1>11, <2>2, NoneTypes DEF IInv, TriesInv, Launches
  <2>10. QED
    BY <1>7, <2>5, <2>6, <2>7, <2>8, <2>9 DEF IInv
<1>12. QED
  BY <1>1, <1>10, <1>11

-----------------------------------------------------------------------------
(* The daemon: a Start.                                                    *)

LEMMA RebindStep ==
  ASSUME IInv, NEW c, c.step = "start", Receive(c), ~Stale(c), Rebinds(c), Rebind(c)
  PROVE  IInv' /\ Refines /\ Carries
<1> DEFINE q == [rec EXCEPT !.epoch = c.epoch, !.launch = c.epoch, !.seq = 0,
                            !.session = proc.session,
                            !.stopResult = NoResult, !.resetResult = NoResult]
<1>1. /\ rec' = Captured(StartResult(q)) /\ Answer(StartResult(q).startResult)
      /\ Report(Captured(StartResult(q)))
      /\ proc' = [proc EXCEPT !.launch = c.epoch] /\ restart' = c.epoch
      /\ Performs(c.epoch, StepCount(c.epoch))
      /\ UNCHANGED <<work, retry, wake, callbacks, minted, lost, tries, stranded, refused,
                     outrun, events>>
      /\ rec.epoch < c.epoch
  BY DEF Rebind, Rebinds
<1>2. /\ c \in commands /\ commands' \subseteq commands /\ UNCHANGED <<cloudVars, ctl, writer, link>>
      /\ work.op = "idle" /\ LinkMoves /\ WriterInv'
  BY ReceiveFacts
<1>3. /\ c.epoch \in Epochs /\ c.epoch <= ctl.epoch
      /\ c.epoch = ctl.epoch => Reached(ctl, "start")
      /\ rec.epoch <= c.epoch /\ NotDown /\ c.epoch \in 0..MaxEpoch /\ c.epoch # 0
  BY <1>2, StartFresh, Bounds
<1>4. /\ q \in Records /\ q.epoch = c.epoch /\ q.launch = c.epoch
      /\ q.stopResult = NoResult /\ q.resetResult = NoResult
  <2>1. rec \in Records /\ proc.session \in Sessions /\ NoResult \in Results /\ 0 \in Nat
    BY NoResultType DEF IInv, TypeOK, Processes
  <2>2. QED
    BY <1>3, <2>1 DEF Records
<1> HIDE DEF q
<1>5. Adopts(q)
  BY <1>1, <1>3, <1>4 DEF Adopts
<1>6. Runs(q)
  BY <1>1, <1>3, <1>4, StartResultType DEF Runs
<1>7. rec' \in Records /\ results' \subseteq Results /\ Grows
  BY <1>2, <1>5, <1>6, RunsFacts
<1>8. reports' \subseteq Reports
  BY <1>1, <1>7, ReportReports DEF IInv, TypeOK
<1>9. proc' \in Processes
  BY <1>1, <1>3 DEF IInv, TypeOK, Processes
<1>10. TypeOK'
  BY <1>1, <1>2, <1>3, <1>7, <1>8, <1>9 DEF IInv, TypeOK, cloudVars, Grows
<1>11. retry'.state # "none" => retry' = retry /\ retry.epoch < q.epoch
  <2>1. retry.state # "none" => retry.epoch <= rec.epoch
    BY DEF IInv, TriesInv
  <2>2. /\ retry.epoch \in 0..MaxEpoch /\ rec.epoch \in 0..MaxEpoch /\ c.epoch \in 0..MaxEpoch
        /\ MaxEpoch \in Nat
    BY <1>3, RecordFields, Bounds DEF IInv, TypeOK, Retries
  <2>3. QED
    BY <1>1, <1>4, <2>1, <2>2
<1>12. QED
  BY <1>1, <1>2, <1>5, <1>6, <1>10, <1>11, RunsStep

LEMMA AlreadyRunningStep ==
  ASSUME IInv, NEW c, c.step = "start", Receive(c), ~Stale(c), AlreadyRunning(c)
  PROVE  IInv' /\ Refines /\ Carries
<1> DEFINE seq == IF Same(c) THEN rec.seq ELSE 0
           result == [epoch |-> c.epoch, phase |-> "failed", seq |-> seq + 1, session |-> NoSession]
<1>1. /\ Answer(result) /\ rec' = Repaired /\ retry' = RetryOf(c)
      /\ UNCHANGED <<reports, work, processVars, historyVars, events>>
  <2>1. result = [epoch |-> c.epoch, phase |-> "failed", session |-> NoSession,
                  seq |-> (IF Same(c) THEN rec.seq ELSE 0) + 1]
    OBVIOUS
  <2>2. QED
    BY <2>1 DEF AlreadyRunning
<1>2. /\ c \in commands /\ c.epoch \in Epochs /\ c.epoch <= ctl.epoch /\ c.epoch \in 1..ctl.epoch
      /\ UNCHANGED <<ctl, performed>> /\ seq \in Nat
  <2>1. c \in commands /\ UNCHANGED ctl /\ rec.seq \in Nat
    BY ReceiveFacts, RecordFields DEF IInv, TypeOK
  <2>2. QED
    BY <1>1, <2>1, StartFresh DEF historyVars
<1> HIDE DEF seq
<1>3. result \in Results /\ result.epoch = c.epoch /\ result.phase = "failed"
  <2>1. "failed" \in ResultPhases
    BY DEF ResultPhases
  <2>2. QED
    BY <1>2, <2>1, ResultType, Bounds
<1> HIDE DEF result
<1>4. Answers(result)
  BY <1>2, <1>3 DEF Vouched, Answers
<1>5. Answered /\ results' \subseteq Results
  BY <1>1, <1>3, <1>4, AnswerAnswers DEF IInv
<1>6. QED
  BY <1>1, <1>5, RetryOfType, HandledCalmly DEF processVars, historyVars, IInv, TypeOK

LEMMA StartCommandStep ==
  ASSUME IInv, NEW c \in commands, StartCommand(c)
  PROVE  IInv' /\ Refines /\ Carries
<1>1. c.step = "start" /\ Receive(c)
  BY DEF StartCommand
<1>2. CASE Refuse
  BY <1>1, <1>2, RefuseStep
<1>3. CASE Replay(rec.startResult)
  <2>1. rec.startResult.phase # "stopped"
    BY DEF IInv, RecordInv
  <2>2. QED
    BY <1>1, <1>3, <2>1, ReplayStep
<1>4. CASE /\ rec' = Repaired
           /\ refused' = refused \/ refused' = refused \cup {c.epoch}
           /\ UNCHANGED <<results, reports, work, retry, processVars, performed, tries, stranded,
                          outrun, events>>
  <2>1. refused' \subseteq Epochs
    BY <1>4, CommandFields DEF IInv, TypeOK
  <2>2. Answered /\ results' \subseteq Results
    BY <1>4, SameAnswered DEF IInv, TypeOK
  <2>3. QED
    BY <1>1, <1>4, <2>1, <2>2, HandledCalmly DEF processVars, IInv, TypeOK
<1>5. CASE /\ ~Stale(c) /\ ~(Same(c) /\ rec.startResult # NoResult) /\ ~Uncompleted(c)
           /\ StartBegins(c)
           /\ UNCHANGED <<proc, restart>> \/ (proc' = NoProcess /\ restart' = 0)
  <2>1. proc' \in Processes /\ restart' \in 0..MaxEpoch
    BY <1>5, NoneTypes, Bounds DEF IInv, TypeOK
  <2>2. QED
    BY <1>1, <1>5, <2>1, StartBeginsStep
<1>6. CASE ~Stale(c) /\ Rebinds(c) /\ Rebind(c)
  BY <1>1, <1>6, RebindStep
<1>7. CASE ~Stale(c) /\ AlreadyRunning(c)
  BY <1>1, <1>7, AlreadyRunningStep
<1>8. CASE /\ UNCHANGED events \/ Fault("stop")
           /\ proc' = [proc EXCEPT !.held = TRUE]
           /\ rec' = Repaired /\ retry' = RetryOf(c)
           /\ UNCHANGED <<results, reports, work, restart, wake, callbacks, minted, lost,
                          historyVars>>
  <2>1. events' \in 0..MaxEvents
    BY <1>8, FaultType DEF IInv, TypeOK
  <2>2. Answered /\ results' \subseteq Results
    BY <1>8, SameAnswered DEF IInv, TypeOK
  <2>3. QED
    BY <1>1, <1>8, <2>1, <2>2, RetryOfType, HandledCalmly DEF historyVars, IInv, TypeOK
<1>9. QED
  <2> HIDE DEF Refuse, Replay, StartBegins, Rebind, AlreadyRunning
  <2>1. \/ Stale(c) /\ Refuse
        \/ ~Stale(c) /\ Replay(rec.startResult)
        \/ /\ rec' = Repaired
           /\ refused' = refused \/ refused' = refused \cup {c.epoch}
           /\ UNCHANGED <<results, reports, work, retry, processVars, performed, tries, stranded,
                          outrun, events>>
        \/ /\ ~Stale(c) /\ ~(Same(c) /\ rec.startResult # NoResult) /\ ~Uncompleted(c)
           /\ \/ StartBegins(c) /\ UNCHANGED <<proc, restart>>
              \/ Rebinds(c) /\ Rebind(c)
              \/ AlreadyRunning(c)
              \/ StartBegins(c) /\ proc' = NoProcess /\ restart' = 0
              \/ /\ UNCHANGED events \/ Fault("stop")
                 /\ proc' = [proc EXCEPT !.held = TRUE]
                 /\ rec' = Repaired /\ retry' = RetryOf(c)
                 /\ UNCHANGED <<results, reports, work, restart, wake, callbacks, minted, lost,
                                historyVars>>
    BY DEF StartCommand
  <2>2. QED
    BY <1>2, <1>3, <1>4, <1>5, <1>6, <1>7, <1>8, <2>1

-----------------------------------------------------------------------------
(* The cloud: the operation goes on.                                       *)

(* A command of the phase the operation is at.                             *)
Issued(c) ==
  /\ c.epoch = ctl'.epoch /\ Reached(ctl', c.step)
  /\ c.step = "stop" => ctl'.phase = "stopping"
  /\ c.step = "start" => ctl'.phase = "starting"

(* A Stop is confirmed only when its command has been handled.             *)
StopKnown ==
  \A c \in commands : c.step = "stop" /\ c.epoch = ctl.epoch /\ Confirmed(ctl') >= 1
                        => Handled(rec, c.epoch)

LEMMA StopPhase ==
  ASSUME NEW op \in Operations, op.phase \in PhasesOf(op.action), op.phase = "stopping"
  PROVE  ~Reached(op, "start") /\ Reached(op, "stop") /\ Confirmed(op) = 0
<1>1. op.action \in Actions /\ Confirmed(op) = 0
  BY OperationFields, ConfirmedSteps
<1>2. op.action \in {"stop", "restart", "reset-session", "full-reset"}
  BY <1>1 DEF PhasesOf, Actions, Terminal
<1>3. QED
  BY <1>1, <1>2, Lengths DEF Reached

LEMMA StartPhase ==
  ASSUME NEW op \in Operations, op.phase \in PhasesOf(op.action), op.phase = "starting"
  PROVE  Reached(op, "start") /\ (Reached(op, "stop") => Confirmed(op) >= 1)
<1>1. op.action \in Actions /\ Confirmed(op) = Length(op.action) - 1
  BY OperationFields, ConfirmedSteps
<1>2. op.action \in {"start", "restart", "reset-session", "full-reset"}
  BY <1>1 DEF PhasesOf, Actions, Terminal
<1>3. QED
  BY <1>1, <1>2, Lengths DEF Reached

LEMMA GoesOnStep ==
  ASSUME IInv, TypeOK', OperationInv', GoesOn(ctl, ctl'),
         UNCHANGED <<controlVars, processVars>>, UNCHANGED <<performed, tries>>,
         \A c \in commands' : c \in commands \/ Issued(c),
         StopKnown, LinkMoves, Answered
  PROVE  WireInv' /\ RecordInv' /\ DownInv' /\ StopInv' /\ TriesInv'
<1>1. /\ ctl \in Operations /\ ctl' \in Operations /\ ctl.phase \in PhasesOf(ctl.action)
      /\ ctl'.phase \in PhasesOf(ctl'.action)
      /\ ctl'.epoch = ctl.epoch /\ ctl'.action = ctl.action
      /\ UNCHANGED <<rec, work, retry, proc, restart, wake>>
  BY DEF IInv, TypeOK, OperationInv, GoesOn, controlVars, processVars
<1>2. ASSUME NEW step, Reached(ctl, step)
      PROVE  Reached(ctl', step)
  BY <1>1, <1>2, ReachedStays
<1>3. ctl.epoch \in 0..MaxEpoch /\ Confirmed(ctl') \in 0..3 /\ Epochs = 1..MaxEpoch /\ MaxEpoch \in Nat
  BY <1>1, OperationFields, ConfirmedType, Bounds DEF Epochs
<1>4. WireInv'
  <2>1. ASSUME NEW c \in commands'
        PROVE  c.epoch <= ctl'.epoch /\ (c.epoch = ctl'.epoch => Reached(ctl', c.step))
    <3>1. CASE c \in commands
      BY <1>1, <1>2, <3>1 DEF IInv, WireInv
    <3>2. CASE Issued(c)
      BY <1>1, <1>3, <3>2 DEF Issued
    <3>3. QED
      BY <2>1, <3>1, <3>2
  <2>2. ASSUME NEW r \in results'
        PROVE  Vouched(ctl', performed', r)
    <3>1. CASE r \in results
      BY <1>1, <3>1 DEF IInv, WireInv, Vouched
    <3>2. CASE Answers(r)
      BY <3>2 DEF Answers
    <3>3. QED
      BY <2>2, <3>1, <3>2 DEF Answered
  <2>3. QED
    BY <2>1, <2>2 DEF WireInv, LinkMoves
<1>5. RecordInv'
  <2>1. /\ Vouched(ctl', performed', rec.stopResult) /\ Vouched(ctl', performed', rec.resetResult)
        /\ Vouched(ctl', performed', rec.startResult) /\ Vouched(ctl', performed', rec.lastResult)
    BY <1>1 DEF IInv, RecordInv, Vouched
  <2>2. QED
    BY <1>1, <1>2, <2>1 DEF IInv, RecordInv
<1>6. DownInv'
  BY <1>1 DEF IInv, DownInv, Issued
<1>7. TriesInv'
  <2>1. ctl'.epoch # 0 /\ ctl'.phase # "failed" => (tries[ctl'.epoch] > 0 => Reached(ctl', "start"))
    <3>1. ctl'.phase # "failed" => ctl.phase # "failed"
      BY DEF GoesOn
    <3>2. QED
      BY <1>1, <1>2, <3>1 DEF IInv, TriesInv
  <2>2. QED
    BY <1>1, <2>1 DEF IInv, TriesInv
<1>8. ASSUME NEW c \in commands', c.step = "stop", c.epoch = ctl'.epoch, Confirmed(ctl') >= 1
      PROVE  Handled(rec, c.epoch)
  <2>1. CASE c \in commands
    BY <1>1, <1>8, <2>1 DEF StopKnown
  <2>2. CASE Issued(c)
    BY <1>1, <1>8, <2>2, StopPhase DEF Issued
  <2>3. QED
    BY <1>8, <2>1, <2>2
<1>9. ASSUME NEW c \in commands', c.step = "stop", tries[c.epoch] > 0
      PROVE  Handled(rec, c.epoch)
  <2>1. CASE c \in commands
    BY <1>9, <2>1 DEF IInv, StopInv
  <2>2. CASE Issued(c)
    <3>1. c.epoch = ctl'.epoch /\ ctl'.phase = "stopping" /\ ctl'.epoch # 0
      <4>1. c.epoch \in Epochs
        BY <1>9 DEF TypeOK, Commands
      <4>2. QED
        BY <1>9, <2>2, <4>1, Bounds DEF Issued
    <3>2. Reached(ctl', "start")
      BY <1>1, <1>7, <1>9, <3>1 DEF TriesInv
    <3>3. QED
      BY <1>1, <3>1, <3>2, StopPhase
  <2>3. QED
    BY <1>9, <2>1, <2>2
<1>10. ASSUME NEW c \in commands', NEW d \in commands', c.step = "stop", d.step = "start",
              c.epoch = d.epoch
       PROVE  Handled(rec, c.epoch)
  <2>1. CASE c \in commands /\ d \in commands
    BY <1>10, <2>1 DEF IInv, StopInv
  <2>2. CASE Issued(c) \/ Issued(d)
    <3>1. c.epoch = ctl'.epoch /\ Reached(ctl', "stop") /\ Reached(ctl', "start")
          /\ ctl'.phase \in {"stopping", "starting"}
      BY <1>4, <1>10, <2>2 DEF Issued, WireInv
    <3>2. ctl'.phase = "starting" /\ Confirmed(ctl') >= 1
      BY <1>1, <3>1, StopPhase, StartPhase
    <3>3. QED
      BY <1>8, <1>10, <3>1, <3>2
  <2>3. QED
    BY <1>10, <2>1, <2>2
<1>11. ASSUME NEW r \in results', link' # "boot", r.phase = "stopped", r.epoch = ctl'.epoch
       PROVE  Handled(rec, r.epoch)
  <2>1. CASE r \in results
    BY <1>1, <1>11, <2>1 DEF IInv, StopInv, LinkMoves
  <2>2. CASE Answers(r)
    BY <1>1, <1>11, <2>2 DEF Answers
  <2>3. QED
    BY <1>11, <2>1, <2>2 DEF Answered
<1>12. StopInv'
  BY <1>1, <1>8, <1>9, <1>10, <1>11 DEF StopInv
<1>13. QED
  BY <1>4, <1>5, <1>6, <1>7, <1>12

(* What the cloud publishes is the command of the phase.                   *)
LEMMA PublishIssues ==
  ASSUME ctl' \in Operations, ctl'.phase \in PhasesOf(ctl'.action), ctl'.phase \in Pending,
         ctl'.epoch # 0,
         commands' = commands \/ commands' = commands \cup {CommandFor(ctl')}
  PROVE  /\ CommandFor(ctl') \in Commands
         /\ \A c \in commands' : c \in commands \/ Issued(c)
<1> DEFINE op == ctl'
           step == CASE op.phase = "stopping" -> "stop" [] op.phase = "clearing" -> "reset-workspace"
                     [] op.phase = "starting" -> "start"
           session == IF op.phase = "starting" THEN op.session ELSE NoSession
<1>1. CommandFor(ctl') = [step |-> step, epoch |-> op.epoch, session |-> session]
  BY DEF CommandFor
<1>2. /\ op.phase = "stopping" => step = "stop"
      /\ op.phase = "clearing" => step = "reset-workspace"
      /\ op.phase = "starting" => step = "start"
  OBVIOUS
<1>3. op.phase \in {"stopping", "clearing", "starting"}
  BY DEF Pending
<1>4. op.epoch \in Epochs /\ session \in Sessions
  BY OperationFields, Bounds
<1> HIDE DEF step, session
<1>5. /\ CommandFor(ctl') \in Commands /\ CommandFor(ctl').step = step
      /\ CommandFor(ctl').epoch = ctl'.epoch
  BY <1>1, <1>2, <1>3, <1>4 DEF Commands
<1>6. Reached(ctl', step)
  <2>1. CASE op.phase = "stopping"
    BY <1>2, <2>1, StopPhase
  <2>2. CASE op.phase = "starting"
    BY <1>2, <2>2, StartPhase
  <2>3. CASE op.phase = "clearing"
    <3>1. op.action = "full-reset"
      BY <2>3, OperationFields DEF PhasesOf, Actions, Terminal
    <3>2. Confirmed(op) = 1
      BY <2>3, ConfirmedSteps
    <3>3. QED
      BY <1>2, <2>3, <3>1, <3>2 DEF Reached
  <2>4. QED
    BY <1>3, <2>1, <2>2, <2>3
<1>7. Issued(CommandFor(ctl'))
  BY <1>2, <1>3, <1>5, <1>6 DEF Issued
<1>8. QED
  BY <1>5, <1>7

LEMMA PendingEpoch ==
  ASSUME IInv, ctl.phase \in Pending \cup Settled
  PROVE  ctl.epoch # 0 /\ ctl.epoch \in Epochs /\ ctl.action # "none"
<1>1. ctl.action # "none"
  BY DEF IInv, OperationInv, PhasesOf, Pending, Settled
<1>2. QED
  BY <1>1, OperationFields, Bounds DEF IInv, TypeOK, OperationInv

(* The operation is where it was.                                          *)
LEMMA Stays ==
  ASSUME IInv, UNCHANGED <<ctl, performed>>
  PROVE  GoesOn(ctl, ctl') /\ StopKnown /\ OperationInv' /\ Refines /\ Carries
<1>1. ctl \in Operations /\ ctl.phase \in PhasesOf(ctl.action)
  BY DEF IInv, TypeOK, OperationInv
<1>2. Confirmed(ctl) <= Confirmed(ctl')
  <2>1. Confirmed(ctl) \in 0..3
    BY <1>1, ConfirmedType
  <2>2. QED
    BY <2>1
<1>3. StopKnown
  BY DEF StopKnown, IInv, StopInv
<1>4. QED
  BY <1>1, <1>2, <1>3, OperationStays DEF GoesOn, IInv

LEMMA DriveStep ==
  ASSUME IInv, Drive
  PROVE  IInv' /\ Refines /\ Carries
<1>1. /\ UNCHANGED <<ctl, stopped, writer, link, results, reports, controlVars, processVars,
                     historyVars, events>>
      /\ ctl.phase \in Pending /\ driver' = ctl.phase
      /\ commands' = commands \/ (Connected /\ commands' = commands \cup {CommandFor(ctl')})
      /\ UNCHANGED <<performed, tries>>
  BY DEF Drive, Publish, historyVars
<1>2. GoesOn(ctl, ctl') /\ StopKnown /\ OperationInv' /\ Refines /\ Carries /\ WriterInv'
  BY <1>1, Stays, WriterStays
<1>3. /\ CommandFor(ctl') \in Commands
      /\ \A c \in commands' : c \in commands \/ Issued(c)
  <2>1. ctl'.phase \in Pending /\ ctl'.epoch # 0
    BY <1>1, PendingEpoch
  <2>2. QED
    BY <1>1, <1>2, <2>1, PublishIssues DEF GoesOn
<1>4. TypeOK'
  BY <1>1, <1>3 DEF IInv, TypeOK, controlVars, processVars, historyVars
<1>5. LinkMoves /\ Answered
  BY <1>1, SameAnswered DEF LinkMoves, Connected, Handshakes, IInv, WireInv
<1>6. QED
  BY <1>1, <1>2, <1>3, <1>4, <1>5, GoesOnStep DEF IInv

(* The next step of the chain, or its end.                                 *)
LEMMA AdvancedFacts ==
  ASSUME NEW op \in Operations, op.phase \in PhasesOf(op.action), op.phase \in Settled
  PROVE  /\ Advanced(op) \in Operations
         /\ Advanced(op).epoch = op.epoch /\ Advanced(op).action = op.action
         /\ Advanced(op).phase \in PhasesOf(op.action)
         /\ Advanced(op).phase \in Pending \cup {"completed"}
         /\ Confirmed(Advanced(op)) = Confirmed(op) /\ op.action # "none"
<1> DEFINE chain == Chain(op.action)
           taken == IF op.phase = "stopped" THEN 1 ELSE 2
           next == IF taken < Len(chain) THEN PendingOf(chain[taken + 1]) ELSE "completed"
           session == IF next = "starting" /\ ClearsSession(op.action) THEN NoSession ELSE op.session
<1>1. /\ Chain("restart")[2] = "start" /\ Chain("reset-session")[2] = "start"
      /\ Chain("full-reset")[2] = "reset-workspace" /\ Chain("full-reset")[3] = "start"
  BY DEF Chain
<1>2. PendingOf("start") = "starting" /\ PendingOf("reset-workspace") = "clearing"
  BY DEF PendingOf
<1>3. /\ op.action \in Actions /\ op.session \in Sessions
      /\ op.phase \in {"stopped", "workspace-reset"}
  BY OperationFields DEF Settled
<1>4. \/ op.action = "stop" /\ op.phase = "stopped"
      \/ op.action \in {"restart", "reset-session"} /\ op.phase = "stopped"
      \/ op.action = "full-reset"
  BY <1>3 DEF PhasesOf, Actions, Pending, Terminal
<1>5. /\ op.action = "stop" => next = "completed"
      /\ op.action \in {"restart", "reset-session"} => next = "starting"
      /\ op.action = "full-reset" /\ op.phase = "stopped" => next = "clearing"
      /\ op.action = "full-reset" /\ op.phase = "workspace-reset" => next = "starting"
  <2>1. /\ Len(Chain("stop")) = 1 /\ Len(Chain("restart")) = 2
        /\ Len(Chain("reset-session")) = 2 /\ Len(Chain("full-reset")) = 3
    BY Lengths DEF Length
  <2>2. CASE op.action = "stop" /\ op.phase = "stopped"
    BY <2>1, <2>2
  <2>3. CASE op.action = "restart" /\ op.phase = "stopped"
    BY <1>1, <1>2, <2>1, <2>3
  <2>4. CASE op.action = "reset-session" /\ op.phase = "stopped"
    BY <1>1, <1>2, <2>1, <2>4
  <2>5. CASE op.action = "full-reset" /\ op.phase = "stopped"
    BY <1>1, <1>2, <2>1, <2>5
  <2>6. CASE op.action = "full-reset" /\ op.phase = "workspace-reset"
    BY <1>1, <1>2, <2>1, <2>6
  <2>7. QED
    BY <1>3, <1>4, <2>2, <2>3, <2>4, <2>5, <2>6
<1>6. Advanced(op) = [op EXCEPT !.phase = next, !.sessionSequence = 0, !.session = session]
  BY DEF Advanced
<1> HIDE DEF next
<1>7. session \in Sessions
  BY <1>3, Bounds
<1> HIDE DEF session
<1>8. next \in {"completed", "starting", "clearing"} /\ next \in PhasesOf(op.action)
  BY <1>3, <1>4, <1>5 DEF PhasesOf, Pending, Settled, Terminal
<1>9. next \in Pending \cup Settled \cup Terminal /\ next \in Pending \cup {"completed"}
  BY <1>8 DEF Pending, Settled, Terminal
<1>10. /\ Advanced(op) \in Operations
       /\ Advanced(op).epoch = op.epoch /\ Advanced(op).action = op.action
       /\ Advanced(op).phase = next
  <2>1. [op EXCEPT !.phase = next, !.sessionSequence = 0] \in Operations
    BY <1>9 DEF Operations
  <2>2. Advanced(op) = [[op EXCEPT !.phase = next, !.sessionSequence = 0] EXCEPT !.session = session]
    BY <1>6 DEF Operations
  <2>3. Advanced(op) \in Operations
    BY <1>7, <2>1, <2>2 DEF Operations
  <2>4. /\ Advanced(op).epoch = op.epoch /\ Advanced(op).action = op.action
        /\ Advanced(op).phase = next
    BY <1>6 DEF Operations
  <2>5. QED
    BY <2>3, <2>4
<1>11. Confirmed(Advanced(op)) = Confirmed(op)
  <2>1. /\ next = "completed" => Confirmed(Advanced(op)) = Length(op.action)
        /\ next = "starting" => Confirmed(Advanced(op)) = Length(op.action) - 1
        /\ next = "clearing" => Confirmed(Advanced(op)) = 1
    BY <1>10, ConfirmedSteps
  <2>2. /\ op.phase = "stopped" => Confirmed(op) = 1
        /\ op.phase = "workspace-reset" => Confirmed(op) = 2
    BY ConfirmedSteps
  <2>3. QED
    BY <1>3, <1>4, <1>5, <2>1, <2>2, Lengths
<1>12. QED
  BY <1>4, <1>8, <1>9, <1>10, <1>11

LEMMA AdvancedStep ==
  ASSUME IInv, ctl.phase \in Settled, ctl' = Advanced(ctl), performed' = performed
  PROVE  /\ ctl' \in Operations /\ GoesOn(ctl, ctl') /\ StopKnown
         /\ ctl'.epoch # 0 /\ ctl'.phase \in PhasesOf(ctl'.action)
         /\ OperationInv' /\ Refines /\ Carries
<1>1. ctl \in Operations /\ ctl.phase \in PhasesOf(ctl.action) /\ ctl.epoch \in Epochs /\ ctl.epoch # 0
  BY PendingEpoch DEF IInv, TypeOK, OperationInv
<1>2. /\ ctl' \in Operations /\ ctl'.epoch = ctl.epoch /\ ctl'.action = ctl.action
      /\ ctl'.phase \in PhasesOf(ctl'.action) /\ ctl'.phase \in Pending \cup {"completed"}
      /\ Confirmed(ctl') = Confirmed(ctl) /\ ctl.action # "none"
  BY <1>1, AdvancedFacts
<1>3. Confirmed(ctl) \in 0..3 /\ ctl.action \in Actions
  BY <1>1, ConfirmedType, OperationFields
<1>4. ctl.phase \notin Terminal /\ ctl.phase # "failed" /\ ctl'.phase # "failed"
  BY <1>2 DEF Settled, Terminal, Pending
<1>5. GoesOn(ctl, ctl') /\ StopKnown
  <2>1. GoesOn(ctl, ctl')
    BY <1>2, <1>3, <1>4 DEF GoesOn
  <2>2. StopKnown
    BY <1>2 DEF StopKnown, IInv, StopInv
  <2>3. QED
    BY <2>1, <2>2
<1>6. OperationInv'
  BY <1>1, <1>2, <1>4 DEF IInv, OperationInv
<1>7. Taken' = Taken /\ Outcome = "pending"
  BY <1>1, <1>2, <1>4 DEF Taken, Outcome
<1>8. Refines
  <2>1. CASE ctl'.phase \in Pending
    <3>1. Outcome' = "pending"
      BY <2>1 DEF Outcome, Pending, Terminal
    <3>2. UNCHANGED Operation!vars
      BY <1>2, <1>7, <3>1 DEF Operation!vars
    <3>3. QED
      BY <3>2 DEF Refines
  <2>2. CASE ctl'.phase = "completed"
    <3>1. Confirmed(ctl) = Len(Operation!Steps(ctl.action))
      BY <1>2, <1>3, <2>2, ConfirmedSteps, AbstractLength
    <3>2. Outcome' = "completed"
      BY <2>2 DEF Outcome, Terminal
    <3>3. Operation!Complete
      BY <1>2, <1>7, <3>1, <3>2 DEF Operation!Complete
    <3>4. QED
      BY <3>3 DEF Refines, Operation!Next
  <2>3. QED
    BY <1>2, <2>1, <2>2
<1>9. QED
  BY <1>1, <1>2, <1>5, <1>6, <1>8 DEF Carries

LEMMA AdvanceStep ==
  ASSUME IInv, Advance
  PROVE  IInv' /\ Refines /\ Carries
<1>1. /\ ctl.phase \in Settled /\ ctl' = Advanced(ctl)
      /\ UNCHANGED <<stopped, writer, link, results, reports, controlVars, processVars,
                     historyVars, events>>
      /\ UNCHANGED <<performed, tries>>
      /\ \/ commands' = commands
         \/ ctl'.phase \in Pending /\ Connected /\ commands' = commands \cup {CommandFor(ctl')}
      /\ driver' \in {driver} \cup Pending
  BY DEF Advance, Publish, historyVars
<1>2. /\ ctl' \in Operations /\ GoesOn(ctl, ctl') /\ StopKnown
      /\ ctl'.epoch # 0 /\ ctl'.phase \in PhasesOf(ctl'.action)
      /\ OperationInv' /\ Refines /\ Carries /\ WriterInv'
  BY <1>1, AdvancedStep, WriterStays
<1>3. commands' \subseteq Commands /\ \A c \in commands' : c \in commands \/ Issued(c)
  <2>1. CASE commands' = commands
    BY <2>1 DEF IInv, TypeOK
  <2>2. CASE ctl'.phase \in Pending /\ commands' = commands \cup {CommandFor(ctl')}
    <3>1. CommandFor(ctl') \in Commands /\ \A c \in commands' : c \in commands \/ Issued(c)
      BY <1>2, <2>2, PublishIssues
    <3>2. QED
      BY <2>2, <3>1 DEF IInv, TypeOK
  <2>3. QED
    BY <1>1, <2>1, <2>2
<1>4. TypeOK'
  BY <1>1, <1>2, <1>3 DEF IInv, TypeOK, controlVars, processVars, historyVars
<1>5. LinkMoves /\ Answered
  BY <1>1, SameAnswered DEF LinkMoves, Connected, Handshakes, IInv, WireInv
<1>6. QED
  BY <1>1, <1>2, <1>3, <1>4, <1>5, GoesOnStep DEF IInv

(* The cloud learns of the operation by a result or a report.              *)
LEMMA LearnsStep ==
  ASSUME IInv, ctl' \in Operations, GoesOn(ctl, ctl'), StopKnown, OperationInv', Refines, Carries,
         results' \subseteq results, reports' \subseteq reports,
         UNCHANGED <<stopped, writer, driver, link, commands, controlVars, processVars,
                     historyVars, events>>
  PROVE  IInv' /\ Refines /\ Carries
<1>1. TypeOK'
  BY DEF IInv, TypeOK, controlVars, processVars, historyVars
<1>2. LinkMoves /\ Answered
  BY SameAnswered DEF LinkMoves, IInv, WireInv
<1>3. QED
  BY <1>1, <1>2, WriterStays, GoesOnStep DEF IInv, historyVars

(* What a report changes of the operation is its session.                  *)
LEMMA SessionLearned ==
  ASSUME IInv, ctl' \in Operations, ctl'.epoch = ctl.epoch, ctl'.action = ctl.action,
         ctl'.phase = ctl.phase, performed' = performed
  PROVE  GoesOn(ctl, ctl') /\ StopKnown /\ OperationInv' /\ Refines /\ Carries
<1>1. ctl \in Operations /\ ctl.phase \in PhasesOf(ctl.action)
  BY DEF IInv, TypeOK, OperationInv
<1>2. Confirmed(ctl') = Confirmed(ctl) /\ Confirmed(ctl) \in 0..3
  <2>1. Confirmed(ctl') = Confirmed(ctl)
    BY DEF Confirmed
  <2>2. QED
    BY <1>1, <2>1, ConfirmedType
<1>3. GoesOn(ctl, ctl')
  BY <1>1, <1>2 DEF GoesOn
<1>4. StopKnown
  BY <1>2 DEF StopKnown, IInv, StopInv
<1>5. OperationInv'
  BY <1>2 DEF IInv, OperationInv
<1>6. UNCHANGED Operation!vars
  BY <1>2 DEF Operation!vars, Taken, Outcome
<1>7. QED
  BY <1>3, <1>4, <1>5, <1>6 DEF Refines, Carries

LEMMA SnapshotStep ==
  ASSUME IInv, NEW s \in reports, Snapshot(s)
  PROVE  IInv' /\ Refines /\ Carries
<1>1. /\ reports' \subseteq reports
      /\ \/ ctl' = [ctl EXCEPT !.session = s.session, !.sessionSequence = s.seq, !.bound = TRUE]
         \/ ctl' = ctl
      /\ UNCHANGED <<stopped, writer, driver, link, commands, results, controlVars, processVars,
                     historyVars, events>>
  BY DEF Snapshot
<1>2. s.session \in Sessions /\ s.seq \in Nat /\ ctl \in Operations
  BY DEF IInv, TypeOK, Reports
<1>3. /\ ctl' \in Operations /\ ctl'.epoch = ctl.epoch /\ ctl'.action = ctl.action
      /\ ctl'.phase = ctl.phase
  BY <1>1, <1>2 DEF Operations
<1>4. GoesOn(ctl, ctl') /\ StopKnown /\ OperationInv' /\ Refines /\ Carries
  BY <1>1, <1>3, SessionLearned DEF historyVars
<1>5. QED
  BY <1>1, <1>3, <1>4, LearnsStep

LEMMA InvalidateStep ==
  ASSUME IInv, NEW s \in reports, Invalidate(s)
  PROVE  IInv' /\ Refines /\ Carries
<1>1. /\ reports' \subseteq reports
      /\ ctl' = [ctl EXCEPT !.session = NoSession] \/ ctl' = ctl
      /\ UNCHANGED <<stopped, writer, driver, link, commands, results, controlVars, processVars,
                     historyVars, events>>
  BY DEF Invalidate
<1>2. NoSession \in Sessions /\ ctl \in Operations
  BY Bounds DEF IInv, TypeOK
<1>3. /\ ctl' \in Operations /\ ctl'.epoch = ctl.epoch /\ ctl'.action = ctl.action
      /\ ctl'.phase = ctl.phase
  BY <1>1, <1>2 DEF Operations
<1>4. GoesOn(ctl, ctl') /\ StopKnown /\ OperationInv' /\ Refines /\ Carries
  BY <1>1, <1>3, SessionLearned DEF historyVars
<1>5. QED
  BY <1>1, <1>3, <1>4, LearnsStep

(* What a result tells of the operation.                                   *)
LEMMA ResultMoves ==
  ASSUME IInv, NEW r \in results, Applies(r), UNCHANGED <<link, commands, rec>>, performed' = performed,
         ctl' \in Operations, ctl'.epoch = ctl.epoch, ctl'.action = ctl.action,
         ctl'.phase = IF r.phase = "failed" THEN "failed" ELSE CompletedOf(r.phase)
  PROVE  GoesOn(ctl, ctl') /\ StopKnown /\ OperationInv' /\ Refines /\ Carries
<1>1. /\ ctl \in Operations /\ ctl.phase \in PhasesOf(ctl.action) /\ r \in Results
      /\ r.epoch = ctl.epoch /\ ctl.phase \notin Terminal
      /\ r.phase # "failed" => ctl.phase = AwaitedBy(r.phase)
      /\ performed \in [Epochs -> 0..3]
  BY DEF IInv, TypeOK, OperationInv, Applies, Current
<1>2. /\ ctl.epoch # 0 /\ ctl.epoch \in Epochs /\ ctl.action # "none" /\ ctl.action \in Actions
      /\ Confirmed(ctl) \in 0..3 /\ Length(ctl.action) \in 0..3
      /\ performed[ctl.epoch] \in 0..3
  <2>1. ctl.phase \in Pending \cup Settled
    BY <1>1, OperationFields
  <2>2. QED
    BY <1>1, <2>1, PendingEpoch, OperationFields, ConfirmedType, LengthType
<1>3. /\ r.phase \in {"stopped", "workspace-reset", "started", "failed"}
      /\ r.phase = "stopped" => performed[ctl.epoch] >= 1
      /\ r.phase = "workspace-reset" => performed[ctl.epoch] >= 2
      /\ r.phase = "started" => performed[ctl.epoch] >= Length(ctl.action)
  <2>1. r # NoResult
    BY <1>1, <1>2, NoResultType
  <2>2. Vouched(ctl, performed, r)
    BY DEF IInv, WireInv
  <2>3. QED
    BY <1>1, <2>1, <2>2 DEF Vouched, Results, ResultPhases
<1>4. /\ Confirmed(ctl) <= performed[ctl.epoch] /\ performed[ctl.epoch] <= Confirmed(ctl) + 1
      /\ performed[ctl.epoch] <= Length(ctl.action) /\ ctl.phase # "failed"
  BY <1>1, <1>2 DEF IInv, OperationInv, Terminal
<1>5. Taken = performed[ctl.epoch] /\ Outcome = "pending"
  BY <1>1, <1>2, <1>4 DEF Taken, Outcome
<1>6. CASE r.phase = "failed"
  <2>1. ctl'.phase = "failed" /\ Confirmed(ctl') = 0
    BY <1>6, ConfirmedSteps
  <2>2. ctl'.phase \in PhasesOf(ctl'.action)
    BY <1>1, <1>2, <2>1 DEF PhasesOf, Terminal, Actions
  <2>3. GoesOn(ctl, ctl') /\ StopKnown
    BY <1>4, <2>1, <2>2 DEF GoesOn, StopKnown
  <2>4. OperationInv'
    BY <2>1, <2>2 DEF IInv, OperationInv
  <2>5. Operation!Fail
    BY <1>5, <2>1 DEF Operation!Fail, Taken, Outcome, Terminal
  <2>6. QED
    BY <2>3, <2>4, <2>5 DEF Refines, Carries, Operation!Next
<1>7. CASE r.phase # "failed"
  <2>1. \/ r.phase = "stopped" /\ ctl.phase = "stopping" /\ ctl'.phase = "stopped"
        \/ r.phase = "workspace-reset" /\ ctl.phase = "clearing" /\ ctl'.phase = "workspace-reset"
        \/ r.phase = "started" /\ ctl.phase = "starting" /\ ctl'.phase = "completed"
    BY <1>1, <1>3, <1>7 DEF AwaitedBy, CompletedOf
  <2>2. ctl'.phase \in PhasesOf(ctl'.action) /\ ctl'.phase # "failed"
    BY <1>1, <1>2, <2>1 DEF PhasesOf, Pending, Settled, Terminal, Actions
  <2>3. Confirmed(ctl') = performed[ctl.epoch] /\ performed[ctl.epoch] = Confirmed(ctl) + 1
    <3>1. CASE r.phase = "stopped" /\ ctl.phase = "stopping" /\ ctl'.phase = "stopped"
      BY <1>1, <1>2, <1>3, <1>4, <3>1, ConfirmedSteps
    <3>2. CASE r.phase = "workspace-reset" /\ ctl.phase = "clearing" /\ ctl'.phase = "workspace-reset"
      BY <1>1, <1>2, <1>3, <1>4, <3>2, ConfirmedSteps
    <3>3. CASE r.phase = "started" /\ ctl.phase = "starting" /\ ctl'.phase = "completed"
      BY <1>1, <1>2, <1>3, <1>4, <3>3, ConfirmedSteps
    <3>4. QED
      BY <2>1, <3>1, <3>2, <3>3
  <2>4. GoesOn(ctl, ctl')
    BY <1>2, <1>4, <2>2, <2>3 DEF GoesOn
  <2>5. StopKnown
    <3> SUFFICES ASSUME NEW c \in commands, c.step = "stop", c.epoch = ctl.epoch,
                        Confirmed(ctl') >= 1
                 PROVE  Handled(rec, c.epoch)
      BY DEF StopKnown
    <3>1. Reached(ctl, "stop")
      BY DEF IInv, WireInv
    <3>2. CASE Confirmed(ctl) >= 1
      BY <3>2 DEF IInv, StopInv
    <3>3. CASE r.phase = "stopped"
      BY <1>1, <3>3 DEF IInv, WireInv, StopInv
    <3>4. CASE r.phase = "workspace-reset" /\ ctl.phase = "clearing"
      BY <1>1, <3>2, <3>4, ConfirmedSteps
    <3>5. CASE r.phase = "started" /\ ctl.phase = "starting"
      BY <1>1, <3>1, <3>2, <3>5, StartPhase
    <3>6. QED
      BY <2>1, <3>3, <3>4, <3>5
  <2>6. OperationInv'
    BY <1>1, <1>2, <1>4, <2>2, <2>3 DEF IInv, OperationInv
  <2>7. Taken' = Taken
    BY <1>4, <1>5, <2>2 DEF Taken
  <2>8. Outcome' = "pending" \/ (Outcome' = "completed" /\ Taken = Len(Operation!Steps(ctl.action)))
    <3>1. CASE ctl'.phase = "completed"
      <4>1. Confirmed(ctl') = Length(ctl.action)
        BY <3>1, ConfirmedSteps
      <4>2. QED
        BY <1>2, <1>5, <2>3, <3>1, <4>1, AbstractLength DEF Outcome, Terminal
    <3>2. CASE ctl'.phase # "completed"
      BY <2>2, <3>2 DEF Outcome, Terminal
    <3>3. QED
      BY <3>1, <3>2
  <2>9. Operation!Confirm
    BY <1>5, <2>3, <2>7, <2>8 DEF Operation!Confirm
  <2>10. QED
    BY <2>4, <2>5, <2>6, <2>9 DEF Refines, Carries, Operation!Next
<1>8. QED
  BY <1>6, <1>7

LEMMA ResultStep ==
  ASSUME IInv, NEW r \in results, Result(r)
  PROVE  IInv' /\ Refines /\ Carries
<1>1. /\ results' \subseteq results
      /\ UNCHANGED <<stopped, writer, driver, link, commands, reports, controlVars, processVars,
                     historyVars, events>>
      /\ UNCHANGED <<rec, performed>>
  BY DEF Result, controlVars, historyVars
<1>2. ctl \in Operations /\ r \in Results
  BY DEF IInv, TypeOK
<1>3. CASE ctl' = ctl
  <2>1. ctl' \in Operations /\ GoesOn(ctl, ctl') /\ StopKnown /\ OperationInv' /\ Refines /\ Carries
    BY <1>1, <1>2, <1>3, Stays
  <2>2. QED
    BY <1>1, <2>1, LearnsStep
<1>4. CASE /\ Applies(r)
           /\ ctl' = [ctl EXCEPT
                !.controlSequence = r.seq,
                !.phase = IF r.phase = "failed" THEN "failed" ELSE CompletedOf(r.phase),
                !.bound = @ \/ (r.phase = "started" /\ r.session # NoSession),
                !.session = ResultSession(r)]
  <2> DEFINE phase == IF r.phase = "failed" THEN "failed" ELSE CompletedOf(r.phase)
             bound == ctl.bound \/ (r.phase = "started" /\ r.session # NoSession)
  <2>1. /\ r.phase \in {"stopped", "workspace-reset", "started", "failed"}
        /\ r.seq \in Nat /\ r.session \in Sessions
    <3>1. r # NoResult
      <4>1. ctl.epoch # 0
        <5>1. ctl.phase \in Pending \cup Settled
          BY <1>2, <1>4, OperationFields DEF Applies
        <5>2. QED
          BY <5>1, PendingEpoch
      <4>2. QED
        BY <1>4, <4>1, NoResultType DEF Applies, Current
    <3>2. Vouched(ctl, performed, r)
      BY DEF IInv, WireInv
    <3>3. QED
      BY <1>2, <3>1, <3>2 DEF Vouched, Results, ResultPhases
  <2>2. phase \in Pending \cup Settled \cup Terminal /\ bound \in BOOLEAN
    BY <1>2, <2>1 DEF CompletedOf, Settled, Terminal, Operations
  <2>3. ResultSession(r) \in Sessions
    BY <1>2, <2>1, OperationFields DEF ResultSession
  <2>4. ctl' = [ctl EXCEPT !.controlSequence = r.seq, !.phase = phase, !.bound = bound,
                           !.session = ResultSession(r)]
    BY <1>2, <1>4 DEF Operations
  <2>5. ctl'.epoch = ctl.epoch /\ ctl'.action = ctl.action /\ ctl'.phase = phase
    BY <1>2, <2>4 DEF Operations
  <2>6. ctl' \in Operations
    <3> HIDE DEF phase, bound
    <3>1. QED
      BY <1>2, <2>1, <2>2, <2>3, <2>4 DEF Operations
  <2>7. GoesOn(ctl, ctl') /\ StopKnown /\ OperationInv' /\ Refines /\ Carries
    BY <1>1, <1>4, <2>5, <2>6, ResultMoves
  <2>8. QED
    BY <1>1, <2>6, <2>7, LearnsStep
<1>5. QED
  BY <1>3, <1>4 DEF Result

-----------------------------------------------------------------------------
(* The cloud: `ready` is recovered, and an operation begins.               *)

LEMMA RecoverWorkspaceStep ==
  ASSUME IInv, RecoverWorkspace
  PROVE  IInv' /\ Refines /\ Carries
<1>1. /\ link \in Handshakes /\ link' = "up" /\ Connected
      /\ results' \subseteq results \cup {rec.lastResult}
      /\ reports' = reports \cup rec.report
      /\ stranded' = stranded \/ (ctl.phase \in Pending \cup Settled /\ stranded' = stranded \cup {ctl.epoch})
      /\ UNCHANGED <<stopped, driver, controlVars, processVars, performed, tries, refused, outrun,
                     events>>
      /\ UNCHANGED rec
  BY DEF RecoverWorkspace, Connected, controlVars
<1>2. /\ \/ ctl' = ctl
         \/ ctl.phase \in Settled /\ ctl' = Advanced(ctl)
      /\ \/ commands' = commands
         \/ ctl'.phase \in Pending /\ commands' = commands \cup {CommandFor(ctl')}
      /\ \/ writer' = writer
         \/ ReadToBegin("ready", "stop", FALSE)
         \/ ReadToBegin("lock", "start", TRUE)
  <2>1. Reconcile \/ Recover \/ UNCHANGED <<ctl, commands, writer>>
    BY DEF RecoverWorkspace
  <2>2. CASE Reconcile
    BY <2>2 DEF Reconcile
  <2>3. CASE Recover
    BY <1>1, <2>3 DEF Recover, Resent, Publish
  <2>4. QED
    BY <2>1, <2>2, <2>3
<1>3. ctl' \in Operations /\ GoesOn(ctl, ctl') /\ StopKnown /\ OperationInv' /\ Refines /\ Carries
  <2>1. CASE ctl' = ctl
    BY <1>1, <2>1, Stays DEF IInv, TypeOK
  <2>2. CASE ctl.phase \in Settled /\ ctl' = Advanced(ctl)
    BY <1>1, <2>2, AdvancedStep
  <2>3. QED
    BY <1>2, <2>1, <2>2
<1>4. writer' \in [Callers -> Writers] /\ WriterInv'
  <2>1. CASE writer' = writer
    BY <2>1, WriterStays DEF IInv, TypeOK
  <2>2. CASE ReadToBegin("ready", "stop", FALSE)
    BY <2>2, ReadStep DEF Callers, Actions
  <2>3. CASE ReadToBegin("lock", "start", TRUE)
    BY <2>3, ReadStep DEF Callers, Actions
  <2>4. QED
    BY <1>2, <2>1, <2>2, <2>3
<1>5. commands' \subseteq Commands /\ \A c \in commands' : c \in commands \/ Issued(c)
  <2>1. CASE commands' = commands
    BY <2>1 DEF IInv, TypeOK
  <2>2. CASE ctl'.phase \in Pending /\ commands' = commands \cup {CommandFor(ctl')}
    <3>1. ctl'.epoch # 0 /\ ctl'.phase \in PhasesOf(ctl'.action)
      <4>1. ctl'.phase \in PhasesOf(ctl'.action) /\ ctl'.epoch = ctl.epoch
        BY <1>3 DEF GoesOn
      <4>2. ctl.phase \in Pending \cup Settled
        BY <1>2, <2>2
      <4>3. QED
        BY <4>1, <4>2, PendingEpoch
    <3>2. CommandFor(ctl') \in Commands /\ \A c \in commands' : c \in commands \/ Issued(c)
      BY <1>3, <2>2, <3>1, PublishIssues
    <3>3. QED
      BY <2>2, <3>2 DEF IInv, TypeOK
  <2>3. QED
    BY <1>2, <2>1, <2>2
<1>6. /\ rec.lastResult \in Results /\ rec.report \subseteq Reports
      /\ results' \subseteq Results /\ reports' \subseteq Reports
  <2>1. rec.lastResult \in Results /\ rec.report \subseteq Reports
    BY RecordFields DEF IInv, TypeOK
  <2>2. QED
    BY <1>1, <2>1 DEF IInv, TypeOK
<1>7. stranded' \subseteq Epochs
  BY <1>1, PendingEpoch DEF IInv, TypeOK
<1>8. TypeOK'
  BY <1>1, <1>3, <1>4, <1>5, <1>6, <1>7 DEF IInv, TypeOK, controlVars, processVars
<1>9. Answered
  <2>1. Vouched(ctl', performed', rec.lastResult)
    BY <1>1, <1>3 DEF IInv, RecordInv, Vouched, GoesOn
  <2>2. rec.lastResult.phase = "stopped" => Handled(rec', rec.lastResult.epoch)
    BY <1>1 DEF IInv, RecordInv, Handled
  <2>3. QED
    BY <1>1, <2>1, <2>2 DEF Answered, Answers
<1>10. LinkMoves
  BY <1>1 DEF LinkMoves, Handshakes
<1>11. QED
  BY <1>1, <1>3, <1>4, <1>5, <1>8, <1>9, <1>10, GoesOnStep DEF IInv

LEMMA BegunFacts ==
  ASSUME NEW action \in Actions \ {"none"}, NEW old \in Operations, old.epoch < MaxEpoch
  PROVE  /\ Begun(action, old) \in Operations
         /\ Begun(action, old).epoch = old.epoch + 1 /\ Begun(action, old).action = action
         /\ Begun(action, old).session = old.session
         /\ Begun(action, old).phase \in PhasesOf(action) \cap Pending
         /\ Confirmed(Begun(action, old)) = 0
<1> DEFINE phase == PendingOf(Chain(action)[1])
<1>1. phase = IF action = "start" THEN "starting" ELSE "stopping"
  <2>1. PendingOf("start") = "starting" /\ PendingOf("stop") = "stopping"
    BY DEF PendingOf
  <2>2. Chain(action)[1] = IF action = "start" THEN "start" ELSE "stop"
    <3>1. /\ Chain("start")[1] = "start" /\ Chain("stop")[1] = "stop"
          /\ Chain("restart")[1] = "stop" /\ Chain("reset-session")[1] = "stop"
          /\ Chain("full-reset")[1] = "stop"
      BY DEF Chain
    <3>2. QED
      BY <3>1 DEF Actions
  <2>3. QED
    BY <2>1, <2>2
<1>2. Begun(action, old) =
        [epoch |-> old.epoch + 1, action |-> action, phase |-> phase, session |-> old.session,
         bound |-> FALSE, controlSequence |-> 0, sessionSequence |-> 0]
  BY DEF Begun
<1> HIDE DEF phase
<1>3. phase \in Pending /\ phase \in PhasesOf(action)
  BY <1>1 DEF PhasesOf, Pending, Actions
<1>4. old.epoch + 1 \in 0..MaxEpoch /\ old.session \in Sessions
  BY OperationFields, Bounds
<1>5. /\ Begun(action, old) \in Operations
      /\ Begun(action, old).epoch = old.epoch + 1 /\ Begun(action, old).action = action
      /\ Begun(action, old).session = old.session /\ Begun(action, old).phase = phase
  BY <1>2, <1>3, <1>4 DEF Operations
<1>6. Confirmed(Begun(action, old)) = 0
  <2>1. CASE action = "start"
    BY <1>1, <1>5, <2>1, ConfirmedSteps, Lengths
  <2>2. CASE action # "start"
    BY <1>1, <1>5, <2>2, ConfirmedSteps
  <2>3. QED
    BY <2>1, <2>2
<1>7. QED
  BY <1>3, <1>5, <1>6

(* An operation begins: what is on its way or in the record is older.      *)
LEMMA BegunStep ==
  ASSUME IInv, TypeOK', WriterInv', NEW action \in Actions \ {"none"}, ctl.epoch < MaxEpoch,
         ctl' = Begun(action, ctl),
         UNCHANGED <<link, commands, results, reports, controlVars, processVars, historyVars>>
  PROVE  IInv' /\ Refines /\ Carries
<1>1. /\ ctl \in Operations /\ ctl' \in Operations
      /\ ctl'.epoch = ctl.epoch + 1 /\ ctl'.action = action /\ ctl'.session = ctl.session
      /\ ctl'.phase \in PhasesOf(action) \cap Pending /\ Confirmed(ctl') = 0
      /\ UNCHANGED <<link, commands, results, rec, work, retry, proc, restart, wake, performed, tries>>
  <2>1. ctl \in Operations
    BY DEF IInv, TypeOK
  <2>2. QED
    BY <2>1, BegunFacts DEF controlVars, processVars, historyVars
<1>2. /\ ctl.epoch \in 0..MaxEpoch /\ ctl'.epoch \in Epochs /\ Epochs = 1..MaxEpoch
      /\ MaxEpoch \in Nat /\ rec.epoch \in 0..MaxEpoch
      /\ Length(action) \in 0..3 /\ Length(action) >= 1
  BY <1>1, OperationFields, RecordFields, LengthType, Bounds DEF IInv, TypeOK, Epochs
<1>3. performed[ctl'.epoch] = 0
  BY <1>1, <1>2 DEF IInv, OperationInv
<1>4. OperationInv'
  <2>1. \A e \in Epochs : e > ctl'.epoch => performed[e] = 0
    BY <1>1, <1>2 DEF IInv, OperationInv
  <2>2. ctl'.epoch # 0 /\ ctl'.action # "none"
    BY <1>1, <1>2
  <2>3. QED
    BY <1>1, <1>2, <1>3, <2>1, <2>2 DEF OperationInv
<1>5. Refines
  <2>1. Taken' = 0
    BY <1>1, <1>3 DEF Taken
  <2>2. Outcome' = "pending"
    BY <1>1 DEF Outcome, Pending, Terminal
  <2>3. Operation!Begin
    BY <1>1, <2>1, <2>2 DEF Operation!Begin, Operation!Actions, Actions
  <2>4. QED
    BY <2>3 DEF Refines, Operation!Next
<1>6. ASSUME NEW r, Vouched(ctl, performed, r)
      PROVE  Vouched(ctl', performed', r) /\ (r # NoResult => r.epoch # ctl'.epoch)
  BY <1>1, <1>2, <1>6 DEF Vouched
<1>7. \A c \in commands : c.epoch < ctl'.epoch
  <2>1. \A c \in commands : c.epoch \in Epochs /\ c.epoch <= ctl.epoch
    BY CommandFields
  <2>2. QED
    BY <1>1, <1>2, <2>1
<1>8. WireInv'
  <2>1. \A r \in results : Vouched(ctl', performed', r)
    BY <1>6 DEF IInv, WireInv
  <2>2. \A c \in commands : c.epoch <= ctl'.epoch /\ c.epoch # ctl'.epoch
    <3>1. \A c \in commands : c.epoch \in Epochs
      BY CommandFields
    <3>2. QED
      BY <1>2, <1>7, <3>1
  <2>3. QED
    BY <1>1, <2>1, <2>2 DEF IInv, WireInv
<1>9. RecordInv'
  <2>1. /\ Vouched(ctl', performed', rec.stopResult) /\ Vouched(ctl', performed', rec.resetResult)
        /\ Vouched(ctl', performed', rec.startResult) /\ Vouched(ctl', performed', rec.lastResult)
    BY <1>6 DEF IInv, RecordInv
  <2>2. rec.epoch < ctl'.epoch /\ rec.epoch <= ctl'.epoch /\ rec.epoch # ctl'.epoch
    BY <1>1, <1>2 DEF IInv, RecordInv
  <2>3. QED
    BY <1>1, <2>1, <2>2 DEF IInv, RecordInv
<1>10. DownInv'
  BY <1>1, <1>3 DEF DownInv
<1>11. StopInv'
  <2>1. \A r \in results : ~(r.phase = "stopped" /\ r.epoch = ctl'.epoch)
    BY <1>6, NoResultType DEF IInv, WireInv
  <2>2. QED
    BY <1>1, <2>1 DEF IInv, StopInv
<1>12. TriesInv'
  <2>1. ~(tries[ctl'.epoch] > 0)
    BY <1>1, <1>2 DEF IInv, TriesInv, RecordInv
  <2>2. QED
    BY <1>1, <2>1 DEF IInv, TriesInv
<1>13. QED
  BY <1>1, <1>4, <1>5, <1>8, <1>9, <1>10, <1>11, <1>12 DEF IInv, Carries

LEMMA BeginStep ==
  ASSUME IInv, NEW caller \in Callers, Begin(caller)
  PROVE  IInv' /\ Refines /\ Carries
<1> DEFINE w == writer[caller]
<1>1. /\ w # NoWriter /\ w \in Writers /\ writer \in [Callers -> Writers]
      /\ w.action \in Actions \ {"none"} /\ w.seen \in Operations /\ w.attempt \in 0..3
      /\ w.seen.epoch < MaxEpoch
      /\ UNCHANGED <<commands, results, reports, controlVars, processVars, historyVars, events>>
  <2>1. w # NoWriter /\ w \in Writers /\ writer \in [Callers -> Writers]
        /\ UNCHANGED <<commands, results, reports, controlVars, processVars, historyVars, events>>
    BY DEF Begin, IInv, TypeOK
  <2>2. w.action # "none" /\ w.seen.epoch < MaxEpoch
    BY <2>1 DEF IInv, WriterInv
  <2>3. w.action \in Actions /\ w.seen \in Operations /\ w.attempt \in 0..3
    BY <2>1 DEF Writers
  <2>4. QED
    BY <2>1, <2>2, <2>3
<1>2. NoWriter \in Writers
  BY Bounds DEF NoWriter, NoOperation, Writers, Operations, Actions, Pending, Settled, Terminal
<1>3. CASE /\ ctl = w.seen /\ ctl' = Begun(w.action, w.seen) /\ driver' = "new"
           /\ stopped' \in BOOLEAN /\ writer' = [writer EXCEPT ![caller] = NoWriter]
           /\ UNCHANGED link
  <2>1. ctl' \in Operations
    BY <1>1, <1>3, BegunFacts
  <2>2. writer' \in [Callers -> Writers] /\ WriterInv'
    BY <1>1, <1>2, <1>3 DEF IInv, WriterInv
  <2>3. TypeOK'
    BY <1>1, <1>3, <2>1, <2>2 DEF IInv, TypeOK, controlVars, processVars, historyVars
  <2>4. QED
    BY <1>1, <1>3, <2>2, <2>3, BegunStep
<1>4. CASE /\ OperationFence(ctl) = OperationFence(w.seen) /\ w.attempt < 3
           /\ writer' = [writer EXCEPT ![caller].seen = ctl, ![caller].attempt = @ + 1]
           /\ UNCHANGED <<ctl, stopped, driver, link>>
  <2>1. /\ writer'[caller].seen = ctl /\ writer'[caller].action = w.action
        /\ \A c \in Callers : c # caller => writer'[c] = writer[c]
        /\ writer' \in [Callers -> Writers]
    <3> DEFINE v == [w EXCEPT !.seen = ctl, !.attempt = @ + 1]
    <3>1. writer' = [writer EXCEPT ![caller] = v]
      BY <1>1, <1>4
    <3>2. ctl \in Operations /\ w.attempt + 1 \in 0..3
      BY <1>1, <1>4 DEF IInv, TypeOK
    <3>3. v \in Writers /\ v.seen = ctl /\ v.action = w.action
      BY <1>1, <3>2 DEF Writers
    <3> HIDE DEF v
    <3>4. QED
      BY <1>1, <3>1, <3>3
  <2>2. ctl.epoch < MaxEpoch
    BY <1>1, <1>4 DEF OperationFence
  <2>3. WriterInv'
    BY <1>1, <2>1, <2>2 DEF IInv, WriterInv
  <2>4. TypeOK'
    BY <1>1, <1>4, <2>1 DEF IInv, TypeOK, controlVars, processVars, historyVars
  <2>5. LinkMoves /\ Answered /\ commands' \subseteq commands
    BY <1>1, <1>4, SameAnswered DEF LinkMoves, IInv, WireInv
  <2>6. Kept(rec, rec') /\ WorkQuiet /\ RetryQuiet /\ ProcessQuiet
    BY <1>1, KeptStays DEF controlVars, processVars, WorkQuiet, RetryQuiet, ProcessQuiet
  <2>7. QED
    BY <1>1, <1>4, <2>3, <2>4, <2>5, <2>6, CalmStep DEF historyVars
<1>5. CASE /\ writer' = [writer EXCEPT ![caller] = NoWriter]
           /\ link' = link \/ (link = "up" /\ link' = "down")
           /\ UNCHANGED <<ctl, stopped, driver>>
  <2>1. writer' \in [Callers -> Writers] /\ WriterInv'
    BY <1>1, <1>2, <1>5 DEF IInv, WriterInv
  <2>2. TypeOK'
    BY <1>1, <1>5, <2>1 DEF IInv, TypeOK, controlVars, processVars, historyVars
  <2>3. LinkMoves /\ Answered /\ commands' \subseteq commands
    BY <1>1, <1>5, SameAnswered DEF LinkMoves, IInv, WireInv
  <2>4. Kept(rec, rec') /\ WorkQuiet /\ RetryQuiet /\ ProcessQuiet
    BY <1>1, KeptStays DEF controlVars, processVars, WorkQuiet, RetryQuiet, ProcessQuiet
  <2>5. QED
    BY <1>1, <1>5, <2>1, <2>2, <2>3, <2>4, CalmStep DEF historyVars
<1>6. QED
  <2>1. stopped \in BOOLEAN
    BY DEF IInv, TypeOK
  <2>2. QED
    BY <1>3, <1>4, <1>5, <2>1 DEF Begin, Unchanged

-----------------------------------------------------------------------------
(* Every step, and the theorems.                                           *)

LEMMA InitInv == Init => IInv
<1> SUFFICES ASSUME Init PROVE IInv
  OBVIOUS
<1>1. /\ ctl = NoOperation /\ writer = [c \in Callers |-> NoWriter] /\ link = "boot"
      /\ commands = {} /\ results = {} /\ reports = {} /\ rec = NoRecord /\ work = NoWork
      /\ retry = NoRetry /\ proc = NoProcess /\ restart = 0 /\ wake = "no"
      /\ performed = [e \in Epochs |-> 0] /\ tries = [e \in Epochs |-> 0]
  BY DEF Init
<1>2. /\ NoOperation \in Operations /\ NoOperation.epoch = 0 /\ NoOperation.action = "none"
      /\ NoOperation.phase = "completed"
  BY Bounds DEF NoOperation, Operations, Actions, Terminal
<1>3. NoWriter \in Writers
  BY <1>2 DEF NoWriter, Writers, Actions
<1>4. TypeOK
  <2>1. performed \in [Epochs -> 0..3] /\ tries \in [Epochs -> Nat] /\ writer \in [Callers -> Writers]
    BY <1>1, <1>3
  <2>2. /\ callbacks \in Seq(Callbacks) /\ minted \in Sessions /\ lost \subseteq Sessions
        /\ outrun \subseteq 0..MaxEpoch /\ events \in 0..MaxEvents
    BY Bounds DEF Init, Sessions
  <2>3. QED
    BY <1>1, <1>2, <2>1, <2>2, NoRecordType, NoneTypes, Bounds DEF Init, TypeOK
<1>5. OperationInv
  BY <1>1, <1>2 DEF OperationInv, PhasesOf
<1>6. WriterInv /\ WireInv /\ StopInv
  BY <1>1 DEF WriterInv, WireInv, StopInv
<1>7. RecordInv
  BY <1>1, <1>2, NoRecordType, NoResultType, NoneTypes DEF RecordInv, Vouched, Launches
<1>8. DownInv
  BY <1>1, <1>2 DEF DownInv
<1>9. TriesInv
  BY <1>1, <1>2, NoRecordType, NoneTypes, Bounds DEF TriesInv, Launches
<1>10. QED
  BY <1>4, <1>5, <1>6, <1>7, <1>8, <1>9 DEF IInv

LEMMA StutterStep ==
  ASSUME IInv, UNCHANGED vars
  PROVE  IInv' /\ Refines /\ Carries
<1>1. TypeOK'
  BY DEF IInv, TypeOK, vars, cloudVars, wireVars, controlVars, processVars, historyVars
<1>2. QED
  BY <1>1, WriterStays, CloudCalm DEF vars, cloudVars, historyVars

LEMMA Steps ==
  ASSUME IInv, [Next]_vars
  PROVE  IInv' /\ Refines /\ Carries
<1>1. CASE Owner
  BY <1>1, JoinStep, ExecuteStep DEF Owner
<1>2. CASE (\E caller \in Callers : Begin(caller)) \/ Drive \/ DriveTimesOut \/ Advance
  BY <1>2, BeginStep, DriveStep, DriveTimesOutStep, AdvanceStep
<1>3. CASE Arrival
  BY <1>3, ResultStep, SnapshotStep, InvalidateStep DEF Arrival
<1>4. CASE Command
  BY <1>4, StopCommandStep, ResetCommandStep, StartCommandStep DEF Command
<1>5. CASE Stopping
  BY <1>5, StopEndsStep, StopFailsStep DEF Stopping
<1>6. CASE Launching
  BY <1>6, LaunchAuthorizedStep, SpawnedStep, JoinedWakeStep, SessionMissingStep,
     LaunchRejectedStep, LaunchUnconfirmedStep DEF Launching
<1>7. CASE RetryFires \/ RetryRuns \/ Wake \/ Waking \/ Callback \/ Updated
  BY <1>7, RetryFiresStep, RetryRunsStep, WakeStep, WakeAuthorizedStep, WokenStep, CallbackStep,
     UpdatedStep DEF Waking
<1>8. CASE Ready \/ RecoverWorkspace
  BY <1>8, ReadyStep, RecoverWorkspaceStep
<1>9. CASE Failure
  BY <1>9, PublishFailsStep, ProcessExitsStep, DisconnectStep, CrashStep DEF Failure
<1>10. CASE UNCHANGED vars
  BY <1>10, StutterStep
<1>11. QED
  BY <1>1, <1>2, <1>3, <1>4, <1>5, <1>6, <1>7, <1>8, <1>9, <1>10 DEF Next

(* The inductive invariant holds in every reachable state.                 *)
THEOREM Invariant == Spec => []IInv
<1>1. Init => IInv
  BY InitInv
<1>2. IInv /\ [Next]_vars => IInv'
  BY Steps
<1>3. QED
  BY <1>1, <1>2, PTL DEF Spec

(* However many operations are begun and whatever is lost, late or dead,   *)
(* the cloud's operation, the daemon's record and the process have their   *)
(* types: `advance` leads to a phase of the chain, and every result and    *)
(* report names an operation that exists.                                  *)
THEOREM TypeCorrect == Spec => []TypeOK
<1>1. IInv => TypeOK
  BY DEF IInv
<1>2. QED
  BY <1>1, Invariant, PTL

(* Once a Stop has completed no process is up and no launch may bring one  *)
(* up: whatever command is late, message wakes the Agent or retry is armed.*)
THEOREM StaysDown == Spec => []StoppedStaysDown
<1>1. IInv => StoppedStaysDown
  <2> SUFFICES ASSUME IInv, ctl.action = "stop", ctl.phase = "completed"
               PROVE  ~proc.up /\ work.op # "spawn" /\ wake # "spawning"
    BY DEF StoppedStaysDown
  <2>1. ctl.epoch # 0 /\ ctl \in Operations /\ performed[ctl.epoch] >= 1
    <3>1. ctl.epoch # 0 /\ ctl \in Operations
      BY DEF IInv, TypeOK, OperationInv
    <3>2. Confirmed(ctl) = 1
      BY <3>1, ConfirmedSteps, Lengths
    <3>3. ctl.epoch \in Epochs
      BY <3>1, OperationFields, Bounds
    <3>4. performed[ctl.epoch] \in 0..3 /\ Confirmed(ctl) <= performed[ctl.epoch]
      BY <3>1, <3>3 DEF IInv, TypeOK, OperationInv
    <3>5. QED
      BY <3>1, <3>2, <3>4
  <2>2. ~proc.up /\ wake = "no" /\ rec.phase # "starting"
    BY <2>1 DEF IInv, DownInv
  <2>3. work.op # "spawn"
    BY <2>2 DEF IInv, RecordInv, Launches
  <2>4. QED
    BY <2>2, <2>3
<1>2. QED
  BY <1>1, Invariant, PTL

(* A daemon makes at most MaxAttempts launches for one Start, however      *)
(* often the Start is sent and whatever supersedes its retry.              *)
THEOREM AttemptsBounded == Spec => []LaunchAttemptsBounded
<1>1. IInv => LaunchAttemptsBounded
  BY DEF IInv, TriesInv, LaunchAttemptsBounded
<1>2. QED
  BY <1>1, Invariant, PTL

(* What an owner sees is the one current operation of AgentOperation: it   *)
(* starts there, and every step is one of its steps or none.               *)
THEOREM Implements == Spec => ImplementsOperation
<1>1. Init => Operation!Init
  <2> SUFFICES ASSUME Init PROVE Operation!Init
    OBVIOUS
  <2>1. ctl = NoOperation /\ ctl.epoch = 0 /\ ctl.action = "none" /\ ctl.phase = "completed"
    BY DEF Init, NoOperation
  <2>2. Confirmed(ctl) = 0
    <3>1. NoOperation \in Operations
      BY Bounds DEF NoOperation, Operations, Actions, Terminal
    <3>2. QED
      BY <2>1, <3>1, ConfirmedSteps, Lengths
  <2>3. Taken = 0 /\ Outcome = "completed"
    BY <2>1 DEF Taken, Outcome, Terminal
  <2>4. QED
    BY <2>1, <2>2, <2>3 DEF Operation!Init
<1>2. IInv /\ [Next]_vars => [Operation!Next]_(Operation!vars)
  BY Steps DEF Refines
<1>3. QED
  BY <1>1, <1>2, Invariant, PTL DEF Spec, ImplementsOperation, Operation!Spec

(* A new operation carries on the session that is current when it is       *)
(* written, also when a report changed it after `begin` read the Agent.    *)
THEOREM SessionCarried == Spec => SessionCarriedOver
<1>1. IInv /\ [Next]_vars => [ctl'.epoch # ctl.epoch => ctl'.session = ctl.session]_vars
  BY Steps DEF Carries
<1>2. QED
  BY <1>1, Invariant, PTL DEF Spec, SessionCarriedOver

-----------------------------------------------------------------------------
(* The session: the inductive invariant of SessionsAgree.                  *)

Fresh == {"launch", "spawn"}
StartDone == rec.startResult # NoResult

(* A process that is up, or that a message may wake, has a session; while  *)
(* one is launched no other comes up.                                      *)
ProcessInv ==
  /\ link = "boot" => /\ rec = NoRecord /\ work = NoWork /\ retry = NoRetry
                      /\ ~proc.up /\ restart = 0 /\ wake = "no" /\ callbacks = <<>>
  /\ proc.up => proc.session # NoSession /\ proc.launch # 0
  /\ restart # 0 => proc.session # NoSession
  /\ wake # "no" => restart # 0 /\ ~proc.up /\ ~proc.held
  /\ work.op \in Fresh => ~proc.up /\ wake = "no"
  /\ work.op = "spawn" => ~proc.held
  /\ \A i \in 1..Len(callbacks) : callbacks[i].launch # 0

(* What the provider no longer resumes does not come up again.             *)
LostInv ==
  /\ NoSession \notin lost
  /\ proc.session \in lost => ~proc.up /\ wake = "no" /\ (proc.held \/ work.op \in Fresh)
  /\ \A s \in reports : s.kind = "gone" => s.session \in lost

(* The message tells of the Start the record has done, with its session.   *)
Tells(r) == StartDone /\ r.epoch = rec.epoch /\ r.session = rec.session

(* A record that runs, or ran, has done its Start; its session is the one  *)
(* of its process, and all it sends again tells of it.                     *)
RunInv ==
  /\ rec.phase = "running" => StartDone
  /\ rec.phase = "stopped" /\ rec.launch # 0 => StartDone
  /\ rec.phase = "stopping" => rec.launch = 0
  /\ rec.phase = "starting" => rec.launch # 0
  /\ StartDone =>
       /\ rec.phase \in {"running", "stopped"}
       /\ rec.session # NoSession /\ rec.session = proc.session /\ rec.session \notin lost
       /\ rec.startResult.phase = "started" /\ Tells(rec.startResult)
       /\ rec.epoch = ctl.epoch => ctl.action # "stop"
       /\ \A c \in commands : c.step = "stop" /\ c.epoch = rec.epoch => rec.stopResult # NoResult
  /\ rec.stopResult.phase # "started" /\ rec.resetResult.phase # "started"
  /\ rec.lastResult.phase = "started" => Tells(rec.lastResult)
  /\ \A s \in rec.report : s.kind = "session" /\ Tells(s)

(* So does all that is on its way for the current operation.               *)
ToldInv ==
  /\ \A s \in reports : s.epoch <= ctl.epoch
  /\ link # "boot" =>
       /\ \A s \in reports : s.kind = "session" /\ s.epoch = ctl.epoch => Tells(s)
       /\ \A r \in results : r.phase = "started" /\ r.epoch = ctl.epoch => Tells(r)

(* The cloud's operation has the session told of; once it has completed no *)
(* Start of it is under way.                                               *)
CloudInv ==
  /\ link # "boot" /\ HasLaunch(ctl) /\ ctl.sessionSequence > 0 =>
       ctl.epoch \in outrun \/ Tells(ctl)
  /\ ctl.phase = "completed" /\ ctl.action # "stop" =>
       /\ rec.epoch = ctl.epoch /\ ctl.epoch # 0 => StartDone /\ (ctl.epoch \in outrun \/ Tells(ctl))
       /\ \A c \in commands : c.step = "start" /\ c.epoch = ctl.epoch => rec.epoch = ctl.epoch

SInv == ProcessInv /\ LostInv /\ RunInv /\ ToldInv /\ CloudInv

-----------------------------------------------------------------------------
(* The session: how the record moves.                                      *)

(* The Start of the current operation stays done, with its session.        *)
Keeps ==
  StartDone /\ rec.epoch = ctl.epoch =>
    StartDone' /\ rec'.epoch = rec.epoch /\ rec'.session = rec.session

(* Another operation comes with a Start, or a Stop that was not handled.   *)
Enters ==
  rec'.epoch # rec.epoch =>
    \E c \in commands : /\ c.epoch = rec'.epoch
                        /\ c.step = "start" \/ (c.step = "stop" /\ ~Handled(rec, c.epoch))

Told ==
  /\ \A s \in reports' : s \in reports \/ (s.epoch <= ctl.epoch /\ (s.kind = "session" => Tells(s)'))
  /\ \A r \in results' : r \in results \/ (r.phase = "started" => Tells(r)')

LEMMA DaemonTells ==
  ASSUME IInv, SInv, UNCHANGED <<ctl, outrun, link>>, commands' \subseteq commands,
         Keeps, Enters, Told
  PROVE  ToldInv' /\ CloudInv'
<1>1. ctl \in Operations /\ ctl.epoch \in 0..MaxEpoch /\ ctl.phase \in PhasesOf(ctl.action)
  BY OperationFields DEF IInv, TypeOK, OperationInv
<1>2. \A m : Tells(m) /\ m.epoch = ctl.epoch => Tells(m)'
  BY DEF Keeps, Tells
<1>3. ToldInv'
  BY <1>2 DEF SInv, ToldInv, Told
<1>4. Tells(ctl) => Tells(ctl)'
  BY DEF Keeps, Tells
<1>5. ASSUME ctl.phase = "completed", ctl.action # "stop"
      PROVE  /\ rec'.epoch = ctl.epoch /\ ctl.epoch # 0 =>
                  StartDone' /\ (ctl.epoch \in outrun \/ Tells(ctl)')
             /\ \A c \in commands' : c.step = "start" /\ c.epoch = ctl.epoch => rec'.epoch = ctl.epoch
  <2>1. CASE rec.epoch = ctl.epoch /\ ctl.epoch # 0
    BY <1>4, <1>5, <2>1 DEF SInv, CloudInv, Keeps
  <2>2. CASE rec.epoch # ctl.epoch /\ ctl.epoch # 0
    <3>1. \A c \in commands : c.epoch = ctl.epoch => c.step # "start"
      BY <1>5, <2>2 DEF SInv, CloudInv
    <3>2. Confirmed(ctl) >= 1
      <4>1. Confirmed(ctl) = Length(ctl.action) /\ ctl.action \in Actions /\ ctl.action # "none"
        BY <1>1, <1>5, <2>2, ConfirmedSteps, OperationFields DEF IInv, OperationInv
      <4>2. QED
        BY <4>1, LengthType
    <3>3. \A c \in commands : c.epoch = ctl.epoch /\ c.step = "stop" => Handled(rec, c.epoch)
      BY <3>2 DEF IInv, StopInv
    <3>4. rec'.epoch # ctl.epoch
      BY <2>2, <3>1, <3>3 DEF Enters
    <3>5. QED
      BY <3>1, <3>4
  <2>3. CASE ctl.epoch = 0
    BY <2>3, Bounds DEF IInv, TypeOK, Commands
  <2>4. QED
    BY <2>1, <2>2, <2>3
<1>6. CloudInv'
  BY <1>4, <1>5 DEF SInv, CloudInv, HasLaunch
<1>7. QED
  BY <1>3, <1>6

(* The record is left alone, or a failed Stop is repaired.                 *)
LEMMA RunKept ==
  ASSUME IInv, SInv, UNCHANGED <<ctl, lost>>, proc'.session = proc.session,
         commands' \subseteq commands, rec' \in {rec, Repaired}
  PROVE  RunInv' /\ Keeps /\ Enters /\ \A m : Tells(m) => Tells(m)'
<1>1. /\ rec'.epoch = rec.epoch /\ rec'.session = rec.session /\ rec'.launch = rec.launch
      /\ rec'.startResult = rec.startResult /\ rec'.stopResult = rec.stopResult
      /\ rec'.resetResult = rec.resetResult /\ rec'.lastResult = rec.lastResult
      /\ rec'.report = rec.report
      /\ rec'.phase = rec.phase \/ (rec.phase = "stopping" /\ rec'.phase = "stopped")
  BY DEF Repaired, IInv, TypeOK, Records
<1>2. StartDone' <=> StartDone
  BY <1>1 DEF StartDone
<1>3. \A m : Tells(m) <=> Tells(m)'
  BY <1>1, <1>2 DEF Tells
<1>4. RunInv'
  BY <1>1, <1>2, <1>3 DEF SInv, RunInv
<1>5. QED
  BY <1>1, <1>2, <1>3, <1>4 DEF Keeps, Enters

(* Its session is captured again.                                          *)
LEMMA RunCaptured ==
  ASSUME IInv, SInv, UNCHANGED <<ctl, lost, commands>>, proc'.session = proc.session, StartDone,
         NEW q \in Records, q.phase \in {"running", "stopped"},
         q.epoch = rec.epoch, q.session = rec.session, q.launch = rec.launch,
         q.startResult = rec.startResult, q.stopResult = rec.stopResult,
         q.resetResult = rec.resetResult, q.lastResult = rec.lastResult, q.report = rec.report,
         rec' = Captured(q)
  PROVE  RunInv' /\ Keeps /\ Enters /\ \A m : Tells(m) => Tells(m)'
<1>1. /\ rec'.epoch = rec.epoch /\ rec'.session = rec.session /\ rec'.launch = rec.launch
      /\ rec'.startResult = rec.startResult /\ rec'.stopResult = rec.stopResult
      /\ rec'.resetResult = rec.resetResult /\ rec'.lastResult = rec.lastResult
      /\ rec'.phase \in {"running", "stopped"}
      /\ \A s \in rec'.report :
           s \in rec.report \/ (s.kind = "session" /\ s.epoch = rec.epoch /\ s.session = rec.session)
  BY DEF Captured, Records
<1>2. StartDone'
  BY <1>1 DEF StartDone
<1>3. \A m : Tells(m) <=> Tells(m)'
  BY <1>1, <1>2 DEF Tells
<1>4. \A s \in rec'.report : s.kind = "session" /\ Tells(s)'
  BY <1>1, <1>2 DEF SInv, RunInv, Tells
<1>5. RunInv'
  BY <1>1, <1>2, <1>3, <1>4 DEF SInv, RunInv
<1>6. QED
  BY <1>1, <1>2, <1>3, <1>5 DEF Keeps, Enters

(* A record whose Start is not done.                                       *)
LEMMA RunPending ==
  ASSUME rec'.startResult = NoResult, rec'.phase # "running",
         rec'.phase \in {"stopping", "stopped"} => rec'.launch = 0,
         rec'.phase = "starting" => rec'.launch # 0,
         rec'.stopResult.phase # "started", rec'.resetResult.phase # "started",
         rec'.lastResult.phase # "started", rec'.report = {}
  PROVE  RunInv'
  BY DEF RunInv, StartDone

(* The Start is done.                                                      *)
LEMMA RunStarts ==
  ASSUME NEW q \in Records, q.epoch \in Epochs, q.launch # 0, q.session # NoSession,
         rec' = Captured(StartResult(q)), proc'.session = q.session, q.session \notin lost',
         q.stopResult.phase # "started", q.resetResult.phase # "started",
         q.epoch = ctl'.epoch => ctl'.action # "stop",
         \A c \in commands' : c.step = "stop" /\ c.epoch = q.epoch => q.stopResult # NoResult
  PROVE  /\ RunInv' /\ StartDone' /\ rec'.epoch = q.epoch /\ rec'.session = q.session
         /\ Tells(Started(q))'
<1> DEFINE r == StartResult(q)
<1>1. /\ r \in Records /\ r.epoch = q.epoch /\ r.launch = q.launch /\ r.phase = "running"
      /\ r.stopResult = q.stopResult /\ r.resetResult = q.resetResult
      /\ r.startResult = Started(q) /\ r.lastResult = Started(q)
      /\ Started(q).epoch = q.epoch /\ Started(q).phase = "started" /\ Started(q) # NoResult
  BY StartResultType
<1>2. r.session = q.session /\ Started(q).session = q.session
  BY DEF StartResult, Started, Records
<1> HIDE DEF r
<1>3. /\ rec'.epoch = q.epoch /\ rec'.session = q.session /\ rec'.launch = q.launch
      /\ rec'.phase = "running" /\ rec'.stopResult = q.stopResult
      /\ rec'.resetResult = q.resetResult /\ rec'.startResult = Started(q)
      /\ rec'.lastResult = Started(q)
      /\ \A s \in rec'.report : s.kind = "session" /\ s.epoch = q.epoch /\ s.session = q.session
  <2>1. rec' = [r EXCEPT !.seq = @ + 1,
                  !.report = {[kind |-> "session", epoch |-> r.epoch, seq |-> r.seq + 1,
                               session |-> r.session]}]
    BY <1>1, <1>2 DEF r, Captured
  <2>2. QED
    BY <1>1, <1>2, <2>1 DEF Records
<1>4. StartDone' /\ Tells(Started(q))' /\ \A s \in rec'.report : Tells(s)'
  BY <1>1, <1>2, <1>3 DEF StartDone, Tells
<1>5. RunInv'
  BY <1>1, <1>3, <1>4 DEF RunInv
<1>6. QED
  BY <1>3, <1>4, <1>5

-----------------------------------------------------------------------------
(* The session: what the process and the reports do.                       *)

LEMMA ProcessFrame ==
  ASSUME SInv, UNCHANGED <<rec, work, retry, proc, restart, wake, callbacks>>,
         link' = "boot" => link = "boot"
  PROVE  ProcessInv'
  BY DEF SInv, ProcessInv

LEMMA LostFrame ==
  ASSUME SInv, lost' = lost, \A s \in reports' : s \in reports \/ s.kind = "session",
         proc'.session \in lost =>
           ~proc'.up /\ wake' = "no" /\ (proc'.held \/ work'.op \in Fresh)
  PROVE  LostInv'
  BY DEF SInv, LostInv

(* What is reported and replayed is what the record tells.                 *)
LEMMA ReportTells ==
  ASSUME IInv', RunInv', ctl' = ctl, Report(rec')
  PROVE  \A s \in reports' : s \in reports \/ (s.kind = "session" /\ s.epoch <= ctl.epoch /\ Tells(s)')
<1>1. rec'.epoch <= ctl.epoch
  BY DEF IInv, RecordInv
<1>2. \A s \in rec'.report : s.kind = "session" /\ Tells(s)' /\ s.epoch = rec'.epoch
  BY DEF RunInv, Tells
<1>3. QED
  BY <1>1, <1>2 DEF Report

LEMMA ReportFrame ==
  ASSUME IInv', RunInv', ctl' = ctl, Report(rec') \/ UNCHANGED reports,
         \A r \in results' : r \in results \/ (r.phase = "started" => Tells(r)')
  PROVE  /\ Told
         /\ \A s \in reports' : s \in reports \/ s.kind = "session"
  BY ReportTells DEF Told

LEMMA AnswerTells ==
  ASSUME NEW r, Answer(r) \/ UNCHANGED results, r.phase = "started" => Tells(r)'
  PROVE  \A t \in results' : t \in results \/ (t.phase = "started" => Tells(t)')
  BY DEF Answer

(* Processes and timers, which leave the record alone.                     *)
LEMMA ProcessSession ==
  ASSUME IInv, SInv, UNCHANGED <<ctl, outrun, link, lost, rec, commands, reports, results>>,
         ProcessInv', proc'.session = proc.session,
         proc'.session \in lost =>
           ~proc'.up /\ wake' = "no" /\ (proc'.held \/ work'.op \in Fresh)
  PROVE  SInv'
<1>1. RunInv' /\ Keeps /\ Enters
  BY RunKept
<1>2. Told
  BY DEF Told
<1>3. ToldInv' /\ CloudInv'
  BY <1>1, <1>2, DaemonTells
<1>4. LostInv'
  BY LostFrame
<1>5. QED
  BY <1>1, <1>3, <1>4 DEF SInv

LEMMA RetryFiresSession ==
  ASSUME IInv, SInv, RetryFires
  PROVE  SInv'
<1>1. /\ UNCHANGED <<ctl, outrun, link, lost, rec, commands, reports, results, work, proc,
                     restart, wake, callbacks>>
      /\ link # "boot"
  BY NoneTypes DEF RetryFires, cloudVars, wireVars, processVars, historyVars, SInv, ProcessInv
<1>2. ProcessInv'
  BY <1>1 DEF SInv, ProcessInv
<1>3. QED
  BY <1>1, <1>2, ProcessSession DEF SInv, LostInv

LEMMA LaunchAuthorizedSession ==
  ASSUME IInv, SInv, LaunchAuthorized
  PROVE  SInv'
<1>1. /\ UNCHANGED <<ctl, outrun, link, lost, rec, commands, reports, results, retry, proc,
                     restart, wake, callbacks>>
      /\ work.op = "launch" /\ work'.op = "spawn" /\ ~proc.held /\ link # "boot"
  BY NoneTypes
  DEF LaunchAuthorized, cloudVars, wireVars, processVars, historyVars, SInv, ProcessInv,
      IInv, TypeOK, Works
<1>2. ProcessInv'
  BY <1>1 DEF SInv, ProcessInv, Fresh
<1>3. proc.session \in lost => ~proc.up /\ wake = "no" /\ work'.op \in Fresh
  BY <1>1 DEF SInv, LostInv, Fresh
<1>4. QED
  BY <1>1, <1>2, <1>3, ProcessSession

LEMMA LaunchUnconfirmedSession ==
  ASSUME IInv, SInv, LaunchUnconfirmed
  PROVE  SInv'
<1>1. /\ UNCHANGED <<ctl, outrun, link, lost, rec, commands, reports, results, retry, restart,
                     wake, callbacks>>
      /\ work.op \in Fresh /\ work' = NoWork /\ work'.op = "idle" /\ ~proc.up /\ wake = "no"
      /\ link # "boot"
  BY NoneTypes
  DEF LaunchUnconfirmed, cloudVars, wireVars, historyVars, SInv, ProcessInv, Fresh
<1>2. proc'.session = proc.session /\ proc'.up = proc.up /\ proc'.launch = proc.launch /\ proc'.held
  BY DEF LaunchUnconfirmed, IInv, TypeOK, Processes
<1>3. ProcessInv'
  BY <1>1, <1>2 DEF SInv, ProcessInv, Fresh
<1>4. QED
  BY <1>1, <1>2, <1>3, ProcessSession

LEMMA CallbackAdded ==
  ASSUME SInv, IInv, NEW c, callbacks' = Append(callbacks, c), c.launch # 0
  PROVE  \A i \in 1..Len(callbacks') : callbacks'[i].launch # 0
<1>1. callbacks \in Seq(Callbacks)
  BY DEF IInv, TypeOK
<1>2. QED
  BY <1>1 DEF SInv, ProcessInv

LEMMA ProcessExitsSession ==
  ASSUME IInv, SInv, ProcessExits
  PROVE  SInv'
<1>1. /\ UNCHANGED <<ctl, outrun, link, lost, rec, commands, reports, results, work, retry,
                     restart, wake>>
      /\ proc.up /\ link # "boot" /\ proc.session \notin lost
      /\ wake = "no" /\ ~(work.op \in Fresh)
  BY DEF ProcessExits, cloudVars, wireVars, controlVars, historyVars, SInv, ProcessInv, LostInv
<1>2. proc'.session = proc.session /\ ~proc'.up /\ proc'.held = proc.held
  BY DEF ProcessExits, IInv, TypeOK, Processes
<1>3. \A i \in 1..Len(callbacks') : callbacks'[i].launch # 0
  <2>1. proc.launch # 0
    BY <1>1 DEF SInv, ProcessInv
  <2> DEFINE c == [kind |-> "exit", launch |-> proc.launch]
  <2>2. c.launch # 0 /\ callbacks' = Append(callbacks, c)
    BY <2>1 DEF ProcessExits
  <2> HIDE DEF c
  <2>3. QED
    BY <2>2, CallbackAdded
<1>4. ProcessInv'
  BY <1>1, <1>2, <1>3 DEF SInv, ProcessInv, Fresh
<1>5. QED
  BY <1>1, <1>2, <1>4, ProcessSession

LEMMA WakeSession ==
  ASSUME IInv, SInv, Wake
  PROVE  SInv'
<1>1. /\ UNCHANGED <<ctl, outrun, link, lost, rec, commands, reports, results, work, retry,
                     proc, restart, callbacks>>
      /\ restart # 0 /\ ~proc.up /\ ~proc.held /\ wake' = "asked"
      /\ link # "boot" /\ work.op = "idle"
  BY NoneTypes
  DEF Wake, Idle, cloudVars, wireVars, controlVars, historyVars, SInv, ProcessInv
<1>2. ProcessInv'
  BY <1>1 DEF SInv, ProcessInv, Fresh
<1>3. proc.session \notin lost
  BY <1>1 DEF SInv, LostInv, Fresh
<1>4. QED
  BY <1>1, <1>2, <1>3, ProcessSession

LEMMA WakeAuthorizedSession ==
  ASSUME IInv, SInv, WakeAuthorized
  PROVE  SInv'
<1>1. /\ UNCHANGED <<ctl, outrun, link, lost, rec, commands, reports, results, work, retry,
                     proc, restart, callbacks>>
      /\ wake = "asked" /\ wake' \in {"spawning", "no"} /\ link # "boot"
      /\ proc.session \notin lost
  BY DEF WakeAuthorized, cloudVars, wireVars, controlVars, historyVars, SInv, ProcessInv, LostInv
<1>2. ProcessInv'
  BY <1>1 DEF SInv, ProcessInv, Fresh
<1>3. QED
  BY <1>1, <1>2, ProcessSession

LEMMA WokenSession ==
  ASSUME IInv, SInv, Woken
  PROVE  SInv'
<1>1. UNCHANGED <<ctl, outrun, link, lost, rec, commands, reports, results, work, retry, restart>>
  BY DEF Woken, cloudVars, wireVars, controlVars, historyVars
<1>2. /\ link # "boot" /\ wake = "spawning" /\ wake' = "no" /\ restart # 0 /\ ~proc.up
      /\ proc.session # NoSession /\ proc.session \notin lost /\ ~(work.op \in Fresh)
  BY DEF Woken, SInv, ProcessInv, LostInv
<1>3. /\ proc'.session = proc.session /\ proc'.held = proc.held
      /\ proc'.up => proc'.launch # 0
  BY <1>2 DEF Woken, IInv, TypeOK, Processes
<1>4. \A i \in 1..Len(callbacks') : callbacks'[i].launch # 0
  <2> DEFINE c == [kind |-> "wake", launch |-> restart]
  <2>1. c.launch # 0 /\ (callbacks' = callbacks \/ callbacks' = Append(callbacks, c))
    BY <1>2 DEF Woken
  <2> HIDE DEF c
  <2>2. QED
    BY <2>1, CallbackAdded DEF SInv, ProcessInv
<1>5. ProcessInv'
  BY <1>1, <1>2, <1>3, <1>4 DEF SInv, ProcessInv, Fresh
<1>6. QED
  BY <1>1, <1>2, <1>3, <1>5, ProcessSession

-----------------------------------------------------------------------------
(* The session: what the record's steps do.                                *)

LEMMA DaemonSession ==
  ASSUME IInv, IInv', SInv, UNCHANGED <<ctl, outrun, link, lost>>, commands' \subseteq commands,
         ProcessInv', RunInv', Keeps, Enters, Report(rec') \/ UNCHANGED reports,
         \A r \in results' : r \in results \/ (r.phase = "started" => Tells(r)'),
         proc'.session \in lost =>
           ~proc'.up /\ wake' = "no" /\ (proc'.held \/ work'.op \in Fresh)
  PROVE  SInv'
<1>1. Told /\ \A s \in reports' : s \in reports \/ s.kind = "session"
  BY ReportFrame
<1>2. ToldInv' /\ CloudInv'
  BY <1>1, DaemonTells
<1>3. LostInv'
  BY <1>1, LostFrame
<1>4. QED
  BY <1>2, <1>3 DEF SInv

LEMMA UpdatedSession ==
  ASSUME IInv, IInv', SInv, Updated
  PROVE  SInv'
<1> DEFINE q == [rec EXCEPT !.session = proc.session]
<1>1. /\ UNCHANGED <<ctl, outrun, link, lost, commands, results, work, retry, proc, restart,
                     wake, callbacks>>
      /\ rec' = Captured(q) /\ Report(rec') /\ rec.phase = "running" /\ link # "boot"
  BY NoRecordType DEF Updated, cloudVars, processVars, historyVars, SInv, ProcessInv
<1>2. StartDone /\ rec \in Records /\ rec.session = proc.session
  BY <1>1 DEF SInv, RunInv, IInv, TypeOK
<1>3. /\ q \in Records /\ q.phase = "running" /\ q.epoch = rec.epoch /\ q.session = rec.session
      /\ q.launch = rec.launch /\ q.startResult = rec.startResult
      /\ q.stopResult = rec.stopResult /\ q.resetResult = rec.resetResult
      /\ q.lastResult = rec.lastResult /\ q.report = rec.report
  BY <1>1, <1>2 DEF Records
<1> HIDE DEF q
<1>4. RunInv' /\ Keeps /\ Enters
  BY <1>1, <1>2, <1>3, RunCaptured
<1>5. ProcessInv'
  BY <1>1 DEF SInv, ProcessInv
<1>6. QED
  BY <1>1, <1>4, <1>5, DaemonSession DEF SInv, LostInv

LEMMA CallbackSession ==
  ASSUME IInv, IInv', SInv, Callback
  PROVE  SInv'
<1> DEFINE c == Head(callbacks)
           next == IF c.kind = "exit" THEN "stopped" ELSE "running"
           known == rec.launch = c.launch
                    /\ rec.phase = IF c.kind = "exit" THEN "running" ELSE "stopped"
           q == [rec EXCEPT !.phase = next]
<1>1. /\ UNCHANGED <<ctl, outrun, link, lost, commands, results, work, retry, proc, restart, wake>>
      /\ callbacks # <<>> /\ callbacks' = Tail(callbacks)
      /\ rec' = IF known THEN Captured(q) ELSE rec
      /\ Report(rec') \/ UNCHANGED reports
  BY DEF Callback, cloudVars, historyVars
<1>2. /\ callbacks \in Seq(Callbacks) /\ Len(callbacks) >= 1 /\ link # "boot"
      /\ c.launch # 0 /\ \A i \in 1..Len(callbacks') : callbacks'[i].launch # 0
  <2>1. callbacks \in Seq(Callbacks) /\ Len(callbacks) >= 1
    BY <1>1 DEF IInv, TypeOK
  <2>2. \A i \in 1..Len(callbacks) : callbacks[i].launch # 0
    BY DEF SInv, ProcessInv
  <2>3. \A i \in 1..Len(callbacks') : callbacks'[i] = callbacks[i + 1] /\ i + 1 \in 1..Len(callbacks)
    BY <1>1, <2>1
  <2>4. QED
    BY <1>1, <2>1, <2>2, <2>3 DEF SInv, ProcessInv
<1>3. ProcessInv'
  BY <1>1, <1>2 DEF SInv, ProcessInv
<1>4. RunInv' /\ Keeps /\ Enters
  <2>1. CASE known
    <3>1. StartDone /\ rec \in Records /\ next \in {"running", "stopped"}
      BY <1>2, <2>1 DEF SInv, RunInv, IInv, TypeOK
    <3> HIDE DEF next
    <3>2. /\ q \in Records /\ q.phase \in {"running", "stopped"} /\ q.epoch = rec.epoch
          /\ q.session = rec.session
          /\ q.launch = rec.launch /\ q.startResult = rec.startResult
          /\ q.stopResult = rec.stopResult /\ q.resetResult = rec.resetResult
          /\ q.lastResult = rec.lastResult /\ q.report = rec.report
      BY <3>1 DEF Records
    <3> HIDE DEF q, known
    <3>3. QED
      BY <1>1, <2>1, <3>1, <3>2, RunCaptured
  <2>2. CASE ~known
    <3> HIDE DEF known, q
    <3>1. QED
      BY <1>1, <2>2, RunKept
  <2>3. QED
    BY <2>1, <2>2
<1> HIDE DEF known, q, next, c
<1>5. QED
  BY <1>1, <1>3, <1>4, DaemonSession DEF SInv, LostInv

(* A command only has the record repaired and something answered again.    *)
LEMMA HandledSession ==
  ASSUME IInv, IInv', SInv, NEW c, Receive(c), rec' = Repaired,
         UNCHANGED <<outrun, lost, work, reports, restart, wake, callbacks>>,
         proc' = proc \/ (proc.up /\ proc' = [proc EXCEPT !.held = TRUE]),
         NEW r, Answer(r) \/ UNCHANGED results, r.phase = "started" => Tells(r)
  PROVE  SInv'
<1>1. /\ UNCHANGED <<ctl, link>> /\ commands' \subseteq commands /\ link # "boot"
      /\ work.op = "idle"
  BY ReceiveFacts DEF Receive
<1>2. /\ proc'.session = proc.session /\ proc'.up = proc.up /\ proc'.launch = proc.launch
      /\ proc'.held => proc.held \/ proc.up
      /\ proc.held => proc'.held
  BY DEF IInv, TypeOK, Processes
<1>3. RunInv' /\ Keeps /\ Enters /\ (Tells(r) => Tells(r)')
  BY <1>1, <1>2, RunKept
<1>4. ProcessInv'
  BY <1>1, <1>2 DEF SInv, ProcessInv, Fresh
<1>5. proc'.session \in lost => ~proc'.up /\ wake' = "no" /\ proc'.held
  BY <1>1, <1>2 DEF SInv, LostInv, Fresh
<1>6. \A t \in results' : t \in results \/ (t.phase = "started" => Tells(t)')
  BY <1>3, AnswerTells
<1>7. QED
  BY <1>1, <1>3, <1>4, <1>5, <1>6, DaemonSession

LEMMA RefuseSession ==
  ASSUME IInv, IInv', SInv, NEW c, Receive(c), Refuse
  PROVE  SInv'
<1>1. /\ rec' = Repaired /\ proc' = proc /\ UNCHANGED results /\ NoResult.phase # "started"
      /\ UNCHANGED <<outrun, lost, work, reports, restart, wake, callbacks>>
  BY NoResultType DEF Refuse, processVars, historyVars
<1>2. QED
  BY <1>1, HandledSession

LEMMA ReplaySession ==
  ASSUME IInv, IInv', SInv, NEW c, Receive(c), NEW r, Replay(r),
         r \in {rec.stopResult, rec.resetResult, rec.startResult}
  PROVE  SInv'
<1>1. /\ rec' = Repaired /\ proc' = proc /\ Answer(r)
      /\ UNCHANGED <<outrun, lost, work, reports, restart, wake, callbacks>>
  BY DEF Replay, processVars, historyVars
<1>2. r.phase = "started" => Tells(r)
  BY NoResultType DEF SInv, RunInv, StartDone
<1>3. QED
  BY <1>1, <1>2, HandledSession

LEMMA AlreadyRunningSession ==
  ASSUME IInv, IInv', SInv, NEW c, Receive(c), AlreadyRunning(c)
  PROVE  SInv'
<1> DEFINE r == [epoch |-> c.epoch, phase |-> "failed", session |-> NoSession,
                 seq |-> (IF Same(c) THEN rec.seq ELSE 0) + 1]
<1>1. /\ rec' = Repaired /\ proc' = proc /\ Answer(r) /\ r.phase # "started"
      /\ UNCHANGED <<outrun, lost, work, reports, restart, wake, callbacks>>
  BY DEF AlreadyRunning, processVars, historyVars
<1> HIDE DEF r
<1>2. QED
  BY <1>1, HandledSession

(* While its Start is not done, the record has nothing to report.          *)
LEMMA NothingTold ==
  ASSUME SInv, ~StartDone
  PROVE  /\ rec.startResult = NoResult /\ rec.report = {} /\ rec.phase # "running"
         /\ rec.lastResult.phase # "started"
         /\ rec.stopResult.phase # "started" /\ rec.resetResult.phase # "started"
         /\ rec.phase \in {"stopping", "stopped"} => rec.launch = 0
         /\ rec.phase = "starting" => rec.launch # 0
  BY DEF SInv, RunInv, StartDone, Tells

LEMMA StopBeginsSession ==
  ASSUME IInv, IInv', SInv, NEW c, c.step = "stop", Receive(c), StopBegins(c), ~Stale(c),
         ~(Same(c) /\ rec.stopResult # NoResult)
  PROVE  SInv'
<1>1. /\ c \in commands /\ commands' \subseteq commands /\ link # "boot" /\ work.op = "idle"
      /\ work'.op = "stop"
      /\ UNCHANGED <<ctl, outrun, link, lost, results, reports, proc, restart, wake, callbacks>>
  BY ReceiveFacts DEF Receive, StopBegins, NoWork, processVars, historyVars
<1>2. c.epoch <= ctl.epoch /\ rec.epoch <= c.epoch /\ rec.epoch <= ctl.epoch
      /\ c.epoch \in Nat /\ rec.epoch \in Nat /\ ctl.epoch \in Nat
  <2>1. c.epoch <= ctl.epoch /\ c.epoch \in 0..MaxEpoch /\ rec.epoch \in 0..MaxEpoch
        /\ ctl.epoch \in 0..MaxEpoch /\ MaxEpoch \in Nat /\ rec.epoch <= ctl.epoch
    BY <1>1, CommandFields, RecordFields, OperationFields, Bounds DEF IInv, TypeOK, RecordInv
  <2>2. QED
    BY <2>1 DEF Stale
<1>3. /\ rec'.epoch = c.epoch /\ rec'.phase = "stopping" /\ rec'.launch = 0
      /\ rec'.startResult = NoResult /\ rec'.stopResult = NoResult
      /\ rec'.resetResult = NoResult /\ rec'.lastResult = NoResult /\ rec'.report = {}
  <2>1. /\ rec' = [NoRecord EXCEPT !.epoch = c.epoch, !.phase = "stopping",
                     !.seq = IF Same(c) THEN rec.seq ELSE 0, !.session = rec.session]
    BY DEF StopBegins
  <2>2. QED
    BY <2>1 DEF NoRecord
<1>4. RunInv'
  BY <1>3, NoResultType, RunPending
<1>5. Keeps
  <2> SUFFICES ASSUME StartDone, rec.epoch = ctl.epoch PROVE FALSE
    BY DEF Keeps
  <2>1. Same(c)
    BY <1>2 DEF Same
  <2>2. rec.stopResult # NoResult
    BY <1>1, <2>1 DEF Same, SInv, RunInv
  <2>3. QED
    BY <2>1, <2>2
<1>6. Enters
  BY <1>1, <1>2, <1>3 DEF Enters, Handled
<1>7. ProcessInv'
  BY <1>1 DEF SInv, ProcessInv, Fresh
<1>8. proc.session \in lost => ~proc.up /\ wake = "no" /\ proc.held
  BY <1>1 DEF SInv, LostInv, Fresh
<1>9. QED
  BY <1>1, <1>4, <1>5, <1>6, <1>7, <1>8, DaemonSession

LEMMA StopCommandSession ==
  ASSUME IInv, IInv', SInv, NEW c \in commands, StopCommand(c)
  PROVE  SInv'
<1>1. c.step = "stop" /\ Receive(c)
  BY DEF StopCommand
<1>2. CASE Refuse
  BY <1>1, <1>2, RefuseSession
<1>3. CASE Replay(rec.stopResult)
  BY <1>1, <1>3, ReplaySession
<1>4. CASE StopBegins(c) /\ ~Stale(c) /\ ~(Same(c) /\ rec.stopResult # NoResult)
  BY <1>1, <1>4, StopBeginsSession
<1>5. QED
  BY <1>2, <1>3, <1>4 DEF StopCommand, StopBegins

LEMMA StopEndsSession ==
  ASSUME IInv, IInv', SInv, StopEnds
  PROVE  SInv'
<1> DEFINE session == IF proc.up THEN proc.session ELSE rec.session
           result == [epoch |-> rec.epoch, phase |-> "stopped", seq |-> rec.seq + 1,
                      session |-> session]
<1>1. /\ work.op = "stop" /\ wake = "no" /\ rec.phase = "stopping" /\ rec \in Records
      /\ rec' = [rec EXCEPT !.phase = "stopped", !.session = session, !.seq = @ + 1,
                            !.stopResult = result, !.lastResult = result]
      /\ Answer(result) /\ result.phase = "stopped"
      /\ proc' = NoProcess /\ restart' = 0 /\ work' = NoWork
      /\ UNCHANGED <<ctl, outrun, link, lost, commands, reports, wake, callbacks>>
  BY DEF StopEnds, WakeEnded, IInv, RecordInv, TypeOK, cloudVars
<1> HIDE DEF session, result
<1>2. /\ rec'.epoch = rec.epoch /\ rec'.phase = "stopped" /\ rec'.launch = rec.launch
      /\ rec'.stopResult = result /\ rec'.lastResult = result /\ rec'.report = rec.report
      /\ rec'.resetResult = rec.resetResult /\ rec'.startResult = rec.startResult
  BY <1>1 DEF Records
<1>3. ~StartDone
  BY <1>1 DEF SInv, RunInv
<1>4. RunInv'
  BY <1>1, <1>2, <1>3, NothingTold, RunPending
<1>5. Keeps /\ Enters
  BY <1>2, <1>3 DEF Keeps, Enters
<1>6. /\ NoProcess.session = NoSession /\ ~NoProcess.up /\ NoWork.op = "idle" /\ link # "boot"
      /\ NoSession \notin lost
  BY <1>1, NoRecordType DEF NoProcess, NoWork, SInv, ProcessInv, LostInv
<1>7. ProcessInv'
  BY <1>1, <1>6 DEF SInv, ProcessInv, Fresh
<1>8. \A t \in results' : t \in results \/ (t.phase = "started" => Tells(t)')
  BY <1>1, AnswerTells
<1>9. QED
  BY <1>1, <1>4, <1>5, <1>6, <1>7, <1>8, DaemonSession

LEMMA StopFailsSession ==
  ASSUME IInv, IInv', SInv, StopFails
  PROVE  SInv'
<1> DEFINE result == [epoch |-> rec.epoch, phase |-> "failed", seq |-> rec.seq + 1,
                      session |-> NoSession]
<1>1. /\ work.op = "stop" /\ wake = "no" /\ rec.phase = "stopping" /\ rec \in Records
      /\ rec' = [rec EXCEPT !.seq = @ + 1, !.stopResult = result, !.lastResult = result]
      /\ Answer(result) /\ result.phase = "failed"
      /\ proc' = [proc EXCEPT !.held = TRUE] /\ work' = NoWork
      /\ UNCHANGED <<ctl, outrun, link, lost, commands, reports, restart, wake, callbacks>>
  BY DEF StopFails, WakeEnded, IInv, RecordInv, TypeOK, cloudVars, historyVars
<1> HIDE DEF result
<1>2. /\ rec'.epoch = rec.epoch /\ rec'.phase = "stopping" /\ rec'.launch = rec.launch
      /\ rec'.stopResult = result /\ rec'.lastResult = result /\ rec'.report = rec.report
      /\ rec'.resetResult = rec.resetResult /\ rec'.startResult = rec.startResult
  BY <1>1 DEF Records
<1>3. ~StartDone
  BY <1>1 DEF SInv, RunInv
<1>4. RunInv'
  BY <1>1, <1>2, <1>3, NothingTold, RunPending
<1>5. Keeps /\ Enters
  BY <1>2, <1>3 DEF Keeps, Enters
<1>6. /\ proc'.session = proc.session /\ proc'.up = proc.up /\ proc'.launch = proc.launch
      /\ proc'.held /\ NoWork.op = "idle" /\ link # "boot"
      /\ proc.session \in lost => ~proc.up
  BY <1>1, NoRecordType DEF NoWork, Processes, IInv, TypeOK, SInv, ProcessInv, LostInv
<1>7. ProcessInv'
  BY <1>1, <1>6 DEF SInv, ProcessInv, Fresh
<1>8. \A t \in results' : t \in results \/ (t.phase = "started" => Tells(t)')
  BY <1>1, AnswerTells
<1>9. QED
  BY <1>1, <1>4, <1>5, <1>6, <1>7, <1>8, DaemonSession

LEMMA ResetSession ==
  ASSUME IInv, IInv', SInv, NEW c, Receive(c), rec.startResult = NoResult,
         NEW result, result.phase = "workspace-reset", Clears(result)
  PROVE  SInv'
<1>1. /\ commands' \subseteq commands /\ link # "boot" /\ rec \in Records
      /\ rec' = [rec EXCEPT !.phase = "workspace-reset", !.seq = @ + 1,
                   !.session = NoSession, !.report = {},
                   !.resetResult = result, !.lastResult = result]
      /\ Answer(result)
      /\ UNCHANGED <<ctl, outrun, link, lost, reports, work, proc, restart, wake, callbacks>>
  BY ReceiveFacts DEF Receive, Clears, processVars, IInv, TypeOK
<1>2. /\ rec'.epoch = rec.epoch /\ rec'.phase = "workspace-reset" /\ rec'.report = {}
      /\ rec'.resetResult = result /\ rec'.lastResult = result
      /\ rec'.stopResult = rec.stopResult /\ rec'.startResult = rec.startResult
  BY <1>1 DEF Records
<1>3. ~StartDone
  BY DEF StartDone
<1>4. RunInv'
  BY <1>2, <1>3, NothingTold, RunPending
<1>5. Keeps /\ Enters
  BY <1>2, <1>3 DEF Keeps, Enters
<1>6. ProcessInv'
  BY <1>1 DEF SInv, ProcessInv
<1>7. \A t \in results' : t \in results \/ (t.phase = "started" => Tells(t)')
  BY <1>1, AnswerTells
<1>8. QED
  BY <1>1, <1>4, <1>5, <1>6, <1>7, DaemonSession DEF SInv, LostInv

LEMMA ResetCommandSession ==
  ASSUME IInv, IInv', SInv, NEW c \in commands, ResetCommand(c)
  PROVE  SInv'
<1> DEFINE result == [epoch |-> rec.epoch, phase |-> "workspace-reset", seq |-> rec.seq + 1,
                      session |-> NoSession]
<1>1. Receive(c) /\ result.phase = "workspace-reset"
  BY DEF ResetCommand
<1>2. \/ Refuse
      \/ Replay(rec.resetResult)
      \/ rec.startResult = NoResult /\ Clears(result)
  BY DEF ResetCommand, Clears
<1> HIDE DEF result
<1>3. QED
  BY <1>1, <1>2, RefuseSession, ReplaySession, ResetSession

-----------------------------------------------------------------------------
(* The session: a launch is attempted, made or given up.                   *)

LEMMA AttemptSession ==
  ASSUME IInv, IInv', SInv, NEW r \in Records, NEW e \in Epochs, NEW session, NEW attempt,
         Attempt(r, e, session, attempt),
         r.startResult = NoResult, r.lastResult.phase # "started",
         r.stopResult.phase # "started", r.resetResult.phase # "started",
         StartDone => rec.epoch # ctl.epoch,
         e # rec.epoch => \E c \in commands : c.epoch = e /\ c.step = "start",
         commands' \subseteq commands, link # "boot", work.op = "idle", ~proc'.up,
         \/ UNCHANGED <<proc, restart>>
         \/ proc' = NoProcess /\ restart' = 0 /\ wake = "no",
         UNCHANGED <<ctl, outrun, link, lost, results, reports, wake, callbacks>>
  PROVE  SInv'
<1>1. /\ rec'.epoch = e /\ rec'.phase = "starting" /\ rec'.launch = e /\ rec'.report = {}
      /\ rec'.startResult = NoResult /\ rec'.lastResult = r.lastResult
      /\ rec'.stopResult = r.stopResult /\ rec'.resetResult = r.resetResult
  BY DEF Attempt, Records
<1>2. RunInv'
  BY <1>1, Bounds, RunPending
<1>3. Keeps /\ Enters
  BY <1>1 DEF Keeps, Enters
<1>4. work'.op = IF wake = "no" THEN "launch" ELSE "join"
  BY DEF Attempt
<1>5. NoProcess.session = NoSession /\ ~NoProcess.up /\ NoSession \notin lost
  BY DEF NoProcess, SInv, LostInv
<1>6. ProcessInv'
  BY <1>4, <1>5 DEF SInv, ProcessInv, Fresh
<1>7. proc'.session \in lost => ~proc'.up /\ wake' = "no" /\ proc'.held
  BY <1>5 DEF SInv, LostInv, Fresh
<1>8. QED
  BY <1>2, <1>3, <1>6, <1>7, DaemonSession

LEMMA StartBeginsSession ==
  ASSUME IInv, IInv', SInv, NEW c, c.step = "start", Receive(c), ~Stale(c),
         ~(Same(c) /\ rec.startResult # NoResult), StartBegins(c), ~proc'.up,
         \/ UNCHANGED <<proc, restart>>
         \/ proc' = NoProcess /\ restart' = 0 /\ wake = "no"
  PROVE  SInv'
<1> DEFINE r == IF Same(c) THEN Repaired ELSE NoRecord
<1>1. /\ c \in commands /\ commands' \subseteq commands /\ link # "boot" /\ work.op = "idle"
      /\ Attempt(r, c.epoch, c.session, 1)
      /\ UNCHANGED <<ctl, outrun, link, lost, results, reports, wake, callbacks>>
  BY ReceiveFacts DEF Receive, StartBegins
<1>2. c.epoch \in Epochs /\ c.epoch <= ctl.epoch /\ rec.epoch <= c.epoch /\ rec.epoch <= ctl.epoch
      /\ c.epoch \in Nat /\ rec.epoch \in Nat /\ ctl.epoch \in Nat
  <2>1. c.epoch \in Epochs /\ c.epoch <= ctl.epoch /\ rec.epoch <= c.epoch
        /\ rec.epoch \in 0..MaxEpoch /\ ctl.epoch \in 0..MaxEpoch /\ MaxEpoch \in Nat
        /\ c.epoch \in 0..MaxEpoch /\ rec.epoch <= ctl.epoch
    BY <1>1, StartFresh, Bounds DEF IInv, RecordInv
  <2>2. QED
    BY <2>1
<1>3. Same(c) => ~StartDone
  BY DEF StartDone
<1>4. StartDone => rec.epoch # ctl.epoch
  BY <1>2, <1>3 DEF Same
<1>5. /\ r \in Records /\ r.startResult = NoResult /\ r.lastResult.phase # "started"
      /\ r.stopResult.phase # "started" /\ r.resetResult.phase # "started"
  <2>1. CASE Same(c)
    BY <1>3, <2>1, RepairedKept, NothingTold DEF Kept, IInv
  <2>2. CASE ~Same(c)
    BY <2>2, NoRecordType, NoResultType
  <2>3. QED
    BY <2>1, <2>2
<1> HIDE DEF r
<1>6. QED
  BY <1>1, <1>2, <1>4, <1>5, AttemptSession

LEMMA RetryRunsSession ==
  ASSUME IInv, IInv', SInv, RetryRuns
  PROVE  SInv'
<1>1. /\ UNCHANGED <<ctl, outrun, link, lost, commands, results, reports, proc, restart, wake,
                     callbacks>>
      /\ link # "boot" /\ work.op = "idle"
  BY NoneTypes DEF RetryRuns, Idle, cloudVars, wireVars, processVars, SInv, ProcessInv
<1>2. CASE rec.phase = "starting" /\ ~proc.up /\ Attempt(rec, rec.epoch, retry.session, retry.attempt)
  <2>1. rec \in Records /\ rec.epoch \in Epochs /\ ~StartDone
    BY <1>2, RecordEpoch DEF SInv, RunInv
  <2>2. QED
    BY <1>1, <1>2, <2>1, NothingTold, AttemptSession
<1>3. CASE UNCHANGED <<rec, work, tries>>
  <2>1. ProcessInv'
    BY <1>1, <1>3 DEF SInv, ProcessInv
  <2>2. QED
    BY <1>1, <1>3, <2>1, ProcessSession DEF SInv, LostInv
<1>4. QED
  BY <1>2, <1>3 DEF RetryRuns

(* The Start is done.                                                      *)
LEMMA StartsSession ==
  ASSUME IInv, IInv', SInv, NEW q \in Records, q.epoch \in Epochs, q.launch # 0,
         q.session # NoSession, q.session \notin lost,
         rec' = Captured(StartResult(q)), Answer(Started(q)),
         Report(rec') \/ UNCHANGED reports, proc'.session = q.session,
         q.stopResult.phase # "started", q.resetResult.phase # "started",
         q.epoch = ctl.epoch => ctl.action # "stop",
         \A c \in commands' : c.step = "stop" /\ c.epoch = q.epoch => q.stopResult # NoResult,
         StartDone => rec.epoch # ctl.epoch,
         q.epoch # rec.epoch => \E c \in commands : c.epoch = q.epoch /\ c.step = "start",
         UNCHANGED <<ctl, outrun, link, lost>>, commands' \subseteq commands, ProcessInv'
  PROVE  SInv'
<1>1. RunInv' /\ StartDone' /\ rec'.epoch = q.epoch /\ Tells(Started(q))'
  BY RunStarts
<1>2. Keeps /\ Enters
  BY <1>1 DEF Keeps, Enters
<1>3. \A t \in results' : t \in results \/ (t.phase = "started" => Tells(t)')
  BY <1>1 DEF Answer
<1>4. QED
  BY <1>1, <1>2, <1>3, DaemonSession

LEMMA LaunchSession ==
  ASSUME IInv, IInv', SInv, work.op \in Launches, NEW session \in Sessions, Launch(session),
         session # NoSession, session \notin lost, lost' = lost, proc'.session = session,
         ProcessInv'
  PROVE  SInv'
<1> DEFINE q == [rec EXCEPT !.session = session]
<1>1. /\ rec' = Captured(StartResult(q)) /\ Answer(StartResult(q).startResult)
      /\ Report(rec') \/ UNCHANGED reports
      /\ UNCHANGED <<ctl, outrun, link, commands>>
  BY DEF Launch, cloudVars
<1>2. /\ rec.phase = "starting" /\ rec \in Records /\ rec.epoch \in Epochs
      /\ rec.epoch = ctl.epoch => Reached(ctl, "start")
  <2>1. rec.phase = "starting"
    BY DEF IInv, RecordInv
  <2>2. QED
    BY <2>1, RecordEpoch DEF IInv, RecordInv
<1>3. ~StartDone
  BY <1>2 DEF SInv, RunInv
<1>4. /\ q \in Records /\ q.epoch = rec.epoch /\ q.launch = rec.launch /\ q.session = session
      /\ q.stopResult = rec.stopResult /\ q.resetResult = rec.resetResult
  BY <1>2 DEF Records
<1> HIDE DEF q
<1>5. q.launch # 0 /\ q.stopResult.phase # "started" /\ q.resetResult.phase # "started"
  BY <1>2, <1>3, <1>4, NothingTold
<1>6. q.epoch = ctl.epoch => ctl.action # "stop"
  BY <1>2, <1>4 DEF Reached
<1>7. ASSUME NEW c \in commands', c.step = "stop", c.epoch = q.epoch
      PROVE  q.stopResult # NoResult
  <2>1. c \in commands /\ tries[c.epoch] > 0 /\ rec.epoch \in Nat
    BY <1>1, <1>2, <1>4, <1>7, RecordFields DEF IInv, TriesInv
  <2>2. Handled(rec, rec.epoch)
    BY <1>4, <1>7, <2>1 DEF IInv, StopInv
  <2>3. QED
    BY <1>4, <2>1, <2>2 DEF Handled
<1>8. Answer(Started(q))
  BY <1>1, <1>2, <1>4, StartResultType
<1>9. QED
  BY <1>1, <1>2, <1>3, <1>4, <1>5, <1>6, <1>7, <1>8, StartsSession

LEMMA SpawnedSession ==
  ASSUME IInv, IInv', SInv, Spawned
  PROVE  SInv'
<1> DEFINE session == IF work.session # NoSession THEN work.session ELSE minted + 1
<1>1. /\ work.op = "spawn" /\ lost' = lost /\ session \notin lost
      /\ proc' = [up |-> TRUE, held |-> FALSE, launch |-> rec.epoch, session |-> session]
      /\ restart' = rec.epoch /\ Launch(session)
  BY DEF Spawned
<1>2. session \in Sessions /\ session # NoSession
  BY DEF IInv, TypeOK, Works, Sessions, NoSession
<1>3. /\ rec.epoch # 0 /\ work' = NoWork /\ NoWork.op = "idle" /\ wake = "no" /\ link # "boot"
      /\ UNCHANGED <<link, wake, callbacks>>
  <2>1. rec.phase = "starting"
    BY <1>1 DEF IInv, RecordInv, Launches
  <2>2. rec.epoch # 0
    BY <2>1 DEF IInv, RecordInv
  <2>3. QED
    BY <1>1, <2>2, NoneTypes DEF Launch, SInv, ProcessInv, Fresh
<1> HIDE DEF session
<1>4. ProcessInv'
  BY <1>1, <1>2, <1>3 DEF SInv, ProcessInv, Fresh
<1>5. work.op \in Launches /\ proc'.session = session
  BY <1>1 DEF Launches
<1>6. QED
  BY <1>1, <1>2, <1>4, <1>5, LaunchSession

LEMMA JoinedWakeSession ==
  ASSUME IInv, IInv', SInv, JoinedWake
  PROVE  SInv'
<1>1. /\ work.op = "join" /\ wake = "no" /\ proc.up /\ Launch(proc.session)
      /\ UNCHANGED <<proc, restart, minted, lost>>
  BY DEF JoinedWake
<1>2. /\ work.op \in Launches /\ work' = NoWork /\ NoWork.op = "idle" /\ link # "boot"
      /\ UNCHANGED <<link, wake, callbacks>>
  BY <1>1, NoneTypes DEF Launches, Launch, SInv, ProcessInv
<1>3. proc.session \in Sessions /\ proc.session # NoSession /\ proc.session \notin lost
  BY <1>1 DEF IInv, TypeOK, Processes, SInv, ProcessInv, LostInv
<1>4. ProcessInv'
  BY <1>1, <1>2 DEF SInv, ProcessInv, Fresh
<1>5. QED
  BY <1>1, <1>2, <1>3, <1>4, LaunchSession

LEMMA RebindSession ==
  ASSUME IInv, IInv', SInv, NEW c, c.step = "start", Receive(c), ~Stale(c), proc.up,
         Rebinds(c), Rebind(c)
  PROVE  SInv'
<1> DEFINE q == [rec EXCEPT !.epoch = c.epoch, !.launch = c.epoch, !.seq = 0,
                            !.session = proc.session,
                            !.stopResult = NoResult, !.resetResult = NoResult]
<1>1. /\ rec' = Captured(StartResult(q)) /\ Answer(StartResult(q).startResult)
      /\ Report(rec') /\ proc' = [proc EXCEPT !.launch = c.epoch] /\ restart' = c.epoch
      /\ UNCHANGED <<outrun, lost, work, wake, callbacks>>
      /\ rec.epoch < c.epoch
  BY DEF Rebind, Rebinds
<1>2. /\ c \in commands /\ commands' \subseteq commands /\ UNCHANGED <<ctl, link>>
      /\ work.op = "idle" /\ link # "boot"
  BY ReceiveFacts DEF Receive
<1>3. /\ c.epoch \in Epochs /\ c.epoch # 0 /\ c.epoch <= ctl.epoch
      /\ c.epoch = ctl.epoch => Reached(ctl, "start")
      /\ c.epoch \in Nat /\ rec.epoch \in Nat /\ ctl.epoch \in Nat
  <2>1. /\ c.epoch \in Epochs /\ c.epoch <= ctl.epoch /\ rec.epoch \in 0..MaxEpoch
        /\ c.epoch = ctl.epoch => Reached(ctl, "start")
        /\ ctl.epoch \in 0..MaxEpoch /\ MaxEpoch \in Nat /\ c.epoch \in 0..MaxEpoch /\ c.epoch # 0
    BY <1>2, StartFresh, Bounds
  <2>2. QED
    BY <2>1
<1>4. /\ proc \in Processes /\ proc.session \in Sessions /\ proc.session # NoSession
      /\ proc.session \notin lost /\ wake = "no"
  BY DEF IInv, TypeOK, Processes, SInv, ProcessInv, LostInv
<1>5. /\ q \in Records /\ q.epoch = c.epoch /\ q.launch = c.epoch /\ q.session = proc.session
      /\ q.stopResult = NoResult /\ q.resetResult = NoResult
  <2>1. rec \in Records /\ NoResult \in Results /\ 0 \in Nat /\ c.epoch \in 0..MaxEpoch
    BY <1>3, NoResultType, Bounds DEF IInv, TypeOK
  <2>2. QED
    BY <1>4, <2>1 DEF Records
<1> HIDE DEF q
<1>6. /\ proc'.session = proc.session /\ proc'.up /\ proc'.launch = c.epoch
      /\ proc'.held = proc.held
  BY <1>1, <1>4 DEF Processes
<1>7. ProcessInv'
  BY <1>1, <1>2, <1>3, <1>4, <1>6 DEF SInv, ProcessInv, Fresh
<1>8. ASSUME NEW d \in commands', d.step = "stop", d.epoch = c.epoch
      PROVE  FALSE
  <2>1. Handled(rec, c.epoch)
    BY <1>2, <1>8 DEF IInv, StopInv
  <2>2. QED
    BY <1>1, <1>3, <2>1 DEF Handled
<1>9. q.epoch = ctl.epoch => ctl.action # "stop"
  BY <1>3, <1>5 DEF Reached
<1>10. rec.epoch # ctl.epoch
  BY <1>1, <1>3
<1>11. Answer(Started(q))
  BY <1>1, <1>3, <1>5, StartResultType
<1>12. QED
  BY <1>1, <1>2, <1>3, <1>4, <1>5, <1>6, <1>7, <1>8, <1>9, <1>10, <1>11, NoResultType,
     StartsSession

LEMMA StartCommandSession ==
  ASSUME IInv, IInv', SInv, NEW c \in commands, StartCommand(c)
  PROVE  SInv'
<1>1. c.step = "start" /\ Receive(c) /\ NoResult.phase # "started"
  BY NoResultType DEF StartCommand
<1>2. CASE Refuse
  BY <1>1, <1>2, RefuseSession
<1>3. CASE Replay(rec.startResult)
  BY <1>1, <1>3, ReplaySession
<1>4. CASE /\ rec' = Repaired
           /\ UNCHANGED <<results, reports, work, retry, processVars, performed, tries, stranded,
                          outrun, events>>
  <2>1. UNCHANGED <<outrun, lost, work, reports, restart, wake, callbacks, proc>>
    BY <1>4 DEF processVars
  <2>2. QED
    BY <1>1, <1>4, <2>1, HandledSession
<1>5. CASE /\ ~Stale(c) /\ ~(Same(c) /\ rec.startResult # NoResult) /\ StartBegins(c)
           /\ \/ ~proc.up /\ UNCHANGED <<proc, restart>>
              \/ proc.up /\ proc' = NoProcess /\ restart' = 0
  <2>1. proc.up => wake = "no"
    BY DEF SInv, ProcessInv
  <2>2. ~proc'.up
    BY <1>5, NoneTypes
  <2>3. QED
    BY <1>1, <1>5, <2>1, <2>2, StartBeginsSession
<1>6. CASE ~Stale(c) /\ proc.up /\ Rebinds(c) /\ Rebind(c)
  BY <1>1, <1>6, RebindSession
<1>7. CASE AlreadyRunning(c)
  BY <1>1, <1>7, AlreadyRunningSession
<1>8. CASE /\ proc.up /\ proc' = [proc EXCEPT !.held = TRUE]
           /\ rec' = Repaired
           /\ UNCHANGED <<results, reports, work, restart, wake, callbacks, minted, lost,
                          historyVars>>
  <2>1. UNCHANGED outrun
    BY <1>8 DEF historyVars
  <2>2. QED
    BY <1>1, <1>8, <2>1, HandledSession
<1>9. QED
  <2> HIDE DEF Refuse, Replay, StartBegins, Rebind, AlreadyRunning
  <2>1. \/ Refuse
        \/ Replay(rec.startResult)
        \/ /\ rec' = Repaired
           /\ UNCHANGED <<results, reports, work, retry, processVars, performed, tries, stranded,
                          outrun, events>>
        \/ /\ ~Stale(c) /\ ~(Same(c) /\ rec.startResult # NoResult)
           /\ \/ StartBegins(c) /\ ~proc.up /\ UNCHANGED <<proc, restart>>
              \/ proc.up /\ Rebinds(c) /\ Rebind(c)
              \/ AlreadyRunning(c)
              \/ StartBegins(c) /\ proc.up /\ proc' = NoProcess /\ restart' = 0
              \/ /\ proc.up /\ proc' = [proc EXCEPT !.held = TRUE]
                 /\ rec' = Repaired
                 /\ UNCHANGED <<results, reports, work, restart, wake, callbacks, minted, lost,
                                historyVars>>
    BY DEF StartCommand
  <2>2. QED
    BY <1>2, <1>3, <1>4, <1>5, <1>6, <1>7, <1>8, <2>1

LEMMA LaunchRejectedSession ==
  ASSUME IInv, IInv', SInv, LaunchRejected
  PROVE  SInv'
<1> DEFINE result == [epoch |-> rec.epoch, phase |-> "failed", seq |-> rec.seq + 1,
                      session |-> NoSession]
<1>1. /\ work.op \in Launches /\ work' = NoWork /\ restart' = 0 /\ proc' = NoProcess
      /\ \/ UNCHANGED <<rec, results>>
         \/ /\ rec' = [rec EXCEPT !.phase = "failed", !.seq = @ + 1, !.lastResult = result]
            /\ Answer(result)
      /\ UNCHANGED <<ctl, outrun, link, lost, commands, reports, wake, callbacks>>
      /\ result.phase = "failed"
  BY DEF LaunchRejected, LaunchFailed, Launches, cloudVars, historyVars
<1>2. wake = "no" /\ link # "boot"
  BY NoneTypes DEF LaunchRejected, SInv, ProcessInv, Fresh
<1> HIDE DEF result
<1>3. rec.phase = "starting" /\ rec \in Records
  BY <1>1 DEF IInv, RecordInv, TypeOK
<1>4. ~StartDone
  BY <1>3 DEF SInv, RunInv
<1>5. /\ rec'.epoch = rec.epoch /\ rec'.launch = rec.launch /\ rec'.report = rec.report
      /\ rec'.startResult = rec.startResult /\ rec'.stopResult = rec.stopResult
      /\ rec'.resetResult = rec.resetResult
      /\ rec'.phase \in {"starting", "failed"}
      /\ rec'.lastResult = rec.lastResult \/ rec'.lastResult.phase = "failed"
  BY <1>1, <1>3 DEF Records
<1>6. RunInv'
  BY <1>3, <1>4, <1>5, NothingTold, RunPending
<1>7. Keeps /\ Enters
  BY <1>4, <1>5 DEF Keeps, Enters
<1>8. /\ NoProcess.session = NoSession /\ ~NoProcess.up /\ NoWork.op = "idle"
      /\ NoSession \notin lost
  BY DEF NoProcess, NoWork, SInv, LostInv
<1>9. ProcessInv'
  BY <1>1, <1>2, <1>8 DEF SInv, ProcessInv, Fresh
<1>10. \A t \in results' : t \in results \/ (t.phase = "started" => Tells(t)')
  BY <1>1 DEF Answer
<1>11. QED
  BY <1>1, <1>6, <1>7, <1>8, <1>9, <1>10, DaemonSession

(* The session that is lost is one nothing runs.                           *)
LEMMA SessionMissingSession ==
  ASSUME IInv, SInv, SessionMissing
  PROVE  SInv'
<1> DEFINE gone == [kind |-> "gone", epoch |-> rec.epoch, seq |-> 0, session |-> work.session]
<1>1. /\ work.op = "spawn" /\ work.session # NoSession /\ work \in Works
      /\ lost' = lost \cup {work.session} /\ reports' = reports \cup {gone}
      /\ work' = [work EXCEPT !.op = "launch", !.session = NoSession]
      /\ UNCHANGED <<ctl, outrun, link, commands, results, rec, retry, proc, restart, wake,
                     callbacks>>
  BY DEF SessionMissing, cloudVars, historyVars, IInv, TypeOK
<1>2. gone.kind = "gone" /\ gone.epoch = rec.epoch /\ gone.session = work.session
  OBVIOUS
<1> HIDE DEF gone
<1>3. ~StartDone /\ rec.epoch <= ctl.epoch
  BY <1>1 DEF IInv, RecordInv, Launches, SInv, RunInv
<1>4. /\ work'.op = "launch" /\ ~proc.up /\ wake = "no" /\ ~proc.held /\ link # "boot"
  BY <1>1, NoneTypes DEF Works, SInv, ProcessInv, Fresh
<1>5. ProcessInv'
  BY <1>1, <1>4 DEF SInv, ProcessInv, Fresh
<1>6. LostInv'
  BY <1>1, <1>2, <1>4 DEF SInv, LostInv, Fresh
<1>7. RunInv'
  BY <1>1, <1>3, NothingTold, RunPending
<1>8. Keeps /\ Enters
  BY <1>1, <1>3 DEF Keeps, Enters
<1>9. Told
  BY <1>1, <1>2, <1>3 DEF Told
<1>10. ToldInv' /\ CloudInv'
  BY <1>1, <1>8, <1>9, DaemonTells
<1>11. QED
  BY <1>5, <1>6, <1>7, <1>10 DEF SInv

-----------------------------------------------------------------------------
(* The session: what the cloud does with it.                               *)

(* The daemon is as it was; what comes from it is what its record tells.   *)
DaemonStays ==
  /\ UNCHANGED <<rec, work, retry, proc, restart, wake, callbacks, lost, performed>>
  /\ link' = "boot" <=> link = "boot"
  /\ results' \subseteq results \cup {rec.lastResult}
  /\ reports' \subseteq reports \cup rec.report
  /\ \A c \in commands' : c \in commands \/ Issued(c)

LEMMA DaemonStaysTold ==
  ASSUME IInv, IInv', SInv, DaemonStays, ctl'.epoch = ctl.epoch, ctl'.action = ctl.action
  PROVE  ProcessInv' /\ LostInv' /\ RunInv' /\ ToldInv' /\ \A m : Tells(m) <=> Tells(m)'
<1>1. UNCHANGED <<rec, work, retry, proc, restart, wake, callbacks, lost>>
  BY DEF DaemonStays
<1>2. \A m : Tells(m) <=> Tells(m)'
  BY <1>1 DEF Tells, StartDone
<1>3. \A s \in rec.report : s.kind = "session" /\ Tells(s)
  BY DEF SInv, RunInv
<1>4. ProcessInv'
  BY <1>1, ProcessFrame DEF DaemonStays
<1>5. LostInv'
  <2>1. \A s \in reports' : s \in reports \/ s.kind = "session"
    BY <1>3 DEF DaemonStays
  <2>2. QED
    BY <1>1, <2>1, LostFrame DEF SInv, LostInv
<1>6. ASSUME NEW c \in commands', StartDone, c.step = "stop", c.epoch = rec.epoch
      PROVE  rec.stopResult # NoResult
  <2>1. CASE c \in commands
    BY <1>6, <2>1 DEF SInv, RunInv
  <2>2. CASE Issued(c)
    <3>1. /\ c.epoch = ctl.epoch /\ rec.epoch = ctl.epoch /\ ctl'.phase = "stopping"
          /\ ctl.epoch \in Epochs /\ ctl.epoch # 0
      <4>1. c.epoch \in Epochs
        BY <1>6, CommandFields DEF IInv, TypeOK, Commands
      <4>2. QED
        BY <1>6, <2>2, <4>1, Bounds DEF Issued
    <3>2. /\ ctl' \in Operations /\ ctl'.phase \in PhasesOf(ctl'.action) /\ ctl'.action \in Actions
          /\ performed' \in [Epochs -> 0..3]
      BY OperationFields DEF IInv, TypeOK, OperationInv
    <3>3. Confirmed(ctl') = 0
      BY <3>1, <3>2, ConfirmedSteps
    <3>4. performed'[ctl'.epoch] <= 1
      BY <3>1, <3>2, <3>3 DEF IInv, OperationInv
    <3>5. performed'[ctl'.epoch] >= Length(ctl'.action)
      <4>1. Vouched(ctl', performed', rec.startResult)
        BY <1>1 DEF IInv, RecordInv
      <4>2. rec.startResult # NoResult /\ rec.startResult.phase = "started"
            /\ rec.startResult.epoch = ctl'.epoch
        BY <1>6, <3>1 DEF SInv, RunInv, Tells, StartDone
      <4>3. QED
        BY <4>1, <4>2 DEF Vouched
    <3>6. ctl'.action \in {"restart", "reset-session", "full-reset"}
      <4>1. ctl'.action # "stop"
        BY <1>6, <3>1 DEF SInv, RunInv
      <4>2. QED
        BY <3>1, <3>2, <4>1 DEF PhasesOf, Actions, Terminal
    <3>7. Length(ctl'.action) >= 2
      BY <3>6, Lengths
    <3>8. performed'[ctl'.epoch] \in 0..3 /\ Length(ctl'.action) \in 0..3
      BY <3>1, <3>2, LengthType
    <3>9. QED
      BY <3>4, <3>5, <3>7, <3>8
  <2>3. QED
    BY <1>6, <2>1, <2>2 DEF DaemonStays
<1>7. RunInv'
  BY <1>1, <1>2, <1>6 DEF SInv, RunInv, StartDone
<1>8. ToldInv'
  <2>1. \A s \in rec.report : s.epoch <= ctl.epoch
    BY <1>3 DEF Tells, IInv, RecordInv
  <2>2. \A s \in reports' : s.epoch <= ctl'.epoch
    BY <2>1 DEF SInv, ToldInv, DaemonStays
  <2>3. rec.lastResult.phase = "started" => Tells(rec.lastResult)
    BY DEF SInv, RunInv
  <2>4. QED
    BY <1>2, <1>3, <2>2, <2>3 DEF SInv, ToldInv, DaemonStays
<1>9. QED
  BY <1>2, <1>4, <1>5, <1>7, <1>8

(* The operation is as it was.                                             *)
LEMMA OperationStaysTold ==
  ASSUME IInv, IInv', SInv, DaemonStays, UNCHANGED <<ctl, outrun>>
  PROVE  SInv'
<1>1. ProcessInv' /\ LostInv' /\ RunInv' /\ ToldInv' /\ \A m : Tells(m) <=> Tells(m)'
  BY DaemonStaysTold
<1>2. CloudInv'
  <2>1. rec' = rec /\ (link' = "boot" <=> link = "boot") /\ (StartDone <=> StartDone')
        /\ \A c \in commands' : c \in commands \/ Issued(c)
    BY DEF DaemonStays, StartDone
  <2>2. HasLaunch(ctl') <=> HasLaunch(ctl)
    BY DEF HasLaunch
  <2>3. Tells(ctl) <=> Tells(ctl)'
    BY <1>1 DEF Tells
  <2>4. ctl.phase = "completed" =>
          \A c \in commands' : c.step = "start" => c \in commands
    BY <2>1 DEF Issued
  <2>5. QED
    BY <2>1, <2>2, <2>3, <2>4 DEF SInv, CloudInv
<1>3. QED
  BY <1>1, <1>2 DEF SInv

LEMMA JoinSession ==
  ASSUME IInv, IInv', SInv, Join
  PROVE  SInv'
<1>1. DaemonStays /\ UNCHANGED <<ctl, outrun>>
  BY DEF Join, DaemonStays, cloudVars, wireVars, controlVars, processVars, historyVars
<1>2. QED
  BY <1>1, OperationStaysTold

LEMMA ExecuteSession ==
  ASSUME IInv, IInv', SInv, NEW action, Execute(action)
  PROVE  SInv'
<1>1. DaemonStays /\ UNCHANGED <<ctl, outrun>>
  BY DEF Execute, DaemonStays, wireVars, controlVars, processVars, historyVars
<1>2. QED
  BY <1>1, OperationStaysTold

LEMMA DriveSession ==
  ASSUME IInv, IInv', SInv, Drive
  PROVE  SInv'
<1>1. /\ UNCHANGED <<ctl, link, results, reports, rec, work, retry, proc, restart, wake, callbacks,
                     lost, performed, outrun>>
      /\ ctl.phase \in Pending
      /\ commands' = commands \/ commands' = commands \cup {CommandFor(ctl')}
  BY DEF Drive, Publish, controlVars, processVars, historyVars
<1>2. \A c \in commands' : c \in commands \/ Issued(c)
  <2>1. ctl'.phase \in Pending /\ ctl'.epoch # 0
    BY <1>1, PendingEpoch
  <2>2. ctl' \in Operations /\ ctl'.phase \in PhasesOf(ctl'.action)
    BY DEF IInv, TypeOK, OperationInv
  <2>3. QED
    BY <1>1, <2>1, <2>2, PublishIssues
<1>3. DaemonStays
  BY <1>1, <1>2 DEF DaemonStays
<1>4. QED
  BY <1>1, <1>3, OperationStaysTold

LEMMA PublishFailsSession ==
  ASSUME IInv, IInv', SInv, PublishFails
  PROVE  SInv'
<1>1. DaemonStays /\ UNCHANGED <<ctl, outrun>>
  BY DEF PublishFails, DaemonStays, wireVars, controlVars, processVars
<1>2. QED
  BY <1>1, OperationStaysTold

LEMMA DriveTimesOutSession ==
  ASSUME IInv, IInv', SInv, DriveTimesOut
  PROVE  SInv'
<1>1. DaemonStays /\ UNCHANGED <<ctl, outrun>>
  BY DEF DriveTimesOut, DaemonStays, wireVars, controlVars, processVars, historyVars
<1>2. QED
  BY <1>1, OperationStaysTold

LEMMA StutterSession ==
  ASSUME IInv, IInv', SInv, UNCHANGED vars
  PROVE  SInv'
<1>1. DaemonStays /\ UNCHANGED <<ctl, outrun>>
  BY DEF vars, DaemonStays, cloudVars, wireVars, controlVars, processVars, historyVars
<1>2. QED
  BY <1>1, OperationStaysTold

LEMMA DisconnectSession ==
  ASSUME IInv, IInv', SInv, Disconnect
  PROVE  SInv'
<1>1. DaemonStays /\ UNCHANGED <<ctl, outrun>>
  BY DEF Disconnect, Connected, Handshakes, DaemonStays, cloudVars, controlVars, processVars,
         historyVars
<1>2. QED
  BY <1>1, OperationStaysTold

(* The next step of the chain is not a launch, or it has no report yet; it *)
(* completes only a Stop.                                                  *)
LEMMA AdvancedCloud ==
  ASSUME IInv, ctl.phase \in Settled, ctl' = Advanced(ctl)
  PROVE  CloudInv'
<1>1. /\ ctl \in Operations /\ ctl.phase \in PhasesOf(ctl.action)
      /\ ctl.phase \in {"stopped", "workspace-reset"}
  BY DEF IInv, TypeOK, OperationInv, Settled
<1>2. ctl' \in Operations /\ ctl'.action = ctl.action /\ Confirmed(ctl') = Confirmed(ctl)
  BY <1>1, AdvancedFacts
<1>3. ctl'.sessionSequence = 0
  BY <1>1 DEF Advanced, Operations
<1>4. ctl'.phase = "completed" => ctl'.action = "stop"
  <2> SUFFICES ASSUME ctl'.phase = "completed" PROVE ctl.action = "stop"
    BY <1>2
  <2>1. Confirmed(ctl) = Length(ctl.action)
    BY <1>2, ConfirmedSteps
  <2>2. /\ ctl.phase = "stopped" => Length(ctl.action) = 1
        /\ ctl.phase = "workspace-reset" => Length(ctl.action) = 2
    BY <1>1, <2>1, ConfirmedSteps
  <2>3. ctl.action \in Actions /\ ctl.action \notin {"none", "start"}
    BY <1>1, OperationFields DEF PhasesOf, Terminal
  <2>4. ctl.phase = "workspace-reset" => ctl.action = "full-reset"
    BY <1>1, <2>3 DEF PhasesOf, Actions, Terminal
  <2>5. QED
    BY <1>1, <2>2, <2>3, <2>4, Lengths DEF Actions
<1>5. QED
  BY <1>3, <1>4 DEF CloudInv

LEMMA AdvanceSession ==
  ASSUME IInv, IInv', SInv, Advance
  PROVE  SInv'
<1>1. /\ ctl.phase \in Settled /\ ctl' = Advanced(ctl)
      /\ UNCHANGED <<link, results, reports, rec, work, retry, proc, restart, wake, callbacks,
                     lost, performed, outrun>>
      /\ commands' = commands \/ (ctl'.phase \in Pending /\ commands' = commands \cup {CommandFor(ctl')})
  BY DEF Advance, Publish, controlVars, processVars, historyVars
<1>2. /\ ctl' \in Operations /\ ctl'.epoch = ctl.epoch /\ ctl'.action = ctl.action
      /\ ctl'.epoch # 0 /\ ctl'.phase \in PhasesOf(ctl'.action)
  BY <1>1, AdvancedStep DEF GoesOn
<1>3. \A c \in commands' : c \in commands \/ Issued(c)
  BY <1>1, <1>2, PublishIssues
<1>4. DaemonStays
  BY <1>1, <1>3 DEF DaemonStays
<1>5. ProcessInv' /\ LostInv' /\ RunInv' /\ ToldInv'
  BY <1>2, <1>4, DaemonStaysTold
<1>6. QED
  BY <1>1, <1>5, AdvancedCloud DEF SInv

LEMMA RecoverWorkspaceSession ==
  ASSUME IInv, IInv', SInv, RecoverWorkspace
  PROVE  SInv'
<1>1. /\ link \in Handshakes /\ link' = "up" /\ Connected
      /\ results' \subseteq results \cup {rec.lastResult}
      /\ reports' = reports \cup rec.report
      /\ UNCHANGED <<rec, work, retry, proc, restart, wake, callbacks, lost, performed, outrun>>
  BY DEF RecoverWorkspace, Connected, controlVars, processVars
<1>2. /\ \/ ctl' = ctl
         \/ ctl.phase \in Settled /\ ctl' = Advanced(ctl)
      /\ \/ commands' = commands
         \/ ctl'.phase \in Pending /\ commands' = commands \cup {CommandFor(ctl')}
  <2>1. Reconcile \/ Recover \/ UNCHANGED <<ctl, commands, writer>>
    BY DEF RecoverWorkspace
  <2>2. CASE Reconcile
    BY <2>2 DEF Reconcile
  <2>3. CASE Recover
    BY <1>1, <2>3 DEF Recover, Resent, Publish
  <2>4. QED
    BY <2>1, <2>2, <2>3
<1>3. ctl'.epoch = ctl.epoch /\ ctl'.action = ctl.action
  BY <1>1, <1>2, AdvancedStep DEF GoesOn
<1>4. \A c \in commands' : c \in commands \/ Issued(c)
  <2>1. CASE commands' = commands
    BY <2>1
  <2>2. CASE ctl'.phase \in Pending /\ commands' = commands \cup {CommandFor(ctl')}
    <3>1. ctl.phase \in Pending \cup Settled
      BY <1>2, <2>2
    <3>2. ctl'.epoch # 0
      BY <1>3, <3>1, PendingEpoch
    <3>3. ctl' \in Operations /\ ctl'.phase \in PhasesOf(ctl'.action)
      BY DEF IInv, TypeOK, OperationInv
    <3>4. QED
      BY <2>2, <3>2, <3>3, PublishIssues
  <2>3. QED
    BY <1>2, <2>1, <2>2
<1>5. DaemonStays
  BY <1>1, <1>4 DEF DaemonStays, Handshakes
<1>6. CASE ctl' = ctl
  BY <1>1, <1>5, <1>6, OperationStaysTold
<1>7. CASE ctl.phase \in Settled /\ ctl' = Advanced(ctl)
  BY <1>3, <1>5, <1>7, DaemonStaysTold, AdvancedCloud DEF SInv
<1>8. QED
  BY <1>2, <1>6, <1>7

(* An operation begins: nothing that is told names it yet.                 *)
LEMMA BegunSession ==
  ASSUME IInv, SInv, NEW action \in Actions \ {"none"}, ctl.epoch < MaxEpoch,
         ctl' = Begun(action, ctl),
         UNCHANGED <<link, commands, results, reports, rec, work, retry, proc, restart, wake,
                     callbacks, lost, outrun>>
  PROVE  SInv'
<1>1. /\ ctl \in Operations /\ ctl' \in Operations /\ ctl'.epoch = ctl.epoch + 1
      /\ ctl'.phase \in Pending /\ ctl.epoch \in 0..MaxEpoch
  <2>1. ctl \in Operations
    BY DEF IInv, TypeOK
  <2>2. QED
    BY <2>1, BegunFacts, OperationFields
<1>2. ctl'.sessionSequence = 0
  BY DEF Begun
<1>3. \A m : Tells(m) <=> Tells(m)'
  BY DEF Tells, StartDone
<1>4. ProcessInv' /\ LostInv'
  BY ProcessFrame DEF SInv, LostInv
<1>5. rec.epoch \in 0..MaxEpoch /\ rec.epoch <= ctl.epoch /\ rec.epoch # ctl'.epoch
  <2>1. rec.epoch \in 0..MaxEpoch /\ rec.epoch <= ctl.epoch
    BY RecordFields DEF IInv, TypeOK, RecordInv
  <2>2. QED
    BY <1>1, <2>1
<1>6. RunInv'
  BY <1>3, <1>5 DEF SInv, RunInv, StartDone
<1>7. ToldInv'
  <2>1. \A s \in reports : s.epoch <= ctl'.epoch /\ s.epoch # ctl'.epoch
    <3>1. \A s \in reports : s.epoch <= ctl.epoch /\ s.epoch \in 0..MaxEpoch
      BY Bounds DEF SInv, ToldInv, IInv, TypeOK, Reports
    <3>2. QED
      BY <1>1, <3>1
  <2>2. \A r \in results : r.epoch # ctl'.epoch
    <3>1. \A r \in results : r = NoResult \/ r.epoch \in 1..ctl.epoch
      BY DEF IInv, WireInv, Vouched
    <3>2. QED
      BY <1>1, <3>1, NoResultType
  <2>3. QED
    BY <2>1, <2>2 DEF ToldInv
<1>8. CloudInv'
  BY <1>1, <1>2 DEF CloudInv, Pending
<1>9. QED
  BY <1>4, <1>6, <1>7, <1>8 DEF SInv

LEMMA BeginSession ==
  ASSUME IInv, IInv', SInv, NEW caller \in Callers, Begin(caller)
  PROVE  SInv'
<1>1. UNCHANGED <<commands, results, reports, rec, work, retry, proc, restart, wake, callbacks,
                  lost, performed, outrun>>
  BY DEF Begin, controlVars, processVars, historyVars
<1>2. \/ ctl = writer[caller].seen /\ ctl' = Begun(writer[caller].action, ctl) /\ UNCHANGED link
      \/ ctl' = ctl /\ (link' = link \/ (link = "up" /\ link' = "down"))
  BY DEF Begin, Unchanged
<1>3. CASE ctl = writer[caller].seen /\ ctl' = Begun(writer[caller].action, ctl) /\ UNCHANGED link
  <2>1. writer[caller] # NoWriter /\ writer[caller] \in Writers
    BY DEF Begin, IInv, TypeOK
  <2>2. writer[caller].action \in Actions \ {"none"} /\ ctl.epoch < MaxEpoch
    BY <1>3, <2>1 DEF IInv, WriterInv, Writers
  <2>3. QED
    BY <1>1, <1>3, <2>2, BegunSession
<1>4. CASE ctl' = ctl /\ (link' = link \/ (link = "up" /\ link' = "down"))
  <2>1. DaemonStays
    BY <1>1, <1>4 DEF DaemonStays
  <2>2. QED
    BY <1>1, <1>4, <2>1, OperationStaysTold
<1>5. QED
  BY <1>2, <1>3, <1>4

(* A report is taken: while the daemon is the one that sent it, it tells   *)
(* of what that runs.                                                      *)
LEMMA SnapshotSession ==
  ASSUME IInv, IInv', SInv, NEW s \in reports, Snapshot(s)
  PROVE  SInv'
<1>1. UNCHANGED <<link, commands, results, rec, work, retry, proc, restart, wake, callbacks, lost,
                  performed, outrun>>
  BY DEF Snapshot, controlVars, processVars, historyVars
<1>2. DaemonStays
  BY <1>1 DEF Snapshot, DaemonStays
<1>3. CASE ctl' = ctl
  BY <1>1, <1>2, <1>3, OperationStaysTold
<1>4. CASE /\ Current(s) /\ HasLaunch(ctl)
           /\ ctl' = [ctl EXCEPT !.session = s.session, !.sessionSequence = s.seq, !.bound = TRUE]
  <2>1. /\ ctl \in Operations /\ ctl'.epoch = ctl.epoch /\ ctl'.action = ctl.action
        /\ ctl'.phase = ctl.phase /\ ctl'.session = s.session
    BY <1>4 DEF IInv, TypeOK, Operations
  <2>2. ProcessInv' /\ LostInv' /\ RunInv' /\ ToldInv' /\ \A m : Tells(m) <=> Tells(m)'
    BY <1>2, <2>1, DaemonStaysTold
  <2>3. link # "boot" => Tells(ctl')
    <3>1. link # "boot" => Tells(s) /\ s.epoch = ctl.epoch
      BY <1>4 DEF Snapshot, SInv, ToldInv, Current
    <3>2. QED
      BY <2>1, <3>1 DEF Tells
  <2>4. link = "boot" => rec.epoch = 0 /\ commands = {}
    BY NoRecordType DEF SInv, ProcessInv, IInv, WireInv
  <2>5. link # "boot" => Tells(ctl)'
    BY <1>1, <2>3 DEF Tells, StartDone
  <2>6. CloudInv'
    <3>1. CASE link # "boot"
      <4>1. StartDone' /\ Tells(ctl)' /\ rec'.epoch = ctl'.epoch
        BY <2>5, <3>1 DEF Tells
      <4>2. QED
        BY <4>1 DEF CloudInv
    <3>2. CASE link = "boot"
      BY <1>1, <2>4, <3>2 DEF CloudInv
    <3>3. QED
      BY <3>1, <3>2
  <2>7. QED
    BY <2>2, <2>6 DEF SInv
<1>5. QED
  BY <1>3, <1>4 DEF Snapshot

(* What the provider no longer resumes is not the session that is told of. *)
LEMMA InvalidateSession ==
  ASSUME IInv, IInv', SInv, NEW s \in reports, Invalidate(s)
  PROVE  SInv'
<1>1. UNCHANGED <<link, commands, results, rec, work, retry, proc, restart, wake, callbacks, lost,
                  performed, outrun>>
  BY DEF Invalidate, controlVars, processVars, historyVars
<1>2. DaemonStays
  BY <1>1 DEF Invalidate, DaemonStays
<1>3. CASE ctl' = ctl
  BY <1>1, <1>2, <1>3, OperationStaysTold
<1>4. CASE s.session = ctl.session /\ ctl' = [ctl EXCEPT !.session = NoSession]
  <2>1. /\ ctl \in Operations /\ ctl'.epoch = ctl.epoch /\ ctl'.action = ctl.action
        /\ ctl'.phase = ctl.phase /\ ctl'.sessionSequence = ctl.sessionSequence
    BY <1>4 DEF IInv, TypeOK, Operations
  <2>2. ProcessInv' /\ LostInv' /\ RunInv' /\ ToldInv' /\ \A m : Tells(m) <=> Tells(m)'
    BY <1>2, <2>1, DaemonStaysTold
  <2>3. ~Tells(ctl)
    <3>1. s.session \in lost
      BY DEF Invalidate, SInv, LostInv
    <3>2. QED
      BY <1>4, <3>1 DEF Tells, SInv, RunInv
  <2>4. HasLaunch(ctl') <=> HasLaunch(ctl)
    BY <2>1 DEF HasLaunch
  <2>5. CloudInv'
    BY <1>1, <2>1, <2>3, <2>4 DEF SInv, CloudInv, StartDone
  <2>6. QED
    BY <2>2, <2>5 DEF SInv
<1>5. QED
  BY <1>3, <1>4 DEF Invalidate, NamesCurrent

(* A result is taken.  A launch's names the session of the record, and it  *)
(* is the operation's, whether the report of it came before or after.      *)
LEMMA ResultSessionTold ==
  ASSUME IInv, IInv', SInv, NEW r \in results, Result(r)
  PROVE  SInv'
<1>1. UNCHANGED <<link, commands, reports, rec, work, retry, proc, restart, wake, callbacks, lost,
                  performed, outrun>>
  BY DEF Result, controlVars, processVars, historyVars
<1>2. DaemonStays
  BY <1>1 DEF Result, DaemonStays
<1>3. CASE ctl' = ctl
  BY <1>1, <1>2, <1>3, OperationStaysTold
<1>4. CASE /\ Applies(r)
           /\ ctl' = [ctl EXCEPT
                !.controlSequence = r.seq,
                !.phase = IF r.phase = "failed" THEN "failed" ELSE CompletedOf(r.phase),
                !.bound = @ \/ (r.phase = "started" /\ r.session # NoSession),
                !.session = ResultSession(r)]
  <2>1. /\ ctl \in Operations /\ ctl'.epoch = ctl.epoch /\ ctl'.action = ctl.action
        /\ ctl'.phase = (IF r.phase = "failed" THEN "failed" ELSE CompletedOf(r.phase))
        /\ ctl'.session = ResultSession(r) /\ ctl'.sessionSequence = ctl.sessionSequence
        /\ r.epoch = ctl.epoch
    BY <1>4 DEF IInv, TypeOK, Operations, Applies, Current
  <2>2. ProcessInv' /\ LostInv' /\ RunInv' /\ ToldInv' /\ \A m : Tells(m) <=> Tells(m)'
    BY <1>2, <2>1, DaemonStaysTold
  <2>3. rec' = rec /\ (StartDone <=> StartDone') /\ link' = link /\ commands' = commands
        /\ outrun' = outrun /\ rec.epoch \in 0..MaxEpoch
    BY <1>1, RecordFields DEF StartDone, IInv, TypeOK
  <2>4. CASE r.phase # "started"
    <3>1. r.phase \in {"stopped", "workspace-reset", "failed"}
      <4>1. ctl.phase \in Pending \cup Settled
        BY <1>4, <2>1, OperationFields DEF Applies
      <4>2. r # NoResult
        BY <2>1, <4>1, PendingEpoch, NoResultType
      <4>3. Vouched(ctl, performed, r) /\ r \in Results
        BY DEF IInv, WireInv, TypeOK
      <4>4. QED
        BY <2>4, <4>2, <4>3 DEF Vouched, Results, ResultPhases
    <3>2. ctl'.phase \notin {"starting", "completed"}
      BY <2>1, <3>1 DEF CompletedOf
    <3>3. QED
      BY <2>2, <3>2 DEF SInv, CloudInv, HasLaunch
  <2>5. CASE r.phase = "started" /\ link = "boot"
    <3>1. rec.epoch = 0 /\ commands = {}
      BY <2>5, NoRecordType DEF SInv, ProcessInv, IInv, WireInv
    <3>2. CloudInv'
      BY <2>3, <2>5, <3>1 DEF CloudInv
    <3>3. QED
      BY <2>2, <3>2 DEF SInv
  <2>6. CASE r.phase = "started" /\ link # "boot"
    <3>1. Tells(r)
      BY <2>1, <2>6 DEF SInv, ToldInv
    <3>2. r.session = rec.session /\ rec.session # NoSession /\ StartDone /\ rec.epoch = ctl.epoch
      BY <2>1, <3>1 DEF Tells, SInv, RunInv
    <3>3. ctl.phase = "starting" /\ HasLaunch(ctl)
      <4>1. ctl.phase = "starting"
        BY <1>4, <2>6 DEF Applies, AwaitedBy
      <4>2. ctl.action # "stop"
        BY <3>2 DEF SInv, RunInv
      <4>3. QED
        BY <4>1, <4>2 DEF HasLaunch
    <3>4. ctl.epoch \in outrun \/ Tells(ctl')
      <4>1. CASE ctl.sessionSequence > r.seq
        <5>1. ctl.sessionSequence > 0
          <6>1. r.seq \in Nat /\ ctl.sessionSequence \in Nat
            BY <2>1, OperationFields DEF IInv, TypeOK, Results
          <6>2. QED
            BY <4>1, <6>1
        <5>2. ctl.epoch \in outrun \/ Tells(ctl)
          BY <2>6, <3>3, <5>1 DEF SInv, CloudInv
        <5>3. ctl'.session = ctl.session
          BY <2>1, <2>6, <4>1 DEF ResultSession
        <5>4. QED
          BY <2>1, <5>2, <5>3 DEF Tells
      <4>2. CASE ~(ctl.sessionSequence > r.seq)
        <5>1. ctl'.session = r.session
          BY <2>1, <3>2, <4>2 DEF ResultSession
        <5>2. QED
          BY <2>1, <3>2, <5>1 DEF Tells
      <4>3. QED
        BY <4>1, <4>2
    <3>5. CloudInv'
      <4>1. Tells(ctl') <=> Tells(ctl)'
        BY <2>3 DEF Tells
      <4>2. QED
        BY <2>1, <2>3, <3>2, <3>4, <4>1 DEF CloudInv
    <3>6. QED
      BY <2>2, <3>5 DEF SInv
  <2>7. QED
    BY <2>4, <2>5, <2>6
<1>5. QED
  BY <1>3, <1>4 DEF Result

-----------------------------------------------------------------------------
(* The session: a daemon dies, and the next one is ready.                  *)

LEMMA CrashSession ==
  ASSUME IInv, IInv', SInv, Crash
  PROVE  SInv'
<1>1. /\ link' = "boot" /\ commands' = {} /\ rec' = NoRecord /\ work' = NoWork /\ retry' = NoRetry
      /\ proc' = NoProcess /\ restart' = 0 /\ wake' = "no" /\ callbacks' = <<>>
      /\ results' \subseteq results /\ reports' \subseteq reports
      /\ UNCHANGED <<ctl, lost, outrun>>
  BY DEF Crash, cloudVars
<1>2. /\ NoWork.op = "idle" /\ NoProcess.session = NoSession /\ ~NoProcess.up
      /\ NoRecord.report = {} /\ NoRecord.epoch = 0 /\ NoRecord.phase = "none"
  BY DEF NoWork, NoProcess, NoRecord
<1>3. ProcessInv'
  BY <1>1, <1>2 DEF ProcessInv, Fresh
<1>4. LostInv'
  BY <1>1, <1>2 DEF SInv, LostInv
<1>5. RunInv'
  BY <1>1, <1>2, NoRecordType, NoResultType DEF RunInv, StartDone
<1>6. ToldInv'
  BY <1>1 DEF SInv, ToldInv
<1>7. CloudInv'
  BY <1>1, <1>2 DEF CloudInv
<1>8. QED
  BY <1>3, <1>4, <1>5, <1>6, <1>7 DEF SInv

LEMMA ReadySession ==
  ASSUME IInv, IInv', SInv, Ready
  PROVE  SInv'
<1>1. /\ link' \in Handshakes /\ link' # "boot"
      /\ UNCHANGED <<ctl, commands, rec, work, retry, proc, restart, wake, callbacks, lost, performed>>
  BY DEF Ready, Handshakes, cloudVars, controlVars, processVars
<1>2. CASE link = "boot"
  <2>1. /\ results' = {} /\ reports' = {} /\ outrun \subseteq outrun'
        /\ ctl.sessionSequence > 0 => ctl.epoch \in outrun'
        /\ rec.epoch = 0 /\ commands = {}
    BY <1>2, NoRecordType DEF Ready, SInv, ProcessInv, IInv, WireInv
  <2>2. ProcessInv' /\ LostInv'
    BY <1>1, <2>1 DEF SInv, ProcessInv, LostInv
  <2>3. RunInv'
    BY <1>1 DEF SInv, RunInv, StartDone, Tells
  <2>4. ToldInv'
    BY <2>1 DEF ToldInv
  <2>5. CloudInv'
    BY <1>1, <2>1 DEF CloudInv
  <2>6. QED
    BY <2>2, <2>3, <2>4, <2>5 DEF SInv
<1>3. CASE link # "boot"
  <2>1. DaemonStays /\ UNCHANGED <<ctl, outrun>>
    BY <1>1, <1>3 DEF Ready, DaemonStays
  <2>2. QED
    BY <2>1, OperationStaysTold
<1>4. QED
  BY <1>2, <1>3

LEMMA InitSession == Init => SInv
<1> SUFFICES ASSUME Init PROVE SInv
  OBVIOUS
<1>1. /\ NoWork.op = "idle" /\ NoProcess.session = NoSession /\ ~NoProcess.up
      /\ NoRecord.report = {} /\ NoRecord.epoch = 0 /\ NoRecord.phase = "none"
      /\ NoOperation.epoch = 0 /\ NoOperation.sessionSequence = 0
  BY DEF NoWork, NoProcess, NoRecord, NoOperation
<1>2. ProcessInv
  BY <1>1 DEF Init, ProcessInv, Fresh
<1>3. LostInv
  BY <1>1 DEF Init, LostInv
<1>4. RunInv
  BY <1>1, NoRecordType, NoResultType DEF Init, RunInv, StartDone
<1>5. ToldInv /\ CloudInv
  BY <1>1 DEF Init, ToldInv, CloudInv
<1>6. QED
  BY <1>2, <1>3, <1>4, <1>5 DEF SInv

LEMMA SessionSteps ==
  ASSUME IInv, SInv, [Next]_vars
  PROVE  SInv'
<1>1. IInv'
  BY Steps
<1>2. CASE Owner
  BY <1>1, <1>2, JoinSession, ExecuteSession DEF Owner
<1>3. CASE (\E caller \in Callers : Begin(caller)) \/ Drive \/ DriveTimesOut \/ Advance
  BY <1>1, <1>3, BeginSession, DriveSession, DriveTimesOutSession, AdvanceSession
<1>4. CASE Arrival
  BY <1>1, <1>4, ResultSessionTold, SnapshotSession, InvalidateSession DEF Arrival
<1>5. CASE Command
  BY <1>1, <1>5, StopCommandSession, ResetCommandSession, StartCommandSession DEF Command
<1>6. CASE Stopping
  BY <1>1, <1>6, StopEndsSession, StopFailsSession DEF Stopping
<1>7. CASE Launching
  BY <1>1, <1>7, LaunchAuthorizedSession, SpawnedSession, JoinedWakeSession,
     SessionMissingSession, LaunchRejectedSession, LaunchUnconfirmedSession DEF Launching
<1>8. CASE RetryFires \/ RetryRuns \/ Wake \/ Waking \/ Callback \/ Updated
  BY <1>1, <1>8, RetryFiresSession, RetryRunsSession, WakeSession, WakeAuthorizedSession,
     WokenSession, CallbackSession, UpdatedSession DEF Waking
<1>9. CASE Ready \/ RecoverWorkspace
  BY <1>1, <1>9, ReadySession, RecoverWorkspaceSession
<1>10. CASE Failure
  BY <1>1, <1>10, PublishFailsSession, ProcessExitsSession, DisconnectSession,
     CrashSession DEF Failure
<1>11. CASE UNCHANGED vars
  BY <1>1, <1>11, StutterSession
<1>12. QED
  BY <1>2, <1>3, <1>4, <1>5, <1>6, <1>7, <1>8, <1>9, <1>10, <1>11 DEF Next

(* When a Start has completed and its launch still runs, the cloud keeps   *)
(* the native session the daemon runs: whatever reports, replays, retries, *)
(* wakes and invalidations cross, and however often a daemon dies, unless  *)
(* the sequence of a dead one is ahead of the next one's reports.          *)
THEOREM SessionsStayAgreed == Spec => []SessionsAgree
<1>1. IInv /\ SInv => SessionsAgree
  <2> SUFFICES ASSUME IInv, SInv, rec.phase = "running", rec.epoch = ctl.epoch,
                      ctl.phase = "completed"
               PROVE  ctl.session = rec.session \/ ctl.epoch \in outrun
    BY DEF SessionsAgree
  <2>1. ctl.epoch # 0 /\ StartDone
    BY DEF IInv, RecordInv, SInv, RunInv
  <2>2. ctl.action # "stop"
    BY <2>1 DEF SInv, RunInv
  <2>3. QED
    BY <2>1, <2>2 DEF SInv, CloudInv, Tells
<1>2. Init => IInv /\ SInv
  BY InitInv, InitSession
<1>3. IInv /\ SInv /\ [Next]_vars => IInv' /\ SInv'
  BY Steps, SessionSteps
<1>4. QED
  BY <1>1, <1>2, <1>3, PTL DEF Spec

=============================================================================
