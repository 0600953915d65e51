----------------------------- MODULE AgentControl -----------------------------
(***************************************************************************)
(* Start, Stop, Restart, Reset session and Full reset of one Agent: the    *)
(* operation the cloud keeps on the Agent record and drives                *)
(* (agents/agent-control.server.ts, agent-session.server.ts), the recovery *)
(* of a daemon's `ready` (agent-runtime-control.server.ts), the daemon's   *)
(* control record (agent-runtime/agent-control.ts) and the provider        *)
(* process it stands for, which a message may also wake (runtime.ts).      *)
(*                                                                         *)
(* An operation is named by its epoch: every new one takes the next, and a *)
(* launch id is minted once per operation, so the epoch names that too.    *)
(* The daemon runs an Agent's control work one piece at a time; what it    *)
(* awaits (a stop, a launch and its authorization) is a state of `work`,   *)
(* during which messages travel, the process exits or the daemon dies.     *)
(***************************************************************************)
EXTENDS Naturals, Sequences, FiniteSets

CONSTANTS
  Buttons,      \* actions an owner may take
  MaxEpoch,     \* bound: operations
  MaxAttempts,  \* LAUNCH_FAILURE_MAX_ATTEMPTS
  Events,       \* the kinds of failure that may happen
  MaxEvents     \* bound: how many of them in one behaviour

ASSUME ControlBounds ==
  /\ Buttons \subseteq {"start", "stop", "restart", "reset-session", "full-reset"}
  /\ MaxEpoch \in Nat \ {0} /\ MaxAttempts \in Nat \ {0} /\ MaxEvents \in Nat

Epochs == 1..MaxEpoch
NoSession == 0
Sessions == Nat

VARIABLES
  ctl,      \* the operation on the Agent record, with its current session
  stopped,  \* stoppedAt is set
  writer,   \* `begin` between its read and its compare-and-swap, per caller
  driver,   \* what the current operation's waiter has published
  link,     \* the daemon's connection, and the `ready` under way on it
  commands, \* control publications on their way to the daemon
  results,  \* control results on their way to the cloud
  reports,  \* session snapshots and invalidations on their way
  rec,      \* the daemon's control record
  work,     \* the control work the daemon is awaiting
  retry,    \* its automatic launch retry
  proc,     \* the provider process
  restart,  \* the launch a message may wake the Agent under
  wake,     \* a launch of that kind
  callbacks,\* process exits and wakes queued for the control record
  minted,   \* native sessions created
  lost,     \* those the provider no longer resumes
  performed,\* history: steps taken on the Computer for each operation
  tries,    \* history: launch attempts of each operation in this daemon
  stranded, \* history: operations only the owner's next press ends
  refused,  \* history: newer Starts refused while a launch retry was due
  outrun,   \* history: operations with a session sequence of a dead daemon
  events    \* failures so far

cloudVars == <<ctl, stopped, writer, driver>>
wireVars == <<link, commands, results, reports>>
controlVars == <<rec, work, retry>>
processVars == <<proc, restart, wake, callbacks, minted, lost>>
historyVars == <<performed, tries, stranded, refused, outrun>>
vars == <<cloudVars, wireVars, controlVars, processVars, historyVars, events>>

Actions == {"none", "start", "stop", "restart", "reset-session", "full-reset"}
Pending == {"stopping", "clearing", "starting"}
Settled == {"stopped", "workspace-reset"}
Terminal == {"completed", "failed"}

(* `chains`, without the clear-session step: it is the cloud's own and     *)
(* happens in the write that moves the operation to its Start.             *)
Chain(action) ==
  CASE action = "none"       -> <<>>
    [] action = "start"      -> <<"start">>
    [] action = "stop"       -> <<"stop">>
    [] action = "full-reset" -> <<"stop", "reset-workspace", "start">>
    [] OTHER                 -> <<"stop", "start">>
ClearsSession(action) == action \in {"reset-session", "full-reset"}
PendingOf(step) == CASE step = "stop"            -> "stopping"
                     [] step = "reset-workspace" -> "clearing"
                     [] step = "start"           -> "starting"
CompletedOf(result) == CASE result = "started" -> "completed" [] OTHER -> result
AwaitedBy(result) == CASE result = "stopped"         -> "stopping"
                       [] result = "workspace-reset" -> "clearing"
                       [] result = "started"         -> "starting"

Operations == [epoch : 0..MaxEpoch, action : Actions,
               phase : Pending \cup Settled \cup Terminal, session : Sessions,
               bound : BOOLEAN, controlSequence : Nat, sessionSequence : Nat]
NoOperation == [epoch |-> 0, action |-> "none", phase |-> "completed",
                session |-> NoSession, bound |-> FALSE,
                controlSequence |-> 0, sessionSequence |-> 0]
Callers == {"lock", "ready"}
Writers == [action : Actions, seen : Operations, attempt : 0..3, recovers : BOOLEAN]
NoWriter == [action |-> "none", seen |-> NoOperation, attempt |-> 0, recovers |-> FALSE]
Handshakes == {"running", "idle"}
Commands == [step : {"stop", "reset-workspace", "start"}, epoch : Epochs, session : Sessions]
ResultPhases == {"stopped", "workspace-reset", "started", "failed"}
Results == [epoch : 0..MaxEpoch, phase : ResultPhases \cup {"none"}, seq : Nat, session : Sessions]
NoResult == [epoch |-> 0, phase |-> "none", seq |-> 0, session |-> NoSession]
Reports == [kind : {"session", "gone"}, epoch : Epochs, seq : Nat, session : Sessions]

Records == [epoch : 0..MaxEpoch,
            phase : {"none", "stopping", "stopped", "workspace-reset", "starting", "running", "failed"},
            launch : 0..MaxEpoch, seq : Nat, session : Sessions,
            stopResult : Results, resetResult : Results, startResult : Results,
            lastResult : Results, report : SUBSET Reports]
NoRecord == [epoch |-> 0, phase |-> "none", launch |-> 0, seq |-> 0, session |-> NoSession,
             stopResult |-> NoResult, resetResult |-> NoResult, startResult |-> NoResult,
             lastResult |-> NoResult, report |-> {}]
Works == [op : {"idle", "stop", "launch", "join", "spawn"}, asked : Sessions,
          session : Sessions, attempt : 0..MaxAttempts]
NoWork == [op |-> "idle", asked |-> NoSession, session |-> NoSession, attempt |-> 0]
Retries == [state : {"none", "armed", "fired"}, epoch : 0..MaxEpoch, session : Sessions,
            attempt : 0..MaxAttempts]
NoRetry == [state |-> "none", epoch |-> 0, session |-> NoSession, attempt |-> 0]
Processes == [up : BOOLEAN, held : BOOLEAN, launch : 0..MaxEpoch, session : Sessions]
NoProcess == [up |-> FALSE, held |-> FALSE, launch |-> 0, session |-> NoSession]
Callbacks == [kind : {"exit", "wake"}, launch : 0..MaxEpoch]

Init ==
  /\ ctl = NoOperation /\ stopped = FALSE /\ driver = "off"
  /\ writer = [c \in Callers |-> NoWriter]
  /\ link = "boot" /\ commands = {} /\ results = {} /\ reports = {}
  /\ rec = NoRecord /\ work = NoWork /\ retry = NoRetry
  /\ proc = NoProcess /\ restart = 0 /\ wake = "no" /\ callbacks = <<>> /\ minted = 0
  /\ lost = {}
  /\ performed = [e \in Epochs |-> 0] /\ tries = [e \in Epochs |-> 0]
  /\ stranded = {} /\ refused = {} /\ outrun = {} /\ events = 0

Fault(kind) == kind \in Events /\ events < MaxEvents /\ events' = events + 1

-----------------------------------------------------------------------------
(* The cloud: beginning an operation.                                      *)

Connected == link \in {"up"} \cup Handshakes

(* A publication reaches a connected daemon only; nothing keeps it.        *)
CommandFor(op) ==
  [step |-> CASE op.phase = "stopping" -> "stop" [] op.phase = "clearing" -> "reset-workspace"
              [] op.phase = "starting" -> "start",
   epoch |-> op.epoch,
   session |-> IF op.phase = "starting" THEN op.session ELSE NoSession]
Publish(op) == commands' = IF Connected THEN commands \cup {CommandFor(op)} ELSE commands

HasLaunch(op) == op.action # "stop" /\ op.phase \in {"starting", "completed"}

(* execute, under the runtime lock: a Start joins the launch in flight,    *)
(* anything else reads the Agent to begin an operation over it.            *)
Join ==
  /\ "start" \in Buttons /\ writer["lock"] = NoWriter
  /\ ctl.phase = "starting" /\ ~stopped
  /\ driver = "off" /\ driver' = "new"
  /\ UNCHANGED <<ctl, stopped, writer, wireVars, controlVars, processVars, historyVars, events>>

ReadToBegin(caller, action, recovers) ==
  /\ ctl.epoch < MaxEpoch
  /\ writer[caller] = NoWriter
  /\ writer' = [writer EXCEPT ![caller] =
       [action |-> action, seen |-> ctl, attempt |-> 1, recovers |-> recovers]]

Execute(action) ==
  /\ ~(action = "start" /\ ctl.phase = "starting" /\ ~stopped)
  /\ ReadToBegin("lock", action, FALSE)
  /\ UNCHANGED <<ctl, stopped, driver, wireVars, controlVars, processVars, historyVars, events>>

Begun(action, old) ==
  [epoch |-> old.epoch + 1, action |-> action,
   phase |-> PendingOf(Chain(action)[1]), session |-> old.session,
   bound |-> FALSE, controlSequence |-> 0, sessionSequence |-> 0]

OperationFence(op) == <<op.epoch, op.action, op.phase, op.controlSequence>>
(* Mutant of Unchanged: a session report in between goes unnoticed.        *)
UnchangedFence(seen) == OperationFence(ctl) = OperationFence(seen)

Unchanged(seen) == ctl = seen

(* stoppedAt is written with an owner's own operation only.                *)
Begin(caller) ==
  LET w == writer[caller] IN
  /\ w # NoWriter
  /\ IF Unchanged(w.seen)
     THEN /\ ctl' = Begun(w.action, w.seen) /\ driver' = "new"
          /\ stopped' = IF caller = "lock" /\ ~w.recovers THEN w.action = "stop" ELSE stopped
          /\ writer' = [writer EXCEPT ![caller] = NoWriter]
          /\ UNCHANGED link
     ELSE IF /\ OperationFence(ctl) = OperationFence(w.seen)
             /\ ctl.sessionSequence >= w.seen.sessionSequence /\ w.attempt < 3
     THEN /\ writer' = [writer EXCEPT ![caller].seen = ctl, ![caller].attempt = @ + 1]
          /\ UNCHANGED <<ctl, stopped, driver, link>>
     ELSE \* refused; a `ready` whose recovery failed is sent again
          /\ writer' = [writer EXCEPT ![caller] = NoWriter]
          /\ link' = IF w.recovers /\ link = "up" THEN "down" ELSE link
          /\ UNCHANGED <<ctl, stopped, driver>>
  /\ UNCHANGED <<commands, results, reports, controlVars, processVars, historyVars, events>>

-----------------------------------------------------------------------------
(* The cloud: driving it.                                                  *)

(* The waiter publishes each phase it sees once; it goes when its time is  *)
(* up, and at once when a publication fails.                               *)
Drive ==
  /\ driver # "off" /\ ctl.phase \in Pending /\ driver # ctl.phase
  /\ driver' = ctl.phase /\ Publish(ctl)
  /\ UNCHANGED <<ctl, stopped, writer, link, results, reports, controlVars, processVars,
                 historyVars, events>>

PublishFails ==
  /\ driver # "off" /\ ctl.phase \in Pending /\ driver # ctl.phase
  /\ Fault("publish") /\ driver' = "off" /\ stranded' = stranded \cup {ctl.epoch}
  /\ UNCHANGED <<ctl, stopped, writer, wireVars, controlVars, processVars, performed, tries,
                 refused, outrun>>

DriveTimesOut ==
  /\ driver \in Pending /\ driver = ctl.phase /\ driver' = "off"
  /\ UNCHANGED <<ctl, stopped, writer, wireVars, controlVars, processVars, historyVars, events>>

(* advance: the next step of the chain, or its end.                        *)
Advanced(op) ==
  LET chain == Chain(op.action)
      taken == IF op.phase = "stopped" THEN 1 ELSE 2
      next == IF taken < Len(chain) THEN PendingOf(chain[taken + 1]) ELSE "completed"
  IN [op EXCEPT !.phase = next, !.sessionSequence = 0,
                !.session = IF next = "starting" /\ ClearsSession(op.action)
                            THEN NoSession ELSE @]

(* The result's handler, a waiter or recovery takes the step and publishes *)
(* it; a waiter that was signalled does not publish it again.              *)
Advance ==
  /\ ctl.phase \in Settled
  /\ ctl' = Advanced(ctl)
  /\ IF ctl'.phase \in Pending THEN Publish(ctl') ELSE UNCHANGED commands
  /\ driver' \in {driver} \cup {p \in {ctl'.phase} : driver # "off" /\ p \in Pending}
  /\ UNCHANGED <<stopped, writer, link, results, reports, controlVars, processVars,
                 historyVars, events>>

(* result: only for the current operation, a higher sequence and the step  *)
(* it is at.                                                               *)
Current(message) == message.epoch = ctl.epoch

(* Mutant of Applies: a result of an older operation is applied.           *)
AppliesToAny(r) ==
  /\ r.seq > ctl.controlSequence /\ ctl.phase \notin Terminal
  /\ r.phase # "failed" => ctl.phase = AwaitedBy(r.phase)

Applies(r) ==
  /\ Current(r) /\ r.seq > ctl.controlSequence /\ ctl.phase \notin Terminal
  /\ r.phase # "failed" => ctl.phase = AwaitedBy(r.phase)

SessionChanges(session) ==
  ctl.session # NoSession /\ session # NoSession /\ session # ctl.session

ResultSession(r) ==
  IF (r.phase = "started" /\ ctl.sessionSequence > r.seq) \/ r.session = NoSession
  THEN ctl.session ELSE r.session

Result(r) ==
  /\ results' = results \ {r}
  /\ IF /\ Applies(r)
        /\ ~(r.phase = "started" /\ ctl.bound /\ SessionChanges(r.session))
     THEN ctl' = [ctl EXCEPT
            !.controlSequence = r.seq,
            !.phase = IF r.phase = "failed" THEN "failed" ELSE CompletedOf(r.phase),
            !.bound = @ \/ (r.phase = "started" /\ r.session # NoSession),
            !.session = ResultSession(r)]
     ELSE UNCHANGED ctl
  /\ UNCHANGED <<stopped, writer, driver, link, commands, reports, controlVars, processVars,
                 historyVars, events>>

(* AgentSession.accept and invalidate write the same record, without the   *)
(* runtime lock.                                                           *)
Snapshot(s) ==
  /\ s.kind = "session"
  /\ reports' = reports \ {s}
  /\ IF /\ Current(s) /\ HasLaunch(ctl) /\ s.seq > ctl.sessionSequence
        /\ ~(ctl.bound /\ SessionChanges(s.session))
     THEN ctl' = [ctl EXCEPT !.session = s.session, !.sessionSequence = s.seq, !.bound = TRUE]
     ELSE UNCHANGED ctl
  /\ UNCHANGED <<stopped, writer, driver, link, commands, results, controlVars, processVars,
                 historyVars, events>>

(* Mutant of NamesCurrent: any session's invalidation is taken.            *)
NamesAny(s) == TRUE

NamesCurrent(s) == s.session = ctl.session

Invalidate(s) ==
  /\ s.kind = "gone"
  /\ reports' = reports \ {s}
  /\ ctl' = IF Current(s) /\ ctl.action # "stop" /\ NamesCurrent(s)
            THEN [ctl EXCEPT !.session = NoSession] ELSE ctl
  /\ UNCHANGED <<stopped, writer, driver, link, commands, results, controlVars, processVars,
                 historyVars, events>>

(* authorizeLaunch: the daemon asks before it mints a launch's credential. *)
Authorizes(epoch) ==
  /\ epoch = ctl.epoch
  /\ ctl.phase = "starting" \/ (ctl.phase = "completed" /\ ctl.action # "stop" /\ ~stopped)

-----------------------------------------------------------------------------
(* The daemon: what its control record answers and reports.                *)

Idle == work = NoWork

Answer(r) == results' = IF Connected THEN results \cup {r} ELSE results
Report(r) == reports' = IF Connected THEN reports \cup r.report ELSE reports

(* AgentSessions.capture on a running or stopped record.                   *)
Captured(r) ==
  IF r.session = NoSession \/ r.launch = 0 THEN r
  ELSE [r EXCEPT !.seq = @ + 1,
          !.report = {[kind |-> "session", epoch |-> r.epoch, seq |-> r.seq + 1,
                       session |-> r.session]}]

(* repairStaleRecord: a failed Stop whose process has since gone.          *)
Repaired ==
  IF rec.phase = "stopping" /\ rec.stopResult.phase = "failed" /\ ~proc.up
  THEN [rec EXCEPT !.phase = "stopped"] ELSE rec

(* A command is handled when the work before it has ended; during `ready`  *)
(* it is held.                                                             *)
Receive(c) ==
  /\ Idle /\ link \in {"up", "down"} /\ c \in commands
  /\ commands' = commands \ {c}
  /\ UNCHANGED <<cloudVars, link>>

Same(c) == rec.epoch = c.epoch
Stale(c) == rec.epoch > c.epoch

Refuse == /\ rec' = Repaired
          /\ UNCHANGED <<results, reports, work, retry, processVars, historyVars, events>>
Replay(r) == /\ Answer(r) /\ rec' = Repaired
             /\ UNCHANGED <<reports, work, retry, processVars, historyVars, events>>

StopCommand(c) ==
  /\ c.step = "stop" /\ Receive(c)
  /\ IF Stale(c) THEN Refuse
     ELSE IF Same(c) /\ rec.stopResult # NoResult THEN Replay(rec.stopResult)
     ELSE IF Same(c) /\ rec.phase = "failed" THEN Refuse
     ELSE /\ rec' = [NoRecord EXCEPT !.epoch = c.epoch, !.phase = "stopping",
                       !.seq = IF Same(c) THEN rec.seq ELSE 0, !.session = rec.session]
          /\ work' = [NoWork EXCEPT !.op = "stop"] /\ retry' = NoRetry
          /\ UNCHANGED <<results, reports, processVars, historyVars, events>>

Max2(a, b) == IF a > b THEN a ELSE b
Performs(epoch, steps) == performed' = [performed EXCEPT ![epoch] = Max2(@, steps)]
StepCount(epoch) == IF epoch = ctl.epoch THEN Len(Chain(ctl.action)) ELSE 0

(* Mutant of WakeEnded: a Stop does not wait for a wake under way.         *)
WakeIgnored == TRUE

WakeEnded == wake = "no"

(* The wake under way ends first; the process' session is read back.       *)
StopEnds ==
  /\ work.op = "stop" /\ WakeEnded /\ ~proc.held
  /\ LET session == IF proc.up THEN proc.session ELSE rec.session
         result == [epoch |-> rec.epoch, phase |-> "stopped", seq |-> rec.seq + 1,
                    session |-> session]
     IN /\ rec' = [rec EXCEPT !.phase = "stopped", !.session = session, !.seq = @ + 1,
                              !.stopResult = result, !.lastResult = result]
        /\ Answer(result)
  /\ proc' = NoProcess /\ restart' = 0 /\ work' = NoWork
  /\ Performs(rec.epoch, 1)
  /\ UNCHANGED <<cloudVars, link, commands, reports, retry, wake, callbacks, minted, lost,
                 tries, stranded, refused, outrun, events>>

(* dispose fails, and every later stop with it: the process manager keeps  *)
(* the Agent as stopping.                                                  *)
StopFails ==
  /\ work.op = "stop" /\ WakeEnded
  /\ IF proc.held THEN UNCHANGED events ELSE proc.up /\ Fault("stop")
  /\ proc' = [proc EXCEPT !.held = TRUE] /\ work' = NoWork
  /\ LET result == [epoch |-> rec.epoch, phase |-> "failed", seq |-> rec.seq + 1,
                    session |-> NoSession]
     IN /\ rec' = [rec EXCEPT !.seq = @ + 1, !.stopResult = result, !.lastResult = result]
        /\ Answer(result)
  /\ UNCHANGED <<cloudVars, link, commands, reports, retry, restart, wake, callbacks, minted, lost,
                 historyVars>>

ResetCommand(c) ==
  /\ c.step = "reset-workspace" /\ Receive(c)
  /\ IF Stale(c) \/ ~Same(c) \/ rec.stopResult.phase # "stopped" THEN Refuse
     ELSE IF rec.resetResult # NoResult THEN Replay(rec.resetResult)
     ELSE IF rec.phase # "stopped" \/ rec.startResult # NoResult \/ proc.up THEN Refuse
     ELSE LET result == [epoch |-> rec.epoch, phase |-> "workspace-reset", seq |-> rec.seq + 1,
                         session |-> NoSession]
          IN /\ rec' = [rec EXCEPT !.phase = "workspace-reset", !.seq = @ + 1,
                          !.session = NoSession, !.report = {},
                          !.resetResult = result, !.lastResult = result]
             /\ Answer(result) /\ Performs(rec.epoch, 2)
             /\ UNCHANGED <<reports, work, retry, processVars, tries, stranded, refused, outrun,
                            events>>

-----------------------------------------------------------------------------
(* The daemon: Start, its launch and its retries.                          *)

(* #attemptStart writes the record before it launches.  A launch that      *)
(* meets a wake under way joins it.                                        *)
Attempt(r, epoch, session, attempt) ==
  /\ rec' = [r EXCEPT !.epoch = epoch, !.phase = "starting", !.launch = epoch, !.report = {}]
  /\ work' = [op |-> IF wake = "no" THEN "launch" ELSE "join", asked |-> session,
              session |-> session, attempt |-> attempt]
  /\ tries' = [tries EXCEPT ![epoch] = @ + 1]

Started(r) == [epoch |-> r.epoch, phase |-> "started", seq |-> r.seq + 1, session |-> r.session]
StartResult(r) == [r EXCEPT !.phase = "running", !.seq = @ + 1,
                            !.startResult = Started(r), !.lastResult = Started(r)]

RetrySuperseded(c) == rec.phase = "starting" /\ rec.epoch < c.epoch /\ retry.state = "armed"

(* Mutant of Uncompleted: a Start that used up its attempts is begun anew. *)
UncompletedUnlessFailed(c) ==
  \/ Repaired.phase = "stopping"
  \/ Repaired.phase = "starting" /\ ~RetrySuperseded(c)

Uncompleted(c) ==
  \/ Repaired.phase = "stopping"
  \/ Repaired.phase = "starting" /\ ~RetrySuperseded(c)
  \/ Repaired.phase = "failed" /\ Same(c)

OtherSession(c) == c.session # NoSession /\ rec.session # NoSession /\ c.session # rec.session
Rebinds(c) == rec.phase = "running" /\ rec.launch # 0 /\ rec.epoch < c.epoch
RetryOf(c) == IF RetrySuperseded(c) THEN NoRetry ELSE retry

StartBegins(c) ==
  /\ Attempt(IF Same(c) THEN Repaired ELSE NoRecord, c.epoch, c.session, 1)
  /\ retry' = RetryOf(c)
  /\ UNCHANGED <<results, reports, wake, callbacks, minted, lost, performed, stranded, refused,
                 outrun, events>>

(* #rebindRunning: the running process is adopted under the new launch.    *)
Rebind(c) ==
  LET r == StartResult([rec EXCEPT !.epoch = c.epoch, !.launch = c.epoch, !.seq = 0,
                          !.session = proc.session,
                          !.stopResult = NoResult, !.resetResult = NoResult])
  IN /\ rec' = Captured(r) /\ Answer(r.startResult) /\ Report(Captured(r))
     /\ proc' = [proc EXCEPT !.launch = c.epoch] /\ restart' = c.epoch
     /\ Performs(c.epoch, StepCount(c.epoch))
     /\ UNCHANGED <<work, retry, wake, callbacks, minted, lost, tries, stranded, refused, outrun,
                    events>>

AlreadyRunning(c) ==
  /\ Answer([epoch |-> c.epoch, phase |-> "failed", session |-> NoSession,
             seq |-> (IF Same(c) THEN rec.seq ELSE 0) + 1])
  /\ rec' = Repaired /\ retry' = RetryOf(c)
  /\ UNCHANGED <<reports, work, processVars, historyVars, events>>

StartCommand(c) ==
  /\ c.step = "start" /\ Receive(c)
  /\ IF Stale(c) THEN Refuse
     ELSE IF Same(c) /\ rec.startResult # NoResult THEN Replay(rec.startResult)
     ELSE IF Uncompleted(c)
     THEN /\ rec' = Repaired
          /\ refused' = IF rec.phase = "starting" /\ rec.epoch < c.epoch /\ retry.state = "fired"
                        THEN refused \cup {c.epoch} ELSE refused
          /\ UNCHANGED <<results, reports, work, retry, processVars, performed, tries, stranded,
                         outrun, events>>
     ELSE IF ~proc.up THEN StartBegins(c) /\ UNCHANGED <<proc, restart>>
     ELSE IF ~OtherSession(c) THEN IF Rebinds(c) THEN Rebind(c) ELSE AlreadyRunning(c)
     ELSE \/ /\ ~proc.held /\ proc' = NoProcess /\ restart' = 0
             /\ StartBegins(c)
          \/ \* the process of the other session does not stop: nothing is answered
             /\ IF proc.held THEN UNCHANGED events ELSE Fault("stop")
             /\ proc' = [proc EXCEPT !.held = TRUE]
             /\ rec' = Repaired /\ retry' = RetryOf(c)
             /\ UNCHANGED <<results, reports, work, restart, wake, callbacks, minted, lost,
                            historyVars>>

LaunchAuthorized ==
  /\ work.op = "launch" /\ ~proc.held /\ Authorizes(rec.epoch)
  /\ work' = [work EXCEPT !.op = "spawn"]
  /\ UNCHANGED <<cloudVars, wireVars, rec, retry, processVars, historyVars, events>>

(* Only handleAgentStart, not a retry, reports the session after the start.*)
Launch(session) ==
  LET r == StartResult([rec EXCEPT !.session = session]) IN
  /\ rec' = Captured(r) /\ Answer(r.startResult)
  /\ IF work.attempt = 1 THEN Report(Captured(r)) ELSE UNCHANGED reports
  /\ work' = NoWork /\ retry' = NoRetry
  /\ Performs(rec.epoch, StepCount(rec.epoch))
  /\ UNCHANGED <<cloudVars, link, commands, wake, callbacks, tries, stranded, refused, outrun,
                 events>>

Spawned ==
  /\ work.op = "spawn" /\ UNCHANGED lost
  /\ LET session == IF work.session # NoSession THEN work.session ELSE minted + 1 IN
     /\ session \notin lost
     /\ minted' = IF work.session # NoSession THEN minted ELSE minted + 1
     /\ proc' = [up |-> TRUE, held |-> FALSE, launch |-> rec.epoch, session |-> session]
     /\ restart' = rec.epoch
     /\ Launch(session)

JoinedWake ==
  /\ work.op = "join" /\ wake = "no" /\ proc.up
  /\ Launch(proc.session)
  /\ UNCHANGED <<proc, restart, minted, lost>>

(* The provider no longer resumes the session, now or ever: the cloud is   *)
(* told, and a new session is launched instead.                            *)
SessionMissing ==
  /\ work.op = "spawn" /\ work.session # NoSession
  /\ lost' = lost \cup {work.session}
  /\ IF work.session \in lost THEN UNCHANGED events ELSE Fault("missing")
  /\ reports' = reports \cup {[kind |-> "gone", epoch |-> rec.epoch, seq |-> 0,
                               session |-> work.session]}
  /\ work' = [work EXCEPT !.op = "launch", !.session = NoSession]
  /\ UNCHANGED <<cloudVars, link, commands, results, rec, retry, proc, restart, wake, callbacks,
                 minted, historyVars>>

AttemptsLeft == work.attempt < MaxAttempts

(* A failed launch is stopped, then retried after a cooldown until the     *)
(* attempts are used up.                                                   *)
LaunchFailed ==
  /\ work' = NoWork /\ restart' = 0 /\ proc' = NoProcess
  /\ IF AttemptsLeft
     THEN /\ retry' = [state |-> "armed", epoch |-> rec.epoch, session |-> work.asked,
                       attempt |-> work.attempt + 1]
          /\ UNCHANGED <<rec, results>>
     ELSE LET result == [epoch |-> rec.epoch, phase |-> "failed", seq |-> rec.seq + 1,
                         session |-> NoSession]
          IN /\ rec' = [rec EXCEPT !.phase = "failed", !.seq = @ + 1, !.lastResult = result]
             /\ retry' = NoRetry /\ Answer(result)

LaunchRejected ==
  /\ \/ work.op = "launch" /\ ~proc.held /\ ~Authorizes(rec.epoch) /\ UNCHANGED events
     \/ work.op = "join" /\ wake = "no" /\ ~proc.up /\ UNCHANGED events
     \/ work.op = "spawn" /\ Fault("launch")
  /\ LaunchFailed
  /\ UNCHANGED <<cloudVars, link, commands, reports, wake, callbacks, minted, lost, historyVars>>

(* The cleanup does not confirm the exit: no retry and no result.          *)
LaunchUnconfirmed ==
  /\ \/ work.op = "launch" /\ proc.held /\ UNCHANGED events
     \/ work.op = "spawn" /\ Fault("unconfirmed")
  /\ proc' = [proc EXCEPT !.held = TRUE] /\ work' = NoWork
  /\ UNCHANGED <<cloudVars, wireVars, rec, retry, restart, wake, callbacks, minted, lost,
                 historyVars>>

RetryFires ==
  /\ retry.state = "armed" /\ retry' = [retry EXCEPT !.state = "fired"]
  /\ UNCHANGED <<cloudVars, wireVars, rec, work, processVars, historyVars, events>>

RetryRuns ==
  /\ Idle /\ retry.state = "fired" /\ retry' = NoRetry
  /\ IF rec.phase = "starting" /\ rec.epoch = retry.epoch /\ ~proc.up
     THEN Attempt(rec, rec.epoch, retry.session, retry.attempt)
     ELSE UNCHANGED <<rec, work, tries>>
  /\ UNCHANGED <<cloudVars, wireVars, processVars, performed, stranded, refused, outrun, events>>

-----------------------------------------------------------------------------
(* The process: exits and wakes, which the control record hears of later.  *)

ProcessExits ==
  /\ proc.up /\ ~proc.held /\ work.op # "stop" /\ Fault("exit")
  /\ proc' = [proc EXCEPT !.up = FALSE]
  /\ callbacks' = Append(callbacks, [kind |-> "exit", launch |-> proc.launch])
  /\ UNCHANGED <<cloudVars, wireVars, controlVars, restart, wake, minted, lost, historyVars>>

(* A message for an exited Agent launches it again under the launch it ran *)
(* under (serverLaunch).                                                   *)
Wake ==
  /\ restart # 0 /\ ~proc.up /\ ~proc.held /\ wake = "no" /\ Idle
  /\ wake' = "asked"
  /\ UNCHANGED <<cloudVars, wireVars, controlVars, proc, restart, callbacks, minted, lost,
                 historyVars, events>>

WakeAuthorized ==
  /\ wake = "asked"
  /\ wake' = IF Authorizes(restart) /\ work.op # "stop" THEN "spawning" ELSE "no"
  /\ UNCHANGED <<cloudVars, wireVars, controlVars, proc, restart, callbacks, minted, lost,
                 historyVars, events>>

Woken ==
  /\ wake = "spawning" /\ wake' = "no"
  /\ \/ /\ proc' = [proc EXCEPT !.up = TRUE, !.launch = restart]
        /\ callbacks' = Append(callbacks, [kind |-> "wake", launch |-> restart])
        /\ UNCHANGED events
     \/ Fault("launch") /\ UNCHANGED <<proc, callbacks>>
  /\ UNCHANGED <<cloudVars, wireVars, controlVars, restart, minted, lost, historyVars>>

Callback ==
  /\ Idle /\ callbacks # <<>> /\ callbacks' = Tail(callbacks)
  /\ LET c == Head(callbacks)
         next == IF c.kind = "exit" THEN "stopped" ELSE "running"
         known == rec.launch = c.launch
                  /\ rec.phase = IF c.kind = "exit" THEN "running" ELSE "stopped"
     IN /\ rec' = IF known THEN Captured([rec EXCEPT !.phase = next]) ELSE rec
        /\ IF c.kind = "exit" THEN Report(rec') ELSE UNCHANGED reports
  /\ UNCHANGED <<cloudVars, link, commands, results, work, retry, proc, restart, wake, minted, lost,
                 historyVars, events>>

(* AgentSessions.update: the identity is read again when the provider      *)
(* names it and when a turn ends.                                          *)
Updated ==
  /\ Idle /\ rec.phase = "running" /\ rec.launch = proc.launch /\ Fault("turn")
  /\ rec' = Captured([rec EXCEPT !.session = proc.session]) /\ Report(rec')
  /\ UNCHANGED <<cloudVars, link, commands, results, work, retry, processVars, historyVars>>

-----------------------------------------------------------------------------
(* The connection and the daemon's life.                                   *)

Disconnect ==
  /\ Connected /\ Fault("disconnect") /\ link' = "down"
  /\ commands' \in SUBSET commands /\ results' \in SUBSET results
  /\ reports' \in {reports, {r \in reports : r.kind = "gone"}}
  /\ UNCHANGED <<cloudVars, controlVars, processVars, historyVars>>

(* Nothing of the daemon's memory survives; its process is reaped at boot. *)
(* The control channel has no history: what was published is lost with it. *)
Crash ==
  /\ Fault("crash") /\ link' = "boot"
  /\ commands' = {} /\ results' \in SUBSET results
  /\ reports' \in {reports, {}}
  /\ rec' = NoRecord /\ work' = NoWork /\ retry' = NoRetry
  /\ proc' = NoProcess /\ restart' = 0 /\ wake' = "no" /\ callbacks' = <<>>
  /\ tries' = [e \in Epochs |-> 0]
  /\ UNCHANGED <<cloudVars, minted, lost, performed, stranded, refused, outrun>>

(* `ready` names the Agents that run: not one still launching or stopping. *)
(* What a dead daemon sent is answered or lost before the next one is      *)
(* ready: neither its results nor its reports name their daemon.           *)
RunningReported == proc.up /\ ~proc.held /\ wake = "no" /\ work.op \notin {"stop", "join"}

Ready ==
  /\ link \in {"down", "boot"}
  /\ link' = IF RunningReported THEN "running" ELSE "idle"
  /\ IF link = "boot" THEN results' = {} /\ reports' = {} ELSE UNCHANGED <<results, reports>>
  /\ stranded' = IF /\ link = "boot" /\ ctl.controlSequence > 0
                    /\ ctl.phase \in Pending \cup Settled
                 THEN stranded \cup {ctl.epoch} ELSE stranded
  /\ outrun' = IF link = "boot" /\ ctl.sessionSequence > 0 THEN outrun \cup {ctl.epoch} ELSE outrun
  /\ UNCHANGED <<cloudVars, commands, controlVars, processVars, performed, tries, refused, events>>

(* recoverWorkspace, under the runtime lock; then the daemon replays its   *)
(* last result and its session report.                                     *)
Reconcile == \* a stopped Agent that runs is stopped again, outside the lock
  IF link = "running" /\ ctl.epoch < MaxEpoch /\ writer["ready"] = NoWriter
  THEN ReadToBegin("ready", "stop", FALSE) /\ UNCHANGED <<ctl, commands>>
  ELSE UNCHANGED <<ctl, commands, writer>>

(* Mutant of Resent: an unfinished operation is left alone.                *)
NotResent == UNCHANGED commands

Resent == Publish(ctl)

Recover == \* one that does not run is started, or its operation sent again
  IF ctl.phase \in Pending THEN Resent /\ UNCHANGED <<ctl, writer>>
  ELSE IF ctl.phase \in Settled
  THEN /\ ctl' = Advanced(ctl) /\ UNCHANGED writer
       /\ IF ctl'.phase \in Pending THEN Publish(ctl') ELSE UNCHANGED commands
  ELSE IF ctl.epoch < MaxEpoch
  THEN ReadToBegin("lock", "start", TRUE) /\ UNCHANGED <<ctl, commands>>
  ELSE UNCHANGED <<ctl, commands, writer>>

RecoverWorkspace ==
  /\ link \in Handshakes /\ writer["lock"] = NoWriter
  /\ IF stopped THEN Reconcile
     ELSE IF link = "running" THEN UNCHANGED <<ctl, commands, writer>>
     ELSE Recover
  /\ stranded' = IF ctl.phase \in Pending \cup Settled /\ (stopped \/ link = "running")
                 THEN stranded \cup {ctl.epoch} ELSE stranded
  /\ link' = "up"
  /\ results' = IF rec.lastResult = NoResult THEN results ELSE results \cup {rec.lastResult}
  /\ reports' = reports \cup rec.report
  /\ UNCHANGED <<stopped, driver, controlVars, processVars, performed, tries, refused, outrun,
                 events>>

-----------------------------------------------------------------------------
Command == \E c \in commands : StopCommand(c) \/ ResetCommand(c) \/ StartCommand(c)
Arrival == (\E r \in results : Result(r)) \/ (\E s \in reports : Snapshot(s) \/ Invalidate(s))
Launching ==
  \/ LaunchAuthorized \/ Spawned \/ JoinedWake
  \/ SessionMissing \/ LaunchRejected \/ LaunchUnconfirmed
Stopping == StopEnds \/ StopFails
Waking == WakeAuthorized \/ Woken
Owner == Join \/ \E action \in Buttons : Execute(action)
Failure == PublishFails \/ ProcessExits \/ Disconnect \/ Crash

Next ==
  \/ Owner \/ (\E caller \in Callers : Begin(caller))
  \/ Drive \/ DriveTimesOut \/ Advance \/ Arrival
  \/ Command \/ Stopping \/ Launching \/ RetryFires \/ RetryRuns
  \/ Wake \/ Waking \/ Callback \/ Updated
  \/ Ready \/ RecoverWorkspace \/ Failure

Spec == Init /\ [][Next]_vars

(* A request under the lock goes on, a waiter publishes, an RPC is         *)
(* answered, the daemon works its queue off and its timers fire, and a     *)
(* daemon without a connection makes one.  Nobody presses a button.        *)
FairSpec ==
  /\ Spec
  /\ \A caller \in Callers : WF_vars(Begin(caller))
  /\ WF_vars(Drive) /\ WF_vars(Advance) /\ WF_vars(Arrival)
  /\ WF_vars(Command) /\ WF_vars(Stopping) /\ WF_vars(Launching)
  /\ WF_vars(RetryFires) /\ WF_vars(RetryRuns)
  /\ WF_vars(Waking) /\ WF_vars(Callback)
  /\ WF_vars(Ready) /\ WF_vars(RecoverWorkspace)

-----------------------------------------------------------------------------
(* Properties.                                                             *)

(* Every variable keeps the shape of the record it stands for.             *)
TypeOK ==
  /\ ctl \in Operations /\ stopped \in BOOLEAN /\ writer \in [Callers -> Writers]
  /\ driver \in {"off", "new"} \cup Pending
  /\ link \in {"up", "down", "boot"} \cup Handshakes
  /\ commands \subseteq Commands /\ results \subseteq Results /\ reports \subseteq Reports
  /\ rec \in Records /\ work \in Works /\ retry \in Retries
  /\ proc \in Processes /\ restart \in 0..MaxEpoch /\ wake \in {"no", "asked", "spawning"}
  /\ callbacks \in Seq(Callbacks) /\ minted \in Sessions /\ lost \subseteq Sessions
  /\ performed \in [Epochs -> 0..3] /\ tries \in [Epochs -> Nat]
  /\ stranded \subseteq Epochs /\ refused \subseteq Epochs /\ outrun \subseteq 0..MaxEpoch
  /\ events \in 0..MaxEvents

(* Once a Stop has completed the Agent has no process, and no launch under *)
(* way may bring one up, until a newer operation begins: whatever command  *)
(* comes late, message wakes the Agent or retry was armed.                 *)
StoppedStaysDown ==
  ctl.action = "stop" /\ ctl.phase = "completed"
    => ~proc.up /\ work.op # "spawn" /\ wake # "spawning"

(* One daemon makes at most MaxAttempts launches for one Start, however    *)
(* often the Start is sent and whatever supersedes a retry in between.     *)
LaunchAttemptsBounded == \A e \in Epochs : tries[e] <= MaxAttempts

(* When a Start has completed and its launch still runs, the cloud keeps   *)
(* the native session the daemon runs, whatever reports, replays, retries  *)
(* and invalidations cross; but where the operation has a sequence of a    *)
(* dead daemon's, the reports of the next one may be behind it.            *)
SessionsAgree ==
  rec.phase = "running" /\ rec.epoch = ctl.epoch /\ ctl.phase = "completed"
    => ctl.session = rec.session \/ ctl.epoch \in outrun

(* A new operation begins with the session that is current when it is      *)
(* written, also when a report changed it after the operation was read.    *)
SessionCarriedOver == [][ctl'.epoch # ctl.epoch => ctl'.session = ctl.session]_vars

(* What an owner sees is the one current operation of AgentOperation: it   *)
(* completes step by step, only after the daemon took each step for it.    *)
Confirmed(op) ==
  CASE op.phase \in {"stopping", "failed"} -> 0
    [] op.phase = "stopped"   -> 1
    [] op.phase = "clearing"  -> 1
    [] op.phase = "workspace-reset" -> 2
    [] op.phase = "starting"  -> Len(Chain(op.action)) - 1
    [] op.phase = "completed" -> Len(Chain(op.action))
Taken == IF ctl.phase = "failed" \/ ctl.epoch = 0 THEN 0 ELSE performed[ctl.epoch]
Outcome == IF ctl.phase \in Terminal THEN ctl.phase ELSE "pending"
Operation == INSTANCE AgentOperation WITH
  epoch <- ctl.epoch, action <- ctl.action, confirmed <- Confirmed(ctl),
  taken <- Taken, outcome <- Outcome
ImplementsOperation == Operation!Spec

(* An operation ends or is replaced, if the daemon stays or comes back.    *)
(* Left to the owner's next press are: one whose publication failed; one a *)
(* `ready` sends nothing for, because the Agent runs or is stopped; one    *)
(* with a step taken by an earlier daemon, whose record and sequence the   *)
(* next one does not have; a Start refused while a fired retry waits; and  *)
(* an Agent whose process will not stop.                                   *)
Ended(e) == ctl.epoch # e \/ ctl.phase \in Terminal
OperationEnds ==
  \A e \in Epochs : ctl.epoch = e ~> Ended(e) \/ e \in stranded \cup refused \/ proc.held
=============================================================================
