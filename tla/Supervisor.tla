------------------------------ MODULE Supervisor ------------------------------
(***************************************************************************)
(* The Coordinator of a Computer and one Workspace it manages: the         *)
(* lifecycle queue (supervisor/machine-supervisor.ts), its registry file   *)
(* (binding-store.ts), the OS unit the Workspace daemon runs in with its   *)
(* health latch (run-supervisor.ts, systemd-workspace-instance.ts,         *)
(* workspace-health-journal.ts), and the Coordinator's own end and start.  *)
(*                                                                         *)
(* An operator's command is named by its sequence number. Lifecycle work   *)
(* runs one piece at a time; `work` is the piece under way at the await it *)
(* is in. A stop writes its intent outside of that queue, and a stop or a  *)
(* configure aborts the start or restart under way.                        *)
(***************************************************************************)
EXTENDS Naturals, Sequences, FiniteSets

CONSTANTS
  Operations,  \* commands an operator may give
  MaxRequests, \* bound: commands
  Events,      \* the kinds of failure that may happen
  MaxEvents    \* bound: how many of them in one behaviour

ASSUME SupervisorBounds ==
  /\ Operations \subseteq {"start", "stop", "restart", "configure"}
  /\ Events \subseteq {"store", "stop", "unready", "exit", "park", "crash", "shutdown"}
  /\ MaxRequests \in Nat \ {0} /\ MaxEvents \in Nat

Requests == 1..MaxRequests

VARIABLES
  asked,  \* the commands given, and what became of them
  disk,   \* the Workspace's binding in bindings.json
  mem,    \* what the Coordinator keeps in memory
  queue,  \* lifecycle work waiting for its turn
  work,   \* the lifecycle work under way
  unit,   \* the OS unit: its live instance, and the Workspace's health
  lapsed, \* history: a recovery at the Coordinator's start failed
  events  \* failures so far

vars == <<asked, disk, mem, queue, work, unit, lapsed, events>>

NoRestart == [id |-> 0, phase |-> "none", prev |-> 0]
Registered == [enabled   |-> TRUE,
               restart   |-> NoRestart,
               completed |-> [r \in Requests |-> 0],
               cancelled |-> {},
               failure   |-> 0]
Idle == [kind |-> "none", n |-> 0, at |-> "idle", copy |-> Registered,
         goal |-> NoRestart, found |-> 0, tracked |-> FALSE, aborted |-> FALSE]

(* A Coordinator that starts: it opens its RPC once it has recovered.      *)
Booted(binding) == [bindings |-> binding, reload |-> FALSE, superseded |-> 0,
                    stopIntent |-> 0, unwritten |-> {}, adopted |-> 0,
                    serving |-> FALSE, closing |-> FALSE]
Item(kind, n) == [kind |-> kind, n |-> n]

Init ==
  /\ asked = <<>>
  /\ disk = Registered
  /\ mem = Booted(Registered)
  /\ queue = <<Item("recover", 0)>>
  /\ work = Idle
  /\ unit = [live |-> 0, last |-> 0, held |-> FALSE, health |-> "ok"]
  /\ lapsed = FALSE
  /\ events = 0

Fault(kind) == kind \in Events /\ events < MaxEvents /\ events' = events + 1

-----------------------------------------------------------------------------
(* Bindings *)

(* Mutant of Finished: only a cancelled restart has had its end.           *)
FinishedIfCancelled(b, id) == id \in b.cancelled

Finished(b, id) == id \in b.cancelled \/ b.completed[id] # 0

(* `cancelledRestartResults`, and the restart it closes *)
Cancelled(b) ==
  IF b.restart = NoRestart THEN b
  ELSE [b EXCEPT !.restart = NoRestart, !.cancelled = @ \cup {b.restart.id}]

(* `stopped` *)
Stopped(b) == [Cancelled(b) EXCEPT !.enabled = FALSE]

(* Mutant of Kept: older work saves what it copied before the stop.        *)
KeptAsAsked(b) == b

(* A save keeps a Workspace stopped whose stop is still to have its turn.  *)
Kept(b) == IF mem.stopIntent # 0 THEN Stopped(b) ELSE b

(* `validateBindings` *)
Valid(b) ==
  /\ b.restart # NoRestart => b.enabled /\ ~Finished(b, b.restart.id)
  /\ \A r \in b.cancelled : b.completed[r] = 0

(* `#reloadIfRequired` *)
Current == IF mem.reload THEN disk ELSE mem.bindings
Refreshed == [mem EXCEPT !.bindings = Current, !.reload = FALSE]

-----------------------------------------------------------------------------
(* The end of a piece of work, and a save in the middle of one *)

Failures == {"failed", "crossed"}

(* A command's result is its answer, or, once its deadline has answered, a *)
(* failure to record. A stop ends its hold over the Workspace.             *)
Ends(result, m) ==
  /\ work' = Idle
  /\ asked' = IF work.kind = "command" THEN [asked EXCEPT ![work.n].end = result]
              ELSE asked
  /\ mem' = [m EXCEPT !.stopIntent = IF work.kind = "command" /\ @ = work.n THEN 0 ELSE @,
                      !.serving = @ \/ work.kind = "recover"]
  /\ queue' = IF work.kind = "command" /\ result \in Failures /\ asked[work.n].early
              THEN Append(queue, Item("failure", work.n)) ELSE queue
  /\ lapsed' = (lapsed \/ (work.kind = "recover" /\ result # "ok"))

Goes(w) == work' = w /\ UNCHANGED <<asked, mem, queue, lapsed>>
GoesTo(at) == Goes([work EXCEPT !.at = at])

(* `#saveBinding`: a failed save may have replaced the file, so the next   *)
(* mutation reads it again. A registry that is not valid is not written.   *)
Saves(b, w) ==
  \/ /\ Valid(Kept(b))
     /\ disk' = Kept(b)
     /\ mem' = [mem EXCEPT !.bindings = Kept(b)]
     /\ work' = [w EXCEPT !.copy = Kept(b)]
     /\ UNCHANGED <<asked, queue, lapsed, events>>
  \/ /\ IF Valid(Kept(b)) THEN Fault("store") /\ disk' \in {disk, Kept(b)}
        ELSE UNCHANGED <<disk, events>>
     /\ Ends("failed", [mem EXCEPT !.reload = TRUE])
SavesThen(b, at) == Saves(b, [work EXCEPT !.at = at])

-----------------------------------------------------------------------------
(* Commands *)

Ids == {asked[n].id : n \in DOMAIN asked} \ {0}

(* `command` and `configure`, up to their first await. A stop or configure *)
(* takes over what was asked before it, and aborts it if it is under way.  *)
(* The id of a restart is its caller's: a replay repeats an earlier one.   *)
Request(op) ==
  LET n == Len(asked) + 1
      takesOver == op \in {"stop", "configure"}
  IN /\ mem.serving /\ n \in Requests /\ op \in Operations
     /\ \E id \in IF op = "restart" THEN {n} \cup Ids ELSE {0} :
          asked' = Append(asked, [op |-> op, id |-> id, early |-> FALSE,
                                  end |-> "open", born |-> unit.last])
     /\ mem' = [mem EXCEPT !.superseded = IF takesOver THEN n ELSE @,
                           !.stopIntent = IF op = "stop" THEN n ELSE @,
                           !.unwritten = IF op = "stop" THEN @ \cup {n} ELSE @]
     /\ work' = [work EXCEPT !.aborted = @ \/ (takesOver /\ work.tracked)]
     /\ queue' = Append(queue, Item("command", n))
     /\ UNCHANGED <<disk, unit, lapsed, events>>

(* `#persistStopIntent`: written ahead of the stop's turn, or the stop     *)
(* fails and lets go of the Workspace.                                     *)
SaveIntent(n) ==
  LET b == IF mem.stopIntent # 0 THEN Stopped(Current) ELSE Current
      written == mem.unwritten \ {n}
  IN /\ n \in mem.unwritten /\ \A m \in written : n < m
     /\ \/ /\ disk' = b
           /\ mem' = [Refreshed EXCEPT !.bindings = b, !.unwritten = written]
           /\ UNCHANGED <<asked, events>>
        \/ /\ Fault("store") /\ disk' \in {disk, b}
           /\ mem' = [Refreshed EXCEPT !.reload = TRUE, !.unwritten = written,
                        !.stopIntent = IF @ = n THEN 0 ELSE @]
           /\ asked' = [asked EXCEPT ![n].end = "failed"]
     /\ UNCHANGED <<queue, work, unit, lapsed>>

(* `#answerBy`: the deadline of a command comes before its end. A stop is  *)
(* not answered before its intent is written.                              *)
AnswerEarly(n) ==
  /\ asked[n].end = "open" /\ ~asked[n].early /\ n \notin mem.unwritten
  /\ asked' = [asked EXCEPT ![n].early = TRUE]
  /\ UNCHANGED <<disk, mem, queue, work, unit, lapsed, events>>

-----------------------------------------------------------------------------
(* The lifecycle queue *)

(* A stop whose intent was not written fails when its turn comes.          *)
TakeTurn ==
  /\ work = Idle /\ queue # <<>>
  /\ LET item == Head(queue)
         begun(at) == [Idle EXCEPT !.kind = item.kind, !.n = item.n, !.at = at,
                                   !.copy = Current]
         first == CASE item.kind = "failure"  -> "record"
                    [] item.kind = "recover"  -> "reconcile"
                    [] item.kind = "shutdown" -> "close"
                    [] OTHER -> CASE asked[item.n].op = "stop"      -> "mark"
                                  [] asked[item.n].op = "configure" -> "stop"
                                  [] OTHER                          -> "check"
     IN /\ item.n \notin mem.unwritten
        /\ queue' = Tail(queue)
        /\ IF item.kind = "command" /\ asked[item.n].end # "open"
           THEN UNCHANGED <<work, mem>>
           ELSE /\ work' = begun(first)
                /\ mem' = IF item.kind = "shutdown" THEN mem ELSE Refreshed
  /\ UNCHANGED <<asked, disk, unit, lapsed, events>>

At(at) == work.at = at
Operation == IF work.kind = "command" THEN asked[work.n].op ELSE work.kind
Id == asked[work.n].id

StoppedUnit == [unit EXCEPT !.live = 0, !.held = FALSE]
Forgets == [mem EXCEPT !.adopted = 0]

(* Mutant of StopUnit: only an instance this Coordinator adopted is        *)
(* stopped.                                                                *)
StopAdoptedUnit ==
  /\ At("stop")
  /\ \/ /\ unit' = IF Operation = "configure" THEN [StoppedUnit EXCEPT !.health = "ok"]
                   ELSE IF mem.adopted = 0 THEN unit ELSE StoppedUnit
        /\ mem' = Forgets
        /\ work' = [work EXCEPT !.at = IF Operation = "configure" THEN "attach" ELSE "settle"]
        /\ UNCHANGED <<asked, queue, lapsed, events>>
     \/ Fault("stop") /\ Ends("failed", mem) /\ UNCHANGED unit
  /\ UNCHANGED disk

(* `stop`: saved as stopped, then the OS unit is stopped. A recovery stops *)
(* the unit of a stopped binding, a configure any unit before it saves; it *)
(* then lifts every latch.                                                 *)
Mark == At("mark") /\ SavesThen(Stopped(work.copy), "stop") /\ UNCHANGED unit

StopUnit ==
  /\ At("stop")
  /\ \/ /\ unit' = IF Operation = "configure" THEN [StoppedUnit EXCEPT !.health = "ok"]
                   ELSE StoppedUnit
        /\ mem' = Forgets
        /\ work' = [work EXCEPT !.at = IF Operation = "configure" THEN "attach" ELSE "settle"]
        /\ UNCHANGED <<asked, queue, lapsed, events>>
     \/ Fault("stop") /\ Ends("failed", mem) /\ UNCHANGED unit
  /\ UNCHANGED disk

(* The rest of `configure`: an unfinished restart is closed, and the       *)
(* Workspace starts under its new configuration.                           *)
Attach ==
  /\ At("attach") /\ UNCHANGED unit
  /\ Saves([Cancelled(work.copy) EXCEPT !.enabled = TRUE, !.failure = 0],
           [work EXCEPT !.at = "launch", !.tracked = TRUE])

(* `#command` for a start or restart: refused when the Workspace is parked *)
(* or a later stop or configure took it over; a restart that was never     *)
(* begun is then recorded as cancelled.                                    *)
Check ==
  /\ At("check")
  /\ \/ /\ unit.health = "parked"
        /\ Ends("refused", mem) /\ UNCHANGED <<disk, events>>
     \/ /\ unit.health # "parked" /\ mem.superseded > work.n
        /\ IF Operation = "restart" /\ work.copy.restart.id # Id /\ ~Finished(work.copy, Id)
           THEN SavesThen([work.copy EXCEPT !.cancelled = @ \cup {Id}], "refuse")
           ELSE Ends("refused", mem) /\ UNCHANGED <<disk, events>>
     \/ /\ unit.health # "parked" /\ mem.superseded <= work.n
        /\ Goes([work EXCEPT !.at = "clear", !.tracked = TRUE]) /\ UNCHANGED <<disk, events>>
  /\ UNCHANGED unit

Refuse == At("refuse") /\ Ends("refused", mem) /\ UNCHANGED <<disk, unit, events>>

(* `#startForOperator`: an operator's command lifts the crash latch.       *)
ClearHealth ==
  /\ At("clear")
  /\ unit' = [unit EXCEPT !.health = IF @ = "degraded" THEN "ok" ELSE @]
  /\ GoesTo("begin") /\ UNCHANGED <<disk, events>>

(* Mutant of Progress: saved in a phase that no step goes on from.         *)
ProgressHolding(id) == [id |-> id, phase |-> "holding", prev |-> unit.live]

(* Mutant of Progress: the instance to replace is not remembered.          *)
ProgressWithoutPrevious(id) == [id |-> id, phase |-> "stopping", prev |-> 0]

Progress(id) == [id |-> id, phase |-> "stopping", prev |-> unit.live]

Begin ==
  /\ At("begin")
  /\ LET b == work.copy
     IN \/ /\ Operation = "restart" /\ Finished(b, Id)
           /\ IF Id \in b.cancelled THEN Ends("refused", mem) ELSE GoesTo("settle")
           /\ UNCHANGED <<disk, events>>
        \/ /\ Operation = "restart" /\ ~Finished(b, Id) /\ b.restart = NoRestart
           /\ SavesThen([b EXCEPT !.enabled = TRUE, !.restart = Progress(Id)], "advance")
        \/ /\ Operation = "restart" /\ ~Finished(b, Id) /\ b.restart # NoRestart
           /\ IF b.restart.id = Id THEN GoesTo("advance") ELSE Ends("failed", mem)
           /\ UNCHANGED <<disk, events>>
        \/ /\ Operation = "start" /\ b.restart # NoRestart
           /\ GoesTo("advance") /\ UNCHANGED <<disk, events>>
        \/ /\ Operation = "start" /\ b.restart = NoRestart
           /\ SavesThen([b EXCEPT !.enabled = TRUE], "launch")
  /\ UNCHANGED unit

-----------------------------------------------------------------------------
(* `#advanceRestart` *)

(* A stop that arrived while the restart was being saved has left no       *)
(* restart to advance: the TypeError is a failure like any other. Only an  *)
(* instance the restart has to replace is held and stopped.                *)
Advance ==
  /\ At("advance")
  /\ LET goal == work.copy.restart
         next(at) == Goes([work EXCEPT !.at = at, !.goal = goal])
         replaced == unit.live \notin {0, goal.prev}
     IN \/ /\ goal = NoRestart
           /\ Ends("crossed", mem) /\ UNCHANGED <<disk, unit, events>>
        \/ /\ goal.phase = "starting"
           /\ next("launch") /\ UNCHANGED <<disk, unit, events>>
        \/ /\ goal.phase = "stopping" /\ replaced
           /\ Saves([work.copy EXCEPT !.restart.phase = "starting"],
                    [work EXCEPT !.at = "launch", !.goal = goal])
           /\ UNCHANGED unit
        \/ /\ goal.phase = "stopping" /\ ~replaced /\ unit.live # 0
           /\ unit' = [unit EXCEPT !.held = TRUE]
           /\ next("hold") /\ UNCHANGED <<disk, events>>
        \/ /\ goal.phase = "stopping" /\ unit.live = 0
           /\ IF work.aborted THEN Ends("refused", mem) ELSE next("halt")
           /\ UNCHANGED <<disk, unit, events>>

(* The hold is asked again while Agents are busy, so an instance that      *)
(* replaces the held one in the meantime is held as well.                  *)
HoldAgain ==
  /\ At("hold") /\ unit.live # 0 /\ ~unit.held
  /\ unit' = [unit EXCEPT !.held = TRUE]
  /\ UNCHANGED <<asked, disk, mem, queue, work, lapsed, events>>

(* The Agents are idle, or the hold has lasted long enough.                *)
Drained ==
  /\ At("hold")
  /\ IF work.aborted THEN Ends("refused", mem) ELSE GoesTo("halt")
  /\ UNCHANGED <<disk, unit, events>>

(* A daemon that could not be stopped is released.                         *)
Halt ==
  /\ At("halt")
  /\ \/ /\ unit' = StoppedUnit
        /\ mem' = Forgets
        /\ work' = [work EXCEPT !.at = "halted"]
        /\ UNCHANGED <<asked, queue, lapsed, events>>
     \/ /\ Fault("stop") /\ Ends("failed", mem)
        /\ unit' = [unit EXCEPT !.held = FALSE]
  /\ UNCHANGED disk

Halted ==
  /\ At("halted")
  /\ SavesThen([work.copy EXCEPT !.restart.phase = "starting"], "launch")
  /\ UNCHANGED unit

(* The rest of `#advanceRestart`, once the start has returned.             *)
Finish ==
  /\ At("finish")
  /\ IF work.found = work.goal.prev
     THEN Ends("failed", mem) /\ UNCHANGED <<disk, events>>
     ELSE SavesThen([work.copy EXCEPT !.restart = NoRestart,
                                      !.completed[work.goal.id] = work.found], "settle")
  /\ UNCHANGED unit

-----------------------------------------------------------------------------
(* `#start` and the process port *)

Started(instance) ==
  [work EXCEPT !.at = IF work.goal = NoRestart THEN "settle" ELSE "finish",
               !.found = instance]

(* An instance this Coordinator adopted and still sees is kept as it is.   *)
Launch ==
  /\ At("launch")
  /\ IF mem.adopted # 0 /\ unit.live = mem.adopted
     THEN Goes(Started(unit.live))
     ELSE IF work.aborted THEN Ends("refused", Forgets)
          ELSE /\ work' = [work EXCEPT !.at = "ensure"] /\ mem' = Forgets
               /\ UNCHANGED <<asked, queue, lapsed>>
  /\ UNCHANGED <<disk, unit, events>>

(* `ensureStarted`: a degraded Workspace fails at once; one that parked    *)
(* after the check exits again as it starts; a live unit is adopted.       *)
Ensure ==
  /\ At("ensure")
  /\ LET instance == IF unit.live # 0 THEN unit.live ELSE unit.last + 1
     IN \/ /\ unit.health = "degraded"
           /\ Ends("failed", mem) /\ UNCHANGED <<unit, events>>
        \/ /\ unit.health = "parked"
           /\ \E result \in {"failed", "refused"} : Ends(result, mem)
           /\ UNCHANGED <<unit, events>>
        \/ /\ unit.health = "ok"
           /\ unit' = [unit EXCEPT !.live = instance,
                         !.last = IF instance > @ THEN instance ELSE @]
           /\ Goes([work EXCEPT !.at = "ready", !.found = instance])
           /\ UNCHANGED events
        \/ /\ unit.health = "ok" /\ Fault("unready")
           /\ Ends("failed", mem) /\ UNCHANGED unit
  /\ UNCHANGED disk

(* The wait for the handshake, where a takeover is noticed.                *)
Ready ==
  /\ At("ready")
  /\ \/ /\ work.aborted /\ Ends("refused", mem) /\ UNCHANGED events
     \/ /\ ~work.aborted /\ unit.live = work.found
        /\ \/ GoesTo("answered") /\ UNCHANGED events
           \/ Fault("unready") /\ Ends("failed", mem)
     \/ /\ ~work.aborted /\ unit.live # work.found
        /\ Ends(IF unit.health = "parked" THEN "refused" ELSE "failed", mem)
        /\ UNCHANGED events
  /\ UNCHANGED <<disk, unit>>

(* The identity is read once more; a takeover is no longer noticed.        *)
Answered ==
  /\ At("answered")
  /\ IF unit.live = work.found
     THEN /\ work' = Started(work.found) /\ mem' = [mem EXCEPT !.adopted = work.found]
          /\ UNCHANGED <<asked, queue, lapsed>>
     ELSE Ends(IF unit.health = "parked" THEN "refused" ELSE "failed", mem)
  /\ UNCHANGED <<disk, unit, events>>

(* `#clearFailure`, then the end *)
Settle ==
  /\ At("settle")
  /\ IF mem.bindings.failure # 0
     THEN SavesThen([mem.bindings EXCEPT !.failure = 0], "done")
     ELSE Ends("ok", mem) /\ UNCHANGED <<disk, events>>
  /\ UNCHANGED unit
Done == At("done") /\ Ends("ok", mem) /\ UNCHANGED <<disk, unit, events>>

(* `#failedAfterAnswer` *)
Record ==
  /\ At("record")
  /\ SavesThen([work.copy EXCEPT !.failure = work.n], "done")
  /\ UNCHANGED unit

(* Mutant of Reconcile: a stopped Workspace is started as well.            *)
ReconcileAll ==
  /\ At("reconcile")
  /\ \/ unit.health = "parked" /\ Ends("ok", mem)
     \/ /\ unit.health # "parked"
        /\ Goes([work EXCEPT !.tracked = TRUE,
                   !.at = IF work.copy.restart # NoRestart THEN "advance" ELSE "launch"])
  /\ UNCHANGED <<disk, unit, events>>

(* Mutant of Reconcile: an unfinished restart is only started.             *)
ReconcileStarts ==
  /\ At("reconcile")
  /\ \/ ~work.copy.enabled /\ GoesTo("stop")
     \/ work.copy.enabled /\ unit.health = "parked" /\ Ends("ok", mem)
     \/ /\ work.copy.enabled /\ unit.health # "parked"
        /\ Goes([work EXCEPT !.tracked = TRUE, !.at = "launch"])
  /\ UNCHANGED <<disk, unit, events>>

(* `#reconcileBindings` at the Coordinator's start                         *)
Reconcile ==
  /\ At("reconcile")
  /\ \/ ~work.copy.enabled /\ GoesTo("stop")
     \/ work.copy.enabled /\ unit.health = "parked" /\ Ends("ok", mem)
     \/ /\ work.copy.enabled /\ unit.health # "parked"
        /\ Goes([work EXCEPT !.tracked = TRUE,
                   !.at = IF work.copy.restart # NoRestart THEN "advance" ELSE "launch"])
  /\ UNCHANGED <<disk, unit, events>>

-----------------------------------------------------------------------------
(* The Coordinator's end, and failures *)

Boots ==
  /\ asked' = [n \in DOMAIN asked |->
                 IF asked[n].end = "open" THEN [asked[n] EXCEPT !.end = "lost"] ELSE asked[n]]
  /\ mem' = Booted(disk)
  /\ queue' = <<Item("recover", 0)>>
  /\ work' = Idle
  /\ UNCHANGED <<disk, unit, lapsed>>

(* SIGTERM: the unit is stopped once the work queued so far is done, and   *)
(* the process ends a little later; the work behind may still begin.       *)
Shutdown ==
  /\ mem.serving /\ ~mem.closing /\ Fault("shutdown")
  /\ mem' = [mem EXCEPT !.closing = TRUE]
  /\ queue' = Append(queue, Item("shutdown", 0))
  /\ UNCHANGED <<asked, disk, work, unit, lapsed>>

Close ==
  /\ At("close")
  /\ \/ unit' = StoppedUnit /\ Ends("ok", Forgets) /\ UNCHANGED events
     \/ Fault("stop") /\ Ends("failed", mem) /\ UNCHANGED unit
  /\ UNCHANGED disk

Closing == mem.closing /\ ~At("close") /\ Item("shutdown", 0) \notin {queue[i] : i \in DOMAIN queue}
Exit == Closing /\ Boots /\ UNCHANGED events

Crash == Fault("crash") /\ Boots

(* The Workspace daemon dies: the OS starts it again, or its own guard     *)
(* latches the Workspace degraded and it stays down.                       *)
UnitExit ==
  /\ unit.live # 0 /\ Fault("exit")
  /\ unit' \in {[unit EXCEPT !.live = unit.last + 1, !.last = @ + 1, !.held = FALSE],
                [StoppedUnit EXCEPT !.health = "degraded"]}
  /\ UNCHANGED <<asked, disk, mem, queue, work, lapsed>>

(* The cloud refuses the Workspace for good: it parks and exits.           *)
Park ==
  /\ unit.live # 0 /\ Fault("park")
  /\ unit' = [StoppedUnit EXCEPT !.health = "parked"]
  /\ UNCHANGED <<asked, disk, mem, queue, work, lapsed>>

-----------------------------------------------------------------------------
Work ==
  \/ Mark \/ StopUnit \/ Attach \/ Check \/ Refuse \/ ClearHealth \/ Begin
  \/ Advance \/ Drained \/ Halt \/ Halted \/ Finish
  \/ Launch \/ Ensure \/ Ready \/ Answered \/ Settle \/ Done \/ Record
  \/ Reconcile \/ Close

Next ==
  \/ \E op \in Operations : Request(op)
  \/ \E n \in DOMAIN asked : SaveIntent(n) \/ AnswerEarly(n)
  \/ TakeTurn \/ Work \/ HoldAgain
  \/ Shutdown \/ Exit \/ Crash \/ UnitExit \/ Park

Spec == Init /\ [][Next]_vars

(* The event loop resumes what it awaits, and a process that closes ends.  *)
FairSpec ==
  /\ Spec
  /\ WF_vars(TakeTurn) /\ WF_vars(Work) /\ WF_vars(Exit)
  /\ WF_vars(\E n \in DOMAIN asked : SaveIntent(n))
-----------------------------------------------------------------------------
(* Properties *)

Restarts == {NoRestart} \cup [id : Requests, phase : {"stopping", "starting"}, prev : Nat]
Bindings == [enabled : BOOLEAN, restart : Restarts, completed : [Requests -> Nat],
             cancelled : SUBSET Requests, failure : 0..MaxRequests]
Commands == [op : Operations, id : 0..MaxRequests, early : BOOLEAN, born : Nat,
             end : {"open", "ok", "refused", "lost"} \cup Failures]
Memories == [bindings : Bindings, reload : BOOLEAN, superseded : 0..MaxRequests,
             stopIntent : 0..MaxRequests, unwritten : SUBSET Requests, adopted : Nat,
             serving : BOOLEAN, closing : BOOLEAN]
Kinds == {"command", "failure", "recover", "shutdown"}
Items == [kind : Kinds, n : 0..MaxRequests]
Places == {"idle", "record", "reconcile", "close", "mark", "stop", "attach", "check", "refuse",
           "clear", "begin", "advance", "hold", "halt", "halted", "launch", "ensure", "ready",
           "answered", "finish", "settle", "done"}
Works == [kind : {"none"} \cup Kinds, n : 0..MaxRequests, at : Places, copy : Bindings,
          goal : Restarts, found : Nat, tracked : BOOLEAN, aborted : BOOLEAN]
Units == [live : Nat, last : Nat, held : BOOLEAN, health : {"ok", "degraded", "parked"}]

TypeOK ==
  /\ asked \in Seq(Commands) /\ Len(asked) <= MaxRequests
  /\ disk \in Bindings
  /\ mem \in Memories
  /\ queue \in Seq(Items)
  /\ work \in Works
  /\ unit \in Units
  /\ lapsed \in BOOLEAN /\ events \in 0..MaxEvents

Told(n) == asked[n].early \/ asked[n].end = "ok"
OnlyStopsAfter(n) == \A m \in DOMAIN asked : m > n => asked[m].op = "stop"

(* "A stop is persisted before it answers, so a Coordinator that dies      *)
(* before the stop's turn comes back with the Workspace stopped": until    *)
(* another command is given, no save of older work enables it again. A     *)
(* later stop that fails lets go of what an earlier one held.              *)
StopHolds ==
  \A n \in DOMAIN asked :
    asked[n].op = "stop" /\ Told(n) /\ OnlyStopsAfter(n)
      /\ (\A m \in DOMAIN asked : m > n => asked[m].end \notin Failures)
    => ~disk.enabled /\ disk.restart = NoRestart

(* Once a stop is done the Workspace daemon is down, and neither the work  *)
(* it took over nor a Coordinator that starts again brings it up.          *)
StoppedStaysDown ==
  \A n \in DOMAIN asked :
    asked[n].op = "stop" /\ asked[n].end = "ok" /\ OnlyStopsAfter(n) => unit.live = 0

(* The receipt of a restart names an instance that began after the         *)
(* restart was asked for, across crashes, OS restarts and replays.         *)
RestartReplaces ==
  \A r \in Requests : disk.completed[r] # 0 => disk.completed[r] > asked[r].born

HasReceipt(b, r) == r \in b.cancelled \/ b.completed[r] # 0
NoStopFailed == \A n \in DOMAIN asked : asked[n].op = "stop" => asked[n].end \notin Failures

(* A replay of a finished restart must not restart again: a receipt is     *)
(* not lost or changed by another save, and a finished restart is not      *)
(* taken up again. A cancelled restart that had its instance may still be  *)
(* recorded as completed.                                                  *)
ReceiptsStay ==
  [][NoStopFailed' =>
       \A r \in Requests : HasReceipt(disk, r) =>
         /\ HasReceipt(disk', r) /\ disk'.restart.id # r
         /\ disk.completed[r] # 0 => disk'.completed[r] = disk.completed[r]]_vars

SomeFailed == lapsed \/ \E n \in DOMAIN asked : asked[n].end \in Failures

(* A stop that was answered stops the Workspace, though the Coordinator    *)
(* dies in between, unless its own work or the recovery failed or another  *)
(* command came.                                                           *)
StopTakesEffect ==
  \A n \in Requests :
    (n \in DOMAIN asked /\ asked[n].op = "stop" /\ Told(n))
      ~> (unit.live = 0 \/ ~OnlyStopsAfter(n) \/ SomeFailed)

(* A restart that was recorded ends with a receipt, whoever has to finish  *)
(* it, unless a failure or a park leaves it for the operator.              *)
RestartEnds ==
  \A r \in Requests :
    disk.restart.id = r ~> HasReceipt(disk, r) \/ SomeFailed \/ unit.health = "parked"

(* The daemon a restart holds, to replace it, is replaced or released: no  *)
(* Agent waits behind a hold nobody will lift.                             *)
HoldIsLifted ==
  unit.held /\ disk.restart.prev = unit.live ~> ~unit.held \/ SomeFailed
=============================================================================
