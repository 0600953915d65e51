---------------------------- MODULE ComputerUpgrade ----------------------------
(***************************************************************************)
(* The upgrade of a Computer: the upgrade job, a process of its own that   *)
(* switches the installed version (release/upgrade-coordinator.ts,         *)
(* upgrade-lifecycle.ts, updater.ts), and the Coordinator it stops and     *)
(* starts, which launches no Workspace while it finds the launch hold at   *)
(* its start (supervisor/held-upgrade-recovery.ts, run-supervisor.ts).     *)
(*                                                                         *)
(* The two share files only: the launch hold, the receipt, the installed   *)
(* version, and the mark of a running Coordinator. Upgrade r installs      *)
(* version r + 1; version 1 runs first, and 0 is the one before it. The    *)
(* Computer has one Workspace, which is enabled.                           *)
(***************************************************************************)
EXTENDS Naturals, Sequences

CONSTANTS
  Kinds,       \* "remote" and "cli" upgrades, and "rollback" from the CLI
  MaxUpgrades, \* bound: upgrades asked for
  Events,      \* the kinds of failure that may happen
  MaxEvents    \* bound: how many of them in one behaviour

ASSUME UpgradeBounds ==
  /\ Kinds \subseteq {"remote", "cli", "rollback"}
  /\ Events \subseteq {"prepare", "launch", "stop", "store", "start", "probe", "workspace",
                       "lost", "job", "crash", "reboot", "expire", "operator"}
  /\ MaxUpgrades \in Nat \ {0} /\ MaxEvents \in Nat

Requests == 1..MaxUpgrades
Versions == 0..(MaxUpgrades + 1)

VARIABLES
  asked,     \* the kind of every upgrade asked for
  waiting,   \* upgrades whose job has not yet tried the lock
  job,       \* the job that has the lock
  manifest,  \* active.json
  link,      \* the version the active link selects
  hold,      \* launch-hold: the request it names, 0 for no file
  receipt,   \* the terminal receipt of every upgrade
  ops,       \* the operations recorded in the binding
  coord,     \* the Coordinator
  owner,     \* supervisor.lock/owner exists
  unit,      \* the Workspace: the version it runs, if it is up
  committed, \* history: the version the last good receipt names
  overlaid,  \* history: a job began under the hold of an earlier upgrade
  events     \* failures so far

vars == <<asked, waiting, job, manifest, link, hold, receipt, ops, coord, owner, unit,
          committed, overlaid, events>>
installed == <<manifest, link>>
requests == <<asked, waiting>>
historyVars == <<committed, overlaid>>
coordinator == <<coord, owner, unit>>

NoJob == [r |-> 0, phase |-> "none", mode |-> "candidate", why |-> "none",
          version |-> 0, previous |-> 0, rollback |-> 0, replaced |-> FALSE]
Running(version) == [up |-> "serving", version |-> version, paused |-> FALSE,
                     held |-> FALSE, request |-> 0, finish |-> "none"]

Init ==
  /\ asked = <<>> /\ waiting = {} /\ job = NoJob
  /\ manifest = [current |-> 1, previous |-> 0] /\ link = 1
  /\ hold = 0
  /\ receipt = [r \in Requests |-> "none"]
  /\ ops = [r \in Requests |-> "none"]
  /\ coord = Running(1) /\ owner = TRUE
  /\ unit = [live |-> TRUE, version |-> 1, held |-> FALSE]
  /\ committed = 1 /\ overlaid = FALSE
  /\ events = 0

Fault(kind) == kind \in Events /\ events < MaxEvents /\ events' = events + 1
NoFault == UNCHANGED events

(* Mutant of Good: a rollback does not release the hold.                   *)
GoodPromoted(result) == result = "succeeded"

(* `terminalAllowsWorkspaceRecovery`: a promoted candidate, or a verified  *)
(* rollback.                                                               *)
Good(result) == result \in {"succeeded", "rolledBack"}

-----------------------------------------------------------------------------
(* The Coordinator's start *)

(* Mutant of BootPaused: the launch hold is not looked for.                *)
BootUnpaused == FALSE

(* A Coordinator born under the launch hold is paused.                     *)
BootPaused == hold # 0

(* `resolveHeldRequestId`: only a recorded operation owns the hold.        *)
HeldRequest == IF hold # 0 /\ ops[hold] # "none" THEN hold ELSE 0

(* It starts as the version the link selects. Without a hold it launches   *)
(* the Workspace; under the hold of an operation that is already settled   *)
(* as good it finishes that one.                                           *)
Boots ==
  /\ coord' = [up |-> "boot", version |-> link, paused |-> BootPaused,
               held |-> BootPaused, request |-> HeldRequest,
               finish |-> IF ~BootPaused THEN "launch"
                          ELSE IF HeldRequest # 0 /\ ops[HeldRequest] = "good" THEN "resume"
                          ELSE "none"]
  /\ owner' = TRUE
  /\ UNCHANGED <<hold, ops, unit>>
Replaced == IF job = NoJob THEN job ELSE [job EXCEPT !.replaced = TRUE]

(* The OS starts a Coordinator that failed, and every one at its boot.     *)
OsStart ==
  /\ coord.up = "failed" /\ Boots
  /\ job' = Replaced
  /\ UNCHANGED <<requests, installed, receipt, historyVars, events>>

(* Someone runs `coforge-computer start`.                                  *)
OperatorStart ==
  /\ coord.up = "stopped" /\ Boots /\ Fault("operator")
  /\ job' = Replaced
  /\ UNCHANGED <<requests, installed, receipt, historyVars>>

(* The local RPC opens once the recovery has come to its end.              *)
Serve ==
  /\ coord.up = "boot" /\ coord.finish = "none"
  /\ coord' = [coord EXCEPT !.up = "serving"]
  /\ UNCHANGED <<requests, job, installed, hold, receipt, ops, owner, unit, historyVars, events>>

-----------------------------------------------------------------------------
(* Requests *)

(* Mutant of Settled: the receipt's own outcome, a word `ops` has not.      *)
SettledAsReceipt(r) == [ops EXCEPT ![r] = receipt[r]]

(* An operation takes its receipt's outcome.                               *)
Settled(r) == [ops EXCEPT ![r] = IF Good(receipt[r]) THEN "good" ELSE "bad"]

Pending(r) == r # 0 /\ ops[r] = "pending"

(* `daemon:upgrade`: `recordUpgrade` refuses while paused, and while       *)
(* another operation is pending that has no receipt yet. A job that could  *)
(* not be launched settles the operation.                                  *)
RequestRemote ==
  LET r == Len(asked) + 1
      blocking == {p \in Requests : Pending(p)}
      opened == [p \in Requests |-> IF p \in blocking THEN Settled(p)[p] ELSE ops[p]]
  IN /\ "remote" \in Kinds /\ r \in Requests
     /\ coord.up = "serving" /\ ~coord.paused /\ coord.finish \in {"none", "clear"}
     /\ \A p \in blocking : receipt[p] # "none"
     /\ asked' = Append(asked, "remote")
     /\ \/ /\ ops' = [opened EXCEPT ![r] = "pending"]
           /\ waiting' = waiting \cup {r} /\ NoFault
        \/ /\ Fault("launch") /\ ops' = [opened EXCEPT ![r] = "bad"]
           /\ UNCHANGED waiting
     /\ UNCHANGED <<job, installed, hold, receipt, coordinator, historyVars>>

(* An upgrade or a rollback from the CLI is recorded nowhere.              *)
RequestCli(kind) ==
  LET r == Len(asked) + 1
  IN /\ kind \in Kinds \ {"remote"} /\ r \in Requests
     /\ asked' = Append(asked, kind) /\ waiting' = waiting \cup {r}
     /\ UNCHANGED <<job, installed, hold, receipt, ops, coordinator, historyVars, events>>

-----------------------------------------------------------------------------
(* The job *)

At(phase) == job.phase = phase
GoesTo(phase) == job' = [job EXCEPT !.phase = phase]

(* The lock is taken and the candidate prepared, or the job ends: another  *)
(* one has the lock, or the candidate could not be had.                    *)
Begin(r) ==
  /\ r \in waiting /\ waiting' = waiting \ {r}
  /\ \/ /\ job = NoJob /\ NoFault
        /\ overlaid' = (overlaid \/ hold # 0)
        /\ job' = [NoJob EXCEPT
                     !.r = r, !.phase = "hold",
                     !.version = IF asked[r] = "rollback" THEN manifest.previous ELSE r + 1,
                     !.previous = manifest.current, !.rollback = manifest.previous]
        /\ UNCHANGED receipt
     \/ /\ IF job # NoJob THEN NoFault ELSE Fault("prepare")
        /\ receipt' = [receipt EXCEPT ![r] = "failed"]
        /\ UNCHANGED <<job, overlaid>>
  /\ UNCHANGED <<asked, installed, hold, ops, coordinator, committed>>

(* `pauseLaunches`: the hold file, whether a Coordinator answers, and its  *)
(* pause.                                                                  *)
WriteHold ==
  /\ At("hold") /\ hold' = job.r /\ GoesTo("identify")
  /\ UNCHANGED <<requests, installed, receipt, ops, coordinator, historyVars, events>>

(* The upgrade is given up before anything was stopped.                    *)
Abandoned(phase) == [job EXCEPT !.phase = phase, !.why = "abandoned"]

(* With no Coordinator running, the enabled Workspace is not healthy, and  *)
(* there is nothing to resume.                                             *)
Identify ==
  /\ At("identify")
  /\ IF coord.up = "serving" THEN GoesTo("pause") ELSE job' = Abandoned("lift")
  /\ UNCHANGED <<requests, installed, hold, receipt, ops, coordinator, historyVars, events>>

(* A pause that fails ends the job: the hold stays.                        *)
Pause ==
  /\ At("pause")
  /\ IF coord.up = "serving"
     THEN /\ coord' = [coord EXCEPT !.paused = TRUE]
          /\ GoesTo("snapshot") /\ UNCHANGED receipt
     ELSE /\ job' = NoJob /\ receipt' = [receipt EXCEPT ![job.r] = "failed"]
          /\ UNCHANGED coord
  /\ UNCHANGED <<requests, installed, hold, ops, owner, unit, historyVars, events>>

(* The Workspace must be running.                                          *)
Snapshot ==
  /\ At("snapshot")
  /\ IF coord.up = "serving" /\ unit.live
     THEN job' = [job EXCEPT !.phase = "quiesce", !.replaced = FALSE]
     ELSE job' = Abandoned("resume")
  /\ UNCHANGED <<requests, installed, hold, receipt, ops, coordinator, historyVars, events>>

(* `holdRunners`: never a failure, it goes on without the hold.            *)
HoldRunners ==
  /\ At("quiesce") /\ GoesTo("stop")
  /\ unit' = [unit EXCEPT !.held = @ \/ (unit.live /\ coord.up = "serving")]
  /\ UNCHANGED <<requests, installed, hold, receipt, ops, coord, owner, historyVars, events>>

(* A failed switch: the previous version is restored. When that fails too, *)
(* the job ends and the hold stays.                                        *)
Fails ==
  IF job.mode = "candidate"
  THEN /\ job' = [job EXCEPT !.mode = "restore", !.phase = "stop"]
       /\ UNCHANGED receipt
  ELSE /\ job' = NoJob
       /\ receipt' = [receipt EXCEPT ![job.r] = "failed"]
Proceeds(phase) == GoesTo(phase) /\ UNCHANGED receipt

(* The version being switched to.                                          *)
Target == IF job.mode = "candidate" THEN job.version ELSE job.previous

(* `stop`: a Coordinator that serves stops the Workspace and removes its   *)
(* mark; it may fail to, or not be stopped at all. One that is not there   *)
(* yet, or any more, leaves the mark, which the job waits for in vain.     *)
StopCoordinator ==
  /\ At("stop")
  /\ \/ /\ coord.up = "serving" /\ coord.finish = "none"
        /\ \/ /\ unit' = [unit EXCEPT !.live = FALSE, !.held = FALSE]
              /\ coord' = [coord EXCEPT !.up = "stopped"] /\ owner' = FALSE
              /\ Proceeds("manifest") /\ NoFault
           \/ /\ Fault("stop") /\ Fails
              /\ coord' \in {coord, [coord EXCEPT !.up = "stopped"]}
              /\ UNCHANGED <<owner, unit>>
     \/ /\ coord.up # "serving" /\ NoFault
        /\ coord' = [coord EXCEPT !.up = "stopped", !.finish = "none"]
        /\ IF owner THEN Fails ELSE Proceeds("manifest")
        /\ UNCHANGED <<owner, unit>>
  /\ UNCHANGED <<requests, installed, hold, ops, historyVars>>

(* `activatePrepared` and `restoreVerified`: active.json, then the link.   *)
(* Reinstalling the running version keeps what it would roll back to.      *)
WriteManifest ==
  /\ At("manifest")
  /\ \/ /\ manifest' =
             [current  |-> Target,
              previous |-> IF job.mode = "restore" \/ job.version = job.previous
                           THEN job.rollback ELSE job.previous]
        /\ Proceeds("link") /\ NoFault
     \/ Fault("store") /\ Fails /\ UNCHANGED manifest
  /\ UNCHANGED <<requests, link, hold, ops, coordinator, historyVars>>

(* The link is renamed before the shim on the PATH, which may fail as well.*)
SwitchLink ==
  /\ At("link")
  /\ \/ link' = Target /\ Proceeds("start") /\ NoFault
     \/ Fault("store") /\ Fails /\ link' \in {link, Target}
  /\ UNCHANGED <<requests, manifest, hold, ops, coordinator, historyVars>>

(* `start`: a Coordinator someone started meanwhile is kept.               *)
StartCoordinator ==
  /\ At("start")
  /\ IF coord.up \in {"stopped", "failed"}
     THEN /\ Boots /\ job' = [job EXCEPT !.phase = "probe", !.replaced = TRUE]
     ELSE GoesTo("probe") /\ UNCHANGED <<hold, ops, coordinator>>
  /\ UNCHANGED <<requests, installed, receipt, historyVars, events>>

Failed == [coord EXCEPT !.up = "failed", !.finish = "none"]

(* Mutant of Healthy: any Coordinator that answers will do.                *)
HealthyAny == coord.up = "serving"

(* A new Coordinator that reports the version switched to.                 *)
Healthy == coord.up = "serving" /\ job.replaced /\ coord.version = Target

(* The start's wait for the handshake, then `probe`. A Coordinator that    *)
(* does not come up hangs, or ends and removes its mark.                   *)
Probe ==
  /\ At("probe")
  /\ \/ Healthy /\ Proceeds("commit") /\ NoFault /\ UNCHANGED <<coord, owner>>
     \/ Healthy /\ Fault("probe") /\ Fails /\ UNCHANGED <<coord, owner>>
     \/ /\ coord.up = "boot" /\ Fault("start") /\ Fails
        /\ \/ UNCHANGED <<coord, owner>>
           \/ coord' = Failed /\ owner' = FALSE
     \/ coord.up # "boot" /\ ~Healthy /\ NoFault /\ Fails /\ UNCHANGED <<coord, owner>>
  /\ UNCHANGED <<requests, installed, hold, ops, unit, historyVars>>

(* The receipt, before any Workspace is launched. A result that could not  *)
(* be written once rolls the candidate back; after a rollback it is        *)
(* written again as the job ends.                                          *)
Commit ==
  LET result == IF job.mode = "candidate" THEN "succeeded" ELSE "rolledBack"
      written == /\ receipt' = [receipt EXCEPT ![job.r] = result]
                 /\ committed' = Target
  IN /\ At("commit")
     /\ \/ written /\ job' = [job EXCEPT !.phase = "resume", !.why = result] /\ NoFault
        \/ Fault("store") /\ job.mode = "candidate" /\ Fails /\ UNCHANGED committed
        \/ Fault("store") /\ job.mode = "restore" /\ written /\ job' = NoJob
     /\ UNCHANGED <<requests, installed, hold, ops, coordinator, overlaid>>

(* Mutant of Ends: a Workspace that did not come back fails the upgrade.   *)
EndsFailed == job' = NoJob /\ receipt' = [receipt EXCEPT ![job.r] = "failed"]

(* The job's end after its attempt to resume. An upgrade given up has its  *)
(* receipt only now; what is committed is not rewritten.                   *)
Ends ==
  /\ job' = NoJob
  /\ receipt' = IF job.why = "abandoned" THEN [receipt EXCEPT ![job.r] = "failed"] ELSE receipt

(* `resumeLaunches`: the runners are released, and the Coordinator resumes *)
(* or, held since its start, finishes the upgrade that owns its hold.      *)
(* Nobody owns the hold of an upgrade from the CLI.                        *)
Resume ==
  /\ At("resume")
  /\ IF coord.up # "serving" THEN Ends /\ UNCHANGED <<coord, unit>>
     ELSE /\ unit' = [unit EXCEPT !.held = FALSE]
          /\ IF coord.held /\ coord.request \notin {0, job.r} THEN Ends /\ UNCHANGED coord
             ELSE /\ coord.held \/ coord.finish = "none"
                  /\ coord' = [coord EXCEPT !.finish =
                                 IF @ # "none" THEN @
                                 ELSE IF coord.held /\ coord.request # 0 THEN "settle"
                                 ELSE "resume"]
                  /\ Proceeds("resuming")
  /\ UNCHANGED <<requests, installed, hold, ops, owner, historyVars, events>>

(* The answer of the resume is lost, or takes too long.                    *)
LoseAnswer ==
  /\ At("resuming") /\ Fault("lost") /\ Ends
  /\ UNCHANGED <<requests, installed, hold, ops, coordinator, historyVars>>

Lift ==
  /\ At("lift") /\ hold' = 0 /\ Ends
  /\ UNCHANGED <<requests, installed, ops, coordinator, historyVars, events>>

(* `#finish` returned, or threw.                                           *)
Answers(ok) ==
  IF ~At("resuming") THEN UNCHANGED <<job, receipt>>
  ELSE IF ok THEN Proceeds("lift") ELSE Ends

-----------------------------------------------------------------------------
(* The Coordinator *)

Up == coord.up \in {"boot", "serving"}

Owns(r) == coord.held /\ coord.request = r

(* The sweep at the start and the watch: a pending operation takes its     *)
(* receipt's outcome, and a good one is finished if it owns the hold and   *)
(* nothing is finishing it yet.                                            *)
WatchReceipt(r) ==
  /\ Up /\ Pending(r) /\ receipt[r] # "none"
  /\ coord.up = "boot" => coord.finish = "none"
  /\ ops' = Settled(r)
  /\ coord' = IF Owns(r) /\ coord.finish = "none" /\ Good(receipt[r])
              THEN [coord EXCEPT !.finish = "resume"] ELSE coord
  /\ UNCHANGED <<requests, job, installed, hold, receipt, owner, unit, historyVars, events>>

(* A pending operation without a receipt is given up after 30 minutes.     *)
Expire(r) ==
  /\ Up /\ Pending(r) /\ receipt[r] = "none" /\ Fault("expire")
  /\ ops' = [ops EXCEPT ![r] = "bad"]
  /\ UNCHANGED <<requests, job, installed, hold, receipt, coordinator, historyVars>>

(* `settle`, for the operation that owns the hold: it must be good.        *)
FinishSettle ==
  LET r == coord.request
      settled == IF Pending(r) /\ receipt[r] # "none" THEN Settled(r) ELSE ops
      ok == settled[r] = "good"
  IN /\ coord.finish = "settle"
     /\ ops' = settled
     /\ coord' = [coord EXCEPT !.finish = IF ok THEN "resume" ELSE "none"]
     /\ IF ok THEN UNCHANGED <<job, receipt>> ELSE Answers(FALSE)
     /\ UNCHANGED <<requests, installed, hold, owner, unit, historyVars, events>>

(* `supervisor.resume`: the pause ends, and the Workspace is launched.     *)
FinishResume ==
  /\ coord.finish = "resume"
  /\ coord' = [coord EXCEPT !.paused = FALSE, !.finish = "launch"]
  /\ UNCHANGED <<requests, job, installed, hold, receipt, ops, owner, unit, historyVars, events>>

(* A Workspace that does not come up fails a plain resume; the finish of a *)
(* held upgrade and the start of the Coordinator go on without it.         *)
FinishLaunch ==
  /\ coord.finish = "launch"
  /\ coord' = [coord EXCEPT !.finish = IF coord.held THEN "clear" ELSE "none"]
  /\ \/ /\ unit' = IF unit.live THEN unit
                    ELSE [live |-> TRUE, version |-> link, held |-> FALSE]
        /\ IF coord.held THEN UNCHANGED <<job, receipt>> ELSE Answers(TRUE)
        /\ NoFault
     \/ /\ ~unit.live /\ Fault("workspace") /\ UNCHANGED unit
        /\ IF coord.held THEN UNCHANGED <<job, receipt>> ELSE Answers(FALSE)
  /\ UNCHANGED <<requests, installed, hold, ops, owner, historyVars>>

FinishClear ==
  /\ coord.finish = "clear"
  /\ hold' = 0
  /\ coord' = [coord EXCEPT !.held = FALSE, !.finish = "none"]
  /\ Answers(TRUE)
  /\ UNCHANGED <<requests, installed, ops, owner, unit, historyVars, events>>

-----------------------------------------------------------------------------
(* Failures of a whole process *)

(* The job is killed, or never starts.                                     *)
JobDies ==
  /\ Fault("job")
  /\ \/ job # NoJob /\ job' = NoJob /\ UNCHANGED waiting
     \/ \E r \in waiting : waiting' = waiting \ {r} /\ UNCHANGED job
  /\ UNCHANGED <<asked, installed, hold, receipt, ops, coordinator, historyVars>>

(* The Workspace has an OS unit of its own: it lives on.                   *)
CoordinatorDies ==
  /\ Up /\ Fault("crash")
  /\ coord' = Failed /\ Answers(FALSE)
  /\ UNCHANGED <<requests, installed, hold, ops, owner, unit, historyVars>>

Reboot ==
  /\ Fault("reboot")
  /\ job' = NoJob /\ waiting' = {}
  /\ coord' = Failed /\ unit' = [unit EXCEPT !.live = FALSE, !.held = FALSE]
  /\ UNCHANGED <<asked, installed, hold, receipt, ops, owner, historyVars>>

-----------------------------------------------------------------------------

JobStep ==
  \/ \E r \in Requests : Begin(r)
  \/ WriteHold \/ Identify \/ Pause \/ Snapshot \/ HoldRunners
  \/ StopCoordinator \/ WriteManifest \/ SwitchLink \/ StartCoordinator
  \/ Probe \/ Commit \/ Resume \/ Lift

FinishStep == FinishSettle \/ FinishResume \/ FinishLaunch \/ FinishClear

Next ==
  \/ RequestRemote \/ \E kind \in Kinds : RequestCli(kind)
  \/ JobStep \/ LoseAnswer
  \/ OsStart \/ OperatorStart \/ Serve
  \/ \E r \in Requests : WatchReceipt(r) \/ Expire(r)
  \/ FinishStep
  \/ JobDies \/ CoordinatorDies \/ Reboot

Spec == Init /\ [][Next]_vars

(* A job runs to its end, the OS starts a failed Coordinator, which comes  *)
(* up, polls for receipts and goes on with what it does.                   *)
FairSpec ==
  /\ Spec
  /\ WF_vars(JobStep) /\ WF_vars(FinishStep)
  /\ WF_vars(OsStart) /\ WF_vars(Serve)
  /\ \A r \in Requests : WF_vars(WatchReceipt(r))

-----------------------------------------------------------------------------
(* Properties *)

Jobs ==
  [r : 0..MaxUpgrades,
   phase : {"none", "hold", "identify", "pause", "snapshot", "quiesce", "stop", "manifest",
            "link", "start", "probe", "commit", "resume", "resuming", "lift"},
   mode : {"candidate", "restore"},
   why : {"none", "abandoned", "succeeded", "rolledBack"},
   version : Versions, previous : Versions, rollback : Versions, replaced : BOOLEAN]
Coordinators ==
  [up : {"stopped", "failed", "boot", "serving"}, version : Versions,
   paused : BOOLEAN, held : BOOLEAN, request : 0..MaxUpgrades,
   finish : {"none", "settle", "resume", "launch", "clear"}]
Units == [live : BOOLEAN, version : Versions, held : BOOLEAN]

(* Types of the job, the files, the Coordinator and the Workspace.         *)
TypeOK ==
  /\ asked \in Seq(Kinds) /\ Len(asked) <= MaxUpgrades /\ waiting \subseteq Requests
  /\ job \in Jobs
  /\ manifest \in [current : Versions, previous : Versions] /\ link \in Versions
  /\ hold \in 0..MaxUpgrades
  /\ receipt \in [Requests -> {"none", "succeeded", "rolledBack", "failed"}]
  /\ ops \in [Requests -> {"none", "pending", "good", "bad"}]
  /\ coord \in Coordinators /\ owner \in BOOLEAN /\ unit \in Units
  /\ committed \in Versions /\ overlaid \in BOOLEAN /\ events \in 0..MaxEvents

(* A Workspace never runs a version whose upgrade has no good receipt: the *)
(* launch hold keeps it down from the stop of the old Coordinator to the   *)
(* receipt, whatever dies in between; until another upgrade begins under   *)
(* that hold, which takes it over and may remove it.                       *)
LaunchedIsCommitted == unit.live /\ ~overlaid => unit.version = committed

(* A Coordinator that launches Workspaces runs the version that is         *)
(* installed, in both of its places, and that the last good receipt names. *)
ServingRunsInstalled ==
  coord.up = "serving" /\ ~coord.paused /\ hold = 0 /\ ~overlaid =>
    coord.version = link /\ link = manifest.current /\ link = committed

(* Once a receipt is written it is never rewritten, and the installation   *)
(* is not touched again on behalf of that upgrade.                         *)
CommittedStays ==
  [][/\ \A r \in Requests : receipt[r] # "none" => receipt'[r] = receipt[r]
     /\ installed' # installed => job.r # 0 /\ receipt[job.r] = "none"]_vars

(* The launch hold of a recorded upgrade whose receipt is good, and whose  *)
(* operation was not given up before it, is removed, although the job may  *)
(* have died, or the Coordinator in the middle of resuming.                *)
HoldEnds ==
  \A r \in Requests :
    (/\ hold = r /\ receipt[r] \in {"succeeded", "rolledBack"}
     /\ ops[r] \in {"pending", "good"}) ~> hold # r

(* What the release docs say of every committed receipt: if the job exits  *)
(* or loses the answer of its resume, the Coordinator still clears the     *)
(* launch hold. It does not once the operation has expired.                *)
CommittedSelfCompletes ==
  \A r \in Requests :
    (hold = r /\ receipt[r] = "succeeded" /\ ops[r] # "none") ~> hold # r

(* What the comment on the lifecycle says: the Workspaces stay stopped     *)
(* until the receipt is committed. They do not when a second upgrade took  *)
(* the hold over, gave itself up and removed it.                           *)
StoppedUntilCommitted == unit.live => unit.version = committed

(* What the comment on `holdRunners` says: the Agents are held for the     *)
(* upgrade only, and an upgrade that aborts lifts the hold. It does not    *)
(* when the Coordinator could not be stopped, for the switch or back.      *)
RunnersHeldByUpgrade == unit.held => job # NoJob
=============================================================================
