# Verification of Coforge

Coforge is a chat product in which people and code Agents work in the same
conversations. The cloud (a web application over PostgreSQL, Redis and
Centrifugo) owns messages, Agents and reminders; a daemon on each Computer runs
the Agents' processes and is connected to the cloud by publications and HTTP
calls. This directory holds TLA+ models of the protocols between the two, their
TLC configurations, and TLAPS proofs. All paths below are relative to the
repository's root.

```
tlc -workers 2 -config MCMentionPair.cfg MCMentionDelivery   # a run
tlapm MentionProofs.tla                                      # the proofs
```

## The system

| part | state it keeps | operations | what is hard |
|---|---|---|---|
| Tracked @mentions, cloud (`apps/web/src/server/conversations/mention-deliveries.server.ts` and its repository) | outcome, reason, envelope and code of each delivery row | issue, re-issue, ACK, terminal error, Stop | reports that are late, repeated or for an older envelope; re-issues that read, write and send separately |
| Tracked @mentions, daemon (`packages/daemon/src/daemon-runtime/mention-delivery-tracker.ts`) | an entry per delivery: received, pending, drained, undelivered | deliver, settle at turn end, redeliver, refuse, evict | awaits inside `deliver` and `settleTurnEnd`; process exits, rebinds |
| Daemon delivery queue and attention index (`agent-delivery-queue.ts`, `agent-message-attention-index.ts`) | held and notified deliveries, consumed and exact-seen sequences | hold, release, notify, flush, recover, read | generations that end while a notice is awaited |
| Agent control (`agent-control.server.ts`, `agent-session.server.ts`, `agent-runtime-control.server.ts`, `packages/daemon/src/agent-runtime/agent-control.ts`) | the operation on the Agent record, the daemon's record with its receipts, the process | Start, Stop, Restart, Reset, Full reset, results, session reports, recovery at `ready` | compare-and-swap beside a lock that session reports do not take; retries of launches; commands that are lost or late; a daemon that comes back with an empty record |
| Agent send (`runtime.ts` `#sendAgentMessage`, `agent-send-settlement.ts`, `agent-messages.server.ts`, `redis-message-request-idempotency.server.ts`) | a draft per target, a Redis record per key, message rows | send, resend a draft, hold, reconcile, replay | ambiguous answers; a row and its record written apart; a claim that expires |
| Reminders (`packages/daemon/src/agent-reminder/reminder-scheduler.ts`, `apps/web/src/server/reminders` and its repository) | the row and its fire receipts; the daemon's mirror (jobs, version fences, tombstones), its receipts in memory and in a file, App Inbox items | create, update, snooze, cancel, fire; sync, prepare, save, wake, retry, acknowledge | two clocks; receipts persisted around effects; fires that are repeated, premature or late; acknowledgements that cross a fire |
| Machine supervisor (`packages/daemon/src/supervisor`) | per Workspace a binding with an unfinished restart and the receipts of earlier ones; sequences, takeovers and stop intents in memory; the OS unit and its health latch | start, stop, restart, configure, recover, shutdown, park | work that is aborted, saved around or crashed between its phases; a stop that is answered before its turn; a daemon the OS replaces by itself |
| Upgrades (`packages/computer/src/release`, `packages/computer/src/updater.ts`, `supervisor/held-upgrade-recovery.ts`) | upgrade operations, the launch hold, receipts, the installed version in a file and a link | pause, hold, stop, switch, start, probe, commit, resume, roll back | two processes that share files only, stop and start one another, and finish one another's work after a death |
| Task board (`apps/web/src/server/tasks/task-board.server.ts`) | tasks with owner, status, revision | claim, unclaim, update | races of guarded writes |
| Installer (`crates/installer`) | lock, active version, links | acquire, activate | a switch in several writes |
| Web UI, search, notifications, workspace memory, records, infrastructure | – | – | views, I/O, generated code |

Modelled are the four protocols in which the cloud and the daemon have to agree
on something over channels that lose and reorder: what became of a mention,
what became of a message an Agent sent, which occurrences of a reminder the
Agent has heard of, and whether the Agent runs. Below them is the Coordinator of
a Computer, which has to agree with its own registry file and with the OS on
whether a Workspace's daemon runs, and with the upgrade job that replaces it on
which version may run one.

## Modules

| module | models | builds on |
|---|---|---|
| `MentionProtocol` | envelopes, pushes, reports and the channels between cloud and daemon | |
| `MentionServer` | the cloud's delivery rows, the Agent's fences, the re-issue jobs | `MentionProtocol` |
| `MentionTracker` | the tracker with the turns, holds, notices and process of the Agent | `MentionProtocol` |
| `MentionDelivery` | both ends, control commands, launches, session reports; the specification and its properties | the three above |
| `MCMentionDelivery` | constraints and the symmetry of the mentions, for TLC | `MentionDelivery` |
| `MentionProofs` | theorems about `MentionDelivery`: types, outcomes, what was accepted | `MentionDelivery` |
| `MentionShownProofs` | theorems about `MentionDelivery`: what was shown, what is under way | `MentionProofs` |
| `AgentSend` | an Agent's send: daemon, draft, cloud handlers, Redis record | |
| `AgentSendProofs` | theorems about `AgentSend` | `AgentSend` |
| `Reminders` | one reminder: cloud, synchronisation, scheduler, receipt file, acknowledgement | |
| `RemindersProofs` | theorems about `Reminders`: acknowledgements and dropped occurrences | `Reminders` |
| `RemindersReceiptProofs` | theorems about `Reminders`: the mirror's jobs, fires, attempts | `RemindersProofs` |
| `AgentControl` | operations on one Agent: cloud, daemon record, launches and retries, process, `ready` | `AgentOperation` (by refinement) |
| `AgentControlProofs` | theorems about `AgentControl`, with the refinement of `AgentOperation` | `AgentControl` |
| `Supervisor` | one Workspace of a Computer: the lifecycle queue, its registry, the OS unit, the Coordinator's end and start | |
| `SupervisorProofs` | theorems about `Supervisor` | `Supervisor` |
| `ComputerUpgrade` | upgrades and rollbacks of a Computer: the job, the Coordinator it replaces, the files they share | |
| `ComputerUpgradeProofs` | theorems about `ComputerUpgrade` | `ComputerUpgrade` |
| `AgentOperation` | what Agent control promises an owner: one current operation that completes step by step | |

### State and actions: mentions

`row` is the tracked part of `agent_message_deliveries` (`mentionOutcome`,
`mentionReasonCategory`, the envelope's launch and session, the terminal code,
`receivedAt`). `agent` is what `agentState` reads of the Agent: `stoppedAt`, the
control record's launch and session fence, `currentSession`. `jobs` holds the
three callers of `reissuePending`: an accepted session report, a `started`
result, and `resendPending` for a daemon that is ready. Each is split where the
code awaits: read, conditional UPDATE (`STILL_CARRIED_SQL`,
`WAKEABLE_AGENT_SQL`), send. A Stop is split into `begin` and the settling of
pending mentions it awaits under the runtime lock.

`proc` is the registered process with its launch and session, `reported` the
last session report that was answered (`#reportedSessions`), `tracked` the
tracker's map. `announcing` is a `deliver` at its `announce` await; `settling`
the rest of a `settleTurnEnd` loop at its `#drain` or `refuse` await;
`fallback` and `redelivering` notices the session said it never showed, and
their second delivery. `busy`, `hold`, `held`, `flushing` are the delivery
queue's, `notified` and `consumed` the attention index's. `accepted`, `told`,
`steered`, `doubted`, `overtaken`, `silenced` (daemon), `stopped`, `echoed`,
`refused` (cloud) and `forgotten` (between them) are history: no guard reads them,
except that `steered` and `fallback` decide which notices can be reported
undelivered.

`MentionDelivery` splits Next into `Step`, what happens when nothing goes wrong
(all of it under fairness in `FairSpec`), and `Event(kind)`, what people, the
network, the provider and the machine may do besides. Each event costs one of
`MaxEvents`, and a configuration names the kinds it allows:
`failed_turn read hold undelivered evict exit refusal replay failure stop start
restart recovery reconnect report_again crash loss`. Pushes and reports are
sets, so any order of arrival is a behaviour; `loss` removes one.

### State and actions: sends

A call is one CLI invocation; its own name is its idempotency key, and a resent
draft keeps the key it was saved with, so two calls may share a key. `handler`
is the cloud's request in the order of its awaits: record pre-check, freshness
plan, claim, (find), persist, complete, publish, release. `answer` is what the
daemon will see: a lost answer may overtake the handler that is still working,
which is what makes the daemon reconcile and replay. `record` is the Redis
value, `rows` the committed messages under a key. `windows` counts, per key,
the times its row was not protected by its record: a crash or a failed write
between the two, or a claim that expired under its owner.

### State and actions: reminders

`row` and `fired` are the reminder and its fire receipts in PostgreSQL. Every
edit, fire and cancellation makes the next version, so a version names one
occurrence. `syncs` are the pushed upserts, cancellations and snapshots on their
way, `calls` the fire requests. `mirror` is what `apply` keeps for the reminder:
the job, the version fence, the tombstone, the changed-since-snapshot mark and
the schedule timer. `slot[v]` is the receipt of a version in memory, its timer
and the effect that works on it; `disk` is the receipt file.

What the scheduler runs through `#serial` is one action: `Apply`, `PrepareDue`,
`ReceiptTimer`, `FireAnswered`, `WakeAnswered`, `SaveExhausted`, `AckReceipt`.
What it awaits outside is a value of `slot[v].effect`: the save before an effect
(`SaveAttempt`, which then sends the fire or mints the inbox item and wakes the
Agent), the fire, the wake. Two saves of one version may wait in `#serial`: that of
an exhausted receipt (`ending`) and that before an effect. They are taken in the
order they were queued, so the second is `behind` the first; otherwise an old
exhausted receipt could be written over a newer one that has been sent. Each action that uses the file takes a `mode`: it
works, its first read fails, a write fails, or both. Clocks are sets (`due`,
`expired`, `aged`) that only grow; the cloud's own clock is `row.due`, so a fire
may be premature. Failures are the store, the inbox, a refused wake, a lost sync
or call (the call may still arrive later), retention, a reconnection and a crash,
each counted against `MaxEvents`.

History variables name what a property has to except, and no guard reads them:
`dropped` (edited before it fired), `unsaved` (acknowledged while the file could
not be read), `forgotten` (a receipt dropped, or replaced, while its request
might still succeed), `raced` (an attempt a read took back before it was
saved), `displaced` (a deferred fire took the timer of a newer job).

### State and actions: Agent control

An operation is named by its epoch. `ctl` is `AgentControlState` with the
current session; `writer` a `begin` between its read and its compare-and-swap,
one for the caller that holds the Agent's runtime lock and one for the Stop a
`ready` sends outside of it; `driver` the waiter of `drive` with the phase it
has published. `Result`, `Snapshot` and `Invalidate` are the handlers of the
daemon's reports, which take no lock; `Advance` moves an operation to its next
step; `Authorizes` is `authorizeLaunch`.

`rec` is the daemon's record with its receipts, kept in memory only. The daemon
does an Agent's control work one piece at a time: `work` is the piece it
awaits. `StopCommand`, `ResetCommand` and `StartCommand` have one disjunct per
early return (a stale epoch, a replay, a refusal, a retry still pending, a
rebind, an Agent that already runs). `retry` is the launch retry: armed, and
fired, when its callback waits for the work before it. `proc` is the process,
`held` that the process manager never got it to stop; `restart` and `wake` are
the launch a message starts again by itself; `callbacks` the exits and wakes
queued for the record. `Updated` reads the session back when a turn ends (event
`turn`). `lost` are the sessions the provider no longer resumes: a launch of one
ends in `SessionMissing`, which tells the cloud and launches a new session. `link` is the connection: `Ready` takes what the daemon
reports to run, `RecoverWorkspace` is the cloud's answer to it and the daemon's
replay. Publications have no history (`infra/centrifugo/config.yaml`), so a
command published without a connection is lost, and `Disconnect` and `Crash`
lose any of the others.

`AgentOperation` is the abstract specification: an epoch, its action, how many
of its steps the Computer took and how many the cloud has confirmed, and an
outcome. `ImplementsOperation` says that `AgentControl` implements it, with
`taken` from the history of what the Computer did (`performed`) and `confirmed`
from the phase of the operation. A failed operation is mapped to no steps: how
far it came is not told.

### State and actions: supervisor

`disk` is the Workspace's binding in `bindings.json`, `mem` what the
`MachineSupervisor` keeps beside it: its copy, whether that has to be read again
after a failed save, the sequence of the last takeover, the stop intents and the
instance it adopted. `queue` is the serial queue of lifecycle work and `work` the
piece whose turn it is, at the await named by `work.at`, with the binding it
copied before (`copy`), the restart it advances (`goal`) and its abort signal.
`unit` is the OS unit of the daemon: the live invocation, whether its Agents are
held, and the health latch.

`Request` is what `command` and `configure` do before their first await.
`SaveIntent` is `#persistStopIntent`, which runs beside the queue, so any save of
older work may come before or after it (`Kept`). Then follow the awaits of
`#command`, `configure`, `#advanceRestart`, the process port and
`#reconcileBindings`: `Mark StopUnit Attach`, `Check Refuse ClearHealth Begin`,
`Advance HoldAgain Drained Halt Halted Finish`, `Launch Ensure Ready Answered`,
`Settle Done Record`, `Reconcile`, `Close`. `Saves` is one save with its three
ends: written, failed (with the file replaced or not), and refused by
`validateBindings`. `Crash` and `Exit` end the Coordinator, whose successor
starts from `disk` and the unit as it finds them. `asked` keeps what became of
each command, and with `born` and `lapsed` what the properties compare it with.

### State and actions: upgrades

`job` is the process that has the installation lock, at the step named by
`phase`: `hold identify pause` (`pauseLaunches`), `snapshot`, `quiesce`
(`holdRunners`), `stop manifest link start probe` (`performSwitch`, for the
candidate and again, with `mode = "restore"`, for the previous version),
`commit`, `resume resuming lift` (`resumeLaunches`). `waiting` are jobs that have
not tried the lock. `manifest` and `link` are `active.json` and the `active`
link, which `#activate` writes one after the other; `hold` is the request the
`launch-hold` file names; `receipt` the terminal result files; `ops` the
`upgradeOperations` of the binding, where `good` is what
`operationAllowsWorkspaceRecovery` accepts.

`coord` is the Coordinator: whether it is down, booting or serves, the version
its executable had, `supervisor.#paused`, and `HeldUpgradeRecovery` (`held`, the
`request` that owns the hold, and in `finish` the await of the `#finish`, resume
or start under way). `owner` is the file the stop waits for. `unit` is the
Workspace daemon, a unit of its own, which survives a crash of the Coordinator
and is stopped by its shutdown. `WatchReceipt` stands for the sweep at the start
and the watch that polls; `Expire` for its end after 30 minutes.
`committed` and `overlaid` are history.

## Abstractions

Mentions: one Agent on one Computer with well-formed envelopes, so
`INSTRUMENT_FAILED`, a drifted Computer and `UNSUPPORTED_DELIVERY_PATH` cannot
happen; providers in `steer` mode (not `queue_until_idle`). Launch and session
ids are numbered. A push that meets a runner hold, or an untracked one during a
launch, stays in `pushes`. Stop of a process is one step after its input drain
and any launch in flight. Eviction at 4096 entries may take any entry at any
time. The reports of one session are serialised as the daemon serialises them.
A lost `started` result is one that is late for ever. Recording an ACK and
settling it are one step (settling may fail). A ready daemon's recovery Start of
an Agent that does not run is the transition of a person's Start. Retries of a
failing launch are a launch that fails or starts later. Deletion of the Agent
acts on mentions as a Stop does.

Sends: one Agent, one target; other people's messages are a counter. Exact-seen
sequences, the withheld mode, the thread-target confirmation, attachments and
structured mentions are left out, as is an `--expected-draft-key` mismatch,
which refuses before anything changes. The 24 h life of a completed record is
not modelled: a draft, the only thing that can bring its key back, lives ten
minutes. Whether a failing database call committed is not modelled
(`HandlerFails` in `persist` did not). A request that never arrives is a handler
that crashes in its first step.

Reminders: one reminder of one Agent; validation, recurrence arithmetic,
listing, the log and the text of the notice are left out; so are the cache of
notified items and the drain of inbox notices at a turn's end. The inbox item is
written in the action that saves the attempt; an `inbox` event is the failure of
that write, or a stop between the two. A snapshot is read and published in one
step, and arrives late or never.

Agent control: request, launch and operation are one number, because a launch id
is minted once per operation. Changes of configuration, provider, Computer or
role, `startMany`, `startOnSession`, starts no operation stands for, and a
provider that replaces its session by itself are left out. The clear-session
step is the cloud's own and is part of the step that moves the operation to its
Start. A result's read and compare-and-swap are one step: they retry on a
session report and write nothing else. Commands form a set, so they may arrive
in any order: publications follow reads made outside the lock. What a daemon
sent is answered or lost before its successor is ready. The publication hold
during `ready` is modelled by commands that wait; that it keeps only the latest
Start and the latest Stop is not.

Supervisor: one Workspace, registered before; commands that name several are a
loop over the same steps with one refusal at the end. The registry keeps every
receipt, not the newest 128. The wait for readiness is one step that may fail
(30 s), and the hold asks again at any time until the Agents are idle or the hold
expires. The health journal is a latch (`ok`, `degraded`, `parked`); its budget of
crashes is a choice of `UnitExit`. The unit is systemd's; launchd and Windows,
whose reconcile poll repeats `Reconcile`, are left out, as is the view. A save is
one step: it is a rename. Upgrades are a module of their own: what `Supervisor`
says of commands is not repeated there.

Upgrades: one enabled Workspace that is not parked, and version numbers in the
order of the requests. The host is systemd: the in-place restart of launchd and
the forced clearing of the owner file on Windows are left out. So are an
installation without an earlier version, operator commands during an upgrade and
the wait for those under way (`settleLifecycleWork`), a hold file that names no
request, and the loss of old operations (the newest are kept). The cloud's
acknowledgement keeps an operation good or bad. Downloading and verifying is one
step that succeeds or fails; a receipt is written by a rename, so it is there or
not; the one after a failed rollback is written with the failure, and that of an
abandoned operation (`Ends`) with the release of the lock it follows in the code
(`upgrade-coordinator.ts:398`). The Coordinator that the OS restarts is there at
once or later; how often it may fail is bounded by the failures.

## Properties and runs

Bounds: `MaxLaunch`, `MaxSession` (ids minted), `MaxEvents`, `MaxInFlight`
(pushes, reports, calls, results and jobs at a time, a state constraint),
`MaxArrivals`; `MaxVersion`, `MaxDue`, `MaxRequests` (occurrences and fire
requests); `MaxEpoch` (operations), `MaxAttempts` (8 for a reminder
and 7 for a launch in the code); `MaxUpgrades`. In `mention_safety`, one less is under way at a time
once a second event has happened (`FewerAfterEvents`). In `mention_pair`,
`AloneInLaterEvents` lets two mentions see one event together and only one mention see
both, one less is under way while two mentions have seen an event (`FewerForTwo`), and
`DeliverySymmetry` exchanges the mentions, which no action tells apart and no property
orders. Without `FewerAfterEvents` and `FewerForTwo` both runs pass as well, with 4.6
million states each.

| run | bounds | properties | shows |
|---|---|---|---|
| `mention_safety` | 1 mention, 2 launches, 1 session, 2 events of all 17 kinds, 3 under way, 2 after both events | `DeliveredMeansAccepted`, `DeliveredMeansShown`, `LostMeansRefused`, `PendingUnderWay`, `FinalOutcome` | outcomes are true and final whatever two things go wrong; a pending mention is dropped by a named loss only |
| `mention_pair` | 2 mentions, 2 launches, 2 sessions, 2 exits or Starts, 3 under way, 2 for two mentions after an event | `DeliveredMeansShown`, `PendingUnderWay` | mentions that share turns do not settle one another, and none is left pending because of the other |
| `mention_liveness` | 1 mention, 1 launch, 1 event of 9 kinds, no constraint | `MentionsSettle` | a pending mention settles |
| `mention_stop_ack`, `mention_stale_push` | one Stop and one Start | `StopYieldsToAck`, `PendingUntilTurnEnd` | violated, see below |
| `sends` | 2 calls, 1 arrival, 1 event of 7 kinds | `OneMessagePerKey`, `SentMeansPersisted`, `DraftSurvives`, `ClaimsEnd`, `CallsEnd` | one key, one message; `sent` is true; drafts are cleared by key; nobody waits for ever on a key |
| `send_held` | 1 call, one lost answer | `CommittedIsNotHeld` | violated, see below |
| `reminders` | 2 versions of which 1 becomes due, 2 requests, 2 attempts, one failure of 7 kinds | `FiredIsNotLost`, `DroppedNotShown`, `EffectsBounded`, `AckedStaysAcked`, `ConsumedStays`, `PushedJobStays`, `FiredReachesAgent`, `DueIsFired` | a fire is not lost, an edit wins, attempts are bounded, acknowledgements and newer jobs survive what comes late; what is due is fired and reaches the Agent |
| `control_safety` | 2 operations of Start, Stop, Full reset; 2 attempts; one event of 8 kinds | `StoppedStaysDown`, `LaunchAttemptsBounded`, `ImplementsOperation` | a completed Stop holds; an operation completes only after the Computer took each step |
| `control_liveness` | 3 operations of Start, Stop; one event of 5 kinds | `SessionsAgree`, `SessionCarriedOver`, `OperationEnds` | operations end; where a completed Start still runs, the cloud's session is the one that runs; a new operation begins with the session current at its write |
| `supervisor` | 2 commands of 4 kinds, 2 failures of 7 kinds | `TypeOK`, `StopHolds`, `StoppedStaysDown`, `RestartReplaces`, `ReceiptsStay`, `StopTakesEffect`, `RestartEnds`, `HoldIsLifted` | an answered stop holds across a crash; a restart replaces its instance and ends with one receipt; no daemon stays held |
| `upgrade` | 2 upgrades or rollbacks, from the cloud or the CLI; 3 failures of 13 kinds | `TypeOK`, `LaunchedIsCommitted`, `ServingRunsInstalled`, `CommittedStays`, `HoldEnds` | no Workspace runs a version without a receipt; receipts stay; the hold of a recorded upgrade that ended well is removed |

Why the bounds are enough for their question. Two launches make an old and a new
envelope, and the row, the tracker's entry, a push and a report each hold one of
them, so every order in which they can disagree occurs; a second session
matters only where a provider replaces its session, which `mention_pair`
allows. The hazards found while modelling need at most two
events. `sends` needs two calls for a shared key (a send and the resend of
its draft), and each call has two requests already; with one newer message a
boundary is either current or not. One event is enough for the liveness it
checks, and its safety properties are proved for every number of events. A reminder needs two versions for a fire or
an edit and what is left of the old one, and a second request for an occurrence
whose receipt was dropped or unreadable; its properties also hold with three
versions and two failures of the file, the network and the daemon (4 million
states, without the liveness). Two operations make an old and a
new one on every message and record, a third follows an end; two launch
attempts are a first and a last one. Full reset has every kind of step, and
Restart and Reset are its chain without the middle. Two commands to a Workspace are
one under way and one that takes it over, is queued behind it or replays it, and
a recovery is a third piece of work; two failures are one that interrupts a
restart and one that meets its recovery. The replay of a restart that a stop has
cancelled is a third command: `Finished` treats it as the replay of a completed
one, which two commands reach. Two upgrades are one that was interrupted and the
next, or two that compete for the lock; three failures are one that interrupts a
switch, one that meets its restore, and one more.

Type correctness is proved for every module (`TypeCorrect`). `TypeOK` is among a run's
properties where it says more than the sets of values: that a registered restart has a
phase to go on from, and that no outcome is written for which its reader has no word.

`DeliveredMeansShown` is the tracker's promise: a mention shown as delivered was
in a notice of its own turn, or in a turn that has ended, or read. The two
exceptions it names are real paths of the code: a notice the session reported
undelivered after it had settled (`doubted`), and a mention that
`settleTurnEnd`, resuming from an await in the next turn, drains there although
it was steered into that turn (`overtaken`).

`PendingUnderWay` says that the chain from a pending row to its outcome is never cut
without a word: the envelope the row carries is in a push, in a report, being
announced, in an entry that a turn's end or a redelivery will settle, or about to be
sent by the re-issue that wrote it. It is the safety part of `MentionsSettle`, and it
speaks of all seventeen kinds of event and of every state, also while a Stop, a Start or
a re-issue is between two of its steps. `forgotten` names what it excepts, each with
its mention and envelope, until they are pushed again: a push or a report that was lost,
an ACK whose settlement failed, an entry that was evicted or died with its daemon, an
entry that gave way to a push with another envelope (finding 2), and an envelope that a
re-issue wrote, could not send and no longer found to clear, as a Stop had come in
between. `silenced` is the other exception: a Stop took the fallback notice that was to
settle the mention (see "Observed").

`SessionsAgree` excepts an operation with a session sequence of a dead daemon
(`outrun`). Such a daemon died after its session report was taken and before its
result; the next one counts from zero for the same operation, and the cloud
drops its reports until they have caught up, as `accept` and `result` compare
sequences only. An operation that had completed is not affected: `ready` begins
a new one, with a sequence of its own. `MCAgentControlSessions.cfg`, not among the
runs, checks it with Restart and two events: a session that is lost, and a crash or a
failed launch before its successor has been told of.

`CHECK_DEADLOCK FALSE` in every configuration: the modelled systems come to
rest. Once the bounded ids, messages and events are used up, every mention is
settled and the Agent waits, or every call has its answer; the real system then
waits for people.

### Fairness

`FairSpec` of `MentionDelivery` is weak fairness of every kind of `Step`: the
cloud's handlers and jobs run to their end, messages under way arrive, the
daemon's event loop resumes its awaits, a launch and a session report are
answered, and the Agent keeps having turns. No event is fair, so nobody owes a
Stop, a failure or a ready. `MentionsSettle` therefore says that a mention
settles as long as the Agent is used; with an Agent that never has another turn
it may stay pending, which the source accepts ("nothing re-issues on a timer").
The nine kinds of event in `mention_liveness` are those after which the code
brings the mention back by itself; a lost message, a crash of the daemon, an
exit, an eviction or a failed write leaves it pending until the next ready,
message or Start, and a Start or Restart may meet finding 2. So a publication
that is lost is not this run's: `PendingUnderWay` speaks of it in `mention_safety`.

`FairSpec` of `Reminders` is weak fairness of the cloud's handlers, of the
scheduler's timers and awaits with a file that works, of the clocks, and of the
arrival of syncs: of any sync, and of a snapshot, which a stream of changes must
not hold up for ever. A lost sync is a failure, after which the next snapshot
makes up for it. Nobody owes an edit, an acknowledgement or a failure.
`FiredReachesAgent` and `DueIsFired` except what the code gives up by design
(an exhausted receipt, a failing file) and the two cases under "Observed".

`FairSpec` of `AgentControl` is weak fairness of a begun request, of the waiter's
publication, of `Advance`, of the arrival of reports, of the daemon's queue with
its stops, launches, retries and callbacks, and of the connection with its
`ready`. A waiter's time-out, a wake, a press and a failure are owed by nobody:
in particular a command is not delivered by a timer, so `OperationEnds` rests on
`ready` sending an unfinished operation again.

`FairSpec` of `Supervisor` is weak fairness of the queue, of the work under way (its
awaits return), of the write of a stop's intent, and of the end of a process that
is closing. A failure, a command and the answer at a deadline are owed by nobody.
A Coordinator that ended is started again at once, as its OS service does after a
crash; after a shutdown that is the next start of the Computer. The hold's retry
owes nothing: the hold is left when it expires.

`FairSpec` of `ComputerUpgrade` is weak fairness of the job, of the Coordinator's
start and of what it finishes, of the restart of a failed Coordinator
(`Restart=on-failure`) and of the polling for each receipt. Nobody owes a request,
a failure or a person's start; a Coordinator that was stopped stays down.
`HoldEnds` speaks of operations that are recorded and have not expired; the
others are under "Observed".

`FairSpec` of `AgentSend` is weak fairness of each call once begun, of each
handler and of the expiry of a claim nobody refreshes. No invocation is owed.

### Where the code and its comments disagree

1. `mention_stop_ack`. "A daemon's echoed ACK overrides a person's Stop
   settling the mention" (`mention-deliveries.server.ts:8-9`), but
   `STOP_SETTLED_WHERE` wants a null code and `settleStopped` leaves the
   `IDENTITY_DRIFT` of an earlier refusal in place: the mention stays lost.
2. `mention_stale_push`. "Told during a turn, it stays pending until that turn
   ends" (`mention-delivery-tracker.ts:110-111`), but refusing a push that names
   another launch deletes the entry whatever envelope it holds.
3. `send_held`. A committed send must not be reported as held
   (`agent-messages.server.ts:277-279`), but the record is read once and the
   freshness plan awaits after it; a first request that commits in between has
   its replay held against a newer message.

Observed while modelling and not stated as a run: a Stop, also the one in a Restart,
drops a held fallback notice (`clearAgent`) but leaves the tracker's undelivered mark,
so that a later envelope of the mention, steered into a turn of the next launch, inherits
it; `settleTurnEnd` then passes the mention by, no redelivery is left to settle it, and a
repeated push is coalesced with the entry: it stays pending (`silenced`); a redelivery that is refused, and
whose mention a replayed push then finds notified, is delivered without having
been shown (`doubted`); when the completion write fails after the message was
persisted, the released claim lets an immediate replay of the key make a second
message, where `docs/reliable-message-delivery.md:77` accepts only the time
until the claim expires (`OneMessagePerKey` counts both as windows); a hold of
an older call replaces the draft of a newer send, since `inbox.replace` goes by
target.

Observed in Agent control, and excepted by name in `OperationEnds`:

- `stranded`: an operation of which an earlier daemon had taken a step never ends
  by itself. The next daemon's record counts from zero, so its result with
  sequence 1 is not above the operation's and is dropped without an answer
  (`agent-control.server.ts:987`), and a workspace reset is refused with
  `confirmed_stop_required`, which answers nothing either. A comment at
  `agent-control.server.ts:302-305` says that the daemon "now answers a request
  it previously rejected outright instead of leaving it unanswered forever".
  A `ready` of a daemon whose Agent runs, or is stopped, sends nothing to an
  unfinished operation; a failed publication ends its waiter.
- `refused`: a newer Start is refused with `previous_control_not_completed` while
  the callback of a fired launch retry waits in the queue; only a retry whose
  timer has not fired yet is superseded.
- `proc.held`: once stopping a process has failed, the process manager keeps the
  Agent as stopping and every later Stop fails, although a comment
  (`packages/daemon/src/agent-runtime/agent-control.ts:226-232`) expects the next
  Stop to try again.

By reading only: the Stop that a `ready` sends for a running but stopped Agent is
begun outside the Agent's lock and can supersede a newer Start of its owner.

Observed in reminders, and excepted by name: a premature fire that is deferred
arms its timer under the reminder, not the version, and takes the place of a
newer version's timer (`displaced`, `DueIsFired`); a receipt dropped after a
premature answer loses its occurrence if an earlier, delayed request of it is
accepted after all, and so does one that is replaced because the file could not
be read (`forgotten`, `FiredIsNotLost`); an acknowledgement made while the file
cannot be read is kept in memory only, and the Agent hears of the occurrence
again after a restart (`unsaved`, `AckedStaysAcked`); a timer or a snapshot that
reads the file between the counting of an attempt and its save gives the attempt
back (`raced`, `EffectsBounded`). Outside the properties: an upsert that arrives
before the first snapshot is ignored; an older snapshot that arrives after a
newer one drops a job the newer one brought (`PushedJobStays` speaks of pushes).

Observed in the supervisor, and excepted by name or kept out by a hypothesis:

- `crossed`: a stop that arrives while the first save of a restart is awaited
  closes that restart in the save, and `#advanceRestart` then reads a field of a
  restart that is gone (`machine-supervisor.ts:554-564`, `726`). The TypeError is
  recorded as `lastFailure`, where `#failedAfterAnswer` says that a takeover is not
  one.
- A later stop whose intent is not written lets go of what an earlier, answered
  stop held (`StopHolds`), and the save of the restart under way may then undo
  its mark.
- A restart cancelled by a stop that came after its last look at the signal is
  still recorded as completed: the receipt changes (`ReceiptsStay` allows it).
- The record of a failure is queued behind commands asked meanwhile, so a failure
  may be shown after a later command has succeeded.
- The hold is asked again while the Agents drain, so a replacement the OS started
  in the meantime is held as well. "Nothing releases the hold afterwards, and
  nothing needs to" (`machine-supervisor.ts:768-773`) is true of the instance the
  restart stops, which is what `HoldIsLifted` speaks of; if the Coordinator crashes
  at that point, its successor completes the restart with the replacement and the
  Agents stay held. So do they when a stop aborts the restart and then fails.

By reading only: `clear()` of the health journal reads and writes a file that the
daemon writes too, so a park in between is overwritten; `configure` writes the
binding without its upgrade operations.

Observed in upgrades. The first three have a configuration of their own that is
not among the runs (`tlc -config MCUpgradeExpired.cfg ComputerUpgrade`):

- `MCUpgradeExpired.cfg`, `CommittedSelfCompletes`. "If the external job exits
  after receipt commit or loses the resume response, the Coordinator still resumes
  that exact verified operation and clears launch-hold"
  (`docs/release/health-verification.md:102-104`). An operation expires 30 minutes
  after it was asked for, also while its job is still downloading. The job then
  commits `succeeded`, the settling of its resume throws "cannot release
  launch-hold" (`run-supervisor.ts:582-583`), and no later start finishes it: the
  Workspaces stay down under the hold.
- `MCUpgradeForced.cfg`, `StoppedUntilCommitted`. "Workspace children remain
  stopped under launch-hold until the terminal receipt is committed"
  (`upgrade-lifecycle.ts:91-92`). A job dies after its switch; the upgrade tried
  next overwrites the hold, finds no Coordinator and an enabled Workspace, gives
  itself up, and `resumeLaunches` removes the hold. A Coordinator started now
  launches the Workspace on the version that was never probed. `overlaid` is the
  exception in `LaunchedIsCommitted` and `ServingRunsInstalled`.
- `MCUpgradeStop.cfg`, `RunnersHeldByUpgrade`. "`resumeLaunches` lifts it if the
  upgrade aborts first" (`upgrade-lifecycle.ts:103`). When the OS refuses the stop,
  for the switch and again for the restore, the job ends as `ROLLBACK_FAILED`
  with the old Coordinator serving, paused, and the Agents held.
- A Coordinator that crashes between the job's hold file and its `identity` is
  started again under that hold; the job, which found none, gives up and removes
  the file, and the Coordinator stays paused without one.
- The hold of an upgrade from the CLI is owned by no operation, so only its own
  job removes it: if the job dies after the commit, the Workspaces stay down.
- The end of an earlier upgrade's `#finish` removes the hold of whatever upgrade
  has written one in the meantime (`overlaid`).
- A Coordinator that is killed leaves `supervisor.lock/owner`; until another one
  has started and ended, a stop waits for it in vain, and so does the restore's.

## Proofs

`MentionProofs`, `MentionShownProofs`, `AgentSendProofs`, `RemindersProofs`,
`RemindersReceiptProofs`, `AgentControlProofs`, `SupervisorProofs` and `ComputerUpgradeProofs` prove, for every set of deliveries,
calls, buttons or commands, every bound and every set of events:

| theorem | module | inductive invariant |
|---|---|---|
| `TypeCorrect` | all but `MentionShownProofs` and `RemindersReceiptProofs` | `TypeOK`; for reminders, Agent control, the supervisor and upgrades `IInv` |
| `LostRefused` (`LostMeansRefused`), `OutcomesFinal` (`FinalOutcome`) | `MentionProofs` | `RowInv` |
| `DeliveredAccepted` (`DeliveredMeansAccepted`) | `MentionProofs` | `SeenInv` |
| `DeliveredShown` (`DeliveredMeansShown`) | `MentionShownProofs` | `ShownInv` |
| `PendingStaysUnderWay` (`PendingUnderWay`) | `MentionShownProofs` | `UnderWayInv` |
| `SentIsPersisted` (`SentMeansPersisted`), `DraftsSurvive` (`DraftSurvives`) | `AgentSendProofs` | `SendInv` |
| `OneMessage` (`OneMessagePerKey`) | `AgentSendProofs` | `KeyInv` |
| `DroppedStaysHidden` (`DroppedNotShown`), `ConsumedKept` (`ConsumedStays`) | `RemindersProofs` | `IInv` |
| `JobsStay` (`PushedJobStays`), `FiresKept` (`FiredIsNotLost`), `AttemptsLimited` (`EffectsBounded`), `AckedGone` (`AckedStaysAcked`) | `RemindersReceiptProofs` | `RInv` |
| `StaysDown` (`StoppedStaysDown`), `AttemptsBounded` (`LaunchAttemptsBounded`), `SessionCarried` (`SessionCarriedOver`), `Implements` (`ImplementsOperation`) | `AgentControlProofs` | `IInv` |
| `SessionsStayAgreed` (`SessionsAgree`) | `AgentControlProofs` | `IInv /\ SInv` |
| `StopsHold` (`StopHolds`), `StaysDown` (`StoppedStaysDown`), `Replaces` (`RestartReplaces`), `ReceiptsRemain` (`ReceiptsStay`) | `SupervisorProofs` | `IInv` |
| `UncommittedNeverRuns` (`LaunchedIsCommitted`), `ServesWhatIsInstalled` (`ServingRunsInstalled`), `ReceiptsAreFinal` (`CommittedStays`) | `ComputerUpgradeProofs` | `IInv` |

They rest on the constants' assumptions only: positive bounds on launches and
sessions (`BoundsAssumption`), `EventsAssumption`, for sends that the calls are
finite and `NoCall` is not one of them (`CallsAssumption`), and for reminders
natural bounds with room for one version, request and attempt (`ReminderBounds`), for
Agent control positive bounds on operations and attempts (`ControlBounds`), for the
supervisor natural bounds with room for one command (`SupervisorBounds`), and for
upgrades natural bounds with room for one upgrade (`UpgradeBounds`). `FairSpec` is not needed.

- `RowInv`: a row that looks settled by a Stop was settled by one, a row with a
  reason is lost, and a loss to an error names the refused envelope.
  `LostMeansRefused` is not inductive alone: a Stop-settled row that an ACK
  re-opens must be known to carry no error reason.
- `SeenInv`: what the tracker calls drained, what an ACK in flight that echoes an
  envelope reports, and what the attention index has in `notified` was accepted
  by a session or read. The outcome follows the ACK, the ACK the tracker's entry,
  the entry the notice, hence three conjuncts before the one that is wanted.
- `ShownInv` follows the same chain for what was shown. It adds that a notice of the
  current generation is either shown or `steered` into the turn that runs
  (`NotifiedMeansShown`), that only a running turn has such notices
  (`SteeredMeansBusy`), which is what lets `deliver` drain at once what an idle Agent
  was told, and that a notice waiting for redelivery was reported as not shown
  (`FallbackMeansDoubted`). `TypeOK` aside, no other conjunct of `MentionProofs` is
  needed; TLC checked this `ShownInv` with the bounds of both runs.
- `UnderWayInv` adds to `PendingUnderWay` what it needs of the daemon (`AwaitInv`): one
  announcement is out at a time (`AnnouncedOnce`), its mention is the one entry
  `received`, with the announced envelope, or was settled meanwhile
  (`AnnouncedReceived`, `ReceivedAnnounced`), and what is marked undelivered is in a
  fallback notice, unless `silenced` (`UndeliveredHeld`). With these an envelope is
  under way exactly if a message or an entry carries it (`Carried`) or a re-issue is about
  to send it. For a step of the daemon it is then enough that what was carried still is,
  or was forgotten by name (`CarriedOnSuffices`), and `OneMentionCarried` reduces that to
  the one mention the step is about. For a step of the cloud `RowStaysUnderWay` compares
  the row's envelope before and after: a step that writes one also sends it or leaves the
  job that will, and a step that takes a report settles what it answers, unless the row
  carries another envelope by then. TLC checked the five conjuncts with the bounds of both
  runs.
- `SendInv`: a call past its start has a key, and a handler past `persist`, an
  answer `sent` and a completed record each have a row.
- `KeyInv`: `Claimed` (a key is claimed by the one handler that is about to
  persist, or its window was counted) and `Budget`,
  `rows[k] + InFlight(k) <= windows[k] + Protected(k)`: each handler about to
  persist uses up the record's protection or a window. `InFlight` counts
  handlers with `Cardinality`, so the lemmas on finite sets carry the step.
- `IInv` of `RemindersProofs`: `TypeOK`, `FiredInv` (who was told "accepted" of a
  version, in a slot, a receipt on its way to the file or the file, holds one the
  cloud fired, and what was fired or dropped lies behind the row), `CallsInv` (a
  call whose answer is awaited is the only one of its slot, which awaits it) and
  `KeptInv` (while the file holds an acknowledgement, no fire or wake is under
  way on an open copy, so none can save over it). `DroppedNotShown` needs
  the first, as an item follows the answer and the answer the row; `ConsumedStays`
  needs the last two, as the answer to a call is applied to whatever receipt the
  slot then holds. Most scheduler steps end in the same few helpers, so one
  relation, `Like`, says what they keep of a slot, and `TakenStep` proves the
  invariant for all of them.
- `RInv` of `RemindersReceiptProofs` extends that `IInv`. `MirrorInv` (the fence is
  never ahead of the cloud's row, and a job is at the fence) gives `PushedJobStays`.
  The rest speaks of the three copies of a version's receipt, in the slot, `ending`,
  and in the file, as one predicate of a slot and a file's receipt (`VInv`), so that
  the helpers of the scheduler get lemmas without a state. `Stage` says what an effect
  under way knows: a receipt the cloud may hear of is in the file, and nothing is sent
  while an exhausted one is on its way there, which is what the order of the saves is
  needed for. `Request`: who was told "accepted" has the request the cloud fired, and
  an answer meets that request in every open copy. `Lost`, while the Agent has no item
  and nothing was dropped: all copies and calls are of one request, and only what
  can not be fired any more is declined; this makes `FiredIsNotLost` inductive. `Shown`:
  once an item was minted, no open copy of a fired request is still to be accepted, and
  once it was acknowledged none is open, so no copy can mint it again. `Effects0`: a
  counted attempt is in the file before its effect. `WorkStep`, `AsideV` and `OneStep`
  carry the versions a step is not about, `PersistV` the steps that end in
  `#persistOrRetry`. TLC checked this `RInv` with the bounds of the run.
- `IInv` of `AgentControlProofs`: the cloud is at most one step behind what was taken
  on the Computer (`OperationInv`), which is all the refinement needs of the cloud, but
  what keeps it so lies on the wire and in the daemon. `WireInv` and `RecordInv`: a
  command of the current operation is one whose step the operation has come to
  (`Reached`), and a result on its way, or in the record to be answered again, tells of
  a step that was taken (`Vouched`). `DownInv`: once a Stop is taken, the record names
  it and so refuses what is older, or a new daemon knows nothing and only commands of
  that Stop are under way. `StopInv`: where a Start has been published, launched or
  its Stop confirmed, a copy of the Stop's command still on its way finds a record that
  has handled it (`Handled`), so the record is never begun anew for it; without this
  neither a step nor an attempt is counted once. `TriesInv` ties the attempts of a Start
  to those of the work or the retry that is due. Most actions take nothing and begin
  nothing; `CalmStep` proves the invariant for all of them, and `GoesOnStep` for those
  of the cloud.
- `SInv` of `AgentControlProofs` goes with that `IInv`. `SessionsAgree` is not inductive
  alone: it has to be known of everything that may still tell the cloud of a session.
  `RunInv`: a record that has done its Start (`StartDone`) names its process's session,
  which is not lost; all it keeps to send again tells of it (`Tells`), and no Stop of
  its operation is still to be handled. `ToldInv`: so does every report and `started`
  result on its way for the current operation. `CloudInv`: hence an operation that has
  a session sequence has that session, unless it is `outrun`, and once it has completed no
  Start of it can begin another launch. `ProcessInv` and `LostInv`: a wake keeps the
  session of the process, and one the provider no longer resumes does not come up again, so
  a late notice that it is gone cannot clear a session that was told of.
  `DaemonTells` proves the cloud's part for every step of the daemon, `DaemonStaysTold`
  the daemon's part for every step of the cloud. TLC checked this `SInv` with the
  bounds of `MCAgentControlSessions.cfg`, and along random behaviours with every button, five operations and seven
  events of nine kinds.
- `IInv` of `SupervisorProofs`: a Workspace is told of in three places, the registry
  file, the Coordinator's memory and the copy held by the work under way.
  `BindingsInv` says of each that every receipt, and every instance a registered
  restart may take for its own, is younger than the request (`Newer`, `Receipts`), and
  that the memory equals the file unless it has to be reread. `WorkInv` says what a
  place in the work tells of its kind, goal and instance found, `QueueInv` that commands
  have their turn in order and an intent still to be written waits in the queue.
  `StopInv` is what `StopHolds` lacks to be inductive: once a stop is written, the work
  under way and all that is queued leaves the Workspace stopped (`Quiet`), whether it
  was asked before the stop or is a recovery. `AheadInv`: while no stop has failed, the
  file is ahead of the work's copy only by a stop, which the next save keeps; this is
  why `ReceiptsStay` is conditional on `NoStopFailed`. A group of steps has one lemma:
  `KeepsStep` and `MoveStep` for work that leaves the file alone, `EndStep` for its end,
  `SaveStep` for a save, `UnitStep` for what the OS does. This `IInv` was also checked
  by TLC, with the bounds of the run and with three commands.
- `IInv` of `ComputerUpgradeProofs`: besides `TypeOK`, a job owns its receipt until it
  says how the job ended (`JobInv`), an operation settled as good has a good receipt
  (`OpsInv`), and only a Coordinator that is up finishes anything (`CoordInv`).
  `LaunchInv` is the argument: while anything on the Computer may not be the committed
  version (`Unsure`), the launch hold is there, its upgrade is not settled as good, no
  Workspace is up, and any Coordinator was born under that hold and finishes nothing
  (`Closed`). This is so from the stop of the old Coordinator to the receipt, and after
  a death until the next job or Coordinator. `SwitchInv`, `OwnHold` and `HeldInv` say
  what each phase of the job knows of the files, whose hold it is, and what a
  Coordinator born under a hold may finish; without them neither the commit nor the
  lift of the hold preserves `Closed`. Under `overlaid`, the hold of an earlier upgrade,
  `LaunchInv` claims nothing, and neither does `LaunchedIsCommitted`.

`NextSplits` sorts the steps of `MentionDelivery` into those of the rows, the
Agent's record, receiving, turns and the process; each lemma of preservation has
one case per group and one below it per action.

Every safety invariant and action property of the passing runs is a theorem.
Only model-checked are the liveness properties (`MentionsSettle`, `ClaimsEnd`,
`CallsEnd`, `FiredReachesAgent`, `DueIsFired`, `OperationEnds`, `StopTakesEffect`,
`RestartEnds`, `HoldIsLifted`, `HoldEnds`): under fairness they are out of the prover's
reach. The three disagreements are shown by counterexamples.

## Plan

1. Done: the mention modules, `AgentSend`, `Reminders`, `AgentControl` with
   `AgentOperation`, `Supervisor`, `ComputerUpgrade`, and the theorems above.
2. Not modelled yet, as the parts the Agents depend on came first: `DeliveryQueue` with
   the attention index (custody across launches, the consumed file and its lost
   writes, overlapping sends), `TaskBoard` (guarded claims), and the first
   installation (`crates/installer`). Their hazards are listed in
   `PROJECT.json`.

Not modelled and not planned: the web UI, search, mail and push notifications,
provider drivers, downloads and signatures of the installer, deployment. They
are I/O, rendering or cryptography, without a protocol state of their own.
