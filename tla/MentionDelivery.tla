--------------------------- MODULE MentionDelivery ---------------------------
(***************************************************************************)
(* Tracked @mention delivery end to end: the cloud (MentionServer) and the *)
(* daemon (MentionTracker) over pushes and reports that may be lost or     *)
(* overtake each other, with the Agent control and session reports that    *)
(* change which launch and session a mention may be told to.               *)
(***************************************************************************)
EXTENDS MentionServer, MentionTracker

CONSTANTS
  ReportsFirst, \* the provider reports its session before the launch is done
  Events,     \* the kinds of event that may happen to the system
  MaxEvents   \* bound: events in one behaviour

ASSUME EventsAssumption == ReportsFirst \in BOOLEAN /\ MaxEvents \in Nat

VARIABLES
  control,    \* the control command on its way, with the launch of a Start
  restart,    \* the daemon's restart config: what a wake relaunches, or none
  managed,    \* the process was launched for a Start, not by a wake
  launching,  \* the launch in flight: a set of at most one
  started,    \* launches whose `started` result the server has yet to take
  sessions,   \* native sessions created so far
  calls,      \* session reports whose reply the daemon still awaits
  events      \* events so far

linkVars == <<control, restart, managed, launching, started, sessions, calls>>
vars == <<channels, serverVars, trackerVars, linkVars, events>>

NoCommand == [command |-> "none", launch |-> 0]
Commands == [command : {"start"}, launch : 1..MaxLaunch] \cup
              [command : {"none", "stop", "restart", "stopped"}, launch : {0}]
Calls == [identity : Identity, replaced : 0..MaxSession, served : BOOLEAN,
          again : BOOLEAN]

(* A session report; the daemon sends those of one session in turn.        *)
Report(identity, replaced) ==
  IF \E c \in calls : c.identity = identity
  THEN {[c EXCEPT !.again = @ \/ c.identity = identity] : c \in calls}
  ELSE calls \cup {[identity |-> identity, replaced |-> replaced,
                    served |-> FALSE, again |-> FALSE]}

(* A report is answered, refused or lost: the next one follows.            *)
Replied(c) ==
  (calls \ {c}) \cup
    (IF c.again THEN {[c EXCEPT !.replaced = 0, !.served = FALSE, !.again = FALSE]} ELSE {})

Launches == [identity : Identity, replaced : 0..MaxSession, wake : BOOLEAN]

Init == /\ pushes = {} /\ reports = {} /\ forgotten = {}
        /\ ServerInit /\ TrackerInit
        /\ control = NoCommand /\ restart = NoIdentity
        /\ managed = FALSE /\ launching = {} /\ started = {} /\ sessions = 0 /\ calls = {} /\ events = 0

-----------------------------------------------------------------------------
(* A person's commands; the latest one wins.                               *)
PersonStops ==
  /\ Stop
  /\ control' = [command |-> "stop", launch |-> 0]
  /\ UNCHANGED <<trackerVars, restart, managed, launching, started, sessions, calls>>

PersonStarts ==
  /\ Start
  /\ control' = [command |-> "start", launch |-> minted + 1]
  /\ UNCHANGED <<trackerVars, restart, managed, launching, started, sessions, calls>>

PersonRestarts ==
  /\ BeginRestart
  /\ control' = [command |-> "restart", launch |-> 0]
  /\ UNCHANGED <<trackerVars, restart, managed, launching, started, sessions, calls>>

(* advance: the restart's stop finished, so its start is published.        *)
AdvanceRestart ==
  /\ control.command = "stopped"
  /\ Start
  /\ control' = [command |-> "start", launch |-> minted + 1]
  /\ UNCHANGED <<trackerVars, restart, managed, launching, started, sessions, calls>>

(* The provider resumes session `old` or, without it, creates one.         *)
Opened(old, session) ==
  \/ session = old /\ session # 0 /\ UNCHANGED sessions
  \/ /\ sessions < MaxSession /\ session = sessions + 1
     /\ sessions' = sessions + 1

(* #launchAgent up to the provider's start.  A provider that reports its   *)
(* session first awaits the reply; the process is not yet registered.      *)
Launching(old, launch, session, wake) ==
  LET identity == [launch |-> launch, session |-> session] IN
  /\ ~Running /\ launching = {}
  /\ Opened(old, session)
  /\ launching' = {[identity |-> identity, replaced |-> old, wake |-> wake]}
  /\ calls' = IF ReportsFirst THEN Report(identity, old) ELSE calls

(* The daemon executes a Start: a launch, or a rebind of what runs.        *)
DaemonLaunches ==
  /\ control.command = "start"
  /\ \E session \in 1..MaxSession :
       Launching(agent.session, control.launch, session, FALSE)
  /\ control' = NoCommand
  /\ UNCHANGED <<channels, serverVars, trackerVars, restart, managed, started>>

(* #wakeAgent: an untracked delivery relaunches an exited Agent under the  *)
(* launch id it last had, resuming its session or replacing it.            *)
DaemonWakes ==
  /\ restart # NoIdentity /\ control = NoCommand
  /\ \E m \in pushes : m.env = NoIdentity /\ m.delivery \notin consumed
  /\ \E session \in 1..MaxSession :
       Launching(restart.session, restart.launch, session, TRUE)
  /\ UNCHANGED <<channels, serverVars, trackerVars, control, restart, managed,
                 started>>

(* The launch is done: the process is registered, and a managed Start      *)
(* reports its result.                                                     *)
LaunchCompletes(recovered) == \E l \in launching :
  /\ ReportsFirst => reported = l.identity
  /\ Launch(l.identity, recovered)
  /\ restart' = l.identity
  /\ launching' = {} /\ managed' = ~l.wake
  /\ started' = IF l.wake THEN started ELSE started \cup {l.identity}
  /\ calls' = IF ReportsFirst THEN calls ELSE Report(l.identity, l.replaced)
  /\ UNCHANGED <<serverVars, control, sessions>>

(* A launch fails by itself, or because its session report did.            *)
LaunchFails ==
  /\ launching # {} /\ launching' = {}
  /\ calls' = {c \in calls : \A l \in launching : c.identity # l.identity}
  /\ UNCHANGED <<channels, serverVars, trackerVars, control, restart, managed,
                 started, sessions>>

ReportRefused == \E l \in launching :
  /\ ReportsFirst /\ reported # l.identity
  /\ \A c \in calls : c.identity # l.identity
  /\ LaunchFails

DaemonRebinds ==
  /\ control.command = "start" /\ agent.session \in {0, proc.session}
  /\ Rebind(control.launch)
  /\ restart' = proc' /\ started' = started \cup {proc'}
  /\ calls' = Report(proc', 0)
  /\ control' = NoCommand
  /\ UNCHANGED <<serverVars, managed, launching, sessions>>

(* A Start for another session than the one that runs stops it first.      *)
DaemonReplaces ==
  /\ control.command = "start" /\ agent.session \notin {0, proc.session}
  /\ StopProcess
  /\ restart' = NoIdentity
  /\ UNCHANGED <<serverVars, control, managed, launching, started, sessions, calls>>

(* The daemon executes a Stop once a launch in flight is over.             *)
DaemonStops ==
  /\ control.command \in {"stop", "restart"} /\ launching = {}
  /\ \/ StopProcess
     \/ ~Running /\ UNCHANGED <<channels, trackerVars>>
  /\ control' = [command |-> IF control.command = "stop" THEN "none" ELSE "stopped",
                 launch |-> 0]
  /\ restart' = NoIdentity
  /\ UNCHANGED <<serverVars, managed, launching, started, sessions, calls>>

(* The server takes the result of a launch, or refuses a superseded one.   *)
StartedTaken == \E identity \in started :
  /\ started' = started \ {identity}
  /\ \/ ReceiveStarted(identity)
     \/ /\ agent.launch # identity.launch \/ agent.fence \notin {0, identity.session}
        /\ UNCHANGED <<channels, serverVars>>
  /\ UNCHANGED <<trackerVars, control, restart, managed, launching, sessions,
                 calls>>

(* The session report: repeated while the process runs, served or refused  *)
(* by the cloud, its reply received or lost.                               *)
DaemonReportsAgain ==
  /\ Running /\ calls = {}
  /\ calls' = Report(proc, 0)
  /\ UNCHANGED <<channels, serverVars, trackerVars, control, restart, managed,
                 launching, started, sessions>>

SessionServed == \E c \in calls :
  /\ ~c.served
  /\ \/ /\ AcceptSession(c.identity, c.replaced)
        /\ calls' = (calls \ {c}) \cup {[c EXCEPT !.served = TRUE]}
     \/ /\ ~SessionFits(c.identity, c.replaced)
        /\ calls' = Replied(c)
        /\ UNCHANGED <<channels, serverVars>>
  /\ UNCHANGED <<trackerVars, control, restart, managed, launching, started,
                 sessions>>

SessionReplied == \E c \in calls :
  /\ c.served /\ jobs["session"].phase = "idle"
  /\ calls' = Replied(c)
  /\ SessionReported(c.identity)
  /\ UNCHANGED <<serverVars, control, restart, managed, launching, started,
                 sessions>>

SessionReplyLost ==
  /\ \E c \in calls : calls' = Replied(c)
  /\ UNCHANGED <<channels, serverVars, trackerVars, control, restart, managed,
                 launching, started, sessions>>

(* #finishTurn: the turn that ended also reports the session again, for a  *)
(* process that a Start launched or whose provider does so itself.         *)
DaemonTurnEnds(success) ==
  /\ TurnEnd(success)
  /\ calls' = IF managed \/ ~ReportsFirst THEN Report(proc, 0) ELSE calls
  /\ UNCHANGED <<serverVars, control, restart, managed, launching, started,
                 sessions>>

DaemonReady ==
  /\ Running /\ Ready
  /\ UNCHANGED <<trackerVars, linkVars>>

DaemonCrashes ==
  /\ DaemonRestart
  /\ restart' = NoIdentity /\ managed' = FALSE /\ launching' = {} /\ started' = {} /\ calls' = {}
  /\ UNCHANGED <<serverVars, control, sessions>>

(* The course of a mention nothing happens to: it is sent, the Agent is    *)
(* started and reports its session, and is told; turns start and end, and  *)
(* each message and call that is under way arrives.                        *)
ByServer == UNCHANGED <<trackerVars, linkVars, events>>
ByTracker == UNCHANGED <<serverVars, linkVars, events>>

Issues == (\E d \in Deliveries : row[d].outcome = "none" /\ Issue(d)) /\ ByServer
StopSettles == SettleStopped(TRUE) /\ ByServer
JobRuns(k) == (JobRead(k) \/ JobWrite(k) \/ JobSend(k, {})) /\ ByServer
ReportArrives ==
  (\E m \in reports : ReceiveAck(m, TRUE) \/ ReceiveError(m, TRUE)) /\ ByServer

TrackedArrives == (\E m \in pushes : ReceiveTracked(m)) /\ ByTracker
WakeArrives ==
  /\ \E m \in pushes : \/ ReceiveUntracked(m, TRUE)
                       \/ launching = {} /\ ReceiveExited(m)
  /\ ByTracker
AnnounceEnds == (AnnounceTold \/ AnnounceGone) /\ ByTracker
TurnStarts == TurnStart /\ ByTracker
Settling ==
  (\E d \in Deliveries : SettleNext(d) \/ RedeliverySettled(d, TRUE)) /\ ByTracker
Flushing == (ReleaseHold \/ FlushSettled(TRUE)) /\ ByTracker

TurnEnds == DaemonTurnEnds(TRUE) /\ UNCHANGED events
Commanded ==
  /\ \/ (minted = 0 /\ PersonStarts) \/ AdvanceRestart
     \/ DaemonRebinds \/ DaemonReplaces \/ DaemonStops
  /\ UNCHANGED events
LaunchRuns ==
  /\ DaemonLaunches \/ DaemonWakes \/ LaunchCompletes({}) \/ ReportRefused
  /\ UNCHANGED events
ReportServed == (StartedTaken \/ SessionServed) /\ UNCHANGED events
ReplyArrives == SessionReplied /\ UNCHANGED events

Step ==
  \/ Issues \/ StopSettles \/ (\E k \in JobKinds : JobRuns(k)) \/ ReportArrives
  \/ TrackedArrives \/ WakeArrives \/ AnnounceEnds \/ TurnStarts \/ Settling
  \/ Flushing \/ TurnEnds \/ Commanded \/ LaunchRuns \/ ReportServed \/ ReplyArrives

(* What else people, the network, the provider and the machine may do at   *)
(* any moment: each is one event.                                          *)
TrackerEvent(kind) ==
  \/ kind = "read" /\ \E d \in Deliveries : Consume(d)
  \/ kind = "hold" /\ \E reason \in HoldReasons : SetHold(reason)
  \/ kind = "undelivered" /\ \E d \in Deliveries : NoticeUndelivered(d)
  \/ kind = "evict" /\ \E d \in Deliveries : Evict(d)
  \/ kind = "exit" /\ ProcessExit
  \/ /\ kind = "refusal"
     /\ \/ AnnounceRejected \/ FlushSettled(FALSE)
        \/ \E m \in pushes : ReceiveUntracked(m, FALSE)
        \/ \E d \in Deliveries : RedeliverySettled(d, FALSE)

ServerEvent(kind) ==
  \/ kind = "replay" /\ \E d \in Deliveries : row[d].outcome # "none" /\ Issue(d)
  \/ /\ kind = "failure"
     /\ \/ \E d \in Deliveries : IssueFailed(d)
        \/ SettleStopped(FALSE)
        \/ \E k \in JobKinds : \E unsent \in SUBSET Selected(k) \ {{}} : JobSend(k, unsent)
        \/ \E m \in reports : ReceiveAck(m, FALSE) \/ ReceiveError(m, FALSE)

LinkEvent(kind) ==
  \/ kind = "stop" /\ PersonStops
  \/ kind = "start" /\ PersonStarts
  \/ kind = "restart" /\ PersonRestarts
  \/ kind = "failed_turn" /\ DaemonTurnEnds(FALSE)
  \/ kind = "recovery" /\ LaunchCompletes(Deliveries \ consumed)
  \/ kind = "exit" /\ LaunchFails
  \/ kind = "reconnect" /\ DaemonReady
  \/ kind = "report_again" /\ DaemonReportsAgain
  \/ kind = "crash" /\ DaemonCrashes
  \/ /\ kind = "loss"
     /\ \/ SessionReplyLost
        \/ (LosePush \/ LoseReport) /\ UNCHANGED <<serverVars, trackerVars, linkVars>>

Event(kind) ==
  \/ TrackerEvent(kind) /\ UNCHANGED <<serverVars, linkVars>>
  \/ ServerEvent(kind) /\ UNCHANGED <<trackerVars, linkVars>>
  \/ LinkEvent(kind)

Next ==
  \/ Step
  \/ /\ events < MaxEvents
     /\ events' = events + 1
     /\ \E kind \in Events : Event(kind)

Spec == Init /\ [][Next]_vars

LinkTypeOK ==
  /\ control \in Commands /\ restart \in Envelope
  /\ managed \in BOOLEAN /\ launching \subseteq Launches /\ started \subseteq Identity
  /\ sessions \in 0..MaxSession /\ calls \subseteq Calls
  /\ events \in 0..MaxEvents

TypeOK == ProtocolTypeOK /\ TrackerTypeOK /\ ServerTypeOK /\ LinkTypeOK

(* Every message and call under way arrives, every process runs on, and    *)
(* the Agent keeps having turns; no event is owed to anyone.  The event    *)
(* loops of the daemon and the cloud and the retry of failed calls give    *)
(* this; an Agent that is never used again may keep a mention pending.     *)
FairSpec ==
  /\ Spec
  /\ WF_vars(Issues) /\ WF_vars(StopSettles) /\ WF_vars(ReportArrives)
  /\ \A k \in JobKinds : WF_vars(JobRuns(k))
  /\ WF_vars(TrackedArrives) /\ WF_vars(WakeArrives) /\ WF_vars(AnnounceEnds)
  /\ WF_vars(TurnStarts) /\ WF_vars(TurnEnds) /\ WF_vars(Settling) /\ WF_vars(Flushing)
  /\ WF_vars(Commanded) /\ WF_vars(LaunchRuns)
  /\ WF_vars(ReportServed) /\ WF_vars(ReplyArrives)

-----------------------------------------------------------------------------
(* A mention the cloud shows as delivered was in a notice some session of  *)
(* the Agent accepted, or the Agent read the message: deliver,             *)
(* settleTurnEnd and settleRedelivery against settleDrained.               *)
DeliveredMeansAccepted ==
  \A d \in Deliveries :
    row[d].outcome = "delivered" => d \in accepted \cup consumed

(* More than accepted: the notice opened a turn of its own, or the turn it *)
(* was steered into has ended; or its session then reported that it never  *)
(* showed it, or the loop an earlier turn's end left running settled it    *)
(* (#markPending and settleTurnEnd; class comment of                       *)
(* MentionDeliveryTracker).  A process that exits mid-turn shows nothing.  *)
DeliveredMeansShown ==
  \A d \in Deliveries :
    row[d].outcome = "delivered" => d \in told \cup consumed \cup doubted \cup overtaken

(* A mention is lost to a runtime error or a quota only by the daemon's    *)
(* refusal of the envelope its row still carries: a refusal of an older    *)
(* launch's push that arrives late settles nothing (settleTerminal).       *)
LostMeansRefused ==
  \A d \in Deliveries :
    row[d].reason \in {"runtime_error", "quota"} => <<d, row[d].env>> \in refused

(* Outcomes are final whatever arrives late or twice, except that an ACK   *)
(* which echoes the row's envelope overrides a person's Stop               *)
(* (settleDrained, settleTerminal, issue, reissuePending).                 *)
FinalOutcomeStep == \A d \in Deliveries :
  /\ row[d].outcome = "delivered" => row'[d].outcome = "delivered"
  /\ row[d].outcome = "lost" =>
       \/ row'[d].outcome = "lost"
       \/ row'[d].outcome = "delivered" /\ d \in stopped
FinalOutcome == [][FinalOutcomeStep]_vars

(* A re-issue has written the row's envelope and is to send it.            *)
Sends(k, d, env) ==
  /\ jobs[k].phase = "send" /\ jobs[k].identity = env
  /\ d \in (jobs[k].reissued \cap jobs[k].mentions) \ jobs[k].taken

(* What will still answer for the envelope of a mention: its push, its     *)
(* report, the announcement that is out, an entry some turn's end or       *)
(* redelivered notice is to settle, or the re-issue about to send it.      *)
UnderWay(d, env) ==
  \/ \E m \in pushes \cup reports : Pair(m) = <<d, env>>
  \/ /\ tracked[d].state = "received"
     /\ \E a \in announcing : Pair(a) = <<d, env>>
  \/ /\ tracked[d].state = "pending" /\ tracked[d].env = env
     /\ tracked[d].undelivered => d \in fallback \cup redelivering \cup silenced
  \/ \E k \in JobKinds : Sends(k, d, env)

(* A pending mention with an envelope is never dropped without a word,     *)
(* whatever overtakes, stops or restarts what (answerDrift, reissuePending *)
(* and STILL_CARRIED_SQL; refuse, settleTurnEnd and settleRedelivery),     *)
(* but for the losses the code owns up to (`forgotten`): a push, report or *)
(* settlement that failed, a forgotten daemon memory, and the push for     *)
(* another envelope that took the mention's entry along; and but for the   *)
(* held fallback notice a Stop took away (`silenced`).                     *)
PendingUnderWay ==
  \A d \in Deliveries :
    row[d].outcome = "pending" /\ row[d].env # NoIdentity =>
      UnderWay(d, row[d].env) \/ <<d, row[d].env>> \in forgotten

(* While the Agent keeps having turns, every issued mention finally leaves *)
(* `pending`: delivered, lost, or unknown for an ACK without an envelope.  *)
(* The session report at each turn's end is what brings a mention back     *)
(* that was refused, or told without its envelope, before the daemon knew  *)
(* its session (resendForCurrentSession, AgentSessions.update).            *)
MentionsSettle == \A d \in Deliveries :
  row[d].outcome = "pending" ~> row[d].outcome \in {"delivered", "lost", "unknown"}

-----------------------------------------------------------------------------
(* What the source says of itself and the code does not keep.              *)

(* mention-deliveries.server.ts:8-9, "a daemon's echoed ACK overrides a    *)
(* person's Stop settling the mention": settleStopped leaves the           *)
(* IDENTITY_DRIFT code of a re-issued mention in place, and settleDrained  *)
(* then no longer takes it for settled by the Stop.                        *)
StopYieldsToAck ==
  \A d \in echoed \cap stopped : row[d].outcome = "delivered"

(* mention-delivery-tracker.ts:110-111, "told during a turn, it stays      *)
(* pending until that turn ends": a push for another launch, newer or      *)
(* late, is refused, which forgets the entry of the one that was told.     *)
PendingUntilTurnEnd ==
  \A d \in steered : tracked[d].state \in {"received", "pending", "drained"}
=============================================================================
