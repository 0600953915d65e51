--------------------------- MODULE MentionTracker ---------------------------
(***************************************************************************)
(* The daemon's side of tracked @mention delivery for one Agent            *)
(* (mention-delivery-tracker.ts), with what its ports read: the Agent's    *)
(* process and reported session (runtime.ts), whether it is mid-turn or    *)
(* held (agent-delivery-queue.ts), what its current session accepted       *)
(* (agent-message-attention-index.ts) and what it consumed.                *)
(*                                                                         *)
(* An action is a callback run to its next await.  Pushes waiting in the   *)
(* Agent's input queue, for a runner hold or for a pending Start, are      *)
(* still in `pushes`.                                                      *)
(***************************************************************************)
EXTENDS MentionProtocol

VARIABLES
  proc,         \* launch and session of the running process, or NoIdentity
  reported,     \* #reportedSessions: the identity last reported to the server
  busy,         \* AgentDeliveryQueue #busy
  hold,         \* AgentDeliveryQueue #explicitHolds: the reason, or "none"
  held,         \* AgentDeliveryQueue #held: untracked deliveries in custody
  flushing,     \* held deliveries a coalesced notice is presenting
  notified,     \* the current attention generation's `notified`
  consumed,     \* deliveries the durable consumed cursor covers
  tracked,      \* MentionDeliveryTracker #tracked and #pending
  announcing,   \* the `deliver` awaiting `announce`: a set of at most one
  settling,     \* mentions the running settleTurnEnd loops have yet to visit
  fallback,     \* mentions in a held fallback notice (notice-undelivered)
  redelivering, \* mentions whose fallback notice is being redelivered
  accepted,     \* history: mentions a session accepted a notice of
  told,         \* history: mentions told to an idle Agent or in an ended turn
  steered,      \* history: mentions accepted into the turn still running
  doubted,      \* history: mentions a session reported it never showed
  overtaken,    \* history: mentions an older turn's loop settled mid-turn
  silenced      \* history: mentions a Stop took the held fallback notice of

turn == <<busy, hold, held, flushing, notified>>
process == <<proc, reported>>
tracking == <<tracked, announcing, settling, fallback, redelivering>>
history == <<accepted, told, steered, doubted, overtaken, silenced>>
trackerVars == <<process, turn, consumed, tracking, history>>

HoldReasons == {"rate_limit_backoff", "runtime_error_backoff"}

NoEntry == [state |-> "none", env |-> NoIdentity, undelivered |-> FALSE]
Entries == [state : {"none", "received", "pending", "drained"},
            env : Envelope, undelivered : BOOLEAN]

(* `steer`: the Agent was mid-turn; `gone`: its process has since exited.   *)
Announcements ==
  [delivery : Deliveries, env : Envelope, steer : BOOLEAN, gone : BOOLEAN]
Running == proc # NoIdentity

TrackerInit ==
  /\ proc = NoIdentity /\ reported = NoIdentity
  /\ busy = FALSE /\ hold = "none" /\ held = {} /\ flushing = {}
  /\ notified = {} /\ consumed = {}
  /\ tracked = [d \in Deliveries |-> NoEntry]
  /\ announcing = {} /\ settling = {} /\ fallback = {} /\ redelivering = {}
  /\ accepted = {} /\ told = {} /\ steered = {} /\ doubted = {}
  /\ overtaken = {} /\ silenced = {}

-----------------------------------------------------------------------------
(* The tracker's steps on one mention.                                     *)

(* #runningMentionIdentity: only the launch is compared with the process.  *)
RunningIdentity ==
  IF Running /\ reported.launch = proc.launch THEN reported ELSE NoIdentity

(* #set: a mention marked undelivered stays so until it is drained.        *)
Set(d, env, state) ==
  [tracked EXCEPT ![d] =
     [state |-> state, env |-> env,
      undelivered |-> @.undelivered /\ state # "drained"]]

(* A mention between acceptance and its outcome, and what is let go of     *)
(* with its entry when that gives way to envelope `env`, or to none.       *)
Waiting(d) == tracked[d].state \in {"received", "pending"}

Replaced(d, env) ==
  IF Waiting(d) /\ tracked[d].env # env THEN {<<d, tracked[d].env>>} ELSE {}

(* Mutant of Drain: a mention drained before is not acknowledged again.    *)
DrainOnce(d, env) ==
  /\ tracked' = IF tracked[d].state = "drained" THEN tracked
                ELSE Set(d, env, "drained")
  /\ reports' = IF tracked[d].state = "drained" THEN reports
                ELSE reports \cup {Ack(d, env)}

(* #drain and #acknowledge.                                                *)
Drain(d, env) ==
  /\ tracked' = IF tracked[d].state = "drained" THEN tracked
                ELSE Set(d, env, "drained")
  /\ reports' = reports \cup {Ack(d, env)}

(* refuse: #forget, then report why.                                       *)
Refuse(d, env, code) ==
  /\ tracked' = [tracked EXCEPT ![d] = NoEntry]
  /\ reports' = reports \cup {TerminalError(d, env, code)}

(* Mutant of MarkPending: a notice steered into a running turn is taken    *)
(* for shown at once.                                                      *)
MarkDrained(d, env) == Drain(d, env)

MarkPending(d, env) == /\ tracked' = Set(d, env, "pending")
                       /\ UNCHANGED reports

(* BLOCKED_CODES, for the holds a provider in `steer` mode can meet.       *)
BlockedCode == IF hold = "rate_limit_backoff" THEN "QUOTA_LIMITED"
               ELSE "DELIVERY_REJECTED"

(* #handleTrackedMention and deliver(), up to the announcement.  The input *)
(* queue runs one `deliver` at a time.  With no session the mention is     *)
(* dropped at once, without the queue.                                     *)
DeliverConsumed(d, env) ==
  /\ d \in consumed
  /\ Drain(d, env)
  /\ UNCHANGED <<announcing, busy>>

DeliverUnknown(d, env) ==
  /\ d \notin consumed /\ RunningIdentity = NoIdentity
  /\ Refuse(d, env, "IDENTITY_UNKNOWN")
  /\ UNCHANGED <<announcing, busy>>

(* Mutant of DeliverDrift: another launch's envelope is dropped silently.  *)
DeliverDriftSilently(d, env) ==
  /\ d \notin consumed /\ RunningIdentity \notin {NoIdentity, env}
  /\ tracked' = [tracked EXCEPT ![d] = NoEntry]
  /\ UNCHANGED <<reports, announcing, busy>>

DeliverDrift(d, env) ==
  /\ d \notin consumed /\ RunningIdentity \notin {NoIdentity, env}
  /\ Refuse(d, env, "IDENTITY_DRIFT")
  /\ UNCHANGED <<announcing, busy>>

Judged(d, env) == d \notin consumed /\ RunningIdentity = env

DeliverRepeat(d, env) ==
  /\ Judged(d, env)
  /\ \/ /\ tracked[d].state = "drained"
        /\ tracked' = [tracked EXCEPT ![d].env = env]
        /\ reports' = reports \cup {Ack(d, env)}
     \/ /\ Waiting(d) /\ tracked[d].env = env
        /\ UNCHANGED <<tracked, reports>>
  /\ UNCHANGED <<announcing, busy>>

Fresh(d, env) == /\ Judged(d, env) /\ tracked[d].state # "drained"
                 /\ tracked[d].state = "none" \/ tracked[d].env # env

DeliverTold(d, env) ==
  /\ Fresh(d, env) /\ d \in notified
  /\ IF busy THEN MarkPending(d, env) ELSE Drain(d, env)
  /\ UNCHANGED <<announcing, busy>>

DeliverBlocked(d, env) ==
  /\ Fresh(d, env) /\ d \notin notified /\ hold # "none"
  /\ Refuse(d, env, BlockedCode)
  /\ UNCHANGED <<announcing, busy>>

DeliverAnnounce(d, env) ==
  /\ Fresh(d, env) /\ d \notin notified /\ hold = "none"
  /\ tracked' = Set(d, env, "received")
  /\ announcing' = {[delivery |-> d, env |-> env, steer |-> busy, gone |-> FALSE]}
  /\ busy' = TRUE
  /\ UNCHANGED reports

ReceiveTracked(m) ==
  /\ m \in pushes /\ m.env # NoIdentity
  /\ Running => announcing = {}
  /\ pushes' = pushes \ {m}
  /\ forgotten' = forgotten \cup Replaced(m.delivery, m.env)
  /\ \/ DeliverConsumed(m.delivery, m.env)
     \/ DeliverUnknown(m.delivery, m.env)
     \/ DeliverDrift(m.delivery, m.env)
     \/ DeliverRepeat(m.delivery, m.env)
     \/ DeliverTold(m.delivery, m.env)
     \/ DeliverBlocked(m.delivery, m.env)
     \/ DeliverAnnounce(m.delivery, m.env)
  /\ UNCHANGED <<process, hold, held, flushing, notified, consumed,
                 settling, fallback, redelivering, history>>

(* announce() resolved `told`.  A mention settled meanwhile is left alone. *)
(* A notice accepted while the turn runs is in that turn; otherwise it     *)
(* opened a turn of its own.                                               *)
AnnounceTold == \E a \in announcing :
  LET d == a.delivery IN
  /\ ~a.gone
  /\ announcing' = {}
  /\ notified' = notified \cup {d} /\ accepted' = accepted \cup {d}
  /\ IF tracked[d].state # "received" THEN UNCHANGED <<tracked, reports>>
     ELSE IF a.steer THEN MarkPending(d, a.env) ELSE Drain(d, a.env)
  /\ IF a.steer /\ busy /\ d \in fallback THEN UNCHANGED <<told, steered>>
     ELSE IF a.steer /\ busy
     THEN steered' = steered \cup {d} /\ UNCHANGED told
     ELSE told' = told \cup {d} /\ UNCHANGED steered
  /\ UNCHANGED <<pushes, forgotten, process, busy, hold, held, flushing, consumed,
                 settling, fallback, redelivering, doubted, overtaken, silenced>>

(* announce() resolved `gone`: the generation it told is over.             *)
AnnounceGone == \E a \in announcing :
  LET d == a.delivery IN
  /\ a.gone
  /\ announcing' = {}
  /\ IF tracked[d].state # "received" THEN UNCHANGED <<tracked, reports>>
     ELSE Refuse(d, a.env, IF RunningIdentity \notin {NoIdentity, a.env}
                           THEN "IDENTITY_DRIFT" ELSE "DELIVERY_REJECTED")
  /\ UNCHANGED <<pushes, forgotten, process, turn, consumed, settling, fallback,
                 redelivering, history>>

(* announce() rejected: the session refused the notice.                    *)
AnnounceRejected == \E a \in announcing :
  /\ announcing' = {}
  /\ Refuse(a.delivery, a.env, "DELIVERY_REJECTED")
  /\ UNCHANGED <<pushes, forgotten, process, turn, consumed, settling, fallback,
                 redelivering, history>>

(* A session takes a notice of its own turn for the deliveries in S.        *)
Tell(S) == /\ notified' = notified \cup S
           /\ accepted' = accepted \cup S /\ told' = told \cup S

(* receive(): a delivery without an envelope.  The push leaves `pushes`    *)
(* unacknowledged when the session does not take its notice.               *)
ReceiveUntracked(m, taken) ==
  LET d == m.delivery IN
  /\ m \in pushes /\ m.env = NoIdentity
  /\ Running /\ announcing = {}
  /\ pushes' = pushes \ {m}
  /\ \/ /\ d \in notified \cup consumed
        /\ reports' = reports \cup {Ack(d, NoIdentity)}
        /\ UNCHANGED <<busy, held, notified, accepted, told>>
     \/ /\ d \notin notified \cup consumed /\ hold # "none"
        /\ held' = held \cup {d}
        /\ reports' = reports \cup {Ack(d, NoIdentity)}
        /\ UNCHANGED <<busy, notified, accepted, told>>
     \/ /\ d \notin notified \cup consumed /\ hold = "none"
        /\ busy' = TRUE
        /\ IF taken
           THEN /\ Tell({d})
                /\ reports' = reports \cup {Ack(d, NoIdentity)}
           ELSE UNCHANGED <<notified, accepted, told, reports>>
        /\ UNCHANGED held
  /\ UNCHANGED <<forgotten, process, hold, flushing, consumed, tracking, steered,
                 doubted, overtaken, silenced>>

(* #deliverToExitedAgent: acknowledged when consumed or taken into custody *)
(* for the next launch; otherwise the push waits for the launch it wakes.  *)
ReceiveExited(m) ==
  /\ m \in pushes /\ m.env = NoIdentity /\ ~Running
  /\ pushes' = pushes \ {m}
  /\ reports' = reports \cup {Ack(m.delivery, NoIdentity)}
  /\ held' = IF m.delivery \in consumed THEN held ELSE held \cup {m.delivery}
  /\ UNCHANGED <<forgotten, process, busy, hold, flushing, notified, consumed,
                 tracking, history>>

-----------------------------------------------------------------------------
(* Turns, holds and notices.                                               *)

(* A runtime event other than completion: the Agent is mid-turn.           *)
TurnStart ==
  /\ Running /\ ~busy
  /\ busy' = TRUE
  /\ UNCHANGED <<channels, process, hold, held, flushing, notified, consumed,
                 tracking, history>>

(* Mutant of SettleTurnEnd: a later turn's end drains what an earlier turn *)
(* that died was told.                                                     *)
DrainAtTurnEnd(d) == Drain(d, tracked[d].env)

(* One pass of settleTurnEnd's loop over a mention it finds tracked and    *)
(* not marked undelivered.                                                 *)
SettleTurnEnd(d) ==
  IF d \in notified \cup consumed THEN Drain(d, tracked[d].env)
  ELSE Refuse(d, tracked[d].env, "DELIVERY_REJECTED")

Settleable(d) == tracked[d].state # "none" /\ ~tracked[d].undelivered

(* The mentions settleTurnEnd starts from, those its loop will pass over   *)
(* included: it asks of each one whether it is undelivered when it comes   *)
(* to it (SettleNext).                                                     *)
PendingAtTurnEnd == {d \in Deliveries : tracked[d].state = "pending"}

(* The `completed` event: the queue goes idle and flushes what it held,    *)
(* fallback notices are redelivered, and settleTurnEnd runs to its first   *)
(* await.  Only a successful turn lifts a hold.                            *)
TurnEnd(success) ==
  /\ Running /\ busy
  /\ hold' = IF success THEN "none" ELSE hold
  /\ IF hold' = "none"
     THEN /\ held' = {} /\ flushing' = flushing \cup held
          /\ busy' = (held # {})
     ELSE busy' = FALSE /\ UNCHANGED <<held, flushing>>
  /\ fallback' = {} /\ redelivering' = redelivering \cup fallback
  /\ told' = told \cup steered /\ steered' = {}
  /\ \/ /\ \A d \in PendingAtTurnEnd : ~Settleable(d)
        /\ UNCHANGED <<tracked, reports, settling>>
     \/ \E d \in PendingAtTurnEnd :
          /\ Settleable(d) /\ SettleTurnEnd(d)
          /\ settling' = settling \cup (PendingAtTurnEnd \ {d})
  /\ UNCHANGED <<pushes, forgotten, process, notified, consumed, announcing,
                 accepted, doubted, overtaken, silenced>>

(* settleTurnEnd resumes after an acknowledgement: the mention is judged   *)
(* by what it is now.                                                      *)
SettleNext(d) ==
  /\ d \in settling
  /\ settling' = settling \ {d}
  /\ IF Settleable(d)
     THEN SettleTurnEnd(d) /\ overtaken' = overtaken \cup ({d} \cap steered)
     ELSE UNCHANGED <<tracked, reports, overtaken>>
  /\ UNCHANGED <<pushes, forgotten, process, turn, consumed, announcing, fallback,
                 redelivering, accepted, told, steered, doubted, silenced>>

(* notice-undelivered: a steered notice never reached the model.           *)
NoticeUndelivered(d) ==
  /\ Running /\ busy
  /\ \/ d \in steered
     \/ \E a \in announcing : a.delivery = d /\ a.steer /\ ~a.gone
  /\ fallback' = fallback \cup {d}
  /\ steered' = steered \ {d} /\ doubted' = doubted \cup {d}
  /\ tracked' = IF tracked[d].state \in {"none", "drained"} THEN tracked
                ELSE [tracked EXCEPT ![d].undelivered = TRUE]
  /\ UNCHANGED <<channels, process, turn, consumed, announcing, settling,
                 redelivering, accepted, told, overtaken, silenced>>

(* A redelivered fallback notice was taken or refused: settleRedelivery.   *)
RedeliverySettled(d, taken) ==
  /\ d \in redelivering
  /\ redelivering' = redelivering \ {d}
  /\ IF taken
     THEN accepted' = accepted \cup {d} /\ told' = told \cup {d}
     ELSE UNCHANGED <<accepted, told>>
  /\ IF ~tracked[d].undelivered THEN UNCHANGED <<tracked, reports>>
     ELSE IF taken THEN Drain(d, tracked[d].env)
     ELSE Refuse(d, tracked[d].env, "DELIVERY_REJECTED")
  /\ UNCHANGED <<pushes, forgotten, process, turn, consumed, announcing, settling,
                 fallback, steered, doubted, overtaken, silenced>>

(* A runtime-error backoff or fence begins, and ends.  What an exited      *)
(* Agent's expiring backoff releases finds no session and is dropped.      *)
SetHold(reason) ==
  /\ Running /\ hold = "none"
  /\ hold' = reason
  /\ UNCHANGED <<channels, process, busy, held, flushing, notified, consumed,
                 tracking, history>>

ReleaseHold ==
  /\ hold # "none"
  /\ hold' = "none"
  /\ IF busy \/ held = {} THEN UNCHANGED <<busy, held, flushing>>
     ELSE /\ held' = {} /\ busy' = Running
          /\ flushing' = IF Running THEN flushing \cup held ELSE flushing
  /\ UNCHANGED <<channels, process, notified, consumed, tracking, history>>

(* The coalesced notice of a flush was taken or refused.                   *)
FlushSettled(taken) ==
  /\ flushing # {}
  /\ flushing' = {}
  /\ IF taken THEN Tell(flushing) ELSE UNCHANGED <<notified, accepted, told>>
  /\ UNCHANGED <<channels, process, busy, hold, held, consumed, tracking,
                 steered, doubted, overtaken, silenced>>

(* The Agent reads the message: the consumed cursor covers it from now on. *)
Consume(d) ==
  /\ Running /\ d \notin consumed
  /\ consumed' = consumed \cup {d}
  /\ UNCHANGED <<channels, process, turn, tracking, history>>

(* #set at REMEMBERED_MENTIONS: mentions this model does not follow pushed *)
(* the entry out.                                                          *)
Evict(d) ==
  /\ tracked[d].state # "none"
  /\ tracked' = [tracked EXCEPT ![d] = NoEntry]
  /\ forgotten' = forgotten \cup Replaced(d, NoIdentity)
  /\ UNCHANGED <<pushes, reports, process, turn, consumed, announcing, settling,
                 fallback, redelivering, history>>

-----------------------------------------------------------------------------
(* The Agent's process.                                                    *)

(* #startAgent and #launchAgent: a new attention generation.  A recovery   *)
(* notice tells the unread deliveries in `recovered` and replaces what     *)
(* survived in the queue; without one the queue is flushed.                *)
Launch(identity, recovered) ==
  /\ ~Running
  /\ proc' = identity
  /\ notified' = recovered /\ steered' = {}
  /\ accepted' = accepted \cup recovered /\ told' = told \cup recovered
  /\ IF recovered # {} \/ hold = "none"
     THEN /\ busy' = (recovered \cup held # {})
          /\ held' = {}
          /\ flushing' = IF recovered = {} THEN held ELSE {}
     ELSE busy' = FALSE /\ UNCHANGED <<held, flushing>>
  /\ fallback' = {} /\ redelivering' = redelivering \cup fallback
  /\ UNCHANGED <<channels, reported, hold, consumed, tracked, announcing,
                 settling, doubted, overtaken, silenced>>

(* #rebindAgent: a Start met a running process, which takes its launch id. *)
Rebind(launch) ==
  /\ Running /\ proc.launch # launch
  /\ proc' = [proc EXCEPT !.launch = launch]
  /\ UNCHANGED <<channels, reported, turn, consumed, tracking, history>>

(* #reportAgentSession resumes: the server took the report.                *)
SessionReported(identity) ==
  /\ reported' = identity
  /\ UNCHANGED <<channels, proc, turn, consumed, tracking, history>>

(* The attention generation ends with its process.                         *)
EndGeneration ==
  /\ proc' = NoIdentity
  /\ busy' = FALSE /\ notified' = {} /\ flushing' = {} /\ steered' = {}

(* onExit: what is held stays held for the next launch.                    *)
ProcessExit ==
  /\ Running
  /\ EndGeneration
  /\ announcing' = {[a EXCEPT !.gone = TRUE] : a \in announcing}
  /\ UNCHANGED <<channels, reported, hold, held, consumed, tracked, settling,
                 fallback, redelivering, accepted, told, doubted,
                 overtaken, silenced>>

(* stopAgent, once its input drain ended: the queue forgets the Agent, and *)
(* with it the notice that was to settle a mention marked undelivered.     *)
StopProcess ==
  /\ Running /\ announcing = {}
  /\ EndGeneration
  /\ hold' = "none" /\ held' = {} /\ fallback' = {}
  /\ silenced' = silenced \cup {d \in fallback : tracked[d].undelivered}
  /\ UNCHANGED <<channels, reported, consumed, tracked, announcing, settling,
                 redelivering, accepted, told, doubted, overtaken>>

(* The daemon process restarts: only the consumed cursor is on disk.       *)
DaemonRestart ==
  /\ EndGeneration
  /\ reported' = NoIdentity /\ hold' = "none" /\ held' = {}
  /\ tracked' = [d \in Deliveries |-> NoEntry]
  /\ forgotten' = forgotten \cup UNION {Replaced(d, NoIdentity) : d \in Deliveries}
  /\ announcing' = {} /\ settling' = {} /\ fallback' = {} /\ redelivering' = {}
  /\ UNCHANGED <<pushes, reports, consumed, accepted, told, doubted, overtaken,
                 silenced>>

-----------------------------------------------------------------------------
TrackerTypeOK ==
  /\ proc \in Envelope /\ reported \in Envelope
  /\ busy \in BOOLEAN /\ hold \in HoldReasons \cup {"none"}
  /\ \A S \in {held, flushing, notified, consumed, settling, fallback,
              redelivering, accepted, told, steered, doubted, overtaken,
              silenced} :
        S \subseteq Deliveries
  /\ tracked \in [Deliveries -> Entries]
  /\ announcing \subseteq Announcements
=============================================================================
