-------------------------- MODULE MentionShownProofs --------------------------
(***************************************************************************)
(* A mention the cloud shows as delivered was shown to the Agent, not just *)
(* accepted into a turn that may still die: what a session accepted is     *)
(* taken for shown only when its turn is over.  And a pending mention is   *)
(* never dropped without a word: something that will answer for its        *)
(* envelope is under way, or it was let go of by name.                     *)
(***************************************************************************)
EXTENDS MentionProofs

(* What the Agent was shown, read, was reported not to have been shown, or *)
(* a loop of an earlier turn settled.                                      *)
Shown == told \cup consumed \cup doubted \cup overtaken

(* A notice of the current generation is either shown or in the turn that  *)
(* still runs, and only a running turn has such notices.                   *)
NotifiedMeansShown == notified \subseteq Shown \cup steered
SteeredMeansBusy == steered # {} => busy

(* The notice that waits for redelivery was reported as never shown.       *)
FallbackMeansDoubted == fallback \subseteq doubted

(* Only a mention shown is drained, and only its ACK names an envelope.    *)
DrainedMeansShown == \A d \in Deliveries : tracked[d].state = "drained" => d \in Shown
AckMeansShown == \A m \in reports : TrackedAck(m) => m.delivery \in Shown

NoticesKept == NotifiedMeansShown /\ SteeredMeansBusy /\ FallbackMeansDoubted
EntriesKept == DrainedMeansShown /\ AckMeansShown

ShownInv == NoticesKept /\ EntriesKept /\ DeliveredMeansShown

(* The daemon's step takes nothing back from what was shown.               *)
ShownGrows == Shown \subseteq Shown'

LEMMA ShownGrowsStep ==
  ASSUME ReceiveStep \/ TurnStep \/ ProcessStep
  PROVE  ShownGrows
<1>1. CASE ReceiveStep
  BY <1>1 DEF ReceiveStep, ReceiveTracked, ReceiveExited, ReceiveUntracked, Tell, history,
     ShownGrows, Shown
<1>2. CASE TurnStep
  BY <1>2 DEF TurnStep, AnnounceTold, AnnounceGone, AnnounceRejected, TurnStart, TurnEnd,
     SettleNext, NoticeUndelivered, Consume, Evict, RedeliverySettled, SetHold, ReleaseHold,
     FlushSettled, Tell, history, ShownGrows, Shown
<1>3. CASE ProcessStep
  BY <1>3 DEF ProcessStep, Launch, Rebind, SessionReported, ProcessExit, StopProcess,
     DaemonRestart, history, ShownGrows, Shown
<1>4. QED
  BY <1>1, <1>2, <1>3

-----------------------------------------------------------------------------
(* The steps of the tracker on one mention.                                *)

LEMMA UnchangedEntries ==
  ASSUME EntriesKept, ShownGrows, UNCHANGED tracked,
         \A m \in reports' : TrackedAck(m) => m \in reports
  PROVE  EntriesKept'
  BY DEF EntriesKept, DrainedMeansShown, AckMeansShown, TrackedAck, ShownGrows

LEMMA DrainShown ==
  ASSUME TypeOK, EntriesKept, ShownGrows, NEW d \in Deliveries, NEW env, Drain(d, env),
         d \in Shown'
  PROVE  EntriesKept'
<1>1. tracked \in [Deliveries -> Entries]
  BY DEF TypeOK, TrackerTypeOK
<1>2. DrainedMeansShown'
  BY <1>1 DEF EntriesKept, DrainedMeansShown, Drain, Set, ShownGrows
<1>3. AckMeansShown'
  BY DEF EntriesKept, AckMeansShown, TrackedAck, Drain, Ack, ShownGrows
<1>4. QED
  BY <1>2, <1>3 DEF EntriesKept

LEMMA RefuseShown ==
  ASSUME TypeOK, EntriesKept, ShownGrows, NEW d \in Deliveries, NEW env, NEW code,
         Refuse(d, env, code)
  PROVE  EntriesKept'
<1>1. tracked \in [Deliveries -> Entries]
  BY DEF TypeOK, TrackerTypeOK
<1>2. DrainedMeansShown'
  BY <1>1 DEF EntriesKept, DrainedMeansShown, Refuse, NoEntry, ShownGrows
<1>3. AckMeansShown'
  BY DEF EntriesKept, AckMeansShown, TrackedAck, Refuse, TerminalError, ShownGrows
<1>4. QED
  BY <1>2, <1>3 DEF EntriesKept

(* An entry changes to another state than drained, or stays as it was.     *)
LEMMA EntryShown ==
  ASSUME TypeOK, EntriesKept, ShownGrows, NEW d \in Deliveries, NEW e,
         tracked' = [tracked EXCEPT ![d] = e],
         e.state = "drained" => tracked[d].state = "drained", UNCHANGED reports
  PROVE  EntriesKept'
<1>1. tracked \in [Deliveries -> Entries]
  BY DEF TypeOK, TrackerTypeOK
<1>2. DrainedMeansShown'
  BY <1>1 DEF EntriesKept, DrainedMeansShown, ShownGrows
<1>3. AckMeansShown'
  BY DEF EntriesKept, AckMeansShown, TrackedAck, ShownGrows
<1>4. QED
  BY <1>2, <1>3 DEF EntriesKept

(* markPending keeps the mention until the turn's end.                     *)
LEMMA MarkPendingShown ==
  ASSUME TypeOK, EntriesKept, ShownGrows, NEW d \in Deliveries, NEW env, MarkPending(d, env)
  PROVE  EntriesKept'
  BY EntryShown DEF MarkPending, Set

-----------------------------------------------------------------------------
(* What the current generation was told.                                   *)

(* A turn goes on, and no notice is added to it.                           *)
LEMMA NoticesUntouched ==
  ASSUME NoticesKept, ShownGrows, UNCHANGED <<notified, steered, fallback, doubted>>, busy => busy'
  PROVE  NoticesKept'
  BY DEF NoticesKept, NotifiedMeansShown, SteeredMeansBusy, FallbackMeansDoubted, ShownGrows

(* A notice of a turn of its own is shown at once.                         *)
LEMMA TellNotices ==
  ASSUME NoticesKept, ShownGrows, NEW S, Tell(S), UNCHANGED <<steered, fallback, doubted>>,
         busy => busy'
  PROVE  NoticesKept'
<1>1. S \subseteq Shown'
  BY DEF Tell, Shown
<1>2. NotifiedMeansShown'
  BY <1>1 DEF Tell, NoticesKept, NotifiedMeansShown, ShownGrows
<1>3. QED
  BY <1>2 DEF NoticesKept, SteeredMeansBusy, FallbackMeansDoubted

(* The generation's process is gone, and its notices with it.              *)
LEMMA EndNotices ==
  ASSUME NoticesKept, EndGeneration, UNCHANGED doubted, fallback' \subseteq fallback
  PROVE  NoticesKept'
  BY DEF NoticesKept, EndGeneration, NotifiedMeansShown, SteeredMeansBusy, FallbackMeansDoubted

-----------------------------------------------------------------------------
LEMMA ReceiveTrackedShown ==
  ASSUME TypeOK, ShownInv, NEW m \in pushes, ReceiveTracked(m), ShownGrows
  PROVE  NoticesKept' /\ EntriesKept'
<1> DEFINE d == m.delivery
<1>1. /\ d \in Deliveries /\ tracked \in [Deliveries -> Entries] /\ busy \in BOOLEAN
  BY DEF TypeOK, ProtocolTypeOK, Pushes, TrackerTypeOK
<1>2. UNCHANGED <<notified, consumed, fallback, accepted, told, steered, doubted, overtaken>>
  BY DEF ReceiveTracked, history
<1>3. NoticesKept /\ EntriesKept /\ Shown' = Shown
  BY <1>2 DEF ShownInv, Shown
<1>4. busy => busy'
  BY DEF ReceiveTracked, DeliverConsumed, DeliverUnknown, DeliverDrift, DeliverRepeat,
     DeliverTold, DeliverBlocked, DeliverAnnounce
<1>5. NoticesKept'
  BY <1>2, <1>3, <1>4, NoticesUntouched
<1>6. CASE DeliverConsumed(d, m.env)
  BY <1>1, <1>2, <1>3, <1>5, <1>6, DrainShown DEF DeliverConsumed, Shown
<1>7. CASE DeliverUnknown(d, m.env) \/ DeliverDrift(d, m.env) \/ DeliverBlocked(d, m.env)
  BY <1>1, <1>3, <1>5, <1>7, RefuseShown DEF DeliverUnknown, DeliverDrift, DeliverBlocked
<1>8. CASE DeliverRepeat(d, m.env)
  <2>1. CASE tracked[d].state = "drained"
    <3>1. d \in Shown
      BY <1>1, <1>3, <2>1 DEF EntriesKept, DrainedMeansShown
    <3>2. \A e \in Deliveries \ {d} : tracked'[e] = tracked[e]
      BY <1>1, <1>8 DEF DeliverRepeat
    <3>3. DrainedMeansShown'
      BY <1>3, <3>1, <3>2 DEF EntriesKept, DrainedMeansShown
    <3>4. AckMeansShown'
      BY <1>3, <1>8, <2>1, <3>1 DEF DeliverRepeat, EntriesKept, AckMeansShown, TrackedAck, Ack
    <3>5. QED
      BY <1>5, <3>3, <3>4 DEF EntriesKept
  <2>2. CASE UNCHANGED <<tracked, reports>>
    BY <1>3, <1>5, <2>2, UnchangedEntries
  <2>3. QED
    BY <1>8, <2>1, <2>2 DEF DeliverRepeat
<1>9. CASE DeliverTold(d, m.env)
  <2>1. CASE busy
    BY <1>1, <1>3, <1>5, <1>9, <2>1, MarkPendingShown DEF DeliverTold
  <2>2. CASE ~busy
    <3>1. d \in Shown'
      BY <1>3, <1>9, <2>2 DEF DeliverTold, NoticesKept, NotifiedMeansShown, SteeredMeansBusy
    <3>2. QED
      BY <1>1, <1>3, <1>5, <1>9, <2>2, <3>1, DrainShown DEF DeliverTold
  <2>3. QED
    BY <2>1, <2>2
<1>10. CASE DeliverAnnounce(d, m.env)
  BY <1>1, <1>3, <1>5, <1>10, EntryShown DEF DeliverAnnounce, Set
<1>11. QED
  BY <1>5, <1>6, <1>7, <1>8, <1>9, <1>10 DEF ReceiveTracked

LEMMA ReceiveShown ==
  ASSUME TypeOK, ShownInv, ReceiveStep, ShownGrows
  PROVE  NoticesKept' /\ EntriesKept'
<1>1. PICK m \in pushes : \/ ReceiveTracked(m) \/ ReceiveExited(m)
                         \/ \E taken \in BOOLEAN : ReceiveUntracked(m, taken)
  BY DEF ReceiveStep
<1>2. NoticesKept /\ EntriesKept
  BY DEF ShownInv
<1>3. \A d, n : n = Ack(d, NoIdentity) => ~TrackedAck(n)
  BY DEF Ack, TrackedAck
<1>4. CASE ReceiveTracked(m)
  BY <1>4, ReceiveTrackedShown
<1>5. CASE ReceiveExited(m)
  <2>1. /\ UNCHANGED <<notified, steered, fallback, doubted, busy, tracked>>
        /\ \A n \in reports' : TrackedAck(n) => n \in reports
    BY <1>3, <1>5 DEF ReceiveExited, tracking, history
  <2>2. QED
    BY <1>2, <2>1, NoticesUntouched, UnchangedEntries
<1>6. ASSUME NEW taken \in BOOLEAN, ReceiveUntracked(m, taken)
      PROVE  NoticesKept' /\ EntriesKept'
  <2>1. /\ UNCHANGED <<steered, fallback, doubted, tracked>>
        /\ busy => busy'
        /\ \A n \in reports' : TrackedAck(n) => n \in reports
    BY <1>3, <1>6 DEF ReceiveUntracked, tracking
  <2>2. UNCHANGED notified \/ Tell({m.delivery})
    BY <1>6 DEF ReceiveUntracked
  <2>3. NoticesKept'
    BY <1>2, <2>1, <2>2, NoticesUntouched, TellNotices
  <2>4. QED
    BY <1>2, <2>1, <2>3, UnchangedEntries
<1>7. QED
  BY <1>1, <1>4, <1>5, <1>6

-----------------------------------------------------------------------------
(* announce() resolved: a notice steered into a running turn is pending, a *)
(* notice that opened a turn of its own is shown.                          *)
LEMMA AnnounceToldShown ==
  ASSUME TypeOK, ShownInv, AnnounceTold, ShownGrows
  PROVE  NoticesKept' /\ EntriesKept'
<1>1. PICK a \in announcing :
        LET d == a.delivery IN
        /\ notified' = notified \cup {d}
        /\ IF tracked[d].state # "received" THEN UNCHANGED <<tracked, reports>>
           ELSE IF a.steer THEN MarkPending(d, a.env) ELSE Drain(d, a.env)
        /\ IF a.steer /\ busy /\ d \in fallback THEN UNCHANGED <<told, steered>>
           ELSE IF a.steer /\ busy
           THEN steered' = steered \cup {d} /\ UNCHANGED told
           ELSE told' = told \cup {d} /\ UNCHANGED steered
  BY DEF AnnounceTold
<1> DEFINE d == a.delivery
<1>2. /\ d \in Deliveries /\ a.steer \in BOOLEAN /\ busy \in BOOLEAN
      /\ NoticesKept /\ EntriesKept
  BY DEF TypeOK, TrackerTypeOK, Announcements, ShownInv
<1>3. UNCHANGED <<busy, consumed, fallback, doubted, overtaken>>
  BY DEF AnnounceTold
<1>4. d \in Shown' \cup steered'
  BY <1>1, <1>2, <1>3 DEF Shown, NoticesKept, FallbackMeansDoubted
<1>5. steered \subseteq steered' /\ (steered' # steered => busy)
  BY <1>1
<1>6. NoticesKept'
  <2>1. NotifiedMeansShown'
    BY <1>1, <1>2, <1>4, <1>5 DEF NoticesKept, NotifiedMeansShown, ShownGrows
  <2>2. SteeredMeansBusy'
    BY <1>2, <1>3, <1>5 DEF NoticesKept, SteeredMeansBusy
  <2>3. FallbackMeansDoubted'
    BY <1>2, <1>3 DEF NoticesKept, FallbackMeansDoubted
  <2>4. QED
    BY <2>1, <2>2, <2>3 DEF NoticesKept
<1>7. CASE UNCHANGED <<tracked, reports>>
  BY <1>2, <1>6, <1>7, UnchangedEntries
<1>8. CASE MarkPending(d, a.env)
  BY <1>2, <1>6, <1>8, MarkPendingShown
<1>9. CASE ~a.steer /\ Drain(d, a.env)
  <2>1. d \in Shown'
    BY <1>1, <1>9 DEF Shown
  <2>2. QED
    BY <1>2, <1>6, <1>9, <2>1, DrainShown
<1>10. QED
  BY <1>1, <1>7, <1>8, <1>9

(* settleTurnEnd drains only what the generation was told or the Agent read. *)
LEMMA SettleTurnEndShown ==
  ASSUME TypeOK, EntriesKept, ShownGrows, NEW d \in Deliveries, SettleTurnEnd(d),
         d \in notified \cup consumed => d \in Shown'
  PROVE  EntriesKept'
  BY DrainShown, RefuseShown DEF SettleTurnEnd

(* The turn is over, and what was steered into it is shown.                *)
LEMMA TurnEndShown ==
  ASSUME TypeOK, ShownInv, NEW success \in BOOLEAN, TurnEnd(success), ShownGrows
  PROVE  NoticesKept' /\ EntriesKept'
<1>1. /\ NoticesKept /\ EntriesKept
      /\ UNCHANGED <<notified, doubted, consumed, overtaken>> /\ fallback' = {}
      /\ told' = told \cup steered /\ steered' = {}
  BY DEF TurnEnd, ShownInv
<1>2. notified \cup consumed \subseteq Shown'
  BY <1>1 DEF NoticesKept, NotifiedMeansShown, Shown
<1>3. NoticesKept'
  BY <1>1, <1>2 DEF NoticesKept, NotifiedMeansShown, SteeredMeansBusy, FallbackMeansDoubted
<1>4. UNCHANGED <<tracked, reports>> \/ \E d \in Deliveries : SettleTurnEnd(d)
  BY DEF TurnEnd, PendingAtTurnEnd
<1>5. QED
  BY <1>1, <1>2, <1>3, <1>4, SettleTurnEndShown, UnchangedEntries

(* A loop that an earlier turn's end left running meets a mention of the   *)
(* turn that runs now.                                                     *)
LEMMA SettleNextShown ==
  ASSUME TypeOK, ShownInv, NEW d \in Deliveries, SettleNext(d), ShownGrows
  PROVE  NoticesKept' /\ EntriesKept'
<1>1. /\ NoticesKept /\ EntriesKept
      /\ UNCHANGED <<busy, notified, steered, fallback, doubted>>
  BY DEF SettleNext, turn, ShownInv
<1>2. NoticesKept'
  BY <1>1, NoticesUntouched
<1>3. CASE UNCHANGED <<tracked, reports>>
  BY <1>1, <1>2, <1>3, UnchangedEntries
<1>4. CASE SettleTurnEnd(d) /\ overtaken' = overtaken \cup ({d} \cap steered)
  <2>1. d \in notified \cup consumed => d \in Shown'
    BY <1>1, <1>4 DEF NoticesKept, NotifiedMeansShown, Shown, ShownGrows
  <2>2. QED
    BY <1>1, <1>2, <1>4, <2>1, SettleTurnEndShown
<1>5. QED
  BY <1>3, <1>4 DEF SettleNext

LEMMA NoticeUndeliveredShown ==
  ASSUME TypeOK, ShownInv, NEW d \in Deliveries, NoticeUndelivered(d), ShownGrows
  PROVE  NoticesKept' /\ EntriesKept'
<1>1. /\ NoticesKept /\ EntriesKept /\ tracked \in [Deliveries -> Entries]
      /\ UNCHANGED <<busy, notified, reports>> /\ fallback' = fallback \cup {d}
      /\ doubted' = doubted \cup {d} /\ steered' = steered \ {d}
  BY DEF NoticeUndelivered, turn, channels, ShownInv, TypeOK, TrackerTypeOK
<1>2. d \in Shown'
  BY <1>1 DEF Shown
<1>3. NoticesKept'
  BY <1>1, <1>2 DEF NoticesKept, NotifiedMeansShown, SteeredMeansBusy, FallbackMeansDoubted,
     ShownGrows
<1>4. CASE UNCHANGED tracked
  BY <1>1, <1>3, <1>4, UnchangedEntries
<1>5. CASE tracked' = [tracked EXCEPT ![d] = [tracked[d] EXCEPT !.undelivered = TRUE]]
  <2>1. [tracked[d] EXCEPT !.undelivered = TRUE].state = tracked[d].state
    BY <1>1 DEF Entries
  <2>2. QED
    BY <1>1, <1>3, <1>5, <2>1, EntryShown
<1>6. QED
  BY <1>1, <1>4, <1>5 DEF NoticeUndelivered

(* The remaining steps of announcements, redeliveries and the entries.     *)
LEMMA EntryStepShown ==
  ASSUME TypeOK, ShownInv, ShownGrows,
         \/ AnnounceGone \/ AnnounceRejected
         \/ \E d \in Deliveries : \/ Evict(d)
                                 \/ \E taken \in BOOLEAN : RedeliverySettled(d, taken)
  PROVE  NoticesKept' /\ EntriesKept'
<1>1. /\ NoticesKept /\ EntriesKept /\ tracked \in [Deliveries -> Entries]
      /\ \A a \in announcing : a.delivery \in Deliveries
  BY DEF ShownInv, TypeOK, TrackerTypeOK, Announcements
<1>2. UNCHANGED <<busy, notified, steered, fallback, doubted>>
  BY DEF AnnounceGone, AnnounceRejected, Evict, RedeliverySettled, turn, history
<1>3. NoticesKept'
  BY <1>1, <1>2, NoticesUntouched
<1>4. CASE AnnounceGone \/ AnnounceRejected
  <2>1. \/ UNCHANGED <<tracked, reports>>
        \/ \E a \in announcing : \E code : Refuse(a.delivery, a.env, code)
    BY <1>4 DEF AnnounceGone, AnnounceRejected
  <2>2. QED
    BY <1>1, <1>3, <2>1, RefuseShown, UnchangedEntries
<1>5. ASSUME NEW d \in Deliveries, Evict(d)
      PROVE  EntriesKept'
  <2>1. tracked' = [tracked EXCEPT ![d] = NoEntry] /\ UNCHANGED reports
    BY <1>5 DEF Evict, channels
  <2>2. QED
    BY <1>1, <2>1, EntryShown DEF NoEntry
<1>6. ASSUME NEW d \in Deliveries, NEW taken \in BOOLEAN, RedeliverySettled(d, taken)
      PROVE  EntriesKept'
  <2>1. taken => d \in Shown'
    BY <1>6 DEF RedeliverySettled, Shown
  <2>2. \/ UNCHANGED <<tracked, reports>>
        \/ taken /\ Drain(d, tracked[d].env)
        \/ Refuse(d, tracked[d].env, "DELIVERY_REJECTED")
    BY <1>6 DEF RedeliverySettled
  <2>3. QED
    BY <1>1, <2>1, <2>2, DrainShown, RefuseShown, UnchangedEntries
<1>7. QED
  BY <1>3, <1>4, <1>5, <1>6

LEMMA QueueStepShown ==
  ASSUME TypeOK, ShownInv, ShownGrows,
         \/ TurnStart \/ ReleaseHold
         \/ \E d \in Deliveries : Consume(d)
         \/ \E reason \in HoldReasons : SetHold(reason)
         \/ \E taken \in BOOLEAN : FlushSettled(taken)
  PROVE  NoticesKept' /\ EntriesKept'
<1>1. /\ NoticesKept /\ EntriesKept
      /\ UNCHANGED <<tracked, reports, steered, fallback, doubted>>
      /\ busy => busy'
  BY DEF ShownInv, TurnStart, ReleaseHold, Consume, SetHold, FlushSettled, channels, turn,
     tracking, history
<1>2. UNCHANGED notified \/ Tell(flushing)
  BY DEF TurnStart, ReleaseHold, Consume, SetHold, FlushSettled, turn
<1>3. NoticesKept'
  BY <1>1, <1>2, NoticesUntouched, TellNotices
<1>4. QED
  BY <1>1, <1>3, UnchangedEntries

LEMMA TurnShown ==
  ASSUME TypeOK, ShownInv, TurnStep, ShownGrows
  PROVE  NoticesKept' /\ EntriesKept'
  BY AnnounceToldShown, TurnEndShown, SettleNextShown, NoticeUndeliveredShown, EntryStepShown,
     QueueStepShown DEF TurnStep

-----------------------------------------------------------------------------
(* A generation ends with its process; the next one starts with what its   *)
(* recovery notice tells.                                                  *)
LEMMA ProcessShown ==
  ASSUME TypeOK, ShownInv, ProcessStep, ShownGrows
  PROVE  NoticesKept' /\ EntriesKept'
<1>1. NoticesKept /\ EntriesKept
  BY DEF ShownInv
<1>2. NoticesKept'
  <2>1. ASSUME NEW identity, NEW recovered, Launch(identity, recovered)
        PROVE  NoticesKept'
    <3>1. /\ notified' = recovered /\ steered' = {} /\ fallback' = {}
          /\ told' = told \cup recovered
      BY <2>1 DEF Launch
    <3>2. QED
      BY <3>1 DEF NoticesKept, NotifiedMeansShown, SteeredMeansBusy, FallbackMeansDoubted, Shown
  <2>2. ASSUME (\E launch \in 1..MaxLaunch : Rebind(launch))
               \/ (\E identity \in Identity : SessionReported(identity))
        PROVE  NoticesKept'
    <3>1. UNCHANGED <<busy, notified, steered, fallback, doubted>>
      BY <2>2 DEF Rebind, SessionReported, turn, tracking, history
    <3>2. QED
      BY <1>1, <3>1, NoticesUntouched
  <2>3. CASE ProcessExit \/ StopProcess \/ DaemonRestart
    <3>1. EndGeneration /\ UNCHANGED doubted /\ fallback' \subseteq fallback
      BY <2>3 DEF ProcessExit, StopProcess, DaemonRestart
    <3>2. QED
      BY <1>1, <3>1, EndNotices
  <2>4. QED
    BY <2>1, <2>2, <2>3 DEF ProcessStep
<1>3. UNCHANGED reports
  BY DEF ProcessStep, Launch, Rebind, SessionReported, ProcessExit, StopProcess, DaemonRestart,
     channels
<1>4. CASE UNCHANGED tracked
  BY <1>1, <1>2, <1>3, <1>4, UnchangedEntries
<1>5. CASE tracked' = [d \in Deliveries |-> NoEntry]
  <2>1. DrainedMeansShown'
    BY <1>5 DEF DrainedMeansShown, NoEntry
  <2>2. AckMeansShown'
    BY <1>1, <1>3 DEF EntriesKept, AckMeansShown, TrackedAck, ShownGrows
  <2>3. QED
    BY <1>2, <2>1, <2>2 DEF EntriesKept
<1>6. QED
  BY <1>4, <1>5 DEF ProcessStep, Launch, Rebind, SessionReported, ProcessExit, StopProcess,
     DaemonRestart, tracking

-----------------------------------------------------------------------------
LEMMA InitShownInv == Init => ShownInv
  BY DEF Init, ServerInit, TrackerInit, ShownInv, NoticesKept, EntriesKept, NotifiedMeansShown,
     SteeredMeansBusy, FallbackMeansDoubted, DrainedMeansShown, AckMeansShown,
     DeliveredMeansShown, NoEntry

LEMMA NextShownInv ==
  ASSUME TypeOK, ShownInv, [Next]_vars
  PROVE  ShownInv'
<1>1. CASE (ReceiveStep \/ TurnStep \/ ProcessStep) /\ UNCHANGED serverVars
  <2>1. NoticesKept' /\ EntriesKept' /\ ShownGrows
    BY <1>1, ShownGrowsStep, ReceiveShown, TurnShown, ProcessShown
  <2>2. DeliveredMeansShown'
    BY <1>1, <2>1 DEF serverVars, ShownInv, DeliveredMeansShown, ShownGrows, Shown
  <2>3. QED
    BY <2>1, <2>2 DEF ShownInv
<1>2. CASE UNCHANGED trackerVars /\ (RowStep \/ UNCHANGED row) /\ reports' \subseteq reports
  <2>1. UNCHANGED <<busy, tracked, fallback, notified, consumed, told, steered, doubted, overtaken>>
    BY <1>2 DEF trackerVars, turn, tracking, history
  <2>2. DeliveredMeansShown'
    BY <1>2, <2>1, RowSeen DEF ShownInv, EntriesKept, DeliveredMeansShown, AckMeansShown, Shown
  <2>3. EntriesKept'
    BY <1>2, <2>1 DEF ShownInv, EntriesKept, DrainedMeansShown, AckMeansShown, TrackedAck, Shown
  <2>4. NoticesKept'
    BY <2>1 DEF ShownInv, NoticesKept, NotifiedMeansShown, SteeredMeansBusy,
       FallbackMeansDoubted, Shown
  <2>5. QED
    BY <2>2, <2>3, <2>4 DEF ShownInv
<1>3. RowStep => reports' \subseteq reports
  BY DEF RowStep, Issue, IssueFailed, SettleStopped, JobWrite, JobSend, ReceiveAck, ReceiveError,
     channels
<1>4. AgentStep => UNCHANGED row /\ UNCHANGED reports
  BY DEF AgentStep, Stop, Start, BeginRestart, Ready, JobRead, ReceiveStarted, AcceptSession,
     channels
<1>5. (LosePush \/ LoseReport \/ UNCHANGED channels) => reports' \subseteq reports
  BY DEF LosePush, LoseReport, channels
<1>6. UNCHANGED serverVars => UNCHANGED row
  BY DEF serverVars
<1>7. QED
  BY <1>1, <1>2, <1>3, <1>4, <1>5, <1>6, NextSplits DEF Split

(* A mention the cloud shows as delivered opened a turn, was in a turn that *)
(* ended, or was read, unless its session itself took it back or a loop of  *)
(* an earlier turn settled it: a process that dies mid-turn makes no        *)
(* mention delivered (#markPending, settleTurnEnd, settleRedelivery).       *)
THEOREM DeliveredShown == Spec => []DeliveredMeansShown
<1>1. TypeOK /\ ShownInv /\ [Next]_vars => ShownInv'
  BY NextShownInv
<1>2. ShownInv => DeliveredMeansShown
  BY DEF ShownInv
<1>3. QED
  BY <1>1, <1>2, InitShownInv, TypeCorrect, PTL DEF Spec

-----------------------------------------------------------------------------
(* A pending mention is not dropped without a word.                        *)

(* One announcement is out at a time; its mention was received or has been *)
(* settled meanwhile, and a mention received is the one being announced.   *)
AnnouncedOnce == \A a, b \in announcing : a = b
AnnouncedReceived == \A a \in announcing :
  /\ tracked[a.delivery].state # "pending"
  /\ tracked[a.delivery].state = "received" => tracked[a.delivery].env = a.env
ReceivedAnnounced == \A d \in Deliveries :
  tracked[d].state = "received" => \E a \in announcing : a.delivery = d

(* A mention marked undelivered waits for its fallback notice, unless a    *)
(* Stop took that away.                                                    *)
Fallbacks == fallback \cup redelivering \cup silenced
UndeliveredHeld == \A d \in Deliveries :
  tracked[d].undelivered => Waiting(d) /\ d \in Fallbacks

AwaitInv == AnnouncedOnce /\ AnnouncedReceived /\ ReceivedAnnounced /\ UndeliveredHeld
UnderWayInv == AwaitInv /\ PendingUnderWay

(* An envelope the channels or the tracker still carry, and a step that    *)
(* answers each, or lets it go by name.                                    *)
Carried(d, env) ==
  \/ \E m \in pushes \cup reports : Pair(m) = <<d, env>>
  \/ Waiting(d) /\ tracked[d].env = env
CarriedOn == \A d \in Deliveries, env \in Identity :
  Carried(d, env) => Carried(d, env)' \/ <<d, env>> \in forgotten'

LEMMA UnderWayCarried ==
  ASSUME NEW d \in Deliveries, NEW env, UnderWay(d, env), AwaitInv
  PROVE  Carried(d, env) \/ \E k \in JobKinds : Sends(k, d, env)
<1>1. CASE tracked[d].state = "received" /\ \E a \in announcing : Pair(a) = <<d, env>>
  <2>1. PICK a \in announcing : a.delivery = d /\ a.env = env
    BY <1>1 DEF Pair
  <2>2. QED
    BY <1>1, <2>1 DEF AwaitInv, AnnouncedReceived, Carried, Waiting
<1>2. QED
  BY <1>1 DEF UnderWay, Carried, Waiting

LEMMA CarriedUnderWay ==
  ASSUME NEW d \in Deliveries, NEW env, Carried(d, env)', AwaitInv'
  PROVE  UnderWay(d, env)'
<1>1. CASE tracked'[d].state = "received" /\ tracked'[d].env = env
  <2>1. PICK a \in announcing' : a.delivery = d
    BY <1>1 DEF AwaitInv, ReceivedAnnounced
  <2>2. a.env = env
    BY <1>1, <2>1 DEF AwaitInv, AnnouncedReceived
  <2>3. Pair(a) = <<d, env>>
    BY <2>1, <2>2 DEF Pair
  <2>4. QED
    BY <1>1, <2>3 DEF UnderWay
<1>2. CASE tracked'[d].state = "pending" /\ tracked'[d].env = env
  BY <1>2 DEF UnderWay, AwaitInv, UndeliveredHeld, Fallbacks
<1>3. CASE \E m \in pushes' \cup reports' : Pair(m) = <<d, env>>
  BY <1>3 DEF UnderWay
<1>4. QED
  BY <1>1, <1>2, <1>3 DEF Carried, Waiting

(* While the rows and the re-issues stay as they are, what goes on being   *)
(* carried goes on being under way.                                        *)
LEMMA CarriedOnSuffices ==
  ASSUME TypeOK, UnderWayInv, UNCHANGED <<row, jobs>>, forgotten \subseteq forgotten',
         CarriedOn, AwaitInv'
  PROVE  UnderWayInv'
<1> SUFFICES ASSUME NEW d \in Deliveries, row[d].outcome = "pending", row[d].env # NoIdentity
             PROVE  UnderWay(d, row[d].env)' \/ <<d, row[d].env>> \in forgotten'
  BY DEF UnderWayInv, PendingUnderWay
<1> DEFINE env == row[d].env
<1>1. env \in Identity
  BY DEF TypeOK, ServerTypeOK, Rows, Envelope
<1>2. CASE <<d, env>> \in forgotten
  BY <1>2
<1>3. CASE Carried(d, env)
  BY <1>1, <1>3, CarriedUnderWay DEF CarriedOn
<1>4. ASSUME NEW k \in JobKinds, Sends(k, d, env)
      PROVE  UnderWay(d, env)'
  BY <1>4 DEF UnderWay, Sends
<1>5. QED
  BY <1>2, <1>3, <1>4, UnderWayCarried DEF UnderWayInv, PendingUnderWay

(* The step of one push, report or notice: what gives way to envelope      *)
(* `env` is let go of by name, and `env` itself is carried on.             *)
LEMMA OneMentionCarried ==
  ASSUME TypeOK, NEW d \in Deliveries, NEW env,
         \A e \in Deliveries \ {d} : tracked'[e] = tracked[e],
         \A m \in pushes : m \in pushes' \/ Pair(m) = <<d, env>>,
         reports \subseteq reports', Replaced(d, env) \subseteq forgotten',
         env \in Identity => Carried(d, env)'
  PROVE  CarriedOn
<1> SUFFICES ASSUME NEW e \in Deliveries, NEW x \in Identity, Carried(e, x)
             PROVE  Carried(e, x)' \/ <<e, x>> \in forgotten'
  BY DEF CarriedOn
<1>1. CASE e = d /\ x = env
  BY <1>1
<1>2. CASE ~(e = d /\ x = env)
  <2>1. ASSUME NEW m \in pushes \cup reports, Pair(m) = <<e, x>>
        PROVE  Carried(e, x)'
    <3>1. m \in pushes' \cup reports'
      BY <1>2, <2>1
    <3>2. QED
      BY <2>1, <3>1 DEF Carried, Pair
  <2>2. CASE Waiting(e) /\ tracked[e].env = x /\ e = d
    BY <1>2, <2>2 DEF Replaced
  <2>3. CASE Waiting(e) /\ tracked[e].env = x /\ e # d
    BY <2>3 DEF Carried, Waiting
  <2>4. QED
    BY <2>1, <2>2, <2>3 DEF Carried
<1>3. QED
  BY <1>1, <1>2

(* A step that leaves the entries alone and takes plain wakes only.        *)
LEMMA EntriesCarried ==
  ASSUME TypeOK, UNCHANGED tracked, reports \subseteq reports',
         \A m \in pushes : m \in pushes' \/ m.env = NoIdentity
  PROVE  CarriedOn
<1> SUFFICES ASSUME NEW d \in Deliveries, NEW env \in Identity, Carried(d, env)
             PROVE  Carried(d, env)'
  BY DEF CarriedOn
<1>1. ASSUME NEW m \in pushes \cup reports, Pair(m) = <<d, env>>
      PROVE  Carried(d, env)'
  <2>1. m.env # NoIdentity
    BY <1>1, IdentityNotNone DEF Pair
  <2>2. m \in pushes' \cup reports'
    BY <2>1
  <2>3. QED
    BY <1>1, <2>2 DEF Carried, Pair
<1>2. QED
  BY <1>1 DEF Carried, Waiting

-----------------------------------------------------------------------------
(* The announcement, the entries and the fallback notices agree.           *)

(* A mention is settled, and the announcement of it may be over.           *)
LEMMA EntrySettled ==
  ASSUME TypeOK, AwaitInv, NEW d \in Deliveries, NEW e, tracked' = [tracked EXCEPT ![d] = e],
         e.state \in {"none", "drained"}, ~e.undelivered,
         announcing' \subseteq announcing,
         \A a \in announcing : a \in announcing' \/ a.delivery = d,
         Fallbacks \subseteq Fallbacks' \cup {d}
  PROVE  AwaitInv'
<1>1. tracked'[d] = e /\ \A x \in Deliveries \ {d} : tracked'[x] = tracked[x]
  BY DEF TypeOK, TrackerTypeOK
<1>2. \A a \in announcing : a.delivery \in Deliveries
  BY DEF TypeOK, TrackerTypeOK, Announcements
<1>3. AnnouncedOnce'
  BY DEF AwaitInv, AnnouncedOnce
<1>4. AnnouncedReceived'
  BY <1>1, <1>2 DEF AwaitInv, AnnouncedReceived
<1>5. ReceivedAnnounced'
  BY <1>1 DEF AwaitInv, ReceivedAnnounced
<1>6. UndeliveredHeld'
  BY <1>1 DEF AwaitInv, UndeliveredHeld, Waiting
<1>7. QED
  BY <1>3, <1>4, <1>5, <1>6 DEF AwaitInv

LEMMA DrainSettled ==
  ASSUME TypeOK, AwaitInv, NEW d \in Deliveries, NEW env, Drain(d, env),
         announcing' \subseteq announcing,
         \A a \in announcing : a \in announcing' \/ a.delivery = d,
         Fallbacks \subseteq Fallbacks' \cup {d}
  PROVE  AwaitInv'
<1> DEFINE e == IF tracked[d].state = "drained" THEN tracked[d]
                ELSE [state |-> "drained", env |-> env, undelivered |-> FALSE]
<1>1. tracked \in [Deliveries -> Entries]
  BY DEF TypeOK, TrackerTypeOK
<1>2. tracked' = [tracked EXCEPT ![d] = e]
  BY <1>1 DEF Drain, Set, Entries
<1>3. e.state = "drained" /\ ~e.undelivered
  BY DEF AwaitInv, UndeliveredHeld, Waiting
<1> HIDE DEF e
<1>4. QED
  BY <1>2, <1>3, EntrySettled

LEMMA RefuseSettled ==
  ASSUME TypeOK, AwaitInv, NEW d \in Deliveries, NEW env, NEW code, Refuse(d, env, code),
         announcing' \subseteq announcing,
         \A a \in announcing : a \in announcing' \/ a.delivery = d,
         Fallbacks \subseteq Fallbacks' \cup {d}
  PROVE  AwaitInv'
<1>1. tracked' = [tracked EXCEPT ![d] = NoEntry]
  BY DEF Refuse
<1>2. NoEntry.state = "none" /\ ~NoEntry.undelivered
  BY DEF NoEntry
<1>3. QED
  BY <1>1, <1>2, EntrySettled

(* #set writes one entry and marks none undelivered.                       *)
LEMMA SetEntry ==
  ASSUME TypeOK, NEW d \in Deliveries, NEW env, NEW state, tracked' = Set(d, env, state)
  PROVE  /\ tracked'[d].state = state /\ tracked'[d].env = env
         /\ tracked'[d].undelivered => tracked[d].undelivered
         /\ \A x \in Deliveries \ {d} : tracked'[x] = tracked[x]
<1> DEFINE mark == tracked[d].undelivered /\ state # "drained"
           entry == [state |-> state, env |-> env, undelivered |-> mark]
<1>1. tracked' = [tracked EXCEPT ![d] = entry]
  BY DEF Set
<1>2. mark => tracked[d].undelivered
  OBVIOUS
<1> HIDE DEF mark
<1>3. tracked'[d] = entry /\ \A x \in Deliveries \ {d} : tracked'[x] = tracked[x]
  BY <1>1 DEF TypeOK, TrackerTypeOK
<1>4. tracked'[d].state = state /\ tracked'[d].env = env
  BY <1>3
<1>5. tracked'[d].undelivered = mark
  BY <1>3
<1>6. tracked'[d].undelivered => tracked[d].undelivered
  BY <1>2, <1>5, Zenon
<1>7. QED
  BY <1>3, <1>4, <1>6

(* markPending, for the mention announced or while nothing is announced.   *)
LEMMA MarkPendingAwaits ==
  ASSUME TypeOK, AwaitInv, NEW d \in Deliveries, NEW env, MarkPending(d, env),
         announcing' = {}, \A a \in announcing : a.delivery = d, UNCHANGED Fallbacks
  PROVE  AwaitInv'
<1>1. /\ tracked'[d].state = "pending"
      /\ tracked'[d].undelivered => tracked[d].undelivered
      /\ \A x \in Deliveries \ {d} : tracked'[x] = tracked[x]
  BY SetEntry DEF MarkPending
<1>2. ReceivedAnnounced'
  BY <1>1 DEF AwaitInv, ReceivedAnnounced
<1>3. UndeliveredHeld'
  BY <1>1 DEF AwaitInv, UndeliveredHeld, Waiting
<1>4. QED
  BY <1>2, <1>3 DEF AwaitInv, AnnouncedOnce, AnnouncedReceived

(* Nothing is announced any more, and nothing was left to announce.        *)
LEMMA AnnouncementOver ==
  ASSUME TypeOK, AwaitInv, NEW d \in Deliveries, \A a \in announcing : a.delivery = d,
         tracked[d].state # "received", announcing' = {}, UNCHANGED <<tracked, Fallbacks>>
  PROVE  AwaitInv'
  BY DEF AwaitInv, AnnouncedOnce, AnnouncedReceived, ReceivedAnnounced, UndeliveredHeld, Waiting

LEMMA EntriesAwait ==
  ASSUME AwaitInv, UNCHANGED <<tracked, announcing>>, Fallbacks \subseteq Fallbacks'
  PROVE  AwaitInv'
  BY DEF AwaitInv, AnnouncedOnce, AnnouncedReceived, ReceivedAnnounced, UndeliveredHeld, Waiting

-----------------------------------------------------------------------------
(* The steps of the tracker: each goes on carrying what it does not let go *)
(* of by name, and keeps the entries and the announcement in agreement.    *)
LEMMA DrainCarries ==
  ASSUME TypeOK, NEW d \in Deliveries, NEW env, Drain(d, env)
  PROVE  /\ Carried(d, env)' /\ reports \subseteq reports'
         /\ \A e \in Deliveries \ {d} : tracked'[e] = tracked[e]
<1>1. \A e \in Deliveries \ {d} : tracked'[e] = tracked[e]
  BY DEF Drain, Set, TypeOK, TrackerTypeOK
<1>2. Ack(d, env) \in reports' /\ Pair(Ack(d, env)) = <<d, env>>
  BY DEF Drain, Ack, Pair
<1>3. QED
  BY <1>1, <1>2 DEF Drain, Carried, Pair

LEMMA RefuseCarries ==
  ASSUME TypeOK, NEW d \in Deliveries, NEW env, NEW code, Refuse(d, env, code)
  PROVE  /\ Carried(d, env)' /\ reports \subseteq reports'
         /\ \A e \in Deliveries \ {d} : tracked'[e] = tracked[e]
<1>1. \A e \in Deliveries \ {d} : tracked'[e] = tracked[e]
  BY DEF Refuse, TypeOK, TrackerTypeOK
<1>2. TerminalError(d, env, code) \in reports' /\ Pair(TerminalError(d, env, code)) = <<d, env>>
  BY DEF Refuse, TerminalError, Pair
<1>3. QED
  BY <1>1, <1>2 DEF Refuse, Carried, Pair

LEMMA SetCarries ==
  ASSUME TypeOK, NEW d \in Deliveries, NEW env, NEW state \in {"received", "pending"},
         tracked' = Set(d, env, state)
  PROVE  /\ Carried(d, env)'
         /\ \A e \in Deliveries \ {d} : tracked'[e] = tracked[e]
  BY SetEntry DEF Carried, Waiting

LEMMA ReceiveTrackedCarries ==
  ASSUME TypeOK, NEW m \in pushes, ReceiveTracked(m)
  PROVE  CarriedOn
<1> DEFINE d == m.delivery
           env == m.env
<1>1. d \in Deliveries /\ tracked \in [Deliveries -> Entries]
  BY DEF TypeOK, ProtocolTypeOK, Pushes, TrackerTypeOK
<1>2. /\ pushes' = pushes \ {m} /\ Pair(m) = <<d, env>>
      /\ Replaced(d, env) \subseteq forgotten'
  BY DEF ReceiveTracked, Pair
<1>3. /\ Carried(d, env)' /\ reports \subseteq reports'
      /\ \A e \in Deliveries \ {d} : tracked'[e] = tracked[e]
  <2>1. CASE DeliverConsumed(d, env)
    BY <1>1, <2>1, DrainCarries DEF DeliverConsumed
  <2>2. CASE DeliverUnknown(d, env) \/ DeliverDrift(d, env) \/ DeliverBlocked(d, env)
    BY <1>1, <2>2, RefuseCarries DEF DeliverUnknown, DeliverDrift, DeliverBlocked
  <2>3. CASE DeliverRepeat(d, env)
    <3>1. CASE UNCHANGED <<tracked, reports>> /\ Waiting(d) /\ tracked[d].env = env
      BY <3>1 DEF Carried, Waiting
    <3>2. CASE tracked' = [tracked EXCEPT ![d].env = env] /\ reports' = reports \cup {Ack(d, env)}
      <4>1. Ack(d, env) \in reports' /\ Pair(Ack(d, env)) = <<d, env>>
        BY <3>2 DEF Ack, Pair
      <4>2. QED
        BY <1>1, <3>2, <4>1 DEF Carried, Pair
    <3>3. QED
      BY <2>3, <3>1, <3>2 DEF DeliverRepeat
  <2>4. CASE DeliverTold(d, env)
    BY <1>1, <2>4, DrainCarries, SetCarries DEF DeliverTold, MarkPending
  <2>5. CASE DeliverAnnounce(d, env)
    BY <1>1, <2>5, SetCarries DEF DeliverAnnounce
  <2>6. QED
    BY <2>1, <2>2, <2>3, <2>4, <2>5 DEF ReceiveTracked
<1>4. QED
  BY <1>1, <1>2, <1>3, OneMentionCarried

LEMMA ReceiveTrackedAwaits ==
  ASSUME TypeOK, AwaitInv, NEW m \in pushes, ReceiveTracked(m)
  PROVE  AwaitInv'
<1> DEFINE d == m.delivery
           env == m.env
<1>1. d \in Deliveries /\ tracked \in [Deliveries -> Entries]
  BY DEF TypeOK, ProtocolTypeOK, Pushes, TrackerTypeOK
<1>2. UNCHANGED Fallbacks /\ env # NoIdentity /\ (Running => announcing = {})
  BY DEF ReceiveTracked, Fallbacks, history
<1>3. Judged(d, env) => announcing = {}
  BY <1>2 DEF Judged, RunningIdentity
<1>4. CASE DeliverConsumed(d, env)
  BY <1>1, <1>2, <1>4, DrainSettled DEF DeliverConsumed
<1>5. CASE DeliverUnknown(d, env) \/ DeliverDrift(d, env) \/ DeliverBlocked(d, env)
  BY <1>1, <1>2, <1>5, RefuseSettled DEF DeliverUnknown, DeliverDrift, DeliverBlocked
<1>6. CASE DeliverRepeat(d, env)
  <2>1. CASE UNCHANGED tracked
    BY <1>2, <1>6, <2>1, EntriesAwait DEF DeliverRepeat
  <2>2. CASE tracked[d].state = "drained" /\ tracked' = [tracked EXCEPT ![d].env = env]
    <3> DEFINE e == [tracked[d] EXCEPT !.env = env]
    <3>1. tracked' = [tracked EXCEPT ![d] = e] /\ e.state = "drained"
      BY <1>1, <2>2 DEF Entries
    <3>2. e.undelivered = tracked[d].undelivered
      BY <1>1 DEF Entries
    <3>3. ~tracked[d].undelivered
      BY <1>1, <2>2 DEF AwaitInv, UndeliveredHeld, Waiting
    <3> HIDE DEF e
    <3>4. ~e.undelivered
      BY <3>2, <3>3, Zenon
    <3>5. QED
      BY <1>1, <1>2, <1>6, <3>1, <3>4, EntrySettled DEF DeliverRepeat
  <2>3. QED
    BY <1>6, <2>1, <2>2 DEF DeliverRepeat
<1>7. CASE DeliverTold(d, env)
  <2>1. announcing = {} /\ announcing' = {}
    BY <1>3, <1>7 DEF DeliverTold, Fresh
  <2>2. QED
    BY <1>1, <1>2, <1>7, <2>1, MarkPendingAwaits, DrainSettled DEF DeliverTold
<1>8. CASE DeliverAnnounce(d, env)
  <2>1. /\ announcing = {}
        /\ announcing' = {[delivery |-> d, env |-> env, steer |-> busy, gone |-> FALSE]}
    BY <1>3, <1>8 DEF DeliverAnnounce, Fresh
  <2>2. /\ tracked'[d].state = "received" /\ tracked'[d].env = env
        /\ tracked'[d].undelivered => tracked[d].undelivered
        /\ \A x \in Deliveries \ {d} : tracked'[x] = tracked[x]
    BY <1>1, <1>8, SetEntry DEF DeliverAnnounce
  <2>3. \A a \in announcing' : a.delivery = d /\ a.env = env
    BY <2>1
  <2>4. AnnouncedOnce' /\ AnnouncedReceived'
    BY <2>1, <2>2, <2>3 DEF AnnouncedOnce, AnnouncedReceived
  <2>5. ReceivedAnnounced'
    <3>1. \A x \in Deliveries : tracked[x].state # "received"
      BY <2>1 DEF AwaitInv, ReceivedAnnounced
    <3>2. \E a \in announcing' : a.delivery = d
      BY <2>1
    <3>3. QED
      BY <2>2, <3>1, <3>2 DEF ReceivedAnnounced
  <2>6. UndeliveredHeld'
    BY <1>2, <2>2 DEF AwaitInv, UndeliveredHeld, Waiting
  <2>7. QED
    BY <2>4, <2>5, <2>6 DEF AwaitInv
<1>9. QED
  BY <1>4, <1>5, <1>6, <1>7, <1>8 DEF ReceiveTracked

(* A plain wake concerns no entry.                                         *)
LEMMA ReceiveCarries ==
  ASSUME TypeOK, AwaitInv, ReceiveStep
  PROVE  CarriedOn /\ AwaitInv' /\ forgotten \subseteq forgotten'
<1>1. PICK m \in pushes : \/ ReceiveTracked(m) \/ ReceiveExited(m)
                         \/ \E taken \in BOOLEAN : ReceiveUntracked(m, taken)
  BY DEF ReceiveStep
<1>2. CASE ReceiveTracked(m)
  <2>1. forgotten \subseteq forgotten'
    BY <1>2 DEF ReceiveTracked
  <2>2. QED
    BY <1>2, <2>1, ReceiveTrackedCarries, ReceiveTrackedAwaits
<1>3. ASSUME ReceiveExited(m) \/ \E taken \in BOOLEAN : ReceiveUntracked(m, taken)
      PROVE  CarriedOn /\ AwaitInv' /\ forgotten \subseteq forgotten'
  <2>1. /\ m.env = NoIdentity /\ pushes' = pushes \ {m} /\ reports \subseteq reports'
        /\ UNCHANGED <<forgotten, tracked, announcing, fallback, redelivering, silenced>>
    BY <1>3 DEF ReceiveExited, ReceiveUntracked, tracking, history
  <2>2. UNCHANGED Fallbacks
    BY <2>1 DEF Fallbacks
  <2>3. QED
    BY <2>1, <2>2, EntriesCarried, EntriesAwait
<1>4. QED
  BY <1>1, <1>2, <1>3

(* The announcement ends: its mention is told, or refused, or was settled  *)
(* before.                                                                 *)
LEMMA AnnounceCarries ==
  ASSUME TypeOK, AwaitInv, AnnounceTold \/ AnnounceGone \/ AnnounceRejected
  PROVE  CarriedOn /\ AwaitInv'
<1>1. PICK a \in announcing :
        /\ announcing' = {}
        /\ \/ tracked[a.delivery].state # "received" /\ UNCHANGED <<tracked, reports>>
           \/ tracked[a.delivery].state = "received" /\ MarkPending(a.delivery, a.env)
           \/ tracked[a.delivery].state = "received" /\ Drain(a.delivery, a.env)
           \/ \E code : Refuse(a.delivery, a.env, code)
  BY DEF AnnounceTold, AnnounceGone, AnnounceRejected
<1> DEFINE d == a.delivery
<1>2. d \in Deliveries /\ UNCHANGED pushes /\ UNCHANGED Fallbacks
  BY DEF TypeOK, TrackerTypeOK, Announcements, AnnounceTold, AnnounceGone, AnnounceRejected,
     history, Fallbacks
<1>3. \A b \in announcing : b.delivery = d
  BY DEF AwaitInv, AnnouncedOnce
<1>4. Replaced(d, a.env) = {}
  BY DEF AwaitInv, AnnouncedReceived, Replaced, Waiting
<1>5. CASE tracked[d].state # "received" /\ UNCHANGED <<tracked, reports>>
  BY <1>1, <1>2, <1>3, <1>5, AnnouncementOver, EntriesCarried
<1>6. CASE MarkPending(d, a.env)
  <2>1. AwaitInv'
    BY <1>1, <1>2, <1>3, <1>6, MarkPendingAwaits
  <2>2. /\ Carried(d, a.env)' /\ reports' = reports
        /\ \A e \in Deliveries \ {d} : tracked'[e] = tracked[e]
    BY <1>2, <1>6, SetCarries DEF MarkPending
  <2>3. QED
    BY <1>2, <1>4, <2>1, <2>2, OneMentionCarried
<1>7. CASE Drain(d, a.env)
  <2>1. AwaitInv'
    BY <1>1, <1>2, <1>3, <1>7, DrainSettled
  <2>2. QED
    BY <1>2, <1>4, <1>7, <2>1, DrainCarries, OneMentionCarried
<1>8. ASSUME NEW code, Refuse(d, a.env, code)
      PROVE  CarriedOn /\ AwaitInv'
  <2>1. AwaitInv'
    BY <1>1, <1>2, <1>3, <1>8, RefuseSettled
  <2>2. QED
    BY <1>2, <1>4, <1>8, <2>1, RefuseCarries, OneMentionCarried
<1>9. QED
  BY <1>1, <1>5, <1>6, <1>7, <1>8

(* A mention judged by the envelope of its own entry.                      *)
LEMMA OwnEntryCarries ==
  ASSUME TypeOK, AwaitInv, NEW d \in Deliveries, UNCHANGED <<pushes, announcing>>,
         \/ Drain(d, tracked[d].env)
         \/ \E code : Refuse(d, tracked[d].env, code),
         Fallbacks \subseteq Fallbacks' \cup {d}
  PROVE  CarriedOn /\ AwaitInv'
<1>1. Replaced(d, tracked[d].env) = {}
  BY DEF Replaced
<1>2. AwaitInv'
  BY DrainSettled, RefuseSettled
<1>3. CarriedOn
  BY <1>1, DrainCarries, RefuseCarries, OneMentionCarried
<1>4. QED
  BY <1>2, <1>3

(* Turns and redeliveries end.                                             *)
LEMMA SettlingCarries ==
  ASSUME TypeOK, AwaitInv,
         \/ \E success \in BOOLEAN : TurnEnd(success)
         \/ \E d \in Deliveries : SettleNext(d)
         \/ \E d \in Deliveries, taken \in BOOLEAN : RedeliverySettled(d, taken)
  PROVE  CarriedOn /\ AwaitInv'
<1>1. ASSUME \/ \E success \in BOOLEAN : TurnEnd(success)
             \/ \E d \in Deliveries : SettleNext(d)
      PROVE  CarriedOn /\ AwaitInv'
  <2>1. UNCHANGED <<pushes, announcing>> /\ Fallbacks \subseteq Fallbacks'
    BY <1>1 DEF TurnEnd, SettleNext, Fallbacks
  <2>2. UNCHANGED <<tracked, reports>> \/ \E d \in Deliveries : SettleTurnEnd(d)
    BY <1>1 DEF TurnEnd, PendingAtTurnEnd, SettleNext
  <2>3. CASE UNCHANGED <<tracked, reports>>
    BY <2>1, <2>3, EntriesCarried, EntriesAwait
  <2>4. ASSUME NEW d \in Deliveries, SettleTurnEnd(d)
        PROVE  CarriedOn /\ AwaitInv'
    <3>1. \/ Drain(d, tracked[d].env)
          \/ \E code : Refuse(d, tracked[d].env, code)
      BY <2>4 DEF SettleTurnEnd
    <3>2. QED
      BY <2>1, <3>1, OwnEntryCarries
  <2>5. QED
    BY <2>2, <2>3, <2>4
<1>2. ASSUME NEW d \in Deliveries, NEW taken \in BOOLEAN, RedeliverySettled(d, taken)
      PROVE  CarriedOn /\ AwaitInv'
  <2>1. UNCHANGED <<pushes, announcing>> /\ Fallbacks \subseteq Fallbacks' \cup {d}
    BY <1>2 DEF RedeliverySettled, Fallbacks
  <2>2. CASE ~tracked[d].undelivered /\ UNCHANGED <<tracked, reports>>
    <3>1. AwaitInv'
      BY <2>1, <2>2 DEF AwaitInv, AnnouncedOnce, AnnouncedReceived, ReceivedAnnounced,
         UndeliveredHeld, Waiting
    <3>2. QED
      BY <2>1, <2>2, <3>1, EntriesCarried
  <2>3. CASE \/ Drain(d, tracked[d].env)
             \/ Refuse(d, tracked[d].env, "DELIVERY_REJECTED")
    BY <2>1, <2>3, OwnEntryCarries
  <2>4. QED
    BY <1>2, <2>2, <2>3 DEF RedeliverySettled
<1>3. QED
  BY <1>1, <1>2

(* A mention marked undelivered gets a fallback notice with the mark.      *)
LEMMA NoticeUndeliveredCarries ==
  ASSUME TypeOK, AwaitInv, NEW d \in Deliveries, NoticeUndelivered(d)
  PROVE  CarriedOn /\ AwaitInv'
<1>1. /\ tracked \in [Deliveries -> Entries] /\ UNCHANGED <<pushes, reports, announcing>>
      /\ Fallbacks' = Fallbacks \cup {d}
  BY DEF NoticeUndelivered, channels, Fallbacks, TypeOK, TrackerTypeOK
<1>2. CASE UNCHANGED tracked
  BY <1>1, <1>2, EntriesCarried, EntriesAwait
<1>3. CASE Waiting(d) /\ tracked' = [tracked EXCEPT ![d].undelivered = TRUE]
  <2>1. /\ tracked'[d].state = tracked[d].state /\ tracked'[d].env = tracked[d].env
        /\ \A e \in Deliveries \ {d} : tracked'[e] = tracked[e]
    BY <1>1, <1>3 DEF Entries
  <2>2. CarriedOn
    <3>1. Carried(d, tracked[d].env)' /\ Replaced(d, tracked[d].env) = {}
      BY <1>3, <2>1 DEF Carried, Waiting, Replaced
    <3>2. QED
      BY <1>1, <2>1, <3>1, OneMentionCarried
  <2>3. ReceivedAnnounced' /\ AnnouncedOnce'
    BY <1>1, <2>1 DEF AwaitInv, ReceivedAnnounced, AnnouncedOnce
  <2>4. AnnouncedReceived'
    <3>1. \A a \in announcing : a.delivery \in Deliveries
      BY DEF TypeOK, TrackerTypeOK, Announcements
    <3>2. QED
      BY <1>1, <2>1, <3>1 DEF AwaitInv, AnnouncedReceived
  <2>5. UndeliveredHeld'
    BY <1>1, <1>3, <2>1 DEF AwaitInv, UndeliveredHeld, Waiting
  <2>6. QED
    BY <2>2, <2>3, <2>4, <2>5 DEF AwaitInv
<1>4. QED
  BY <1>1, <1>2, <1>3 DEF NoticeUndelivered, Waiting, Entries

LEMMA EvictCarries ==
  ASSUME TypeOK, AwaitInv, NEW d \in Deliveries, Evict(d)
  PROVE  CarriedOn /\ AwaitInv'
<1>1. /\ UNCHANGED <<pushes, reports, announcing, fallback, redelivering, silenced>>
      /\ tracked' = [tracked EXCEPT ![d] = NoEntry]
      /\ Replaced(d, NoIdentity) \subseteq forgotten'
  BY DEF Evict, history
<1>2. /\ \A e \in Deliveries \ {d} : tracked'[e] = tracked[e]
      /\ NoEntry.state = "none" /\ ~NoEntry.undelivered
  BY <1>1 DEF TypeOK, TrackerTypeOK, NoEntry
<1>3. AwaitInv'
  BY <1>1, <1>2, EntrySettled DEF Fallbacks
<1>4. CarriedOn
  BY <1>1, <1>2, IdentityNotNone, OneMentionCarried
<1>5. QED
  BY <1>3, <1>4

LEMMA TurnCarries ==
  ASSUME TypeOK, AwaitInv, TurnStep
  PROVE  CarriedOn /\ AwaitInv' /\ forgotten \subseteq forgotten'
<1>1. forgotten \subseteq forgotten'
  BY DEF TurnStep, AnnounceTold, AnnounceGone, AnnounceRejected, TurnStart, TurnEnd, SettleNext,
     NoticeUndelivered, Consume, Evict, RedeliverySettled, SetHold, ReleaseHold, FlushSettled,
     channels
<1>2. ASSUME \/ TurnStart \/ ReleaseHold
             \/ \E d \in Deliveries : Consume(d)
             \/ \E reason \in HoldReasons : SetHold(reason)
             \/ \E taken \in BOOLEAN : FlushSettled(taken)
      PROVE  CarriedOn /\ AwaitInv'
  <2>1. UNCHANGED <<pushes, reports, tracked, announcing, fallback, redelivering, silenced>>
    BY <1>2 DEF TurnStart, ReleaseHold, Consume, SetHold, FlushSettled, channels, tracking,
       history
  <2>2. UNCHANGED Fallbacks
    BY <2>1 DEF Fallbacks
  <2>3. QED
    BY <2>1, <2>2, EntriesCarried, EntriesAwait
<1>3. QED
  BY <1>1, <1>2, AnnounceCarries, SettlingCarries, NoticeUndeliveredCarries, EvictCarries
     DEF TurnStep

(* The process comes and goes around the entries; only a restart of the    *)
(* daemon forgets them.                                                    *)
LEMMA ProcessCarries ==
  ASSUME TypeOK, AwaitInv, ProcessStep
  PROVE  CarriedOn /\ AwaitInv' /\ forgotten \subseteq forgotten'
<1>1. forgotten \subseteq forgotten' /\ UNCHANGED <<pushes, reports>>
  BY DEF ProcessStep, Launch, Rebind, SessionReported, ProcessExit, StopProcess, DaemonRestart,
     channels
<1>2. ASSUME UNCHANGED <<tracked, announcing>>, Fallbacks \subseteq Fallbacks'
      PROVE  CarriedOn /\ AwaitInv'
  BY <1>1, <1>2, EntriesCarried, EntriesAwait
<1>3. ASSUME \/ \E identity, recovered : Launch(identity, recovered)
             \/ \E launch \in 1..MaxLaunch : Rebind(launch)
             \/ \E identity \in Identity : SessionReported(identity)
      PROVE  CarriedOn /\ AwaitInv'
  BY <1>2, <1>3 DEF Launch, Rebind, SessionReported, tracking, history, Fallbacks
<1>4. CASE ProcessExit
  <2>1. /\ UNCHANGED <<tracked, fallback, redelivering, silenced>>
        /\ announcing' = {[a EXCEPT !.gone = TRUE] : a \in announcing}
    BY <1>4 DEF ProcessExit
  <2>2. \A a \in announcing : /\ [a EXCEPT !.gone = TRUE].delivery = a.delivery
                             /\ [a EXCEPT !.gone = TRUE].env = a.env
    BY DEF TypeOK, TrackerTypeOK, Announcements
  <2>3. AnnouncedOnce'
    BY <2>1 DEF AwaitInv, AnnouncedOnce
  <2>4. AnnouncedReceived'
    <3> SUFFICES ASSUME NEW b \in announcing'
                 PROVE  /\ tracked[b.delivery].state # "pending"
                        /\ tracked[b.delivery].state = "received" =>
                             tracked[b.delivery].env = b.env
      BY <2>1 DEF AnnouncedReceived
    <3>1. PICK a \in announcing : b.delivery = a.delivery /\ b.env = a.env
      BY <2>1, <2>2
    <3>2. QED
      BY <3>1 DEF AwaitInv, AnnouncedReceived
  <2>5. ReceivedAnnounced'
    <3> SUFFICES ASSUME NEW d \in Deliveries, tracked[d].state = "received"
                 PROVE  \E a \in announcing' : a.delivery = d
      BY <2>1 DEF ReceivedAnnounced
    <3>1. PICK a \in announcing : a.delivery = d
      BY DEF AwaitInv, ReceivedAnnounced
    <3>2. [a EXCEPT !.gone = TRUE] \in announcing'
      BY <2>1
    <3>3. QED
      BY <2>2, <3>1, <3>2
  <2>6. UndeliveredHeld'
    BY <2>1 DEF AwaitInv, UndeliveredHeld, Waiting, Fallbacks
  <2>7. QED
    BY <1>1, <2>1, <2>3, <2>4, <2>5, <2>6, EntriesCarried DEF AwaitInv
<1>5. CASE StopProcess
  <2>1. /\ UNCHANGED <<tracked, announcing, redelivering>> /\ fallback' = {}
        /\ silenced' = silenced \cup {d \in fallback : tracked[d].undelivered}
    BY <1>5 DEF StopProcess
  <2>2. UndeliveredHeld'
    BY <2>1 DEF AwaitInv, UndeliveredHeld, Waiting, Fallbacks
  <2>3. AwaitInv'
    BY <2>1, <2>2 DEF AwaitInv, AnnouncedOnce, AnnouncedReceived, ReceivedAnnounced
  <2>4. QED
    BY <1>1, <2>1, <2>3, EntriesCarried
<1>6. CASE DaemonRestart
  <2>1. /\ tracked' = [d \in Deliveries |-> NoEntry] /\ announcing' = {}
        /\ \A d \in Deliveries : Replaced(d, NoIdentity) \subseteq forgotten'
    BY <1>6 DEF DaemonRestart
  <2>2. AwaitInv'
    BY <2>1 DEF AwaitInv, AnnouncedOnce, AnnouncedReceived, ReceivedAnnounced, UndeliveredHeld,
       NoEntry
  <2>3. CarriedOn
    <3> SUFFICES ASSUME NEW d \in Deliveries, NEW env \in Identity, Carried(d, env)
                 PROVE  Carried(d, env)' \/ <<d, env>> \in forgotten'
      BY DEF CarriedOn
    <3>1. CASE Waiting(d) /\ tracked[d].env = env
      BY <2>1, <3>1, IdentityNotNone DEF Replaced
    <3>2. CASE \E m \in pushes \cup reports : Pair(m) = <<d, env>>
      BY <1>1, <3>2 DEF Carried
    <3>3. QED
      BY <3>1, <3>2 DEF Carried
  <2>4. QED
    BY <1>1, <2>2, <2>3
<1>7. QED
  BY <1>1, <1>3, <1>4, <1>5, <1>6 DEF ProcessStep

(* A push or a report that is lost is let go of by name.                   *)
LEMMA LossCarries ==
  ASSUME TypeOK, AwaitInv, LosePush \/ LoseReport, UNCHANGED trackerVars
  PROVE  CarriedOn /\ AwaitInv' /\ forgotten \subseteq forgotten'
<1>1. UNCHANGED <<tracked, announcing, fallback, redelivering, silenced>>
  BY DEF trackerVars, tracking, history
<1>2. AwaitInv'
  BY <1>1, EntriesAwait DEF Fallbacks
<1>3. /\ forgotten \subseteq forgotten'
      /\ \A m \in pushes \cup reports : m \in pushes' \cup reports' \/ Pair(m) \in forgotten'
  BY DEF LosePush, LoseReport
<1>4. CarriedOn
  BY <1>1, <1>3 DEF CarriedOn, Carried, Waiting, Pair
<1>5. QED
  BY <1>2, <1>3, <1>4

-----------------------------------------------------------------------------
(* The steps of the cloud.                                                 *)

(* The envelope of a row that a step leaves pending stays under way.       *)
LEMMA StaysUnderWay ==
  ASSUME NEW d \in Deliveries, NEW env, UnderWay(d, env), UNCHANGED trackerVars,
         \A m \in pushes \cup reports :
           Pair(m) = <<d, env>> => m \in pushes' \cup reports',
         \A k \in JobKinds : Sends(k, d, env) => Sends(k, d, env)'
  PROVE  UnderWay(d, env)'
  BY DEF UnderWay, trackerVars, tracking, history, Pair

LEMMA AwaitsUnchanged ==
  ASSUME AwaitInv, UNCHANGED trackerVars
  PROVE  AwaitInv'
<1>1. UNCHANGED <<tracked, announcing>> /\ UNCHANGED Fallbacks
  BY DEF trackerVars, tracking, history, Fallbacks
<1>2. QED
  BY <1>1, EntriesAwait

LEMMA RowsUnderWay ==
  ASSUME \A d \in Deliveries : \A env :
           row'[d].outcome = "pending" /\ row'[d].env = env /\ env # NoIdentity =>
             UnderWay(d, env)' \/ <<d, env>> \in forgotten'
  PROVE  PendingUnderWay'
  BY DEF PendingUnderWay, UnderWay, Sends, Pair

(* The envelope of a row the step leaves as it was.                        *)
LEMMA RowStaysUnderWay ==
  ASSUME PendingUnderWay, UNCHANGED trackerVars, NEW d \in Deliveries, NEW env,
         row[d].outcome = "pending", row[d].env = env, env # NoIdentity,
         \A m \in pushes \cup reports :
           \/ Pair(m) # <<d, env>> \/ m \in pushes' \cup reports'
           \/ Pair(m) \in forgotten',
         \A k \in JobKinds : \/ ~Sends(k, d, env) \/ Sends(k, d, env)'
                             \/ UnderWay(d, env)' \/ <<d, env>> \in forgotten',
         forgotten \ forgotten' \subseteq {Pair(m) : m \in pushes'}
  PROVE  UnderWay(d, env)' \/ <<d, env>> \in forgotten'
<1>1. UnderWay(d, env) \/ <<d, env>> \in forgotten
  BY DEF PendingUnderWay
<1>2. CASE <<d, env>> \in forgotten
  BY <1>2 DEF UnderWay
<1>3. CASE UnderWay(d, env)
  BY <1>3, StaysUnderWay
<1>4. QED
  BY <1>1, <1>2, <1>3

(* A row is issued again, and a push for its envelope goes out with it.    *)
LEMMA IssueUnderWay ==
  ASSUME TypeOK, PendingUnderWay, UNCHANGED trackerVars,
         NEW d \in Deliveries, Issue(d) \/ IssueFailed(d)
  PROVE  PendingUnderWay'
<1> SUFFICES ASSUME NEW x \in Deliveries, NEW env,
                    row'[x].outcome = "pending", row'[x].env = env, env # NoIdentity
             PROVE  UnderWay(x, env)' \/ <<x, env>> \in forgotten'
  BY RowsUnderWay
<1>1. /\ UNCHANGED <<reports, jobs>>
      /\ Publish({Push(d, NoIdentity)}) \/ Publish({Push(d, CurrentIdentity)})
  BY DEF Issue, IssueFailed
<1>2. pushes \subseteq pushes' /\ forgotten \ forgotten' \subseteq {Pair(m) : m \in pushes'}
  BY <1>1 DEF Publish
<1>3. CASE row'[x] = row[x]
  BY <1>1, <1>2, <1>3, RowStaysUnderWay DEF Sends
<1>4. CASE row'[x] # row[x]
  <2>1. row \in [Deliveries -> Rows]
    BY DEF TypeOK, ServerTypeOK
  <2>2. x = d /\ ~IssueFailed(d)
    BY <1>4, <2>1 DEF Issue, IssueFailed, Rows
  <2>3. Publish({Push(d, CurrentIdentity)}) /\ row'[d].env = CurrentIdentity
    <3>1. ASSUME NEW r \in Rows
          PROVE  /\ Issued(r, CurrentIdentity, "none").env = CurrentIdentity
                 /\ NotLaunched([r EXCEPT !.env = NoIdentity, !.code = "none"]).outcome = "lost"
      BY DEF Issued, NotLaunched, Rows
    <3>2. PICK r \in Rows : r = row[d]
      BY <2>1
    <3>3. /\ Publish({Push(d, CurrentIdentity)})
          /\ row'[d] \in {Issued(r, CurrentIdentity, "none"),
                           NotLaunched([r EXCEPT !.env = NoIdentity, !.code = "none"])}
      BY <1>4, <2>1, <2>2, <3>2 DEF Issue
    <3>4. QED
      BY <2>2, <3>1, <3>3
  <2>4. \E m \in pushes' : Pair(m) = <<d, env>>
    BY <2>2, <2>3 DEF Publish, Push, Pair
  <2>5. QED
    BY <2>2, <2>4 DEF UnderWay
<1>5. QED
  BY <1>3, <1>4

(* A Stop settles every pending mention, or none.                          *)
LEMMA StopUnderWay ==
  ASSUME TypeOK, PendingUnderWay, UNCHANGED trackerVars,
         NEW settled \in BOOLEAN, SettleStopped(settled)
  PROVE  PendingUnderWay'
<1> SUFFICES ASSUME NEW d \in Deliveries, NEW env,
                    row'[d].outcome = "pending", row'[d].env = env, env # NoIdentity
             PROVE  UnderWay(d, env)' \/ <<d, env>> \in forgotten'
  BY RowsUnderWay
<1>1. UNCHANGED <<pushes, reports, forgotten, jobs>>
  BY DEF SettleStopped, channels
<1>2. row'[d] = row[d]
  <2>1. row[d] \in Rows
    BY DEF TypeOK, ServerTypeOK
  <2>2. NotLaunched(row[d]).outcome = "lost"
    BY <2>1 DEF NotLaunched, Rows
  <2>3. QED
    BY <2>2 DEF SettleStopped
<1>3. QED
  BY <1>1, <1>2, RowStaysUnderWay DEF Sends

(* The rows a re-issue writes are the ones it is going to send.            *)
LEMMA JobWriteUnderWay ==
  ASSUME TypeOK, PendingUnderWay, UNCHANGED trackerVars, NEW k \in JobKinds, JobWrite(k)
  PROVE  PendingUnderWay'
<1> SUFFICES ASSUME NEW d \in Deliveries, NEW env,
                    row'[d].outcome = "pending", row'[d].env = env, env # NoIdentity
             PROVE  UnderWay(d, env)' \/ <<d, env>> \in forgotten'
  BY RowsUnderWay
<1> DEFINE j == jobs[k]
           stale == {x \in j.mentions : j.carried[x] # j.identity}
           issued == {x \in stale : StillCarried(x, j.carried[x])}
           sending == [NoJob EXCEPT !.phase = "send", !.identity = j.identity,
                         !.mentions = j.mentions \ (stale \ issued),
                         !.reissued = IF j.identity # NoIdentity THEN issued ELSE {},
                         !.taken = stale \ issued]
<1>1. /\ UNCHANGED <<pushes, reports, forgotten>> /\ j.phase = "write"
      /\ jobs \in [JobKinds -> Jobs] /\ row \in [Deliveries -> Rows]
  BY DEF JobWrite, channels, TypeOK, ServerTypeOK
<1>2. \A x \in JobKinds : Sends(x, d, env) => Sends(x, d, env)'
  BY <1>1 DEF JobWrite, Sends
<1>3. CASE d \notin issued
  <2>1. row'[d] = row[d]
    BY <1>3 DEF JobWrite
  <2>2. QED
    BY <1>1, <1>2, <2>1, RowStaysUnderWay
<1>4. CASE d \in issued
  <2>1. j.identity = env
    BY <1>1, <1>4 DEF JobWrite, Issued, Rows
  <2>2. jobs'[k] = sending
    BY <1>1, <1>4, <2>1 DEF JobWrite
  <2>3. /\ sending.phase = "send" /\ sending.identity = env
        /\ d \in sending.mentions /\ d \in sending.reissued /\ d \notin sending.taken
    <3> HIDE DEF issued
    <3>1. issued \subseteq stale /\ stale \subseteq j.mentions
      BY DEF issued
    <3>2. QED
      BY <1>4, <2>1, <3>1 DEF NoJob
  <2>4. Sends(k, d, env)'
    BY <2>2, <2>3 DEF Sends
  <2>5. QED
    BY <2>4 DEF UnderWay
<1>5. QED
  BY <1>3, <1>4

(* Each mention of a re-issue is sent, cleared, or, after a Stop came in    *)
(* between, let go of.                                                     *)
LEMMA JobSendUnderWay ==
  ASSUME TypeOK, PendingUnderWay, UNCHANGED trackerVars,
         NEW k \in JobKinds, NEW unsent \in SUBSET Selected(k), JobSend(k, unsent)
  PROVE  PendingUnderWay'
<1> SUFFICES ASSUME NEW d \in Deliveries, NEW env,
                    row'[d].outcome = "pending", row'[d].env = env, env # NoIdentity
             PROVE  UnderWay(d, env)' \/ <<d, env>> \in forgotten'
  BY RowsUnderWay
<1> DEFINE j == jobs[k]
           envelope(x) == IF x \in j.mentions THEN j.identity ELSE NoIdentity
           sent == {Push(x, envelope(x)) : x \in Selected(k) \ unsent}
           cleared == {x \in unsent \cap j.mentions : StillCarried(x, j.identity)}
<1>1. /\ jobs \in [JobKinds -> Jobs] /\ row \in [Deliveries -> Rows] /\ UNCHANGED reports
      /\ pushes' = pushes \cup sent
      /\ forgotten' = (forgotten \ {Pair(m) : m \in sent})
           \cup {<<x, j.identity>> : x \in (unsent \cap j.mentions) \ cleared}
      /\ jobs' = [jobs EXCEPT ![k] = NoJob]
  BY DEF JobSend, TypeOK, ServerTypeOK
<1>2. row'[d] = row[d] /\ d \notin cleared
  <2>1. CASE d \in cleared
    <3>1. row'[d] = Issued(row[d], NoIdentity, row[d].code)
      BY <2>1 DEF JobSend
    <3>2. QED
      BY <1>1, <3>1 DEF Issued, Rows
  <2>2. CASE d \notin cleared
    BY <2>2 DEF JobSend
  <2>3. QED
    BY <2>1, <2>2
<1>3. forgotten \ forgotten' \subseteq {Pair(m) : m \in pushes'}
  <2> HIDE DEF sent, cleared
  <2>1. QED
    BY <1>1
<1>4. ASSUME Sends(k, d, env)
      PROVE  UnderWay(d, env)' \/ <<d, env>> \in forgotten'
  <2>1. d \in Selected(k) /\ d \in j.mentions /\ j.identity = env
    BY <1>4 DEF Sends, Selected
  <2>2. CASE d \in unsent
    BY <1>1, <1>2, <2>1, <2>2
  <2>3. CASE d \notin unsent
    <3>1. Push(d, env) \in pushes' /\ Pair(Push(d, env)) = <<d, env>>
      BY <1>1, <2>1, <2>3 DEF Push, Pair
    <3>2. QED
      BY <3>1 DEF UnderWay
  <2>4. QED
    BY <2>2, <2>3
<1>5. \A x \in JobKinds \ {k} : Sends(x, d, env) => Sends(x, d, env)'
  BY <1>1 DEF Sends
<1>6. QED
  BY <1>1, <1>2, <1>3, <1>4, <1>5, RowStaysUnderWay

(* An ACK that leaves its mention pending echoes another envelope, or its   *)
(* settlement failed.                                                      *)
LEMMA AckUnderWay ==
  ASSUME TypeOK, PendingUnderWay, UNCHANGED trackerVars,
         NEW m \in reports, NEW settled \in BOOLEAN, ReceiveAck(m, settled)
  PROVE  PendingUnderWay'
<1> SUFFICES ASSUME NEW d \in Deliveries, NEW env,
                    row'[d].outcome = "pending", row'[d].env = env, env # NoIdentity
             PROVE  UnderWay(d, env)' \/ <<d, env>> \in forgotten'
  BY RowsUnderWay
<1>1. /\ UNCHANGED <<pushes, jobs>> /\ reports' = reports \ {m}
      /\ forgotten \subseteq forgotten' /\ (settled \/ Pair(m) \in forgotten')
      /\ row \in [Deliveries -> Rows]
  BY DEF ReceiveAck, TypeOK, ServerTypeOK
<1>2. /\ row[d].outcome = "pending" /\ row[d].env = env
      /\ settled => Pair(m) # <<d, env>>
  <2>1. CASE d # m.delivery
    <3>1. row'[d] = row[d]
      BY <1>1, <2>1 DEF ReceiveAck
    <3>2. QED
      BY <2>1, <3>1 DEF Pair
  <2>2. CASE d = m.delivery /\ settled
    <3>1. row'[d] = [AckSettled(row[d], m.env) EXCEPT !.received = TRUE]
      BY <1>1, <2>2 DEF ReceiveAck
    <3>2. AckSettled(row[d], m.env) \in Rows
      BY <1>1, AckSettledType
    <3>3. AckSettled(row[d], m.env).outcome = "pending" /\ AckSettled(row[d], m.env).env = env
      BY <3>1, <3>2 DEF Rows
    <3>4. QED
      BY <1>1, <2>2, <3>3 DEF AckSettled, Carries, Open, Rows, Pair
  <2>3. CASE d = m.delivery /\ ~settled
    BY <1>1, <2>3 DEF ReceiveAck, Rows
  <2>4. QED
    BY <2>1, <2>2, <2>3
<1>3. QED
  BY <1>1, <1>2, RowStaysUnderWay DEF Sends

(* A refusal that leaves its mention pending was of another envelope, or    *)
(* the mention goes out again.                                             *)
LEMMA ErrorUnderWay ==
  ASSUME TypeOK, PendingUnderWay, UNCHANGED trackerVars,
         NEW m \in reports, NEW sent \in BOOLEAN, ReceiveError(m, sent)
  PROVE  PendingUnderWay'
<1> SUFFICES ASSUME NEW d \in Deliveries, NEW env,
                    row'[d].outcome = "pending", row'[d].env = env, env # NoIdentity
             PROVE  UnderWay(d, env)' \/ <<d, env>> \in forgotten'
  BY RowsUnderWay
<1> DEFINE r == row[m.delivery]
           target == IF sent THEN DriftTarget(r, m.env) ELSE NoIdentity
<1>1. /\ reports' = reports \ {m} /\ UNCHANGED jobs
      /\ row \in [Deliveries -> Rows] /\ m.delivery \in Deliveries
  BY DEF ReceiveError, TypeOK, ServerTypeOK, ProtocolTypeOK, Reports
<1>2. UNCHANGED <<pushes, forgotten>> \/ \E S : Publish(S)
  BY DEF ReceiveError
<1>3. pushes \subseteq pushes' /\ forgotten \ forgotten' \subseteq {Pair(n) : n \in pushes'}
  BY <1>2 DEF Publish
<1>4. CASE row'[d] = row[d] /\ Pair(m) # <<d, env>>
  BY <1>1, <1>3, <1>4, RowStaysUnderWay DEF Sends
<1>5. CASE d # m.delivery
  <2>1. row'[d] = row[d] /\ Pair(m) # <<d, env>>
    BY <1>1, <1>5 DEF ReceiveError, Pair
  <2>2. QED
    BY <1>4, <2>1
<1>6. CASE d = m.delivery
  <2>1. CASE UNCHANGED <<row, pushes, forgotten>> /\ ~(Open(r) /\ Carries(r, m.env))
    <3>1. Pair(m) # <<d, env>>
      BY <1>6, <2>1 DEF Open, Carries, Pair
    <3>2. QED
      BY <1>4, <2>1, <3>1
  <2>2. ASSUME NEW reason, NEW code, row' = [row EXCEPT ![m.delivery] = Settled(r, "lost", reason, code)]
        PROVE  FALSE
    BY <1>1, <1>6, <2>2 DEF Settled, Rows
  <2>3. ASSUME NEW code, row' = [row EXCEPT ![m.delivery] = Issued(r, NoIdentity, code)]
        PROVE  FALSE
    BY <1>1, <1>6, <2>3 DEF Issued, Rows
  <2>4. CASE /\ row' = [row EXCEPT ![m.delivery] = Issued(r, target, m.code)]
             /\ Publish(IF target # NoIdentity THEN {Push(m.delivery, target)} ELSE {})
    <3> HIDE DEF target
    <3>1. target = env
      BY <1>1, <1>6, <2>4 DEF Issued, Rows
    <3>2. Push(d, env) \in pushes' /\ Pair(Push(d, env)) = <<d, env>>
      BY <1>6, <2>4, <3>1 DEF Publish, Push, Pair
    <3>3. QED
      BY <3>2 DEF UnderWay
  <2>5. QED
    BY <2>1, <2>2, <2>3, <2>4 DEF ReceiveError
<1>7. QED
  BY <1>5, <1>6

LEMMA RowUnderWay ==
  ASSUME TypeOK, PendingUnderWay, UNCHANGED trackerVars, RowStep
  PROVE  PendingUnderWay'
  BY IssueUnderWay, StopUnderWay, JobWriteUnderWay, JobSendUnderWay, AckUnderWay, ErrorUnderWay
     DEF RowStep

(* A re-issue begins, or reads; one that is about to send is not disturbed. *)
LEMMA AgentUnderWay ==
  ASSUME TypeOK, PendingUnderWay, UNCHANGED trackerVars, AgentStep
  PROVE  PendingUnderWay'
<1> SUFFICES ASSUME NEW d \in Deliveries, NEW env,
                    row'[d].outcome = "pending", row'[d].env = env, env # NoIdentity
             PROVE  UnderWay(d, env)' \/ <<d, env>> \in forgotten'
  BY RowsUnderWay
<1>1. UNCHANGED <<pushes, reports, forgotten, row>>
  BY DEF AgentStep, Stop, Start, BeginRestart, Ready, JobRead, ReceiveStarted, AcceptSession,
     channels
<1>2. /\ jobs \in [JobKinds -> Jobs]
      /\ \/ UNCHANGED jobs
         \/ \E k \in JobKinds : /\ jobs[k].phase # "send"
                               /\ \A x \in JobKinds \ {k} : jobs'[x] = jobs[x]
  BY DEF AgentStep, Stop, Start, BeginRestart, Ready, LockFree, JobRead, ReceiveStarted,
     AcceptSession, JobKinds, TypeOK, ServerTypeOK
<1>3. \A k \in JobKinds : Sends(k, d, env) => Sends(k, d, env)'
  BY <1>2 DEF Sends
<1>4. QED
  BY <1>1, <1>3, RowStaysUnderWay

-----------------------------------------------------------------------------
LEMMA InitUnderWayInv == Init => UnderWayInv
  BY DEF Init, ServerInit, TrackerInit, UnderWayInv, AwaitInv, AnnouncedOnce, AnnouncedReceived,
     ReceivedAnnounced, UndeliveredHeld, PendingUnderWay, NoEntry

LEMMA NextUnderWayInv ==
  ASSUME TypeOK, UnderWayInv, [Next]_vars
  PROVE  UnderWayInv'
<1>1. CASE (RowStep \/ AgentStep) /\ UNCHANGED trackerVars
  BY <1>1, RowUnderWay, AgentUnderWay, AwaitsUnchanged DEF UnderWayInv
<1>2. ASSUME UNCHANGED serverVars, CarriedOn /\ AwaitInv' /\ forgotten \subseteq forgotten'
      PROVE  UnderWayInv'
  BY <1>2, CarriedOnSuffices DEF serverVars
<1>3. CASE (ReceiveStep \/ TurnStep \/ ProcessStep) /\ UNCHANGED serverVars
  BY <1>2, <1>3, ReceiveCarries, TurnCarries, ProcessCarries DEF UnderWayInv
<1>4. CASE (LosePush \/ LoseReport) /\ UNCHANGED <<serverVars, trackerVars>>
  BY <1>2, <1>4, LossCarries DEF UnderWayInv
<1>5. CASE UNCHANGED <<channels, serverVars, trackerVars>>
  <2>1. AwaitInv'
    BY <1>5, AwaitsUnchanged DEF UnderWayInv
  <2>2. CarriedOn /\ forgotten \subseteq forgotten'
    BY <1>5, EntriesCarried DEF channels, trackerVars, tracking
  <2>3. QED
    BY <1>2, <1>5, <2>1, <2>2
<1>6. QED
  BY <1>1, <1>3, <1>4, <1>5, NextSplits DEF Split

(* A pending mention that carries an envelope always has its push, its     *)
(* report, its announcement, its entry in the tracker or a re-issue under  *)
(* way, or that envelope was let go of since it was last pushed: lost with *)
(* a message or the daemon's memory, not settled by a failed write, or     *)
(* replaced by another envelope's push (answerDrift, reissuePending,       *)
(* settleTurnEnd, settleRedelivery, refuse).                               *)
THEOREM PendingStaysUnderWay == Spec => []PendingUnderWay
<1>1. TypeOK /\ UnderWayInv /\ [Next]_vars => UnderWayInv'
  BY NextUnderWayInv
<1>2. UnderWayInv => PendingUnderWay
  BY DEF UnderWayInv
<1>3. QED
  BY <1>1, <1>2, InitUnderWayInv, TypeCorrect, PTL DEF Spec
==============================================================================
