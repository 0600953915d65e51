------------------------------ MODULE Reminders ------------------------------
(***************************************************************************)
(* One reminder of one Agent, from the cloud's row to the Agent's App      *)
(* Inbox: the cloud's operations and fire (reminders.server.ts and its     *)
(* repository), the synchronisation of the daemon's mirror, the daemon's   *)
(* ReminderScheduler with its receipt file, and the acknowledgement        *)
(* (runtime.ts `reminder`).                                                *)
(*                                                                         *)
(* A version of the reminder is one occurrence: every edit, every fire and *)
(* a cancellation make the next version.  Both ends have their own clock:  *)
(* when a version is due is decided by each end for itself.                *)
(*                                                                         *)
(* The operations the scheduler runs through #serial are one step each;    *)
(* what it awaits outside of them (the fire call, the wake, the write that *)
(* precedes an effect) is a state of the effect, and a crash may fall      *)
(* between any two steps.                                                  *)
(***************************************************************************)
EXTENDS Naturals, FiniteSets

CONSTANTS
  MaxVersion,   \* bound: versions of the reminder
  MaxDue,       \* bound: versions that become due for the daemon
  MaxRequests,  \* bound: fire request ids the daemon mints
  MaxAttempts,  \* MAX_ATTEMPTS of the scheduler
  Events,       \* the kinds of failure that may happen
  MaxEvents     \* bound: how many of them in one behaviour

ASSUME ReminderBounds ==
  /\ MaxVersion \in Nat \ {0} /\ MaxDue \in 0..MaxVersion /\ MaxRequests \in Nat \ {0}
  /\ MaxAttempts \in Nat \ {0} /\ MaxEvents \in Nat

Versions == 1..MaxVersion
Requests == 1..MaxRequests
None == 0

VARIABLES
  row,        \* the cloud's reminder
  fired,      \* the request each version was fired by (reminderFireReceipt)
  syncs,      \* reminder syncs on their way to the daemon
  calls,      \* fire requests on their way to the cloud
  asked,      \* the daemon asked for a snapshot
  mirror,     \* the scheduler's job, version fence, tombstone and timer
  slot,       \* the scheduler's receipt of each version and what works on it
  due,        \* versions that are due on the daemon's clock
  expired,    \* requests past their retry deadline
  aged,       \* requests past the retention of consumed receipts
  disk,       \* the receipt file
  inbox,      \* the App Inbox items, by version
  acking,     \* acknowledgements between the receipt and the inbox item
  minted,     \* request ids used
  acked,      \* history: versions whose acknowledgement was answered
  unsaved,    \* history: versions acknowledged while the file was unreadable
  dropped,    \* history: versions edited or canceled before they were fired
  forgotten,  \* history: receipts dropped while their request might succeed
  tries,      \* history: effects started for a version's current request
  raced,      \* history: attempts a read took back before they were saved
  displaced,  \* history: a deferred fire took the timer of a newer job
  storeFailed,\* history: a read or write of the receipt file failed
  events      \* failures so far

cloudVars == <<row, fired>>
wireVars == <<syncs, calls, asked>>
schedulerVars == <<mirror, slot, minted>>
clockVars == <<due, expired, aged>>
historyVars == <<acked, unsaved, dropped, forgotten, tries, raced, displaced>>
faultVars == <<storeFailed, events>>
vars == <<cloudVars, wireVars, schedulerVars, clockVars, disk, inbox, acking,
          historyVars, faultVars>>

Ends == {"open", "woken", "declined", "exhausted", "consumed"}
Results == {"none", "accepted", "premature", "obsolete"}
Receipts == [req : Requests \cup {None}, attempt : 0..MaxAttempts,
             server : Results, end : Ends]
NoReceipt == [req |-> None, attempt |-> 0, server |-> "none", end |-> "open"]

(* A slot's timer runs #startEffect (`effect`), or saves the receipt and   *)
(* then starts the effect (`save`) or waits again (`retry`).  The save     *)
(* before an effect may have to wait for that of an `ending` receipt which *)
(* #serial has taken before it (`behind`).                                 *)
Timers == {"none", "effect", "save", "retry"}
Effects == {"idle", "save", "fire", "wake", "refused",
            "accepted", "premature", "obsolete", "failed"}
Slots == [receipt : Receipts, timer : Timers, effect : Effects,
          failures : Nat, ending : Receipts, behind : BOOLEAN]
EmptySlot == [receipt |-> NoReceipt, timer |-> "none", effect |-> "idle",
              failures |-> 0, ending |-> NoReceipt, behind |-> FALSE]

Rows == [version : 0..MaxVersion, status : {"none", "scheduled", "fired", "canceled"},
         due : BOOLEAN, repeats : BOOLEAN]
Syncs == [op : {"snapshot", "upsert", "cancel"}, version : 0..MaxVersion]
Calls == [version : Versions, req : Requests, live : BOOLEAN]
Mirrors == [authorized : BOOLEAN, job : 0..MaxVersion, fence : 0..MaxVersion,
            tombstone : BOOLEAN, changed : BOOLEAN, timer : 0..MaxVersion]
EmptyMirror == [authorized |-> FALSE, job |-> 0, fence |-> 0,
                tombstone |-> FALSE, changed |-> FALSE, timer |-> 0]

Init ==
  /\ row \in [version : {0}, status : {"none"}, due : {FALSE}, repeats : BOOLEAN]
  /\ fired = [v \in Versions |-> None]
  /\ syncs = {} /\ calls = {} /\ asked = TRUE
  /\ mirror = EmptyMirror /\ slot = [v \in Versions |-> EmptySlot] /\ minted = 0
  /\ due = {} /\ expired = {} /\ aged = {}
  /\ disk = [v \in Versions |-> NoReceipt] /\ inbox = {} /\ acking = {}
  /\ acked = {} /\ unsaved = {} /\ dropped = {} /\ forgotten = {}
  /\ tries = [v \in Versions |-> 0] /\ raced = [v \in Versions |-> 0]
  /\ displaced = FALSE /\ storeFailed = FALSE /\ events = 0

Fault(kind) == /\ kind \in Events /\ events < MaxEvents
               /\ events' = events + 1
NoFault == UNCHANGED faultVars

(* How the receipt file behaves in one operation: its first read fails, a  *)
(* save fails, or both.                                                    *)
Modes == {"works", "unread", "unsaved", "broken"}
Reads(mode) == mode \in {"works", "unsaved"}
Writes(mode) == mode \in {"works", "unread"}
Store(mode) == IF mode = "works" THEN NoFault
               ELSE Fault("store") /\ storeFailed' = TRUE

Known(receipt) == receipt.req # None
Open(receipt) == Known(receipt) /\ receipt.end = "open"

-----------------------------------------------------------------------------
(* The cloud.  A sync is published after the change is committed and may   *)
(* be lost; what was persisted is told again by the next snapshot.         *)

Publish(op, version) == syncs' = syncs \cup {[op |-> op, version |-> version]}

Schedule ==
  /\ row.status = "none"
  /\ row' = [row EXCEPT !.version = 1, !.status = "scheduled"]
  /\ Publish("upsert", 1)
  /\ UNCHANGED <<fired, calls, asked, schedulerVars, clockVars, disk, inbox,
                 acking, historyVars, faultVars>>

Drop ==
  /\ dropped' = IF row.status = "scheduled" THEN dropped \cup {row.version} ELSE dropped
  /\ UNCHANGED <<acked, unsaved, forgotten, tries, raced, displaced>>

(* update needs a scheduled reminder, snooze one that is not canceled.     *)
Edit ==
  /\ row.status \in {"scheduled", "fired"} /\ row.version < MaxVersion
  /\ row' = [row EXCEPT !.version = @ + 1, !.status = "scheduled", !.due = FALSE]
  /\ Publish("upsert", row.version + 1) /\ Drop
  /\ UNCHANGED <<fired, calls, asked, schedulerVars, clockVars, disk, inbox,
                 acking, faultVars>>

(* A second cancel changes nothing and is published again.                 *)
Cancel ==
  /\ row.status # "none"
  /\ IF row.status = "canceled"
       THEN UNCHANGED row /\ Publish("cancel", row.version)
       ELSE /\ row.version < MaxVersion
            /\ row' = [row EXCEPT !.version = @ + 1, !.status = "canceled"]
            /\ Publish("cancel", row.version + 1)
  /\ Drop
  /\ UNCHANGED <<fired, calls, asked, schedulerVars, clockVars, disk, inbox,
                 acking, faultVars>>

CloudClock ==
  /\ row.status = "scheduled" /\ ~row.due
  /\ row' = [row EXCEPT !.due = TRUE]
  /\ UNCHANGED <<fired, wireVars, schedulerVars, clockVars, disk, inbox, acking,
                 historyVars, faultVars>>

SendSnapshot ==
  /\ asked /\ asked' = FALSE
  /\ Publish("snapshot", IF row.status = "scheduled" THEN row.version ELSE 0)
  /\ UNCHANGED <<cloudVars, calls, schedulerVars, clockVars, disk, inbox, acking,
                 historyVars, faultVars>>

(* Mutant of Replayed: a fire is judged by the row alone.                  *)
ReplayedNever(call) == FALSE

(* Mutant of Replayed: whatever the row has moved past was fired.          *)
ReplayedByVersion(call) == call.version < row.version

(* A repeated request is answered by its receipt; otherwise the version    *)
(* must still be the scheduled one, and due.                               *)
Replayed(call) == fired[call.version] = call.req

(* Mutant of Current: any scheduled reminder is fired.                     *)
CurrentStatus(version) == row.status = "scheduled"

Current(version) == row.status = "scheduled" /\ row.version = version

Verdict(call) ==
  IF Replayed(call) THEN "accepted"
  ELSE IF ~Current(call.version) THEN "obsolete"
  ELSE IF ~row.due THEN "premature" ELSE "accepted"

(* The row moves to its next occurrence, or is done, in the transaction    *)
(* that stores the request's receipt.                                      *)
Advance(call) ==
  /\ row.version < MaxVersion
  /\ row' = [row EXCEPT !.version = @ + 1, !.due = FALSE,
                        !.status = IF row.repeats THEN "scheduled" ELSE "fired"]
  /\ fired' = [fired EXCEPT ![call.version] = call.req]

(* The canonical job is published after a fire and after its replay.       *)
PublishNext == IF row'.status = "scheduled"
               THEN Publish("upsert", row'.version) ELSE UNCHANGED syncs

Fire(call) ==
  /\ calls' = calls \ {call}
  /\ IF Verdict(call) = "accepted"
       THEN /\ IF Replayed(call) THEN UNCHANGED cloudVars ELSE Advance(call)
            /\ PublishNext
       ELSE UNCHANGED <<cloudVars, syncs>>
  /\ slot' = IF call.live THEN [slot EXCEPT ![call.version].effect = Verdict(call)]
                          ELSE slot
  /\ UNCHANGED <<asked, mirror, minted, clockVars, disk, inbox, acking,
                 historyVars, faultVars>>

-----------------------------------------------------------------------------
(* The receipt file.                                                       *)

(* Mutant of Merged: the copy in hand is written as it is.                 *)
MergedBlindly(version, receipt) == receipt

(* saveMerged: what the Agent acknowledged stays acknowledged, whatever    *)
(* this copy concluded.                                                    *)
Merged(version, receipt) ==
  IF disk[version].end = "consumed" THEN [receipt EXCEPT !.end = "consumed"]
                                    ELSE receipt

(* Every write drops the consumed receipts whose fence has expired.        *)
Retained(file) ==
  [v \in Versions |-> IF file[v].end = "consumed" /\ file[v].req \in aged
                        THEN NoReceipt ELSE file[v]]

Saves(version, receipt) ==
  disk' = Retained([disk EXCEPT ![version] = Merged(version, receipt)])

(* #fresh: the stored receipt replaces the one in memory, unless the file  *)
(* cannot be read.                                                         *)
Fresh(version, mode) ==
  IF Reads(mode) /\ Known(disk[version]) THEN disk[version] ELSE slot[version].receipt

(* Mutant of Spent: only the deadline ends the retries.                    *)
SpentByDeadline(receipt) == receipt.req \in expired

(* A counted attempt that is not saved yet is lost when the file is read.  *)
TakenBack(version) == IF slot[version].effect = "save" /\ Open(disk[version])
                        THEN raced[version] + 1 ELSE raced[version]

Spent(receipt) == receipt.attempt >= MaxAttempts \/ receipt.req \in expired

(* #exhaust marks the receipt in memory and saves it in a later operation. *)
Exhaust(s) == [s EXCEPT !.receipt.end = "exhausted",
                        !.ending = [s.receipt EXCEPT !.end = "exhausted"],
                        !.behind = FALSE]

(* #startEffect: the attempt is counted in memory and saved before the     *)
(* effect runs.                                                            *)
StartEffect(s) ==
  IF s.effect # "idle" \/ ~Open(s.receipt) THEN s
  ELSE IF Spent(s.receipt) THEN Exhaust(s)
  ELSE [s EXCEPT !.receipt.attempt = @ + 1, !.effect = "save",
                 !.behind = Known(s.ending)]

(* #armReceipt does nothing for a receipt that has ended.                  *)
Arm(s, timer) == IF Open(s.receipt) THEN [s EXCEPT !.timer = timer] ELSE s

(* Mutant of Retry: past the deadline nothing is armed and nothing ends.   *)
RetryUntilDeadline(s) ==
  IF ~Open(s.receipt) \/ s.receipt.req \in expired THEN s
  ELSE IF Spent(s.receipt) THEN Exhaust(s) ELSE Arm(s, "effect")

(* #retry                                                                  *)
Retry(s) == IF ~Open(s.receipt) THEN s
            ELSE IF Spent(s.receipt) THEN Exhaust(s) ELSE Arm(s, "effect")

(* The two outcomes of #persistOrRetry for the receipt in the slot.        *)
Saved(version, s) ==
  [s EXCEPT !.receipt = Merged(version, s.receipt), !.failures = 0]

Failed(s) == [s EXCEPT !.failures = @ + 1]

NotSaved(s, timer) ==
  IF Failed(s).failures >= MaxAttempts \/ s.receipt.req \in expired
    THEN Failed(s) ELSE Arm(Failed(s), timer)

(* The `proceed` of #persistOrRetry.                                       *)
Proceed(proceed, s) ==
  CASE proceed = "effect" -> StartEffect(s)
    [] proceed = "retry" -> Retry(s)
    [] proceed = "stop" -> s

(* Save the receipt of s and proceed; a failed write arms the timer that   *)
(* repeats the save.                                                       *)
PersistOrRetry(version, s, mode, proceed, timer) ==
  IF Writes(mode)
    THEN /\ Saves(version, s.receipt)
         /\ slot' = [slot EXCEPT ![version] = Proceed(proceed, Saved(version, s))]
    ELSE /\ slot' = [slot EXCEPT ![version] = NotSaved(s, timer)]
         /\ UNCHANGED disk

-----------------------------------------------------------------------------
(* The daemon's mirror.                                                    *)

(* Mutant of Newer: the fence lets everything pass.                        *)
NewerAlways(version) == TRUE

(* A sync that names an older version than the fence, or the tombstoned    *)
(* one, is old news.                                                       *)
Newer(version) ==
  /\ version >= mirror.fence
  /\ ~(version = mirror.fence /\ mirror.tombstone)

ApplyUpsert(version) ==
  /\ mirror' = IF mirror.authorized /\ Newer(version)
                 THEN [mirror EXCEPT !.job = version, !.fence = version,
                         !.tombstone = FALSE, !.changed = TRUE, !.timer = version]
                 ELSE mirror
  /\ UNCHANGED <<slot, raced>>

ApplyCancel(version) ==
  /\ mirror' = IF mirror.authorized /\ Newer(version)
                 THEN [mirror EXCEPT !.job = 0, !.fence = version,
                         !.tombstone = TRUE, !.changed = TRUE, !.timer = 0]
                 ELSE mirror
  /\ UNCHANGED <<slot, raced>>

(* A job that a push brought after the last snapshot outlives a snapshot   *)
(* that does not know it.                                                  *)
Kept == IF mirror.changed THEN mirror.job ELSE 0

(* Mutant of Restored: receipts are read, and nothing arms them.           *)
RestoredUnarmed(version, s) ==
  IF Known(disk[version]) THEN [s EXCEPT !.receipt = disk[version]] ELSE s

(* #restore: receipts that have not ended are armed again.                 *)
Restored(version, s) ==
  IF Known(disk[version])
    THEN Arm([s EXCEPT !.receipt = disk[version]], "effect") ELSE s

ApplySnapshot(version, mode) ==
  LET taken == version # 0 /\ Newer(version)
      job == IF taken THEN version ELSE Kept
  IN /\ mirror' = [mirror EXCEPT !.authorized = TRUE, !.job = job, !.timer = job,
                     !.fence = IF taken THEN version ELSE @,
                     !.changed = IF taken THEN FALSE ELSE @]
     /\ IF Reads(mode)
          THEN /\ slot' = [v \in Versions |-> Restored(v, slot[v])]
               /\ raced' = [v \in Versions |-> TakenBack(v)]
          ELSE UNCHANGED <<slot, raced>>

Apply(sync, mode) ==
  /\ syncs' = syncs \ {sync}
  /\ CASE sync.op = "snapshot" -> ApplySnapshot(sync.version, mode)
       [] sync.op = "upsert" -> ApplyUpsert(sync.version)
       [] sync.op = "cancel" -> ApplyCancel(sync.version)
  /\ UNCHANGED <<cloudVars, calls, asked, minted, clockVars, disk, inbox, acking,
                 acked, unsaved, dropped, forgotten, tries, displaced>>

-----------------------------------------------------------------------------
(* The daemon's receipts.                                                  *)

(* A schedule timer whose job has been replaced does nothing.              *)
StaleTimer ==
  /\ mirror.timer # 0 /\ mirror.timer # mirror.job
  /\ mirror' = [mirror EXCEPT !.timer = 0]
  /\ UNCHANGED <<cloudVars, wireVars, slot, minted, clockVars, disk, inbox, acking,
                 historyVars, faultVars>>

(* The schedule timer of the mirrored job: #prepareDue takes the receipt   *)
(* of the version from memory or from the file, or makes one with a new    *)
(* request id, and saves it before anything is sent.                       *)
PrepareDue(v, mode) ==
  LET s == slot[v]
      found == IF Known(s.receipt) THEN s.receipt ELSE Fresh(v, mode)
      made == [NoReceipt EXCEPT !.req = minted + 1]
      receipt == IF Known(found) THEN found ELSE made
  IN /\ mirror.timer = v /\ mirror.job = v /\ v \in due
     /\ mirror' = [mirror EXCEPT !.timer = 0]
     /\ PersistOrRetry(v, [s EXCEPT !.receipt = receipt], mode, "effect", "save")
     /\ IF Known(found)
          THEN UNCHANGED <<minted, forgotten, tries, raced>>
          ELSE /\ minted < MaxRequests /\ minted' = minted + 1
               /\ forgotten' = IF Known(disk[v]) THEN forgotten \cup {v} ELSE forgotten
               /\ tries' = [tries EXCEPT ![v] = 0] /\ raced' = [raced EXCEPT ![v] = 0]
     /\ UNCHANGED <<cloudVars, wireVars, clockVars, inbox, acking, acked, unsaved,
                    dropped, displaced>>

(* A receipt's timer.                                                      *)
ReceiptTimer(v, mode) ==
  LET s == [slot[v] EXCEPT !.timer = "none"]
  IN /\ \/ /\ slot[v].timer = "effect"
           /\ slot' = [slot EXCEPT ![v] =
                          StartEffect([s EXCEPT !.receipt = Fresh(v, mode)])]
           /\ raced' = IF Reads(mode) THEN [raced EXCEPT ![v] = TakenBack(v)] ELSE raced
           /\ UNCHANGED disk
        \/ /\ slot[v].timer \in {"save", "retry"} /\ ~Open(s.receipt)
           /\ slot' = [slot EXCEPT ![v] = s] /\ UNCHANGED <<disk, raced>>
        \/ /\ slot[v].timer = "save" /\ Open(s.receipt)
           /\ PersistOrRetry(v, s, mode, "effect", "save") /\ UNCHANGED raced
        \/ /\ slot[v].timer = "retry" /\ Open(s.receipt)
           /\ PersistOrRetry(v, s, mode, "retry", "retry") /\ UNCHANGED raced
     /\ UNCHANGED <<cloudVars, wireVars, mirror, minted, clockVars, inbox, acking,
                    acked, unsaved, dropped, forgotten, tries, displaced>>

(* The save before an effect; an effect whose attempt could not be saved   *)
(* does not run.  A wake mints the Agent's App Inbox item, which may fail, *)
(* and then tells the Agent.                                               *)
SaveAttempt(v, mode, minting) ==
  LET s == slot[v]
      saved == Saved(v, s)
      Continues(effect) == slot' = [slot EXCEPT ![v] = [saved EXCEPT !.effect = effect]]
      Starts == tries' = [tries EXCEPT ![v] = @ + 1]
  IN /\ s.effect = "save" /\ ~s.behind
     /\ IF Writes(mode) THEN Saves(v, s.receipt) ELSE UNCHANGED disk
     /\ \/ /\ ~Writes(mode)
           /\ slot' = [slot EXCEPT ![v] = [NotSaved(s, "save") EXCEPT !.effect = "idle"]]
           /\ UNCHANGED <<calls, inbox, tries>>
        \/ /\ Writes(mode) /\ ~Open(saved.receipt)
           /\ Continues("idle") /\ UNCHANGED <<calls, inbox, tries>>
        \/ /\ Writes(mode) /\ Open(saved.receipt) /\ s.receipt.server = "accepted"
           /\ Starts /\ UNCHANGED calls
           /\ IF minting THEN Continues("wake") /\ inbox' = inbox \cup {v}
                         ELSE Continues("refused") /\ UNCHANGED inbox
        \/ /\ Writes(mode) /\ Open(saved.receipt) /\ s.receipt.server # "accepted"
           /\ Continues("fire") /\ Starts /\ UNCHANGED inbox
           /\ calls' = calls \cup {[version |-> v, req |-> s.receipt.req, live |-> TRUE]}
     /\ UNCHANGED <<cloudVars, syncs, asked, mirror, minted, clockVars, acking,
                    acked, unsaved, dropped, forgotten, raced, displaced>>

(* A premature answer beyond the deadline drops the receipt and leaves the *)
(* occurrence to the schedule timer, whose job makes a fresh one.          *)
Defer(v, s, mode) ==
  IF Writes(mode)
    THEN /\ disk' = [disk EXCEPT ![v] = NoReceipt]
         /\ slot' = [slot EXCEPT ![v] = [s EXCEPT !.receipt = NoReceipt]]
         /\ mirror' = [mirror EXCEPT !.timer = v]
         /\ displaced' = (displaced \/ mirror.timer \notin {0, v})
         /\ forgotten' = IF s.receipt.req \in {fired[v]} \cup {c.req : c \in calls}
                           THEN forgotten \cup {v} ELSE forgotten
    ELSE /\ slot' = [slot EXCEPT ![v] = s]
         /\ UNCHANGED <<disk, mirror, forgotten, displaced>>

(* One within the deadline is saved and waited for, also when the save     *)
(* failed.                                                                 *)
Wait(v, s, mode) ==
  /\ IF Writes(mode)
       THEN /\ Saves(v, s.receipt)
            /\ slot' = [slot EXCEPT ![v] = Arm(Saved(v, s), "effect")]
       ELSE /\ slot' = [slot EXCEPT ![v] = Arm(Failed(s), "effect")]
            /\ UNCHANGED disk
  /\ UNCHANGED <<mirror, forgotten, displaced>>

(* The fire's answer, or its failure, is applied to the freshest receipt.  *)
FireAnswered(v, mode) ==
  LET s == [slot[v] EXCEPT !.effect = "idle", !.receipt = Fresh(v, mode)]
      result == slot[v].effect
      With(server, end) == [s EXCEPT !.receipt.server = server, !.receipt.end = end]
      Stays == UNCHANGED <<mirror, forgotten, displaced>>
  IN /\ \/ /\ result \in {"accepted", "premature", "obsolete", "failed"} /\ ~Open(s.receipt)
           /\ slot' = [slot EXCEPT ![v] = s] /\ UNCHANGED disk /\ Stays
        \/ /\ result = "failed" /\ Open(s.receipt)
           /\ slot' = [slot EXCEPT ![v] = Retry(s)] /\ UNCHANGED disk /\ Stays
        \/ /\ result = "accepted" /\ Open(s.receipt) /\ Stays
           /\ PersistOrRetry(v, With("accepted", "open"), mode, "effect", "save")
        \/ /\ result = "obsolete" /\ Open(s.receipt) /\ Stays
           /\ PersistOrRetry(v, With("obsolete", "declined"), mode, "stop", "none")
        \/ /\ result = "premature" /\ Open(s.receipt)
           /\ \/ Defer(v, With("premature", "open"), mode)
              \/ Wait(v, With("premature", "open"), mode)
     /\ UNCHANGED <<cloudVars, wireVars, minted, clockVars, inbox, acking,
                    acked, unsaved, dropped, tries, raced>>

(* The wake's notice is refused, or the process cannot be started.         *)
RefuseWake(v) ==
  /\ slot[v].effect = "wake"
  /\ slot' = [slot EXCEPT ![v].effect = "refused"]
  /\ UNCHANGED <<cloudVars, wireVars, mirror, minted, clockVars, disk, inbox, acking,
                 historyVars>>

(* The Agent took the wake's notice, or did not.                           *)
WakeAnswered(v, mode) ==
  LET s == [slot[v] EXCEPT !.effect = "idle", !.receipt = Fresh(v, mode)]
      taken == slot[v].effect = "wake"
  IN /\ slot[v].effect \in {"wake", "refused"}
     /\ IF ~Open(s.receipt)
          THEN slot' = [slot EXCEPT ![v] = s] /\ UNCHANGED disk
        ELSE IF taken
          THEN PersistOrRetry(v, [s EXCEPT !.receipt.end = "woken"], mode, "stop", "none")
          ELSE PersistOrRetry(v, s, mode, "retry", "retry")
     /\ UNCHANGED <<cloudVars, wireVars, mirror, minted, clockVars, inbox, acking,
                    historyVars>>

(* The receipt that ran out of retries is saved.                           *)
SaveExhausted(v, mode) ==
  LET s == [slot[v] EXCEPT !.ending = NoReceipt, !.behind = FALSE]
  IN /\ Known(slot[v].ending)
     /\ IF Writes(mode)
          THEN /\ Saves(v, slot[v].ending)
               /\ slot' = [slot EXCEPT ![v] =
                              Saved(v, [s EXCEPT !.receipt = slot[v].ending])]
          ELSE slot' = [slot EXCEPT ![v] = Failed(s)] /\ UNCHANGED disk
     /\ UNCHANGED <<cloudVars, wireVars, mirror, minted, clockVars, inbox, acking,
                    historyVars>>

-----------------------------------------------------------------------------
(* The Agent acknowledges an item of its inbox: first the receipt, then    *)
(* the item (runtime.ts `reminder`).                                       *)

(* Mutant of Acknowledged: only the receipt in memory is consumed.         *)
AcknowledgedInMemory(v, consumed) == disk

Acknowledged(v, consumed) == Retained([disk EXCEPT ![v] = consumed])

(* A receipt nobody knows as delivered is left alone, and so is the file   *)
(* when it cannot be read; the item is removed all the same.  A failed     *)
(* write fails the acknowledgement.                                        *)
AckReceipt(v, mode) ==
  LET receipt == IF Reads(mode) /\ Known(disk[v]) THEN disk[v] ELSE slot[v].receipt
      consumed == [receipt EXCEPT !.end = "consumed"]
      delivered == Known(receipt) /\ receipt.server = "accepted"
  IN /\ v \in inbox /\ v \notin acking
     /\ IF delivered /\ Reads(mode) /\ ~Writes(mode)
          THEN UNCHANGED <<slot, disk, acking, unsaved>>
          ELSE /\ acking' = acking \cup {v}
               /\ slot' = IF delivered
                            THEN [slot EXCEPT ![v].receipt = consumed, ![v].timer = "none"]
                            ELSE slot
               /\ disk' = IF delivered /\ Reads(mode)
                            THEN Acknowledged(v, consumed) ELSE disk
               /\ unsaved' = IF Reads(mode) THEN unsaved ELSE unsaved \cup {v}
     /\ UNCHANGED <<cloudVars, wireVars, mirror, minted, clockVars, inbox, acked,
                    dropped, forgotten, tries, raced, displaced>>

RemoveItem(v) ==
  /\ v \in acking
  /\ acking' = acking \ {v} /\ inbox' = inbox \ {v} /\ acked' = acked \cup {v}
  /\ UNCHANGED <<cloudVars, wireVars, schedulerVars, clockVars, disk, unsaved,
                 dropped, forgotten, tries, raced, displaced>>

(* The inbox file cannot be written: the item stays and the Agent is told  *)
(* of an error.                                                            *)
RemoveFails(v) ==
  /\ v \in acking /\ acking' = acking \ {v}
  /\ UNCHANGED <<cloudVars, wireVars, schedulerVars, clockVars, disk, inbox,
                 historyVars>>

-----------------------------------------------------------------------------
(* Clocks, the network and the machine.                                    *)

DaemonClock(v) ==
  /\ v \notin due /\ v <= MaxDue /\ v \in {mirror.job, mirror.timer}
  /\ due' = due \cup {v}
  /\ UNCHANGED <<cloudVars, wireVars, schedulerVars, expired, aged, disk, inbox,
                 acking, historyVars, faultVars>>

DeadlinePasses(req) ==
  /\ req \notin expired /\ req <= minted
  /\ expired' = expired \cup {req}
  /\ UNCHANGED <<cloudVars, wireVars, schedulerVars, due, aged, disk, inbox, acking,
                 historyVars, faultVars>>

RetentionPasses(req) ==
  /\ req \in expired \ aged
  /\ aged' = aged \cup {req}
  /\ UNCHANGED <<cloudVars, wireVars, schedulerVars, due, expired, disk, inbox, acking,
                 historyVars>>

LoseSync(sync) ==
  /\ sync \in syncs /\ syncs' = syncs \ {sync}
  /\ UNCHANGED <<cloudVars, calls, asked, schedulerVars, clockVars, disk, inbox,
                 acking, historyVars>>

(* A call fails at the daemon; the request is lost or arrives later.       *)
FireFails(v) ==
  LET call == [version |-> v, req |-> slot[v].receipt.req, live |-> TRUE]
  IN /\ slot[v].effect \in {"fire"} \cup Results
     /\ slot' = [slot EXCEPT ![v].effect = "failed"]
     /\ \/ calls' = {c \in calls : c.version # v \/ ~c.live}
        \/ calls' = {IF c.version = v THEN [c EXCEPT !.live = FALSE] ELSE c : c \in calls}
     /\ UNCHANGED <<cloudVars, syncs, asked, mirror, minted, clockVars, disk, inbox,
                    acking, historyVars>>

Reconnect ==
  /\ ~asked /\ asked' = TRUE
  /\ UNCHANGED <<cloudVars, syncs, calls, schedulerVars, clockVars, disk, inbox,
                 acking, historyVars>>

(* The daemon stops, or is stopped, and starts again with its files.       *)
Crash ==
  /\ mirror' = EmptyMirror /\ slot' = [v \in Versions |-> EmptySlot]
  /\ acking' = {} /\ syncs' = {} /\ asked' = TRUE
  /\ calls' = {[c EXCEPT !.live = FALSE] : c \in calls}
  /\ UNCHANGED <<cloudVars, minted, clockVars, disk, inbox, historyVars>>

-----------------------------------------------------------------------------
(* Scheduler steps, by what they do with the receipt file.                 *)

Work(v, mode) ==
  \/ PrepareDue(v, mode)
  \/ ReceiptTimer(v, mode)
  \/ FireAnswered(v, mode)
  \/ WakeAnswered(v, mode)

ReadWrite(v, mode) == Work(v, mode) \/ AckReceipt(v, mode)

Write(v, mode) == SaveAttempt(v, mode, TRUE) \/ SaveExhausted(v, mode)

Happens(kind) == Fault(kind) /\ UNCHANGED storeFailed

Failure ==
  \/ \E v \in Versions :
       \/ Happens("inbox") /\ (SaveAttempt(v, "works", FALSE) \/ RemoveFails(v))
       \/ Happens("refused") /\ RefuseWake(v)
       \/ Happens("lost") /\ FireFails(v)
  \/ Happens("lost") /\ \E sync \in syncs : LoseSync(sync)
  \/ Happens("retention") /\ \E req \in Requests : RetentionPasses(req)
  \/ Happens("reconnect") /\ Reconnect
  \/ Happens("crash") /\ Crash

Next ==
  \/ Schedule \/ Edit \/ Cancel
  \/ CloudClock \/ SendSnapshot \/ StaleTimer
  \/ \E call \in calls : Fire(call)
  \/ \E sync \in syncs, mode \in {"works", "unread"} : Store(mode) /\ Apply(sync, mode)
  \/ \E v \in Versions : \E mode \in Modes : Store(mode) /\ ReadWrite(v, mode)
  \/ \E v \in Versions : \E mode \in {"works", "unsaved"} : Store(mode) /\ Write(v, mode)
  \/ \E v \in Versions : NoFault /\ RemoveItem(v)
  \/ \E v \in Versions : DaemonClock(v)
  \/ \E req \in Requests : DeadlinePasses(req)
  \/ Failure

Spec == Init /\ [][Next]_vars

(* The cloud answers, syncs that are not lost arrive, a snapshot even      *)
(* under a stream of changes, the daemon's timers and awaits come up, and  *)
(* time passes.  Nobody owes an edit, an acknowledgement or a failure.     *)
CloudStep == CloudClock \/ SendSnapshot \/ \E call \in calls : Fire(call)
SyncArrives(ops) == \E sync \in syncs : sync.op \in ops /\ NoFault /\ Apply(sync, "works")
DaemonStep ==
  \/ StaleTimer
  \/ \E v \in Versions : NoFault /\ (Work(v, "works") \/ Write(v, "works"))
TimePasses == \/ \E v \in Versions : DaemonClock(v)
              \/ \E req \in Requests : DeadlinePasses(req)

FairSpec ==
  /\ Spec
  /\ WF_vars(CloudStep) /\ WF_vars(DaemonStep) /\ WF_vars(TimePasses)
  /\ WF_vars(SyncArrives({"snapshot"}))
  /\ WF_vars(SyncArrives({"snapshot", "upsert", "cancel"}))

-----------------------------------------------------------------------------
TypeOK ==
  /\ row \in Rows /\ fired \in [Versions -> Requests \cup {None}]
  /\ syncs \subseteq Syncs /\ calls \subseteq Calls /\ asked \in BOOLEAN
  /\ mirror \in Mirrors /\ slot \in [Versions -> Slots] /\ minted \in 0..MaxRequests
  /\ due \subseteq Versions /\ expired \subseteq Requests /\ aged \subseteq expired
  /\ disk \in [Versions -> Receipts] /\ inbox \subseteq Versions
  /\ acking \subseteq Versions /\ acked \subseteq Versions
  /\ unsaved \subseteq Versions /\ dropped \subseteq Versions
  /\ forgotten \subseteq Versions
  /\ tries \in [Versions -> Nat] /\ raced \in [Versions -> Nat]
  /\ displaced \in BOOLEAN /\ storeFailed \in BOOLEAN /\ events \in 0..MaxEvents

(* The cloud moves a reminder on with its fire, so only the daemon's file  *)
(* remembers that the Agent must hear of the occurrence: whatever is lost, *)
(* repeated or crashes, the file holds the request the cloud accepted and  *)
(* never calls it declined, until its item is in the Agent's inbox.        *)
(* Excepted are receipts the daemon dropped, or replaced while the file    *)
(* was unreadable, with a request that the cloud might still accept.       *)
FiredIsNotLost ==
  \A v \in Versions \ (forgotten \cup inbox \cup acked) : fired[v] # None =>
    disk[v].req = fired[v] /\ disk[v].end # "declined"

(* An occurrence that was edited or canceled before the cloud fired it     *)
(* never reaches the Agent, however long the daemon acts on the old one.   *)
DroppedNotShown == dropped \cap inbox = {}

(* Effects are bounded by the attempts of the receipt, across crashes and  *)
(* failed saves; a timer or a snapshot that reads the file between the     *)
(* counting of an attempt and its save allows one more.                    *)
EffectsBounded == \A v \in Versions : tries[v] <= MaxAttempts + raced[v]

(* What the Agent acknowledged does not come back, whatever fire, wake or  *)
(* retry was under way on a copy of the receipt ("Acknowledges one exact   *)
(* revision the Agent was woken for"); unless the receipt file could not   *)
(* be read for the acknowledgement.                                        *)
AckedStaysAcked ==
  [][\A v \in acked \ unsaved : v \notin inbox => v \notin inbox']_vars

(* The file keeps an acknowledgement, whatever a copy of the receipt that  *)
(* is still being worked on concludes and saves: it is dropped, and only   *)
(* when a fence has expired.                                               *)
ConsumedStays ==
  [][\A v \in Versions : disk[v].end = "consumed" =>
       disk'[v].end = "consumed" \/ (disk'[v] = NoReceipt /\ aged # {})]_vars

(* A job brought by a push stays mirrored while the cloud still has it     *)
(* scheduled, whatever older syncs arrive after it.                        *)
PushedJobStays ==
  [][mirror.changed /\ mirror.job # 0 /\ Current(mirror.job) /\ mirror'.authorized =>
       mirror'.job = mirror.job]_vars

(* The versions that become due and leave room for the next one.           *)
Fireable == (1..MaxDue) \ {MaxVersion}

(* An occurrence that the cloud fired reaches the Agent's inbox or ends as *)
(* exhausted, and is not forgotten about after a failure that was not one  *)
(* of the receipt file.                                                    *)
FiredReachesAgent ==
  \A v \in Fireable :
    (fired[v] # None) ~> (v \in inbox \cup acked \cup forgotten
                           \/ disk[v].end = "exhausted" \/ storeFailed)

(* A mirrored occurrence that is due is fired or ends, unless it is edited *)
(* or leaves the mirror.  A deferred fire of an older version may take its *)
(* timer.  The bound on requests stops it too.                             *)
DueIsFired ==
  \A v \in Fireable :
    (mirror.job = v /\ v \in due) ~>
      (fired[v] # None \/ ~Current(v) \/ mirror.job # v \/ displaced \/ storeFailed
        \/ (Known(disk[v]) /\ ~Open(disk[v]))
        \/ minted = MaxRequests)
=============================================================================
