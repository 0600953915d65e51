--------------------------- MODULE RemindersProofs ---------------------------
(***************************************************************************)
(* What Reminders promises for any bounds and failures.                    *)
(***************************************************************************)
EXTENDS Reminders, TLAPS

-----------------------------------------------------------------------------
(* What the helpers on receipts and slots return.                          *)

(* A slot t that helpers made of s: it has the same request with the same  *)
(* answer, an ended receipt stays ended, and at most a save begins.        *)
Like(s, t) ==
  /\ t \in Slots
  /\ t.receipt.req = s.receipt.req /\ t.receipt.server = s.receipt.server
  /\ Open(t.receipt) => Open(s.receipt)
  /\ t.effect = s.effect \/ (s.effect = "idle" /\ t.effect = "save" /\ Open(s.receipt))
  /\ \/ t.ending = s.ending
     \/ /\ t.ending.req = s.receipt.req /\ t.ending.server = s.receipt.server
        /\ t.ending.end = "exhausted"

LEMMA NoReceiptType == NoReceipt \in Receipts /\ EmptySlot \in Slots
  BY ReminderBounds DEF NoReceipt, Receipts, EmptySlot, Slots, Timers, Effects, Ends, Results, None

LEMMA ExhaustLike ==
  ASSUME NEW s \in Slots
  PROVE  Like(s, Exhaust(s))
  BY DEF Like, Exhaust, Slots, Receipts, Ends, Open, Known

LEMMA StartLike ==
  ASSUME NEW s \in Slots
  PROVE  Like(s, StartEffect(s))
<1>1. CASE s.effect # "idle" \/ ~Open(s.receipt)
  BY <1>1 DEF StartEffect, Like
<1>2. CASE s.effect = "idle" /\ Open(s.receipt) /\ Spent(s.receipt)
  BY <1>2, ExhaustLike DEF StartEffect
<1>3. CASE s.effect = "idle" /\ Open(s.receipt) /\ ~Spent(s.receipt)
  <2> DEFINE r == [s.receipt EXCEPT !.attempt = @ + 1]
             t == [s EXCEPT !.receipt = r, !.effect = "save", !.behind = Known(s.ending)]
  <2>1. s.receipt.attempt + 1 \in 0..MaxAttempts
    BY <1>3, ReminderBounds DEF Spent, Slots, Receipts
  <2>2. r \in Receipts /\ r.req = s.receipt.req /\ r.server = s.receipt.server
    BY <2>1 DEF Slots, Receipts
  <2>3. t \in Slots /\ t.receipt = r /\ t.ending = s.ending /\ t.effect = "save"
    BY <2>2 DEF Slots, Effects, Known
  <2>4. StartEffect(s) = t
    BY <1>3 DEF StartEffect, Slots, Receipts
  <2>5. QED
    BY <1>3, <2>2, <2>3, <2>4 DEF Like
<1>4. QED
  BY <1>1, <1>2, <1>3

LEMMA ArmLike ==
  ASSUME NEW s \in Slots, NEW timer \in Timers
  PROVE  Like(s, Arm(s, timer))
  BY DEF Like, Arm, Slots, Open, Known

LEMMA RetryLike ==
  ASSUME NEW s \in Slots
  PROVE  Like(s, Retry(s))
<1>1. "effect" \in Timers
  BY DEF Timers
<1>2. CASE ~Open(s.receipt)
  BY <1>2 DEF Retry, Like
<1>3. CASE Open(s.receipt)
  BY <1>1, <1>3, ExhaustLike, ArmLike DEF Retry
<1>4. QED
  BY <1>2, <1>3

LEMMA LikeTrans ==
  ASSUME NEW s \in Slots, NEW t \in Slots, NEW u \in Slots, Like(s, t), Like(t, u)
  PROVE  Like(s, u)
  BY DEF Like

LEMMA NotSavedLike ==
  ASSUME NEW s \in Slots, NEW timer \in Timers
  PROVE  Failed(s) \in Slots /\ Like(s, Failed(s)) /\ Like(s, NotSaved(s, timer))
<1>1. Failed(s) \in Slots /\ Like(s, Failed(s))
  BY DEF Failed, Like, Slots, Open, Known
<1>2. Like(Failed(s), Arm(Failed(s), timer))
  BY <1>1, ArmLike
<1>3. Like(s, Arm(Failed(s), timer))
  BY <1>1, <1>2, LikeTrans DEF Like
<1>4. QED
  BY <1>1, <1>3 DEF NotSaved

(* A merge keeps the request and its answer, and what is consumed in the   *)
(* file is consumed in the copy.                                           *)
LEMMA MergedReceipt ==
  ASSUME NEW v \in Versions, NEW r \in Receipts
  PROVE  /\ Merged(v, r) \in Receipts
         /\ Merged(v, r).req = r.req /\ Merged(v, r).server = r.server
         /\ Merged(v, r).end = IF disk[v].end = "consumed" THEN "consumed" ELSE r.end
         /\ Open(Merged(v, r)) => Open(r)
  BY DEF Merged, Receipts, Ends, Open, Known

LEMMA SavedLike ==
  ASSUME NEW v \in Versions, NEW s \in Slots
  PROVE  /\ Like(s, Saved(v, s)) /\ Saved(v, s).receipt = Merged(v, s.receipt)
         /\ Saved(v, s).effect = s.effect /\ Saved(v, s).ending = s.ending
<1>1. s.receipt \in Receipts
  BY DEF Slots
<1>2. QED
  BY <1>1, MergedReceipt DEF Saved, Like, Slots, Open, Known

LEMMA ProceedLike ==
  ASSUME NEW s \in Slots, NEW proceed \in {"effect", "retry", "stop"}
  PROVE  Like(s, Proceed(proceed, s))
<1>1. Like(s, s)
  BY DEF Like
<1>2. QED
  BY <1>1, StartLike, RetryLike DEF Proceed

(* What a write makes of the file: the merged copy, the other receipts as  *)
(* they were, and nothing in the place of one whose fence has expired.     *)
LEMMA SavesFile ==
  ASSUME disk \in [Versions -> Receipts], NEW v \in Versions, NEW r \in Receipts, Saves(v, r)
  PROVE  /\ disk' \in [Versions -> Receipts]
         /\ \A w \in Versions :
              \/ disk'[w] = IF w = v THEN Merged(v, r) ELSE disk[w]
              \/ disk'[w] = NoReceipt /\ aged # {}
  BY MergedReceipt, NoReceiptType DEF Saves, Retained

LEMMA FreshReceipt ==
  ASSUME disk \in [Versions -> Receipts], slot \in [Versions -> Slots], NEW v \in Versions, NEW mode
  PROVE  /\ Fresh(v, mode) \in Receipts
         /\ Fresh(v, mode) = slot[v].receipt \/ (Fresh(v, mode) = disk[v] /\ Known(disk[v]))
  BY DEF Fresh, Slots

(* The two outcomes of #persistOrRetry.                                    *)
LEMMA PersistEffect ==
  ASSUME disk \in [Versions -> Receipts], slot \in [Versions -> Slots],
         NEW v \in Versions, NEW s \in Slots, NEW mode,
         NEW proceed \in {"effect", "retry", "stop"}, NEW timer \in Timers,
         PersistOrRetry(v, s, mode, proceed, timer)
  PROVE  \E t \in Slots :
           /\ slot' = [slot EXCEPT ![v] = t] /\ Like(s, t)
           /\ \/ Saves(v, s.receipt) /\ (disk[v].end = "consumed" => ~Open(t.receipt))
              \/ disk' = disk /\ t.effect = s.effect
<1>1. CASE Writes(mode)
  <2> DEFINE t == Proceed(proceed, Saved(v, s))
  <2>1. Like(s, Saved(v, s)) /\ Saved(v, s) \in Slots
    BY SavedLike DEF Like
  <2>2. Like(Saved(v, s), t) /\ t \in Slots
    BY <2>1, ProceedLike DEF Like
  <2>3. Like(s, t)
    BY <2>1, <2>2, LikeTrans
  <2>4. disk[v].end = "consumed" => ~Open(t.receipt)
    BY <2>2, SavedLike, MergedReceipt DEF Like, Slots, Open
  <2>5. QED
    BY <1>1, <2>2, <2>3, <2>4 DEF PersistOrRetry
<1>2. CASE ~Writes(mode)
  <2>1. Like(s, NotSaved(s, timer)) /\ NotSaved(s, timer) \in Slots
    BY NotSavedLike DEF Like
  <2>2. NotSaved(s, timer).effect = s.effect
    BY DEF NotSaved, Failed, Arm, Slots
  <2>3. QED
    BY <1>2, <2>1, <2>2 DEF PersistOrRetry
<1>3. QED
  BY <1>1, <1>2

-----------------------------------------------------------------------------
(* The inductive invariant.                                                *)

(* Who was told "accepted" for a version holds a request the cloud fired;  *)
(* what was fired or dropped lies behind the row.                          *)
Answered(v, s) ==
  s.receipt.server = "accepted" \/ s.ending.server = "accepted" \/ s.effect = "accepted"
    => fired[v] # None

FiredInv ==
  /\ row.status = "none" <=> row.version = 0
  /\ \A v \in Versions :
    /\ fired[v] # None => row.version > v
    /\ v \in dropped => fired[v] = None /\ row.version > v
    /\ v \in inbox => fired[v] # None
    /\ disk[v].server = "accepted" => fired[v] # None
    /\ Answered(v, slot[v])

(* A call whose answer is awaited has a slot that awaits it.               *)
CallsInv ==
  /\ \A c \in calls : c.live => slot[c.version].effect = "fire"
  /\ \A c, d \in calls : c.live /\ d.live /\ c.version = d.version => c = d

(* While the file holds an acknowledgement, no fire or wake is under way   *)
(* on a receipt that has not ended: its answer would be saved over it.     *)
HeldBack(v, s) ==
  /\ s.effect # "idle" => Known(s.receipt)
  /\ disk[v].end = "consumed" /\ Open(s.receipt) => s.effect \in {"idle", "save"}
  /\ ~Open(s.ending)

KeptInv ==
  \A v \in Versions : /\ disk[v].end = "consumed" => Known(disk[v])
                      /\ HeldBack(v, slot[v])

IInv == TypeOK /\ FiredInv /\ CallsInv /\ KeptInv

(* What ConsumedStays says of a step.                                      *)
Keeps ==
  \A v \in Versions : disk[v].end = "consumed" =>
    disk'[v].end = "consumed" \/ (disk'[v] = NoReceipt /\ aged # {})

LEMMA InitInv == Init => IInv
<1> SUFFICES ASSUME Init PROVE IInv
  OBVIOUS
<1>1. TypeOK
  <2>0. 0 \in 0..MaxVersion
    BY ReminderBounds
  <2>a. row \in Rows
    BY <2>0 DEF Init, Rows
  <2>b. mirror \in Mirrors
    BY <2>0 DEF Init, EmptyMirror, Mirrors
  <2>1. row \in Rows /\ fired \in [Versions -> Requests \cup {None}] /\ mirror \in Mirrors
    BY <2>a, <2>b DEF Init
  <2>2. slot \in [Versions -> Slots] /\ disk \in [Versions -> Receipts]
    BY NoReceiptType DEF Init
  <2>3. minted \in 0..MaxRequests /\ events \in 0..MaxEvents
    BY ReminderBounds DEF Init
  <2>4. QED
    BY <2>1, <2>2, <2>3 DEF Init, TypeOK
<1>2. FiredInv /\ CallsInv /\ KeptInv
  BY DEF Init, FiredInv, CallsInv, KeptInv, HeldBack, Answered, EmptySlot, NoReceipt, None,
     Open, Known
<1>3. QED
  BY <1>1, <1>2 DEF IInv

(* The slot as an operation takes it up: read, answered, its timer fired.  *)
Taken(v, s) ==
  /\ s \in Slots /\ Answered(v, s) /\ HeldBack(v, s)
  /\ \A c \in calls : c.live /\ c.version = v => s.effect = "fire"

(* Every operation that ends in one of the helpers.                        *)
LEMMA TakenStep ==
  ASSUME IInv, NEW v \in Versions, NEW s \in Slots, NEW t \in Slots, Taken(v, s), Like(s, t),
         slot' = [slot EXCEPT ![v] = t],
         \/ /\ Saves(v, s.receipt) /\ Known(s.receipt)
            /\ disk[v].end = "consumed" => ~Open(t.receipt)
         \/ disk' = disk,
         row' = row, fired' = fired, dropped' = dropped, inbox' = inbox, calls' = calls
  PROVE  /\ slot' \in [Versions -> Slots] /\ disk' \in [Versions -> Receipts]
         /\ FiredInv' /\ CallsInv' /\ KeptInv' /\ Keeps
<1> USE DEF IInv, TypeOK
<1>1. slot' \in [Versions -> Slots] /\ disk' \in [Versions -> Receipts]
  BY SavesFile DEF Slots
<1>2. s.receipt \in Receipts /\ t.receipt \in Receipts
  BY DEF Slots
<1>3. \A w \in Versions :
        \/ disk'[w] = disk[w]
        \/ w = v /\ disk'[v] = Merged(v, s.receipt) /\ Known(s.receipt)
           /\ (disk[v].end = "consumed" => ~Open(t.receipt))
        \/ disk'[w] = NoReceipt /\ aged # {}
  BY <1>2, SavesFile
<1>4. Keeps
  BY <1>2, <1>3, MergedReceipt DEF Keeps
<1>5. NoReceipt.server = "none" /\ NoReceipt.end = "open"
  BY DEF NoReceipt
<1>6. FiredInv'
  <2>1. Answered(v, t)'
    BY DEF Taken, Like, Answered
  <2>2. \A w \in Versions : disk'[w].server = "accepted" => fired'[w] # None
    BY <1>2, <1>3, <1>5, MergedReceipt DEF FiredInv, Taken, Answered
  <2>3. \A w \in Versions : Answered(w, slot[w])'
    BY <2>1 DEF FiredInv, Answered
  <2>4. QED
    BY <2>2, <2>3 DEF FiredInv
<1>7. CallsInv'
  BY DEF CallsInv, Taken, Like, Calls, Slots
<1>8. KeptInv'
  <2>1. \A w \in Versions : disk'[w].end = "consumed" => Known(disk'[w])
    BY <1>2, <1>3, <1>5, MergedReceipt DEF KeptInv, Known
  <2>2. HeldBack(v, t)'
    <3>1. t.effect # "idle" => Known(t.receipt)
      BY DEF Taken, Like, HeldBack, Known, Open
    <3>2. ASSUME disk'[v].end = "consumed", Open(t.receipt)
          PROVE  t.effect \in {"idle", "save"}
      <4>1. disk'[v] = disk[v] /\ disk[v].end = "consumed"
        BY <1>2, <1>3, <1>5, <3>2, MergedReceipt DEF Like, Open
      <4>2. QED
        BY <3>2, <4>1 DEF Taken, Like, HeldBack
    <3>3. ~Open(t.ending)
      BY DEF Taken, Like, HeldBack, Open
    <3>4. QED
      BY <3>1, <3>2, <3>3 DEF HeldBack, Open, Known
  <2>3. ASSUME NEW w \in Versions, w # v
        PROVE  HeldBack(w, slot[w])'
    BY <1>3, <1>5, <2>3 DEF KeptInv, HeldBack, Open, Known
  <2>4. QED
    BY <2>1, <2>2, <2>3 DEF KeptInv
<1>9. QED
  BY <1>1, <1>4, <1>6, <1>7, <1>8

-----------------------------------------------------------------------------
(* The cloud's steps.                                                      *)

LEMMA RowType == TypeOK => row.version \in Nat /\ MaxVersion \in Nat /\ row \in Rows
  BY ReminderBounds DEF TypeOK, Rows

LEMMA RowFields ==
  TypeOK => /\ row.version \in 0..MaxVersion /\ row.due \in BOOLEAN /\ row.repeats \in BOOLEAN
            /\ row.status \in {"none", "scheduled", "fired", "canceled"}
  BY DEF TypeOK, Rows

LEMMA NextVersion ==
  ASSUME row.version \in 0..MaxVersion, row.version < MaxVersion, MaxVersion \in Nat
  PROVE  row.version + 1 \in 0..MaxVersion /\ row.version + 1 > row.version
  OBVIOUS

(* What edits and cancellations do to the row.                             *)
LEMMA RowStep ==
  ASSUME IInv, row' \in Rows, row'.version >= row.version,
         row'.status = "none" <=> row'.version = 0,
         \/ dropped' = dropped
         \/ /\ row.status = "scheduled" /\ row'.version = row.version + 1
            /\ dropped' = dropped \cup {row.version},
         UNCHANGED <<fired, slot, disk, calls, inbox>>
  PROVE  /\ dropped' \subseteq Versions
         /\ FiredInv' /\ CallsInv' /\ KeptInv' /\ Keeps
<1> USE DEF IInv
<1>1. dropped' \subseteq Versions
  <2>1. row.status = "scheduled" => row.version \in Versions
    BY RowFields, RowType DEF FiredInv, Versions
  <2>2. dropped \subseteq Versions
    BY DEF TypeOK
  <2>3. QED
    BY <2>1, <2>2
<1>2. FiredInv'
  <2>1. ASSUME NEW v \in Versions
        PROVE  /\ fired'[v] # None => row'.version > v
               /\ v \in dropped' => fired'[v] = None /\ row'.version > v
    BY <2>1 DEF FiredInv, TypeOK, Rows, Versions
  <2>2. QED
    BY <2>1 DEF FiredInv, Answered
<1>3. CallsInv' /\ KeptInv'
  BY DEF CallsInv, KeptInv, HeldBack, Known, Open
<1>4. Keeps
  BY DEF Keeps
<1>5. QED
  BY <1>1, <1>2, <1>3, <1>4

LEMMA ScheduleStep ==
  ASSUME IInv, Schedule
  PROVE  IInv' /\ Keeps
<1> USE DEF IInv
<1>1. row' \in Rows /\ row'.version >= row.version /\ row'.version = 1
      /\ row'.status = "scheduled"
  <2>1. row.version = 0 /\ 1 \in 0..MaxVersion
    BY ReminderBounds DEF Schedule, FiredInv
  <2>2. row' \in Rows /\ row'.version = 1 /\ row'.status = "scheduled"
    BY <2>1, RowType DEF Schedule, Rows
  <2>3. QED
    BY <2>1, <2>2
<1>2. syncs' \subseteq Syncs
  BY ReminderBounds DEF Schedule, Publish, TypeOK, Syncs
<1>3. FiredInv' /\ CallsInv' /\ KeptInv' /\ Keeps
  BY <1>1, RowStep DEF Schedule, schedulerVars, historyVars
<1>4. TypeOK'
  BY <1>1, <1>2 DEF TypeOK, Schedule, schedulerVars, clockVars, historyVars, faultVars
<1>5. QED
  BY <1>3, <1>4

LEMMA EditStep ==
  ASSUME IInv, Edit
  PROVE  IInv' /\ Keeps
<1> USE DEF IInv
<1>1. /\ row' \in Rows /\ row'.version = row.version + 1 /\ row.version + 1 \in 0..MaxVersion
      /\ row'.status = "scheduled" /\ row.version \in Nat
  <2>1. row.version + 1 \in 0..MaxVersion
    BY RowType, RowFields, NextVersion DEF Edit
  <2>2. row' \in Rows /\ row'.version = row.version + 1 /\ row'.status = "scheduled"
    BY <2>1, RowType DEF Edit, Rows
  <2>3. QED
    BY <2>1, <2>2, RowType
<1>2. syncs' \subseteq Syncs
  BY <1>1 DEF Edit, Publish, TypeOK, Syncs
<1>3. dropped' \subseteq Versions /\ FiredInv' /\ CallsInv' /\ KeptInv' /\ Keeps
  <2>1. row'.version >= row.version /\ ~(row'.status = "none") /\ row'.version # 0
    BY <1>1
  <2>2. \/ dropped' = dropped
        \/ /\ row.status = "scheduled" /\ row'.version = row.version + 1
           /\ dropped' = dropped \cup {row.version}
    BY <1>1 DEF Edit, Drop
  <2>3. UNCHANGED <<fired, slot, disk, calls, inbox>>
    BY DEF Edit, schedulerVars
  <2>4. QED
    BY <1>1, <2>1, <2>2, <2>3, RowStep
<1>4. TypeOK'
  BY <1>1, <1>2, <1>3 DEF TypeOK, Edit, Drop, schedulerVars, clockVars, faultVars
<1>5. QED
  BY <1>3, <1>4

LEMMA CancelStep ==
  ASSUME IInv, Cancel
  PROVE  IInv' /\ Keeps
<1> USE DEF IInv
<1>1. /\ row' \in Rows /\ row'.version >= row.version /\ row'.status # "none"
      /\ row'.version # 0
      /\ row.status = "scheduled" => row'.version = row.version + 1
  <2>1. CASE row.status = "canceled"
    BY <2>1, RowType DEF Cancel, FiredInv
  <2>2. CASE row.status # "canceled"
    <3>1. row.version + 1 \in 0..MaxVersion
      BY <2>2, RowType, RowFields, NextVersion DEF Cancel
    <3>2. row' \in Rows /\ row'.version = row.version + 1 /\ row'.status = "canceled"
      BY <2>2, <3>1, RowType DEF Cancel, Rows
    <3>3. QED
      BY <3>1, <3>2, RowType
  <2>3. QED
    BY <2>1, <2>2
<1>2. syncs' \subseteq Syncs
  BY <1>1, RowType DEF Cancel, Publish, TypeOK, Syncs, Rows
<1>3. dropped' \subseteq Versions /\ FiredInv' /\ CallsInv' /\ KeptInv' /\ Keeps
  <2>1. \/ dropped' = dropped
        \/ /\ row.status = "scheduled" /\ row'.version = row.version + 1
           /\ dropped' = dropped \cup {row.version}
    BY <1>1 DEF Cancel, Drop
  <2>2. UNCHANGED <<fired, slot, disk, calls, inbox>>
    BY DEF Cancel, schedulerVars
  <2>3. QED
    BY <1>1, <2>1, <2>2, RowStep
<1>4. TypeOK'
  BY <1>1, <1>2, <1>3 DEF TypeOK, Cancel, Drop, schedulerVars, clockVars, faultVars
<1>5. QED
  BY <1>3, <1>4

(* Steps that leave the occurrence and its receipts alone.                 *)
LEMMA StillStep ==
  ASSUME IInv, UNCHANGED <<row, fired, dropped, slot, disk, calls, inbox>>
  PROVE  FiredInv' /\ CallsInv' /\ KeptInv' /\ Keeps
<1>1. row' \in Rows /\ row'.version >= row.version
  BY RowType DEF IInv, Rows
<1>2. QED
  BY <1>1, RowStep DEF IInv, FiredInv

LEMMA CloudClockStep ==
  ASSUME IInv, CloudClock
  PROVE  IInv' /\ Keeps
<1> USE DEF IInv
<1>1. row' \in Rows /\ row'.version = row.version /\ row'.status = row.status
  BY RowType DEF CloudClock, Rows
<1>2. FiredInv' /\ CallsInv' /\ KeptInv' /\ Keeps
  <2>1. row'.version >= row.version /\ (row'.status = "none" <=> row'.version = 0)
    BY <1>1, RowType DEF FiredInv
  <2>2. UNCHANGED <<dropped, fired, slot, disk, calls, inbox>>
    BY DEF CloudClock, schedulerVars, wireVars, historyVars
  <2>3. QED
    BY <1>1, <2>1, <2>2, RowStep
<1>3. TypeOK'
  BY <1>1 DEF TypeOK, CloudClock, wireVars, schedulerVars, clockVars, historyVars, faultVars
<1>4. QED
  BY <1>2, <1>3

LEMMA SnapshotStep ==
  ASSUME IInv, SendSnapshot
  PROVE  IInv' /\ Keeps
<1> USE DEF IInv
<1>1. syncs' \subseteq Syncs
  BY RowType DEF SendSnapshot, Publish, TypeOK, Syncs, Rows
<1>2. FiredInv' /\ CallsInv' /\ KeptInv' /\ Keeps
  BY StillStep DEF SendSnapshot, cloudVars, schedulerVars, historyVars
<1>3. TypeOK'
  BY <1>1 DEF TypeOK, SendSnapshot, cloudVars, schedulerVars, clockVars, historyVars, faultVars
<1>4. QED
  BY <1>2, <1>3

(* A fire moves the row past the version it accepts, or repeats an answer. *)
LEMMA FireRow ==
  ASSUME IInv, NEW call \in calls, Fire(call)
  PROVE  /\ row' \in Rows /\ (row'.status = "none" <=> row'.version = 0)
         /\ fired' \in [Versions -> Requests \cup {None}] /\ syncs' \subseteq Syncs
         /\ \A v \in Versions : /\ fired'[v] # None => row'.version > v
                                /\ v \in dropped => fired'[v] = None /\ row'.version > v
                                /\ fired[v] # None => fired'[v] # None
         /\ Verdict(call) = "accepted" => fired'[call.version] # None
<1> USE DEF IInv
<1>1. call.version \in Versions /\ call.req \in Requests /\ call.req # None
  BY DEF TypeOK, Calls, Requests, None
<1>2. CASE Verdict(call) = "accepted" /\ ~Replayed(call)
  <2>1. row.status = "scheduled" /\ row.version = call.version /\ row.version < MaxVersion
    BY <1>2 DEF Fire, Verdict, Current, Advance
  <2>2. row.version + 1 \in 0..MaxVersion /\ row.version \in Nat
    BY <2>1, RowType, RowFields, NextVersion
  <2>3. /\ row' \in Rows /\ row'.version = row.version + 1
        /\ row'.status \in {"scheduled", "fired"}
    BY <1>2, <2>1, <2>2, RowType DEF Fire, Advance, Rows
  <2>4. fired' = [fired EXCEPT ![call.version] = call.req]
    BY <1>2 DEF Fire, Advance
  <2>5. fired' \in [Versions -> Requests \cup {None}]
    BY <1>1, <2>4 DEF TypeOK
  <2>6. fired'[call.version] # None /\ \A v \in Versions : fired[v] # None => fired'[v] # None
    BY <1>1, <2>4 DEF TypeOK
  <2>7. \A v \in Versions : /\ fired'[v] # None => row'.version > v
                            /\ v \in dropped => fired'[v] = None /\ row'.version > v
    <3> SUFFICES ASSUME NEW v \in Versions
                 PROVE  /\ fired'[v] # None => row'.version > v
                        /\ v \in dropped => fired'[v] = None /\ row'.version > v
      OBVIOUS
    <3>1. v \in Nat
      BY DEF Versions
    <3>2. CASE v = call.version
      BY <2>1, <2>2, <2>3, <3>1, <3>2 DEF FiredInv
    <3>3. CASE v # call.version
      <4>1. fired'[v] = fired[v]
        BY <2>4, <3>3 DEF TypeOK
      <4>2. QED
        BY <2>2, <2>3, <3>1, <4>1 DEF FiredInv
    <3>4. QED
      BY <3>2, <3>3
  <2>8. syncs' \subseteq Syncs
    BY <1>2, <2>2, <2>3 DEF Fire, PublishNext, Publish, TypeOK, Syncs
  <2>9. row'.status # "none" /\ row'.version # 0
    BY <2>2, <2>3
  <2>10. QED
    BY <2>3, <2>5, <2>6, <2>7, <2>8, <2>9
<1>3. CASE Verdict(call) # "accepted" \/ Replayed(call)
  <2>1. row' = row /\ fired' = fired
    BY <1>3 DEF Fire, cloudVars
  <2>2. syncs' \subseteq Syncs
    BY <2>1, <1>3, RowFields DEF Fire, PublishNext, Publish, TypeOK, Syncs
  <2>3. Verdict(call) = "accepted" => fired'[call.version] # None
    BY <1>1, <1>3, <2>1 DEF Replayed
  <2>4. QED
    BY <2>1, <2>2, <2>3, RowType DEF FiredInv, TypeOK
<1>4. QED
  BY <1>2, <1>3

LEMMA FireStep ==
  ASSUME IInv, NEW call \in calls, Fire(call)
  PROVE  IInv' /\ Keeps
<1> USE DEF IInv
<1>1. call \in Calls
  BY DEF TypeOK
<1>2. Verdict(call) \in {"accepted", "obsolete", "premature"}
  BY DEF Verdict
<1>3. /\ calls' = calls \ {call} /\ disk' = disk /\ dropped' = dropped /\ inbox' = inbox
      /\ slot' = IF call.live THEN [slot EXCEPT ![call.version].effect = Verdict(call)] ELSE slot
  BY DEF Fire, historyVars
<1>4. slot' \in [Versions -> Slots]
  BY <1>1, <1>2, <1>3 DEF TypeOK, Calls, Slots, Effects
<1>5. \A v \in Versions :
        /\ slot'[v].receipt = slot[v].receipt /\ slot'[v].ending = slot[v].ending
        /\ slot'[v].effect = IF call.live /\ v = call.version THEN Verdict(call)
                                                             ELSE slot[v].effect
  BY <1>1, <1>3 DEF TypeOK, Calls, Slots
<1>6. FiredInv'
  <2>1. \A v \in Versions : Answered(v, slot[v])'
    BY <1>2, <1>5, FireRow DEF FiredInv, Answered
  <2>2. QED
    BY <1>3, <2>1, FireRow DEF FiredInv
<1>7. CallsInv'
  <2>1. ASSUME NEW c \in calls', c.live PROVE slot'[c.version].effect = "fire"
    <3>1. c \in calls /\ c # call /\ c.version \in Versions
      BY <1>3, <2>1 DEF TypeOK, Calls
    <3>2. ~(call.live /\ c.version = call.version)
      BY <2>1, <3>1 DEF CallsInv
    <3>3. QED
      BY <1>5, <2>1, <3>1, <3>2 DEF CallsInv
  <2>2. QED
    BY <1>3, <2>1 DEF CallsInv
<1>8. KeptInv' /\ Keeps
  <2>1. call.live => slot[call.version].effect = "fire"
    BY DEF CallsInv
  <2>2. \A v \in Versions : HeldBack(v, slot[v])'
    BY <1>1, <1>3, <1>5, <2>1 DEF KeptInv, HeldBack, Open, Known
  <2>3. QED
    BY <1>3, <2>2 DEF KeptInv, Keeps, Known
<1>9. TypeOK'
  BY <1>3, <1>4, FireRow DEF TypeOK, Fire, clockVars, historyVars, faultVars
<1>10. QED
  BY <1>6, <1>7, <1>8, <1>9

-----------------------------------------------------------------------------
(* The daemon's steps.                                                     *)

LEMMA ZeroVersion == 0 \in 0..MaxVersion
  BY ReminderBounds

LEMMA FaultType ==
  ASSUME TypeOK, NEW kind, Fault(kind)
  PROVE  events' \in 0..MaxEvents
<1>1. events \in 0..MaxEvents /\ events < MaxEvents /\ MaxEvents \in Nat
  BY ReminderBounds DEF TypeOK, Fault
<1>2. QED
  BY <1>1 DEF Fault

LEMMA StoreType ==
  ASSUME TypeOK, NEW mode, Store(mode) \/ NoFault
  PROVE  storeFailed' \in BOOLEAN /\ events' \in 0..MaxEvents
  BY FaultType DEF Store, NoFault, faultVars, TypeOK

LEMMA SlotFields ==
  ASSUME TypeOK, NEW v \in Versions
  PROVE  /\ slot[v] \in Slots /\ slot[v].receipt \in Receipts /\ slot[v].ending \in Receipts
         /\ disk[v] \in Receipts
  BY DEF TypeOK, Slots

LEMMA MirrorFields ==
  TypeOK => /\ mirror \in Mirrors /\ mirror.job \in 0..MaxVersion
            /\ mirror.fence \in 0..MaxVersion /\ mirror.timer \in 0..MaxVersion
  BY DEF TypeOK, Mirrors

(* A snapshot restores every receipt of the file.                          *)
LEMMA RestoredSlot ==
  ASSUME IInv, NEW v \in Versions
  PROVE  LET s == Restored(v, slot[v])
         IN /\ s \in Slots /\ Answered(v, s) /\ HeldBack(v, s)
            /\ s.effect = slot[v].effect
<1> DEFINE s == [slot[v] EXCEPT !.receipt = disk[v]]
<1>1. CASE ~Known(disk[v])
  BY <1>1, SlotFields DEF IInv, FiredInv, KeptInv, Restored
<1>2. CASE Known(disk[v])
  <2>1. /\ s \in Slots /\ s.receipt = disk[v] /\ s.effect = slot[v].effect
        /\ s.ending = slot[v].ending
    BY SlotFields DEF IInv, Slots
  <2>2. Like(s, Arm(s, "effect")) /\ Arm(s, "effect").effect = s.effect
    BY <2>1, ArmLike DEF Arm, Timers, Slots
  <2>3. Answered(v, s)
    BY <2>1 DEF IInv, FiredInv, Answered
  <2>4. HeldBack(v, s)
    BY <1>2, <2>1 DEF IInv, KeptInv, HeldBack, Open, Known
  <2>5. Restored(v, slot[v]) = Arm(s, "effect")
    BY <1>2 DEF Restored
  <2>6. QED
    BY <2>1, <2>2, <2>3, <2>4, <2>5 DEF Like, Answered, HeldBack, Open, Known
<1>3. QED
  BY <1>1, <1>2

LEMMA ApplyStep ==
  ASSUME IInv, NEW sync \in syncs, NEW mode \in Modes, Apply(sync, mode), Store(mode)
  PROVE  IInv' /\ Keeps
<1> USE DEF IInv
<1>1. sync.op \in {"snapshot", "upsert", "cancel"} /\ sync.version \in 0..MaxVersion
  BY DEF TypeOK, Syncs
<1>2. mirror' \in Mirrors
  <2>1. CASE sync.op = "snapshot"
    <3> DEFINE taken == sync.version # 0 /\ Newer(sync.version)
               job == IF taken THEN sync.version ELSE Kept
               fence == IF taken THEN sync.version ELSE mirror.fence
               changed == IF taken THEN FALSE ELSE mirror.changed
    <3>0. Kept \in 0..MaxVersion
      BY MirrorFields, ZeroVersion DEF Kept
    <3>1. job \in 0..MaxVersion /\ fence \in 0..MaxVersion /\ changed \in BOOLEAN
      BY <1>1, <3>0, MirrorFields DEF Mirrors
    <3>2. mirror' = [mirror EXCEPT !.authorized = TRUE, !.job = job, !.timer = job,
                                   !.fence = fence, !.changed = changed]
      BY <2>1 DEF Apply, ApplySnapshot
    <3> HIDE DEF job, fence, changed
    <3>3. QED
      BY <3>1, <3>2, MirrorFields DEF Mirrors
  <2>2. CASE sync.op = "upsert"
    <3>1. \/ mirror' = mirror
          \/ mirror' = [mirror EXCEPT !.job = sync.version, !.fence = sync.version,
                                      !.tombstone = FALSE, !.changed = TRUE,
                                      !.timer = sync.version]
      BY <2>2 DEF Apply, ApplyUpsert
    <3>2. QED
      BY <1>1, <3>1, MirrorFields DEF Mirrors
  <2>3. CASE sync.op = "cancel"
    <3>1. \/ mirror' = mirror
          \/ mirror' = [mirror EXCEPT !.job = 0, !.fence = sync.version, !.tombstone = TRUE,
                                      !.changed = TRUE, !.timer = 0]
      BY <2>3 DEF Apply, ApplyCancel
    <3>2. QED
      BY <1>1, <3>1, MirrorFields, ZeroVersion DEF Mirrors
  <2>4. QED
    BY <1>1, <2>1, <2>2, <2>3
<1>3. \/ slot' = slot /\ raced' = raced
      \/ /\ slot' = [v \in Versions |-> Restored(v, slot[v])]
         /\ raced' = [v \in Versions |-> TakenBack(v)]
  BY <1>1 DEF Apply, ApplySnapshot, ApplyUpsert, ApplyCancel
<1>4. slot' \in [Versions -> Slots]
  BY <1>3, RestoredSlot DEF TypeOK
<1>5. raced' \in [Versions -> Nat]
  BY <1>3 DEF TypeOK, TakenBack
<1>6. \A v \in Versions : /\ Answered(v, slot'[v]) /\ HeldBack(v, slot'[v])
                          /\ slot'[v].effect = slot[v].effect
  BY <1>3, RestoredSlot DEF FiredInv, KeptInv
<1>7. UNCHANGED <<row, fired, dropped, disk, inbox, calls>>
  BY DEF Apply, cloudVars
<1>8. FiredInv' /\ KeptInv'
  BY <1>6, <1>7 DEF FiredInv, KeptInv, Answered, HeldBack, Known, Open
<1>9. CallsInv' /\ Keeps
  <2>1. \A c \in calls : c.version \in Versions
    BY DEF TypeOK, Calls
  <2>2. QED
    BY <1>6, <1>7, <2>1 DEF CallsInv, Keeps
<1>10. storeFailed' \in BOOLEAN /\ events' \in 0..MaxEvents
  BY StoreType
<1>11. TypeOK'
  BY <1>2, <1>4, <1>5, <1>10 DEF TypeOK, Apply, cloudVars, clockVars
<1>12. QED
  BY <1>8, <1>9, <1>11

LEMMA StaleTimerStep ==
  ASSUME IInv, StaleTimer
  PROVE  IInv' /\ Keeps
<1> USE DEF IInv
<1>1. mirror' \in Mirrors
  BY MirrorFields, ZeroVersion DEF StaleTimer, Mirrors
<1>2. FiredInv' /\ CallsInv' /\ KeptInv' /\ Keeps
  BY StillStep DEF StaleTimer, cloudVars, wireVars, historyVars
<1>3. TypeOK'
  BY <1>1 DEF TypeOK, StaleTimer, cloudVars, wireVars, clockVars, historyVars, faultVars
<1>4. QED
  BY <1>2, <1>3

(* A slot that takes up another receipt keeps its effect.                  *)
LEMMA WithReceipt ==
  ASSUME IInv, NEW v \in Versions, NEW r \in Receipts
  PROVE  LET s == [slot[v] EXCEPT !.receipt = r]
         IN /\ s \in Slots /\ s.receipt = r /\ s.effect = slot[v].effect
            /\ s.ending = slot[v].ending
  BY SlotFields DEF IInv, Slots

(* A read that finds nothing keeps the copy in memory, and the file only   *)
(* holds what may stand beside the slot's effect.                          *)
LEMMA FreshTaken ==
  ASSUME IInv, NEW v \in Versions, NEW mode
  PROVE  Taken(v, [slot[v] EXCEPT !.receipt = Fresh(v, mode)])
<1> DEFINE s == [slot[v] EXCEPT !.receipt = Fresh(v, mode)]
<1>1. /\ Fresh(v, mode) \in Receipts
      /\ Fresh(v, mode) = slot[v].receipt \/ (Fresh(v, mode) = disk[v] /\ Known(disk[v]))
  BY FreshReceipt DEF IInv, TypeOK
<1>2. /\ s \in Slots /\ s.receipt = Fresh(v, mode) /\ s.effect = slot[v].effect
      /\ s.ending = slot[v].ending
  BY <1>1, WithReceipt
<1>3. Answered(v, s)
  BY <1>1, <1>2 DEF IInv, FiredInv, Answered
<1>4. HeldBack(v, s)
  BY <1>1, <1>2 DEF IInv, KeptInv, HeldBack, Open, Known
<1>5. \A c \in calls : c.live /\ c.version = v => s.effect = "fire"
  BY <1>2 DEF IInv, CallsInv
<1>6. QED
  BY <1>2, <1>3, <1>4, <1>5 DEF Taken

LEMMA PrepareStep ==
  ASSUME IInv, NEW v \in Versions, NEW mode \in Modes, PrepareDue(v, mode), Store(mode)
  PROVE  IInv' /\ Keeps
<1> USE DEF IInv
<1> DEFINE found == IF Known(slot[v].receipt) THEN slot[v].receipt ELSE Fresh(v, mode)
           made == [NoReceipt EXCEPT !.req = minted + 1]
           receipt == IF Known(found) THEN found ELSE made
           s == [slot[v] EXCEPT !.receipt = receipt]
<1>1. found \in Receipts
      /\ (found = slot[v].receipt \/ (found = disk[v] /\ Known(disk[v])))
  BY FreshReceipt, SlotFields DEF TypeOK
<1>2. ~Known(found) => minted + 1 \in Requests /\ minted' = minted + 1
  BY ReminderBounds DEF PrepareDue, TypeOK, Requests
<1>3. ~Known(found) => made \in Receipts /\ Known(made) /\ made.server = "none"
  BY <1>2, NoReceiptType DEF NoReceipt, Receipts, Known, Requests, None
<1>4. receipt \in Receipts /\ Known(receipt)
  BY <1>1, <1>3
<1>5. /\ s \in Slots /\ s.receipt = receipt /\ s.effect = slot[v].effect
      /\ s.ending = slot[v].ending
  BY <1>4, WithReceipt
<1>6. Taken(v, s)
  <2>1. Answered(v, s)
    BY <1>1, <1>3, <1>5 DEF FiredInv, Answered
  <2>2. HeldBack(v, s)
    <3>1. CASE Known(slot[v].receipt)
      BY <1>5, <3>1 DEF KeptInv, HeldBack, Open
    <3>2. CASE ~Known(slot[v].receipt)
      BY <1>4, <1>5, <3>2 DEF KeptInv, HeldBack
    <3>3. QED
      BY <3>1, <3>2
  <2>3. \A c \in calls : c.live /\ c.version = v => s.effect = "fire"
    BY <1>5 DEF CallsInv
  <2>4. QED
    BY <1>5, <2>1, <2>2, <2>3 DEF Taken
<1>7. PersistOrRetry(v, s, mode, "effect", "save")
  BY DEF PrepareDue
<1> HIDE DEF s
<1>8. PICK t \in Slots :
        /\ slot' = [slot EXCEPT ![v] = t] /\ Like(s, t)
        /\ \/ Saves(v, s.receipt) /\ (disk[v].end = "consumed" => ~Open(t.receipt))
           \/ disk' = disk /\ t.effect = s.effect
  BY <1>5, <1>7, PersistEffect DEF TypeOK, Timers
<1>9. UNCHANGED <<row, fired, dropped, inbox, calls>>
  BY DEF PrepareDue, cloudVars, wireVars
<1>10. /\ slot' \in [Versions -> Slots] /\ disk' \in [Versions -> Receipts]
       /\ FiredInv' /\ CallsInv' /\ KeptInv' /\ Keeps
  BY <1>4, <1>5, <1>6, <1>8, <1>9, TakenStep
<1>11. mirror' \in Mirrors
  BY MirrorFields, ZeroVersion DEF PrepareDue, Mirrors
<1>12. minted' \in 0..MaxRequests
  BY <1>2, ReminderBounds DEF PrepareDue, TypeOK, Requests
<1>13. /\ forgotten' \subseteq Versions
       /\ tries' \in [Versions -> Nat] /\ raced' \in [Versions -> Nat]
  BY DEF PrepareDue, TypeOK
<1>14. storeFailed' \in BOOLEAN /\ events' \in 0..MaxEvents
  BY StoreType
<1>15. TypeOK'
  BY <1>9, <1>10, <1>11, <1>12, <1>13, <1>14
  DEF TypeOK, PrepareDue, cloudVars, wireVars, clockVars
<1>16. QED
  BY <1>10, <1>15

(* A receipt's timer reads the file, or saves what it was armed to save.   *)
LEMMA ReceiptTimerStep ==
  ASSUME IInv, NEW v \in Versions, NEW mode \in Modes, ReceiptTimer(v, mode), Store(mode)
  PROVE  IInv' /\ Keeps
<1> USE DEF IInv
<1> DEFINE s == [slot[v] EXCEPT !.timer = "none"]
           f == [s EXCEPT !.receipt = Fresh(v, mode)]
<1>1. /\ s \in Slots /\ s.receipt = slot[v].receipt /\ s.effect = slot[v].effect
      /\ s.ending = slot[v].ending
  BY SlotFields DEF Slots, Timers
<1>2. Taken(v, s)
  BY <1>1 DEF Taken, FiredInv, Answered, KeptInv, HeldBack, CallsInv
<1>3. Taken(v, f) /\ f \in Slots
  <2> DEFINE g == [slot[v] EXCEPT !.receipt = Fresh(v, mode)]
  <2>1. Taken(v, g) /\ g \in Slots
    BY FreshTaken DEF Taken
  <2>2. /\ f \in Slots /\ f.receipt = g.receipt /\ f.effect = g.effect
        /\ f.ending = g.ending
    BY <1>1, FreshReceipt, SlotFields DEF TypeOK, Slots
  <2>3. QED
    BY <2>1, <2>2 DEF Taken, Answered, HeldBack
<1> HIDE DEF s, f
<1>4. UNCHANGED <<row, fired, dropped, inbox, calls>>
  BY DEF ReceiptTimer, cloudVars, wireVars
<1>5. \/ slot' = [slot EXCEPT ![v] = StartEffect(f)] /\ disk' = disk
      \/ slot' = [slot EXCEPT ![v] = s] /\ disk' = disk
      \/ Open(s.receipt) /\ PersistOrRetry(v, s, mode, "effect", "save")
      \/ Open(s.receipt) /\ PersistOrRetry(v, s, mode, "retry", "retry")
  BY DEF ReceiptTimer, s, f
<1>6. /\ slot' \in [Versions -> Slots] /\ disk' \in [Versions -> Receipts]
      /\ FiredInv' /\ CallsInv' /\ KeptInv' /\ Keeps
  <2>1. CASE slot' = [slot EXCEPT ![v] = StartEffect(f)] /\ disk' = disk
    <3>1. Like(f, StartEffect(f)) /\ StartEffect(f) \in Slots
      BY <1>3, StartLike DEF Like
    <3>2. QED
      BY <1>3, <1>4, <2>1, <3>1, TakenStep
  <2>2. CASE slot' = [slot EXCEPT ![v] = s] /\ disk' = disk
    <3>1. Like(s, s)
      BY <1>1 DEF Like
    <3>2. QED
      BY <1>1, <1>2, <1>4, <2>2, <3>1, TakenStep
  <2>3. ASSUME NEW proceed \in {"effect", "retry"}, NEW timer \in {"save", "retry"},
               Open(s.receipt), PersistOrRetry(v, s, mode, proceed, timer)
        PROVE  /\ slot' \in [Versions -> Slots] /\ disk' \in [Versions -> Receipts]
               /\ FiredInv' /\ CallsInv' /\ KeptInv' /\ Keeps
    <3>1. PICK t \in Slots :
            /\ slot' = [slot EXCEPT ![v] = t] /\ Like(s, t)
            /\ \/ Saves(v, s.receipt) /\ (disk[v].end = "consumed" => ~Open(t.receipt))
               \/ disk' = disk /\ t.effect = s.effect
      BY <1>1, <2>3, PersistEffect DEF TypeOK, Timers
    <3>2. Known(s.receipt)
      BY <2>3 DEF Open
    <3>3. QED
      BY <1>1, <1>2, <1>4, <3>1, <3>2, TakenStep
  <2>4. QED
    BY <1>5, <2>1, <2>2, <2>3
<1>7. raced' \in [Versions -> Nat]
  BY DEF ReceiptTimer, TypeOK, TakenBack
<1>8. storeFailed' \in BOOLEAN /\ events' \in 0..MaxEvents
  BY StoreType
<1>9. TypeOK'
  BY <1>4, <1>6, <1>7, <1>8
  DEF TypeOK, ReceiptTimer, cloudVars, wireVars, clockVars
<1>10. QED
  BY <1>6, <1>9

(* The end of a step that leaves nothing in flight for a slot.             *)
LEMMA IdleStep ==
  ASSUME IInv, NEW v \in Versions, NEW mode, slot[v].effect # "fire",
         NEW s \in Slots, s.effect = "idle", s.ending = slot[v].ending,
         s.receipt.server = "accepted" => fired[v] # None,
         NEW t \in Slots, Like(s, t), slot' = [slot EXCEPT ![v] = t],
         \/ /\ Saves(v, s.receipt) /\ Known(s.receipt)
            /\ disk[v].end = "consumed" => ~Open(t.receipt)
         \/ disk' = disk,
         UNCHANGED <<row, fired, dropped, inbox, calls>>
  PROVE  /\ slot' \in [Versions -> Slots] /\ disk' \in [Versions -> Receipts]
         /\ FiredInv' /\ CallsInv' /\ KeptInv' /\ Keeps
<1>1. Answered(v, s) /\ HeldBack(v, s)
  BY DEF IInv, FiredInv, KeptInv, Answered, HeldBack
<1>2. \A c \in calls : c.live /\ c.version = v => s.effect = "fire"
  BY DEF IInv, CallsInv
<1>3. Taken(v, s)
  BY <1>1, <1>2 DEF Taken
<1>4. QED
  BY <1>3, TakenStep

(* What FireAnswered and WakeAnswered apply an answer to.                  *)
LEMMA AnswerSlot ==
  ASSUME IInv, NEW v \in Versions, NEW mode, slot[v].effect \notin {"idle", "save"}
  PROVE  LET s == [slot[v] EXCEPT !.effect = "idle", !.receipt = Fresh(v, mode)]
         IN /\ s \in Slots /\ s.effect = "idle" /\ s.ending = slot[v].ending
            /\ s.receipt = Fresh(v, mode) /\ s.receipt \in Receipts
            /\ s.receipt.server = "accepted" => fired[v] # None
            /\ disk[v].end = "consumed" => ~Open(s.receipt)
<1> DEFINE s == [slot[v] EXCEPT !.effect = "idle", !.receipt = Fresh(v, mode)]
<1>1. /\ Fresh(v, mode) \in Receipts
      /\ Fresh(v, mode) = slot[v].receipt \/ (Fresh(v, mode) = disk[v] /\ Known(disk[v]))
  BY FreshReceipt DEF IInv, TypeOK
<1>2. /\ s \in Slots /\ s.effect = "idle" /\ s.ending = slot[v].ending
      /\ s.receipt = Fresh(v, mode)
  BY <1>1, SlotFields DEF IInv, Slots, Effects
<1>3. s.receipt.server = "accepted" => fired[v] # None
  BY <1>1, <1>2 DEF IInv, FiredInv, Answered
<1>4. disk[v].end = "consumed" => ~Open(s.receipt)
  BY <1>1, <1>2 DEF IInv, KeptInv, HeldBack, Open
<1>5. QED
  BY <1>1, <1>2, <1>3, <1>4

LEMMA IdlePersist ==
  ASSUME IInv, NEW v \in Versions, NEW mode, slot[v].effect # "fire",
         NEW s \in Slots, s.effect = "idle", s.ending = slot[v].ending, Known(s.receipt),
         s.receipt.server = "accepted" => fired[v] # None,
         NEW proceed \in {"effect", "retry", "stop"}, NEW timer \in Timers,
         PersistOrRetry(v, s, mode, proceed, timer),
         UNCHANGED <<row, fired, dropped, inbox, calls>>
  PROVE  /\ slot' \in [Versions -> Slots] /\ disk' \in [Versions -> Receipts]
         /\ FiredInv' /\ CallsInv' /\ KeptInv' /\ Keeps
<1>1. PICK t \in Slots :
        /\ slot' = [slot EXCEPT ![v] = t] /\ Like(s, t)
        /\ \/ Saves(v, s.receipt) /\ (disk[v].end = "consumed" => ~Open(t.receipt))
           \/ disk' = disk /\ t.effect = s.effect
  <2>1. disk \in [Versions -> Receipts] /\ slot \in [Versions -> Slots]
    BY DEF IInv, TypeOK
  <2>2. QED
    BY <2>1, PersistEffect
<1>2. QED
  BY <1>1, IdleStep

(* A deferred fire drops its receipt, which the file does not hold as      *)
(* acknowledged.                                                           *)
LEMMA DeferStep ==
  ASSUME IInv, NEW v \in Versions, slot[v].effect # "fire",
         disk[v].end # "consumed",
         NEW s \in Slots, s.effect = "idle", s.ending = slot[v].ending,
         disk' = [disk EXCEPT ![v] = NoReceipt],
         slot' = [slot EXCEPT ![v] = [s EXCEPT !.receipt = NoReceipt]],
         UNCHANGED <<row, fired, dropped, inbox, calls>>
  PROVE  /\ slot' \in [Versions -> Slots] /\ disk' \in [Versions -> Receipts]
         /\ FiredInv' /\ CallsInv' /\ KeptInv' /\ Keeps
<1> USE DEF IInv
<1> DEFINE t == [s EXCEPT !.receipt = NoReceipt]
<1>1. NoReceipt.server = "none" /\ NoReceipt.end = "open" /\ ~Known(NoReceipt)
  BY DEF NoReceipt, Known
<1>2. /\ t \in Slots /\ t.effect = "idle" /\ t.ending = slot[v].ending
      /\ t.receipt = NoReceipt
  BY NoReceiptType DEF Slots
<1> HIDE DEF t
<1>3. /\ slot' \in [Versions -> Slots] /\ disk' \in [Versions -> Receipts]
      /\ slot' = [slot EXCEPT ![v] = t]
  BY <1>2, NoReceiptType DEF TypeOK, t
<1>4. FiredInv'
  BY <1>1, <1>2, <1>3 DEF FiredInv, Answered, TypeOK
<1>5. CallsInv'
  BY <1>3 DEF CallsInv, TypeOK, Calls
<1>6. KeptInv' /\ Keeps
  BY <1>1, <1>2, <1>3 DEF KeptInv, Keeps, HeldBack, TypeOK, Open, Known
<1>7. QED
  BY <1>3, <1>4, <1>5, <1>6

LEMMA FireAnsweredStep ==
  ASSUME IInv, NEW v \in Versions, NEW mode \in Modes, FireAnswered(v, mode), Store(mode)
  PROVE  IInv' /\ Keeps
<1> USE DEF IInv
<1> DEFINE s == [slot[v] EXCEPT !.effect = "idle", !.receipt = Fresh(v, mode)]
           With(server, end) == [s EXCEPT !.receipt.server = server, !.receipt.end = end]
           Good == /\ slot' \in [Versions -> Slots] /\ disk' \in [Versions -> Receipts]
                   /\ FiredInv' /\ CallsInv' /\ KeptInv' /\ Keeps
<1>1. slot[v].effect \in {"accepted", "premature", "obsolete", "failed"}
  BY DEF FireAnswered
<1>2. /\ s \in Slots /\ s.effect = "idle" /\ s.ending = slot[v].ending
      /\ s.receipt.server = "accepted" => fired[v] # None
      /\ disk[v].end = "consumed" => ~Open(s.receipt)
  BY <1>1, AnswerSlot
<1>3. UNCHANGED <<row, fired, dropped, inbox, calls>>
  BY DEF FireAnswered, cloudVars, wireVars
<1>4. slot[v].effect = "accepted" => fired[v] # None
  BY DEF FiredInv, Answered
<1>5. \A server \in Results, end \in Ends :
        /\ With(server, end) \in Slots /\ With(server, end).effect = "idle"
        /\ With(server, end).ending = slot[v].ending
        /\ With(server, end).receipt.server = server
        /\ Known(With(server, end).receipt) <=> Known(s.receipt)
  <2> SUFFICES ASSUME NEW server \in Results, NEW end \in Ends
               PROVE  /\ With(server, end) \in Slots /\ With(server, end).effect = "idle"
                      /\ With(server, end).ending = slot[v].ending
                      /\ With(server, end).receipt.server = server
                      /\ With(server, end).receipt.req = s.receipt.req
    BY DEF Known
  <2>1. s \in Slots /\ s.effect = "idle" /\ s.ending = slot[v].ending
    BY <1>2
  <2> HIDE DEF s
  <2>2. s.receipt \in Receipts
    BY <2>1 DEF Slots
  <2>3. [s.receipt EXCEPT !.server = server, !.end = end] \in Receipts
    BY <2>2 DEF Receipts
  <2>4. With(server, end) = [s EXCEPT !.receipt = [s.receipt EXCEPT !.server = server, !.end = end]]
    BY <2>1, <2>2 DEF Slots, Receipts
  <2>5. QED
    BY <2>1, <2>2, <2>3, <2>4 DEF Slots, Receipts
<1>6. \/ slot' = [slot EXCEPT ![v] = s] /\ disk' = disk
      \/ Open(s.receipt) /\ slot' = [slot EXCEPT ![v] = Retry(s)] /\ disk' = disk
      \/ /\ slot[v].effect = "accepted" /\ Open(s.receipt)
         /\ PersistOrRetry(v, With("accepted", "open"), mode, "effect", "save")
      \/ /\ Open(s.receipt)
         /\ PersistOrRetry(v, With("obsolete", "declined"), mode, "stop", "none")
      \/ Open(s.receipt) /\ Defer(v, With("premature", "open"), mode)
      \/ Open(s.receipt) /\ Wait(v, With("premature", "open"), mode)
  BY DEF FireAnswered
<1>7. UNCHANGED <<mirror, forgotten, displaced>> \/ Defer(v, With("premature", "open"), mode)
  BY DEF FireAnswered, Wait
<1> HIDE DEF s, With
<1>8. /\ "accepted" \in Results /\ "obsolete" \in Results /\ "premature" \in Results
      /\ "open" \in Ends /\ "declined" \in Ends
      /\ "effect" \in Timers /\ "save" \in Timers /\ "none" \in Timers
  BY DEF Results, Ends, Timers
<1>9. Good
  <2>1. CASE slot' = [slot EXCEPT ![v] = s] /\ disk' = disk
    <3>1. Like(s, s)
      BY <1>2 DEF Like
    <3>2. QED
      BY <1>1, <1>2, <1>3, <2>1, <3>1, IdleStep
  <2>2. CASE Open(s.receipt) /\ slot' = [slot EXCEPT ![v] = Retry(s)] /\ disk' = disk
    <3>1. Like(s, Retry(s)) /\ Retry(s) \in Slots
      BY <1>2, RetryLike DEF Like
    <3>2. QED
      BY <1>1, <1>2, <1>3, <2>2, <3>1, IdleStep
  <2>3. CASE /\ slot[v].effect = "accepted" /\ Open(s.receipt)
             /\ PersistOrRetry(v, With("accepted", "open"), mode, "effect", "save")
    <3> DEFINE p == With("accepted", "open")
    <3>1. /\ p \in Slots /\ p.effect = "idle" /\ p.ending = slot[v].ending
          /\ p.receipt.server = "accepted" /\ Known(p.receipt)
      BY <1>5, <1>8, <2>3 DEF Open
    <3> HIDE DEF p
    <3>2. p.receipt.server = "accepted" => fired[v] # None
      BY <1>4, <2>3, <3>1
    <3>3. PersistOrRetry(v, p, mode, "effect", "save")
      BY <2>3 DEF p
    <3>4. QED
      BY <1>1, <1>3, <1>8, <3>1, <3>2, <3>3, IdlePersist
  <2>4. CASE /\ Open(s.receipt)
             /\ PersistOrRetry(v, With("obsolete", "declined"), mode, "stop", "none")
    <3> DEFINE p == With("obsolete", "declined")
    <3>1. /\ p \in Slots /\ p.effect = "idle" /\ p.ending = slot[v].ending
          /\ p.receipt.server = "obsolete" /\ Known(p.receipt)
      BY <1>5, <1>8, <2>4 DEF Open
    <3> HIDE DEF p
    <3>2. p.receipt.server = "accepted" => fired[v] # None
      BY <2>4, <3>1
    <3>3. PersistOrRetry(v, p, mode, "stop", "none")
      BY <2>4 DEF p
    <3>4. QED
      BY <1>1, <1>3, <1>8, <3>1, <3>2, <3>3, IdlePersist
  <2>5. CASE Open(s.receipt) /\ Defer(v, With("premature", "open"), mode)
    <3> DEFINE p == With("premature", "open")
    <3>1. p \in Slots /\ p.effect = "idle" /\ p.ending = slot[v].ending
      BY <1>5, <1>8
    <3>2. p.receipt.server = "premature"
      BY <1>5, <1>8
    <3> HIDE DEF p
    <3>3. CASE Writes(mode)
      <4>1. /\ disk' = [disk EXCEPT ![v] = NoReceipt]
            /\ slot' = [slot EXCEPT ![v] = [p EXCEPT !.receipt = NoReceipt]]
        BY <2>5, <3>3 DEF Defer, p
      <4>2. QED
        BY <1>1, <1>2, <1>3, <2>5, <3>1, <4>1, DeferStep
    <3>4. CASE ~Writes(mode)
      <4>1. slot' = [slot EXCEPT ![v] = p] /\ disk' = disk
        BY <2>5, <3>4 DEF Defer, p
      <4>2. Like(p, p)
        BY <3>1 DEF Like
      <4>3. QED
        BY <1>1, <1>3, <3>1, <3>2, <4>1, <4>2, IdleStep
    <3>5. QED
      BY <3>3, <3>4
  <2>6. CASE Open(s.receipt) /\ Wait(v, With("premature", "open"), mode)
    <3> DEFINE p == With("premature", "open")
    <3>1. /\ p \in Slots /\ p.effect = "idle" /\ p.ending = slot[v].ending
          /\ p.receipt.server = "premature" /\ Known(p.receipt)
      BY <1>5, <1>8, <2>6 DEF Open
    <3> HIDE DEF p
    <3>2. CASE Writes(mode)
      <4> DEFINE t == Arm(Saved(v, p), "effect")
      <4>1. Like(p, Saved(v, p)) /\ Saved(v, p) \in Slots
        BY <3>1, SavedLike DEF Like
      <4>2. Like(Saved(v, p), t) /\ t \in Slots
        BY <1>8, <4>1, ArmLike DEF Like
      <4>3. Like(p, t)
        BY <3>1, <4>1, <4>2, LikeTrans
      <4>4. disk[v].end # "consumed"
        BY <1>2, <2>6
      <4>5. Saves(v, p.receipt) /\ slot' = [slot EXCEPT ![v] = t]
        BY <2>6, <3>2 DEF Wait, p
      <4> HIDE DEF t
      <4>6. QED
        BY <1>1, <1>3, <3>1, <4>2, <4>3, <4>4, <4>5, IdleStep
    <3>3. CASE ~Writes(mode)
      <4> DEFINE t == Arm(Failed(p), "effect")
      <4>1. Like(p, Failed(p)) /\ Failed(p) \in Slots
        BY <1>8, <3>1, NotSavedLike
      <4>2. Like(Failed(p), t) /\ t \in Slots
        BY <1>8, <4>1, ArmLike DEF Like
      <4>3. Like(p, t)
        BY <3>1, <4>1, <4>2, LikeTrans
      <4>4. disk' = disk /\ slot' = [slot EXCEPT ![v] = t]
        BY <2>6, <3>3 DEF Wait, p
      <4> HIDE DEF t
      <4>5. QED
        BY <1>1, <1>3, <3>1, <4>2, <4>3, <4>4, IdleStep
    <3>4. QED
      BY <3>2, <3>3
  <2>7. QED
    BY <1>6, <2>1, <2>2, <2>3, <2>4, <2>5, <2>6
<1>10. mirror' \in Mirrors /\ forgotten' \subseteq Versions /\ displaced' \in BOOLEAN
  <2>1. v \in 0..MaxVersion
    BY DEF Versions
  <2>2. [mirror EXCEPT !.timer = v] \in Mirrors
    BY <2>1, MirrorFields DEF Mirrors
  <2>3. QED
    BY <1>7, <2>2 DEF Defer, TypeOK
<1>11. storeFailed' \in BOOLEAN /\ events' \in 0..MaxEvents
  BY StoreType
<1>12. TypeOK'
  BY <1>3, <1>9, <1>10, <1>11
  DEF TypeOK, FireAnswered, cloudVars, wireVars, clockVars
<1>13. QED
  BY <1>9, <1>12

LEMMA RefuseWakeStep ==
  ASSUME IInv, NEW v \in Versions, RefuseWake(v), NEW kind, Happens(kind)
  PROVE  IInv' /\ Keeps
<1> USE DEF IInv
<1> DEFINE t == [slot[v] EXCEPT !.effect = "refused"]
<1>1. slot[v].effect = "wake" /\ slot' = [slot EXCEPT ![v] = t]
  BY DEF RefuseWake
<1>2. /\ t \in Slots /\ t.effect = "refused" /\ t.receipt = slot[v].receipt
      /\ t.ending = slot[v].ending
  BY SlotFields DEF Slots, Effects
<1> HIDE DEF t
<1>3. slot' \in [Versions -> Slots]
  BY <1>1, <1>2 DEF TypeOK
<1>4. UNCHANGED <<row, fired, dropped, disk, inbox, calls>>
  BY DEF RefuseWake, cloudVars, wireVars, historyVars
<1>5. FiredInv' /\ CallsInv'
  BY <1>1, <1>2, <1>4 DEF FiredInv, CallsInv, Answered, TypeOK, Calls
<1>6. KeptInv' /\ Keeps
  BY <1>1, <1>2, <1>4 DEF KeptInv, HeldBack, Keeps, TypeOK, Open, Known
<1>7. events' \in 0..MaxEvents /\ storeFailed' = storeFailed
  BY FaultType DEF Happens
<1>8. TypeOK'
  BY <1>3, <1>4, <1>7
  DEF TypeOK, RefuseWake, cloudVars, wireVars, clockVars, historyVars
<1>9. QED
  BY <1>5, <1>6, <1>8

LEMMA WakeAnsweredStep ==
  ASSUME IInv, NEW v \in Versions, NEW mode \in Modes, WakeAnswered(v, mode), Store(mode)
  PROVE  IInv' /\ Keeps
<1> USE DEF IInv
<1> DEFINE s == [slot[v] EXCEPT !.effect = "idle", !.receipt = Fresh(v, mode)]
           w == [s EXCEPT !.receipt.end = "woken"]
<1>1. slot[v].effect \in {"wake", "refused"}
  BY DEF WakeAnswered
<1>2. /\ s \in Slots /\ s.effect = "idle" /\ s.ending = slot[v].ending
      /\ s.receipt.server = "accepted" => fired[v] # None
  BY <1>1, AnswerSlot
<1>3. UNCHANGED <<row, fired, dropped, inbox, calls>>
  BY DEF WakeAnswered, cloudVars, wireVars, historyVars
<1>4. \/ slot' = [slot EXCEPT ![v] = s] /\ disk' = disk
      \/ Open(s.receipt) /\ PersistOrRetry(v, w, mode, "stop", "none")
      \/ Open(s.receipt) /\ PersistOrRetry(v, s, mode, "retry", "retry")
  BY DEF WakeAnswered
<1> HIDE DEF s
<1>5. /\ w \in Slots /\ w.effect = s.effect /\ w.ending = s.ending
      /\ w.receipt.req = s.receipt.req /\ w.receipt.server = s.receipt.server
  BY <1>2 DEF Slots, Receipts, Ends
<1> HIDE DEF w
<1>6. "none" \in Timers /\ "retry" \in Timers
  BY DEF Timers
<1>7. /\ slot' \in [Versions -> Slots] /\ disk' \in [Versions -> Receipts]
      /\ FiredInv' /\ CallsInv' /\ KeptInv' /\ Keeps
  <2>1. CASE slot' = [slot EXCEPT ![v] = s] /\ disk' = disk
    <3>1. Like(s, s)
      BY <1>2 DEF Like
    <3>2. QED
      BY <1>1, <1>2, <1>3, <2>1, <3>1, IdleStep
  <2>2. CASE Open(s.receipt) /\ PersistOrRetry(v, w, mode, "stop", "none")
    <3>1. Known(w.receipt)
      BY <1>5, <2>2 DEF Open, Known
    <3>2. w.receipt.server = "accepted" => fired[v] # None
      BY <1>2, <1>5
    <3>3. QED
      BY <1>1, <1>2, <1>3, <1>5, <1>6, <2>2, <3>1, <3>2, IdlePersist
  <2>3. CASE Open(s.receipt) /\ PersistOrRetry(v, s, mode, "retry", "retry")
    <3>1. Known(s.receipt)
      BY <2>3 DEF Open
    <3>2. QED
      BY <1>1, <1>2, <1>3, <1>6, <2>3, <3>1, IdlePersist
  <2>4. QED
    BY <1>4, <2>1, <2>2, <2>3
<1>8. storeFailed' \in BOOLEAN /\ events' \in 0..MaxEvents
  BY StoreType
<1>9. TypeOK'
  BY <1>3, <1>7, <1>8 DEF TypeOK, WakeAnswered, cloudVars, wireVars, clockVars, historyVars
<1>10. QED
  BY <1>7, <1>9

(* The receipt that ran out of retries takes the place of the one in       *)
(* memory, and is merged like any other.                                   *)
LEMMA SaveExhaustedStep ==
  ASSUME IInv, NEW v \in Versions, NEW mode \in Modes, SaveExhausted(v, mode), Store(mode)
  PROVE  IInv' /\ Keeps
<1> USE DEF IInv
<1> DEFINE s == [slot[v] EXCEPT !.ending = NoReceipt, !.behind = FALSE]
           u == [s EXCEPT !.receipt = slot[v].ending]
<1>1. /\ s \in Slots /\ s.effect = slot[v].effect /\ s.receipt = slot[v].receipt
      /\ s.ending = NoReceipt
  BY SlotFields, NoReceiptType DEF Slots
<1>2. /\ u \in Slots /\ u.effect = slot[v].effect /\ u.receipt = slot[v].ending
      /\ u.ending = NoReceipt
  BY SlotFields, NoReceiptType DEF Slots
<1>3. Known(slot[v].ending)
  BY DEF SaveExhausted
<1>4. \/ Saves(v, slot[v].ending) /\ slot' = [slot EXCEPT ![v] = Saved(v, u)]
      \/ slot' = [slot EXCEPT ![v] = Failed(s)] /\ disk' = disk
  BY DEF SaveExhausted
<1> HIDE DEF s, u
<1>5. NoReceipt.server = "none" /\ ~Open(NoReceipt)
  BY DEF NoReceipt, Open, Known
<1>6. \A c \in calls : c.live /\ c.version = v => slot[v].effect = "fire"
  BY DEF CallsInv
<1>7. Taken(v, s)
  BY <1>1, <1>5, <1>6 DEF Taken, FiredInv, KeptInv, Answered, HeldBack
<1>8. Taken(v, u)
  BY <1>2, <1>3, <1>5, <1>6 DEF Taken, FiredInv, KeptInv, Answered, HeldBack
<1>9. UNCHANGED <<row, fired, dropped, inbox, calls>>
  BY DEF SaveExhausted, cloudVars, wireVars, historyVars
<1>10. /\ slot' \in [Versions -> Slots] /\ disk' \in [Versions -> Receipts]
       /\ FiredInv' /\ CallsInv' /\ KeptInv' /\ Keeps
  <2>1. CASE Saves(v, slot[v].ending) /\ slot' = [slot EXCEPT ![v] = Saved(v, u)]
    <3>1. Like(u, Saved(v, u)) /\ Saved(v, u) \in Slots
      BY <1>2, SavedLike DEF Like
    <3>2. disk[v].end = "consumed" => ~Open(Saved(v, u).receipt)
      BY <1>2, SlotFields, SavedLike, MergedReceipt DEF Open
    <3>3. Saves(v, u.receipt) /\ Known(u.receipt)
      BY <1>2, <1>3, <2>1
    <3>4. QED
      BY <1>2, <1>8, <1>9, <2>1, <3>1, <3>2, <3>3, TakenStep
  <2>2. CASE slot' = [slot EXCEPT ![v] = Failed(s)] /\ disk' = disk
    <3>1. Like(s, Failed(s)) /\ Failed(s) \in Slots
      BY <1>1, NotSavedLike DEF Timers
    <3>2. QED
      BY <1>1, <1>7, <1>9, <2>2, <3>1, TakenStep
  <2>3. QED
    BY <1>4, <2>1, <2>2
<1>11. storeFailed' \in BOOLEAN /\ events' \in 0..MaxEvents
  BY StoreType
<1>12. TypeOK'
  BY <1>9, <1>10, <1>11
  DEF TypeOK, SaveExhausted, cloudVars, wireVars, clockVars, historyVars
<1>13. QED
  BY <1>10, <1>12

(* The acknowledgement is in memory and in the file in one step, so no     *)
(* operation can find it in the file alone.                                *)
LEMMA AckReceiptStep ==
  ASSUME IInv, NEW v \in Versions, NEW mode \in Modes, AckReceipt(v, mode), Store(mode)
  PROVE  IInv' /\ Keeps
<1> USE DEF IInv
<1> DEFINE r == Fresh(v, mode)
           consumed == [r EXCEPT !.end = "consumed"]
           s == [slot[v] EXCEPT !.receipt = consumed, !.timer = "none"]
<1>1. /\ r \in Receipts
      /\ r = slot[v].receipt \/ (r = disk[v] /\ Known(disk[v]))
  BY FreshReceipt DEF TypeOK
<1> HIDE DEF r
<1>2. /\ consumed \in Receipts /\ consumed.req = r.req /\ consumed.server = r.server
      /\ consumed.end = "consumed"
  BY <1>1 DEF Receipts, Ends
<1>3. Merged(v, consumed) = consumed
  BY <1>1, <1>2 DEF Merged, Receipts
<1>4. /\ s \in Slots /\ s.receipt = consumed /\ s.effect = slot[v].effect
      /\ s.ending = slot[v].ending
  BY <1>2, SlotFields DEF Slots, Timers
<1>5. \/ slot' = slot /\ disk' = disk
      \/ Known(r) /\ slot' = [slot EXCEPT ![v] = s] /\ disk' = disk
      \/ Known(r) /\ slot' = [slot EXCEPT ![v] = s] /\ Saves(v, consumed)
  <2> DEFINE delivered == Known(r) /\ r.server = "accepted"
  <2>1. slot' = slot \/ (delivered /\ slot' = [slot EXCEPT ![v].receipt = consumed, ![v].timer = "none"])
    BY DEF AckReceipt, r, Fresh
  <2>2. disk' = disk \/ (delivered /\ Reads(mode) /\ Writes(mode) /\ disk' = Acknowledged(v, consumed))
    BY DEF AckReceipt, r, Fresh, Modes, Reads, Writes
  <2>3. [slot EXCEPT ![v].receipt = consumed, ![v].timer = "none"] = [slot EXCEPT ![v] = s]
    BY DEF TypeOK
  <2>4. delivered /\ Reads(mode) /\ Writes(mode) =>
          slot' = [slot EXCEPT ![v].receipt = consumed, ![v].timer = "none"]
    BY DEF AckReceipt, r, Fresh
  <2>5. disk' = Acknowledged(v, consumed) => Saves(v, consumed)
    BY <1>3 DEF Saves, Acknowledged
  <2>6. QED
    BY <2>1, <2>2, <2>3, <2>4, <2>5
<1> HIDE DEF consumed, s
<1>6. UNCHANGED <<row, fired, dropped, inbox, calls>>
  BY DEF AckReceipt, cloudVars, wireVars
<1>7. /\ slot' \in [Versions -> Slots] /\ disk' \in [Versions -> Receipts]
      /\ FiredInv' /\ CallsInv' /\ KeptInv' /\ Keeps
  <2>1. CASE slot' = slot /\ disk' = disk
    BY <1>6, <2>1, StillStep DEF TypeOK
  <2>2. CASE /\ Known(r) /\ slot' = [slot EXCEPT ![v] = s]
             /\ disk' = disk \/ Saves(v, consumed)
    <3>1. Answered(v, s)
      BY <1>1, <1>2, <1>4 DEF FiredInv, Answered
    <3>2. HeldBack(v, s)
      BY <1>2, <1>4, <2>2 DEF KeptInv, HeldBack, Known, Open
    <3>3. \A c \in calls : c.live /\ c.version = v => s.effect = "fire"
      BY <1>4 DEF CallsInv
    <3>4. Taken(v, s) /\ Like(s, s)
      BY <1>4, <3>1, <3>2, <3>3 DEF Taken, Like
    <3>5. Known(s.receipt) /\ ~Open(s.receipt)
      BY <1>2, <1>4, <2>2 DEF Known, Open
    <3>6. QED
      BY <1>4, <1>6, <2>2, <3>4, <3>5, TakenStep
  <2>3. QED
    BY <1>5, <2>1, <2>2
<1>8. acking' \subseteq Versions /\ unsaved' \subseteq Versions
  BY DEF AckReceipt, TypeOK
<1>9. storeFailed' \in BOOLEAN /\ events' \in 0..MaxEvents
  BY StoreType
<1>10. TypeOK'
  BY <1>6, <1>7, <1>8, <1>9 DEF TypeOK, AckReceipt, cloudVars, wireVars, clockVars
<1>11. QED
  BY <1>7, <1>10

(* A saved attempt sets out: the file does not hold an acknowledgement,    *)
(* for the save would have merged it into the copy.                        *)
LEMMA SetsOut ==
  ASSUME IInv, NEW v \in Versions, slot[v].effect = "save",
         Saves(v, slot[v].receipt), Open(Saved(v, slot[v]).receipt),
         NEW effect \in {"wake", "refused", "fire"},
         slot' = [slot EXCEPT ![v] = [Saved(v, slot[v]) EXCEPT !.effect = effect]],
         \/ calls' = calls
         \/ /\ effect = "fire"
            /\ calls' = calls \cup {[version |-> v, req |-> slot[v].receipt.req, live |-> TRUE]},
         inbox' = inbox \/ (slot[v].receipt.server = "accepted" /\ inbox' = inbox \cup {v}),
         UNCHANGED <<row, fired, dropped>>
  PROVE  /\ slot' \in [Versions -> Slots] /\ disk' \in [Versions -> Receipts]
         /\ calls' \subseteq Calls /\ inbox' \subseteq Versions
         /\ FiredInv' /\ CallsInv' /\ KeptInv' /\ Keeps
<1> USE DEF IInv
<1> DEFINE s == slot[v]
           t == [Saved(v, s) EXCEPT !.effect = effect]
<1>1. s \in Slots /\ s.receipt \in Receipts /\ s.effect = "save"
  BY SlotFields
<1>2. /\ Saved(v, s) \in Slots /\ Saved(v, s).receipt = Merged(v, s.receipt)
      /\ Saved(v, s).ending = s.ending
  BY <1>1, SavedLike DEF Like
<1>3. disk[v].end # "consumed" /\ Merged(v, s.receipt) = s.receipt
  BY <1>1, <1>2 DEF Merged, Open, Receipts
<1>4. /\ t \in Slots /\ t.effect = effect /\ t.receipt = s.receipt /\ t.ending = s.ending
  BY <1>2, <1>3 DEF Slots, Effects
<1> HIDE DEF t
<1>5. slot' = [slot EXCEPT ![v] = t]
  BY DEF t
<1>6. slot' \in [Versions -> Slots] /\ disk' \in [Versions -> Receipts]
  BY <1>1, <1>4, <1>5, SavesFile DEF TypeOK
<1>7. \A w \in Versions :
        \/ disk'[w] = IF w = v THEN s.receipt ELSE disk[w]
        \/ disk'[w] = NoReceipt /\ aged # {}
  BY <1>1, <1>3, SavesFile DEF TypeOK
<1>8. NoReceipt.server = "none" /\ NoReceipt.end = "open"
  BY DEF NoReceipt
<1>9. s.receipt.server = "accepted" => fired[v] # None
  BY DEF FiredInv, Answered
<1>10. Open(s.receipt)
  BY <1>2, <1>3
<1>11. s.receipt.req \in Requests
  BY <1>1, <1>10 DEF Open, Known, Receipts
<1> DEFINE n == [version |-> v, req |-> s.receipt.req, live |-> TRUE]
<1>a. n \in Calls /\ n.version = v
  BY <1>11 DEF Calls
<1>b. calls' \subseteq calls \cup {n}
  OBVIOUS
<1> HIDE DEF n
<1>12. calls' \subseteq Calls /\ inbox' \subseteq Versions
  BY <1>a, <1>b DEF TypeOK
<1> HIDE DEF s
<1>13. FiredInv'
  <2>1. \A w \in Versions : disk'[w].server = "accepted" => fired'[w] # None
    BY <1>7, <1>8, <1>9 DEF FiredInv
  <2>2. \A w \in Versions : Answered(w, slot[w])'
    <3>1. slot'[v] = t
      BY <1>5 DEF TypeOK
    <3>2. Answered(v, slot[v])'
      <4>1. Answered(v, slot[v]) /\ effect # "accepted" /\ fired' = fired
        BY DEF FiredInv
      <4>2. t.ending = slot[v].ending /\ t.receipt = slot[v].receipt /\ t.effect = effect
        BY <1>4 DEF s
      <4>3. QED
        BY <3>1, <4>1, <4>2 DEF Answered
    <3>3. \A w \in Versions : w # v => slot'[w] = slot[w] /\ Answered(w, slot[w])
      BY <1>5 DEF TypeOK, FiredInv
    <3>4. \A w \in Versions : w # v => Answered(w, slot[w])'
      BY <3>3 DEF Answered
    <3>5. QED
      BY <3>2, <3>4
  <2>3. \A w \in Versions : w \in inbox' => fired'[w] # None
    BY <1>9 DEF FiredInv, s
  <2>4. QED
    BY <2>1, <2>2, <2>3 DEF FiredInv
<1>14. CallsInv'
  <2>1. \A c \in calls : c.live => c.version # v
    BY DEF CallsInv
  <2>2. ASSUME NEW c \in calls', c.live
        PROVE  slot'[c.version].effect = "fire"
    BY <1>4, <1>5, <2>1, <2>2 DEF CallsInv, TypeOK, Calls
  <2>3. \A c, d \in calls' : c.live /\ d.live /\ c.version = d.version => c = d
    BY <1>a, <1>b, <2>1 DEF CallsInv
  <2>4. QED
    BY <2>2, <2>3 DEF CallsInv
<1>15. KeptInv'
  <2>1. disk'[v].end # "consumed"
    BY <1>7, <1>8, <1>10 DEF Open
  <2>2. HeldBack(v, slot[v])'
    <3>1. slot'[v] = t /\ ~Open(t.ending) /\ Known(t.receipt)
      BY <1>4, <1>5, <1>10 DEF KeptInv, HeldBack, TypeOK, Open, s
    <3>2. QED
      BY <2>1, <3>1 DEF HeldBack, Open, Known
  <2>3. ASSUME NEW w \in Versions, w # v
        PROVE  HeldBack(w, slot[w])' /\ (disk'[w].end = "consumed" => Known(disk'[w]))
    BY <1>5, <1>7, <1>8, <2>3 DEF KeptInv, HeldBack, Open, Known, TypeOK
  <2>4. QED
    BY <2>1, <2>2, <2>3 DEF KeptInv
<1>16. Keeps
  BY <1>3, <1>7 DEF Keeps
<1>17. QED
  BY <1>6, <1>12, <1>13, <1>14, <1>15, <1>16

LEMMA SaveAttemptStep ==
  ASSUME IInv, NEW v \in Versions, NEW mode \in Modes, NEW minting \in BOOLEAN,
         SaveAttempt(v, mode, minting),
         Store(mode) \/ \E kind \in Events : Happens(kind)
  PROVE  IInv' /\ Keeps
<1> USE DEF IInv
<1> DEFINE s == slot[v]
           e == [s EXCEPT !.effect = "idle"]
           Good == /\ slot' \in [Versions -> Slots] /\ disk' \in [Versions -> Receipts]
                   /\ calls' \subseteq Calls /\ inbox' \subseteq Versions
                   /\ FiredInv' /\ CallsInv' /\ KeptInv' /\ Keeps
<1>1. /\ s.effect = "save" /\ s \in Slots /\ s.receipt \in Receipts
      /\ Known(s.receipt)
  BY SlotFields DEF SaveAttempt, KeptInv, HeldBack
<1>2. UNCHANGED <<row, fired, dropped>>
  BY DEF SaveAttempt, cloudVars
<1>3. /\ e \in Slots /\ e.effect = "idle" /\ e.receipt = s.receipt /\ e.ending = s.ending
      /\ e.receipt.server = "accepted" => fired[v] # None
  BY <1>1 DEF Slots, Effects, FiredInv, Answered
<1>4. ASSUME ~Writes(mode) PROVE Good
  <2> DEFINE k == NotSaved(s, "save")
             t == [k EXCEPT !.effect = "idle"]
  <2>1. disk' = disk /\ slot' = [slot EXCEPT ![v] = t] /\ UNCHANGED <<calls, inbox>>
    BY <1>4 DEF SaveAttempt
  <2>2. k \in Slots /\ Like(s, k)
    BY <1>1, NotSavedLike DEF Timers, Like
  <2> HIDE DEF k
  <2>3. /\ t \in Slots /\ t.effect = "idle" /\ t.receipt = k.receipt
        /\ t.ending = k.ending
    BY <2>2 DEF Slots, Effects
  <2> HIDE DEF t
  <2>4. Like(e, t)
    BY <1>3, <2>2, <2>3 DEF Like
  <2>5. calls' \subseteq Calls /\ inbox' \subseteq Versions
    BY <2>1 DEF TypeOK
  <2>6. s.effect # "fire"
    BY <1>1
  <2> HIDE DEF e
  <2>7. QED
    BY <1>2, <1>3, <2>1, <2>3, <2>4, <2>5, <2>6, IdleStep
<1>5. ASSUME Writes(mode), ~Open(Saved(v, s).receipt) PROVE Good
  <2> DEFINE k == Saved(v, s)
             t == [k EXCEPT !.effect = "idle"]
  <2>1. Saves(v, s.receipt) /\ slot' = [slot EXCEPT ![v] = t] /\ UNCHANGED <<calls, inbox>>
    BY <1>5 DEF SaveAttempt
  <2>2. k \in Slots /\ Like(s, k) /\ ~Open(k.receipt)
    BY <1>1, <1>5, SavedLike DEF Like
  <2> HIDE DEF k
  <2>3. /\ t \in Slots /\ t.effect = "idle" /\ t.receipt = k.receipt
        /\ t.ending = k.ending
    BY <2>2 DEF Slots, Effects
  <2> HIDE DEF t
  <2>4. Like(e, t)
    BY <1>3, <2>2, <2>3 DEF Like
  <2>5. Saves(v, e.receipt) /\ Known(e.receipt) /\ ~Open(t.receipt)
    BY <1>1, <1>3, <2>1, <2>2, <2>3
  <2>6. calls' \subseteq Calls /\ inbox' \subseteq Versions
    BY <2>1 DEF TypeOK
  <2>7. s.effect # "fire"
    BY <1>1
  <2> HIDE DEF e
  <2>8. QED
    BY <1>2, <1>3, <2>1, <2>3, <2>4, <2>5, <2>6, <2>7, IdleStep
<1>6. ASSUME Writes(mode), Open(Saved(v, s).receipt) PROVE Good
  <2>1. PICK effect \in {"wake", "refused", "fire"} :
          /\ slot' = [slot EXCEPT ![v] = [Saved(v, s) EXCEPT !.effect = effect]]
          /\ \/ calls' = calls
             \/ /\ effect = "fire"
                /\ calls' = calls \cup {[version |-> v, req |-> s.receipt.req, live |-> TRUE]}
          /\ inbox' = inbox \/ (s.receipt.server = "accepted" /\ inbox' = inbox \cup {v})
    BY <1>6 DEF SaveAttempt
  <2>2. Saves(v, s.receipt)
    BY <1>6 DEF SaveAttempt
  <2>3. QED
    BY <1>1, <1>2, <1>6, <2>1, <2>2, SetsOut
<1>7. Good
  BY <1>4, <1>5, <1>6
<1>8. tries' \in [Versions -> Nat]
  BY DEF SaveAttempt, TypeOK
<1>9. storeFailed' \in BOOLEAN /\ events' \in 0..MaxEvents
  BY StoreType, FaultType DEF Happens, TypeOK
<1>10. TypeOK'
  BY <1>2, <1>7, <1>8, <1>9 DEF TypeOK, SaveAttempt, clockVars
<1>11. QED
  BY <1>7, <1>10

-----------------------------------------------------------------------------
(* The inbox, the clocks, the network and the machine.                     *)

LEMMA RemoveItemStep ==
  ASSUME IInv, NEW v \in Versions, NoFault, RemoveItem(v)
  PROVE  IInv' /\ Keeps
<1> USE DEF IInv, RemoveItem, cloudVars, wireVars, schedulerVars, clockVars, faultVars, NoFault
<1>1. FiredInv' /\ CallsInv' /\ KeptInv' /\ Keeps
  BY DEF FiredInv, CallsInv, KeptInv, Keeps, Answered, HeldBack, Open, Known
<1>2. TypeOK'
  BY DEF TypeOK
<1>3. QED
  BY <1>1, <1>2

LEMMA RemoveFailsStep ==
  ASSUME IInv, NEW v \in Versions, NEW kind, Happens(kind), RemoveFails(v)
  PROVE  IInv' /\ Keeps
<1> USE DEF IInv, RemoveFails, cloudVars, wireVars, schedulerVars, clockVars, historyVars
<1>1. FiredInv' /\ CallsInv' /\ KeptInv' /\ Keeps
  BY StillStep
<1>2. events' \in 0..MaxEvents /\ storeFailed' = storeFailed
  BY FaultType DEF Happens
<1>3. TypeOK'
  BY <1>2 DEF TypeOK
<1>4. QED
  BY <1>1, <1>3

LEMMA TimeStep ==
  ASSUME IInv,
         \/ \E v \in Versions : DaemonClock(v)
         \/ \E req \in Requests : DeadlinePasses(req)
  PROVE  IInv' /\ Keeps
<1> USE DEF IInv, DaemonClock, DeadlinePasses, cloudVars, wireVars, schedulerVars, historyVars,
            faultVars
<1>1. FiredInv' /\ CallsInv' /\ KeptInv' /\ Keeps
  BY StillStep
<1>2. TypeOK'
  BY DEF TypeOK
<1>3. QED
  BY <1>1, <1>2

LEMMA WireStep ==
  ASSUME IInv, NEW kind, Happens(kind),
         \/ \E sync \in syncs : LoseSync(sync)
         \/ \E req \in Requests : RetentionPasses(req)
         \/ Reconnect
  PROVE  IInv' /\ Keeps
<1> USE DEF IInv, LoseSync, RetentionPasses, Reconnect, cloudVars, wireVars, schedulerVars,
            clockVars, historyVars
<1>1. FiredInv' /\ CallsInv' /\ KeptInv' /\ Keeps
  BY StillStep
<1>2. events' \in 0..MaxEvents /\ storeFailed' = storeFailed
  BY FaultType DEF Happens
<1>3. TypeOK'
  BY <1>2 DEF TypeOK
<1>4. QED
  BY <1>1, <1>3

(* Of a failed call the cloud may still hear, but its answer is not        *)
(* awaited any more.                                                       *)
LEMMA FireFailsStep ==
  ASSUME IInv, NEW v \in Versions, NEW kind, Happens(kind), FireFails(v)
  PROVE  IInv' /\ Keeps
<1> USE DEF IInv
<1> DEFINE t == [slot[v] EXCEPT !.effect = "failed"]
<1>1. slot[v].effect \in {"fire"} \cup Results /\ slot' = [slot EXCEPT ![v] = t]
  BY DEF FireFails, TypeOK
<1>2. /\ t \in Slots /\ t.effect = "failed" /\ t.receipt = slot[v].receipt
      /\ t.ending = slot[v].ending
  BY SlotFields DEF Slots, Effects
<1> HIDE DEF t
<1>3. slot' \in [Versions -> Slots]
  BY <1>1, <1>2 DEF TypeOK
<1>4. UNCHANGED <<row, fired, dropped, disk, inbox>>
  BY DEF FireFails, cloudVars, historyVars
<1>5. \A c \in calls' : c \in Calls /\ (c.live => c \in calls /\ c.version # v)
  <2>1. CASE calls' = {c \in calls : c.version # v \/ ~c.live}
    BY <2>1 DEF TypeOK
  <2>2. CASE calls' = {IF c.version = v THEN [c EXCEPT !.live = FALSE] ELSE c : c \in calls}
    <3>1. ASSUME NEW c \in calls
          PROVE  [c EXCEPT !.live = FALSE] \in Calls /\ ~[c EXCEPT !.live = FALSE].live
      BY DEF TypeOK, Calls
    <3>2. QED
      BY <2>2, <3>1 DEF TypeOK
  <2>3. QED
    BY <2>1, <2>2 DEF FireFails
<1>6. FiredInv' /\ CallsInv'
  <2>1. FiredInv'
    BY <1>1, <1>2, <1>4 DEF FiredInv, Answered, TypeOK
  <2>2. CallsInv'
    BY <1>1, <1>5 DEF CallsInv, TypeOK, Calls
  <2>3. QED
    BY <2>1, <2>2
<1>7. KeptInv' /\ Keeps
  BY <1>1, <1>2, <1>4 DEF KeptInv, HeldBack, Keeps, TypeOK, Slots, Effects, Results, Open, Known
<1>8. events' \in 0..MaxEvents /\ storeFailed' = storeFailed
  BY FaultType DEF Happens
<1>9. TypeOK'
  BY <1>3, <1>4, <1>5, <1>8 DEF TypeOK, FireFails, cloudVars, clockVars, historyVars
<1>10. QED
  BY <1>6, <1>7, <1>9

LEMMA CrashStep ==
  ASSUME IInv, NEW kind, Happens(kind), Crash
  PROVE  IInv' /\ Keeps
<1> USE DEF IInv
<1>1. \A v \in Versions : slot'[v] = EmptySlot
  BY DEF Crash
<1>2. UNCHANGED <<row, fired, dropped, disk, inbox>>
  BY DEF Crash, cloudVars, historyVars
<1>3. \A c \in calls' : c \in Calls /\ ~c.live
  <2>1. ASSUME NEW c \in calls
        PROVE  [c EXCEPT !.live = FALSE] \in Calls /\ ~[c EXCEPT !.live = FALSE].live
    BY DEF TypeOK, Calls
  <2>2. calls' = {[c EXCEPT !.live = FALSE] : c \in calls}
    BY DEF Crash
  <2>3. QED
    BY <2>1, <2>2
<1>4. FiredInv' /\ CallsInv' /\ KeptInv' /\ Keeps
  BY <1>1, <1>2, <1>3
  DEF FiredInv, CallsInv, KeptInv, Keeps, Answered, HeldBack, EmptySlot, NoReceipt, None, Open, Known
<1>5. mirror' \in Mirrors
  BY ZeroVersion DEF Crash, EmptyMirror, Mirrors
<1>6. slot' \in [Versions -> Slots]
  BY NoReceiptType DEF Crash
<1>7. events' \in 0..MaxEvents /\ storeFailed' = storeFailed
  BY FaultType DEF Happens
<1>8. TypeOK'
  BY <1>2, <1>3, <1>5, <1>6, <1>7 DEF TypeOK, Crash, cloudVars, clockVars, historyVars
<1>9. QED
  BY <1>4, <1>8

LEMMA StutterStep ==
  ASSUME IInv, UNCHANGED vars
  PROVE  IInv' /\ Keeps
<1> USE DEF IInv, vars, cloudVars, wireVars, schedulerVars, clockVars, historyVars, faultVars
<1>1. FiredInv' /\ CallsInv' /\ KeptInv' /\ Keeps
  BY StillStep
<1>2. TypeOK'
  BY DEF TypeOK
<1>3. QED
  BY <1>1, <1>2

LEMMA FailureStep ==
  ASSUME IInv, Failure
  PROVE  IInv' /\ Keeps
<1>1. ASSUME NEW v \in Versions, Happens("inbox"), SaveAttempt(v, "works", FALSE)
      PROVE  IInv' /\ Keeps
  <2>1. "works" \in Modes /\ "inbox" \in Events
    BY <1>1 DEF Modes, Happens, Fault
  <2>2. QED
    BY <1>1, <2>1, SaveAttemptStep
<1>2. QED
  BY <1>1, RemoveFailsStep, RefuseWakeStep, FireFailsStep, WireStep, CrashStep DEF Failure

LEMMA SchedulerStep ==
  ASSUME IInv, NEW v \in Versions, NEW mode \in Modes, Store(mode),
         ReadWrite(v, mode) \/ Write(v, mode)
  PROVE  IInv' /\ Keeps
  BY PrepareStep, ReceiptTimerStep, FireAnsweredStep, WakeAnsweredStep, AckReceiptStep,
     SaveAttemptStep, SaveExhaustedStep DEF ReadWrite, Work, Write

LEMMA NextStep ==
  ASSUME IInv, [Next]_vars
  PROVE  IInv' /\ Keeps
<1>1. CASE Schedule \/ Edit \/ Cancel \/ CloudClock \/ SendSnapshot \/ StaleTimer
  BY <1>1, ScheduleStep, EditStep, CancelStep, CloudClockStep, SnapshotStep, StaleTimerStep
<1>2. ASSUME NEW call \in calls, Fire(call)
      PROVE  IInv' /\ Keeps
  BY <1>2, FireStep
<1>3. ASSUME NEW sync \in syncs, NEW mode \in {"works", "unread"}, Store(mode), Apply(sync, mode)
      PROVE  IInv' /\ Keeps
  BY <1>3, ApplyStep DEF Modes
<1>4. ASSUME NEW v \in Versions, NEW mode \in Modes, Store(mode), ReadWrite(v, mode)
      PROVE  IInv' /\ Keeps
  BY <1>4, SchedulerStep
<1>5. ASSUME NEW v \in Versions, NEW mode \in {"works", "unsaved"}, Store(mode), Write(v, mode)
      PROVE  IInv' /\ Keeps
  BY <1>5, SchedulerStep DEF Modes
<1>6. ASSUME NEW v \in Versions, NoFault, RemoveItem(v)
      PROVE  IInv' /\ Keeps
  BY <1>6, RemoveItemStep
<1>7. CASE (\E v \in Versions : DaemonClock(v)) \/ (\E req \in Requests : DeadlinePasses(req))
  BY <1>7, TimeStep
<1>8. CASE Failure
  BY <1>8, FailureStep
<1>9. CASE UNCHANGED vars
  BY <1>9, StutterStep
<1>10. QED
  BY <1>1, <1>2, <1>3, <1>4, <1>5, <1>6, <1>7, <1>8, <1>9 DEF Next

LEMMA Invariant == Spec => []IInv
<1>1. Init => IInv
  BY InitInv
<1>2. IInv /\ [Next]_vars => IInv'
  BY NextStep
<1>3. QED
  BY <1>1, <1>2, PTL DEF Spec

-----------------------------------------------------------------------------
(* Every variable keeps its type, whatever fails, is lost or is repeated.  *)
THEOREM TypeCorrect == Spec => []TypeOK
<1>1. IInv => TypeOK
  BY DEF IInv
<1>2. QED
  BY <1>1, Invariant, PTL

(* An occurrence that was edited or canceled before the cloud fired it     *)
(* never reaches the Agent's inbox: the daemon shows only what was         *)
(* answered "accepted", and the cloud accepts no version it has left.      *)
THEOREM DroppedStaysHidden == Spec => []DroppedNotShown
<1>1. IInv => DroppedNotShown
  BY DEF IInv, TypeOK, FiredInv, DroppedNotShown
<1>2. QED
  BY <1>1, Invariant, PTL

(* No copy of a receipt that a fire, a wake or a retry still works on      *)
(* takes an acknowledgement out of the file (saveMerged).                  *)
THEOREM ConsumedKept == Spec => ConsumedStays
<1>1. IInv /\ [Next]_vars =>
        [\A v \in Versions : disk[v].end = "consumed" =>
           disk'[v].end = "consumed" \/ (disk'[v] = NoReceipt /\ aged # {})]_vars
  BY NextStep DEF Keeps
<1>2. QED
  BY <1>1, Invariant, PTL DEF Spec, ConsumedStays
=============================================================================
