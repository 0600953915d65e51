----------------------- MODULE RemindersReceiptProofs -----------------------
(***************************************************************************)
(* What Reminders promises of its mirror and its receipts, for any bounds  *)
(* and failures: a pushed job stays, a fire is not lost, effects are       *)
(* bounded, and an acknowledged occurrence does not come back.             *)
(***************************************************************************)
EXTENDS RemindersProofs

-----------------------------------------------------------------------------
(* The mirror is never ahead of the cloud's row, and a cancellation on its *)
(* way that names the row's version finds it canceled.                     *)
MirrorInv ==
  /\ mirror.fence <= row.version
  /\ mirror.job # 0 => mirror.job = mirror.fence
  /\ \A sync \in syncs :
       /\ sync.version <= row.version
       /\ sync.op = "cancel" /\ sync.version = row.version => row.status = "canceled"

(* What PushedJobStays says of a step.                                     *)
JobStays ==
  mirror.changed /\ mirror.job # 0 /\ Current(mirror.job) /\ mirror'.authorized =>
    mirror'.job = mirror.job

(* A step of the cloud: the row moves on, or what it is has been told.     *)
LEMMA CloudMirror ==
  ASSUME TypeOK, TypeOK', MirrorInv, mirror' = mirror,
         row' = row \/ row'.version > row.version
           \/ (row'.version = row.version /\ row'.status = row.status),
         \A sync \in syncs' : \/ sync \in syncs
                              \/ /\ sync.version <= row'.version
                                 /\ sync.op = "cancel" => row'.status = "canceled"
  PROVE  MirrorInv' /\ JobStays
<1>1. row.version \in Nat /\ row'.version \in Nat /\ mirror.fence \in Nat
  BY DEF TypeOK, Rows, Mirrors
<1>2. \A sync \in syncs \cup syncs' : sync.version \in Nat
  BY DEF TypeOK, Syncs
<1>3. row'.version >= row.version
  BY <1>1
<1>4. ASSUME NEW sync \in syncs'
      PROVE  /\ sync.version <= row'.version
             /\ sync.op = "cancel" /\ sync.version = row'.version => row'.status = "canceled"
  BY <1>1, <1>2, <1>3 DEF MirrorInv
<1>5. QED
  BY <1>1, <1>3, <1>4 DEF MirrorInv, JobStays

(* A step of the daemon that is not about the mirror's jobs.               *)
LEMMA StillMirror ==
  ASSUME TypeOK, MirrorInv, row' = row, syncs' \subseteq syncs,
         mirror' = mirror \/ (\E n : mirror' = [mirror EXCEPT !.timer = n])
           \/ mirror' = EmptyMirror
  PROVE  MirrorInv' /\ JobStays
<1>1. row.version \in Nat /\ mirror \in Mirrors
  BY DEF TypeOK, Rows
<1>2. CASE mirror' = EmptyMirror
  BY <1>1, <1>2 DEF MirrorInv, JobStays, EmptyMirror
<1>3. ASSUME NEW n, mirror' = [mirror EXCEPT !.timer = n]
      PROVE  mirror'.job = mirror.job /\ mirror'.fence = mirror.fence
  BY <1>1, <1>3 DEF Mirrors
<1>4. CASE mirror'.job = mirror.job /\ mirror'.fence = mirror.fence
  BY <1>4 DEF MirrorInv, JobStays
<1>5. QED
  BY <1>2, <1>3, <1>4

(* A sync is taken when it is not older than the fence; the fence of a job *)
(* the cloud still has scheduled is the row's own version.                 *)
LEMMA ApplyMirror ==
  ASSUME TypeOK, MirrorInv, NEW sync \in syncs, NEW mode, Apply(sync, mode)
  PROVE  MirrorInv' /\ JobStays
<1>1. /\ row.version \in Nat /\ mirror \in Mirrors /\ mirror.fence \in Nat /\ mirror.job \in Nat
      /\ sync.version \in Nat /\ sync.op \in {"snapshot", "upsert", "cancel"}
      /\ mirror.changed \in BOOLEAN /\ mirror.authorized \in BOOLEAN
  BY DEF TypeOK, Rows, Mirrors, Syncs
<1>2. row' = row /\ syncs' \subseteq syncs
  BY DEF Apply, cloudVars
<1>3. /\ sync.version <= row.version
      /\ sync.op = "cancel" /\ sync.version = row.version => row.status = "canceled"
  BY DEF MirrorInv
<1>4. mirror.job # 0 /\ Current(mirror.job) => mirror.fence = row.version
                                               /\ row.status = "scheduled"
  BY DEF MirrorInv, Current
<1>5. /\ mirror'.fence <= row.version
      /\ mirror'.job # 0 => mirror'.job = mirror'.fence
      /\ JobStays
  <2>1. CASE sync.op = "upsert"
    <3>1. \/ mirror' = mirror
          \/ /\ Newer(sync.version) /\ mirror'.job = sync.version /\ mirror'.fence = sync.version
      BY <1>1, <2>1 DEF Apply, ApplyUpsert, Mirrors
    <3>2. QED
      BY <1>1, <1>3, <1>4, <3>1 DEF MirrorInv, JobStays, Newer
  <2>2. CASE sync.op = "cancel"
    <3>1. \/ mirror' = mirror
          \/ /\ Newer(sync.version) /\ mirror'.job = 0 /\ mirror'.fence = sync.version
      BY <1>1, <2>2 DEF Apply, ApplyCancel, Mirrors
    <3>2. QED
      BY <1>1, <1>3, <1>4, <2>2, <3>1 DEF MirrorInv, JobStays, Newer
  <2>3. CASE sync.op = "snapshot"
    <3>1. \/ /\ Newer(sync.version) /\ mirror'.job = sync.version /\ mirror'.fence = sync.version
          \/ /\ mirror'.job = Kept /\ mirror'.fence = mirror.fence
             /\ ~(sync.version # 0 /\ Newer(sync.version))
      BY <1>1, <2>3 DEF Apply, ApplySnapshot, Mirrors
    <3>2. QED
      BY <1>1, <1>3, <1>4, <3>1 DEF MirrorInv, JobStays, Newer, Kept
  <2>4. QED
    BY <1>1, <2>1, <2>2, <2>3
<1>6. QED
  BY <1>2, <1>5 DEF MirrorInv

LEMMA NextMirror ==
  ASSUME IInv, IInv', MirrorInv, [Next]_vars
  PROVE  MirrorInv' /\ JobStays
<1> USE DEF cloudVars, wireVars, schedulerVars, clockVars, historyVars, faultVars
<1>0. TypeOK /\ TypeOK' /\ row.version \in Nat
  BY DEF IInv, TypeOK, Rows
<1>1. CASE Schedule \/ Edit \/ Cancel \/ CloudClock \/ SendSnapshot
  <2>1. mirror' = mirror /\ row \in Rows /\ (row.status = "none" <=> row.version = 0)
    BY <1>0, <1>1 DEF Schedule, Edit, Cancel, CloudClock, SendSnapshot, IInv, FiredInv, TypeOK
  <2>2. /\ \/ row' = row \/ row'.version > row.version
           \/ row'.version = row.version /\ row'.status = row.status
        /\ \A sync \in syncs' : \/ sync \in syncs
                                \/ /\ sync.version <= row'.version
                                   /\ sync.op = "cancel" => row'.status = "canceled"
    <3>1. CASE Schedule
      BY <1>0, <2>1, <3>1 DEF Schedule, Publish, Rows
    <3>2. CASE Edit
      BY <1>0, <2>1, <3>2 DEF Edit, Publish, Rows
    <3>3. CASE Cancel
      <4>1. CASE row.status = "canceled"
        BY <1>0, <2>1, <3>3, <4>1 DEF Cancel, Publish
      <4>2. CASE row.status # "canceled"
        <5>1. row'.version = row.version + 1 /\ row'.status = "canceled"
          BY <2>1, <3>3, <4>2 DEF Cancel, Rows
        <5>2. syncs' = syncs \cup {[op |-> "cancel", version |-> row.version + 1]}
          BY <3>3, <4>2 DEF Cancel, Publish
        <5>3. QED
          BY <1>0, <5>1, <5>2
      <4>3. QED
        BY <4>1, <4>2
    <3>4. CASE CloudClock
      BY <1>0, <2>1, <3>4 DEF CloudClock, Rows
    <3>5. CASE SendSnapshot
      BY <1>0, <2>1, <3>5 DEF SendSnapshot, Publish, Rows
    <3>6. QED
      BY <1>1, <3>1, <3>2, <3>3, <3>4, <3>5
  <2>3. QED
    BY <1>0, <2>1, <2>2, CloudMirror
<1>2. ASSUME NEW call \in calls, Fire(call)
      PROVE  MirrorInv' /\ JobStays
  <2>1. mirror' = mirror /\ row \in Rows
    BY <1>2 DEF Fire, IInv, TypeOK
  <2>2. /\ row' = row \/ row'.version > row.version
        /\ \A sync \in syncs' : sync \in syncs
                                \/ (sync.op = "upsert" /\ sync.version = row'.version)
    <3>1. row' = row \/ row'.version = row.version + 1
      BY <1>2, <2>1 DEF Fire, Advance, Rows
    <3>2. syncs' = syncs \/ syncs' = syncs \cup {[op |-> "upsert", version |-> row'.version]}
      BY <1>2 DEF Fire, PublishNext, Publish
    <3>3. QED
      BY <1>0, <3>1, <3>2
  <2>3. row'.version \in Nat
    BY <1>0 DEF TypeOK, Rows
  <2>4. \A sync \in syncs' : \/ sync \in syncs
                             \/ /\ sync.version <= row'.version
                                /\ sync.op = "cancel" => row'.status = "canceled"
    BY <2>2, <2>3
  <2>5. QED
    BY <1>0, <2>1, <2>2, <2>4, CloudMirror
<1>3. ASSUME NEW sync \in syncs, NEW mode, Apply(sync, mode)
      PROVE  MirrorInv' /\ JobStays
  BY <1>0, <1>3, ApplyMirror
<1>4. ASSUME NEW v \in Versions, NEW mode, ReadWrite(v, mode) \/ Write(v, mode)
      PROVE  MirrorInv' /\ JobStays
  <2>1. row' = row /\ syncs' = syncs
    BY <1>4 DEF ReadWrite, Write, Work, PrepareDue, ReceiptTimer, FireAnswered, WakeAnswered,
                AckReceipt, SaveAttempt, SaveExhausted
  <2>2. mirror' = mirror \/ (\E n : mirror' = [mirror EXCEPT !.timer = n])
    BY <1>4 DEF ReadWrite, Write, Work, PrepareDue, ReceiptTimer, FireAnswered, WakeAnswered,
                AckReceipt, SaveAttempt, SaveExhausted, Defer, Wait
  <2>3. QED
    BY <1>0, <2>1, <2>2, StillMirror
<1>5. CASE \/ StaleTimer \/ Failure \/ UNCHANGED vars
           \/ \E v \in Versions : RemoveItem(v) \/ DaemonClock(v)
           \/ \E req \in Requests : DeadlinePasses(req)
  <2>1. CASE \E v \in Versions : SaveAttempt(v, "works", FALSE)
    <3>1. row' = row /\ syncs' = syncs /\ mirror' = mirror
      BY <2>1 DEF SaveAttempt
    <3>2. QED
      BY <1>0, <3>1, StillMirror
  <2>2. CASE ~\E v \in Versions : SaveAttempt(v, "works", FALSE)
    <3>1. /\ row' = row /\ syncs' \subseteq syncs
          /\ mirror' = mirror \/ (\E n : mirror' = [mirror EXCEPT !.timer = n])
               \/ mirror' = EmptyMirror
      BY <1>5, <2>2 DEF StaleTimer, Failure, vars, RemoveItem, RemoveFails, RefuseWake, FireFails,
         LoseSync, RetentionPasses, Reconnect, Crash, DaemonClock, DeadlinePasses
    <3>2. QED
      BY <1>0, <3>1, StillMirror
  <2>3. QED
    BY <2>1, <2>2
<1>6. QED
  BY <1>1, <1>2, <1>3, <1>4, <1>5 DEF Next

LEMMA InitMirror == Init => MirrorInv
  BY DEF Init, MirrorInv, EmptyMirror

-----------------------------------------------------------------------------
(* The receipts of a version: the slot's (s), the exhausted one on its way *)
(* to the file, and the file's (d).                                        *)

Accepted(r) == r.server = "accepted"
Told(s, d) == (Open(s.receipt) => Accepted(s.receipt)) /\ (Open(d) => Accepted(d))
Untold(s, d) == (Open(s.receipt) => ~Accepted(s.receipt)) /\ (Open(d) => ~Accepted(d))
Awaited == {"fire", "accepted", "premature", "obsolete", "failed"}
Waking == {"wake", "refused"}

(* What is under way tells whether the receipt was accepted; while an      *)
(* exhausted one is on its way to the file nothing is sent to the cloud;   *)
(* and a receipt the cloud may know of is in the file.                     *)
Stage(s, d) ==
  /\ s.effect \in Waking \/ s.timer = "retry" => Told(s, d) /\ Known(s.receipt)
  /\ s.effect \in Awaited => Untold(s, d)
  /\ s.behind => s.effect = "save" /\ Known(s.ending)
  /\ Known(s.ending) =>
       /\ Known(s.receipt) /\ s.ending.end = "exhausted"
       /\ \/ s.effect = "idle" \/ s.behind
          \/ s.effect \in {"save"} \cup Waking /\ Told(s, d)
  /\ Open(s.receipt) /\ (s.receipt.server # "none" \/ s.effect \notin {"idle", "save"}) =>
       Open(d) /\ d.req = s.receipt.req

(* An accepted receipt has the request the cloud fired, and an answer is   *)
(* that to the request of the receipt it is applied to (m: the requests    *)
(* minted).                                                                *)
Vouches(v, r) == Accepted(r) => r.req = fired[v]
Meets(q, s, d) == (Open(s.receipt) => s.receipt.req = q) /\ (Open(d) => d.req = q)
Request(m, v, s, d) ==
  /\ Vouches(v, s.receipt) /\ Vouches(v, s.ending) /\ Vouches(v, d)
  /\ s.effect = "accepted" => Meets(fired[v], s, d)
  /\ \A c \in calls : c.live /\ c.version = v => Meets(c.req, s, d)
  /\ s.receipt.req <= m /\ s.ending.req <= m /\ d.req <= m /\ fired[v] <= m

(* Once the Agent has seen the occurrence, no open receipt of it is still  *)
(* to be accepted, and once it acknowledged it, none is open.              *)
Seen == inbox \cup acking \cup acked
Spoken(v, r) ==
  Open(r) /\ r.req = fired[v] /\ v \in Seen => Accepted(r) /\ v \notin (acking \cup acked) \ unsaved
Shown(v, s, d) ==
  /\ v \in Seen => fired[v] # None
  /\ s.receipt.end = "consumed" \/ d.end = "consumed" => v \in Seen
  /\ Spoken(v, s.receipt) /\ Spoken(v, d)

(* Until it has (l), all receipts are of one request, which the file holds *)
(* when the cloud may hear of it, and only what the cloud can not fire any *)
(* more is declined.                                                       *)
Past(v) == v <= row.version /\ ~Current(v)
Live(v) == v \notin forgotten \cup inbox \cup acked
Same(r, q) == Known(r) /\ Known(q) => r.req = q.req
Declined(s, d) == s.receipt.end = "declined" \/ d.end = "declined" \/ s.effect = "obsolete"
Lost(l, v, s, d) ==
  /\ Known(s.receipt) \/ Known(d) => v <= row.version
  /\ l => /\ Same(s.receipt, d) /\ Same(s.receipt, s.ending) /\ Same(s.ending, d)
          /\ fired[v] # None => d.req = fired[v]
          /\ \A c \in calls : c.version = v => d.req = c.req
          /\ Declined(s, d) => Past(v) /\ fired[v] = None

(* t effects were started, and reads took r attempts back.                 *)
Effects0(t, r, s, d) ==
  /\ Open(s.receipt) => t + (IF s.effect = "save" THEN 1 ELSE 0) <= s.receipt.attempt + r
  /\ Open(d) => t <= d.attempt + r
  /\ t <= MaxAttempts + r

VInv(m, l, t, r, v, s, d) ==
  /\ Stage(s, d) /\ Request(m, v, s, d) /\ Shown(v, s, d) /\ Lost(l, v, s, d)
  /\ Effects0(t, r, s, d)

VersionsInv ==
  \A v \in Versions : VInv(minted, Live(v), tries[v], raced[v], v, slot[v], disk[v])
CallsKnown == \A c \in calls : c.req <= minted /\ c.version <= row.version

RInv == IInv /\ MirrorInv /\ VersionsInv /\ CallsKnown /\ acking \subseteq inbox

-----------------------------------------------------------------------------
(* What the helpers on slots do to the receipts.                           *)

(* The fields of a slot.                                                   *)
LEMMA SlotTypes ==
  ASSUME NEW s \in Slots
  PROVE  /\ s.receipt \in Receipts /\ s.ending \in Receipts
         /\ s.receipt.req \in Nat /\ s.ending.req \in Nat
         /\ s.receipt.attempt \in Nat /\ s.receipt.attempt <= MaxAttempts
         /\ s.timer \in Timers /\ s.effect \in Effects /\ s.behind \in BOOLEAN
         /\ s.failures \in Nat
  BY ReminderBounds DEF Slots, Receipts, Requests, None

LEMMA ReceiptTypes ==
  ASSUME NEW r \in Receipts
  PROVE  /\ r.req \in Nat /\ r.attempt \in Nat /\ r.attempt <= MaxAttempts /\ MaxAttempts \in Nat
         /\ r.end \in Ends /\ r.server \in Results
  BY ReminderBounds DEF Receipts, Requests, None

(* t is s with another timer.                                              *)
Timed(s, t) ==
  /\ t \in Slots /\ t.receipt = s.receipt /\ t.ending = s.ending /\ t.effect = s.effect
  /\ t.behind = s.behind

(* t is s with an attempt under way to be saved.                           *)
Begins(s, t) ==
  /\ t \in Slots /\ s.effect = "idle" /\ Open(s.receipt)
  /\ t.receipt.req = s.receipt.req /\ t.receipt.server = s.receipt.server
  /\ t.receipt.end = s.receipt.end /\ t.receipt.attempt = s.receipt.attempt + 1
  /\ t.ending = s.ending /\ t.effect = "save" /\ t.behind = Known(s.ending) /\ t.timer = s.timer

(* t is s with the receipt exhausted.                                      *)
Exhausts(s, t) ==
  /\ t \in Slots /\ Open(s.receipt)
  /\ t.receipt.req = s.receipt.req /\ t.receipt.server = s.receipt.server
  /\ t.receipt.end = "exhausted"
  /\ t.ending.req = s.receipt.req /\ t.ending.server = s.receipt.server
  /\ t.ending.end = "exhausted"
  /\ t.effect = s.effect /\ ~t.behind /\ t.timer = s.timer

LEMMA ExhaustExhausts ==
  ASSUME NEW s \in Slots, Open(s.receipt)
  PROVE  Exhausts(s, Exhaust(s))
  BY DEF Exhausts, Exhaust, Slots, Receipts, Ends, Open, Known

LEMMA ArmTimes ==
  ASSUME NEW s \in Slots, NEW timer \in Timers
  PROVE  Timed(s, Arm(s, timer)) /\ Arm(s, timer).timer \in {s.timer, timer}
  BY DEF Timed, Arm, Slots

LEMMA FailedTimes ==
  ASSUME NEW s \in Slots, NEW timer \in Timers
  PROVE  /\ Timed(s, Failed(s)) /\ Failed(s).timer = s.timer
         /\ Timed(s, NotSaved(s, timer)) /\ NotSaved(s, timer).timer \in {s.timer, timer}
<1>1. Timed(s, Failed(s)) /\ Failed(s).timer = s.timer
  BY DEF Timed, Failed, Slots
<1>2. QED
  BY <1>1, ArmTimes DEF NotSaved, Timed

LEMMA StartFields ==
  ASSUME NEW s \in Slots
  PROVE  \/ StartEffect(s) = s
         \/ s.effect = "idle" /\ Exhausts(s, StartEffect(s))
         \/ Begins(s, StartEffect(s))
<1>1. CASE s.effect # "idle" \/ ~Open(s.receipt)
  BY <1>1 DEF StartEffect
<1>2. CASE s.effect = "idle" /\ Open(s.receipt) /\ Spent(s.receipt)
  BY <1>2, ExhaustExhausts DEF StartEffect
<1>3. CASE s.effect = "idle" /\ Open(s.receipt) /\ ~Spent(s.receipt)
  <2> DEFINE r == [s.receipt EXCEPT !.attempt = @ + 1]
             t == [s EXCEPT !.receipt = r, !.effect = "save", !.behind = Known(s.ending)]
  <2>1. s.receipt.attempt + 1 \in 0..MaxAttempts
    BY <1>3, ReminderBounds DEF Spent, Slots, Receipts
  <2>2. /\ r \in Receipts /\ r.req = s.receipt.req /\ r.server = s.receipt.server
        /\ r.end = s.receipt.end /\ r.attempt = s.receipt.attempt + 1
    BY <2>1 DEF Slots, Receipts
  <2>3. /\ t \in Slots /\ t.receipt = r /\ t.ending = s.ending /\ t.effect = "save"
        /\ t.behind = Known(s.ending) /\ t.timer = s.timer
    BY <2>2 DEF Slots, Effects, Known
  <2>4. StartEffect(s) = t
    BY <1>3 DEF StartEffect, Slots, Receipts
  <2>5. QED
    BY <1>3, <2>2, <2>3, <2>4 DEF Begins
<1>4. QED
  BY <1>1, <1>2, <1>3

LEMMA RetryFields ==
  ASSUME NEW s \in Slots
  PROVE  \/ Retry(s) = s
         \/ Exhausts(s, Retry(s))
         \/ Timed(s, Retry(s)) /\ Retry(s).timer \in {s.timer, "effect"}
<1>1. "effect" \in Timers
  BY DEF Timers
<1>2. CASE ~Open(s.receipt)
  BY <1>2 DEF Retry
<1>3. CASE Open(s.receipt)
  BY <1>1, <1>3, ExhaustExhausts, ArmTimes DEF Retry
<1>4. QED
  BY <1>2, <1>3

LEMMA SavedFields ==
  ASSUME NEW v \in Versions, NEW s \in Slots
  PROVE  /\ Saved(v, s) \in Slots /\ Saved(v, s).receipt = Merged(v, s.receipt)
         /\ Saved(v, s).effect = s.effect /\ Saved(v, s).ending = s.ending
         /\ Saved(v, s).behind = s.behind /\ Saved(v, s).timer = s.timer
<1>1. Merged(v, s.receipt) \in Receipts
  BY SlotTypes, MergedReceipt
<1>2. QED
  BY <1>1 DEF Saved, Slots

(* The invariant is kept by what the helpers do.                           *)
LEMMA TimedV ==
  ASSUME NEW m, NEW l, NEW t, NEW r, NEW v, NEW s, NEW d, NEW u,
         VInv(m, l, t, r, v, s, d), Timed(s, u),
         u.timer = "retry" => s.timer = "retry" \/ (Told(s, d) /\ Known(s.receipt))
  PROVE  VInv(m, l, t, r, v, u, d)
<1>1. Stage(u, d)
  BY DEF VInv, Stage, Timed, Told, Untold
<1>2. Request(m, v, u, d) /\ Shown(v, u, d)
  BY DEF VInv, Request, Shown, Timed, Meets
<1>3. Lost(l, v, u, d) /\ Effects0(t, r, u, d)
  BY DEF VInv, Lost, Effects0, Timed, Declined
<1>4. QED
  BY <1>1, <1>2, <1>3 DEF VInv

LEMMA BeginsV ==
  ASSUME NEW m, NEW l, NEW t \in Nat, NEW r \in Nat, NEW v, NEW s \in Slots, NEW d \in Receipts,
         NEW u, VInv(m, l, t, r, v, s, d), Begins(s, u)
  PROVE  VInv(m, l, t, r, v, u, d)
<1>0. Open(u.receipt) /\ Open(s.receipt) /\ Known(u.receipt) = Known(s.receipt)
  BY DEF Begins, Open, Known
<1>1. Stage(u, d)
  BY <1>0 DEF VInv, Stage, Begins, Told, Untold, Accepted, Awaited, Waking
<1>2. Request(m, v, u, d) /\ Shown(v, u, d)
  BY <1>0 DEF VInv, Request, Shown, Begins, Meets, Vouches, Accepted, Spoken
<1>3. Lost(l, v, u, d)
  BY <1>0 DEF VInv, Lost, Begins, Declined, Same
<1>4. Effects0(t, r, u, d)
  BY <1>0, SlotTypes DEF VInv, Effects0, Begins
<1>5. QED
  BY <1>1, <1>2, <1>3, <1>4 DEF VInv

LEMMA ExhaustsV ==
  ASSUME NEW m, NEW l, NEW t, NEW r, NEW v, NEW s \in Slots, NEW d \in Receipts,
         NEW u, VInv(m, l, t, r, v, s, d), Exhausts(s, u),
         s.effect = "idle" \/ Told(s, d)
  PROVE  VInv(m, l, t, r, v, u, d)
<1>0. ~Open(u.receipt) /\ Open(s.receipt) /\ Known(u.receipt) /\ Known(s.receipt) /\ Known(u.ending)
  BY DEF Exhausts, Open, Known
<1>1. Stage(u, d)
  <2>1. s.effect \in Effects
    BY SlotTypes
  <2>2. s.effect \in Awaited => ~Told(s, d)
    BY <1>0 DEF VInv, Stage, Told, Untold
  <2>3. u.effect \in {"idle", "save"} \cup Waking
    BY <2>1, <2>2 DEF Exhausts, Effects, Awaited, Waking
  <2>4. Told(s, d) => Told(u, d)
    BY <1>0 DEF Told
  <2>5. QED
    BY <1>0, <2>2, <2>3, <2>4 DEF VInv, Stage, Exhausts, Untold, Awaited, Waking
<1>2. Request(m, v, u, d) /\ Shown(v, u, d)
  BY <1>0 DEF VInv, Request, Shown, Exhausts, Meets, Vouches, Accepted, Spoken
<1>3. Lost(l, v, u, d)
  BY <1>0 DEF VInv, Lost, Exhausts, Declined, Same
<1>4. Effects0(t, r, u, d)
  BY <1>0 DEF VInv, Effects0
<1>5. QED
  BY <1>1, <1>2, <1>3, <1>4 DEF VInv

LEMMA StartV ==
  ASSUME NEW m, NEW l, NEW t \in Nat, NEW r \in Nat, NEW v, NEW s \in Slots, NEW d \in Receipts,
         VInv(m, l, t, r, v, s, d)
  PROVE  VInv(m, l, t, r, v, StartEffect(s), d) /\ StartEffect(s) \in Slots
<1>1. CASE StartEffect(s) = s
  BY <1>1
<1>2. CASE s.effect = "idle" /\ Exhausts(s, StartEffect(s))
  BY <1>2, ExhaustsV DEF Exhausts
<1>3. CASE Begins(s, StartEffect(s))
  BY <1>3, BeginsV DEF Begins
<1>4. QED
  BY <1>1, <1>2, <1>3, StartFields

LEMMA RetryV ==
  ASSUME NEW m, NEW l, NEW t, NEW r, NEW v, NEW s \in Slots, NEW d \in Receipts,
         VInv(m, l, t, r, v, s, d), s.effect = "idle" \/ Told(s, d)
  PROVE  VInv(m, l, t, r, v, Retry(s), d) /\ Retry(s) \in Slots
<1>1. CASE Retry(s) = s
  BY <1>1
<1>2. CASE Exhausts(s, Retry(s))
  BY <1>2, ExhaustsV DEF Exhausts
<1>3. CASE Timed(s, Retry(s)) /\ Retry(s).timer \in {s.timer, "effect"}
  BY <1>3, TimedV DEF Timed
<1>4. QED
  BY <1>1, <1>2, <1>3, RetryFields

LEMMA ArmV ==
  ASSUME NEW m, NEW l, NEW t, NEW r, NEW v, NEW s \in Slots, NEW d, NEW timer \in Timers,
         VInv(m, l, t, r, v, s, d), timer = "retry" => Told(s, d) /\ Known(s.receipt)
  PROVE  VInv(m, l, t, r, v, Arm(s, timer), d) /\ Arm(s, timer) \in Slots
  BY ArmTimes, TimedV DEF Timed

LEMMA NotSavedV ==
  ASSUME NEW m, NEW l, NEW t, NEW r, NEW v, NEW s \in Slots, NEW d, NEW timer \in Timers,
         VInv(m, l, t, r, v, s, d), timer = "retry" => Told(s, d) /\ Known(s.receipt)
  PROVE  /\ VInv(m, l, t, r, v, NotSaved(s, timer), d) /\ NotSaved(s, timer) \in Slots
         /\ VInv(m, l, t, r, v, Failed(s), d) /\ Failed(s) \in Slots
<1>1. Timed(s, Failed(s)) /\ Failed(s).timer = s.timer
  BY FailedTimes
<1>2. Timed(s, NotSaved(s, timer)) /\ NotSaved(s, timer).timer \in {s.timer, timer}
  BY FailedTimes
<1>3. QED
  BY <1>1, <1>2, TimedV DEF Timed

(* The copy in hand is in the file, or was dropped from it: it was         *)
(* consumed.                                                               *)
Stored(v, r, d) == d = Merged(v, r) \/ (d = NoReceipt /\ Merged(v, r).end = "consumed")

LEMMA NoReceiptFields ==
  /\ ~Open(NoReceipt) /\ ~Known(NoReceipt) /\ NoReceipt.end = "open" /\ NoReceipt.req = 0
  /\ NoReceipt.server = "none" /\ ~Accepted(NoReceipt)
  BY DEF NoReceipt, Open, Known, None, Accepted

LEMMA SavedV ==
  ASSUME NEW m \in Nat, NEW l, NEW t \in Nat, NEW r \in Nat, NEW v \in Versions, NEW s \in Slots,
         disk[v] \in Receipts, calls \subseteq Calls, acking \subseteq inbox, l => Live(v),
         Known(s.receipt),
         VInv(m, l, t, r, v, s, disk[v]), NEW d, Stored(v, s.receipt, d)
  PROVE  /\ VInv(m, l, t, r, v, Saved(v, s), d) /\ Saved(v, s) \in Slots
         /\ Told(s, disk[v]) => Told(Saved(v, s), d)
<1> DEFINE u == Saved(v, s)
           b == disk[v]
<1>1. /\ u \in Slots /\ u.effect = s.effect /\ u.ending = s.ending /\ u.behind = s.behind
      /\ u.timer = s.timer /\ u.receipt = Merged(v, s.receipt)
  BY SavedFields
<1>2. /\ u.receipt.req = s.receipt.req /\ u.receipt.server = s.receipt.server
      /\ u.receipt.end = IF b.end = "consumed" THEN "consumed" ELSE s.receipt.end
      /\ u.receipt.attempt = s.receipt.attempt
      /\ Open(u.receipt) => Open(s.receipt) /\ b.end # "consumed"
      /\ Known(u.receipt)
  BY <1>1, SlotTypes, MergedReceipt DEF Merged, Open, Known, Receipts
<1>3. d = u.receipt \/ (d = NoReceipt /\ u.receipt.end = "consumed")
  BY <1>1 DEF Stored
<1>4. Open(d) => d = u.receipt /\ Open(u.receipt)
  BY <1>3, NoReceiptFields
<1>5. u.receipt.end = "consumed" \/ d.end = "consumed" => v \in Seen /\ u.receipt.end = "consumed"
  BY <1>2, <1>3, NoReceiptFields DEF VInv, Shown
<1> HIDE DEF u
<1>6. Told(s, b) => Told(u, d)
  BY <1>2, <1>4 DEF Told, Accepted
<1>7. Stage(u, d)
  BY <1>1, <1>2, <1>3, <1>4, <1>6 DEF VInv, Stage, Untold, Accepted, Open
<1>8. Request(m, v, u, d)
  BY <1>1, <1>2, <1>3, <1>4, NoReceiptFields DEF VInv, Request, Meets, Vouches, Accepted
<1>9. Shown(v, u, d)
  BY <1>1, <1>2, <1>4, <1>5 DEF VInv, Shown, Spoken, Accepted
<1>10. Lost(l, v, u, d)
  <2>1. l => v \notin Seen
    BY DEF Live, Seen
  <2>2. ASSUME l PROVE d = u.receipt /\ u.receipt.end = s.receipt.end
    BY <1>2, <1>3, <1>5, <2>1, <2>2
  <2>3. v <= row.version
    BY DEF VInv, Lost
  <2>4. ASSUME l
        PROVE  /\ Same(u.receipt, d) /\ Same(u.receipt, u.ending) /\ Same(u.ending, d)
               /\ Declined(u, d) => Past(v) /\ fired[v] = None
    BY <1>1, <1>2, <2>2, <2>4 DEF VInv, Lost, Same, Declined, Known
  <2>5. ASSUME l, NEW q, q # None, b.req = q PROVE d.req = q
    BY <1>2, <2>2, <2>5 DEF VInv, Lost, Same, Known
  <2>6. \A c \in calls : c.req # None
    BY DEF Calls, Requests, None
  <2>7. QED
    BY <2>3, <2>4, <2>5, <2>6 DEF VInv, Lost
<1>11. Effects0(t, r, u, d)
  BY <1>1, <1>2, <1>4, SlotTypes DEF VInv, Effects0
<1>12. QED
  BY <1>1, <1>6, <1>7, <1>8, <1>9, <1>10, <1>11 DEF VInv, u

-----------------------------------------------------------------------------
(* The versions a step is not about.                                       *)

Remains(w) == disk'[w] = disk[w] \/ (disk[w].end = "consumed" /\ disk'[w] = NoReceipt)

LEMMA SavesStored ==
  ASSUME disk \in [Versions -> Receipts], NEW v \in Versions, NEW x \in Receipts, Saves(v, x)
  PROVE  /\ Stored(v, x, disk'[v]) /\ disk' \in [Versions -> Receipts]
         /\ \A w \in Versions : w # v => Remains(w)
<1>1. disk' \in [Versions -> Receipts]
  BY SavesFile
<1>2. \A w \in Versions :
        disk'[w] = IF [disk EXCEPT ![v] = Merged(v, x)][w].end = "consumed"
                        /\ [disk EXCEPT ![v] = Merged(v, x)][w].req \in aged
                     THEN NoReceipt ELSE [disk EXCEPT ![v] = Merged(v, x)][w]
  BY DEF Saves, Retained
<1>3. QED
  BY <1>1, <1>2 DEF Stored, Remains

(* What the world may do about a version w without touching it.            *)
Aside(w) ==
  /\ slot'[w] = slot[w] /\ Remains(w)
  /\ fired'[w] = fired[w] /\ row'.version >= row.version /\ (Past(w) => Past(w)')
  /\ \A c \in calls' : c.version = w => \E b \in calls : b.version = w /\ b.req = c.req
                                                           /\ (c.live => b.live)
  /\ (w \in Seen') = (w \in Seen) /\ (Live(w)' => Live(w))
  /\ w \in acking' \cup acked' => w \in acking \cup acked
  /\ w \in unsaved => w \in unsaved'
  /\ minted' >= minted /\ tries'[w] = tries[w] /\ raced'[w] = raced[w]

LEMMA AsideV ==
  ASSUME TypeOK, NEW w \in Versions, Aside(w), acking \subseteq inbox,
         row'.version \in Nat, minted' \in Nat,
         VInv(minted, Live(w), tries[w], raced[w], w, slot[w], disk[w])
  PROVE  VInv(minted, Live(w), tries[w], raced[w], w, slot[w], disk[w])'
<1> DEFINE s == slot[w]
           d == disk[w]
           e == disk'[w]
<1>1. /\ s \in Slots /\ d \in Receipts /\ minted \in Nat /\ row.version \in Nat
      /\ fired[w] \in Nat /\ tries[w] \in Nat /\ raced[w] \in Nat
  BY ReminderBounds DEF TypeOK, Rows, Requests, None
<1>2. /\ s.receipt.req \in Nat /\ s.ending.req \in Nat /\ d.req \in Nat
  BY <1>1, SlotTypes, ReceiptTypes
<1>3. e = d \/ (e = NoReceipt /\ d.end = "consumed")
  BY DEF Aside, Remains
<1>4. /\ Open(e) => e = d
      /\ e.req \in Nat /\ e.req <= d.req /\ (e.end = "consumed" => d.end = "consumed")
      /\ (Known(e) => e = d) /\ (Accepted(e) => e = d)
  BY <1>2, <1>3, NoReceiptFields
<1>5. (w \in Seen') = (w \in Seen) /\ (Live(w)' => Live(w))
  BY DEF Aside, Seen, Live
<1>6. Live(w)' => e = d
  BY <1>3, <1>5 DEF VInv, Shown, Seen, Live
<1>7. slot'[w] = s
  BY DEF Aside
<1> HIDE DEF s, d, e
<1>8. Told(s, d) => Told(s, e)
  BY <1>4 DEF Told
<1>9. Stage(s, e)
  BY <1>3, <1>4, <1>8 DEF VInv, Stage, Untold, s, d, Open
<1>10. Request(minted, w, slot[w], disk[w])'
  <2>1. Vouches(w, s.receipt) /\ Vouches(w, s.ending) /\ (Accepted(e) => e.req = fired[w])
        /\ (s.effect = "accepted" => Meets(fired[w], s, e))
    BY <1>4 DEF VInv, Request, Meets, Vouches, s, d
  <2>2. ASSUME NEW c \in calls', c.live, c.version = w PROVE Meets(c.req, s, e)
    BY <1>4, <2>2 DEF VInv, Request, Meets, Aside, s, d
  <2>3. s.receipt.req <= minted' /\ s.ending.req <= minted' /\ e.req <= minted'
        /\ fired[w] <= minted'
    BY <1>1, <1>2, <1>4 DEF VInv, Request, Aside, s, d
  <2>4. fired'[w] = fired[w]
    BY DEF Aside
  <2>5. QED
    BY <1>7, <2>1, <2>2, <2>3, <2>4 DEF Request, Meets, Vouches, e, s, Open, Known, Accepted
<1>11. Shown(w, slot[w], disk[w])'
  BY <1>4, <1>5, <1>7 DEF VInv, Shown, Spoken, Aside, s, d, e
<1>12. Lost(Live(w), w, slot[w], disk[w])'
  <2>1. Known(slot'[w].receipt) \/ Known(disk'[w]) => w <= row'.version
    BY <1>1, <1>4, <1>7 DEF VInv, Lost, Aside, s, d, e, Versions
  <2>2. ASSUME Live(w)'
        PROVE  /\ Same(s.receipt, e) /\ Same(s.receipt, s.ending) /\ Same(s.ending, e)
               /\ fired'[w] # None => e.req = fired'[w]
               /\ \A c \in calls' : c.version = w => e.req = c.req
               /\ Declined(s, e) => Past(w)' /\ fired'[w] = None
    BY <1>5, <1>6, <2>2 DEF VInv, Lost, Aside, s, d
  <2>3. QED
    BY <1>7, <2>1, <2>2 DEF Lost, e, Same, Known, Declined
<1>13. Effects0(tries[w], raced[w], slot[w], disk[w])'
  BY <1>4, <1>7 DEF VInv, Effects0, Aside, s, d, e
<1>14. Stage(slot[w], disk[w])'
  BY <1>7, <1>9 DEF Stage, e, s, Told, Untold, Open, Known, Accepted
<1>15. QED
  BY <1>10, <1>11, <1>12, <1>13, <1>14 DEF VInv

(* A step of the scheduler about one version v: t is what it makes of the  *)
(* slot.                                                                   *)
LEMMA WorkStep ==
  ASSUME RInv, IInv', MirrorInv', NEW v \in Versions, NEW t,
         slot' = [slot EXCEPT ![v] = t],
         VInv(minted', Live(v)', tries'[v], raced'[v], v, t, disk'[v]),
         \A w \in Versions : w # v => Remains(w) /\ tries'[w] = tries[w] /\ raced'[w] = raced[w]
                                        /\ (w \in forgotten => w \in forgotten'),
         minted' >= minted,
         UNCHANGED <<row, fired, calls, inbox, acking, acked, unsaved>>
  PROVE  RInv'
<1>1. TypeOK /\ TypeOK' /\ minted \in Nat /\ minted' \in Nat /\ row'.version \in Nat
      /\ row.version \in Nat
  BY ReminderBounds DEF RInv, IInv, TypeOK, Rows
<1>2. ASSUME NEW w \in Versions, w # v
      PROVE  VInv(minted, Live(w), tries[w], raced[w], w, slot[w], disk[w])'
  <2>1. Aside(w)
    BY <1>1, <1>2 DEF Aside, Past, Current, TypeOK, Seen, Live
  <2>2. QED
    BY <1>1, <1>2, <2>1, AsideV DEF RInv, VersionsInv
<1>3. VInv(minted, Live(v), tries[v], raced[v], v, slot[v], disk[v])'
  <2>1. slot'[v] = t
    BY <1>1 DEF TypeOK
  <2>2. QED
    BY <2>1 DEF VInv, Stage, Request, Shown, Lost, Effects0, Told, Untold, Meets, Vouches, Spoken,
       Past, Current, Same, Declined, Seen, Open, Known, Accepted
<1>4. CallsKnown' /\ (acking \subseteq inbox)'
  <2>1. \A c \in calls : c.req \in Nat
    BY <1>1 DEF TypeOK, Calls, Requests
  <2>2. QED
    BY <1>1, <2>1 DEF RInv, CallsKnown
<1>5. QED
  BY <1>2, <1>3, <1>4 DEF RInv, VersionsInv

-----------------------------------------------------------------------------
(* How an operation takes a slot up, and what it makes of the receipt.     *)

(* u is s but for the receipt x and the effect.                            *)
TakenUp(s, u, x, effect) ==
  /\ u \in Slots /\ u.receipt = x /\ u.effect = effect
  /\ u.ending = s.ending /\ u.behind = s.behind /\ u.timer = s.timer

LEMMA TakenFields ==
  ASSUME NEW s \in Slots, NEW x \in Receipts, NEW effect \in Effects
  PROVE  /\ TakenUp(s, [s EXCEPT !.effect = effect, !.receipt = x], x, effect)
         /\ TakenUp(s, [s EXCEPT !.effect = effect], s.receipt, effect)
         /\ TakenUp(s, [s EXCEPT !.receipt = x], x, s.effect)
  BY DEF TakenUp, Slots

(* The file's copy is taken; an attempt counted but not saved is lost.     *)
LEMMA FreshV ==
  ASSUME NEW m, NEW l, NEW t \in Nat, NEW r \in Nat, NEW q \in Nat, NEW v, NEW s \in Slots,
         NEW d \in Receipts, NEW u, VInv(m, l, t, r, v, s, d), Known(d),
         q >= r + (IF s.effect = "save" /\ Open(d) THEN 1 ELSE 0), TakenUp(s, u, d, s.effect)
  PROVE  VInv(m, l, t, q, v, u, d)
<1>1. Stage(u, d)
  BY DEF VInv, Stage, TakenUp, Told, Untold
<1>2. Request(m, v, u, d) /\ Shown(v, u, d)
  BY DEF VInv, Request, Shown, TakenUp, Meets
<1>3. Lost(l, v, u, d)
  BY DEF VInv, Lost, TakenUp, Declined, Same
<1>4. Effects0(t, q, u, d)
  BY ReceiptTypes DEF VInv, Effects0, TakenUp
<1>5. QED
  BY <1>1, <1>2, <1>3, <1>4 DEF VInv

(* An effect is over.                                                      *)
LEMMA IdleV ==
  ASSUME NEW m, NEW l, NEW t \in Nat, NEW r \in Nat, NEW v, NEW s \in Slots,
         NEW d \in Receipts, NEW u, VInv(m, l, t, r, v, s, d), ~s.behind,
         TakenUp(s, u, s.receipt, "idle")
  PROVE  VInv(m, l, t, r, v, u, d)
<1>1. Stage(u, d)
  BY DEF VInv, Stage, TakenUp, Told, Awaited, Waking
<1>2. Request(m, v, u, d) /\ Shown(v, u, d)
  BY DEF VInv, Request, Shown, TakenUp, Meets
<1>3. Lost(l, v, u, d)
  BY DEF VInv, Lost, TakenUp, Declined, Same
<1>4. Effects0(t, r, u, d)
  BY SlotTypes DEF VInv, Effects0, TakenUp
<1>5. QED
  BY <1>1, <1>2, <1>3, <1>4 DEF VInv

(* The answer to a fire is noted in the receipt.                           *)
LEMMA AnswerV ==
  ASSUME NEW m, NEW l, NEW t, NEW r, NEW v, NEW s \in Slots, NEW d \in Receipts,
         NEW u, NEW x, VInv(m, l, t, r, v, s, d), Open(s.receipt), TakenUp(s, u, x, "idle"),
         x.req = s.receipt.req, x.attempt = s.receipt.attempt,
         \/ s.effect = "accepted" /\ x.server = "accepted" /\ x.end = "open"
         \/ s.effect = "premature" /\ x.server = "premature" /\ x.end = "open"
         \/ s.effect = "obsolete" /\ x.server = "obsolete" /\ x.end = "declined"
  PROVE  VInv(m, l, t, r, v, u, d)
<1>1. /\ ~Accepted(s.receipt) /\ ~s.behind /\ s.timer # "retry" /\ ~Known(s.ending)
      /\ Open(d) /\ d.req = s.receipt.req
  BY DEF VInv, Stage, Awaited, Waking, Untold, Told
<1>2. Stage(u, d)
  BY <1>1 DEF VInv, Stage, TakenUp, Awaited, Waking
<1>3. Request(m, v, u, d)
  BY <1>1 DEF VInv, Request, TakenUp, Meets, Vouches, Accepted, Open, Known
<1>4. Shown(v, u, d)
  BY <1>1 DEF VInv, Shown, TakenUp, Spoken, Open, Known, Request, Meets
<1>5. Lost(l, v, u, d)
  BY <1>1 DEF VInv, Lost, TakenUp, Declined, Same, Open, Known
<1>6. Effects0(t, r, u, d)
  BY <1>1 DEF VInv, Effects0, TakenUp, Open, Known
<1>7. QED
  BY <1>2, <1>3, <1>4, <1>5, <1>6 DEF VInv

(* The Agent took the wake's notice.                                       *)
LEMMA WokenV ==
  ASSUME NEW m, NEW l, NEW t, NEW r, NEW v, NEW s \in Slots, NEW d \in Receipts,
         NEW u, NEW x, VInv(m, l, t, r, v, s, d), s.effect = "idle", TakenUp(s, u, x, "idle"),
         x.req = s.receipt.req, x.server = s.receipt.server, x.end = "woken"
  PROVE  VInv(m, l, t, r, v, u, d)
<1>1. ~Open(x)
  BY DEF Open
<1>2. Stage(u, d)
  BY <1>1 DEF VInv, Stage, TakenUp, Awaited, Waking, Told, Known
<1>3. Request(m, v, u, d) /\ Shown(v, u, d)
  BY <1>1 DEF VInv, Request, Shown, TakenUp, Meets, Vouches, Accepted, Spoken
<1>4. Lost(l, v, u, d)
  BY <1>1 DEF VInv, Lost, TakenUp, Declined, Same, Known
<1>5. Effects0(t, r, u, d)
  BY <1>1 DEF VInv, Effects0, TakenUp
<1>6. QED
  BY <1>2, <1>3, <1>4, <1>5 DEF VInv

(* #persistOrRetry.                                                        *)
Proceeds == {"effect", "retry", "stop"}

LEMMA PersistV ==
  ASSUME TypeOK, acking \subseteq inbox, NEW m \in Nat, NEW l, NEW t \in Nat, NEW r \in Nat,
         NEW v \in Versions, NEW s \in Slots, l => Live(v), Known(s.receipt),
         VInv(m, l, t, r, v, s, disk[v]), NEW mode,
         NEW proceed \in Proceeds, NEW timer \in Timers,
         PersistOrRetry(v, s, mode, proceed, timer),
         proceed = "retry" => s.effect = "idle" \/ Told(s, disk[v]),
         timer = "retry" => Told(s, disk[v])
  PROVE  /\ \E u : slot' = [slot EXCEPT ![v] = u] /\ VInv(m, l, t, r, v, u, disk'[v])
         /\ \A w \in Versions : w # v => Remains(w)
<1>0. disk \in [Versions -> Receipts] /\ calls \subseteq Calls /\ s.receipt \in Receipts
  BY SlotTypes DEF TypeOK
<1>1. CASE Writes(mode)
  <2> DEFINE u == Saved(v, s)
  <2>1. /\ Stored(v, s.receipt, disk'[v]) /\ disk'[v] \in Receipts
        /\ \A w \in Versions : w # v => Remains(w)
        /\ slot' = [slot EXCEPT ![v] = Proceed(proceed, u)]
    BY <1>0, <1>1, SavesStored DEF PersistOrRetry
  <2>2. /\ VInv(m, l, t, r, v, u, disk'[v]) /\ u \in Slots
        /\ Told(s, disk[v]) => Told(u, disk'[v])
    BY <1>0, <2>1, SavedV
  <2>3. u.effect = s.effect
    BY SavedFields
  <2> HIDE DEF u
  <2>4. VInv(m, l, t, r, v, Proceed(proceed, u), disk'[v])
    BY <2>1, <2>2, <2>3, StartV, RetryV DEF Proceed, Proceeds
  <2>5. QED
    BY <2>1, <2>4
<1>2. CASE ~Writes(mode)
  <2>1. slot' = [slot EXCEPT ![v] = NotSaved(s, timer)] /\ disk' = disk
    BY <1>2 DEF PersistOrRetry
  <2>2. VInv(m, l, t, r, v, NotSaved(s, timer), disk[v])
    BY NotSavedV
  <2>3. QED
    BY <2>1, <2>2 DEF Remains
<1>3. QED
  BY <1>1, <1>2

-----------------------------------------------------------------------------
(* The scheduler's steps.                                                  *)

LEMMA RFacts ==
  ASSUME RInv, NEW v \in Versions
  PROVE  /\ TypeOK /\ acking \subseteq inbox /\ slot[v] \in Slots /\ disk[v] \in Receipts
         /\ disk \in [Versions -> Receipts] /\ slot \in [Versions -> Slots]
         /\ minted \in Nat /\ tries[v] \in Nat /\ raced[v] \in Nat /\ calls \subseteq Calls
         /\ VInv(minted, Live(v), tries[v], raced[v], v, slot[v], disk[v])
         /\ slot[v].effect # "idle" => Known(slot[v].receipt)
         /\ \A c \in calls : c.live /\ c.version = v => slot[v].effect = "fire"
         /\ \A w \in Versions : Live(w) => w \notin forgotten
  BY ReminderBounds DEF RInv, IInv, TypeOK, VersionsInv, KeptInv, HeldBack, CallsInv, Live

(* A freshly read receipt, or the copy in memory, is taken up.             *)
LEMMA FreshSlot ==
  ASSUME RInv, NEW v \in Versions, NEW mode, NEW q \in Nat, q >= raced[v],
         Reads(mode) => q >= TakenBack(v), NEW u,
         TakenUp(slot[v], u, Fresh(v, mode), slot[v].effect)
  PROVE  VInv(minted, Live(v), tries[v], q, v, u, disk[v])
<1>1. CASE Reads(mode) /\ Known(disk[v])
  <2>1. q >= raced[v] + (IF slot[v].effect = "save" /\ Open(disk[v]) THEN 1 ELSE 0)
    BY <1>1, RFacts DEF TakenBack
  <2>2. Fresh(v, mode) = disk[v]
    BY <1>1 DEF Fresh
  <2>3. QED
    BY <1>1, <2>1, <2>2, FreshV, RFacts
<1>2. CASE ~(Reads(mode) /\ Known(disk[v]))
  <2>1. Timed(slot[v], u) /\ u.timer = slot[v].timer
    BY <1>2 DEF TakenUp, Timed, Fresh
  <2>2. VInv(minted, Live(v), tries[v], raced[v], v, u, disk[v])
    BY <2>1, TimedV, RFacts
  <2>3. Effects0(tries[v], q, u, disk[v])
    <3>1. u.receipt.attempt \in Nat /\ disk[v].attempt \in Nat /\ MaxAttempts \in Nat
      BY <2>1, SlotTypes, ReceiptTypes, RFacts DEF Timed
    <3>2. QED
      BY <2>2, <3>1, RFacts DEF VInv, Effects0
  <2>4. QED
    BY <2>2, <2>3 DEF VInv
<1>3. QED
  BY <1>1, <1>2

(* The receipt of the due version: found, or made with a new request.      *)
LEMMA PrepareV ==
  ASSUME RInv, IInv', MirrorInv', NEW v \in Versions, NEW mode, PrepareDue(v, mode)
  PROVE  RInv'
<1> DEFINE s == slot[v]
           found == IF Known(s.receipt) THEN s.receipt ELSE Fresh(v, mode)
           made == [NoReceipt EXCEPT !.req = minted + 1]
           x == IF Known(found) THEN found ELSE made
           u == [s EXCEPT !.receipt = x]
<1>1. /\ PersistOrRetry(v, u, mode, "effect", "save")
      /\ mirror.job = v
      /\ UNCHANGED <<row, fired, calls, inbox, acking, acked, unsaved>>
      /\ IF Known(found)
           THEN UNCHANGED <<minted, forgotten, tries, raced>>
           ELSE /\ minted < MaxRequests /\ minted' = minted + 1
                /\ forgotten' = IF Known(disk[v]) THEN forgotten \cup {v} ELSE forgotten
                /\ tries' = [tries EXCEPT ![v] = 0] /\ raced' = [raced EXCEPT ![v] = 0]
  BY DEF PrepareDue, cloudVars, wireVars
<1>2. x \in Receipts /\ Known(x)
  <2>1. found \in Receipts
    BY FreshReceipt, RFacts, SlotTypes
  <2>2. ~Known(found) => made \in Receipts /\ Known(made)
    BY <1>1, NoReceiptType, ReminderBounds, RFacts DEF NoReceipt, Receipts, Requests, Known, None
  <2>3. QED
    BY <2>1, <2>2
<1>3. /\ Known(s.receipt) => x = s.receipt /\ Known(found)
      /\ ~Known(s.receipt) /\ Known(found) => x = Fresh(v, mode)
      /\ ~Known(found) => x = made
  OBVIOUS
<1>a. u = [s EXCEPT !.receipt = x]
  OBVIOUS
<1> HIDE DEF x, u
<1>b. TakenUp(s, u, x, s.effect)
  BY <1>2, <1>a, TakenFields, RFacts, SlotTypes
<1> HIDE DEF s, found
<1>4. /\ minted' \in Nat /\ minted' >= minted /\ tries'[v] \in Nat /\ raced'[v] \in Nat
      /\ Live(v)' => Live(v)
      /\ \A w \in Versions : w # v => tries'[w] = tries[w] /\ raced'[w] = raced[w]
                                      /\ (w \in forgotten => w \in forgotten')
  BY <1>1, RFacts DEF Live, RInv, IInv, TypeOK
<1>5. VInv(minted', Live(v)', tries'[v], raced'[v], v, u, disk[v])
  <2>1. CASE Known(s.receipt)
    <3>1. Known(found) /\ x = s.receipt
      BY <1>3, <2>1
    <3>2. Timed(s, u) /\ u.timer = s.timer
      BY <1>b, <3>1 DEF TakenUp, Timed
    <3>3. VInv(minted, Live(v), tries[v], raced[v], v, u, disk[v])
      BY <3>2, TimedV, RFacts DEF s
    <3>4. Live(v)' = Live(v) /\ minted' = minted /\ tries' = tries /\ raced' = raced
      BY <1>1, <3>1 DEF Live
    <3>5. QED
      BY <3>3, <3>4
  <2>2. CASE ~Known(s.receipt) /\ Known(found)
    <3>1. x = Fresh(v, mode) /\ s.effect = "idle"
      BY <1>3, <2>2, RFacts DEF s
    <3>2. TakenBack(v) = raced[v] /\ raced[v] \in Nat /\ raced[v] >= raced[v]
      BY <3>1, RFacts DEF TakenBack, s
    <3>a. TakenUp(slot[v], u, Fresh(v, mode), slot[v].effect)
      BY <1>b, <3>1 DEF s
    <3>b. Reads(mode) => raced[v] >= TakenBack(v)
      BY <3>2
    <3>3. VInv(minted, Live(v), tries[v], raced[v], v, u, disk[v])
      BY <3>2, <3>a, <3>b, FreshSlot
    <3>4. Live(v)' = Live(v) /\ minted' = minted /\ tries' = tries /\ raced' = raced
      BY <1>1, <2>2 DEF Live
    <3>5. QED
      BY <3>3, <3>4
  <2>3. CASE ~Known(s.receipt) /\ ~Known(found)
    <3>1. /\ x.req = minted + 1 /\ x.server = "none" /\ x.end = "open" /\ x.attempt = 0
          /\ s.effect = "idle" /\ minted' = minted + 1 /\ tries'[v] = 0 /\ raced'[v] = 0
          /\ Known(disk[v]) => ~Live(v)'
      BY <1>1, <1>3, <2>3, RFacts DEF NoReceipt, Live, RInv, IInv, TypeOK, s
    <3>2. /\ u.receipt = x /\ u.effect = "idle" /\ u.ending = s.ending /\ u.behind = s.behind
          /\ u.timer = s.timer
      BY <1>b, <3>1 DEF TakenUp
    <3>3. VInv(minted, Live(v), tries[v], raced[v], v, s, disk[v])
      BY RFacts DEF s
    <3>4. ~Known(s.ending) /\ ~s.behind /\ s.timer # "retry"
      BY <2>3, <3>1, <3>3 DEF VInv, Stage
    <3>5. /\ s.ending.req \in Nat /\ disk[v].req \in Nat /\ fired[v] \in Nat /\ minted \in Nat
          /\ disk[v].attempt \in Nat /\ MaxAttempts \in Nat
      BY RFacts, SlotTypes, ReceiptTypes, ReminderBounds DEF TypeOK, Requests, None, s
    <3>6. Stage(u, disk[v])
      BY <1>2, <3>1, <3>2, <3>4 DEF Stage, Awaited, Waking
    <3>7. \A c \in calls : ~(c.live /\ c.version = v)
      BY <3>1, RFacts DEF s
    <3>8. Request(minted', v, u, disk[v])
      BY <3>1, <3>2, <3>3, <3>5, <3>7 DEF VInv, Request, Vouches, Accepted
    <3>9. Shown(v, u, disk[v])
      BY <3>1, <3>2, <3>3, <3>5 DEF VInv, Shown, Spoken, Request
    <3>10. Lost(Live(v)', v, u, disk[v])
      <4>1. v <= row.version
        BY <1>1 DEF RInv, MirrorInv, Versions
      <4>2. QED
        BY <1>4, <3>1, <3>2, <3>3, <3>4, <4>1 DEF VInv, Lost, Same, Declined
    <3>11. Effects0(tries'[v], raced'[v], u, disk[v])
      BY <3>1, <3>2, <3>5 DEF Effects0
    <3>12. QED
      BY <3>6, <3>8, <3>9, <3>10, <3>11 DEF VInv
  <2>4. QED
    BY <2>1, <2>2, <2>3
<1> HIDE DEF made
<1>6. u \in Slots /\ Known(u.receipt)
  BY <1>2, <1>b DEF TakenUp
<1>c. PersistOrRetry(v, u, mode, "effect", "save")
  BY <1>1, <1>a DEF s
<1>d. /\ TypeOK /\ acking \subseteq inbox /\ (Live(v)' => Live(v)) /\ "save" \in Timers
      /\ "effect" \in Proceeds
  BY <1>4, RFacts DEF Timers, Proceeds
<1>7. /\ \E t : /\ slot' = [slot EXCEPT ![v] = t]
                /\ VInv(minted', Live(v)', tries'[v], raced'[v], v, t, disk'[v])
      /\ \A w \in Versions : w # v => Remains(w)
  BY <1>c, <1>d, <1>4, <1>5, <1>6, PersistV
<1>8. QED
  BY <1>1, <1>4, <1>7, WorkStep

LEMMA ReceiptTimerV ==
  ASSUME RInv, IInv', MirrorInv', NEW v \in Versions, NEW mode, ReceiptTimer(v, mode)
  PROVE  RInv'
<1> DEFINE s == [slot[v] EXCEPT !.timer = "none"]
<1>1. /\ UNCHANGED <<row, fired, calls, inbox, acking, acked, unsaved, minted, tries, forgotten>>
      /\ Live(v)' = Live(v) /\ TypeOK /\ acking \subseteq inbox
      /\ disk[v] \in Receipts /\ slot[v] \in Slots
      /\ minted \in Nat /\ tries[v] \in Nat /\ raced[v] \in Nat
  BY RFacts DEF ReceiptTimer, cloudVars, wireVars, Live
<1>o. ASSUME NEW w \in Versions, w # v
      PROVE  tries'[w] = tries[w] /\ raced'[w] = raced[w] /\ (w \in forgotten => w \in forgotten')
  BY <1>1, <1>o DEF ReceiptTimer, TypeOK
<1>p. minted' >= minted /\ (disk' = disk => \A w \in Versions : Remains(w))
  BY <1>1 DEF Remains
<1>2. Timed(slot[v], s) /\ s \in Slots /\ s.receipt = slot[v].receipt /\ s.timer = "none"
      /\ s.effect = slot[v].effect
  BY <1>1 DEF Timed, Slots, Timers
<1>3. VInv(minted, Live(v), tries[v], raced[v], v, s, disk[v])
  BY <1>2, TimedV, RFacts
<1>4. CASE slot[v].timer = "effect"
  <2> DEFINE q == IF Reads(mode) THEN TakenBack(v) ELSE raced[v]
             x == [slot[v] EXCEPT !.receipt = Fresh(v, mode)]
             u == [s EXCEPT !.receipt = Fresh(v, mode)]
  <2>1. slot' = [slot EXCEPT ![v] = StartEffect(u)] /\ disk' = disk
        /\ raced' = IF Reads(mode) THEN [raced EXCEPT ![v] = TakenBack(v)] ELSE raced
    BY <1>4 DEF ReceiptTimer
  <2>2. q \in Nat /\ q >= raced[v] /\ (Reads(mode) => q >= TakenBack(v)) /\ raced'[v] = q
        /\ \A w \in Versions : w # v => raced'[w] = raced[w]
    BY <1>1, <2>1 DEF TakenBack, TypeOK
  <2> HIDE DEF q
  <2>3. Fresh(v, mode) \in Receipts
    BY FreshReceipt, RFacts
  <2>4. TakenUp(slot[v], x, Fresh(v, mode), slot[v].effect)
    BY <1>1, <2>3, TakenFields, SlotTypes
  <2>5. VInv(minted, Live(v), tries[v], q, v, x, disk[v])
    BY <2>2, <2>4, FreshSlot
  <2>6. Timed(x, u) /\ u.timer = "none" /\ u \in Slots
    BY <1>1, <2>3 DEF Timed, Slots, Timers
  <2>7. VInv(minted, Live(v), tries[v], q, v, u, disk[v])
    BY <2>5, <2>6, TimedV
  <2> HIDE DEF u
  <2>8. VInv(minted, Live(v), tries[v], q, v, StartEffect(u), disk[v])
    BY <1>1, <2>2, <2>6, <2>7, StartV
  <2>9. VInv(minted', Live(v)', tries'[v], raced'[v], v, StartEffect(u), disk'[v])
    BY <1>1, <2>1, <2>2, <2>8
  <2>10. QED
    BY <1>1, <1>o, <1>p, <2>1, <2>9, WorkStep
<1>5. CASE slot[v].timer \in {"save", "retry"} /\ ~Open(slot[v].receipt)
  <2>1. slot' = [slot EXCEPT ![v] = s] /\ UNCHANGED <<disk, raced>>
    BY <1>2, <1>5 DEF ReceiptTimer
  <2>2. VInv(minted', Live(v)', tries'[v], raced'[v], v, s, disk'[v])
    BY <1>1, <1>3, <2>1
  <2> HIDE DEF s
  <2>3. QED
    BY <1>1, <1>o, <1>p, <2>1, <2>2, WorkStep
<1>6. CASE slot[v].timer \in {"save", "retry"} /\ Open(slot[v].receipt)
  <2>1. /\ raced' = raced /\ Known(s.receipt) /\ TypeOK /\ acking \subseteq inbox
        /\ s \in Slots /\ minted' \in Nat /\ tries'[v] \in Nat /\ raced'[v] \in Nat
        /\ "save" \in Timers /\ "retry" \in Timers /\ (Live(v)' => Live(v))
        /\ "effect" \in Proceeds /\ "retry" \in Proceeds
    BY <1>1, <1>2, <1>6 DEF ReceiptTimer, Open, Timers, Proceeds
  <2>2. slot[v].timer = "save" => PersistOrRetry(v, s, mode, "effect", "save")
    BY <1>2, <1>6 DEF ReceiptTimer
  <2>3. slot[v].timer = "retry" =>
          PersistOrRetry(v, s, mode, "retry", "retry") /\ Told(s, disk[v])
    BY <1>2, <1>6, RFacts DEF ReceiptTimer, VInv, Stage, Told
  <2>a. VInv(minted', Live(v)', tries'[v], raced'[v], v, s, disk[v])
    BY <1>1, <1>3, <2>1
  <2> HIDE DEF s
  <2>4. /\ \E t : /\ slot' = [slot EXCEPT ![v] = t]
                  /\ VInv(minted', Live(v)', tries'[v], raced'[v], v, t, disk'[v])
        /\ \A w \in Versions : w # v => Remains(w)
    <3>1. CASE slot[v].timer = "save"
      BY <2>1, <2>2, <2>a, <3>1, PersistV
    <3>2. CASE slot[v].timer = "retry"
      BY <2>1, <2>3, <2>a, <3>2, PersistV
    <3>3. QED
      BY <1>6, <3>1, <3>2
  <2>6. QED
    BY <1>1, <1>o, <1>p, <2>1, <2>4, WorkStep
<1>7. QED
  BY <1>2, <1>4, <1>5, <1>6 DEF ReceiptTimer

(* A step that leaves all versions aside, or all but v.                    *)
LEMMA OneStep ==
  ASSUME RInv, IInv', MirrorInv', NEW v \in Versions,
         \A w \in Versions : w # v => Aside(w),
         VInv(minted, Live(v), tries[v], raced[v], v, slot[v], disk[v])',
         CallsKnown', acking' \subseteq inbox'
  PROVE  RInv'
<1>1. TypeOK /\ acking \subseteq inbox /\ minted' \in Nat /\ row'.version \in Nat
  BY ReminderBounds DEF RInv, IInv, TypeOK, Rows
<1>2. ASSUME NEW w \in Versions, w # v
      PROVE  VInv(minted, Live(w), tries[w], raced[w], w, slot[w], disk[w])'
  BY <1>1, <1>2, AsideV DEF RInv, VersionsInv
<1>3. QED
  BY <1>2 DEF RInv, VersionsInv

LEMMA AsideStep ==
  ASSUME RInv, IInv', MirrorInv', \A w \in Versions : Aside(w), CallsKnown', acking' \subseteq inbox'
  PROVE  RInv'
<1>1. TypeOK /\ acking \subseteq inbox /\ minted' \in Nat /\ row'.version \in Nat
  BY ReminderBounds DEF RInv, IInv, TypeOK, Rows
<1>2. ASSUME NEW w \in Versions
      PROVE  VInv(minted, Live(w), tries[w], raced[w], w, slot[w], disk[w])'
  BY <1>1, <1>2, AsideV DEF RInv, VersionsInv
<1>3. QED
  BY <1>2 DEF RInv, VersionsInv

(* An effect starts whose attempt is saved.                                *)
LEMMA EffectV ==
  ASSUME NEW m, NEW l, NEW t \in Nat, NEW r \in Nat, NEW v, NEW s \in Slots, NEW d,
         NEW u, NEW e, VInv(m, l, t, r, v, s, d), s.effect = "save", ~s.behind,
         Open(s.receipt), d = s.receipt, TakenUp(s, u, s.receipt, e),
         (e \in Waking /\ Accepted(d)) \/ (e = "fire" /\ ~Accepted(d))
  PROVE  VInv(m, l, t + 1, r, v, u, d)
<1>1. Stage(u, d)
  BY DEF VInv, Stage, TakenUp, Told, Untold, Awaited, Waking, Open
<1>2. Request(m, v, u, d) /\ Shown(v, u, d)
  BY DEF VInv, Request, Shown, TakenUp, Meets, Waking
<1>3. Lost(l, v, u, d)
  BY DEF VInv, Lost, TakenUp, Declined, Same, Waking
<1>4. Effects0(t + 1, r, u, d)
  BY SlotTypes, ReminderBounds DEF VInv, Effects0, TakenUp, Waking
<1>5. QED
  BY <1>1, <1>2, <1>3, <1>4 DEF VInv

(* What a started effect's slot tells.                                     *)
LEMMA StartedV ==
  ASSUME RInv, NEW v \in Versions, NEW x \in Receipts, slot[v].effect = "save",
         ~slot[v].behind, x = slot[v].receipt, Open(Merged(v, x)), Saves(v, x),
         NEW e \in Effects, (e \in Waking /\ Accepted(x)) \/ (e = "fire" /\ ~Accepted(x)), NEW u,
         TakenUp(Saved(v, slot[v]), u, Merged(v, x), e)
  PROVE  /\ VInv(minted, Live(v), tries[v] + 1, raced[v], v, u, disk'[v])
         /\ u.receipt = disk'[v] /\ u.receipt.req = x.req /\ u.receipt.server = x.server
         /\ Open(u.receipt) /\ Open(x)
         /\ \A w \in Versions : w # v => Remains(w)
<1> DEFINE s == slot[v]
           y == Saved(v, s)
<1>1. /\ TypeOK /\ acking \subseteq inbox /\ s \in Slots /\ disk[v] \in Receipts
      /\ disk \in [Versions -> Receipts] /\ calls \subseteq Calls
      /\ minted \in Nat /\ tries[v] \in Nat /\ raced[v] \in Nat
      /\ VInv(minted, Live(v), tries[v], raced[v], v, s, disk[v])
  BY RFacts
<1>2. /\ Stored(v, s.receipt, disk'[v]) /\ \A w \in Versions : w # v => Remains(w)
  BY <1>1, SavesStored
<1>3. /\ y \in Slots /\ y.receipt = Merged(v, x) /\ y.effect = "save" /\ y.ending = s.ending
      /\ ~y.behind /\ y.timer = s.timer
  BY <1>1, SavedFields
<1>4. /\ Open(x) /\ Known(x) /\ Merged(v, x).req = x.req /\ Merged(v, x).server = x.server
      /\ Merged(v, x).end # "consumed"
  BY <1>1, MergedReceipt DEF Open
<1>5. disk'[v] = y.receipt
  BY <1>2, <1>3, <1>4 DEF Stored
<1>6. VInv(minted, Live(v), tries[v], raced[v], v, y, disk'[v])
  BY <1>1, <1>2, <1>4, SavedV
<1>7. TakenUp(y, u, y.receipt, e)
  BY <1>3
<1> HIDE DEF y
<1>8. VInv(minted, Live(v), tries[v] + 1, raced[v], v, u, disk'[v])
  BY <1>1, <1>3, <1>4, <1>5, <1>6, <1>7, EffectV DEF Accepted
<1>9. QED
  BY <1>2, <1>3, <1>4, <1>5, <1>7, <1>8 DEF TakenUp

LEMMA SaveAttemptV ==
  ASSUME RInv, IInv', MirrorInv', NEW v \in Versions, NEW mode \in Modes, NEW minting,
         SaveAttempt(v, mode, minting)
  PROVE  RInv'
<1> DEFINE s == slot[v]
<1>1. /\ UNCHANGED <<row, fired, acking, acked, unsaved, minted, forgotten, raced>>
      /\ s.effect = "save" /\ ~s.behind /\ s \in Slots /\ s.receipt \in Receipts
      /\ TypeOK /\ TypeOK' /\ acking \subseteq inbox /\ slot \in [Versions -> Slots]
      /\ disk \in [Versions -> Receipts] /\ disk[v] \in Receipts /\ calls \subseteq Calls
      /\ minted \in Nat /\ tries[v] \in Nat /\ raced[v] \in Nat /\ tries \in [Versions -> Nat]
      /\ VInv(minted, Live(v), tries[v], raced[v], v, s, disk[v])
      /\ Known(s.receipt)
  BY RFacts, SlotTypes DEF SaveAttempt, cloudVars, RInv, IInv, TypeOK
<1>2. minted' >= minted
  BY <1>1
<1>3. CASE ~Writes(mode)
  <2> DEFINE y == NotSaved(s, "save")
             u == [y EXCEPT !.effect = "idle"]
  <2>1. slot' = [slot EXCEPT ![v] = u] /\ UNCHANGED <<disk, calls, inbox, tries>>
    BY <1>3 DEF SaveAttempt
  <2>2. Timed(s, y) /\ y \in Slots /\ VInv(minted, Live(v), tries[v], raced[v], v, y, disk[v])
    BY <1>1, NotSavedV, FailedTimes DEF Timers
  <2>3. TakenUp(y, u, y.receipt, "idle") /\ ~y.behind
    BY <1>1, <2>2, TakenFields DEF Effects, Timed
  <2> HIDE DEF y, u
  <2>4. VInv(minted, Live(v), tries[v], raced[v], v, u, disk[v])
    BY <1>1, <2>2, <2>3, IdleV
  <2>5. VInv(minted', Live(v)', tries'[v], raced'[v], v, u, disk'[v])
    BY <1>1, <2>1, <2>4 DEF Live
  <2>6. \A w \in Versions : Remains(w)
    BY <2>1 DEF Remains
  <2>7. QED
    BY <1>1, <1>2, <2>1, <2>5, <2>6, WorkStep
<1>4. CASE Writes(mode) /\ slot' = [slot EXCEPT ![v] = [Saved(v, s) EXCEPT !.effect = "idle"]]
             /\ UNCHANGED <<calls, inbox, tries>>
  <2> DEFINE y == Saved(v, s)
             u == [y EXCEPT !.effect = "idle"]
  <2>1. Saves(v, s.receipt)
    BY <1>4 DEF SaveAttempt
  <2>2. /\ Stored(v, s.receipt, disk'[v]) /\ disk'[v] \in Receipts
        /\ \A w \in Versions : w # v => Remains(w)
    BY <1>1, <2>1, SavesStored
  <2>3. VInv(minted, Live(v), tries[v], raced[v], v, y, disk'[v]) /\ y \in Slots /\ ~y.behind
    BY <1>1, <2>2, SavedV, SavedFields
  <2>4. TakenUp(y, u, y.receipt, "idle")
    BY <2>3, TakenFields, SlotTypes DEF Effects
  <2>a. slot' = [slot EXCEPT ![v] = u]
    BY <1>4
  <2> HIDE DEF y, u
  <2>5. VInv(minted, Live(v), tries[v], raced[v], v, u, disk'[v])
    BY <1>1, <2>2, <2>3, <2>4, IdleV
  <2>6. VInv(minted', Live(v)', tries'[v], raced'[v], v, u, disk'[v])
    BY <1>1, <1>4, <2>5 DEF Live
  <2>7. QED
    BY <1>1, <1>2, <1>4, <2>2, <2>6, <2>a, WorkStep
<1>5. ASSUME NEW e \in Effects, Writes(mode), Open(Merged(v, s.receipt)),
             (e \in Waking /\ Accepted(s.receipt)) \/ (e = "fire" /\ ~Accepted(s.receipt)),
             slot' = [slot EXCEPT ![v] = [Saved(v, s) EXCEPT !.effect = e]],
             tries' = [tries EXCEPT ![v] = @ + 1],
             \/ e = "refused" /\ UNCHANGED <<calls, inbox>>
             \/ e = "wake" /\ calls' = calls /\ inbox' = inbox \cup {v}
             \/ /\ e = "fire" /\ inbox' = inbox
                /\ calls' = calls \cup {[version |-> v, req |-> s.receipt.req, live |-> TRUE]}
      PROVE  RInv'
  <2> DEFINE u == [Saved(v, s) EXCEPT !.effect = e]
  <2>1. Saves(v, s.receipt)
    BY <1>5 DEF SaveAttempt
  <2>2. /\ VInv(minted, Live(v), tries[v] + 1, raced[v], v, u, disk'[v])
        /\ u.receipt = disk'[v] /\ u.receipt.req = s.receipt.req
        /\ u.receipt.server = s.receipt.server
        /\ Open(u.receipt) /\ Open(s.receipt)
        /\ \A w \in Versions : w # v => Remains(w)
    <3>a. Saved(v, s) \in Slots /\ Saved(v, s).receipt = Merged(v, s.receipt)
          /\ Merged(v, s.receipt) \in Receipts
      BY <1>1, SavedFields, MergedReceipt
    <3>1. TakenUp(Saved(v, slot[v]), u, Merged(v, s.receipt), e)
      BY <3>a, TakenFields
    <3>2. PICK x \in Receipts : x = slot[v].receipt
      BY <1>1
    <3>3. /\ slot[v].effect = "save" /\ ~slot[v].behind /\ Saves(v, x) /\ Open(Merged(v, x))
          /\ (e \in Waking /\ Accepted(x)) \/ (e = "fire" /\ ~Accepted(x))
      BY <1>1, <1>5, <2>1, <3>2
    <3> HIDE DEF u
    <3>4. /\ VInv(minted, Live(v), tries[v] + 1, raced[v], v, u, disk'[v])
          /\ u.receipt = disk'[v] /\ u.receipt.req = x.req /\ u.receipt.server = x.server
          /\ Open(u.receipt) /\ Open(x)
          /\ \A w \in Versions : w # v => Remains(w)
      BY <3>1, <3>2, <3>3, StartedV
    <3>5. QED
      BY <3>2, <3>4
  <2>3. slot'[v] = u /\ tries'[v] = tries[v] + 1
    BY <1>1, <1>5
  <2> HIDE DEF u
  <2>4. ASSUME NEW w \in Versions, w # v PROVE Aside(w)
    <3>1. slot'[w] = slot[w] /\ tries'[w] = tries[w] /\ Remains(w)
      BY <1>1, <1>5, <2>2, <2>4
    <3>2. \A c \in calls' : c.version = w => c \in calls
      BY <1>5, <2>4
    <3>3. (w \in inbox') = (w \in inbox)
      BY <1>5, <2>4
    <3>4. /\ fired'[w] = fired[w] /\ row' = row /\ row.version \in Nat
          /\ (w \in acking') = (w \in acking) /\ (w \in acked') = (w \in acked)
          /\ (w \in unsaved') = (w \in unsaved) /\ (w \in forgotten') = (w \in forgotten)
          /\ raced'[w] = raced[w]
      BY <1>1 DEF TypeOK, Rows
    <3>5. QED
      BY <1>2, <3>1, <3>2, <3>3, <3>4 DEF Aside, Past, Current, Seen, Live
  <2>5. Stage(slot[v], disk[v])' /\ Effects0(tries[v], raced[v], slot[v], disk[v])'
    BY <1>1, <2>2, <2>3 DEF VInv, Stage, Effects0, Told, Untold, Open, Known, Accepted
  <2>6. Request(minted, v, slot[v], disk[v])'
    <3>1. \A c \in calls' : c.live /\ c.version = v => Meets(c.req, u, disk'[v])
      BY <1>1, <1>5, <2>2 DEF VInv, Request, Meets
    <3>2. QED
      BY <1>1, <2>2, <2>3, <3>1 DEF VInv, Request, Vouches, Meets, Accepted, Open, Known
  <2>7. (v \in Seen => v \in Seen') /\ (Live(v)' => Live(v))
    BY <1>1, <1>5 DEF Seen, Live
  <2>8. Shown(v, slot[v], disk[v])'
    <3>1. CASE inbox' = inbox
      BY <1>1, <2>2, <2>3, <3>1 DEF VInv, Shown, Spoken, Seen, Open, Known, Accepted
    <3>2. CASE e = "wake" /\ inbox' = inbox \cup {v}
      <4>1. Accepted(u.receipt) /\ fired[v] = u.receipt.req /\ fired[v] # None /\ v \in Seen'
        BY <1>5, <2>2, <3>2 DEF VInv, Request, Vouches, Accepted, Open, Known, Waking, Seen
      <4>2. v \notin (acking' \cup acked') \ unsaved'
        BY <1>1, <2>2, <4>1 DEF VInv, Shown, Spoken, Seen
      <4>3. QED
        BY <1>1, <2>2, <2>3, <4>1, <4>2 DEF Shown, Spoken, Open, Known, Accepted
    <3>3. QED
      BY <1>5, <3>1, <3>2
  <2>9. Lost(Live(v), v, slot[v], disk[v])'
    <3>1. \A c \in calls' : c.version = v => c \in calls \/ c.req = disk'[v].req
      BY <1>5, <2>2
    <3>2. QED
      BY <1>1, <2>2, <2>3, <2>7, <3>1
         DEF VInv, Lost, Same, Declined, Past, Current, Known
  <2>10. CallsKnown' /\ acking' \subseteq inbox'
    <3>1. s.receipt.req <= minted /\ v <= row.version
      BY <1>1 DEF VInv, Request, Lost
    <3>2. QED
      BY <1>1, <1>5, <3>1 DEF RInv, CallsKnown
  <2>11. QED
    BY <2>4, <2>5, <2>6, <2>8, <2>9, <2>10, OneStep DEF VInv
<1>6. QED
  <2>1. Saved(v, s).receipt = Merged(v, s.receipt)
    BY <1>1, SavedFields
  <2>2. {"wake", "refused", "fire"} \subseteq Effects /\ {"wake", "refused"} = Waking
    BY DEF Effects, Waking
  <2>3. QED
    BY <1>3, <1>4, <1>5, <2>1, <2>2 DEF SaveAttempt, Accepted

(* The slot an answer is applied to: the freshest receipt, before (x) and  *)
(* after (s) the effect is over.                                           *)
LEMMA AnsweredSlot ==
  ASSUME RInv, NEW v \in Versions, NEW mode, slot[v].effect \notin {"idle", "save"}
  PROVE  LET x == [slot[v] EXCEPT !.receipt = Fresh(v, mode)]
             s == [slot[v] EXCEPT !.effect = "idle", !.receipt = Fresh(v, mode)]
         IN  /\ x \in Slots /\ s \in Slots /\ x.receipt = Fresh(v, mode) /\ x.effect = slot[v].effect
             /\ TakenUp(x, s, x.receipt, "idle") /\ x.receipt \in Receipts
             /\ VInv(minted, Live(v), tries[v], raced[v], v, x, disk[v])
             /\ VInv(minted, Live(v), tries[v], raced[v], v, s, disk[v])
<1> DEFINE x == [slot[v] EXCEPT !.receipt = Fresh(v, mode)]
           s == [slot[v] EXCEPT !.effect = "idle", !.receipt = Fresh(v, mode)]
<1>1. /\ slot[v] \in Slots /\ disk[v] \in Receipts /\ minted \in Nat /\ tries[v] \in Nat
      /\ raced[v] \in Nat /\ Fresh(v, mode) \in Receipts
      /\ VInv(minted, Live(v), tries[v], raced[v], v, slot[v], disk[v])
  BY RFacts, FreshReceipt
<1>2. TakenUp(slot[v], x, Fresh(v, mode), slot[v].effect)
  BY <1>1, TakenFields, SlotTypes
<1>3. TakenUp(slot[v], s, Fresh(v, mode), "idle")
  BY <1>1, TakenFields DEF Effects
<1> HIDE DEF x, s
<1>4. TakenUp(x, s, x.receipt, "idle")
  BY <1>2, <1>3 DEF TakenUp
<1>5. TakenBack(v) = raced[v] /\ raced[v] >= raced[v]
  BY <1>1 DEF TakenBack
<1>6. VInv(minted, Live(v), tries[v], raced[v], v, x, disk[v])
  BY <1>1, <1>2, <1>5, FreshSlot
<1>7. ~x.behind /\ x \in Slots
  BY <1>1, <1>2 DEF VInv, Stage, TakenUp
<1>8. VInv(minted, Live(v), tries[v], raced[v], v, s, disk[v])
  BY <1>1, <1>4, <1>6, <1>7, IdleV
<1>9. x \in Slots /\ s \in Slots /\ x.receipt = Fresh(v, mode) /\ x.effect = slot[v].effect
      /\ x.receipt \in Receipts
  BY <1>1, <1>2, <1>3 DEF TakenUp
<1>10. QED
  BY <1>4, <1>6, <1>8, <1>9 DEF x, s

(* A step that ends in #persistOrRetry.                                    *)
LEMMA PersistStep ==
  ASSUME RInv, IInv', MirrorInv', NEW v \in Versions, NEW s \in Slots, NEW mode,
         UNCHANGED <<row, fired, calls, inbox, acking, acked, unsaved, minted, forgotten, tries,
                     raced>>,
         VInv(minted, Live(v), tries[v], raced[v], v, s, disk[v]), Known(s.receipt),
         NEW proceed \in Proceeds, NEW timer \in Timers,
         PersistOrRetry(v, s, mode, proceed, timer),
         proceed = "retry" => s.effect = "idle" \/ Told(s, disk[v]),
         timer = "retry" => Told(s, disk[v])
  PROVE  RInv'
<1>1. /\ TypeOK /\ acking \subseteq inbox /\ minted' \in Nat /\ tries'[v] \in Nat
      /\ raced'[v] \in Nat /\ (Live(v)' => Live(v)) /\ minted' >= minted
      /\ VInv(minted', Live(v)', tries'[v], raced'[v], v, s, disk[v])
  BY RFacts DEF Live
<1>2. /\ \E t : /\ slot' = [slot EXCEPT ![v] = t]
                /\ VInv(minted', Live(v)', tries'[v], raced'[v], v, t, disk'[v])
      /\ \A w \in Versions : w # v => Remains(w)
  BY <1>1, PersistV
<1>3. QED
  BY <1>1, <1>2, WorkStep

LEMMA WakeAnsweredV ==
  ASSUME RInv, IInv', MirrorInv', NEW v \in Versions, NEW mode, WakeAnswered(v, mode)
  PROVE  RInv'
<1> DEFINE x == [slot[v] EXCEPT !.receipt = Fresh(v, mode)]
           s == [slot[v] EXCEPT !.effect = "idle", !.receipt = Fresh(v, mode)]
<1>1. /\ UNCHANGED <<row, fired, calls, inbox, acking, acked, unsaved, minted, forgotten, tries,
                     raced>>
      /\ slot[v].effect \in Waking
      /\ IF ~Open(s.receipt)
           THEN slot' = [slot EXCEPT ![v] = s] /\ UNCHANGED disk
         ELSE IF slot[v].effect = "wake"
           THEN PersistOrRetry(v, [s EXCEPT !.receipt.end = "woken"], mode, "stop", "none")
           ELSE PersistOrRetry(v, s, mode, "retry", "retry")
  BY DEF WakeAnswered, cloudVars, wireVars, historyVars, Waking
<1>2. /\ x \in Slots /\ s \in Slots /\ x.effect = slot[v].effect
      /\ TakenUp(x, s, x.receipt, "idle") /\ x.receipt \in Receipts
      /\ VInv(minted, Live(v), tries[v], raced[v], v, x, disk[v])
      /\ VInv(minted, Live(v), tries[v], raced[v], v, s, disk[v])
  BY <1>1, AnsweredSlot DEF Waking
<1>a. /\ "effect" \in Proceeds /\ "retry" \in Proceeds
      /\ "stop" \in Proceeds /\ "none" \in Timers /\ "retry" \in Timers
      /\ disk[v] \in Receipts /\ minted \in Nat
  BY RFacts DEF Timers, Proceeds
<1>3. CASE ~Open(s.receipt)
  <2>1. slot' = [slot EXCEPT ![v] = s] /\ disk' = disk
    BY <1>1, <1>3
  <2> HIDE DEF x, s
  <2>2. VInv(minted', Live(v)', tries'[v], raced'[v], v, s, disk'[v]) /\ minted' >= minted
        /\ \A w \in Versions : Remains(w)
    BY <1>1, <1>2, <1>a, <2>1 DEF Live, Remains
  <2>3. QED
    BY <1>1, <2>1, <2>2, WorkStep
<1>4. CASE Open(s.receipt) /\ slot[v].effect = "wake"
  <2> DEFINE z == [s EXCEPT !.receipt.end = "woken"]
             y == [s.receipt EXCEPT !.end = "woken"]
  <2>1. PersistOrRetry(v, z, mode, "stop", "none")
    BY <1>1, <1>4
  <2>2. y \in Receipts /\ y.req = s.receipt.req /\ y.server = s.receipt.server /\ y.end = "woken"
    BY <1>2, SlotTypes DEF Receipts, Ends
  <2>3. z = [s EXCEPT !.receipt = y]
    BY <1>2 DEF Slots
  <2>4. s \in Slots /\ Open(s.receipt) /\ s.effect = "idle"
    BY <1>2, <1>4 DEF TakenUp
  <2> HIDE DEF x, s, y, z
  <2>5. TakenUp(s, z, y, "idle")
    BY <2>2, <2>3, <2>4, TakenFields, SlotTypes
  <2>6. VInv(minted, Live(v), tries[v], raced[v], v, z, disk[v])
    BY <1>2, <1>a, <2>2, <2>4, <2>5, WokenV
  <2>7. z \in Slots /\ Known(z.receipt)
    BY <2>2, <2>4, <2>5 DEF TakenUp, Open, Known
  <2>8. QED
    BY <1>1, <1>a, <2>1, <2>6, <2>7, PersistStep
<1>5. CASE Open(s.receipt) /\ slot[v].effect # "wake"
  <2>1. PersistOrRetry(v, s, mode, "retry", "retry")
    BY <1>1, <1>5
  <2> HIDE DEF x, s
  <2>2. Known(s.receipt) /\ s.effect = "idle" /\ s.receipt = x.receipt
    BY <1>2, <1>5 DEF TakenUp, Open
  <2>3. Told(s, disk[v])
    BY <1>1, <1>2, <2>2 DEF VInv, Stage, Told
  <2>4. QED
    BY <1>1, <1>2, <1>a, <2>1, <2>2, <2>3, PersistStep
<1>6. QED
  BY <1>3, <1>4, <1>5

LEMMA FireAnsweredV ==
  ASSUME RInv, IInv', MirrorInv', NEW v \in Versions, NEW mode, FireAnswered(v, mode)
  PROVE  RInv'
<1> DEFINE x == [slot[v] EXCEPT !.receipt = Fresh(v, mode)]
           s == [slot[v] EXCEPT !.effect = "idle", !.receipt = Fresh(v, mode)]
           With(server, end) == [s EXCEPT !.receipt.server = server, !.receipt.end = end]
           result == slot[v].effect
           Stays == UNCHANGED <<mirror, forgotten, displaced>>
<1>1. UNCHANGED <<row, fired, calls, inbox, acking, acked, unsaved, minted, tries, raced>>
  BY DEF FireAnswered, cloudVars, wireVars
<1>2. \/ ~Open(s.receipt) /\ slot' = [slot EXCEPT ![v] = s] /\ UNCHANGED disk /\ Stays
      \/ result = "failed" /\ Open(s.receipt) /\ slot' = [slot EXCEPT ![v] = Retry(s)]
           /\ UNCHANGED disk /\ Stays
      \/ result = "accepted" /\ Open(s.receipt) /\ Stays
           /\ PersistOrRetry(v, With("accepted", "open"), mode, "effect", "save")
      \/ result = "obsolete" /\ Open(s.receipt) /\ Stays
           /\ PersistOrRetry(v, With("obsolete", "declined"), mode, "stop", "none")
      \/ result = "premature" /\ Open(s.receipt)
           /\ \/ Defer(v, With("premature", "open"), mode)
              \/ Wait(v, With("premature", "open"), mode)
  BY DEF FireAnswered
<1>3. result \in {"accepted", "premature", "obsolete", "failed"}
  BY DEF FireAnswered
<1>4. /\ x \in Slots /\ s \in Slots /\ x.effect = result
      /\ TakenUp(x, s, x.receipt, "idle") /\ x.receipt \in Receipts
      /\ VInv(minted, Live(v), tries[v], raced[v], v, x, disk[v])
      /\ VInv(minted, Live(v), tries[v], raced[v], v, s, disk[v])
  BY <1>3, AnsweredSlot
<1>5. /\ "effect" \in Proceeds /\ "stop" \in Proceeds
      /\ "none" \in Timers /\ "save" \in Timers /\ "effect" \in Timers
      /\ disk[v] \in Receipts /\ minted \in Nat /\ minted' >= minted
      /\ tries[v] \in Nat /\ raced[v] \in Nat
      /\ TypeOK /\ acking \subseteq inbox /\ disk \in [Versions -> Receipts]
      /\ calls \subseteq Calls
  BY <1>1, RFacts DEF Timers, Proceeds
<1>6. s.effect = "idle" /\ s.receipt = x.receipt
  BY <1>4 DEF TakenUp
<1>7. ASSUME NEW server \in Results, NEW end \in Ends
      PROVE  \E y \in Receipts :
               /\ TakenUp(s, With(server, end), y, "idle")
               /\ TakenUp(x, With(server, end), y, "idle")
               /\ y.req = s.receipt.req /\ y.attempt = s.receipt.attempt
               /\ y.server = server /\ y.end = end
  <2> DEFINE y == [s.receipt EXCEPT !.server = server, !.end = end]
  <2>1. /\ y \in Receipts /\ y.req = s.receipt.req /\ y.attempt = s.receipt.attempt
        /\ y.server = server /\ y.end = end
    BY <1>4, <1>6 DEF Receipts
  <2>2. With(server, end) = [s EXCEPT !.receipt = y]
    BY <1>4 DEF Slots
  <2> HIDE DEF y, s, x
  <2>3. TakenUp(s, With(server, end), y, "idle")
    BY <1>4, <1>6, <2>1, <2>2, TakenFields, SlotTypes
  <2>4. TakenUp(x, With(server, end), y, "idle")
    BY <1>4, <2>3 DEF TakenUp
  <2>5. QED
    BY <2>1, <2>3, <2>4
<1>8. {"accepted", "premature", "obsolete"} \subseteq Results /\ {"open", "declined"} \subseteq Ends
  BY DEF Results, Ends
<1>9. CASE Stays /\ UNCHANGED disk
            /\ \E u : /\ slot' = [slot EXCEPT ![v] = u]
                      /\ VInv(minted, Live(v), tries[v], raced[v], v, u, disk[v])
  <2>1. PICK u : /\ slot' = [slot EXCEPT ![v] = u]
                 /\ VInv(minted, Live(v), tries[v], raced[v], v, u, disk[v])
    BY <1>9
  <2>2. VInv(minted', Live(v)', tries'[v], raced'[v], v, u, disk'[v])
        /\ \A w \in Versions : Remains(w)
    BY <1>1, <1>9, <2>1 DEF Live, Remains
  <2>3. QED
    BY <1>1, <1>5, <1>9, <2>1, <2>2, WorkStep
<1>10. CASE ~Open(s.receipt) /\ slot' = [slot EXCEPT ![v] = s] /\ UNCHANGED disk /\ Stays
  BY <1>4, <1>9, <1>10
<1>11. CASE Open(s.receipt) /\ slot' = [slot EXCEPT ![v] = Retry(s)] /\ UNCHANGED disk /\ Stays
  <2>1. VInv(minted, Live(v), tries[v], raced[v], v, Retry(s), disk[v])
    BY <1>4, <1>5, <1>6, RetryV
  <2>2. QED
    BY <1>9, <1>11, <2>1
<1>12. ASSUME NEW server \in Results, NEW end \in Ends, Open(s.receipt), result = server,
              \/ server \in {"accepted", "premature"} /\ end = "open"
              \/ server = "obsolete" /\ end = "declined"
       PROVE  /\ With(server, end) \in Slots
              /\ VInv(minted, Live(v), tries[v], raced[v], v, With(server, end), disk[v])
              /\ Known(With(server, end).receipt)
              /\ ~Known(With(server, end).ending) /\ ~With(server, end).behind
              /\ With(server, end).effect = "idle" /\ With(server, end).timer # "retry"
              /\ Open(disk[v]) /\ disk[v].req = With(server, end).receipt.req
  <2> DEFINE u == With(server, end)
  <2>a. \E y \in Receipts :
               /\ TakenUp(s, u, y, "idle")
               /\ TakenUp(x, u, y, "idle")
               /\ y.req = s.receipt.req /\ y.attempt = s.receipt.attempt
               /\ y.server = server /\ y.end = end
    BY <1>7
  <2> HIDE DEF u
  <2>1. PICK y \in Receipts :
               /\ TakenUp(x, u, y, "idle")
               /\ y.req = x.receipt.req /\ y.attempt = x.receipt.attempt
               /\ y.server = server /\ y.end = end
    BY <1>6, <2>a
  <2>2. /\ TakenUp(x, u, y, "idle") /\ Open(x.receipt) /\ x.effect = server
    BY <1>4, <1>6, <1>12, <2>1
  <2> HIDE DEF x, s
  <2>3. VInv(minted, Live(v), tries[v], raced[v], v, u, disk[v])
    BY <1>4, <1>5, <1>12, <2>1, <2>2, AnswerV
  <2>4. /\ ~Known(x.ending) /\ ~x.behind /\ x.timer # "retry"
        /\ Open(disk[v]) /\ disk[v].req = x.receipt.req
    BY <1>4, <1>12, <2>2 DEF VInv, Stage, Awaited, Waking, Untold, Told, Accepted
  <2>5. QED
    BY <2>1, <2>2, <2>3, <2>4 DEF TakenUp, u, Open, Known
<1>13. CASE result = "accepted" /\ Open(s.receipt) /\ Stays
             /\ PersistOrRetry(v, With("accepted", "open"), mode, "effect", "save")
  <2> DEFINE u == With("accepted", "open")
  <2>1. /\ u \in Slots /\ Known(u.receipt) /\ PersistOrRetry(v, u, mode, "effect", "save")
        /\ VInv(minted, Live(v), tries[v], raced[v], v, u, disk[v])
        /\ UNCHANGED forgotten
    BY <1>8, <1>12, <1>13
  <2> HIDE DEF u, s, x
  <2>2. QED
    BY <1>1, <1>5, <2>1, PersistStep
<1>14. CASE result = "obsolete" /\ Open(s.receipt) /\ Stays
             /\ PersistOrRetry(v, With("obsolete", "declined"), mode, "stop", "none")
  <2> DEFINE u == With("obsolete", "declined")
  <2>1. /\ u \in Slots /\ Known(u.receipt) /\ PersistOrRetry(v, u, mode, "stop", "none")
        /\ VInv(minted, Live(v), tries[v], raced[v], v, u, disk[v])
        /\ UNCHANGED forgotten
    BY <1>8, <1>12, <1>14
  <2> HIDE DEF u, s, x
  <2>2. QED
    BY <1>1, <1>5, <2>1, PersistStep
<1>15. CASE result = "premature" /\ Open(s.receipt)
             /\ (Defer(v, With("premature", "open"), mode) \/ Wait(v, With("premature", "open"), mode))
  <2> DEFINE u == With("premature", "open")
  <2>1. /\ u \in Slots /\ Known(u.receipt) /\ ~Known(u.ending) /\ ~u.behind /\ u.effect = "idle"
        /\ u.timer # "retry" /\ Open(disk[v]) /\ disk[v].req = u.receipt.req
        /\ VInv(minted, Live(v), tries[v], raced[v], v, u, disk[v])
        /\ Defer(v, u, mode) \/ Wait(v, u, mode)
    BY <1>8, <1>12, <1>15
  <2> HIDE DEF u, s, x
  <2>2. CASE Defer(v, u, mode) /\ ~Writes(mode)
    BY <1>9, <2>1, <2>2 DEF Defer
  <2>3. CASE Wait(v, u, mode) /\ ~Writes(mode)
    <3>1. VInv(minted, Live(v), tries[v], raced[v], v, Failed(u), disk[v]) /\ Failed(u) \in Slots
      BY <1>5, <2>1, NotSavedV
    <3>2. VInv(minted, Live(v), tries[v], raced[v], v, Arm(Failed(u), "effect"), disk[v])
      BY <1>5, <3>1, ArmV
    <3>3. QED
      BY <1>9, <2>3, <3>2 DEF Wait
  <2>4. CASE Wait(v, u, mode) /\ Writes(mode)
    <3> DEFINE y == Saved(v, u)
    <3>1. /\ Saves(v, u.receipt) /\ slot' = [slot EXCEPT ![v] = Arm(y, "effect")] /\ Stays
      BY <2>4 DEF Wait
    <3>2. /\ Stored(v, u.receipt, disk'[v]) /\ disk'[v] \in Receipts
          /\ \A w \in Versions : w # v => Remains(w)
      BY <1>5, <2>1, <3>1, SavesStored, SlotTypes
    <3>3. VInv(minted, Live(v), tries[v], raced[v], v, y, disk'[v]) /\ y \in Slots
      <4>1. (Live(v) => Live(v)) /\ acking \subseteq inbox /\ calls \subseteq Calls
            /\ disk[v] \in Receipts /\ minted \in Nat /\ tries[v] \in Nat /\ raced[v] \in Nat
        BY <1>5
      <4>2. QED
        BY <2>1, <3>2, <4>1, SavedV
    <3> HIDE DEF y
    <3>4. VInv(minted, Live(v), tries[v], raced[v], v, Arm(y, "effect"), disk'[v])
      BY <1>5, <3>3, ArmV
    <3>5. VInv(minted', Live(v)', tries'[v], raced'[v], v, Arm(y, "effect"), disk'[v])
      BY <1>1, <3>1, <3>4 DEF Live
    <3>6. QED
      BY <1>1, <1>5, <3>1, <3>2, <3>5, WorkStep
  <2>5. CASE Defer(v, u, mode) /\ Writes(mode)
    <3> DEFINE z == [u EXCEPT !.receipt = NoReceipt]
    <3>1. /\ disk' = [disk EXCEPT ![v] = NoReceipt] /\ slot' = [slot EXCEPT ![v] = z]
          /\ forgotten' = IF u.receipt.req \in {fired[v]} \cup {c.req : c \in calls}
                            THEN forgotten \cup {v} ELSE forgotten
      BY <2>5 DEF Defer
    <3>2. disk'[v] = NoReceipt /\ \A w \in Versions : w # v => Remains(w)
      BY <1>5, <3>1 DEF Remains
    <3>3. TakenUp(u, z, NoReceipt, "idle")
      BY <2>1, NoReceiptType, TakenFields, SlotTypes
    <3> HIDE DEF z
    <3>4. /\ z.receipt = NoReceipt /\ z.effect = "idle" /\ ~Known(z.ending) /\ ~z.behind
          /\ z.timer # "retry" /\ z.ending = u.ending
      BY <2>1, <3>3 DEF TakenUp
    <3>5. Stage(z, NoReceipt)
      BY <3>4, NoReceiptFields DEF Stage, Awaited, Waking
    <3>6. Request(minted, v, z, NoReceipt)
      BY <1>5, <2>1, <3>4, NoReceiptFields DEF VInv, Request, Vouches, Meets
    <3>7. Shown(v, z, NoReceipt)
      BY <2>1, <3>4, NoReceiptFields DEF VInv, Shown, Spoken
    <3>8. ASSUME Live(v)' PROVE fired[v] = None /\ \A c \in calls : c.version # v
      <4>1. Live(v) /\ u.receipt.req # fired[v] /\ \A c \in calls : c.req # u.receipt.req
        BY <1>1, <3>1, <3>8 DEF Live
      <4>2. QED
        BY <2>1, <4>1 DEF VInv, Lost
    <3>9. Lost(Live(v)', v, z, NoReceipt)
      BY <3>4, <3>8, NoReceiptFields DEF Lost, Same, Declined
    <3>10. Effects0(tries[v], raced[v], z, NoReceipt)
      BY <2>1, <3>4, NoReceiptFields DEF VInv, Effects0
    <3>11. VInv(minted', Live(v)', tries'[v], raced'[v], v, z, disk'[v])
      BY <1>1, <3>2, <3>5, <3>6, <3>7, <3>9, <3>10 DEF VInv
    <3>12. \A w \in Versions : w \in forgotten => w \in forgotten'
      BY <3>1
    <3>13. QED
      BY <1>1, <1>5, <3>1, <3>2, <3>11, <3>12, WorkStep
  <2>6. QED
    BY <2>1, <2>2, <2>3, <2>4, <2>5
<1>16. QED
  BY <1>2, <1>10, <1>11, <1>13, <1>14, <1>15

LEMMA RefuseWakeV ==
  ASSUME RInv, IInv', MirrorInv', NEW v \in Versions, RefuseWake(v)
  PROVE  RInv'
<1> DEFINE u == [slot[v] EXCEPT !.effect = "refused"]
<1>1. /\ UNCHANGED <<row, fired, calls, inbox, acking, acked, unsaved, minted, forgotten, tries,
                     raced, disk>>
      /\ slot[v].effect = "wake" /\ slot' = [slot EXCEPT ![v] = u]
      /\ slot[v] \in Slots /\ disk[v] \in Receipts /\ minted \in Nat
      /\ VInv(minted, Live(v), tries[v], raced[v], v, slot[v], disk[v])
  BY RFacts DEF RefuseWake, cloudVars, wireVars, clockVars, historyVars
<1>2. TakenUp(slot[v], u, slot[v].receipt, "refused")
  BY <1>1, TakenFields, SlotTypes DEF Effects
<1> HIDE DEF u
<1>3. /\ Stage(u, disk[v]) /\ Request(minted, v, u, disk[v]) /\ Shown(v, u, disk[v])
      /\ Lost(Live(v), v, u, disk[v]) /\ Effects0(tries[v], raced[v], u, disk[v])
  <2>1. Stage(u, disk[v])
    BY <1>1, <1>2 DEF VInv, Stage, TakenUp, Told, Awaited, Waking
  <2>2. Request(minted, v, u, disk[v]) /\ Shown(v, u, disk[v])
    BY <1>1, <1>2 DEF VInv, Request, Shown, TakenUp, Meets
  <2>3. Lost(Live(v), v, u, disk[v])
    BY <1>1, <1>2 DEF VInv, Lost, TakenUp, Declined, Same
  <2>4. Effects0(tries[v], raced[v], u, disk[v])
    BY <1>1, <1>2 DEF VInv, Effects0, TakenUp
  <2>5. QED
    BY <2>1, <2>2, <2>3, <2>4
<1>4. VInv(minted, Live(v), tries[v], raced[v], v, u, disk[v])
  BY <1>3 DEF VInv
<1>5. VInv(minted', Live(v)', tries'[v], raced'[v], v, u, disk'[v]) /\ minted' >= minted
      /\ \A w \in Versions : Remains(w)
  BY <1>1, <1>4 DEF Live, Remains
<1>6. QED
  BY <1>1, <1>5, WorkStep

(* The ending receipt takes the slot's place, or is given up.              *)
LEMMA EndedV ==
  ASSUME NEW m \in Nat, NEW l, NEW t, NEW r, NEW v, NEW s \in Slots, NEW d \in Receipts, NEW u,
         VInv(m, l, t, r, v, s, d), Known(s.ending), u.ending = NoReceipt, ~u.behind,
         u.effect = s.effect, u.timer = s.timer,
         u.receipt = s.receipt \/ u.receipt = s.ending
  PROVE  VInv(m, l, t, r, v, u, d)
<1>1. /\ Known(s.receipt) /\ s.ending.end = "exhausted" /\ Known(u.receipt)
      /\ ~Known(u.ending) /\ u.ending.req = 0
      /\ s.effect \notin Awaited
  BY NoReceiptFields DEF VInv, Stage, Awaited, Waking
<1>2. /\ u.receipt = s.receipt \/ (u.receipt = s.ending /\ ~Open(u.receipt)
                                    /\ u.receipt.end = "exhausted")
  BY <1>1 DEF Open
<1>3. Stage(u, d)
  BY <1>1, <1>2 DEF VInv, Stage, Told
<1>4. Request(m, v, u, d)
  BY <1>1, <1>2, NoReceiptFields DEF VInv, Request, Meets, Vouches
<1>5. Shown(v, u, d)
  BY <1>2 DEF VInv, Shown, Spoken
<1>6. Lost(l, v, u, d)
  BY <1>1, <1>2 DEF VInv, Lost, Same, Declined
<1>7. Effects0(t, r, u, d)
  BY <1>2 DEF VInv, Effects0
<1>8. QED
  BY <1>3, <1>4, <1>5, <1>6, <1>7 DEF VInv

LEMMA SaveExhaustedV ==
  ASSUME RInv, IInv', MirrorInv', NEW v \in Versions, NEW mode, SaveExhausted(v, mode)
  PROVE  RInv'
<1> DEFINE e == slot[v].ending
           s == [slot[v] EXCEPT !.ending = NoReceipt, !.behind = FALSE]
           u == [s EXCEPT !.receipt = e]
<1>1. /\ UNCHANGED <<row, fired, calls, inbox, acking, acked, unsaved, minted, forgotten, tries,
                     raced>>
      /\ minted' >= minted /\ Known(e) /\ slot[v] \in Slots /\ disk[v] \in Receipts
      /\ disk \in [Versions -> Receipts] /\ calls \subseteq Calls /\ acking \subseteq inbox
      /\ e \in Receipts /\ minted \in Nat /\ tries[v] \in Nat /\ raced[v] \in Nat
      /\ VInv(minted, Live(v), tries[v], raced[v], v, slot[v], disk[v])
  BY RFacts, SlotTypes DEF SaveExhausted, cloudVars, wireVars, clockVars, historyVars
<1>2. /\ s \in Slots /\ s.ending = NoReceipt /\ ~s.behind /\ s.effect = slot[v].effect
      /\ s.timer = slot[v].timer /\ s.receipt = slot[v].receipt
  BY <1>1, NoReceiptType DEF Slots
<1>3. /\ u \in Slots /\ u.ending = NoReceipt /\ ~u.behind /\ u.effect = slot[v].effect
      /\ u.timer = slot[v].timer /\ u.receipt = e
  BY <1>1, <1>2 DEF Slots
<1>4. CASE Writes(mode)
  <2>1. Saves(v, u.receipt) /\ slot' = [slot EXCEPT ![v] = Saved(v, u)]
    BY <1>3, <1>4 DEF SaveExhausted
  <2> HIDE DEF s, u
  <2>2. VInv(minted, Live(v), tries[v], raced[v], v, u, disk[v])
    BY <1>1, <1>3, EndedV
  <2>3. /\ Stored(v, u.receipt, disk'[v]) /\ disk'[v] \in Receipts
        /\ \A w \in Versions : w # v => Remains(w)
    BY <1>1, <1>3, <2>1, SavesStored
  <2>4. VInv(minted, Live(v), tries[v], raced[v], v, Saved(v, u), disk'[v])
    BY <1>1, <1>3, <2>2, <2>3, SavedV
  <2>5. VInv(minted', Live(v)', tries'[v], raced'[v], v, Saved(v, u), disk'[v])
    BY <1>1, <2>4 DEF Live
  <2>6. QED
    BY <1>1, <2>1, <2>3, <2>5, WorkStep
<1>5. CASE ~Writes(mode)
  <2>1. disk' = disk /\ slot' = [slot EXCEPT ![v] = Failed(s)]
    BY <1>5 DEF SaveExhausted
  <2> HIDE DEF s, u
  <2>2. VInv(minted, Live(v), tries[v], raced[v], v, s, disk[v])
    BY <1>1, <1>2, EndedV
  <2>3. VInv(minted, Live(v), tries[v], raced[v], v, Failed(s), disk[v])
    BY <1>1, <1>2, <2>2, NotSavedV DEF Timers
  <2>4. VInv(minted', Live(v)', tries'[v], raced'[v], v, Failed(s), disk'[v])
        /\ \A w \in Versions : Remains(w)
    BY <1>1, <2>1, <2>3 DEF Live, Remains
  <2>5. QED
    BY <1>1, <2>1, <2>4, WorkStep
<1>6. QED
  BY <1>4, <1>5

(* A receipt the Agent acknowledges takes the slot's place.                *)
LEMMA ConsumedV ==
  ASSUME NEW m \in Nat, NEW l, NEW t, NEW r, NEW v, NEW s \in Slots, NEW d \in Receipts,
         NEW x, NEW u, NEW e, VInv(m, l, t, r, v, s, d), x.end = "consumed", Known(x), Accepted(x),
         x.req = fired[v], x.req <= m, Known(s.receipt) \/ Known(d), v \in Seen,
         u.receipt = x, u.timer = "none", u.effect = s.effect, u.ending = s.ending,
         u.behind = s.behind, e \in {d, x, NoReceipt}
  PROVE  VInv(m, FALSE, t, r, v, u, e)
<1>1. ~Open(x) /\ ~Open(u.receipt) /\ (Open(e) => e = d)
  BY NoReceiptFields DEF Open
<1>2. Stage(u, e)
  BY <1>1 DEF VInv, Stage, Told, Untold
<1>3. Request(m, v, u, e)
  BY <1>1, NoReceiptFields DEF VInv, Request, Vouches, Meets
<1>4. Shown(v, u, e)
  BY <1>1 DEF VInv, Shown, Spoken
<1>5. Lost(FALSE, v, u, e)
  BY DEF VInv, Lost
<1>6. Effects0(t, r, u, e)
  BY <1>1 DEF VInv, Effects0
<1>7. QED
  BY <1>2, <1>3, <1>4, <1>5, <1>6 DEF VInv

(* An acknowledgement: a delivered receipt is consumed, and one that is    *)
(* not open and fired in any copy is left alone.                           *)
LEMMA AckReceiptV ==
  ASSUME RInv, IInv', MirrorInv', NEW v \in Versions, NEW mode, AckReceipt(v, mode)
  PROVE  RInv'
<1> DEFINE s == slot[v]
           d == disk[v]
           receipt == IF Reads(mode) /\ Known(d) THEN d ELSE s.receipt
           consumed == [receipt EXCEPT !.end = "consumed"]
           delivered == Known(receipt) /\ receipt.server = "accepted"
           u == [s EXCEPT !.receipt = consumed, !.timer = "none"]
<1>1. /\ UNCHANGED <<row, fired, calls, inbox, acked, minted, forgotten, tries, raced>>
      /\ v \in inbox /\ minted' >= minted /\ s \in Slots /\ d \in Receipts
      /\ TypeOK /\ TypeOK' /\ slot \in [Versions -> Slots]
      /\ disk \in [Versions -> Receipts] /\ calls \subseteq Calls /\ acking \subseteq inbox
      /\ minted \in Nat /\ tries[v] \in Nat /\ raced[v] \in Nat /\ s.receipt \in Receipts
      /\ VInv(minted, Live(v), tries[v], raced[v], v, s, d)
  BY RFacts, SlotTypes DEF AckReceipt, cloudVars, wireVars, clockVars, historyVars, RInv, IInv
<1>2. \/ UNCHANGED <<slot, disk, acking, unsaved>>
      \/ /\ acking' = acking \cup {v}
         /\ slot' = IF delivered THEN [slot EXCEPT ![v].receipt = consumed, ![v].timer = "none"]
                                 ELSE slot
         /\ disk' = IF delivered /\ Reads(mode) THEN Acknowledged(v, consumed) ELSE disk
         /\ unsaved' = IF Reads(mode) THEN unsaved ELSE unsaved \cup {v}
  BY DEF AckReceipt
<1>3. CallsKnown' /\ acking' \subseteq inbox'
  <2>1. acking' \subseteq inbox'
    BY <1>1, <1>2
  <2>2. QED
    BY <1>1, <2>1 DEF RInv, CallsKnown
<1>4. CASE UNCHANGED <<slot, disk, acking, unsaved>>
  <2>1. ASSUME NEW w \in Versions PROVE Aside(w)
    BY <1>1, <1>4 DEF Aside, Remains, Past, Current, Seen, Live, TypeOK, Rows
  <2>2. QED
    BY <1>3, <2>1, AsideStep
<1>5. CASE /\ acking' = acking \cup {v}
           /\ slot' = IF delivered THEN [slot EXCEPT ![v].receipt = consumed, ![v].timer = "none"]
                                   ELSE slot
           /\ disk' = IF delivered /\ Reads(mode) THEN Acknowledged(v, consumed) ELSE disk
           /\ unsaved' = IF Reads(mode) THEN unsaved ELSE unsaved \cup {v}
  <2>1. /\ receipt \in Receipts /\ consumed \in Receipts /\ consumed.end = "consumed"
        /\ consumed.req = receipt.req /\ consumed.server = receipt.server /\ ~Open(consumed)
    BY <1>1 DEF Receipts, Ends, Open
  <2>2. /\ u \in Slots /\ u.receipt = consumed /\ u.timer = "none" /\ u.effect = s.effect
        /\ u.ending = s.ending /\ u.behind = s.behind
    BY <1>1, <2>1 DEF Slots, Timers
  <2>3. slot'[v] = (IF delivered THEN u ELSE s) /\ \A w \in Versions : w # v => slot'[w] = slot[w]
    BY <1>1, <1>5
  <2>4. /\ \A w \in Versions : w # v => Remains(w)
        /\ IF delivered /\ Reads(mode)
             THEN disk'[v] = consumed \/ (disk'[v] = NoReceipt)
             ELSE disk'[v] = d
    BY <1>1, <1>5, <2>1 DEF Acknowledged, Retained, Remains
  <2>5. ASSUME NEW w \in Versions, w # v PROVE Aside(w)
    <3>1. /\ (w \in acking') = (w \in acking) /\ (w \in unsaved') = (w \in unsaved)
          /\ row.version \in Nat
      BY <1>1, <1>5, <2>5 DEF TypeOK, Rows
    <3>2. QED
      BY <1>1, <2>3, <2>4, <2>5, <3>1 DEF Aside, Past, Current, Seen, Live
  <2>6. /\ (v \in Seen) /\ (v \in Seen') /\ ~Live(v)'
        /\ (v \in (acking' \cup acked') \ unsaved' => Reads(mode) /\ v \notin unsaved)
    BY <1>1, <1>5 DEF Seen, Live
  <2>7. PICK t, e : t = slot'[v] /\ e = disk'[v]
    OBVIOUS
  <2>8. /\ VInv(minted, FALSE, tries[v], raced[v], v, t, e)
        /\ Spoken(v, t.receipt)' /\ Spoken(v, e)'
    <3>1. CASE delivered
      <4>1. t = u /\ e \in {d, consumed, NoReceipt} /\ (Reads(mode) => ~Open(e))
        BY <2>1, <2>3, <2>4, <2>7, <3>1, NoReceiptFields
      <4>2. /\ Known(consumed) /\ Accepted(consumed) /\ consumed.req = fired[v]
            /\ Known(s.receipt) \/ Known(d)
            /\ consumed.req <= minted
        BY <1>1, <2>1, <3>1 DEF VInv, Request, Vouches, Accepted, Known
      <4> HIDE DEF u, s, d, consumed, receipt
      <4>3. VInv(minted, FALSE, tries[v], raced[v], v, u, e)
        BY <1>1, <2>1, <2>2, <2>6, <4>1, <4>2, ConsumedV
      <4>a. ~Open(t.receipt)
        BY <2>1, <2>2, <4>1
      <4>4. Spoken(v, t.receipt)'
        BY <4>a DEF Spoken, Open, Known
      <4>5. Spoken(v, e)'
        <5>1. CASE Open(e)
          <6>1. ~Reads(mode)
            BY <4>1, <5>1
          <6>2. Spoken(v, e)
            BY <4>3 DEF VInv, Shown
          <6>3. QED
            BY <1>1, <2>6, <5>1, <6>1, <6>2 DEF Spoken
        <5>2. CASE ~Open(e)
          BY <5>2 DEF Spoken, Open, Known
        <5>3. QED
          BY <5>1, <5>2
      <4>6. QED
        BY <4>1, <4>3, <4>4, <4>5
    <3>2. CASE ~delivered
      <4>1. t = s /\ e = d
        BY <2>3, <2>4, <2>7, <3>2
      <4>2. VInv(minted, FALSE, tries[v], raced[v], v, s, d)
        BY <1>1 DEF VInv, Lost
      <4>3. Spoken(v, s.receipt) /\ Spoken(v, d)
        BY <1>1 DEF VInv, Shown
      <4>4. ASSUME Reads(mode)
            PROVE  ~(Open(s.receipt) /\ s.receipt.req = fired[v]) /\ ~(Open(d) /\ d.req = fired[v])
        <5>1. CASE Known(d)
          <6>1. ~Accepted(d)
            BY <3>2, <4>4, <5>1 DEF Accepted
          <6>2. ~(Open(d) /\ d.req = fired[v])
            BY <2>6, <4>3, <6>1 DEF Spoken
          <6>3. Open(s.receipt) /\ s.receipt.req = fired[v] => s.receipt.server = "accepted"
            BY <2>6, <4>3 DEF Spoken, Accepted
          <6>4. s.receipt.server = "accepted" /\ Open(s.receipt) => Open(d) /\ d.req = s.receipt.req
            BY <1>1 DEF VInv, Stage
          <6>5. QED
            BY <6>2, <6>3, <6>4
        <5>2. CASE ~Known(d)
          <6>1. ~Open(d) /\ receipt = s.receipt
            BY <5>2 DEF Open
          <6>2. Open(s.receipt) => ~Accepted(s.receipt)
            BY <3>2, <6>1 DEF Open, Accepted
          <6>3. QED
            BY <2>6, <4>3, <6>1, <6>2 DEF Spoken
        <5>3. QED
          BY <5>1, <5>2
      <4>5. fired'[v] = fired[v]
        BY <1>1
      <4> HIDE DEF s, d
      <4>6. Spoken(v, t.receipt)' /\ Spoken(v, e)'
        BY <2>6, <4>1, <4>3, <4>4, <4>5 DEF Spoken, Open, Known, Accepted
      <4>7. QED
        BY <4>1, <4>2, <4>6
    <3>3. QED
      BY <3>1, <3>2
  <2> HIDE DEF s, d, u, receipt, consumed
  <2>9. VInv(minted, Live(v), tries[v], raced[v], v, slot[v], disk[v])'
    <3>1. Stage(slot[v], disk[v])' /\ Effects0(tries[v], raced[v], slot[v], disk[v])'
      BY <1>1, <2>7, <2>8 DEF VInv, Stage, Effects0, Told, Untold, Open, Known, Accepted
    <3>2. Request(minted, v, slot[v], disk[v])'
      BY <1>1, <2>7, <2>8 DEF VInv, Request, Vouches, Meets, Open, Known, Accepted
    <3>3. Shown(v, slot[v], disk[v])'
      BY <1>1, <2>6, <2>7, <2>8 DEF VInv, Shown, Spoken, Open, Known, Accepted
    <3>4. Lost(Live(v), v, slot[v], disk[v])'
      BY <1>1, <2>6, <2>7, <2>8 DEF VInv, Lost, Known
    <3>5. QED
      BY <3>1, <3>2, <3>3, <3>4 DEF VInv
  <2>10. QED
    BY <1>3, <2>5, <2>9, OneStep
<1>6. QED
  BY <1>2, <1>4, <1>5

-----------------------------------------------------------------------------
(* The steps of the cloud, the network and the machine.                    *)

(* A step that touches no receipt: the cloud's row may move on, calls get  *)
(* lost, clocks run.                                                       *)
LEMMA WorldV ==
  ASSUME RInv, IInv', MirrorInv',
         UNCHANGED <<slot, disk, fired, minted, tries, raced, forgotten, unsaved>>,
         row' = row \/ row'.version > row.version
           \/ (row'.version = row.version /\ row'.status = row.status),
         calls' = calls,
         \/ UNCHANGED <<inbox, acking, acked>>
         \/ \E v \in acking : acking' = acking \ {v}
              /\ \/ inbox' = inbox \ {v} /\ acked' = acked \cup {v}
                 \/ UNCHANGED <<inbox, acked>>
  PROVE  RInv'
<1>1. /\ TypeOK /\ TypeOK' /\ acking \subseteq inbox /\ row.version \in Nat /\ row'.version \in Nat
  BY DEF RInv, IInv, TypeOK, Rows
<1>2. row'.version >= row.version
  BY <1>1
<1>3. ASSUME NEW w \in Versions, Past(w) PROVE Past(w)'
  BY <1>1, <1>3 DEF Past, Current, Versions
<1>4. ASSUME NEW w \in Versions
      PROVE  /\ (w \in Seen') = (w \in Seen) /\ (Live(w)' => Live(w))
             /\ w \in acking' \cup acked' => w \in acking \cup acked
    BY <1>1 DEF Seen, Live
<1>5. ASSUME NEW w \in Versions PROVE Aside(w)
  <2>1. Past(w) => Past(w)'
    BY <1>3
  <2>2. \A c \in calls' : c.version = w => \E b \in calls : b.version = w /\ b.req = c.req
                                                               /\ (c.live => b.live)
    OBVIOUS
  <2>3. /\ slot'[w] = slot[w] /\ disk'[w] = disk[w] /\ fired'[w] = fired[w] /\ minted' >= minted
        /\ tries'[w] = tries[w] /\ raced'[w] = raced[w] /\ unsaved' = unsaved
    BY RFacts
  <2>4. QED
    BY <1>2, <1>4, <2>1, <2>2, <2>3 DEF Aside, Remains
<1>6. acking' \subseteq inbox'
  BY <1>1
<1>7. CallsKnown'
  <2>1. \A c \in calls : c.version \in Nat
    BY <1>1 DEF TypeOK, Calls, Versions
  <2>2. QED
    BY <1>1, <1>2, <2>1 DEF RInv, CallsKnown
<1>8. QED
  BY <1>5, <1>6, <1>7, AsideStep

LEMMA CrashV ==
  ASSUME RInv, IInv', MirrorInv', Crash
  PROVE  RInv'
<1>1. /\ slot' = [v \in Versions |-> EmptySlot] /\ acking' = {}
      /\ calls' = {[c EXCEPT !.live = FALSE] : c \in calls}
      /\ UNCHANGED <<row, fired, disk, inbox, minted, acked, unsaved, tries, raced, forgotten>>
  BY DEF Crash, cloudVars, historyVars
<1>2. /\ EmptySlot.receipt = NoReceipt /\ EmptySlot.ending = NoReceipt
      /\ EmptySlot.effect = "idle" /\ EmptySlot.timer = "none" /\ ~EmptySlot.behind
  BY DEF EmptySlot
<1>3. \A c \in calls' : ~c.live /\ \E b \in calls : b.version = c.version /\ b.req = c.req
  BY <1>1, RFacts DEF RInv, IInv, TypeOK, Calls
<1>4. acking \subseteq inbox /\ Seen' = Seen
  BY <1>1 DEF RInv, Seen
<1>5. ASSUME NEW v \in Versions
      PROVE  VInv(minted, Live(v), tries[v], raced[v], v, slot[v], disk[v])'
  <2>1. VInv(minted, Live(v), tries[v], raced[v], v, slot[v], disk[v]) /\ minted \in Nat
        /\ disk[v] \in Receipts
    BY RFacts
  <2>2. slot'[v] = EmptySlot /\ disk'[v] = disk[v] /\ fired'[v] = fired[v] /\ Live(v)' = Live(v)
    BY <1>1 DEF Live
  <2>3. Stage(slot[v], disk[v])'
    BY <1>2, <2>2, NoReceiptFields DEF Stage, Awaited, Waking, Open, Known
  <2>4. Request(minted, v, slot[v], disk[v])'
    BY <1>1, <1>2, <1>3, <2>1, <2>2, NoReceiptFields DEF VInv, Request, Vouches, Accepted
  <2>5. Shown(v, slot[v], disk[v])'
    BY <1>1, <1>2, <1>4, <2>1, <2>2, NoReceiptFields DEF VInv, Shown, Spoken, Open, Known, Accepted
  <2>6. Lost(Live(v), v, slot[v], disk[v])'
    BY <1>1, <1>2, <1>3, <2>1, <2>2, NoReceiptFields
       DEF VInv, Lost, Same, Declined, Past, Current, Known
  <2>7. Effects0(tries[v], raced[v], slot[v], disk[v])'
    BY <1>1, <1>2, <2>1, <2>2, NoReceiptFields DEF VInv, Effects0, Open, Known
  <2>8. QED
    BY <2>3, <2>4, <2>5, <2>6, <2>7 DEF VInv
<1>6. CallsKnown' /\ acking' \subseteq inbox'
  BY <1>1, <1>3 DEF RInv, CallsKnown
<1>7. QED
  BY <1>5, <1>6 DEF RInv, VersionsInv

(* A sync from the cloud: a snapshot reads all receipts again.             *)
LEMMA ApplyV ==
  ASSUME RInv, IInv', MirrorInv', NEW sync \in syncs, NEW mode, Apply(sync, mode)
  PROVE  RInv'
<1>1. /\ UNCHANGED <<row, fired, calls, disk, inbox, acking, acked, unsaved, minted, tries, forgotten>>
      /\ sync.op \in {"snapshot", "upsert", "cancel"}
  BY RFacts DEF Apply, cloudVars, clockVars, RInv, IInv, TypeOK, Syncs
<1>2. CASE UNCHANGED <<slot, raced>>
  BY <1>1, <1>2, WorldV
<1>3. CASE /\ Reads(mode) /\ slot' = [v \in Versions |-> Restored(v, slot[v])]
           /\ raced' = [v \in Versions |-> TakenBack(v)]
  <2>1. ASSUME NEW v \in Versions
        PROVE  VInv(minted, Live(v), tries[v], raced[v], v, slot[v], disk[v])'
    <3> DEFINE x == [slot[v] EXCEPT !.receipt = Fresh(v, mode)]
    <3>1. /\ slot[v] \in Slots /\ disk[v] \in Receipts /\ Fresh(v, mode) \in Receipts
          /\ minted \in Nat /\ tries[v] \in Nat /\ raced[v] \in Nat
          /\ TakenBack(v) \in Nat /\ TakenBack(v) >= raced[v]
      BY RFacts, FreshReceipt DEF TakenBack
    <3>2. TakenUp(slot[v], x, Fresh(v, mode), slot[v].effect)
      BY <3>1, TakenFields, SlotTypes
    <3>3. VInv(minted, Live(v), tries[v], TakenBack(v), v, x, disk[v]) /\ x \in Slots
      <4>1. PICK q \in Nat : q = TakenBack(v) /\ q >= raced[v] /\ q >= TakenBack(v)
        BY <3>1
      <4>2. VInv(minted, Live(v), tries[v], q, v, x, disk[v])
        BY <3>2, <4>1, FreshSlot
      <4>3. QED
        BY <3>2, <4>1, <4>2 DEF TakenUp
    <3>4. Restored(v, slot[v]) = IF Known(disk[v]) THEN Arm(x, "effect") ELSE x
      <4>1. Known(disk[v]) => Fresh(v, mode) = disk[v]
        BY <1>3 DEF Fresh
      <4>2. ~Known(disk[v]) => x = slot[v]
        BY <3>1 DEF Fresh, Slots
      <4>3. QED
        BY <4>1, <4>2 DEF Restored
    <3> HIDE DEF x
    <3>5. VInv(minted, Live(v), tries[v], TakenBack(v), v, Arm(x, "effect"), disk[v])
      BY <3>1, <3>3, ArmV DEF Timers
    <3>6. PICK t : /\ slot'[v] = t
                   /\ VInv(minted, Live(v), tries[v], TakenBack(v), v, t, disk[v])
      BY <1>3, <3>3, <3>4, <3>5
    <3>7. raced'[v] = TakenBack(v) /\ Live(v)' = Live(v) /\ disk'[v] = disk[v]
          /\ fired' = fired /\ tries'[v] = tries[v] /\ minted' = minted
      BY <1>1, <1>3 DEF Live
    <3>8. VInv(minted', Live(v)', tries'[v], raced'[v], v, t, disk'[v])
      BY <3>6, <3>7
    <3>9. QED
      BY <1>1, <3>6, <3>8 DEF VInv, Stage, Request, Shown, Lost, Effects0, Told, Untold, Meets,
         Vouches, Spoken, Past, Current, Same, Declined, Seen, Open, Known, Accepted
  <2>2. CallsKnown' /\ acking' \subseteq inbox'
    BY <1>1 DEF RInv, CallsKnown
  <2>3. QED
    BY <2>1, <2>2 DEF RInv, VersionsInv
<1>4. QED
  BY <1>1, <1>2, <1>3 DEF Apply, ApplySnapshot, ApplyUpsert, ApplyCancel

(* A fire reaches the cloud.                                               *)
LEMMA FireV ==
  ASSUME RInv, IInv', MirrorInv', NEW call \in calls, Fire(call)
  PROVE  RInv'
<1> DEFINE v == call.version
           s == slot[v]
           d == disk[v]
           verdict == Verdict(call)
           advances == verdict = "accepted" /\ ~Replayed(call)
           u == IF call.live THEN [s EXCEPT !.effect = verdict] ELSE s
<1>1. /\ calls' = calls \ {call}
      /\ UNCHANGED <<disk, inbox, acking, acked, unsaved, minted, tries, raced, forgotten>>
      /\ slot' = IF call.live THEN [slot EXCEPT ![v].effect = verdict] ELSE slot
  BY DEF Fire, clockVars, historyVars
<1>2. /\ TypeOK /\ TypeOK' /\ acking \subseteq inbox /\ v \in Versions /\ call.req \in Nat
      /\ call.req # None /\ row.version \in Nat /\ row'.version \in Nat
      /\ \A c \in calls : c.version \in Nat /\ c.req \in Nat
  <2>1. TypeOK /\ TypeOK' /\ acking \subseteq inbox /\ calls \subseteq Calls
    BY DEF RInv, IInv, TypeOK
  <2>2. row.version \in Nat /\ row'.version \in Nat
    BY <2>1 DEF TypeOK, Rows
  <2>3. \A c \in calls : c.version \in Versions /\ c.version \in Nat /\ c.req \in Nat /\ c.req # None
    BY <2>1 DEF Calls, Requests, None, Versions
  <2>4. QED
    BY <2>1, <2>2, <2>3
<1>3. /\ s \in Slots /\ d \in Receipts /\ minted \in Nat /\ fired[v] \in Nat
      /\ VInv(minted, Live(v), tries[v], raced[v], v, s, d)
      /\ call.live => s.effect = "fire"
  BY <1>2, RFacts DEF TypeOK, Requests, None
<1>4. /\ verdict \in {"accepted", "premature", "obsolete"}
      /\ verdict = "obsolete" => fired[v] # call.req /\ ~Current(v)
      /\ advances => Current(v)
      /\ verdict = "accepted" /\ ~advances => fired[v] = call.req
  BY DEF Verdict, Replayed
<1>5. IF advances
        THEN fired' = [fired EXCEPT ![v] = call.req] /\ row'.version = row.version + 1
        ELSE UNCHANGED <<row, fired>>
  BY <1>2 DEF Fire, Advance, cloudVars, TypeOK, Rows
<1>6. v <= row.version /\ call.req <= minted
  BY DEF RInv, CallsKnown
<1>7. /\ row'.version >= row.version
      /\ \A w \in Versions : Past(w) => Past(w)'
  BY <1>2, <1>5 DEF Past, Current, Versions
<1>8. ASSUME NEW w \in Versions, w # v PROVE Aside(w)
  <2>1. slot'[w] = slot[w] /\ fired'[w] = fired[w]
    BY <1>1, <1>2, <1>5, <1>8 DEF TypeOK
  <2>2. \A c \in calls' : c.version = w => \E b \in calls : b.version = w /\ b.req = c.req
                                                               /\ (c.live => b.live)
    BY <1>1
  <2>3. minted' >= minted
    BY <1>1, <1>3
  <2>4. QED
    BY <1>1, <1>7, <2>1, <2>2, <2>3 DEF Aside, Remains, Seen, Live
<1>9. /\ u \in Slots /\ u.receipt = s.receipt /\ u.ending = s.ending /\ u.timer = s.timer
      /\ u.behind = s.behind /\ u.effect = (IF call.live THEN verdict ELSE s.effect)
      /\ slot'[v] = u
  BY <1>1, <1>2, <1>3, <1>4 DEF Slots, Effects, TypeOK
<1>10. fired'[v] = (IF advances THEN call.req ELSE fired[v])
  BY <1>2, <1>5 DEF TypeOK
<1>11. advances => /\ fired[v] = None /\ v \notin Seen /\ s.effect # "accepted"
                   /\ ~Accepted(s.receipt) /\ ~Accepted(s.ending) /\ ~Accepted(d)
  <2>1. advances => row.version = v
    BY <1>4 DEF Current
  <2>2. advances => fired[v] = None
    BY <1>2, <2>1 DEF RInv, IInv, FiredInv
  <2>3. fired[v] = None => /\ s.effect # "accepted" /\ ~Accepted(d)
                           /\ ~Accepted(s.receipt) /\ ~Accepted(s.ending)
    BY <1>2 DEF RInv, IInv, FiredInv, Answered, Accepted
  <2>4. v \in Seen => fired[v] # None
    BY <1>3 DEF VInv, Shown
  <2>5. QED
    BY <2>2, <2>3, <2>4
<1>12. Live(v)' = Live(v) /\ Seen' = Seen
  BY <1>1 DEF Live, Seen
<1>13. disk'[v] = d
  BY <1>1
<1> HIDE DEF v, s, d, u, advances, verdict
<1>14. PICK t \in Slots, e \in Receipts, a \in Versions : /\ t = u /\ e = d /\ a = v
  BY <1>2, <1>3, <1>9
<1>15. Stage(t, e)
  BY <1>3, <1>4, <1>9, <1>14 DEF VInv, Stage, Told, Untold, Awaited, Waking
<1>16. Request(minted, a, slot[a], disk[a])'
  <2>1. ASSUME NEW c \in calls', c.live, c.version = a PROVE Meets(c.req, t, e)
    BY <1>1, <1>3, <1>9, <1>14, <2>1 DEF VInv, Request, Meets
  <2>2. t.effect = "accepted" => Meets(fired'[v], t, e)
    <3>1. call.live => Meets(call.req, s, d)
      BY <1>3 DEF VInv, Request, v
    <3>2. s.effect = "accepted" => Meets(fired[v], s, d)
      BY <1>3 DEF VInv, Request
    <3>3. verdict = "accepted" => fired'[v] = call.req
      BY <1>4, <1>10
    <3>4. t.effect = "accepted" => \/ call.live /\ verdict = "accepted"
                                   \/ ~call.live /\ s.effect = "accepted"
      BY <1>9, <1>14
    <3>5. ~advances => fired'[v] = fired[v]
      BY <1>10
    <3>6. QED
      BY <1>9, <1>11, <1>14, <3>1, <3>2, <3>3, <3>4, <3>5 DEF Meets
  <2>3. Vouches(a, t.receipt)' /\ Vouches(a, t.ending)' /\ Vouches(a, e)'
    BY <1>3, <1>9, <1>10, <1>11, <1>14 DEF VInv, Request, Vouches, Accepted
  <2>4. t.receipt.req <= minted' /\ t.ending.req <= minted' /\ e.req <= minted'
        /\ fired'[a] <= minted'
    BY <1>1, <1>3, <1>6, <1>9, <1>10, <1>14 DEF VInv, Request
  <2>5. slot'[a] = t /\ disk'[a] = e
    BY <1>9, <1>13, <1>14
  <2>6. QED
    BY <1>14, <2>1, <2>2, <2>3, <2>4, <2>5 DEF Request, Meets, Vouches, Open, Known, Accepted
<1>17. Shown(a, slot[a], disk[a])'
  BY <1>1, <1>3, <1>9, <1>10, <1>11, <1>12, <1>13, <1>14
     DEF VInv, Shown, Spoken, Open, Known, Accepted
<1>18. Lost(Live(a), a, slot[a], disk[a])'
  <2>1. Known(s.receipt) \/ Known(d) => v <= row'.version
    BY <1>2, <1>7, <1>14 DEF v, Versions, VInv, Lost, RInv, CallsKnown
  <2>2. ASSUME Live(v)
        PROVE  /\ Same(s.receipt, d) /\ Same(s.receipt, s.ending) /\ Same(s.ending, d)
               /\ fired'[v] # None => d.req = fired'[v]
               /\ \A c \in calls' : c.version = v => d.req = c.req
               /\ Declined(u, d) => Past(v)' /\ fired'[v] = None
    <3>1. /\ Same(s.receipt, d) /\ Same(s.receipt, s.ending) /\ Same(s.ending, d)
          /\ fired[v] # None => d.req = fired[v]
          /\ \A c \in calls : c.version = v => d.req = c.req
          /\ Declined(s, d) => Past(v) /\ fired[v] = None
      BY <1>3, <2>2 DEF VInv, Lost
    <3>2. d.req = call.req
      BY <3>1 DEF v
    <3>3. Declined(u, d) => Past(v) /\ fired[v] = None /\ ~advances
      <4>1. CASE Declined(s, d)
        BY <1>4, <3>1, <4>1 DEF Past
      <4>2. CASE ~Declined(s, d) /\ Declined(u, d)
        <5>1. verdict = "obsolete"
          BY <1>9, <4>2 DEF Declined
        <5>2. fired[v] = None /\ ~advances
          BY <1>4, <3>1, <3>2, <5>1 DEF advances
        <5>3. QED
          BY <1>4, <1>6, <5>1, <5>2 DEF Past
      <4>3. QED
        BY <4>1, <4>2
    <3>4. Past(v) => Past(v)'
      <4>1. a = v
        BY <1>14
      <4>2. Past(a) => Past(a)'
        BY <1>7
      <4>3. call' = call
        OBVIOUS
      <4>4. QED
        BY <4>1, <4>2, <4>3 DEF v, Past, Current
    <3>5. QED
      BY <1>1, <1>10, <3>1, <3>2, <3>3, <3>4
  <2>3. QED
    BY <1>9, <1>12, <1>13, <1>14, <2>1, <2>2 DEF Lost, Same, Known, Declined, Past, Current, v
<1>19. VInv(minted, Live(a), tries[a], raced[a], a, slot[a], disk[a])'
  <2>1. slot'[a] = t /\ disk'[a] = e
    BY <1>9, <1>13, <1>14
  <2>2. Stage(slot[a], disk[a])'
    BY <1>15, <2>1 DEF Stage, Told, Untold, Open, Known, Accepted
  <2>3. Effects0(tries[v], raced[v], u, d)
    BY <1>3, <1>4, <1>9 DEF VInv, Effects0
  <2>4. Effects0(tries[a], raced[a], slot[a], disk[a])'
    BY <1>1, <1>14, <2>1, <2>3 DEF Effects0, Open, Known
  <2>5. QED
    BY <1>16, <1>17, <1>18, <2>2, <2>4 DEF VInv
<1>20. CallsKnown' /\ acking' \subseteq inbox'
  BY <1>1, <1>2, <1>7 DEF RInv, CallsKnown
<1>21. \A w \in Versions : w # a => Aside(w)
  BY <1>8, <1>14
<1>22. QED
  BY <1>19, <1>20, <1>21, OneStep

LEMMA FireFailsV ==
  ASSUME RInv, IInv', MirrorInv', NEW v \in Versions, FireFails(v)
  PROVE  RInv'
<1> DEFINE s == slot[v]
           d == disk[v]
           u == [s EXCEPT !.effect = "failed"]
<1>1. /\ UNCHANGED <<row, fired, disk, inbox, acking, acked, unsaved, minted, tries, raced,
                     forgotten>>
      /\ s.effect \in {"fire"} \cup Results /\ slot' = [slot EXCEPT ![v] = u]
      /\ \/ calls' = {c \in calls : c.version # v \/ ~c.live}
         \/ calls' = {IF c.version = v THEN [c EXCEPT !.live = FALSE] ELSE c : c \in calls}
  BY DEF FireFails, cloudVars, historyVars
<1>2. /\ TypeOK /\ TypeOK' /\ acking \subseteq inbox /\ s \in Slots /\ d \in Receipts
      /\ minted \in Nat /\ row.version \in Nat /\ slot \in [Versions -> Slots]
      /\ VInv(minted, Live(v), tries[v], raced[v], v, s, d)
      /\ calls \subseteq Calls
  BY RFacts DEF RInv, IInv, TypeOK, Rows
<1>3. \A c \in calls' : \E b \in calls : /\ b.version = c.version /\ b.req = c.req
                                         /\ (c.live => b.live)
                                         /\ (c.version = v => ~c.live)
  BY <1>1, <1>2 DEF Calls
<1>4. s.effect \in Awaited
  BY <1>1, <1>2 DEF Awaited, Results, Slots, Effects
<1>5. /\ u.receipt = s.receipt /\ u.ending = s.ending /\ u.behind = s.behind
      /\ u.timer = s.timer /\ u.effect = "failed"
  BY <1>2 DEF Slots
<1>6. slot'[v] = u /\ disk'[v] = d
  BY <1>1, <1>2
<1>7. ASSUME NEW w \in Versions, w # v PROVE Aside(w)
  <2>1. slot'[w] = slot[w] /\ disk'[w] = disk[w] /\ minted' >= minted
    BY <1>1, <1>2, <1>7
  <2>2. QED
    BY <1>1, <1>2, <1>3, <2>1 DEF Aside, Remains, Past, Current, Seen, Live
<1> HIDE DEF s, u, d
<1>8. PICK t, e : t = u /\ e = d
  OBVIOUS
<1>9. VInv(minted, Live(v), tries[v], raced[v], v, slot[v], disk[v])'
  <2>1. Stage(slot[v], disk[v])'
    <3>1. Stage(t, e)
      BY <1>2, <1>4, <1>5, <1>8 DEF VInv, Stage, Told, Untold, Awaited, Waking
    <3>2. QED
      BY <1>6, <1>8, <3>1 DEF Stage, Told, Untold, Open, Known, Accepted
  <2>2. Request(minted, v, slot[v], disk[v])'
    BY <1>1, <1>2, <1>3, <1>5, <1>6 DEF VInv, Request, Vouches, Accepted
  <2>3. Shown(v, slot[v], disk[v])'
    BY <1>1, <1>2, <1>5, <1>6 DEF VInv, Shown, Spoken, Seen, Open, Known, Accepted
  <2>4. Lost(Live(v), v, slot[v], disk[v])'
    BY <1>1, <1>2, <1>3, <1>5, <1>6 DEF VInv, Lost, Same, Declined, Past, Current, Known, Live
  <2>5. Effects0(tries[v], raced[v], slot[v], disk[v])'
    BY <1>1, <1>2, <1>4, <1>5, <1>6 DEF VInv, Effects0, Open, Known, Awaited
  <2>6. QED
    BY <2>1, <2>2, <2>3, <2>4, <2>5 DEF VInv
<1>10. CallsKnown' /\ acking' \subseteq inbox'
  BY <1>1, <1>2, <1>3 DEF RInv, CallsKnown
<1>11. QED
  BY <1>7, <1>9, <1>10, OneStep

-----------------------------------------------------------------------------
(* The invariant, and what follows from it.                                *)

LEMMA InitReceipts == Init => RInv
<1> SUFFICES ASSUME Init PROVE RInv
  OBVIOUS
<1>1. IInv /\ MirrorInv
  BY InitInv, InitMirror
<1>2. /\ fired = [v \in Versions |-> None] /\ calls = {} /\ inbox = {} /\ acking = {} /\ acked = {}
      /\ slot = [v \in Versions |-> EmptySlot] /\ disk = [v \in Versions |-> NoReceipt]
      /\ minted = 0 /\ tries = [v \in Versions |-> 0] /\ raced = [v \in Versions |-> 0]
  BY DEF Init
<1>3. /\ EmptySlot.receipt = NoReceipt /\ EmptySlot.ending = NoReceipt
      /\ EmptySlot.effect = "idle" /\ EmptySlot.timer = "none" /\ ~EmptySlot.behind
  BY DEF EmptySlot
<1>4. ASSUME NEW v \in Versions
      PROVE  VInv(minted, Live(v), tries[v], raced[v], v, slot[v], disk[v])
  <2>1. slot[v] = EmptySlot /\ disk[v] = NoReceipt /\ fired[v] = None /\ tries[v] = 0 /\ raced[v] = 0
    BY <1>2
  <2>2. Stage(slot[v], disk[v])
    BY <1>3, <2>1, NoReceiptFields DEF Stage, Awaited, Waking
  <2>3. Request(minted, v, slot[v], disk[v])
    BY <1>2, <1>3, <2>1, NoReceiptFields DEF Request, Vouches, None
  <2>4. Shown(v, slot[v], disk[v])
    BY <1>2, <1>3, <2>1, NoReceiptFields DEF Shown, Spoken, Seen
  <2>5. Lost(Live(v), v, slot[v], disk[v])
    BY <1>2, <1>3, <2>1, NoReceiptFields DEF Lost, Same, Declined
  <2>6. Effects0(tries[v], raced[v], slot[v], disk[v])
    BY <1>3, <2>1, NoReceiptFields, ReminderBounds DEF Effects0
  <2>7. QED
    BY <2>2, <2>3, <2>4, <2>5, <2>6 DEF VInv
<1>5. QED
  BY <1>1, <1>2, <1>4 DEF RInv, VersionsInv, CallsKnown

LEMMA NextReceipts ==
  ASSUME RInv, [Next]_vars
  PROVE  RInv'
<1> USE DEF cloudVars, wireVars, schedulerVars, clockVars, historyVars, faultVars
<1>0. IInv' /\ MirrorInv' /\ TypeOK /\ row.version \in Nat /\ row \in Rows
  BY NextStep, NextMirror DEF RInv, IInv, TypeOK, Rows
<1>1. CASE Schedule \/ Edit \/ Cancel \/ CloudClock \/ SendSnapshot
  <2>1. row' = row \/ row'.version > row.version
          \/ (row'.version = row.version /\ row'.status = row.status)
    <3>1. CASE Schedule
      <4>1. row.version = 0 /\ row'.version = 1
        BY <1>0, <3>1 DEF Schedule, Rows, RInv, IInv, FiredInv
      <4>2. QED
        BY <4>1
    <3>2. CASE Edit \/ Cancel
      <4>1. row' = row \/ row'.version = row.version + 1
        BY <1>0, <3>2 DEF Edit, Cancel, Rows
      <4>2. QED
        BY <1>0, <4>1
    <3>3. CASE CloudClock \/ SendSnapshot
      BY <1>0, <3>3 DEF CloudClock, SendSnapshot, Rows
    <3>4. QED
      BY <1>1, <3>1, <3>2, <3>3
  <2>2. /\ UNCHANGED <<slot, disk, fired, minted, tries, raced, forgotten, unsaved>>
        /\ calls' = calls /\ UNCHANGED <<inbox, acking, acked>>
    BY <1>1 DEF Schedule, Edit, Cancel, CloudClock, SendSnapshot, Drop
  <2>3. QED
    BY <1>0, <2>1, <2>2, WorldV
<1>2. ASSUME NEW call \in calls, Fire(call) PROVE RInv'
  BY <1>0, <1>2, FireV
<1>3. ASSUME NEW sync \in syncs, NEW mode, Apply(sync, mode) PROVE RInv'
  BY <1>0, <1>3, ApplyV
<1>4. ASSUME NEW v \in Versions, NEW mode, ReadWrite(v, mode) PROVE RInv'
  BY <1>0, <1>4, PrepareV, ReceiptTimerV, FireAnsweredV, WakeAnsweredV, AckReceiptV
     DEF ReadWrite, Work
<1>5. ASSUME NEW v \in Versions, NEW mode \in Modes, NEW minting,
             SaveAttempt(v, mode, minting) \/ SaveExhausted(v, mode)
      PROVE  RInv'
  BY <1>0, <1>5, SaveAttemptV, SaveExhaustedV
<1>6. CASE Failure
  <2>1. ASSUME NEW v \in Versions, SaveAttempt(v, "works", FALSE) PROVE RInv'
    BY <1>5, <2>1 DEF Modes
  <2>2. ASSUME NEW v \in Versions, RemoveFails(v) PROVE RInv'
    BY <1>0, <2>2, WorldV DEF RemoveFails
  <2>3. ASSUME NEW v \in Versions, RefuseWake(v) \/ FireFails(v) PROVE RInv'
    BY <1>0, <2>3, RefuseWakeV, FireFailsV
  <2>4. ASSUME NEW sync \in syncs, LoseSync(sync) PROVE RInv'
    BY <1>0, <2>4, WorldV DEF LoseSync
  <2>5. ASSUME NEW req \in Requests, RetentionPasses(req) PROVE RInv'
    BY <1>0, <2>5, WorldV DEF RetentionPasses
  <2>6. CASE Reconnect
    BY <1>0, <2>6, WorldV DEF Reconnect
  <2>7. CASE Crash
    BY <1>0, <2>7, CrashV
  <2>8. QED
    BY <1>6, <2>1, <2>2, <2>3, <2>4, <2>5, <2>6, <2>7 DEF Failure
<1>7. CASE StaleTimer \/ UNCHANGED vars
  BY <1>0, <1>7, WorldV DEF StaleTimer, vars
<1>8. ASSUME NEW v \in Versions, RemoveItem(v) PROVE RInv'
  BY <1>0, <1>8, WorldV DEF RemoveItem
<1>9. ASSUME NEW v \in Versions, DaemonClock(v) PROVE RInv'
  BY <1>0, <1>9, WorldV DEF DaemonClock
<1>10. ASSUME NEW req \in Requests, DeadlinePasses(req) PROVE RInv'
  BY <1>0, <1>10, WorldV DEF DeadlinePasses
<1>11. ASSUME NEW v \in Versions, NEW mode \in {"works", "unsaved"}, Write(v, mode) PROVE RInv'
  BY <1>5, <1>11 DEF Write, Modes
<1>12. QED
  BY <1>1, <1>2, <1>3, <1>4, <1>6, <1>7, <1>8, <1>9, <1>10, <1>11 DEF Next

LEMMA ReceiptsInvariant == Spec => []RInv
<1>1. Init => RInv
  BY InitReceipts
<1>2. RInv /\ [Next]_vars => RInv'
  BY NextReceipts
<1>3. QED
  BY <1>1, <1>2, PTL DEF Spec

(* No older sync that is late takes a pushed job the cloud still has       *)
(* scheduled from the mirror: the fence is never behind the job, and never *)
(* ahead of the cloud's row.                                               *)
THEOREM JobsStay == Spec => PushedJobStays
<1>1. RInv /\ [Next]_vars => [JobStays]_vars
  <2>1. RInv /\ [Next]_vars => JobStays
    BY NextStep, NextMirror DEF RInv
  <2>2. QED
    BY <2>1
<1>2. Spec => [][JobStays]_vars
  BY <1>1, ReceiptsInvariant, PTL DEF Spec
<1>3. QED
  BY <1>2 DEF PushedJobStays, JobStays

(* Until the Agent has the item, the daemon's file holds the request the   *)
(* cloud fired and does not call it declined: the one copy that remembers  *)
(* is written before the request is sent, and no save, read or crash       *)
(* replaces it with another request's.                                     *)
THEOREM FiresKept == Spec => []FiredIsNotLost
<1>1. RInv => FiredIsNotLost
  <2> SUFFICES ASSUME RInv, NEW v \in Versions \ (forgotten \cup inbox \cup acked), fired[v] # None
               PROVE  disk[v].req = fired[v] /\ disk[v].end # "declined"
    BY DEF FiredIsNotLost
  <2>1. VInv(minted, Live(v), tries[v], raced[v], v, slot[v], disk[v]) /\ Live(v)
    BY RFacts DEF Live
  <2>2. QED
    BY <2>1 DEF VInv, Lost, Declined
<1>2. QED
  BY <1>1, ReceiptsInvariant, PTL

(* However often timers fire, saves fail and the daemon restarts, a        *)
(* request's effects stay within its attempts, but for those a read took   *)
(* back: an attempt is in the file before its effect starts.               *)
THEOREM AttemptsLimited == Spec => []EffectsBounded
<1>1. RInv => EffectsBounded
  BY RFacts DEF EffectsBounded, VInv, Effects0
<1>2. QED
  BY <1>1, ReceiptsInvariant, PTL

(* What the Agent acknowledged does not come back: any open receipt of a   *)
(* fired request was consumed with the acknowledgement, or its save will   *)
(* find it consumed in the file.                                           *)
THEOREM AckedGone == Spec => AckedStaysAcked
<1> DEFINE A == \A v \in acked \ unsaved : v \notin inbox => v \notin inbox'
<1>1. RInv /\ [Next]_vars => [A]_vars
  <2> SUFFICES ASSUME RInv, Next, NEW v \in acked \ unsaved, v \notin inbox, v \in inbox'
               PROVE  FALSE
    OBVIOUS
  <2>1. v \in Versions /\ acked \subseteq Versions
    BY DEF RInv, IInv, TypeOK
  <2>2. PICK w \in Versions, mode \in Modes : /\ SaveAttempt(w, mode, TRUE) /\ inbox' = inbox \cup {w}
                                    /\ Open(Saved(w, slot[w]).receipt)
                                    /\ slot[w].receipt.server = "accepted"
    <3> USE DEF cloudVars, wireVars, schedulerVars, clockVars, historyVars, faultVars
    <3>1. CASE \E w \in Versions, mode \in Modes : SaveAttempt(w, mode, TRUE)
      BY <3>1 DEF SaveAttempt
    <3>2. CASE \E w \in Versions : SaveAttempt(w, "works", FALSE)
      BY <3>2 DEF SaveAttempt
    <3>3. CASE ~\E w \in Versions, mode \in Modes :
                  SaveAttempt(w, mode, TRUE) \/ SaveAttempt(w, "works", FALSE)
      <4>1. CASE \/ Schedule \/ Edit \/ Cancel \/ CloudClock \/ SendSnapshot \/ StaleTimer
                 \/ \E call \in calls : Fire(call)
                 \/ \E sync \in syncs, mode \in {"works", "unread"} : Apply(sync, mode)
        BY <4>1 DEF Schedule, Edit, Cancel, CloudClock, SendSnapshot, StaleTimer, Fire, Apply
      <4>2. ASSUME NEW u \in Versions, NEW mode, ReadWrite(u, mode) PROVE inbox' = inbox
        BY <4>2 DEF ReadWrite, Work, PrepareDue, ReceiptTimer, FireAnswered, WakeAnswered, AckReceipt
      <4>3. ASSUME NEW u \in Versions, NEW mode \in Modes, Write(u, mode) PROVE inbox' = inbox
        BY <3>3, <4>3 DEF Write, SaveExhausted
      <4>4. ASSUME NEW u \in Versions, RemoveItem(u) \/ DaemonClock(u) PROVE inbox' \subseteq inbox
        BY <4>4 DEF RemoveItem, DaemonClock
      <4>5. ASSUME NEW req \in Requests, DeadlinePasses(req) PROVE inbox' = inbox
        BY <4>5 DEF DeadlinePasses
      <4>6. CASE Failure
        BY <3>3, <4>6 DEF Modes, Failure, RemoveFails, RefuseWake, FireFails, LoseSync, RetentionPasses,
                          Reconnect, Crash
      <4>7. QED
        BY <4>1, <4>2, <4>3, <4>4, <4>5, <4>6 DEF Next, Modes
    <3>4. QED
      BY <3>1, <3>2, <3>3
  <2>3. w = v
    BY <2>2
  <2>4. Open(slot[v].receipt)
    BY <2>2, <2>3, RFacts, SlotTypes, SavedFields, MergedReceipt
  <2>5. /\ slot[v].receipt.req = fired[v] /\ Spoken(v, slot[v].receipt)
    BY <2>1, <2>2, <2>3, RFacts DEF VInv, Request, Vouches, Shown, Accepted
  <2>6. QED
    BY <2>4, <2>5 DEF Spoken, Seen
<1>2. Spec => [][A]_vars
  BY <1>1, ReceiptsInvariant, PTL DEF Spec
<1>3. QED
  BY <1>2 DEF AckedStaysAcked
=============================================================================
