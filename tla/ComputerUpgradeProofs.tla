------------------------ MODULE ComputerUpgradeProofs ------------------------
(***************************************************************************)
(* What an upgrade of a Computer promises for any number of upgrades, of   *)
(* every kind, and any failures.                                           *)
(***************************************************************************)
EXTENDS ComputerUpgrade, TLAPS

-----------------------------------------------------------------------------
(* The inductive invariant.                                                *)

Before == {"hold", "identify", "pause", "snapshot", "quiesce"}
Switching == {"manifest", "link", "start", "probe", "commit"}
Early == Before \cup {"stop"} \cup Switching
Late == {"resume", "resuming", "lift"}

(* A job owns its receipt until the receipt says how it ended.             *)
JobInv ==
  /\ job.phase = "none" <=> job.r = 0
  /\ job.r = 0 => job = NoJob
  /\ job.r # 0 => job.r <= Len(asked) /\ job.r \notin waiting
  /\ \A r \in waiting : r <= Len(asked) /\ receipt[r] = "none"
  /\ \A r \in Requests : receipt[r] # "none" => r <= Len(asked)
  /\ job.phase \in Early => job.why = "none" /\ receipt[job.r] = "none"
  /\ job.phase \in Late => /\ job.why # "none"
                           /\ receipt[job.r] = IF job.why = "abandoned" THEN "none" ELSE job.why
  /\ job.phase \in Before => job.mode = "candidate"

(* An operation that is settled as good has a good receipt.                *)
OpsInv == \A r \in Requests : ops[r] = "good" => Good(receipt[r])

(* Only a Coordinator that is up finishes something, and it has its mark.  *)
CoordInv ==
  /\ coord.finish # "none" => Up
  /\ coord.finish = "clear" => coord.held
  /\ Up => owner

(* The version that runs may not be the committed one.                     *)
Unsure ==
  \/ job.phase \in Switching
  \/ link # committed \/ manifest.current # committed
  \/ Up /\ coord.version # link

(* Nothing is launched: the hold is there and its upgrade is not settled   *)
(* as good, and the Coordinator was born under it.                         *)
Closed ==
  /\ hold # 0 /\ ~Good(receipt[hold])
  /\ ~unit.live /\ coord.finish = "none"
  /\ Up => coord.held /\ coord.paused
  /\ job.r = 0 \/ job.phase \in Switching \/ (job.phase = "stop" /\ job.mode = "restore")

(* Where the job is, the version it comes from is committed, and what it   *)
(* has switched so far is the version it switches to.                      *)
SwitchInv ==
  /\ job.phase \in Early => job.previous = committed
  /\ job.phase \in {"link", "start", "probe", "commit"} => manifest.current = Target
  /\ job.phase \in {"start", "probe", "commit"} => link = Target
  /\ job.phase = "commit" => (Up => coord.version = link)

(* Whose hold it is.                                                       *)
OwnHold ==
  /\ job.phase = "hold" => hold = 0
  /\ job.phase \in Early \ {"hold"} => hold = job.r
  /\ job.phase \in {"resume", "resuming"} =>
       hold = job.r \/ (hold = 0 /\ job.why # "abandoned")
  /\ job.phase = "lift" => hold = 0 \/ (hold = job.r /\ job.why = "abandoned")

(* A Coordinator born under a hold finishes the upgrade of that hold only, *)
(* and nothing when another one has begun.                                 *)
HeldInv ==
  /\ job.phase \in {"resume", "resuming"} /\ job.why # "abandoned" /\ Up =>
       (coord.held <=> hold # 0)
  /\ job.phase = "resume" /\ job.why = "abandoned" /\ coord.held => coord.finish = "none"
  /\ coord.held /\ coord.finish # "none" =>
       hold # 0 /\ job.phase \in {"none", "resume", "resuming"}
  /\ coord.held /\ coord.request # 0 =>
       (Good(receipt[coord.request]) => hold = coord.request)
  /\ ~owner => ~unit.live

LaunchInv ==
  ~overlaid => /\ Unsure => Closed
               /\ SwitchInv /\ OwnHold /\ HeldInv
               /\ unit.live => unit.version = committed

IInv == TypeOK /\ JobInv /\ OpsInv /\ CoordInv /\ LaunchInv

(* What CommittedStays says of a step.                                     *)
Keeps ==
  /\ \A r \in Requests : receipt[r] # "none" => receipt'[r] = receipt[r]
  /\ installed' # installed => job.r # 0 /\ receipt[job.r] = "none"

LEMMA Bounds ==
  /\ MaxUpgrades \in Nat \ {0} /\ MaxEvents \in Nat
  /\ 0 \in Versions /\ 1 \in Versions /\ 0 \in 0..MaxUpgrades
  /\ \A r \in Requests : r \in 0..MaxUpgrades /\ r + 1 \in Versions /\ r # 0
  /\ NoJob \in Jobs /\ NoJob.r = 0 /\ NoJob.phase = "none"
  BY UpgradeBounds DEF Versions, Requests, NoJob, Jobs

LEMMA JobFields ==
  ASSUME NEW j \in Jobs
  PROVE  /\ j.r \in 0..MaxUpgrades /\ (j.r # 0 => j.r \in Requests)
         /\ j.mode \in {"candidate", "restore"}
         /\ j.phase \in {"none"} \cup Early \cup Late
         /\ j.why \in {"none", "abandoned", "succeeded", "rolledBack"}
         /\ j.version \in Versions /\ j.previous \in Versions /\ j.rollback \in Versions
         /\ j.replaced \in BOOLEAN
  BY Bounds DEF Jobs, Early, Before, Switching, Late, Requests

Phases == {"none"} \cup Early \cup Late

(* A job that moves on to another phase.                                   *)
Moved(j, k) ==
  /\ k \in Jobs
  /\ k.r = j.r /\ k.mode = j.mode
  /\ k.version = j.version /\ k.previous = j.previous /\ k.rollback = j.rollback

LEMMA MovedJob ==
  ASSUME NEW j \in Jobs, NEW p \in Phases
  PROVE  /\ Moved(j, [j EXCEPT !.phase = p])
         /\ [j EXCEPT !.phase = p].phase = p /\ [j EXCEPT !.phase = p].why = j.why
         /\ Moved(j, [j EXCEPT !.phase = p, !.why = "abandoned"])
         /\ [j EXCEPT !.phase = p, !.why = "abandoned"].phase = p
         /\ [j EXCEPT !.phase = p, !.why = "abandoned"].why = "abandoned"
  BY DEF Moved, Jobs, Phases, Early, Before, Switching, Late

LEMMA GoesToMoves ==
  ASSUME job \in Jobs, NEW p \in Phases, GoesTo(p)
  PROVE  Moved(job, job') /\ job'.phase = p /\ job'.why = job.why
  BY MovedJob DEF GoesTo

LEMMA AbandonedMoves ==
  ASSUME job \in Jobs, NEW p \in Phases, job' = Abandoned(p)
  PROVE  Moved(job, job') /\ job'.phase = p /\ job'.why = "abandoned"
  BY MovedJob DEF Abandoned

(* A Coordinator that is starting: it is held if there is a hold, and then *)
(* it finishes only what is settled as good.                               *)
LEMMA BootsHeld ==
  ASSUME TypeOK, OpsInv, Boots
  PROVE  /\ coord' \in Coordinators /\ coord'.up = "boot" /\ coord'.version = link
         /\ coord'.held = (hold # 0) /\ coord'.paused = (hold # 0)
         /\ coord'.request # 0 => coord'.request = hold
         /\ coord'.held /\ coord'.finish # "none" => Good(receipt[hold])
         /\ coord'.finish # "clear"
         /\ owner' = TRUE /\ UNCHANGED <<hold, ops, unit>>
<1> DEFINE f == IF ~BootPaused THEN "launch"
                ELSE IF HeldRequest # 0 /\ ops[HeldRequest] = "good" THEN "resume" ELSE "none"
<1>1. HeldRequest \in 0..MaxUpgrades /\ (HeldRequest # 0 => HeldRequest = hold)
  BY Bounds DEF HeldRequest, TypeOK
<1>2. f \in {"none", "resume", "launch"} /\ (hold # 0 /\ f # "none" => Good(receipt[hold]))
  BY <1>1 DEF BootPaused, TypeOK, OpsInv, Requests
<1>3. coord' = [up |-> "boot", version |-> link, paused |-> hold # 0, held |-> hold # 0,
                request |-> HeldRequest, finish |-> f]
  BY DEF Boots, BootPaused
<1>4. coord' \in Coordinators
  BY <1>1, <1>2, <1>3 DEF Coordinators, TypeOK
<1>5. QED
  BY <1>1, <1>2, <1>3, <1>4 DEF Boots

(* No receipt becomes good, and none is rewritten.                         *)
SameReceipts ==
  \A r \in Requests : /\ Good(receipt'[r]) <=> Good(receipt[r])
                      /\ receipt[r] # "none" => receipt'[r] = receipt[r]

LEMMA SameGood ==
  ASSUME TypeOK, SameReceipts
  PROVE  /\ hold # 0 => (Good(receipt'[hold]) <=> Good(receipt[hold]))
         /\ coord.request # 0 => (Good(receipt'[coord.request]) <=> Good(receipt[coord.request]))
  BY UpgradeBounds DEF TypeOK, Coordinators, SameReceipts, Requests

(* A job that ends, and what it writes as its receipt.                     *)
Over ==
  /\ job' = NoJob
  /\ \/ receipt' = receipt
     \/ /\ job.r # 0 /\ receipt[job.r] = "none"
        /\ receipt' = [receipt EXCEPT ![job.r] = "failed"]

LEMMA OverJob ==
  ASSUME TypeOK, JobInv, Over, asked' = asked, waiting' = waiting
  PROVE  /\ receipt' \in [Requests -> {"none", "succeeded", "rolledBack", "failed"}]
         /\ JobInv'
         /\ SameReceipts
<1>1. CASE receipt' = receipt
  BY <1>1 DEF TypeOK, JobInv, Over, NoJob, Early, Before, Switching, Late, SameReceipts
<1>2. CASE /\ job.r # 0 /\ receipt[job.r] = "none"
           /\ receipt' = [receipt EXCEPT ![job.r] = "failed"]
  <2>1. job.r \in Requests /\ DOMAIN receipt = Requests
    BY <1>2, JobFields DEF TypeOK
  <2>2. \A r \in Requests : receipt'[r] = IF r = job.r THEN "failed" ELSE receipt[r]
    BY <1>2, <2>1
  <2>3. JobInv'
    BY <1>2, <2>1, <2>2 DEF TypeOK, JobInv, Over, NoJob, Early, Before, Switching, Late, Good
  <2>4. QED
    BY <1>2, <2>1, <2>2, <2>3 DEF TypeOK, Good, SameReceipts
<1>3. QED
  BY <1>1, <1>2 DEF Over

(* What a failed step of a switch leads to.                                *)
GivesUp ==
  \/ /\ job' \in Jobs /\ job'.phase = "stop" /\ job'.mode = "restore"
     /\ job'.r = job.r /\ job'.previous = job.previous /\ job'.why = job.why
     /\ receipt' = receipt
  \/ job' = NoJob

LEMMA FailsJob ==
  ASSUME TypeOK, JobInv, job.phase \in Switching \cup {"stop"}, Fails,
         asked' = asked, waiting' = waiting
  PROVE  /\ GivesUp /\ job' \in Jobs
         /\ receipt' \in [Requests -> {"none", "succeeded", "rolledBack", "failed"}]
         /\ JobInv'
         /\ SameReceipts
<1>1. job.why = "none" /\ receipt[job.r] = "none" /\ job.r # 0
  BY DEF JobInv, Early, Before, Switching
<1>2. CASE job.mode = "candidate"
  <2>1. /\ job' \in Jobs /\ job'.phase = "stop" /\ job'.mode = "restore"
        /\ job'.r = job.r /\ job'.previous = job.previous /\ job'.why = job.why
        /\ receipt' = receipt
    <3>1. job \in Jobs
      BY DEF TypeOK
    <3>2. job' = [job EXCEPT !.mode = "restore", !.phase = "stop"] /\ receipt' = receipt
      BY <1>2 DEF Fails
    <3>3. QED
      BY <3>1, <3>2 DEF Jobs
  <2>2. JobInv'
    BY <1>1, <2>1 DEF JobInv, Early, Before, Switching, Late
  <2>3. QED
    BY <2>1, <2>2 DEF GivesUp, TypeOK, SameReceipts
<1>3. CASE job.mode # "candidate"
  <2>1. Over /\ job' = NoJob
    BY <1>1, <1>3 DEF Fails, Over
  <2>2. QED
    BY <2>1, OverJob, Bounds DEF GivesUp
<1>4. QED
  BY <1>2, <1>3

(* What a step of a switch that goes well leads to.                        *)
GoesOn(phase) ==
  Moved(job, job') /\ job'.phase = phase /\ job'.why = job.why /\ receipt' = receipt

LEMMA ProceedsJob ==
  ASSUME TypeOK, JobInv, job.phase \in Switching \cup {"stop"}, NEW p \in Switching, Proceeds(p),
         asked' = asked, waiting' = waiting
  PROVE  /\ GoesOn(p) /\ job' \in Jobs
         /\ receipt' \in [Requests -> {"none", "succeeded", "rolledBack", "failed"}]
         /\ JobInv'
         /\ SameReceipts
<1>1. p \in Phases
  BY DEF Phases, Early
<1>2. GoesOn(p)
  BY <1>1, GoesToMoves DEF Proceeds, GoesOn, TypeOK
<1>3. JobInv'
  BY <1>2 DEF GoesOn, Moved, JobInv, Early, Before, Switching, Late
<1>4. QED
  BY <1>2, <1>3 DEF GoesOn, Moved, TypeOK, SameReceipts

(* What the answer of a resume leads to.                                   *)
Answered(ok) ==
  \/ job.phase # "resuming" /\ job' = job
  \/ job.phase = "resuming" /\ ok /\ Moved(job, job') /\ job'.phase = "lift" /\ job'.why = job.why
  \/ job.phase = "resuming" /\ ~ok /\ job' = NoJob

LEMMA EndsOver ==
  ASSUME JobInv, job.phase \in Late, Ends
  PROVE  Over
  BY Bounds DEF JobInv, Ends, Over, Late

LEMMA AnswersJob ==
  ASSUME TypeOK, JobInv, NEW ok \in BOOLEAN, Answers(ok), asked' = asked, waiting' = waiting
  PROVE  /\ Answered(ok) /\ job' \in Jobs
         /\ receipt' \in [Requests -> {"none", "succeeded", "rolledBack", "failed"}]
         /\ JobInv'
         /\ SameReceipts
<1>1. CASE ~At("resuming")
  BY <1>1 DEF Answers, Answered, TypeOK, JobInv, At, SameReceipts
<1>2. CASE At("resuming") /\ ok
  <2>1. "lift" \in Phases
    BY DEF Phases, Late
  <2>2. Moved(job, job') /\ job'.phase = "lift" /\ job'.why = job.why /\ receipt' = receipt
    BY <1>2, <2>1, GoesToMoves DEF Answers, Proceeds, TypeOK
  <2>3. JobInv'
    BY <1>2, <2>2 DEF JobInv, At, Moved, Early, Before, Switching, Late
  <2>4. QED
    BY <1>2, <2>2, <2>3 DEF Answered, Moved, At, TypeOK, SameReceipts
<1>3. CASE At("resuming") /\ ~ok
  <2>1. Over
    BY <1>3, EndsOver DEF Answers, At, Late
  <2>2. job' = NoJob
    BY <2>1 DEF Over
  <2>3. QED
    BY <1>3, <2>1, <2>2, OverJob, Bounds DEF Answered, At
<1>4. QED
  BY <1>1, <1>2, <1>3

LEMMA InitInv == Init => IInv
<1> SUFFICES ASSUME Init PROVE IInv
  OBVIOUS
<1> USE Bounds DEF Init
<1>1. TypeOK
  <2>1. asked \in Seq(Kinds) /\ Len(asked) <= MaxUpgrades
    BY Bounds
  <2>2. coord \in Coordinators /\ unit \in Units
    BY Bounds DEF Running, Coordinators, Units
  <2>3. manifest \in [current : Versions, previous : Versions] /\ link \in Versions
    BY Bounds
  <2>4. QED
    <3>1. receipt \in [Requests -> {"none", "succeeded", "rolledBack", "failed"}]
          /\ ops \in [Requests -> {"none", "pending", "good", "bad"}]
      OBVIOUS
    <3>2. job \in Jobs /\ events \in 0..MaxEvents /\ waiting \subseteq Requests
          /\ hold \in 0..MaxUpgrades /\ committed \in Versions
      BY Bounds
    <3>3. QED
      BY <2>1, <2>2, <2>3, <3>1, <3>2 DEF TypeOK
<1>2. JobInv /\ OpsInv /\ CoordInv
  BY DEF JobInv, OpsInv, CoordInv, NoJob, Running, Early, Before, Switching, Late, Up
<1>3. LaunchInv
  BY DEF LaunchInv, Unsure, Closed, SwitchInv, OwnHold, HeldInv, NoJob, Running,
     Early, Before, Switching, Late, Up
<1>4. QED
  BY <1>1, <1>2, <1>3 DEF IInv

LEMMA BeginStep ==
  ASSUME IInv, NEW r \in Requests, Begin(r)
  PROVE  IInv' /\ Keeps
<1> USE Bounds DEF IInv, Begin
<1>1. CASE job = NoJob /\ job' # NoJob
  <2> DEFINE v == IF asked[r] = "rollback" THEN manifest.previous ELSE r + 1
  <2>1. /\ job' = [r |-> r, phase |-> "hold", mode |-> "candidate", why |-> "none", version |-> v,
                   previous |-> manifest.current, rollback |-> manifest.previous, replaced |-> FALSE]
        /\ overlaid' = (overlaid \/ hold # 0) /\ UNCHANGED <<receipt, events>>
    BY <1>1 DEF NoJob, NoFault
  <2>2. v \in Versions /\ manifest.current \in Versions /\ manifest.previous \in Versions
    BY DEF TypeOK
  <2>3. job' \in Jobs
    BY <2>1, <2>2 DEF Jobs
  <2>4. TypeOK'
    BY <2>1, <2>3 DEF TypeOK, coordinator, installed
  <2>5. JobInv' /\ OpsInv' /\ CoordInv'
    BY <2>1 DEF JobInv, OpsInv, CoordInv, TypeOK, Early, Before, Switching, Late, Up, Good, coordinator
  <2>6. LaunchInv'
    <3> SUFFICES ASSUME ~overlaid' PROVE LaunchInv'
      BY DEF LaunchInv
    <3>1. ~overlaid /\ hold = 0
      BY <2>1
    <3>2. ~Unsure /\ ~Unsure'
      BY <1>1, <2>1, <3>1 DEF LaunchInv, Unsure, Closed, coordinator, installed, Switching, Up
    <3>3. SwitchInv' /\ OwnHold'
      BY <2>1, <3>1, <3>2 DEF SwitchInv, OwnHold, Early, Before, Switching, Late, Unsure
    <3>4. HeldInv'
      BY <2>1, <3>1, Bounds DEF LaunchInv, HeldInv, coordinator, Late
    <3>5. QED
      BY <3>1, <3>2, <3>3, <3>4 DEF LaunchInv, coordinator
  <2>7. Keeps
    BY <2>1 DEF Keeps
  <2>8. QED
    BY <2>4, <2>5, <2>6, <2>7
<1>2. CASE job' = job /\ receipt' = [receipt EXCEPT ![r] = "failed"]
  <2>1. TypeOK'
    <3>1. receipt' \in [Requests -> {"none", "succeeded", "rolledBack", "failed"}]
      BY <1>2 DEF TypeOK
    <3>2. events' \in 0..MaxEvents
      BY DEF TypeOK, Fault, NoFault
    <3>3. overlaid' \in BOOLEAN
      BY DEF TypeOK
    <3>4. QED
      BY <1>2, <3>1, <3>2, <3>3 DEF TypeOK, coordinator, installed
  <2>2. JobInv' /\ OpsInv' /\ CoordInv'
    BY <1>2 DEF JobInv, OpsInv, CoordInv, TypeOK, Early, Before, Switching, Late, Up, Good, coordinator
  <2>3. LaunchInv'
    BY <1>2
    DEF TypeOK, LaunchInv, Unsure, Closed, SwitchInv, OwnHold, HeldInv, Target, Good, Up,
        coordinator, installed
  <2>4. Keeps
    BY <1>2 DEF Keeps, JobInv, TypeOK
  <2>5. QED
    BY <2>1, <2>2, <2>3, <2>4
<1>3. QED
  BY <1>1, <1>2 DEF NoJob, Requests

LEMMA WriteHoldStep ==
  ASSUME IInv, WriteHold
  PROVE  IInv' /\ Keeps
<1> USE Bounds DEF IInv
<1>1. /\ job.phase = "hold" /\ Moved(job, job') /\ job'.phase = "identify" /\ job'.why = job.why
      /\ hold' = job.r /\ hold' \in 0..MaxUpgrades
      /\ UNCHANGED <<requests, installed, receipt, ops, coordinator, historyVars, events>>
  <2>1. "identify" \in Phases /\ job.r \in 0..MaxUpgrades
    BY JobFields DEF TypeOK, Phases, Early, Before, Switching, Late
  <2>2. QED
    BY <2>1, GoesToMoves DEF WriteHold, At, TypeOK
<1>2. TypeOK'
  BY <1>1 DEF TypeOK, Moved, requests, installed, coordinator, historyVars
<1>3. JobInv' /\ OpsInv' /\ CoordInv'
  BY <1>1 DEF TypeOK, JobInv, OpsInv, CoordInv, Moved, NoJob, Early, Before, Switching, Late, Up, Good,
     requests, coordinator
<1>4. LaunchInv'
  BY <1>1 DEF TypeOK, JobInv, OpsInv, CoordInv, LaunchInv, Unsure, Closed, SwitchInv, OwnHold, HeldInv, Target,
     Moved, NoJob, Early, Before, Switching, Late, Up, Good, requests, installed, coordinator, historyVars
<1>5. Keeps
  BY <1>1 DEF Keeps, JobInv, TypeOK, Early, Before, Switching, Late, installed
<1>6. QED
  BY <1>2, <1>3, <1>4, <1>5

LEMMA IdentifyStep ==
  ASSUME IInv, Identify
  PROVE  IInv' /\ Keeps
<1> USE Bounds DEF IInv
<1>1. /\ job.phase = "identify" /\ Moved(job, job')
      /\ \/ coord.up = "serving" /\ job'.phase = "pause" /\ job'.why = job.why
         \/ coord.up # "serving" /\ job'.phase = "lift" /\ job'.why = "abandoned"
      /\ UNCHANGED <<requests, installed, hold, receipt, ops, coordinator, historyVars, events>>
  <2>1. "pause" \in Phases /\ "lift" \in Phases
    BY DEF TypeOK, Phases, Early, Before, Switching, Late
  <2>2. QED
    BY <2>1, GoesToMoves, AbandonedMoves DEF Identify, At, TypeOK
<1>2. TypeOK'
  BY <1>1 DEF TypeOK, Moved, requests, installed, coordinator, historyVars
<1>3. JobInv' /\ OpsInv' /\ CoordInv'
  BY <1>1 DEF TypeOK, JobInv, OpsInv, CoordInv, Moved, NoJob, Early, Before, Switching, Late, Up, Good,
     requests, coordinator
<1>4. LaunchInv'
  BY <1>1 DEF TypeOK, JobInv, OpsInv, CoordInv, LaunchInv, Unsure, Closed, SwitchInv, OwnHold, HeldInv, Target,
     Moved, NoJob, Early, Before, Switching, Late, Up, Good, requests, installed, coordinator, historyVars
<1>5. Keeps
  BY <1>1 DEF Keeps, JobInv, TypeOK, Early, Before, Switching, Late, installed
<1>6. QED
  BY <1>2, <1>3, <1>4, <1>5

LEMMA PauseStep ==
  ASSUME IInv, Pause
  PROVE  IInv' /\ Keeps
<1> USE Bounds DEF IInv
<1>1. /\ job.phase = "pause"
      /\ \/ /\ Moved(job, job') /\ job'.phase = "snapshot" /\ job'.why = job.why
            /\ coord' \in Coordinators /\ coord'.paused
            /\ coord'.up = coord.up /\ coord'.version = coord.version /\ coord'.held = coord.held
            /\ coord'.request = coord.request /\ coord'.finish = coord.finish
            /\ UNCHANGED receipt
         \/ /\ job' = NoJob /\ receipt' = [receipt EXCEPT ![job.r] = "failed"]
            /\ UNCHANGED coord
      /\ UNCHANGED <<requests, installed, hold, ops, owner, unit, historyVars, events>>
  <2>1. "snapshot" \in Phases
    BY DEF TypeOK, Phases, Early, Before, Switching, Late
  <2> DEFINE c == [coord EXCEPT !.paused = TRUE]
  <2>2. /\ c \in Coordinators /\ c.paused /\ c.up = coord.up /\ c.version = coord.version
        /\ c.held = coord.held /\ c.request = coord.request /\ c.finish = coord.finish
    BY DEF TypeOK, Coordinators
  <2>3. QED
    BY <2>1, <2>2, GoesToMoves DEF Pause, At, TypeOK
<1>2. TypeOK'
  BY <1>1 DEF TypeOK, Moved, requests, installed, coordinator, historyVars
<1>3. JobInv' /\ OpsInv' /\ CoordInv'
  <2>1. CoordInv'
    BY <1>1 DEF CoordInv, Up, coordinator
  <2>2. CASE Moved(job, job') /\ job'.phase = "snapshot" /\ job'.why = job.why /\ UNCHANGED receipt
    BY <1>1, <2>1, <2>2 DEF TypeOK, JobInv, OpsInv, Moved, Early, Before, Switching, Late, Good, requests
  <2>3. CASE job' = NoJob /\ receipt' = [receipt EXCEPT ![job.r] = "failed"]
    <3>1. Over
      BY <1>1, <2>3, Bounds DEF Over, JobInv, Early, Before
    <3>2. JobInv' /\ SameReceipts
      BY <1>1, <3>1, OverJob DEF requests
    <3>3. QED
      BY <1>1, <2>1, <3>2 DEF OpsInv, SameReceipts
  <2>4. QED
    BY <1>1, <2>1, <2>2, <2>3
<1>4. LaunchInv'
  <2> USE DEF TypeOK, JobInv, OpsInv, CoordInv, LaunchInv, Unsure, Closed, SwitchInv, OwnHold, HeldInv,
          Target, Moved, Early, Before, Switching, Late, Up, Good, coordinator, installed, historyVars
  <2>2. CASE job'.phase = "snapshot"
    BY <1>1, <2>2
  <2>3. CASE job' = NoJob /\ receipt' = [receipt EXCEPT ![job.r] = "failed"]
    BY <1>1, <2>3, JobFields DEF NoJob
  <2>4. QED
    BY <1>1, <2>2, <2>3
<1>5. Keeps
  BY <1>1 DEF Keeps, JobInv, TypeOK, Early, Before, Switching, Late, installed
<1>6. QED
  BY <1>2, <1>3, <1>4, <1>5

LEMMA SnapshotStep ==
  ASSUME IInv, Snapshot
  PROVE  IInv' /\ Keeps
<1> USE Bounds DEF IInv
<1>1. /\ job.phase = "snapshot" /\ Moved(job, job')
      /\ \/ job'.phase = "quiesce" /\ job'.why = job.why
         \/ job'.phase = "resume" /\ job'.why = "abandoned"
      /\ UNCHANGED <<requests, installed, hold, receipt, ops, coordinator, historyVars, events>>
  <2>1. "quiesce" \in Phases /\ "resume" \in Phases
    BY DEF TypeOK, Phases, Early, Before, Switching, Late
  <2>2. CASE coord.up = "serving" /\ unit.live
    <3>1. job \in Jobs /\ job.phase = "snapshot"
      BY DEF TypeOK, Snapshot, At
    <3>2. /\ job' = [job EXCEPT !.phase = "quiesce", !.replaced = FALSE]
          /\ UNCHANGED <<requests, installed, hold, receipt, ops, coordinator, historyVars,
                         events>>
      BY <2>2 DEF Snapshot
    <3>3. Moved(job, job') /\ job'.phase = "quiesce" /\ job'.why = job.why
      BY <3>1, <3>2 DEF Moved, Jobs
    <3>4. QED
      BY <3>1, <3>2, <3>3
  <2>3. CASE ~(coord.up = "serving" /\ unit.live)
    BY <2>1, <2>3, AbandonedMoves DEF Snapshot, At, TypeOK
  <2>4. QED
    BY <2>2, <2>3
<1>2. TypeOK'
  BY <1>1 DEF TypeOK, Moved, requests, installed, coordinator, historyVars
<1>3. JobInv' /\ OpsInv' /\ CoordInv'
  BY <1>1 DEF TypeOK, JobInv, OpsInv, CoordInv, Moved, NoJob, Early, Before, Switching, Late, Up, Good,
     requests, coordinator
<1>4. LaunchInv'
  BY <1>1 DEF TypeOK, JobInv, OpsInv, CoordInv, LaunchInv, Unsure, Closed, SwitchInv, OwnHold, HeldInv, Target,
     Moved, NoJob, Early, Before, Switching, Late, Up, Good, requests, installed, coordinator, historyVars
<1>5. Keeps
  BY <1>1 DEF Keeps, JobInv, TypeOK, Early, Before, Switching, Late, installed
<1>6. QED
  BY <1>2, <1>3, <1>4, <1>5

LEMMA HoldRunnersStep ==
  ASSUME IInv, HoldRunners
  PROVE  IInv' /\ Keeps
<1> USE Bounds DEF IInv
<1>1. /\ job.phase = "quiesce" /\ Moved(job, job') /\ job'.phase = "stop" /\ job'.why = job.why
      /\ unit' \in Units /\ unit'.live = unit.live /\ unit'.version = unit.version
      /\ UNCHANGED <<requests, installed, hold, receipt, ops, coord, owner, historyVars, events>>
  <2>1. "stop" \in Phases
    BY DEF TypeOK, Phases, Early, Before, Switching, Late
  <2>2. unit' \in Units /\ unit'.live = unit.live /\ unit'.version = unit.version
    BY DEF HoldRunners, TypeOK, Units
  <2>3. QED
    BY <2>1, <2>2, GoesToMoves DEF HoldRunners, At, TypeOK
<1>2. TypeOK'
  BY <1>1 DEF TypeOK, Moved, requests, installed, coordinator, historyVars
<1>3. JobInv' /\ OpsInv' /\ CoordInv'
  BY <1>1 DEF TypeOK, JobInv, OpsInv, CoordInv, Moved, NoJob, Early, Before, Switching, Late, Up, Good,
     requests, coordinator
<1>4. LaunchInv'
  BY <1>1 DEF TypeOK, JobInv, OpsInv, CoordInv, LaunchInv, Unsure, Closed, SwitchInv, OwnHold, HeldInv, Target,
     Moved, NoJob, Early, Before, Switching, Late, Up, Good, requests, installed, coordinator, historyVars
<1>5. Keeps
  BY <1>1 DEF Keeps, JobInv, TypeOK, Early, Before, Switching, Late, installed
<1>6. QED
  BY <1>2, <1>3, <1>4, <1>5

LEMMA LiftStep ==
  ASSUME IInv, Lift
  PROVE  IInv' /\ Keeps
<1> USE Bounds DEF IInv
<1>1. /\ job.phase = "lift" /\ hold' = 0 /\ job' = NoJob
      /\ receipt' = IF job.why = "abandoned" THEN [receipt EXCEPT ![job.r] = "failed"] ELSE receipt
      /\ UNCHANGED <<requests, installed, ops, coordinator, historyVars, events>>
  BY DEF Lift, At, Ends
<1>2. TypeOK'
  BY <1>1 DEF TypeOK, Moved, requests, installed, coordinator, historyVars
<1>3. JobInv' /\ OpsInv' /\ CoordInv'
  BY <1>1 DEF TypeOK, JobInv, OpsInv, CoordInv, Moved, NoJob, Early, Before, Switching, Late, Up, Good,
     requests, coordinator
<1>4. LaunchInv'
  BY <1>1 DEF TypeOK, JobInv, OpsInv, CoordInv, LaunchInv, Unsure, Closed, SwitchInv, OwnHold, HeldInv, Target,
     Moved, NoJob, Early, Before, Switching, Late, Up, Good, requests, installed, coordinator, historyVars
<1>5. Keeps
  BY <1>1 DEF Keeps, JobInv, TypeOK, Early, Before, Switching, Late, installed
<1>6. QED
  BY <1>2, <1>3, <1>4, <1>5

LEMMA LoseAnswerStep ==
  ASSUME IInv, LoseAnswer
  PROVE  IInv' /\ Keeps
<1> USE Bounds DEF IInv
<1>1. /\ job.phase = "resuming" /\ job' = NoJob /\ events' \in 0..MaxEvents
      /\ receipt' = IF job.why = "abandoned" THEN [receipt EXCEPT ![job.r] = "failed"] ELSE receipt
      /\ UNCHANGED <<requests, installed, hold, ops, coordinator, historyVars>>
  BY DEF LoseAnswer, At, Ends, Fault, TypeOK
<1>2. TypeOK'
  BY <1>1 DEF TypeOK, Moved, requests, installed, coordinator, historyVars
<1>3. JobInv' /\ OpsInv' /\ CoordInv'
  BY <1>1 DEF TypeOK, JobInv, OpsInv, CoordInv, Moved, NoJob, Early, Before, Switching, Late, Up, Good,
     requests, coordinator
<1>4. LaunchInv'
  BY <1>1 DEF TypeOK, JobInv, OpsInv, CoordInv, LaunchInv, Unsure, Closed, SwitchInv, OwnHold, HeldInv, Target,
     Moved, NoJob, Early, Before, Switching, Late, Up, Good, requests, installed, coordinator, historyVars
<1>5. Keeps
  BY <1>1 DEF Keeps, JobInv, TypeOK, Early, Before, Switching, Late, installed
<1>6. QED
  BY <1>2, <1>3, <1>4, <1>5

LEMMA ServeStep ==
  ASSUME IInv, Serve
  PROVE  IInv' /\ Keeps
<1> USE Bounds DEF IInv
<1>1. /\ coord.up = "boot" /\ coord.finish = "none"
      /\ coord' \in Coordinators /\ coord' = [coord EXCEPT !.up = "serving"]
      /\ UNCHANGED <<requests, job, installed, hold, receipt, ops, owner, unit, historyVars, events>>
  <2>1. [coord EXCEPT !.up = "serving"] \in Coordinators
    BY DEF TypeOK, Coordinators
  <2>2. QED
    BY <2>1 DEF Serve
<1>2. TypeOK'
  BY <1>1 DEF TypeOK, Moved, requests, installed, coordinator, historyVars
<1>3. JobInv' /\ OpsInv' /\ CoordInv'
  BY <1>1 DEF TypeOK, JobInv, OpsInv, CoordInv, Moved, NoJob, Early, Before, Switching, Late, Up, Good,
     requests, coordinator
<1>4. LaunchInv'
  BY <1>1 DEF TypeOK, JobInv, OpsInv, CoordInv, LaunchInv, Unsure, Closed, SwitchInv, OwnHold, HeldInv, Target,
     Moved, NoJob, Early, Before, Switching, Late, Up, Good, requests, installed, coordinator, historyVars
<1>5. Keeps
  BY <1>1 DEF Keeps, JobInv, TypeOK, Early, Before, Switching, Late, installed
<1>6. QED
  BY <1>2, <1>3, <1>4, <1>5

LEMMA OsStartStep ==
  ASSUME IInv, OsStart
  PROVE  IInv' /\ Keeps
<1> USE Bounds DEF IInv
<1>1. /\ coord.up = "failed" /\ Boots /\ coord' \in Coordinators
      /\ \/ UNCHANGED job
         \/ Moved(job, job') /\ job'.phase = job.phase /\ job'.why = job.why /\ job.r # 0
      /\ events' \in 0..MaxEvents
      /\ UNCHANGED <<requests, installed, receipt, ops, hold, unit, historyVars>> /\ owner' = TRUE
  <2>1. \/ UNCHANGED job
        \/ Moved(job, job') /\ job'.phase = job.phase /\ job'.why = job.why /\ job.r # 0
    BY DEF OsStart, Replaced, TypeOK, Jobs, Moved, JobInv
  <2>2. events' \in 0..MaxEvents
    BY DEF OsStart, Fault, TypeOK
  <2>3. QED
    BY <2>1, <2>2, BootsHeld DEF OsStart
<1>2. TypeOK'
  BY <1>1 DEF TypeOK, Moved, requests, installed, coordinator, historyVars
<1>3. JobInv' /\ OpsInv' /\ CoordInv'
  BY <1>1, BootsHeld DEF TypeOK, JobInv, OpsInv, CoordInv, Moved, NoJob, Early, Before, Switching, Late, Up, Good,
     requests, coordinator
<1>4. LaunchInv'
  <2> USE <1>1, BootsHeld DEF TypeOK, JobInv, OpsInv, CoordInv, LaunchInv, Moved, NoJob,
          Early, Before, Switching, Late, Up, Good, requests, installed, coordinator, historyVars
  <2>1. ~overlaid' => (Unsure' => Closed')
    BY DEF Unsure, Closed, OwnHold, HeldInv
  <2>2. ~overlaid' => SwitchInv'
    BY DEF SwitchInv, Target, Unsure, Closed
  <2>3. ~overlaid' => OwnHold'
    BY DEF OwnHold, HeldInv
  <2>4. ~overlaid' => HeldInv'
    <3> HIDE <1>1
    <3> SUFFICES ASSUME ~overlaid PROVE HeldInv'
      BY <1>1
    <3>1. job'.phase = job.phase /\ job'.why = job.why /\ job'.r = job.r /\ receipt' = receipt
      BY <1>1
    <3>2. /\ coord'.held = (hold # 0) /\ hold' = hold /\ owner' = TRUE
          /\ coord'.request # 0 => coord'.request = hold
      BY <1>1, BootsHeld
    <3>3. coord'.held /\ coord'.finish # "none" =>
            /\ job.phase \in {"none", "resume", "resuming"}
            /\ ~(job.phase = "resume" /\ job.why = "abandoned")
      BY <1>1, BootsHeld, JobFields DEF OwnHold
    <3>4. QED
      BY <3>1, <3>2, <3>3 DEF HeldInv
  <2>5. ~overlaid' => (unit'.live => unit'.version = committed')
    BY DEF Unsure, Closed
  <2>6. QED
    BY <2>1, <2>2, <2>3, <2>4, <2>5
<1>5. Keeps
  BY <1>1 DEF Keeps, JobInv, TypeOK, Early, Before, Switching, Late, installed
<1>6. QED
  BY <1>2, <1>3, <1>4, <1>5

LEMMA OperatorStartStep ==
  ASSUME IInv, OperatorStart
  PROVE  IInv' /\ Keeps
<1> USE Bounds DEF IInv
<1>1. /\ coord.up = "stopped" /\ Boots /\ coord' \in Coordinators
      /\ \/ UNCHANGED job
         \/ Moved(job, job') /\ job'.phase = job.phase /\ job'.why = job.why /\ job.r # 0
      /\ events' \in 0..MaxEvents
      /\ UNCHANGED <<requests, installed, receipt, ops, hold, unit, historyVars>> /\ owner' = TRUE
  <2>1. \/ UNCHANGED job
        \/ Moved(job, job') /\ job'.phase = job.phase /\ job'.why = job.why /\ job.r # 0
    BY DEF OperatorStart, Replaced, TypeOK, Jobs, Moved, JobInv
  <2>2. events' \in 0..MaxEvents
    BY DEF OperatorStart, Fault, TypeOK
  <2>3. QED
    BY <2>1, <2>2, BootsHeld DEF OperatorStart
<1>2. TypeOK'
  BY <1>1 DEF TypeOK, Moved, requests, installed, coordinator, historyVars
<1>3. JobInv' /\ OpsInv' /\ CoordInv'
  BY <1>1, BootsHeld DEF TypeOK, JobInv, OpsInv, CoordInv, Moved, NoJob, Early, Before, Switching, Late, Up, Good,
     requests, coordinator
<1>4. LaunchInv'
  <2> USE <1>1, BootsHeld DEF TypeOK, JobInv, OpsInv, CoordInv, LaunchInv, Moved, NoJob,
          Early, Before, Switching, Late, Up, Good, requests, installed, coordinator, historyVars
  <2>1. ~overlaid' => (Unsure' => Closed')
    BY DEF Unsure, Closed, OwnHold, HeldInv
  <2>2. ~overlaid' => SwitchInv'
    BY DEF SwitchInv, Target, Unsure, Closed
  <2>3. ~overlaid' => OwnHold'
    BY DEF OwnHold, HeldInv
  <2>4. ~overlaid' => HeldInv'
    <3> HIDE <1>1
    <3> SUFFICES ASSUME ~overlaid PROVE HeldInv'
      BY <1>1
    <3>1. job'.phase = job.phase /\ job'.why = job.why /\ job'.r = job.r /\ receipt' = receipt
      BY <1>1
    <3>2. /\ coord'.held = (hold # 0) /\ hold' = hold /\ owner' = TRUE
          /\ coord'.request # 0 => coord'.request = hold
      BY <1>1, BootsHeld
    <3>3. coord'.held /\ coord'.finish # "none" =>
            /\ job.phase \in {"none", "resume", "resuming"}
            /\ ~(job.phase = "resume" /\ job.why = "abandoned")
      BY <1>1, BootsHeld, JobFields DEF OwnHold
    <3>4. QED
      BY <3>1, <3>2, <3>3 DEF HeldInv
  <2>5. ~overlaid' => (unit'.live => unit'.version = committed')
    BY DEF Unsure, Closed
  <2>6. QED
    BY <2>1, <2>2, <2>3, <2>4, <2>5
<1>5. Keeps
  BY <1>1 DEF Keeps, JobInv, TypeOK, Early, Before, Switching, Late, installed
<1>6. QED
  BY <1>2, <1>3, <1>4, <1>5

LEMMA RequestRemoteStep ==
  ASSUME IInv, RequestRemote
  PROVE  IInv' /\ Keeps
<1> USE Bounds DEF IInv
<1>1. /\ asked' \in Seq(Kinds) /\ Len(asked') = Len(asked) + 1 /\ Len(asked) + 1 \in Requests
      /\ waiting' \in {waiting, waiting \cup {Len(asked) + 1}}
      /\ ops' \in [Requests -> {"none", "pending", "good", "bad"}]
      /\ \A r \in Requests : ops'[r] = "good" => Good(receipt[r])
      /\ events' \in 0..MaxEvents
      /\ UNCHANGED <<job, installed, hold, receipt, coordinator, historyVars>>
  <2> DEFINE n == Len(asked) + 1
             blocking == {p \in Requests : Pending(p)}
             opened == [p \in Requests |-> IF p \in blocking THEN Settled(p)[p] ELSE ops[p]]
  <2>1. n \in Requests /\ asked' = Append(asked, "remote") /\ "remote" \in Kinds
    BY DEF RequestRemote
  <2>2. asked' \in Seq(Kinds) /\ Len(asked') = n
    BY <2>1 DEF TypeOK
  <2>3. \A p \in Requests : Settled(p)[p] = IF Good(receipt[p]) THEN "good" ELSE "bad"
    BY DEF Settled, TypeOK
  <2>4. /\ opened \in [Requests -> {"none", "pending", "good", "bad"}]
        /\ \A p \in Requests : opened[p] = "good" => Good(receipt[p])
    BY <2>3 DEF TypeOK, OpsInv
  <2>5. ops' = [opened EXCEPT ![n] = "pending"] \/ ops' = [opened EXCEPT ![n] = "bad"]
    BY DEF RequestRemote
  <2>6. ops' \in [Requests -> {"none", "pending", "good", "bad"}] /\ (\A r \in Requests : ops'[r] = "good" => Good(receipt[r]))
    <3> HIDE DEF opened, n
    <3>1. QED
      BY <2>4, <2>5
  <2>7. waiting' \in {waiting, waiting \cup {n}} /\ events' \in 0..MaxEvents
    BY DEF RequestRemote, Fault, NoFault, TypeOK
  <2>8. QED
    BY <2>1, <2>2, <2>6, <2>7 DEF RequestRemote
<1>2. TypeOK'
  <2>1. Len(asked') <= MaxUpgrades /\ waiting' \subseteq Requests
    BY <1>1 DEF TypeOK, Requests
  <2>2. QED
    BY <1>1, <2>1 DEF TypeOK, installed, coordinator, historyVars
<1>3. JobInv' /\ OpsInv' /\ CoordInv'
  <2>1. Len(asked) \in Nat /\ waiting \subseteq Requests /\ job.r \in Nat /\ Requests \subseteq Nat
    BY JobFields DEF TypeOK, Requests
  <2>2. receipt[Len(asked) + 1] = "none" /\ job.r # Len(asked) + 1
    BY <1>1, <2>1 DEF JobInv, Requests
  <2>3. JobInv'
    BY <1>1, <2>1, <2>2 DEF JobInv
  <2>4. OpsInv' /\ CoordInv'
    BY <1>1 DEF OpsInv, CoordInv, Up, coordinator
  <2>5. QED
    BY <2>3, <2>4
<1>4. LaunchInv'
  BY <1>1 DEF LaunchInv, Unsure, Closed, SwitchInv, Target, OwnHold, HeldInv, Up,
     installed, coordinator, historyVars
<1>5. Keeps
  BY <1>1 DEF Keeps, JobInv, TypeOK, Early, Before, Switching, Late, SameReceipts, installed
<1>6. QED
  BY <1>2, <1>3, <1>4, <1>5

LEMMA RequestCliStep ==
  ASSUME IInv, NEW kind, RequestCli(kind)
  PROVE  IInv' /\ Keeps
<1> USE Bounds DEF IInv
<1>1. /\ asked' \in Seq(Kinds) /\ Len(asked') = Len(asked) + 1 /\ Len(asked) + 1 \in Requests
      /\ waiting' = waiting \cup {Len(asked) + 1}
      /\ UNCHANGED <<job, installed, hold, receipt, ops, coordinator, historyVars, events>>
  BY DEF RequestCli, TypeOK
<1>2. TypeOK'
  <2>1. Len(asked') <= MaxUpgrades
    BY <1>1 DEF Requests
  <2>2. waiting' \subseteq Requests
    BY <1>1 DEF TypeOK
  <2>3. QED
    BY <1>1, <2>1, <2>2 DEF TypeOK, installed, coordinator, historyVars
<1>3. JobInv' /\ OpsInv' /\ CoordInv'
  <2>1. Len(asked) \in Nat /\ waiting \subseteq Requests /\ job.r \in Nat /\ Requests \subseteq Nat
    BY JobFields DEF TypeOK, Requests
  <2>2. receipt[Len(asked) + 1] = "none" /\ job.r # Len(asked) + 1
    BY <1>1, <2>1 DEF JobInv, Requests
  <2>3. JobInv'
    BY <1>1, <2>1, <2>2 DEF JobInv
  <2>4. OpsInv' /\ CoordInv'
    BY <1>1 DEF OpsInv, CoordInv, Up, coordinator
  <2>5. QED
    BY <2>3, <2>4
<1>4. LaunchInv'
  BY <1>1 DEF LaunchInv, Unsure, Closed, SwitchInv, Target, OwnHold, HeldInv, Up,
     installed, coordinator, historyVars
<1>5. Keeps
  BY <1>1 DEF Keeps, JobInv, TypeOK, Early, Before, Switching, Late, SameReceipts, installed
<1>6. QED
  BY <1>2, <1>3, <1>4, <1>5

LEMMA ExpireStep ==
  ASSUME IInv, NEW r \in Requests, Expire(r)
  PROVE  IInv' /\ Keeps
<1> USE Bounds DEF IInv
<1>1. /\ ops' \in [Requests -> {"none", "pending", "good", "bad"}]
      /\ \A p \in Requests : ops'[p] = "good" => Good(receipt[p])
      /\ events' \in 0..MaxEvents
      /\ UNCHANGED <<requests, job, installed, hold, receipt, coordinator, historyVars>>
  BY DEF Expire, Fault, TypeOK, OpsInv
<1>2. TypeOK'
  BY <1>1 DEF TypeOK, requests, installed, coordinator, historyVars
<1>3. JobInv' /\ OpsInv' /\ CoordInv'
  BY <1>1 DEF TypeOK, JobInv, OpsInv, CoordInv, Up, requests, coordinator
<1>4. LaunchInv'
  BY <1>1 DEF LaunchInv, Unsure, Closed, SwitchInv, Target, OwnHold, HeldInv, Up,
     installed, coordinator, historyVars
<1>5. Keeps
  BY <1>1 DEF Keeps, JobInv, TypeOK, Early, Before, Switching, Late, SameReceipts, installed
<1>6. QED
  BY <1>2, <1>3, <1>4, <1>5

LEMMA WatchReceiptStep ==
  ASSUME IInv, NEW r \in Requests, WatchReceipt(r)
  PROVE  IInv' /\ Keeps
<1> USE Bounds DEF IInv
<1>1. /\ ops' \in [Requests -> {"none", "pending", "good", "bad"}]
      /\ \A p \in Requests : ops'[p] = "good" => Good(receipt[p])
      /\ Up /\ coord' \in Coordinators /\ coord'.paused = coord.paused
      /\ coord'.up = coord.up /\ coord'.version = coord.version /\ coord'.held = coord.held
      /\ coord'.request = coord.request
      /\ \/ coord'.finish = coord.finish
         \/ /\ coord.held /\ coord.request = r /\ Good(receipt[r])
            /\ coord.finish = "none" /\ coord'.finish = "resume"
      /\ UNCHANGED <<requests, job, installed, hold, receipt, owner, unit, historyVars, events>>
  <2>1. ops' \in [Requests -> {"none", "pending", "good", "bad"}] /\ (\A p \in Requests : ops'[p] = "good" => Good(receipt[p]))
    BY DEF WatchReceipt, Settled, TypeOK, OpsInv
  <2>2. CASE coord' = coord
    BY <2>1, <2>2 DEF WatchReceipt, TypeOK
  <2>3. CASE coord' # coord
    <3>1. /\ Owns(r) /\ coord.finish = "none" /\ Good(receipt[r])
          /\ coord' = [coord EXCEPT !.finish = "resume"]
      BY <2>3 DEF WatchReceipt
    <3>2. /\ coord' \in Coordinators /\ coord'.paused = coord.paused /\ coord'.finish = "resume"
          /\ coord'.up = coord.up /\ coord'.version = coord.version /\ coord'.held = coord.held
          /\ coord'.request = coord.request
      BY <3>1 DEF TypeOK, Coordinators
    <3>3. QED
      BY <2>1, <3>1, <3>2 DEF WatchReceipt, Owns
  <2>4. QED
    BY <2>2, <2>3
<1>2. TypeOK'
  BY <1>1 DEF TypeOK, Moved, requests, installed, coordinator, historyVars
<1>3. JobInv' /\ OpsInv' /\ CoordInv'
  BY <1>1 DEF TypeOK, JobInv, OpsInv, CoordInv, Moved, NoJob, Early, Before, Switching, Late, Up, Good,
     SameReceipts, requests, coordinator
<1>4. LaunchInv'
  <2> USE <1>1, JobFields DEF TypeOK, JobInv, OpsInv, CoordInv, LaunchInv, Moved, NoJob,
          Early, Before, Switching, Late, Up, Good, SameReceipts, requests, installed, coordinator, historyVars
  <2>1. ~overlaid' => (Unsure' => Closed')
    BY DEF Unsure, Closed, OwnHold, HeldInv
  <2>2. ~overlaid' => SwitchInv'
    BY DEF SwitchInv, Target, Unsure, Closed
  <2>3. ~overlaid' => OwnHold'
    BY DEF OwnHold, HeldInv
  <2>4. ~overlaid' => HeldInv'
    BY DEF HeldInv, Unsure, Closed, OwnHold
  <2>5. ~overlaid' => (unit'.live => unit'.version = committed')
    BY DEF Unsure, Closed
  <2>6. QED
    BY <2>1, <2>2, <2>3, <2>4, <2>5
<1>5. Keeps
  BY <1>1 DEF Keeps, JobInv, TypeOK, Early, Before, Switching, Late, SameReceipts, installed
<1>6. QED
  BY <1>2, <1>3, <1>4, <1>5

LEMMA FinishResumeStep ==
  ASSUME IInv, FinishResume
  PROVE  IInv' /\ Keeps
<1> USE Bounds DEF IInv
<1>1. /\ coord.finish = "resume" /\ coord' \in Coordinators /\ coord'.finish = "launch"
      /\ coord'.up = coord.up /\ coord'.version = coord.version /\ coord'.held = coord.held
      /\ coord'.request = coord.request
      /\ UNCHANGED <<requests, job, installed, hold, receipt, ops, owner, unit, historyVars, events>>
  BY DEF FinishResume, TypeOK, Coordinators
<1>2. TypeOK'
  BY <1>1 DEF TypeOK, Moved, requests, installed, coordinator, historyVars
<1>3. JobInv' /\ OpsInv' /\ CoordInv'
  BY <1>1 DEF TypeOK, JobInv, OpsInv, CoordInv, Moved, NoJob, Early, Before, Switching, Late, Up, Good,
     SameReceipts, requests, coordinator
<1>4. LaunchInv'
  <2> USE <1>1 DEF TypeOK, JobInv, OpsInv, CoordInv, LaunchInv, Moved, NoJob,
          Early, Before, Switching, Late, Up, Good, SameReceipts, requests, installed, coordinator, historyVars
  <2>1. ~overlaid' => (Unsure' => Closed')
    BY DEF Unsure, Closed, OwnHold, HeldInv
  <2>2. ~overlaid' => SwitchInv'
    BY DEF SwitchInv, Target, Unsure, Closed
  <2>3. ~overlaid' => OwnHold'
    BY DEF OwnHold, HeldInv
  <2>4. ~overlaid' => HeldInv'
    BY DEF HeldInv, Unsure, Closed, OwnHold
  <2>5. ~overlaid' => (unit'.live => unit'.version = committed')
    BY DEF Unsure, Closed
  <2>6. QED
    BY <2>1, <2>2, <2>3, <2>4, <2>5
<1>5. Keeps
  BY <1>1 DEF Keeps, JobInv, TypeOK, Early, Before, Switching, Late, SameReceipts, installed
<1>6. QED
  BY <1>2, <1>3, <1>4, <1>5

LEMMA JobDiesStep ==
  ASSUME IInv, JobDies
  PROVE  IInv' /\ Keeps
<1> USE Bounds DEF IInv
<1>1. /\ events' \in 0..MaxEvents
      /\ \/ job' = NoJob /\ UNCHANGED waiting
         \/ waiting' \subseteq waiting /\ UNCHANGED job
      /\ UNCHANGED <<asked, installed, hold, receipt, ops, coordinator, historyVars>>
  BY DEF JobDies, Fault, TypeOK
<1>2. TypeOK'
  BY <1>1 DEF TypeOK, Moved, requests, installed, coordinator, historyVars
<1>3. JobInv' /\ OpsInv' /\ CoordInv'
  BY <1>1 DEF TypeOK, JobInv, OpsInv, CoordInv, Moved, NoJob, Early, Before, Switching, Late, Up, Good,
     SameReceipts, requests, coordinator
<1>4. LaunchInv'
  <2> USE <1>1 DEF TypeOK, JobInv, OpsInv, CoordInv, LaunchInv, Moved, NoJob,
          Early, Before, Switching, Late, Up, Good, SameReceipts, requests, installed, coordinator, historyVars
  <2>1. ~overlaid' => (Unsure' => Closed')
    BY DEF Unsure, Closed, OwnHold, HeldInv
  <2>2. ~overlaid' => SwitchInv'
    BY DEF SwitchInv, Target, Unsure, Closed
  <2>3. ~overlaid' => OwnHold'
    BY DEF OwnHold, HeldInv
  <2>4. ~overlaid' => HeldInv'
    BY DEF HeldInv, Unsure, Closed, OwnHold
  <2>5. ~overlaid' => (unit'.live => unit'.version = committed')
    BY DEF Unsure, Closed
  <2>6. QED
    BY <2>1, <2>2, <2>3, <2>4, <2>5
<1>5. Keeps
  BY <1>1 DEF Keeps, JobInv, TypeOK, Early, Before, Switching, Late, SameReceipts, installed
<1>6. QED
  BY <1>2, <1>3, <1>4, <1>5

LEMMA RebootStep ==
  ASSUME IInv, Reboot
  PROVE  IInv' /\ Keeps
<1> USE Bounds DEF IInv
<1>1. /\ events' \in 0..MaxEvents /\ job' = NoJob /\ waiting' = {}
      /\ coord' \in Coordinators /\ coord'.up = "failed" /\ coord'.finish = "none"
      /\ coord'.held = coord.held /\ coord'.request = coord.request
      /\ unit' \in Units /\ ~unit'.live
      /\ UNCHANGED <<asked, installed, hold, receipt, ops, owner, historyVars>>
  <2>1. /\ coord' \in Coordinators /\ coord'.up = "failed" /\ coord'.finish = "none"
        /\ coord'.held = coord.held /\ coord'.request = coord.request
    BY DEF Reboot, Failed, TypeOK, Coordinators
  <2>2. unit' \in Units /\ ~unit'.live
    BY DEF Reboot, TypeOK, Units
  <2>3. events' \in 0..MaxEvents
    BY DEF Reboot, Fault, TypeOK
  <2>4. QED
    BY <2>1, <2>2, <2>3 DEF Reboot
<1>2. TypeOK'
  BY <1>1 DEF TypeOK, Moved, requests, installed, coordinator, historyVars
<1>3. JobInv' /\ OpsInv' /\ CoordInv'
  BY <1>1 DEF TypeOK, JobInv, OpsInv, CoordInv, Moved, NoJob, Early, Before, Switching, Late, Up, Good,
     SameReceipts, requests, coordinator
<1>4. LaunchInv'
  <2> USE <1>1 DEF TypeOK, JobInv, OpsInv, CoordInv, LaunchInv, Moved, NoJob,
          Early, Before, Switching, Late, Up, Good, SameReceipts, requests, installed, coordinator, historyVars
  <2>1. ~overlaid' => (Unsure' => Closed')
    BY DEF Unsure, Closed, OwnHold, HeldInv
  <2>2. ~overlaid' => SwitchInv'
    BY DEF SwitchInv, Target, Unsure, Closed
  <2>3. ~overlaid' => OwnHold'
    BY DEF OwnHold, HeldInv
  <2>4. ~overlaid' => HeldInv'
    BY DEF HeldInv, Unsure, Closed, OwnHold
  <2>5. ~overlaid' => (unit'.live => unit'.version = committed')
    BY DEF Unsure, Closed
  <2>6. QED
    BY <2>1, <2>2, <2>3, <2>4, <2>5
<1>5. Keeps
  BY <1>1 DEF Keeps, JobInv, TypeOK, Early, Before, Switching, Late, SameReceipts, installed
<1>6. QED
  BY <1>2, <1>3, <1>4, <1>5

LEMMA ResumeStep ==
  ASSUME IInv, Resume
  PROVE  IInv' /\ Keeps
<1> USE Bounds DEF IInv
<1>1. /\ job.phase = "resume" /\ JobInv' /\ SameReceipts /\ job' \in Jobs
      /\ receipt' \in [Requests -> {"none", "succeeded", "rolledBack", "failed"}]
      /\ \/ job' = NoJob /\ UNCHANGED coord
         \/ /\ Moved(job, job') /\ job'.phase = "resuming" /\ job'.why = job.why
            /\ receipt' = receipt /\ coord.up = "serving"
            /\ coord' \in Coordinators /\ coord'.up = coord.up /\ coord'.version = coord.version /\ coord'.held = coord.held
            /\ coord'.request = coord.request /\ coord'.paused = coord.paused
            /\ coord'.finish \notin {"none", "clear"} \/ coord'.finish = coord.finish
            /\ coord.held /\ coord.request \notin {0, job.r} => FALSE
            /\ coord.held \/ coord.finish = "none"
      /\ unit' \in Units /\ unit'.live = unit.live /\ unit'.version = unit.version
      /\ UNCHANGED <<requests, installed, hold, ops, owner, historyVars, events>>
  <2>1. /\ unit' \in Units /\ unit'.live = unit.live /\ unit'.version = unit.version
        /\ job.phase = "resume" /\ job \in Jobs
        /\ UNCHANGED <<requests, installed, hold, ops, owner, historyVars, events>>
    BY DEF Resume, At, TypeOK, Units
  <2>2. CASE Ends /\ UNCHANGED coord
    <3>1. Over /\ job' = NoJob
      BY <2>1, <2>2, EndsOver DEF Late, Ends
    <3>2. JobInv' /\ SameReceipts /\ receipt' \in [Requests -> {"none", "succeeded", "rolledBack", "failed"}]
      BY <2>1, <3>1, OverJob DEF requests
    <3>3. QED
      BY <2>1, <2>2, <3>1, <3>2
  <2>3. CASE ~(Ends /\ UNCHANGED coord)
    <3> DEFINE f == IF coord.finish # "none" THEN coord.finish
                    ELSE IF coord.held /\ coord.request # 0 THEN "settle" ELSE "resume"
    <3>1. /\ coord.up = "serving" /\ Proceeds("resuming")
          /\ ~(coord.held /\ coord.request \notin {0, job.r})
          /\ coord.held \/ coord.finish = "none"
          /\ coord' = [coord EXCEPT !.finish = f]
      BY <2>3 DEF Resume
    <3>2. f \in {"none", "settle", "resume", "launch", "clear"}
      BY DEF TypeOK, Coordinators
    <3>3. /\ coord' \in Coordinators /\ coord'.up = coord.up /\ coord'.version = coord.version /\ coord'.held = coord.held
            /\ coord'.request = coord.request /\ coord'.paused = coord.paused
          /\ coord'.finish = f
      <4> HIDE DEF f
      <4>1. QED
        BY <3>1, <3>2 DEF TypeOK, Coordinators
    <3>4. "resuming" \in Phases
      BY DEF Phases, Late
    <3>5. Moved(job, job') /\ job'.phase = "resuming" /\ job'.why = job.why /\ receipt' = receipt
      BY <2>1, <3>1, <3>4, GoesToMoves DEF Proceeds
    <3>6. JobInv' /\ SameReceipts
      BY <2>1, <3>5 DEF JobInv, Moved, Early, Before, Switching, Late, SameReceipts, requests
    <3>7. QED
      BY <2>1, <3>1, <3>3, <3>5, <3>6 DEF Moved, TypeOK
  <2>4. QED
    BY <2>2, <2>3
<1>2. TypeOK'
  BY <1>1 DEF TypeOK, Moved, requests, installed, coordinator, historyVars
<1>3. JobInv' /\ OpsInv' /\ CoordInv'
  BY <1>1 DEF TypeOK, OpsInv, CoordInv, Moved, NoJob, Early, Before, Switching, Late, Up, Good,
     SameReceipts, requests, coordinator
<1>4. LaunchInv'
  <2> USE <1>1 DEF TypeOK, JobInv, OpsInv, CoordInv, LaunchInv, Moved, NoJob,
          Early, Before, Switching, Late, Up, Good, SameReceipts, GivesUp, Answered, requests, installed, coordinator, historyVars
  <2>1. ~overlaid' => (Unsure' => Closed')
    BY DEF Unsure, Closed, OwnHold, HeldInv
  <2>2. ~overlaid' => SwitchInv'
    BY DEF SwitchInv, Target, Unsure, Closed
  <2>3. ~overlaid' => OwnHold'
    BY DEF OwnHold, HeldInv
  <2>4. ~overlaid' => HeldInv'
    <3> SUFFICES ASSUME ~overlaid PROVE HeldInv'
      OBVIOUS
    <3>1. HeldInv /\ OwnHold /\ hold' = hold /\ owner' = owner
          /\ coord'.request = coord.request /\ coord'.held = coord.held
      OBVIOUS
    <3>2. coord.request # 0 => (Good(receipt'[coord.request]) <=> Good(receipt[coord.request]))
      BY Bounds DEF Coordinators, Requests
    <3>3. ~owner' => ~unit'.live
      BY <3>1 DEF HeldInv
    <3> HIDE <1>1
    <3>4. CASE job' = NoJob /\ UNCHANGED coord
      BY <3>1, <3>2, <3>3, <3>4 DEF HeldInv
    <3>5. CASE job'.phase = "resuming"
      <4>1. job' # NoJob /\ job'.why = job.why /\ job.phase = "resume" /\ coord.up = "serving"
            /\ coord'.up = coord.up
        BY <1>1, <3>5
      <4>2. job.r # 0
        BY <1>1
      <4>3. QED
        BY <3>1, <3>2, <3>3, <3>5, <4>1, <4>2 DEF HeldInv, OwnHold
    <3>6. QED
      BY <1>1, <3>4, <3>5
  <2>5. ~overlaid' => (unit'.live => unit'.version = committed')
    BY DEF Unsure, Closed
  <2>6. QED
    BY <2>1, <2>2, <2>3, <2>4, <2>5
<1>5. Keeps
  BY <1>1 DEF Keeps, JobInv, TypeOK, Early, Before, Switching, Late, SameReceipts, installed
<1>6. QED
  BY <1>2, <1>3, <1>4, <1>5

LEMMA FinishSettleStep ==
  ASSUME IInv, FinishSettle
  PROVE  IInv' /\ Keeps
<1> USE Bounds DEF IInv
<1>1. /\ coord.finish = "settle" /\ coord' \in Coordinators
      /\ coord'.up = coord.up /\ coord'.version = coord.version /\ coord'.held = coord.held
            /\ coord'.request = coord.request /\ coord'.paused = coord.paused
      /\ ops' \in [Requests -> {"none", "pending", "good", "bad"}]
      /\ \A p \in Requests : ops'[p] = "good" => Good(receipt[p])
      /\ JobInv' /\ SameReceipts /\ job' \in Jobs
      /\ receipt' \in [Requests -> {"none", "succeeded", "rolledBack", "failed"}]
      /\ \/ coord'.finish = "resume" /\ job' = job
         \/ coord'.finish = "none" /\ Answered(FALSE)
      /\ UNCHANGED <<requests, installed, hold, owner, unit, historyVars, events>>
  <2> DEFINE s == IF Pending(coord.request) /\ receipt[coord.request] # "none"
                  THEN Settled(coord.request) ELSE ops
             ok == s[coord.request] = "good"
  <2>1. /\ coord.finish = "settle" /\ ops' = s
        /\ coord' = [coord EXCEPT !.finish = IF ok THEN "resume" ELSE "none"]
        /\ IF ok THEN UNCHANGED <<job, receipt>> ELSE Answers(FALSE)
        /\ UNCHANGED <<requests, installed, hold, owner, unit, historyVars, events>>
    BY DEF FinishSettle
  <2>2. /\ ops' \in [Requests -> {"none", "pending", "good", "bad"}]
        /\ \A p \in Requests : ops'[p] = "good" => Good(receipt[p])
    BY <2>1 DEF Settled, Pending, TypeOK, OpsInv
  <2>3. /\ coord' \in Coordinators /\ coord'.up = coord.up /\ coord'.version = coord.version /\ coord'.held = coord.held
            /\ coord'.request = coord.request /\ coord'.paused = coord.paused
        /\ coord'.finish = IF ok THEN "resume" ELSE "none"
    <3> HIDE DEF ok
    <3>1. QED
      BY <2>1 DEF TypeOK, Coordinators
  <2> HIDE DEF ok
  <2>4. CASE ok
    BY <2>1, <2>2, <2>3, <2>4 DEF TypeOK, JobInv, SameReceipts, requests
  <2>5. CASE ~ok
    BY <2>1, <2>2, <2>3, <2>5, AnswersJob DEF requests
  <2>6. QED
    BY <2>4, <2>5
<1>2. TypeOK'
  BY <1>1 DEF TypeOK, Moved, requests, installed, coordinator, historyVars
<1>3. JobInv' /\ OpsInv' /\ CoordInv'
  BY <1>1 DEF TypeOK, OpsInv, CoordInv, Moved, NoJob, Early, Before, Switching, Late, Up, Good,
     SameReceipts, requests, coordinator
<1>4. LaunchInv'
  <2> USE <1>1 DEF TypeOK, JobInv, OpsInv, CoordInv, LaunchInv, Moved, NoJob,
          Early, Before, Switching, Late, Up, Good, SameReceipts, GivesUp, Answered, requests, installed, coordinator, historyVars
  <2>1. ~overlaid' => (Unsure' => Closed')
    BY DEF Unsure, Closed, OwnHold, HeldInv
  <2>2. ~overlaid' => SwitchInv'
    BY DEF SwitchInv, Target, Unsure, Closed
  <2>3. ~overlaid' => OwnHold'
    BY DEF OwnHold, HeldInv
  <2>4. ~overlaid' => HeldInv'
    <3> SUFFICES ASSUME ~overlaid PROVE HeldInv'
      OBVIOUS
    <3>1. HeldInv /\ OwnHold /\ hold' = hold /\ owner' = owner
          /\ coord'.request = coord.request /\ coord'.held = coord.held
      OBVIOUS
    <3>2. coord.request # 0 => (Good(receipt'[coord.request]) <=> Good(receipt[coord.request]))
      BY Bounds DEF Coordinators, Requests
    <3>3. ~owner' => ~unit'.live
      BY <3>1 DEF HeldInv
    <3> HIDE <1>1
    <3>4. coord'.held /\ coord'.finish # "none" => coord.held /\ coord.finish # "none" /\ job' = job
      BY <1>1
    <3>5. CASE job' = job
      BY <1>1, <3>1, <3>2, <3>3, <3>4, <3>5 DEF HeldInv
    <3>6. CASE job' # job
      BY <1>1, <3>1, <3>2, <3>3, <3>4, <3>6 DEF HeldInv
    <3>7. QED
      BY <3>5, <3>6
  <2>5. ~overlaid' => (unit'.live => unit'.version = committed')
    BY DEF Unsure, Closed
  <2>6. QED
    BY <2>1, <2>2, <2>3, <2>4, <2>5
<1>5. Keeps
  BY <1>1 DEF Keeps, JobInv, TypeOK, Early, Before, Switching, Late, SameReceipts, installed
<1>6. QED
  BY <1>2, <1>3, <1>4, <1>5

LEMMA FinishLaunchStep ==
  ASSUME IInv, FinishLaunch
  PROVE  IInv' /\ Keeps
<1> USE Bounds DEF IInv
<1>1. /\ coord.finish = "launch" /\ coord' \in Coordinators
      /\ coord'.up = coord.up /\ coord'.version = coord.version /\ coord'.held = coord.held
            /\ coord'.request = coord.request /\ coord'.paused = coord.paused
      /\ coord'.finish = IF coord.held THEN "clear" ELSE "none"
      /\ unit' \in Units /\ (unit'.live => unit' = unit \/ (~unit.live /\ unit'.version = link))
      /\ JobInv' /\ SameReceipts /\ job' \in Jobs
      /\ receipt' \in [Requests -> {"none", "succeeded", "rolledBack", "failed"}]
      /\ \/ job' = job
         \/ ~coord.held /\ (Answered(TRUE) \/ Answered(FALSE))
      /\ events' \in 0..MaxEvents
      /\ UNCHANGED <<requests, installed, hold, ops, owner, historyVars>>
  <2>1. /\ coord.finish = "launch" /\ coord' \in Coordinators /\ coord'.up = coord.up /\ coord'.version = coord.version /\ coord'.held = coord.held
            /\ coord'.request = coord.request /\ coord'.paused = coord.paused
        /\ coord'.finish = IF coord.held THEN "clear" ELSE "none"
    BY DEF FinishLaunch, TypeOK, Coordinators
  <2>2. unit' \in Units /\ (unit'.live => unit' = unit \/ (~unit.live /\ unit'.version = link))
    <3>1. link \in Versions /\ unit \in Units
      BY DEF TypeOK
    <3>2. [live |-> TRUE, version |-> link, held |-> FALSE] \in Units
      BY <3>1 DEF Units
    <3>3. \/ unit' = unit
          \/ ~unit.live /\ unit' = [live |-> TRUE, version |-> link, held |-> FALSE]
      BY DEF FinishLaunch
    <3>4. CASE unit' = unit
      BY <3>1, <3>4
    <3>5. CASE ~unit.live /\ unit' = [live |-> TRUE, version |-> link, held |-> FALSE]
      <4>1. unit'.version = link
        BY <3>5
      <4>2. QED
        BY <3>2, <3>5, <4>1
    <3>6. QED
      BY <3>3, <3>4, <3>5
  <2>3. events' \in 0..MaxEvents
    <3>1. NoFault \/ Fault("workspace")
      BY DEF FinishLaunch
    <3>2. QED
      BY <3>1 DEF Fault, NoFault, TypeOK
  <2>4. UNCHANGED <<requests, installed, hold, ops, owner, historyVars>>
    BY DEF FinishLaunch
  <2>5. CASE UNCHANGED <<job, receipt>>
    BY <2>1, <2>2, <2>3, <2>4, <2>5 DEF TypeOK, JobInv, SameReceipts, requests
  <2>6. CASE Answers(TRUE) /\ ~coord.held
    BY <2>1, <2>2, <2>3, <2>4, <2>6, AnswersJob DEF requests
  <2>7. CASE Answers(FALSE) /\ ~coord.held
    BY <2>1, <2>2, <2>3, <2>4, <2>7, AnswersJob DEF requests
  <2>8. QED
    BY <2>5, <2>6, <2>7 DEF FinishLaunch
<1>2. TypeOK'
  BY <1>1 DEF TypeOK, Moved, requests, installed, coordinator, historyVars
<1>3. JobInv' /\ OpsInv' /\ CoordInv'
  BY <1>1 DEF TypeOK, OpsInv, CoordInv, Moved, NoJob, Early, Before, Switching, Late, Up, Good,
     SameReceipts, requests, coordinator
<1>4. LaunchInv'
  <2> USE <1>1 DEF TypeOK, JobInv, OpsInv, CoordInv, LaunchInv, Moved, NoJob,
          Early, Before, Switching, Late, Up, Good, SameReceipts, GivesUp, Answered, requests, installed, coordinator, historyVars
  <2>1. ~overlaid' => (Unsure' => Closed')
    BY DEF Unsure, Closed, OwnHold, HeldInv
  <2>2. ~overlaid' => SwitchInv'
    BY DEF SwitchInv, Target, Unsure, Closed
  <2>3. ~overlaid' => OwnHold'
    BY DEF OwnHold, HeldInv
  <2>4. ~overlaid' => HeldInv'
    <3> SUFFICES ASSUME ~overlaid PROVE HeldInv'
      OBVIOUS
    <3>1. HeldInv /\ OwnHold /\ hold' = hold /\ owner' = owner
          /\ coord'.request = coord.request /\ coord'.held = coord.held
      OBVIOUS
    <3>2. coord.request # 0 => (Good(receipt'[coord.request]) <=> Good(receipt[coord.request]))
      BY Bounds DEF Coordinators, Requests
    <3>3. ~owner' => ~unit'.live
      BY <3>1 DEF HeldInv
    <3> HIDE <1>1
    <3>4. coord'.held /\ coord'.finish # "none" => coord.held /\ coord.finish # "none" /\ job' = job
      BY <1>1
    <3>5. CASE job' = job
      BY <1>1, <3>1, <3>2, <3>3, <3>4, <3>5 DEF HeldInv
    <3>6. CASE job' # job
      BY <1>1, <3>1, <3>2, <3>3, <3>4, <3>6 DEF HeldInv
    <3>7. QED
      BY <3>5, <3>6
  <2>5. ~overlaid' => (unit'.live => unit'.version = committed')
    BY DEF Unsure, Closed
  <2>6. QED
    BY <2>1, <2>2, <2>3, <2>4, <2>5
<1>5. Keeps
  BY <1>1 DEF Keeps, JobInv, TypeOK, Early, Before, Switching, Late, SameReceipts, installed
<1>6. QED
  BY <1>2, <1>3, <1>4, <1>5

LEMMA FinishClearStep ==
  ASSUME IInv, FinishClear
  PROVE  IInv' /\ Keeps
<1> USE Bounds DEF IInv
<1>1. /\ coord.finish = "clear" /\ hold' = 0 /\ coord' \in Coordinators
      /\ coord'.up = coord.up /\ coord'.version = coord.version /\ ~coord'.held
      /\ coord'.request = coord.request /\ coord'.paused = coord.paused /\ coord'.finish = "none"
      /\ JobInv' /\ SameReceipts /\ job' \in Jobs
      /\ receipt' \in [Requests -> {"none", "succeeded", "rolledBack", "failed"}]
      /\ Answered(TRUE)
      /\ UNCHANGED <<requests, installed, ops, owner, unit, historyVars, events>>
  <2>1. /\ coord' \in Coordinators
        /\ coord'.up = coord.up /\ coord'.version = coord.version /\ ~coord'.held
        /\ coord'.request = coord.request /\ coord'.paused = coord.paused /\ coord'.finish = "none"
    BY DEF FinishClear, TypeOK, Coordinators
  <2>2. QED
    BY <2>1, AnswersJob DEF FinishClear, requests
<1>2. TypeOK'
  BY <1>1 DEF TypeOK, Moved, requests, installed, coordinator, historyVars
<1>3. JobInv' /\ OpsInv' /\ CoordInv'
  BY <1>1 DEF TypeOK, OpsInv, CoordInv, Moved, NoJob, Early, Before, Switching, Late, Up, Good,
     SameReceipts, requests, coordinator
<1>4. LaunchInv'
  <2> USE <1>1 DEF TypeOK, JobInv, OpsInv, CoordInv, LaunchInv, Moved, NoJob,
          Early, Before, Switching, Late, Up, Good, SameReceipts, GivesUp, Answered, requests, installed, coordinator, historyVars
  <2>1. ~overlaid' => (Unsure' => Closed')
    BY DEF Unsure, Closed, OwnHold, HeldInv
  <2>2. ~overlaid' => SwitchInv'
    BY DEF SwitchInv, Target, Unsure, Closed
  <2>3. ~overlaid' => OwnHold'
    BY DEF OwnHold, HeldInv
  <2>4. ~overlaid' => HeldInv'
    BY DEF HeldInv, Unsure, Closed, OwnHold
  <2>5. ~overlaid' => (unit'.live => unit'.version = committed')
    BY DEF Unsure, Closed
  <2>6. QED
    BY <2>1, <2>2, <2>3, <2>4, <2>5
<1>5. Keeps
  BY <1>1 DEF Keeps, JobInv, TypeOK, Early, Before, Switching, Late, SameReceipts, installed
<1>6. QED
  BY <1>2, <1>3, <1>4, <1>5

LEMMA CoordinatorDiesStep ==
  ASSUME IInv, CoordinatorDies
  PROVE  IInv' /\ Keeps
<1> USE Bounds DEF IInv
<1>1. /\ Up /\ coord' \in Coordinators /\ coord'.up = "failed" /\ coord'.finish = "none"
      /\ coord'.held = coord.held /\ coord'.request = coord.request
      /\ JobInv' /\ SameReceipts /\ job' \in Jobs
      /\ receipt' \in [Requests -> {"none", "succeeded", "rolledBack", "failed"}]
      /\ Answered(FALSE)
      /\ events' \in 0..MaxEvents
      /\ UNCHANGED <<requests, installed, hold, ops, owner, unit, historyVars>>
  <2>1. /\ coord' \in Coordinators /\ coord'.up = "failed" /\ coord'.finish = "none"
        /\ coord'.held = coord.held /\ coord'.request = coord.request
    BY DEF CoordinatorDies, Failed, TypeOK, Coordinators
  <2>2. events' \in 0..MaxEvents
    BY DEF CoordinatorDies, Fault, TypeOK
  <2>3. QED
    BY <2>1, <2>2, AnswersJob DEF CoordinatorDies, requests
<1>2. TypeOK'
  BY <1>1 DEF TypeOK, Moved, requests, installed, coordinator, historyVars
<1>3. JobInv' /\ OpsInv' /\ CoordInv'
  BY <1>1 DEF TypeOK, OpsInv, CoordInv, Moved, NoJob, Early, Before, Switching, Late, Up, Good,
     SameReceipts, requests, coordinator
<1>4. LaunchInv'
  <2> USE <1>1 DEF TypeOK, JobInv, OpsInv, CoordInv, LaunchInv, Moved, NoJob,
          Early, Before, Switching, Late, Up, Good, SameReceipts, GivesUp, Answered, requests, installed, coordinator, historyVars
  <2>1. ~overlaid' => (Unsure' => Closed')
    <3>1. ~overlaid' /\ Unsure' => Unsure
      BY DEF Unsure
    <3>2. hold # 0 => (Good(receipt'[hold]) <=> Good(receipt[hold]))
      BY Bounds DEF Requests
    <3>3. QED
      BY <3>1, <3>2 DEF Closed
  <2>2. ~overlaid' => SwitchInv'
    BY DEF SwitchInv, Target, Unsure, Closed
  <2>3. ~overlaid' => OwnHold'
    BY DEF OwnHold, HeldInv
  <2>4. ~overlaid' => HeldInv'
    <3> SUFFICES ASSUME ~overlaid PROVE HeldInv'
      OBVIOUS
    <3>1. HeldInv /\ OwnHold /\ hold' = hold /\ owner' = owner
          /\ coord'.request = coord.request /\ coord'.held = coord.held
      OBVIOUS
    <3>2. coord.request # 0 => (Good(receipt'[coord.request]) <=> Good(receipt[coord.request]))
      BY Bounds DEF Coordinators, Requests
    <3>3. ~owner' => ~unit'.live
      BY <3>1 DEF HeldInv
    <3> HIDE <1>1
    <3>4. coord'.held /\ coord'.finish # "none" => coord.held /\ coord.finish # "none" /\ job' = job
      BY <1>1
    <3>5. CASE job' = job
      BY <1>1, <3>1, <3>2, <3>3, <3>4, <3>5 DEF HeldInv
    <3>6. CASE job' # job
      BY <1>1, <3>1, <3>2, <3>3, <3>4, <3>6 DEF HeldInv
    <3>7. QED
      BY <3>5, <3>6
  <2>5. ~overlaid' => (unit'.live => unit'.version = committed')
    BY DEF Unsure, Closed
  <2>6. QED
    BY <2>1, <2>2, <2>3, <2>4, <2>5
<1>5. Keeps
  BY <1>1 DEF Keeps, JobInv, TypeOK, Early, Before, Switching, Late, SameReceipts, installed
<1>6. QED
  BY <1>2, <1>3, <1>4, <1>5

LEMMA StopCoordinatorStep ==
  ASSUME IInv, StopCoordinator
  PROVE  IInv' /\ Keeps
<1> USE Bounds DEF IInv
<1>1. /\ job.phase = "stop"
      /\ coord' \in Coordinators /\ coord'.finish = "none"
      /\ coord'.version = coord.version /\ coord'.held = coord.held
      /\ coord'.request = coord.request /\ coord'.paused = coord.paused
      /\ coord'.up = coord.up \/ coord'.up = "stopped"
      /\ \/ GoesOn("manifest") /\ coord'.up = "stopped" /\ ~unit'.live /\ ~owner'
         \/ GoesOn("manifest") /\ coord'.up = "stopped" /\ ~owner /\ unit' = unit /\ ~owner'
         \/ GivesUp /\ unit' = unit /\ owner' = owner
      /\ job' \in Jobs /\ JobInv' /\ SameReceipts
      /\ receipt' \in [Requests -> {"none", "succeeded", "rolledBack", "failed"}]
      /\ unit' \in Units /\ owner' \in BOOLEAN /\ events' \in 0..MaxEvents
      /\ UNCHANGED <<requests, installed, hold, ops, historyVars>>
  <2>1. /\ job.phase = "stop" /\ "manifest" \in Switching
        /\ UNCHANGED <<requests, installed, hold, ops, historyVars>>
    BY DEF StopCoordinator, At, Switching
  <2>2. /\ coord' \in Coordinators /\ coord'.finish = "none"
        /\ coord'.version = coord.version /\ coord'.held = coord.held
        /\ coord'.request = coord.request /\ coord'.paused = coord.paused
        /\ coord'.up = coord.up \/ coord'.up = "stopped"
    <3>1. coord \in Coordinators
      BY DEF TypeOK
    <3>2. \/ coord.finish = "none" /\ coord' \in {coord, [coord EXCEPT !.up = "stopped"]}
          \/ coord' = [coord EXCEPT !.up = "stopped", !.finish = "none"]
      BY DEF StopCoordinator
    <3>3. QED
      BY <3>1, <3>2 DEF Coordinators
  <2>3. unit' \in Units /\ owner' \in BOOLEAN
    BY DEF StopCoordinator, TypeOK, Units
  <2>4. events' \in 0..MaxEvents
    BY DEF StopCoordinator, Fault, NoFault, TypeOK
  <2>5. CASE /\ unit' = [unit EXCEPT !.live = FALSE, !.held = FALSE]
             /\ coord' = [coord EXCEPT !.up = "stopped"] /\ owner' = FALSE
             /\ Proceeds("manifest")
    <3>1. ~unit'.live /\ coord'.up = "stopped"
      BY <2>5 DEF TypeOK, Units, Coordinators
    <3>2. QED
      BY <2>1, <2>2, <2>3, <2>4, <2>5, <3>1, ProceedsJob DEF requests
  <2>6. CASE Fails /\ UNCHANGED <<owner, unit>>
    BY <2>1, <2>2, <2>3, <2>4, <2>6, FailsJob DEF requests
  <2>7. CASE /\ coord' = [coord EXCEPT !.up = "stopped", !.finish = "none"] /\ ~owner
             /\ Proceeds("manifest") /\ UNCHANGED <<owner, unit>>
    <3>1. coord'.up = "stopped"
      BY <2>7 DEF TypeOK, Coordinators
    <3>2. QED
      BY <2>1, <2>2, <2>3, <2>4, <2>7, <3>1, ProceedsJob DEF requests
  <2>8. QED
    BY <2>5, <2>6, <2>7 DEF StopCoordinator
<1>2. TypeOK'
  BY <1>1 DEF TypeOK, Moved, requests, installed, coordinator, historyVars
<1>3. JobInv' /\ OpsInv' /\ CoordInv'
  BY <1>1 DEF TypeOK, OpsInv, CoordInv, Moved, NoJob, Early, Before, Switching, Late, Up, Good,
     SameReceipts, requests, coordinator
<1>4. LaunchInv'
  <2> USE <1>1 DEF TypeOK, JobInv, OpsInv, CoordInv, LaunchInv, Moved, NoJob,
          Early, Before, Switching, Late, Up, Good, SameReceipts, GivesUp, GoesOn, Answered, requests, installed, coordinator, historyVars
  <2>1. ~overlaid' => (Unsure' => Closed')
    <3> SUFFICES ASSUME ~overlaid, Unsure' PROVE Closed'
      OBVIOUS
    <3>1. CASE GoesOn("manifest")
      <4>1. hold' = job'.r /\ hold' # 0 /\ ~Good(receipt'[hold'])
        BY <3>1 DEF OwnHold
      <4>2. ~unit'.live
        BY <3>1 DEF HeldInv
      <4>3. QED
        BY <3>1, <4>1, <4>2 DEF Closed
    <3>2. CASE GivesUp
      <4>1. Unsure
        BY <3>2 DEF Unsure
      <4>2. Closed
        BY <4>1
      <4>3. /\ unit' = unit /\ hold' = hold
            /\ job'.r = 0 \/ (job'.phase = "stop" /\ job'.mode = "restore")
        BY <3>2
      <4> HIDE <1>1
      <4>4. QED
        BY <1>1, <4>2, <4>3, SameGood DEF Closed
    <3>3. QED
      BY <3>1, <3>2
  <2>2. ~overlaid' => SwitchInv'
    BY DEF SwitchInv, Target, Unsure, Closed
  <2>3. ~overlaid' => OwnHold'
    BY DEF OwnHold, HeldInv
  <2>4. ~overlaid' => HeldInv'
    <3> SUFFICES ASSUME ~overlaid PROVE HeldInv'
      OBVIOUS
    <3>1. HeldInv /\ (Unsure => Closed)
      OBVIOUS
    <3>2. coord'.finish = "none" /\ coord'.held = coord.held /\ coord'.request = coord.request
      BY <3>1 DEF Unsure, Closed
    <3>3. hold' = hold /\ job'.phase \notin {"resume", "resuming"}
      BY <1>1
    <3>4. ~owner' => ~unit'.live
      BY <3>1 DEF HeldInv, Unsure, Closed
    <3> HIDE <1>1
    <3>5. QED
      BY <1>1, <3>1, <3>2, <3>3, <3>4, SameGood DEF HeldInv
  <2>5. ~overlaid' => (unit'.live => unit'.version = committed')
    BY DEF Unsure, Closed
  <2>6. QED
    BY <2>1, <2>2, <2>3, <2>4, <2>5
<1>5. Keeps
  BY <1>1 DEF Keeps, JobInv, TypeOK, Early, Before, Switching, Late, SameReceipts, installed
<1>6. QED
  BY <1>2, <1>3, <1>4, <1>5

LEMMA WriteManifestStep ==
  ASSUME IInv, WriteManifest
  PROVE  IInv' /\ Keeps
<1> USE Bounds DEF IInv
<1>1. /\ job.phase = "manifest"
      /\ manifest' \in [current : Versions, previous : Versions]
      /\ \/ GoesOn("link") /\ manifest'.current = Target
         \/ GivesUp /\ manifest' = manifest
      /\ job' \in Jobs /\ JobInv' /\ SameReceipts
      /\ receipt' \in [Requests -> {"none", "succeeded", "rolledBack", "failed"}]
      /\ events' \in 0..MaxEvents
      /\ UNCHANGED <<requests, link, hold, ops, coordinator, historyVars>>
  <2>1. /\ job.phase = "manifest" /\ "link" \in Switching /\ job.phase \in Switching
        /\ UNCHANGED <<requests, link, hold, ops, coordinator, historyVars>>
    BY DEF WriteManifest, At, Switching
  <2>2. events' \in 0..MaxEvents
    BY DEF WriteManifest, Fault, NoFault, TypeOK
  <2> DEFINE p == IF job.mode = "restore" \/ job.version = job.previous
                  THEN job.rollback ELSE job.previous
  <2>3. CASE manifest' = [current |-> Target, previous |-> p] /\ Proceeds("link")
    <3>1. Target \in Versions /\ p \in Versions
      BY JobFields DEF Target, TypeOK
    <3>2. manifest' \in [current : Versions, previous : Versions] /\ manifest'.current = Target
      BY <2>3, <3>1
    <3>3. QED
      BY <2>1, <2>2, <2>3, <3>2, ProceedsJob DEF requests
  <2>4. CASE Fails /\ UNCHANGED manifest
    BY <2>1, <2>2, <2>4, FailsJob DEF requests, TypeOK
  <2>5. QED
    BY <2>3, <2>4 DEF WriteManifest
<1>2. TypeOK'
  BY <1>1 DEF TypeOK, Moved, requests, installed, coordinator, historyVars
<1>3. JobInv' /\ OpsInv' /\ CoordInv'
  BY <1>1 DEF TypeOK, OpsInv, CoordInv, Moved, NoJob, Early, Before, Switching, Late, Up, Good,
     SameReceipts, requests, coordinator
<1>4. LaunchInv'
  <2> USE <1>1 DEF TypeOK, JobInv, OpsInv, CoordInv, LaunchInv, Moved, NoJob,
          Early, Before, Switching, Late, Up, Good, SameReceipts, GivesUp, GoesOn, Answered, requests, installed, coordinator, historyVars
  <2>1. ~overlaid' => (Unsure' => Closed')
    <3> SUFFICES ASSUME ~overlaid PROVE Closed'
      OBVIOUS
    <3>1. Closed
      BY DEF Unsure
    <3>2. coord'.finish = "none" /\ ~unit'.live /\ hold' = hold
          /\ (Up' => coord'.held /\ coord'.paused)
      BY <3>1 DEF Closed
    <3>3. job'.r = 0 \/ job'.phase \in Switching \/ (job'.phase = "stop" /\ job'.mode = "restore")
      BY <1>1
    <3> HIDE <1>1
    <3>4. QED
      BY <1>1, <3>1, <3>2, <3>3, SameGood DEF Closed
  <2>2. ~overlaid' => SwitchInv'
    BY DEF SwitchInv, Target, Unsure, Closed
  <2>3. ~overlaid' => OwnHold'
    BY DEF OwnHold, HeldInv
  <2>4. ~overlaid' => HeldInv'
    <3> SUFFICES ASSUME ~overlaid PROVE HeldInv'
      OBVIOUS
    <3>1. HeldInv /\ (Unsure => Closed)
      OBVIOUS
    <3>2. coord'.finish = "none" /\ coord'.held = coord.held /\ coord'.request = coord.request
      BY <3>1 DEF Unsure, Closed
    <3>3. hold' = hold /\ job'.phase \notin {"resume", "resuming"}
      BY <1>1
    <3>4. ~owner' => ~unit'.live
      BY <3>1 DEF HeldInv, Unsure, Closed
    <3> HIDE <1>1
    <3>5. QED
      BY <1>1, <3>1, <3>2, <3>3, <3>4, SameGood DEF HeldInv
  <2>5. ~overlaid' => (unit'.live => unit'.version = committed')
    BY DEF Unsure, Closed
  <2>6. QED
    BY <2>1, <2>2, <2>3, <2>4, <2>5
<1>5. Keeps
  BY <1>1 DEF Keeps, JobInv, TypeOK, Early, Before, Switching, Late, SameReceipts, installed
<1>6. QED
  BY <1>2, <1>3, <1>4, <1>5

LEMMA SwitchLinkStep ==
  ASSUME IInv, SwitchLink
  PROVE  IInv' /\ Keeps
<1> USE Bounds DEF IInv
<1>1. /\ job.phase = "link" /\ link' \in Versions
      /\ \/ GoesOn("start") /\ link' = Target
         \/ GivesUp /\ link' \in {link, Target}
      /\ job' \in Jobs /\ JobInv' /\ SameReceipts
      /\ receipt' \in [Requests -> {"none", "succeeded", "rolledBack", "failed"}]
      /\ events' \in 0..MaxEvents
      /\ UNCHANGED <<requests, manifest, hold, ops, coordinator, historyVars>>
  <2>1. /\ job.phase = "link" /\ "start" \in Switching /\ job.phase \in Switching
        /\ UNCHANGED <<requests, manifest, hold, ops, coordinator, historyVars>>
    BY DEF SwitchLink, At, Switching
  <2>2. events' \in 0..MaxEvents
    BY DEF SwitchLink, Fault, NoFault, TypeOK
  <2>3. Target \in Versions
    BY JobFields DEF Target, TypeOK
  <2>4. CASE link' = Target /\ Proceeds("start")
    BY <2>1, <2>2, <2>3, <2>4, ProceedsJob DEF requests
  <2>5. CASE Fails /\ link' \in {link, Target}
    BY <2>1, <2>2, <2>3, <2>5, FailsJob DEF requests, TypeOK
  <2>6. QED
    BY <2>4, <2>5 DEF SwitchLink
<1>2. TypeOK'
  BY <1>1 DEF TypeOK, Moved, requests, installed, coordinator, historyVars
<1>3. JobInv' /\ OpsInv' /\ CoordInv'
  BY <1>1 DEF TypeOK, OpsInv, CoordInv, Moved, NoJob, Early, Before, Switching, Late, Up, Good,
     SameReceipts, requests, coordinator
<1>4. LaunchInv'
  <2> USE <1>1 DEF TypeOK, JobInv, OpsInv, CoordInv, LaunchInv, Moved, NoJob,
          Early, Before, Switching, Late, Up, Good, SameReceipts, GivesUp, GoesOn, Answered, requests, installed, coordinator, historyVars
  <2>1. ~overlaid' => (Unsure' => Closed')
    <3> SUFFICES ASSUME ~overlaid PROVE Closed'
      OBVIOUS
    <3>1. Closed
      BY DEF Unsure
    <3>2. coord'.finish = "none" /\ ~unit'.live /\ hold' = hold
          /\ (Up' => coord'.held /\ coord'.paused)
      BY <3>1 DEF Closed
    <3>3. job'.r = 0 \/ job'.phase \in Switching \/ (job'.phase = "stop" /\ job'.mode = "restore")
      BY <1>1
    <3> HIDE <1>1
    <3>4. QED
      BY <1>1, <3>1, <3>2, <3>3, SameGood DEF Closed
  <2>2. ~overlaid' => SwitchInv'
    BY DEF SwitchInv, Target, Unsure, Closed
  <2>3. ~overlaid' => OwnHold'
    BY DEF OwnHold, HeldInv
  <2>4. ~overlaid' => HeldInv'
    <3> SUFFICES ASSUME ~overlaid PROVE HeldInv'
      OBVIOUS
    <3>1. HeldInv /\ (Unsure => Closed)
      OBVIOUS
    <3>2. coord'.finish = "none" /\ coord'.held = coord.held /\ coord'.request = coord.request
      BY <3>1 DEF Unsure, Closed
    <3>3. hold' = hold /\ job'.phase \notin {"resume", "resuming"}
      BY <1>1
    <3>4. ~owner' => ~unit'.live
      BY <3>1 DEF HeldInv, Unsure, Closed
    <3> HIDE <1>1
    <3>5. QED
      BY <1>1, <3>1, <3>2, <3>3, <3>4, SameGood DEF HeldInv
  <2>5. ~overlaid' => (unit'.live => unit'.version = committed')
    BY DEF Unsure, Closed
  <2>6. QED
    BY <2>1, <2>2, <2>3, <2>4, <2>5
<1>5. Keeps
  BY <1>1 DEF Keeps, JobInv, TypeOK, Early, Before, Switching, Late, SameReceipts, installed
<1>6. QED
  BY <1>2, <1>3, <1>4, <1>5

LEMMA StartCoordinatorStep ==
  ASSUME IInv, StartCoordinator
  PROVE  IInv' /\ Keeps
<1> USE Bounds DEF IInv
<1>1. /\ job.phase = "start" /\ GoesOn("probe") /\ coord' \in Coordinators /\ owner' \in BOOLEAN
      /\ Boots \/ UNCHANGED <<coord, owner>>
      /\ job' \in Jobs /\ JobInv' /\ SameReceipts
      /\ receipt' \in [Requests -> {"none", "succeeded", "rolledBack", "failed"}]
      /\ UNCHANGED <<requests, installed, hold, ops, unit, historyVars, events>>
  <2>1. /\ job.phase = "start" /\ "probe" \in Phases /\ job \in Jobs /\ receipt' = receipt
        /\ UNCHANGED <<requests, installed, historyVars, events>>
    BY DEF StartCoordinator, At, Phases, Early, Switching, TypeOK
  <2>2. GoesOn("probe")
    <3>1. CASE job' = [job EXCEPT !.phase = "probe", !.replaced = TRUE]
      BY <2>1, <3>1 DEF GoesOn, Moved, Jobs
    <3>2. CASE GoesTo("probe")
      BY <2>1, <3>2, GoesToMoves DEF GoesOn
    <3>3. QED
      BY <3>1, <3>2 DEF StartCoordinator
  <2>3. JobInv' /\ SameReceipts
    BY <2>1, <2>2 DEF GoesOn, Moved, JobInv, Early, Before, Switching, Late, SameReceipts, requests
  <2>4. CASE Boots
    BY <2>1, <2>2, <2>3, <2>4, BootsHeld DEF GoesOn, Moved, TypeOK
  <2>5. CASE UNCHANGED <<hold, ops, coordinator>>
    BY <2>1, <2>2, <2>3, <2>5 DEF GoesOn, Moved, TypeOK, coordinator
  <2>6. QED
    BY <2>4, <2>5 DEF StartCoordinator
<1>2. TypeOK'
  BY <1>1 DEF TypeOK, Moved, requests, installed, coordinator, historyVars
<1>3. JobInv' /\ OpsInv' /\ CoordInv'
  <2>1. CoordInv'
    <3>1. CASE Boots
      BY <1>1, <3>1, BootsHeld DEF CoordInv, Up
    <3>2. CASE UNCHANGED <<coord, owner>>
      BY <1>1, <3>2 DEF CoordInv, Up
    <3>3. QED
      BY <1>1, <3>1, <3>2
  <2>2. QED
    BY <1>1, <2>1 DEF OpsInv, SameReceipts
<1>4. LaunchInv'
  <2> USE <1>1, BootsHeld DEF TypeOK, JobInv, OpsInv, CoordInv, LaunchInv, Moved, NoJob,
          Early, Before, Switching, Late, Up, Good, SameReceipts, GivesUp, GoesOn, Answered, requests, installed, coordinator, historyVars
  <2>1. ~overlaid' => (Unsure' => Closed')
    BY DEF Unsure, Closed, OwnHold, HeldInv
  <2>2. ~overlaid' => SwitchInv'
    BY DEF SwitchInv, Target, Unsure, Closed
  <2>3. ~overlaid' => OwnHold'
    BY DEF OwnHold, HeldInv
  <2>4. ~overlaid' => HeldInv'
    <3>1. SUFFICES ASSUME ~overlaid' PROVE HeldInv'
      OBVIOUS
    <3>2. /\ job'.phase = "probe" /\ hold' = hold /\ receipt' = receipt /\ unit' = unit
          /\ OwnHold /\ HeldInv
      BY <3>1
    <3>3. hold = job.r /\ ~Good(receipt[hold])
      BY <3>2 DEF OwnHold
    <3>4. /\ ~(coord'.held /\ coord'.finish # "none")
          /\ coord'.held /\ coord'.request # 0 =>
               (Good(receipt[coord'.request]) => hold = coord'.request)
          /\ ~owner' => ~unit.live
      <4>1. CASE Boots
        BY <3>3, <4>1
      <4>2. CASE UNCHANGED <<coord, owner>>
        BY <3>2, <4>2 DEF HeldInv
      <4>3. QED
        BY <4>1, <4>2
    <3>5. QED
      BY <3>2, <3>4 DEF HeldInv
  <2>5. ~overlaid' => (unit'.live => unit'.version = committed')
    BY DEF Unsure, Closed
  <2>6. QED
    BY <2>1, <2>2, <2>3, <2>4, <2>5
<1>5. Keeps
  BY <1>1 DEF Keeps, JobInv, TypeOK, Early, Before, Switching, Late, SameReceipts, installed
<1>6. QED
  BY <1>2, <1>3, <1>4, <1>5

LEMMA ProbeStep ==
  ASSUME IInv, Probe
  PROVE  IInv' /\ Keeps
<1> USE Bounds DEF IInv
<1>1. /\ job.phase = "probe" /\ coord' \in Coordinators /\ owner' \in BOOLEAN
      /\ coord'.held = coord.held /\ coord'.request = coord.request
      /\ coord'.paused = coord.paused /\ coord'.version = coord.version
      /\ \/ coord' = coord /\ owner' = owner
         \/ coord'.up = "failed" /\ coord'.finish = "none" /\ ~owner' /\ Up
      /\ \/ GoesOn("commit") /\ coord' = coord /\ coord.version = Target
         \/ GivesUp
      /\ job' \in Jobs /\ JobInv' /\ SameReceipts
      /\ receipt' \in [Requests -> {"none", "succeeded", "rolledBack", "failed"}]
      /\ events' \in 0..MaxEvents
      /\ UNCHANGED <<requests, installed, hold, ops, unit, historyVars>>
  <2>1. /\ job.phase = "probe" /\ "commit" \in Switching /\ job.phase \in Switching
        /\ UNCHANGED <<requests, installed, hold, ops, unit, historyVars>>
    BY DEF Probe, At, Switching
  <2>2. events' \in 0..MaxEvents
    BY DEF Probe, Fault, NoFault, TypeOK
  <2>3. /\ coord' \in Coordinators /\ owner' \in BOOLEAN
        /\ coord'.held = coord.held /\ coord'.request = coord.request
        /\ coord'.paused = coord.paused /\ coord'.version = coord.version
        /\ \/ coord' = coord /\ owner' = owner
           \/ coord'.up = "failed" /\ coord'.finish = "none" /\ ~owner' /\ Up
    <3>1. coord \in Coordinators /\ owner \in BOOLEAN
      BY DEF TypeOK
    <3>2. UNCHANGED <<coord, owner>> \/ (coord.up = "boot" /\ coord' = Failed /\ owner' = FALSE)
      BY DEF Probe
    <3>3. QED
      BY <3>1, <3>2 DEF Failed, Coordinators, Up
  <2>4. CASE Healthy /\ Proceeds("commit") /\ UNCHANGED <<coord, owner>>
    BY <2>1, <2>2, <2>3, <2>4, ProceedsJob DEF requests, Healthy
  <2>5. CASE Fails
    BY <2>1, <2>2, <2>3, <2>5, FailsJob DEF requests
  <2>6. QED
    BY <2>4, <2>5 DEF Probe
<1>2. TypeOK'
  BY <1>1 DEF TypeOK, Moved, requests, installed, coordinator, historyVars
<1>3. JobInv' /\ OpsInv' /\ CoordInv'
  BY <1>1 DEF TypeOK, OpsInv, CoordInv, Moved, NoJob, Early, Before, Switching, Late, Up, Good,
     SameReceipts, requests, coordinator
<1>4. LaunchInv'
  <2> USE <1>1 DEF TypeOK, JobInv, OpsInv, CoordInv, LaunchInv, Moved, NoJob,
          Early, Before, Switching, Late, Up, Good, SameReceipts, GivesUp, GoesOn, Answered, requests, installed, coordinator, historyVars
  <2>1. ~overlaid' => (Unsure' => Closed')
    <3> SUFFICES ASSUME ~overlaid PROVE Closed'
      OBVIOUS
    <3>1. Closed
      BY DEF Unsure
    <3>2. coord'.finish = "none" /\ ~unit'.live /\ hold' = hold
          /\ (Up' => coord'.held /\ coord'.paused)
      BY <3>1 DEF Closed
    <3>3. job'.r = 0 \/ job'.phase \in Switching \/ (job'.phase = "stop" /\ job'.mode = "restore")
      BY <1>1
    <3> HIDE <1>1
    <3>4. QED
      BY <1>1, <3>1, <3>2, <3>3, SameGood DEF Closed
  <2>2. ~overlaid' => SwitchInv'
    BY DEF SwitchInv, Target, Unsure, Closed
  <2>3. ~overlaid' => OwnHold'
    BY DEF OwnHold, HeldInv
  <2>4. ~overlaid' => HeldInv'
    <3> SUFFICES ASSUME ~overlaid PROVE HeldInv'
      OBVIOUS
    <3>1. HeldInv /\ (Unsure => Closed)
      OBVIOUS
    <3>2. coord'.finish = "none" /\ coord'.held = coord.held /\ coord'.request = coord.request
      BY <3>1 DEF Unsure, Closed
    <3>3. hold' = hold /\ job'.phase \notin {"resume", "resuming"}
      BY <1>1
    <3>4. ~owner' => ~unit'.live
      BY <3>1 DEF HeldInv, Unsure, Closed
    <3> HIDE <1>1
    <3>5. QED
      BY <1>1, <3>1, <3>2, <3>3, <3>4, SameGood DEF HeldInv
  <2>5. ~overlaid' => (unit'.live => unit'.version = committed')
    BY DEF Unsure, Closed
  <2>6. QED
    BY <2>1, <2>2, <2>3, <2>4, <2>5
<1>5. Keeps
  BY <1>1 DEF Keeps, JobInv, TypeOK, Early, Before, Switching, Late, SameReceipts, installed
<1>6. QED
  BY <1>2, <1>3, <1>4, <1>5

LEMMA CommitStep ==
  ASSUME IInv, Commit
  PROVE  IInv' /\ Keeps
<1> USE Bounds DEF IInv
<1>1. /\ job.phase = "commit" /\ job' \in Jobs /\ JobInv'
      /\ receipt' \in [Requests -> {"none", "succeeded", "rolledBack", "failed"}]
      /\ committed' \in Versions
      /\ \/ /\ committed' = Target /\ Good(receipt'[job.r])
            /\ \A r \in Requests : r # job.r => receipt'[r] = receipt[r]
            /\ \/ job' = NoJob
               \/ Moved(job, job') /\ job'.phase = "resume" /\ job'.why # "abandoned"
         \/ GivesUp /\ SameReceipts /\ committed' = committed
      /\ events' \in 0..MaxEvents
      /\ UNCHANGED <<requests, installed, hold, ops, coordinator, overlaid>>
  <2> DEFINE result == IF job.mode = "candidate" THEN "succeeded" ELSE "rolledBack"
             written == /\ receipt' = [receipt EXCEPT ![job.r] = result]
                        /\ committed' = Target
  <2>1. /\ job.phase = "commit" /\ job.phase \in Switching
        /\ UNCHANGED <<requests, installed, hold, ops, coordinator, overlaid>>
    BY DEF Commit, At, Switching
  <2>2. events' \in 0..MaxEvents
    BY DEF Commit, Fault, NoFault, TypeOK
  <2>3. Target \in Versions /\ job.r \in Requests /\ receipt[job.r] = "none"
    BY <2>1, JobFields DEF Target, TypeOK, JobInv, Early
  <2>4. written => /\ committed' \in Versions /\ committed' = Target
                   /\ receipt' \in [Requests -> {"none", "succeeded", "rolledBack", "failed"}]
                   /\ receipt'[job.r] = result /\ Good(receipt'[job.r])
                   /\ \A r \in Requests : r # job.r => receipt'[r] = receipt[r]
    BY <2>3 DEF TypeOK, Good
  <2>5. CASE written /\ job' = [job EXCEPT !.phase = "resume", !.why = result]
    <3>1. Moved(job, job') /\ job'.phase = "resume" /\ job'.why = result
      BY <2>5 DEF TypeOK, Moved, Jobs
    <3>2. JobInv'
      BY <2>1, <2>3, <2>4, <2>5, <3>1 DEF JobInv, Moved, TypeOK, Early, Before, Switching, Late, requests
    <3>3. QED
      BY <2>1, <2>2, <2>4, <2>5, <3>1, <3>2 DEF Moved
  <2>6. CASE Fails /\ UNCHANGED committed
    BY <2>1, <2>2, <2>6, FailsJob DEF requests, TypeOK
  <2>7. CASE written /\ job' = NoJob
    <3>1. JobInv'
      BY <2>1, <2>3, <2>4, <2>7 DEF JobInv, NoJob, TypeOK, Early, Before, Switching, Late, requests
    <3>2. QED
      BY <2>1, <2>2, <2>4, <2>7, <3>1, Bounds
  <2>8. QED
    BY <2>5, <2>6, <2>7 DEF Commit
<1>2. TypeOK'
  BY <1>1 DEF TypeOK, Moved, requests, installed, coordinator, historyVars
<1>3. JobInv' /\ OpsInv' /\ CoordInv'
  BY <1>1 DEF TypeOK, OpsInv, CoordInv, Moved, NoJob, Early, Before, Switching, Late, Up, Good,
     SameReceipts, requests, coordinator
<1>4. LaunchInv'
  <2> USE <1>1 DEF TypeOK, JobInv, OpsInv, CoordInv, LaunchInv, Moved, NoJob,
          Early, Before, Switching, Late, Up, Good, SameReceipts, GivesUp, GoesOn, Answered, requests, installed, coordinator, historyVars
  <2>1. ~overlaid' => (Unsure' => Closed')
    <3> SUFFICES ASSUME ~overlaid, Unsure' PROVE Closed'
      OBVIOUS
    <3>1. Closed
      BY DEF Unsure
    <3>2. GivesUp /\ SameReceipts
      BY DEF Unsure, SwitchInv, Target
    <3>3. job'.r = 0 \/ (job'.phase = "stop" /\ job'.mode = "restore")
      BY <3>2
    <3> HIDE <1>1
    <3>4. QED
      BY <1>1, <3>1, <3>2, <3>3, SameGood DEF Closed
  <2>2. ~overlaid' => SwitchInv'
    BY DEF SwitchInv, Target, Unsure, Closed
  <2>3. ~overlaid' => OwnHold'
    BY DEF OwnHold, HeldInv
  <2>4. ~overlaid' => HeldInv'
    <3> SUFFICES ASSUME ~overlaid PROVE HeldInv'
      OBVIOUS
    <3>1. HeldInv /\ OwnHold /\ Closed /\ job.phase = "commit"
      BY DEF Unsure
    <3>2. hold = job.r /\ coord.request \in {0} \cup Requests
      BY <3>1, Bounds DEF OwnHold, Coordinators, Requests
    <3>3. coord.held /\ coord.request # 0 => (Good(receipt'[coord.request]) => hold = coord.request)
      <4>1. CASE coord.request = job.r
        BY <3>2, <4>1
      <4>2. CASE coord.request # 0 /\ coord.request # job.r
        BY <3>1, <3>2, <4>2 DEF HeldInv
      <4>3. QED
        BY <4>1, <4>2
    <3>4. job'.phase = "resume" => job'.why # "abandoned"
      BY <1>1
    <3> HIDE <1>1
    <3>5. QED
      BY <1>1, <3>1, <3>3, <3>4 DEF HeldInv, Closed
  <2>5. ~overlaid' => (unit'.live => unit'.version = committed')
    BY DEF Unsure, Closed
  <2>6. QED
    BY <2>1, <2>2, <2>3, <2>4, <2>5
<1>5. Keeps
  BY <1>1 DEF Keeps, JobInv, TypeOK, Early, Before, Switching, Late, SameReceipts, installed
<1>6. QED
  BY <1>2, <1>3, <1>4, <1>5

LEMMA StutterStep ==
  ASSUME IInv, UNCHANGED vars
  PROVE  IInv' /\ Keeps
<1> USE DEF vars, IInv
<1>1. TypeOK' /\ JobInv' /\ OpsInv' /\ CoordInv'
  BY DEF TypeOK, JobInv, OpsInv, CoordInv, Up
<1>2. LaunchInv'
  BY DEF LaunchInv, Unsure, Closed, SwitchInv, Target, OwnHold, HeldInv, Up
<1>3. QED
  BY <1>1, <1>2 DEF Keeps, installed

-----------------------------------------------------------------------------
(* The steps together.                                                     *)

LEMMA JobStepKeeps ==
  ASSUME IInv, JobStep
  PROVE  IInv' /\ Keeps
<1>1. CASE \E r \in Requests : Begin(r)
  BY <1>1, BeginStep
<1>2. CASE WriteHold \/ Identify \/ Pause \/ Snapshot \/ HoldRunners
  BY <1>2, WriteHoldStep, IdentifyStep, PauseStep, SnapshotStep, HoldRunnersStep
<1>3. CASE StopCoordinator \/ WriteManifest \/ SwitchLink \/ StartCoordinator
  BY <1>3, StopCoordinatorStep, WriteManifestStep, SwitchLinkStep, StartCoordinatorStep
<1>4. CASE Probe \/ Commit \/ Resume \/ Lift
  BY <1>4, ProbeStep, CommitStep, ResumeStep, LiftStep
<1>5. QED
  BY <1>1, <1>2, <1>3, <1>4 DEF JobStep

LEMMA NextStep ==
  ASSUME IInv, [Next]_vars
  PROVE  IInv' /\ Keeps
<1>1. CASE RequestRemote \/ \E kind \in Kinds : RequestCli(kind)
  BY <1>1, RequestRemoteStep, RequestCliStep
<1>2. CASE JobStep \/ LoseAnswer
  BY <1>2, JobStepKeeps, LoseAnswerStep
<1>3. CASE OsStart \/ OperatorStart \/ Serve
  BY <1>3, OsStartStep, OperatorStartStep, ServeStep
<1>4. CASE \E r \in Requests : WatchReceipt(r) \/ Expire(r)
  BY <1>4, WatchReceiptStep, ExpireStep
<1>5. CASE FinishStep
  BY <1>5, FinishSettleStep, FinishResumeStep, FinishLaunchStep, FinishClearStep DEF FinishStep
<1>6. CASE JobDies \/ CoordinatorDies \/ Reboot
  BY <1>6, JobDiesStep, CoordinatorDiesStep, RebootStep
<1>7. CASE UNCHANGED vars
  BY <1>7, StutterStep
<1>8. QED
  BY <1>1, <1>2, <1>3, <1>4, <1>5, <1>6, <1>7 DEF Next

(* The inductive invariant holds in every reachable state.                 *)
THEOREM Invariant == Spec => []IInv
<1>1. Init => IInv
  BY InitInv
<1>2. IInv /\ [Next]_vars => IInv'
  BY NextStep
<1>3. QED
  BY <1>1, <1>2, PTL DEF Spec

(* However many upgrades of whatever kind are asked for and whatever fails,*)
(* the job, the files, the Coordinator and the Workspace have their types: *)
(* `settle` writes no word an operation has not, and every phase of        *)
(* `switchRuntime` leads to one of its phases.                             *)
THEOREM TypeCorrect == Spec => []TypeOK
<1>1. IInv => TypeOK
  BY DEF IInv
<1>2. QED
  BY <1>1, Invariant, PTL

(* However many upgrades are asked for and whatever dies between two of    *)
(* their steps, a Workspace that is up runs the version the last good      *)
(* receipt names, as long as no job began under the hold of an earlier one.*)
THEOREM UncommittedNeverRuns == Spec => []LaunchedIsCommitted
<1>1. IInv => LaunchedIsCommitted
  BY DEF IInv, LaunchInv, LaunchedIsCommitted
<1>2. QED
  BY <1>1, Invariant, PTL

(* With no launch hold in place, a Coordinator that serves and is not      *)
(* paused runs what both the link and active.json install, and that is the *)
(* version of the last good receipt.                                       *)
THEOREM ServesWhatIsInstalled == Spec => []ServingRunsInstalled
<1>1. IInv => ServingRunsInstalled
  BY DEF IInv, LaunchInv, Unsure, Closed, Up, ServingRunsInstalled
<1>2. QED
  BY <1>1, Invariant, PTL

(* A receipt is written once, by the job that has the lock or by one that  *)
(* could not get it, and the installed version changes only on behalf of   *)
(* an upgrade that has none yet.                                           *)
THEOREM ReceiptsAreFinal == Spec => CommittedStays
<1>1. IInv /\ [Next]_vars =>
        [/\ \A r \in Requests : receipt[r] # "none" => receipt'[r] = receipt[r]
         /\ installed' # installed => job.r # 0 /\ receipt[job.r] = "none"]_vars
  BY NextStep DEF Keeps
<1>2. QED
  BY <1>1, Invariant, PTL DEF Spec, CommittedStays

=============================================================================
