--------------------------- MODULE SupervisorProofs ---------------------------
(***************************************************************************)
(* What a Workspace's lifecycle promises for any number of commands and    *)
(* failures: stops hold, restarts replace, receipts stay.                  *)
(***************************************************************************)
EXTENDS Supervisor, TLAPS

-----------------------------------------------------------------------------
(* The inductive invariant.                                                *)

Down(b) == ~b.enabled /\ b.restart = NoRestart

(* Every instance with a receipt, or that a restart g may take for its     *)
(* own, began after the restart was asked for (a: the commands given, i:   *)
(* an instance).                                                           *)
Newer(a, i, g) ==
  g # NoRestart => g.id \in DOMAIN a /\ (i = 0 \/ i = g.prev \/ i > a[g.id].born)
Receipts(a, b) ==
  \A r \in Requests : b.completed[r] # 0 => r \in DOMAIN a /\ b.completed[r] > a[r].born
Sound(a, i, b) == Valid(b) /\ Receipts(a, b) /\ Newer(a, i, b.restart)

AskedInv ==
  /\ unit.live <= unit.last
  /\ \A n \in DOMAIN asked : /\ asked[n].born <= unit.last /\ asked[n].id <= n
                             /\ asked[n].op = "restart" => asked[n].id # 0

(* The registry file, the copy of it in memory and that of the work under  *)
(* way.                                                                    *)
BindingsInv ==
  /\ Sound(asked, unit.live, disk) /\ Sound(asked, unit.live, mem.bindings)
  /\ Sound(asked, unit.live, work.copy)
  /\ ~mem.reload => mem.bindings = disk

Asking == {"check", "refuse", "clear", "begin"}
Holding == {"hold", "halt", "halted"}
Starting == {"launch", "ensure", "ready", "answered", "finish"}
StopPath == {"mark", "stop", "settle", "done"}
QuietPath == StopPath \cup {"reconcile", "record"}

(* What a piece of work may replace, and what it has found.                *)
Targets(a, i, w) ==
  /\ Newer(a, i, w.goal) /\ Newer(a, w.found, w.goal)
  /\ w.at \notin Starting \cup {"settle", "done"} => w.found = 0
  /\ w.at \notin Holding \cup Starting \cup {"settle", "done"} => w.goal = NoRestart
  /\ w.at \in {"ready", "answered", "finish"} => w.found # 0
  /\ w.at \in Holding => w.goal = w.copy.restart
  /\ w.at \in Holding \cup {"finish"} => w.goal # NoRestart
  /\ w.at \in Holding \cup Starting /\ w.goal # NoRestart =>
       /\ w.copy.completed[w.goal.id] = 0
       /\ w.copy.restart.id \in {0, w.goal.id}

(* What the place a piece of work is at says of its kind.                  *)
Placed(a, w) ==
  /\ (w.kind = "none" \/ w.at = "idle") => w = Idle
  /\ w.kind \in {"command", "failure"} => w.n \in DOMAIN a
  /\ w.at \in Asking => w.kind = "command"
  /\ w.kind = "command" => /\ a[w.n].end = "open"
                           /\ a[w.n].op = "stop" => w.at \in StopPath
  /\ w.kind = "failure" => w.at \in {"record", "done"}

WorkInv == Placed(asked, work) /\ Targets(asked, unit.live, work)

(* Commands have their turn in the order they were given, and a stop whose *)
(* intent is to be written is still waiting for it.                        *)
Ordered(a, q, w) ==
  /\ \A i \in DOMAIN q : /\ q[i].kind \in {"command", "failure"} => q[i].n \in DOMAIN a
                         /\ q[i].kind = "command" /\ w.kind = "command" => w.n < q[i].n
  /\ \A i, j \in DOMAIN q :
       i < j /\ q[i].kind = "command" /\ q[j].kind = "command" => q[i].n < q[j].n
Intents(a, q, m) ==
  /\ \A n \in m.unwritten : /\ \E i \in DOMAIN q : q[i].kind = "command" /\ q[i].n = n
                            /\ n \in DOMAIN a /\ a[n].op = "stop"
                            /\ a[n].end = "open" /\ ~a[n].early /\ n <= m.stopIntent
  /\ m.stopIntent # 0 => /\ m.stopIntent \in DOMAIN a /\ a[m.stopIntent].op = "stop"
                         /\ \A n \in DOMAIN a : a[n].op = "stop" => n <= m.stopIntent
QueueInv == Ordered(asked, queue, work) /\ Intents(asked, queue, mem)

(* From here on the work under way, and what is still to have its turn,    *)
(* leaves the Workspace stopped.                                           *)
Behind(n, q) == \A i \in DOMAIN q : q[i].kind = "command" => n < q[i].n
QuietWork(n, w, m) ==
  /\ w.kind = "command" => n < w.n
  /\ w.at \notin {"idle", "close"} =>
       Down(w.copy) /\ Down(m.bindings) /\ w.at \in QuietPath
Quiet(n, q, w, m) == Behind(n, q) /\ QuietWork(n, w, m)

(* A stop whose intent was written: its turn is to come, or it ended well, *)
(* or its deadline has answered. Or one that has ended well.               *)
Written(n) ==
  /\ asked[n].op = "stop" /\ n \notin mem.unwritten
  /\ asked[n].early \/ asked[n].end \in {"open", "ok"}
NoneFailedAfter(n) == \A m \in DOMAIN asked : m > n => asked[m].end \notin Failures
Holds(n) == Written(n) /\ OnlyStopsAfter(n) /\ NoneFailedAfter(n)
Over(n) == asked[n].op = "stop" /\ asked[n].end = "ok" /\ OnlyStopsAfter(n)

StopUnderWay(a, w) == w.kind = "command" /\ a[w.n].op = "stop" /\ w.at # "mark"

StopInv ==
  /\ StopUnderWay(asked, work) =>
       /\ Down(disk) /\ Down(mem.bindings) /\ Down(work.copy)
       /\ work.at # "stop" => unit.live = 0
  /\ \A n \in DOMAIN asked :
       /\ Holds(n) => Down(disk) /\ (mem.stopIntent # 0 \/ Quiet(n, queue, work, mem))
       /\ Over(n) => Down(disk) /\ Quiet(n, queue, work, mem) /\ unit.live = 0

(* The file is ahead of the work under way only by a stop, which the next  *)
(* save of that work keeps.                                                *)
AheadInv ==
  NoStopFailed /\ work.at \notin {"idle", "close"} =>
    /\ ~mem.reload
    /\ work.copy = disk \/ (mem.stopIntent # 0 /\ disk = Stopped(work.copy))

IInv == TypeOK /\ AskedInv /\ BindingsInv /\ WorkInv /\ QueueInv /\ StopInv /\ AheadInv

-----------------------------------------------------------------------------
(* Bindings.                                                               *)

LEMMA Bounds ==
  /\ MaxRequests \in Nat \ {0} /\ MaxEvents \in Nat
  /\ 0 \in 0..MaxRequests
  /\ \A r \in Requests : r \in 0..MaxRequests /\ r \in Nat /\ r # 0
  /\ \A r \in 0..MaxRequests : r # 0 => r \in Requests
  BY SupervisorBounds DEF Requests

LEMMA RestartFields ==
  ASSUME NEW g \in Restarts
  PROVE  /\ g.id \in 0..MaxRequests /\ g.prev \in Nat
         /\ g # NoRestart => /\ g.id \in Requests
                             /\ g.phase \in {"stopping", "starting"}
         /\ g.id = 0 <=> g = NoRestart
  BY Bounds DEF Restarts, NoRestart

LEMMA BindingFields ==
  ASSUME NEW b \in Bindings
  PROVE  /\ b.enabled \in BOOLEAN /\ b.restart \in Restarts
         /\ b.completed \in [Requests -> Nat] /\ b.cancelled \in SUBSET Requests
         /\ b.failure \in 0..MaxRequests
  BY DEF Bindings

LEMMA BindingEqual ==
  ASSUME NEW b \in Bindings, NEW c \in Bindings,
         b.enabled = c.enabled, b.restart = c.restart, b.completed = c.completed,
         b.cancelled = c.cancelled, b.failure = c.failure
  PROVE  b = c
  BY DEF Bindings

LEMMA RegisteredSound ==
  /\ NoRestart \in Restarts /\ Registered \in Bindings
  /\ \A a, i : Sound(a, i, Registered)
  /\ Registered.restart = NoRestart /\ Registered.enabled
  <1>1. NoRestart \in Restarts
    BY DEF Restarts
  <1>2. Registered \in Bindings
    BY <1>1, Bounds DEF Registered, Bindings
  <1>3. ASSUME NEW a, NEW i PROVE Sound(a, i, Registered)
    BY DEF Sound, Valid, Receipts, Newer, Registered
  <1> QED
    BY <1>1, <1>2, <1>3 DEF Registered

(* What closing a restart keeps of a binding.                              *)
Closes(b, c) ==
  /\ c \in Bindings /\ c.restart = NoRestart
  /\ c.completed = b.completed /\ c.failure = b.failure
  /\ b.restart = NoRestart => c.cancelled = b.cancelled
  /\ b.restart # NoRestart => c.cancelled = b.cancelled \cup {b.restart.id}

LEMMA CancelledCloses ==
  ASSUME NEW b \in Bindings
  PROVE  Closes(b, Cancelled(b)) /\ Cancelled(b).enabled = b.enabled
  <1>1. CASE b.restart = NoRestart
    BY <1>1 DEF Cancelled, Closes
  <1>2. CASE b.restart # NoRestart
    <2>1. Cancelled(b) = [b EXCEPT !.restart = NoRestart, !.cancelled = @ \cup {b.restart.id}]
      BY <1>2 DEF Cancelled
    <2>2. b.restart.id \in Requests
      BY <1>2, BindingFields, RestartFields
    <2>3. b.cancelled \cup {b.restart.id} \in SUBSET Requests
      BY <2>2, BindingFields
    <2>4. Cancelled(b) \in Bindings
      BY <2>1, <2>3, RegisteredSound DEF Bindings
    <2>5. /\ Cancelled(b).restart = NoRestart /\ Cancelled(b).completed = b.completed
          /\ Cancelled(b).failure = b.failure /\ Cancelled(b).enabled = b.enabled
          /\ Cancelled(b).cancelled = b.cancelled \cup {b.restart.id}
      BY <2>1 DEF Bindings
    <2> QED
      BY <1>2, <2>4, <2>5 DEF Closes
  <1> QED
    BY <1>1, <1>2

LEMMA StoppedCloses ==
  ASSUME NEW b \in Bindings
  PROVE  /\ Closes(b, Stopped(b)) /\ Down(Stopped(b))
         /\ Stopped(b).enabled = FALSE
  <1>1. /\ Cancelled(b) \in Bindings /\ Closes(b, Cancelled(b))
        /\ Stopped(b) = [Cancelled(b) EXCEPT !.enabled = FALSE]
    BY CancelledCloses DEF Stopped, Closes
  <1>2. /\ Stopped(b) \in Bindings /\ Stopped(b).enabled = FALSE
        /\ Stopped(b).restart = Cancelled(b).restart
        /\ Stopped(b).completed = Cancelled(b).completed
        /\ Stopped(b).cancelled = Cancelled(b).cancelled
        /\ Stopped(b).failure = Cancelled(b).failure
    BY <1>1 DEF Bindings
  <1> QED
    BY <1>1, <1>2 DEF Closes, Down

LEMMA StoppedOfDown ==
  ASSUME NEW b \in Bindings, Down(b)
  PROVE  Stopped(b) = b
  <1>1. Stopped(b) \in Bindings /\ Closes(b, Stopped(b)) /\ Stopped(b).enabled = FALSE
    BY StoppedCloses DEF Closes
  <1> QED
    BY <1>1, BindingEqual, BindingFields DEF Down, Closes

LEMMA ClosesSound ==
  ASSUME NEW b \in Bindings, NEW c, Closes(b, c), NEW a, NEW i, Sound(a, i, b)
  PROVE  Sound(a, i, c)
  <1>1. Receipts(a, c)
    BY DEF Closes, Sound, Receipts
  <1>2. Newer(a, i, c.restart)
    BY DEF Closes, Newer
  <1>3. Valid(c)
    <2>1. ASSUME NEW r \in c.cancelled PROVE c.completed[r] = 0
      BY <2>1, BindingFields, RestartFields, Bounds DEF Closes, Sound, Valid, Finished
    <2> QED
      BY <2>1 DEF Closes, Valid
  <1> QED
    BY <1>1, <1>2, <1>3 DEF Sound

(* A save keeps a pending stop.                                            *)
LEMMA KeptFacts ==
  ASSUME NEW b \in Bindings
  PROVE  /\ Kept(b) \in Bindings /\ Kept(b).completed = b.completed
         /\ mem.stopIntent # 0 => Kept(b) = Stopped(b) /\ Down(Kept(b))
         /\ mem.stopIntent = 0 => Kept(b) = b
         /\ Down(b) => Down(Kept(b))
         /\ Kept(b).restart \in {b.restart, NoRestart}
  BY StoppedCloses DEF Kept, Closes

LEMMA KeptSound ==
  ASSUME NEW b \in Bindings, NEW a, NEW i, Receipts(a, b), Newer(a, i, b.restart)
  PROVE  Receipts(a, Kept(b)) /\ Newer(a, i, Kept(b).restart)
  BY KeptFacts DEF Receipts, Newer

-----------------------------------------------------------------------------
(* Commands and instances.                                                 *)

LEMMA AskedFacts ==
  ASSUME TypeOK
  PROVE  /\ Len(asked) \in Nat /\ DOMAIN asked = 1..Len(asked)
         /\ \A n \in DOMAIN asked :
              /\ n \in Requests /\ n \in 0..MaxRequests /\ n \in Nat /\ n # 0
              /\ asked[n] \in Commands
              /\ asked[n].op \in Operations /\ asked[n].id \in 0..MaxRequests
              /\ asked[n].early \in BOOLEAN /\ asked[n].born \in Nat
              /\ asked[n].end \in {"open", "ok", "refused", "lost"} \cup Failures
  <1>1. asked \in Seq(Commands) /\ Len(asked) <= MaxRequests
    BY DEF TypeOK
  <1>2. Len(asked) \in Nat /\ DOMAIN asked = 1..Len(asked)
    BY <1>1
  <1>3. ASSUME NEW n \in DOMAIN asked
        PROVE  n \in Requests /\ asked[n] \in Commands
    BY <1>1, <1>2, <1>3, Bounds DEF Requests
  <1> QED
    BY <1>2, <1>3, Bounds DEF Commands

LEMMA StateFields ==
  ASSUME TypeOK
  PROVE  /\ disk \in Bindings /\ mem.bindings \in Bindings /\ work.copy \in Bindings
         /\ mem.reload \in BOOLEAN /\ mem.stopIntent \in 0..MaxRequests
         /\ mem.unwritten \in SUBSET Requests /\ mem.adopted \in Nat
         /\ work.kind \in {"none"} \cup Kinds /\ work.n \in 0..MaxRequests /\ work.at \in Places
         /\ work.goal \in Restarts /\ work.found \in Nat /\ work.aborted \in BOOLEAN
         /\ unit.live \in Nat /\ unit.last \in Nat /\ queue \in Seq(Items)
         /\ unit.health \in {"ok", "degraded", "parked"}
  BY DEF TypeOK, Memories, Works, Units

(* A command keeps what was asked for.                                     *)
AskedKeeps ==
  \A n \in DOMAIN asked :
    /\ n \in DOMAIN asked' /\ asked'[n].op = asked[n].op
    /\ asked'[n].id = asked[n].id /\ asked'[n].born = asked[n].born

(* An instance goes, or a new one comes.                                   *)
UnitGoes ==
  /\ unit' \in Units /\ unit'.live <= unit'.last /\ unit.last <= unit'.last
  /\ unit'.live = 0 \/ unit'.live = unit.live \/ unit.last < unit'.live

LEMMA NewerGoes ==
  ASSUME TypeOK, AskedInv, AskedKeeps, UnitGoes
  PROVE  /\ \A g \in Restarts : Newer(asked, unit.live, g) => Newer(asked', unit'.live, g)
         /\ \A i \in Nat, g \in Restarts : Newer(asked, i, g) => Newer(asked', i, g)
  <1>1. unit.live \in Nat /\ unit.last \in Nat /\ unit'.live \in Nat /\ unit'.last \in Nat
    BY StateFields DEF UnitGoes, Units
  <1>2. ASSUME NEW g \in Restarts, Newer(asked, unit.live, g)
        PROVE  Newer(asked', unit'.live, g)
    <2>1. SUFFICES ASSUME g # NoRestart
                   PROVE  g.id \in DOMAIN asked'
                          /\ (unit'.live = 0 \/ unit'.live = g.prev \/ unit'.live > asked'[g.id].born)
      BY DEF Newer
    <2>2. /\ g.id \in DOMAIN asked
          /\ unit.live = 0 \/ unit.live = g.prev \/ unit.live > asked[g.id].born
      BY <1>2, <2>1 DEF Newer
    <2>3. /\ asked'[g.id].born = asked[g.id].born /\ asked[g.id].born \in Nat
          /\ asked[g.id].born <= unit.last /\ g.id \in DOMAIN asked'
      BY <2>2, AskedFacts DEF AskedKeeps, AskedInv
    <2>4. unit'.live = 0 \/ unit'.live = unit.live \/ unit'.live > asked[g.id].born
      BY <1>1, <2>3 DEF UnitGoes
    <2> QED
      BY <2>2, <2>3, <2>4
  <1>3. ASSUME NEW i \in Nat, NEW g \in Restarts, Newer(asked, i, g)
        PROVE  Newer(asked', i, g)
    BY <1>3 DEF Newer, AskedKeeps
  <1> QED
    BY <1>2, <1>3

LEMMA SoundGoes ==
  ASSUME TypeOK, AskedInv, AskedKeeps, UnitGoes,
         NEW b \in Bindings, Sound(asked, unit.live, b)
  PROVE  Sound(asked', unit'.live, b)
  <1>1. Receipts(asked', b)
    BY DEF Sound, Receipts, AskedKeeps
  <1>2. Newer(asked', unit'.live, b.restart)
    BY NewerGoes, BindingFields DEF Sound
  <1> QED
    BY <1>1, <1>2 DEF Sound

LEMMA UnitSame ==
  ASSUME TypeOK, AskedInv, unit' = unit
  PROVE  UnitGoes
  BY StateFields DEF UnitGoes, AskedInv, TypeOK

LEMMA UnitDown ==
  ASSUME TypeOK, AskedInv, unit' \in Units, unit'.last = unit.last, unit'.live = 0
  PROVE  UnitGoes
  BY StateFields DEF UnitGoes, AskedInv

-----------------------------------------------------------------------------
(* Steps of the work under way that leave the file and the commands alone. *)

MemKeeps ==
  /\ mem' \in Memories /\ mem'.bindings = mem.bindings /\ mem'.reload = mem.reload
  /\ mem'.stopIntent = mem.stopIntent /\ mem'.unwritten = mem.unwritten

WorkKeeps == work' \in Works /\ work'.kind = work.kind /\ work'.n = work.n

(* The work under way is that of a stop, or of a stopped Workspace.        *)
QuietNow ==
  /\ work.kind = "command" => asked[work.n].op = "stop"
  /\ work.at \in QuietPath /\ Down(work.copy) /\ Down(mem.bindings)

LEMMA QuietIsNow ==
  ASSUME TypeOK, WorkInv, NEW n \in DOMAIN asked, OnlyStopsAfter(n), QuietWork(n, work, mem)
  PROVE  work.at \in {"idle", "close"} \/ QuietNow
  BY AskedFacts, StateFields DEF WorkInv, Placed, OnlyStopsAfter, QuietWork, QuietNow

LEMMA KeepsStep ==
  ASSUME IInv, asked' = asked, queue' = queue, disk' = disk, lapsed' = lapsed,
         events' \in 0..MaxEvents, MemKeeps, WorkKeeps, work'.copy = work.copy, UnitGoes,
         Placed(asked, work'), Targets(asked, unit'.live, work'),
         work'.at \notin {"idle", "close"} => work.at \notin {"idle", "close"},
         StopUnderWay(asked, work') =>
           work.at # "mark" /\ (work'.at # "stop" => unit'.live = 0),
         QuietNow \/ work.at \in {"idle", "close"} =>
           /\ work'.at \in QuietPath \cup {"idle", "close"}
           /\ unit.live = 0 => unit'.live = 0
  PROVE  IInv'
  <1>1. TypeOK'
    BY DEF IInv, TypeOK, MemKeeps, WorkKeeps, UnitGoes
  <1>2. AskedKeeps
    BY DEF AskedKeeps
  <1>3. AskedInv'
    <2>1. unit.last \in Nat /\ unit'.last \in Nat
      BY StateFields DEF IInv, UnitGoes, Units
    <2> QED
      BY <2>1, AskedFacts DEF IInv, AskedInv, UnitGoes
  <1>4. BindingsInv'
    BY <1>2, SoundGoes, StateFields DEF IInv, BindingsInv, MemKeeps
  <1>5. WorkInv'
    BY DEF WorkInv
  <1>6. QueueInv'
    BY DEF IInv, QueueInv, Ordered, Intents, MemKeeps, WorkKeeps
  <1>7. StopInv'
    <2>1. StopUnderWay(asked, work') =>
            /\ Down(disk') /\ Down(mem'.bindings) /\ Down(work'.copy)
            /\ work'.at # "stop" => unit'.live = 0
      BY DEF IInv, StopInv, StopUnderWay, MemKeeps, WorkKeeps
    <2>2. ASSUME NEW n \in DOMAIN asked, OnlyStopsAfter(n), Quiet(n, queue, work, mem)
          PROVE  /\ Quiet(n, queue', work', mem')
                 /\ unit.live = 0 => unit'.live = 0
      <3>1. QuietNow \/ work.at \in {"idle", "close"}
        BY <2>2, QuietIsNow DEF IInv, Quiet
      <3> QED
        BY <2>2, <3>1 DEF Quiet, Behind, QuietWork, MemKeeps, WorkKeeps
    <2>3. ASSUME NEW n \in DOMAIN asked
          PROVE  /\ Holds(n)' => Holds(n) /\ OnlyStopsAfter(n)
                 /\ Over(n)' => Over(n) /\ OnlyStopsAfter(n)
      BY DEF Holds, Over, Written, NoneFailedAfter, OnlyStopsAfter, MemKeeps
    <2>4. ASSUME NEW n \in DOMAIN asked'
          PROVE  /\ Holds(n)' => Down(disk') /\ (mem'.stopIntent # 0 \/ Quiet(n, queue', work', mem'))
                 /\ Over(n)' => Down(disk') /\ Quiet(n, queue', work', mem') /\ unit'.live = 0
      BY <2>2, <2>3 DEF IInv, StopInv, MemKeeps
    <2> QED
      BY <2>1, <2>4 DEF StopInv
  <1>8. AheadInv'
    BY DEF IInv, AheadInv, NoStopFailed, MemKeeps, WorkKeeps
  <1> QED
    BY <1>1, <1>3, <1>4, <1>5, <1>6, <1>7, <1>8 DEF IInv

-----------------------------------------------------------------------------
(* The end of a piece of work.                                             *)

LEMMA IdleFacts ==
  /\ Idle \in Works /\ Idle.kind = "none" /\ Idle.at = "idle" /\ Idle.copy = Registered
  /\ Idle.goal = NoRestart /\ Idle.found = 0 /\ Idle.tracked = FALSE /\ Idle.n = 0
  /\ \A a, i : Placed(a, Idle) /\ Targets(a, i, Idle)
  <1>1. Idle \in Works
    BY Bounds, RegisteredSound DEF Idle, Works, Places
  <1>2. ASSUME NEW a, NEW i PROVE Placed(a, Idle) /\ Targets(a, i, Idle)
    BY DEF Idle, Placed, Targets, Newer, Holding, Starting, Asking
  <1> QED
    BY <1>1, <1>2 DEF Idle

(* One of the commands has its end; the others stay as they are.           *)
EndsOne(k, result) ==
  /\ asked' \in Seq(Commands) /\ Len(asked') = Len(asked) /\ DOMAIN asked' = DOMAIN asked
  /\ AskedKeeps
  /\ \A n \in DOMAIN asked : /\ asked'[n].early = asked[n].early
                             /\ n # k => asked'[n].end = asked[n].end
                             /\ n = k => asked'[n].end = result

LEMMA EndOfOne ==
  ASSUME TypeOK, NEW k \in DOMAIN asked,
         NEW result \in {"open", "ok", "refused", "lost"} \cup Failures,
         asked' = [asked EXCEPT ![k].end = result]
  PROVE  EndsOne(k, result)
  <1>1. asked \in Seq(Commands) /\ asked[k] \in Commands
    BY AskedFacts DEF TypeOK
  <1>2. asked' = [asked EXCEPT ![k] = [asked[k] EXCEPT !.end = result]]
    OBVIOUS
  <1>3. /\ [asked[k] EXCEPT !.end = result] \in Commands
        /\ [asked[k] EXCEPT !.end = result].end = result
        /\ [asked[k] EXCEPT !.end = result].op = asked[k].op
        /\ [asked[k] EXCEPT !.end = result].id = asked[k].id
        /\ [asked[k] EXCEPT !.end = result].born = asked[k].born
        /\ [asked[k] EXCEPT !.end = result].early = asked[k].early
    BY <1>1 DEF Commands
  <1> DEFINE c == [asked[k] EXCEPT !.end = result]
  <1> HIDE DEF c
  <1>4. asked' = [asked EXCEPT ![k] = c]
    BY <1>2 DEF c
  <1>5. /\ c \in Commands /\ c.end = result /\ c.op = asked[k].op /\ c.id = asked[k].id
        /\ c.born = asked[k].born /\ c.early = asked[k].early
    BY <1>3 DEF c
  <1>6. /\ asked' \in Seq(Commands) /\ Len(asked') = Len(asked) /\ DOMAIN asked' = DOMAIN asked
        /\ asked'[k] = c /\ \A n \in DOMAIN asked : n # k => asked'[n] = asked[n]
    BY <1>1, <1>4, <1>5
  <1> QED
    BY <1>5, <1>6 DEF EndsOne, AskedKeeps

(* What is put at the end of the queue is no command.                      *)
QueueGoes ==
  /\ queue' \in Seq(Items)
  /\ \A i \in DOMAIN queue : i \in DOMAIN queue' /\ queue'[i] = queue[i]
  /\ \A i \in DOMAIN queue' : i \notin DOMAIN queue =>
       /\ queue'[i].kind # "command"
       /\ queue'[i].kind = "failure" => queue'[i].n \in DOMAIN asked

LEMMA QueueAppends ==
  ASSUME TypeOK, NEW x \in Items, queue' = Append(queue, x), x.kind # "command",
         x.kind = "failure" => x.n \in DOMAIN asked
  PROVE  QueueGoes
  BY DEF TypeOK, QueueGoes

LEMMA QueueSame ==
  ASSUME TypeOK, queue' = queue
  PROVE  QueueGoes
  BY DEF TypeOK, QueueGoes

(* The commands and the queue at the end of a piece of work.               *)
LEMMA EndsFacts ==
  ASSUME TypeOK, WorkInv, work.kind # "none", NEW m \in Memories,
         NEW result \in {"ok", "refused"} \cup Failures, Ends(result, m)
  PROVE  /\ work.kind = "command" => EndsOne(work.n, result)
         /\ work.kind # "command" => asked' = asked
         /\ QueueGoes /\ work' = Idle /\ lapsed' \in BOOLEAN
         /\ mem' \in Memories /\ mem'.bindings = m.bindings /\ mem'.reload = m.reload
         /\ mem'.unwritten = m.unwritten
         /\ mem'.stopIntent = IF work.kind = "command" /\ m.stopIntent = work.n THEN 0
                              ELSE m.stopIntent
  <1>1. work.kind = "command" => work.n \in DOMAIN asked
    BY DEF WorkInv, Placed
  <1>2. work.kind = "command" => EndsOne(work.n, result)
    BY <1>1, EndOfOne DEF Ends
  <1>3. QueueGoes
    <2>1. CASE work.kind = "command" /\ result \in Failures /\ asked[work.n].early
      <3>1. Item("failure", work.n) \in Items
        BY <1>1, <2>1, AskedFacts DEF Item, Items, Kinds
      <3> QED
        BY <1>1, <2>1, <3>1, QueueAppends DEF Ends, Item
    <2>2. CASE ~(work.kind = "command" /\ result \in Failures /\ asked[work.n].early)
      BY <2>2, QueueSame DEF Ends
    <2> QED
      BY <2>1, <2>2
  <1>4. /\ mem' \in Memories /\ mem'.bindings = m.bindings /\ mem'.reload = m.reload
        /\ mem'.unwritten = m.unwritten
        /\ mem'.stopIntent = IF work.kind = "command" /\ m.stopIntent = work.n THEN 0
                             ELSE m.stopIntent
    BY Bounds DEF Ends, Memories
  <1>5. lapsed' \in BOOLEAN
    BY DEF Ends, TypeOK
  <1> QED
    BY <1>2, <1>3, <1>4, <1>5 DEF Ends

LEMMA OrderedGoes ==
  ASSUME TypeOK, NEW w, Ordered(asked, queue, w), QueueGoes, AskedKeeps
  PROVE  Ordered(asked', queue', Idle)
  BY IdleFacts DEF TypeOK, Ordered, QueueGoes, AskedKeeps

LEMMA BehindGoes ==
  ASSUME NEW n, Behind(n, queue), QueueGoes
  PROVE  Behind(n, queue')
  BY DEF Behind, QueueGoes

(* What the end of a piece of work does besides.                           *)
Ending(result) ==
  /\ work.kind = "command" => EndsOne(work.n, result)
  /\ work.kind # "command" => asked' = asked
  /\ QueueGoes /\ work' = Idle /\ lapsed' \in BOOLEAN
  /\ mem' \in Memories /\ mem'.bindings = mem.bindings /\ mem'.unwritten = mem.unwritten
  /\ mem'.stopIntent = IF work.kind = "command" /\ mem.stopIntent = work.n THEN 0
                       ELSE mem.stopIntent
  /\ mem'.reload \/ (mem'.reload = mem.reload /\ disk' = disk)
  /\ disk' \in Bindings /\ Sound(asked, unit.live, disk')
  /\ disk' = disk
     \/ /\ work.at \notin {"idle", "close"}
        /\ Down(disk) /\ (mem.stopIntent # 0 \/ QuietNow) => Down(disk')
  /\ unit' \in Units /\ unit'.last = unit.last /\ unit'.live \in {0, unit.live}
  /\ events' \in 0..MaxEvents
  /\ work.kind = "command" /\ result = "ok" /\ asked[work.n].op = "stop" =>
       disk' = disk /\ work.at \in {"settle", "done"}

LEMMA EndKeepsStops ==
  ASSUME IInv, NEW result \in {"ok", "refused"} \cup Failures, work.kind # "none",
         Ending(result), AskedKeeps, DOMAIN asked' = DOMAIN asked
  PROVE  StopInv'
  <1>1. ~StopUnderWay(asked', work')
    BY IdleFacts DEF Ending, StopUnderWay
  <1>2. work.kind = "command" => work.n \in DOMAIN asked /\ asked[work.n].end = "open"
    BY DEF IInv, WorkInv, Placed
  <1>3. \A n \in DOMAIN asked : Quiet(n, queue, work, mem) => Quiet(n, queue', work', mem')
    BY BehindGoes, IdleFacts DEF Ending, Quiet, QuietWork
  <1>4. work.kind = "command" =>
          \A n \in DOMAIN asked : n <= work.n => Quiet(n, queue', work', mem')
    <2>1. SUFFICES ASSUME work.kind = "command", NEW n \in DOMAIN asked, n <= work.n
                   PROVE  Quiet(n, queue', work', mem')
      OBVIOUS
    <2>2. \A i \in DOMAIN queue : queue[i].kind = "command" => work.n < queue[i].n /\ queue[i].n \in DOMAIN asked
      BY <2>1 DEF IInv, QueueInv, Ordered
    <2>3. Behind(n, queue)
      BY <1>2, <2>1, <2>2, AskedFacts DEF IInv, Behind
    <2> QED
      BY <2>3, BehindGoes, IdleFacts DEF Ending, Quiet, QuietWork
  <1>5. ASSUME NEW n \in DOMAIN asked, OnlyStopsAfter(n), Down(disk),
               mem.stopIntent # 0 \/ Quiet(n, queue, work, mem)
        PROVE  Down(disk')
    <2>1. CASE disk' = disk
      BY <1>5, <2>1
    <2>2. CASE disk' # disk
      <3>1. work.at \notin {"idle", "close"}
        BY <2>2 DEF Ending
      <3>2. mem.stopIntent # 0 \/ QuietNow
        BY <1>5, <3>1, QuietIsNow DEF IInv, Quiet
      <3> QED
        BY <1>5, <2>2, <3>2 DEF Ending
    <2> QED
      BY <2>1, <2>2
  <1>6. ASSUME NEW n \in DOMAIN asked, Holds(n)'
        PROVE  Down(disk') /\ (mem'.stopIntent # 0 \/ Quiet(n, queue', work', mem'))
    <2>1. OnlyStopsAfter(n) /\ asked[n].op = "stop"
      BY <1>6, AskedFacts DEF IInv, Holds, Written, OnlyStopsAfter, AskedKeeps
    <2>2. NoneFailedAfter(n)
      BY <1>2, <1>6 DEF Holds, NoneFailedAfter, Failures, Ending, EndsOne
    <2>3. Written(n)
      BY <1>2, <1>6, <2>1 DEF Holds, Written, Ending, EndsOne
    <2>4. Down(disk) /\ (mem.stopIntent # 0 \/ Quiet(n, queue, work, mem))
      BY <2>1, <2>2, <2>3 DEF IInv, StopInv, Holds
    <2>5. Down(disk')
      BY <1>5, <2>1, <2>4
    <2>6. CASE work.kind = "command" /\ mem.stopIntent = work.n /\ mem.stopIntent # 0
      <3>1. n <= work.n
        BY <2>1, <2>6 DEF IInv, QueueInv, Intents
      <3> QED
        BY <1>4, <2>5, <2>6, <3>1
    <2>7. CASE ~(work.kind = "command" /\ mem.stopIntent = work.n /\ mem.stopIntent # 0)
      BY <1>3, <2>4, <2>5, <2>7 DEF Ending
    <2> QED
      BY <2>6, <2>7
  <1>7. ASSUME NEW n \in DOMAIN asked, Over(n)'
        PROVE  Down(disk') /\ Quiet(n, queue', work', mem') /\ unit'.live = 0
    <2>1. OnlyStopsAfter(n) /\ asked[n].op = "stop"
      BY <1>7, AskedFacts DEF IInv, Over, OnlyStopsAfter, AskedKeeps
    <2>2. CASE Over(n)
      <3>1. Down(disk) /\ Quiet(n, queue, work, mem) /\ unit.live = 0
        BY <2>2 DEF IInv, StopInv
      <3> QED
        BY <1>3, <1>5, <2>1, <3>1 DEF Ending
    <2>3. CASE ~Over(n)
      <3>1. asked[n].end # "ok" /\ asked'[n].end = "ok"
        BY <1>7, <2>1, <2>3 DEF Over
      <3>2. work.kind = "command" /\ n = work.n /\ result = "ok"
        BY <3>1 DEF Ending, EndsOne
      <3>3. disk' = disk /\ work.at \in {"settle", "done"}
        BY <2>1, <3>2 DEF Ending
      <3>4. Down(disk) /\ unit.live = 0
        BY <2>1, <3>2, <3>3 DEF IInv, StopInv, StopUnderWay
      <3>5. n <= work.n
        BY <3>2, AskedFacts DEF IInv
      <3> QED
        BY <1>4, <3>2, <3>3, <3>4, <3>5 DEF Ending
    <2> QED
      BY <2>2, <2>3
  <1> QED
    BY <1>1, <1>6, <1>7 DEF StopInv

LEMMA EndKeepsIntents ==
  ASSUME IInv, NEW result \in {"ok", "refused"} \cup Failures, work.kind # "none",
         Ending(result), AskedKeeps, DOMAIN asked' = DOMAIN asked
  PROVE  Intents(asked', queue', mem')
  <1>1. ASSUME NEW n \in mem.unwritten
        PROVE  /\ \E i \in DOMAIN queue' : queue'[i].kind = "command" /\ queue'[i].n = n
               /\ n \in DOMAIN asked' /\ asked'[n].op = "stop"
               /\ asked'[n].end = "open" /\ ~asked'[n].early /\ n <= mem'.stopIntent
    <2>1. /\ n \in DOMAIN asked /\ asked[n].op = "stop" /\ asked[n].end = "open"
          /\ ~asked[n].early /\ n <= mem.stopIntent
      BY DEF IInv, QueueInv, Intents
    <2>2. PICK i \in DOMAIN queue : queue[i].kind = "command" /\ queue[i].n = n
      BY DEF IInv, QueueInv, Intents
    <2>3. i \in DOMAIN queue' /\ queue'[i] = queue[i]
      BY DEF Ending, QueueGoes
    <2>4. work.kind = "command" => work.n < n
      BY <2>2 DEF IInv, QueueInv, Ordered
    <2>5. n \in Nat /\ mem.stopIntent \in Nat /\ work.n \in Nat
      BY <2>1, AskedFacts, StateFields, Bounds DEF IInv
    <2>6. n <= mem'.stopIntent
      BY <2>1, <2>4, <2>5 DEF Ending
    <2>7. asked'[n].op = "stop" /\ asked'[n].end = "open" /\ ~asked'[n].early
      BY <2>1, <2>4, <2>5 DEF Ending, EndsOne, AskedKeeps
    <2> QED
      BY <2>1, <2>2, <2>3, <2>6, <2>7
  <1>2. mem'.stopIntent # 0 =>
          /\ mem'.stopIntent \in DOMAIN asked' /\ asked'[mem'.stopIntent].op = "stop"
          /\ \A n \in DOMAIN asked' : asked'[n].op = "stop" => n <= mem'.stopIntent
    BY DEF IInv, QueueInv, Intents, Ending, AskedKeeps
  <1> QED
    BY <1>1, <1>2 DEF Intents, Ending

LEMMA EndStep ==
  ASSUME IInv, NEW result \in {"ok", "refused"} \cup Failures, work.kind # "none",
         Ending(result)
  PROVE  IInv'
  <1>1. /\ AskedKeeps /\ DOMAIN asked' = DOMAIN asked /\ Len(asked') = Len(asked)
        /\ asked' \in Seq(Commands)
    BY DEF Ending, EndsOne, AskedKeeps, IInv, TypeOK
  <1>2. TypeOK'
    BY <1>1, IdleFacts DEF IInv, TypeOK, Ending, QueueGoes
  <1>3. UnitGoes
    BY StateFields DEF IInv, Ending, UnitGoes, AskedInv
  <1>4. AskedInv'
    BY <1>1, <1>3, AskedFacts, StateFields DEF IInv, AskedInv, UnitGoes, AskedKeeps, Ending
  <1>5. BindingsInv'
    <2>1. Sound(asked', unit'.live, disk')
      BY <1>1, <1>3, SoundGoes DEF IInv, Ending
    <2>2. Sound(asked', unit'.live, mem'.bindings)
      BY <1>1, <1>3, SoundGoes, StateFields DEF IInv, Ending, BindingsInv
    <2>3. Sound(asked', unit'.live, work'.copy)
      BY IdleFacts, RegisteredSound DEF Ending
    <2>4. ~mem'.reload => mem'.bindings = disk'
      BY DEF IInv, BindingsInv, Ending
    <2> QED
      BY <2>1, <2>2, <2>3, <2>4 DEF BindingsInv
  <1>6. WorkInv'
    BY IdleFacts DEF WorkInv, Ending
  <1>7. QueueInv'
    BY <1>1, OrderedGoes, EndKeepsIntents DEF IInv, QueueInv, Ending
  <1>8. StopInv'
    BY <1>1, EndKeepsStops
  <1>9. AheadInv'
    BY IdleFacts DEF AheadInv, Ending
  <1> QED
    BY <1>2, <1>4, <1>5, <1>6, <1>7, <1>8, <1>9 DEF IInv

(* A piece of work that ends and leaves the file as it is.                 *)
LEMMA CalmEnd ==
  ASSUME IInv, NEW m \in Memories, NEW result \in {"ok", "refused"} \cup Failures,
         work.kind # "none", Ends(result, m),
         m.bindings = mem.bindings, m.reload = mem.reload,
         m.stopIntent = mem.stopIntent, m.unwritten = mem.unwritten,
         disk' = disk, events' \in 0..MaxEvents,
         unit' \in Units, unit'.last = unit.last, unit'.live \in {0, unit.live},
         work.kind = "command" /\ result = "ok" /\ asked[work.n].op = "stop" =>
           work.at \in {"settle", "done"}
  PROVE  IInv'
  <1>1. Ending(result)
    BY EndsFacts, StateFields DEF IInv, Ending, BindingsInv
  <1> QED
    BY <1>1, EndStep

-----------------------------------------------------------------------------
(* A save.                                                                 *)

LEMMA FaultCounts ==
  ASSUME TypeOK, NEW kind, Fault(kind)
  PROVE  events' \in 0..MaxEvents
  BY SupervisorBounds DEF TypeOK, Fault

(* What ReceiptsStay says of a step.                                       *)
ReceiptsKept(b, c) ==
  \A r \in Requests : HasReceipt(b, r) =>
    /\ HasReceipt(c, r) /\ c.restart.id # r
    /\ b.completed[r] # 0 => c.completed[r] = b.completed[r]
ReceiptStep == NoStopFailed' => ReceiptsKept(disk, disk')

(* No receipt of c is lost in b, and its restart goes on or has one.       *)
Extends(c, b) ==
  \A r \in Requests :
    /\ HasReceipt(c, r) => HasReceipt(b, r)
    /\ c.completed[r] # 0 => b.completed[r] = c.completed[r]
    /\ c.restart.id = r => HasReceipt(b, r) \/ b.restart.id = r

LEMMA ClosesExtends ==
  ASSUME NEW b \in Bindings, NEW c, Closes(b, c)
  PROVE  Extends(b, c)
  BY RestartFields, BindingFields, Bounds DEF Closes, Extends, HasReceipt

LEMMA ExtendsKept ==
  ASSUME NEW c \in Bindings, NEW b \in Bindings, Extends(c, b), Valid(b)
  PROVE  ReceiptsKept(c, b)
  BY RestartFields, BindingFields, Bounds
  DEF Extends, ReceiptsKept, Valid, Finished, HasReceipt, NoRestart

LEMMA StoppedExtends ==
  ASSUME NEW c \in Bindings, NEW b \in Bindings, Extends(c, b)
  PROVE  Extends(Stopped(c), Stopped(b))
  <1>1. Closes(c, Stopped(c)) /\ Closes(b, Stopped(b))
    BY StoppedCloses
  <1> QED
    BY <1>1, RestartFields, BindingFields, Bounds DEF Closes, Extends, HasReceipt, NoRestart

LEMMA ExtendsItself ==
  ASSUME NEW b
  PROVE  Extends(b, b)
  BY DEF Extends

LEMMA ExtendsOnward ==
  ASSUME NEW b, NEW c, NEW d, Extends(b, c), Extends(c, d)
  PROVE  Extends(b, d)
  BY DEF Extends

LEMMA SameReceipts ==
  ASSUME IInv, disk' = disk
  PROVE  ReceiptStep
  BY ExtendsKept, ExtendsItself, StateFields DEF IInv, BindingsInv, Sound, ReceiptStep

(* What is saved, and where the work goes on.                              *)
Saving(b, w) ==
  /\ b \in Bindings /\ Receipts(asked, b) /\ Newer(asked, unit.live, b.restart)
  /\ w \in Works /\ w.kind = work.kind /\ w.n = work.n
  /\ w.at \notin {"idle", "close"} /\ work.at \notin {"idle", "close"}
  /\ QuietNow => Down(b) /\ w.at \in QuietPath
  /\ NoStopFailed => Extends(work.copy, b) \/ Extends(disk, b)

LEMMA SavingKeepsReceipts ==
  ASSUME IInv, NEW b, NEW w, Saving(b, w), NoStopFailed, Valid(Kept(b))
  PROVE  ReceiptsKept(disk, Kept(b))
  <1>1. /\ b \in Bindings /\ Kept(b) \in Bindings /\ disk \in Bindings
        /\ work.copy \in Bindings
    BY KeptFacts, StateFields DEF Saving, IInv
  <1>2. Extends(b, Kept(b))
    BY <1>1, StoppedCloses, ClosesExtends, ExtendsItself DEF Kept
  <1>3. Extends(disk, Kept(b))
    <2>1. CASE Extends(disk, b)
      BY <1>2, <2>1, ExtendsOnward
    <2>2. CASE Extends(work.copy, b) /\ work.copy = disk
      BY <1>2, <2>2, ExtendsOnward
    <2>3. CASE Extends(work.copy, b) /\ mem.stopIntent # 0 /\ disk = Stopped(work.copy)
      BY <1>1, <2>3, StoppedExtends, KeptFacts
    <2> QED
      BY <2>1, <2>2, <2>3 DEF Saving, IInv, AheadInv
  <1> QED
    BY <1>1, <1>3, ExtendsKept

LEMMA SavedSound ==
  ASSUME IInv, NEW b, NEW w, Saving(b, w), Valid(Kept(b))
  PROVE  Kept(b) \in Bindings /\ Sound(asked, unit.live, Kept(b))
  BY KeptFacts, KeptSound DEF Saving, Sound

LEMMA SaveFails ==
  ASSUME IInv, NEW b, NEW w, Saving(b, w), unit' = unit, work.kind # "none",
         IF Valid(Kept(b)) THEN Fault("store") /\ disk' \in {disk, Kept(b)}
         ELSE UNCHANGED <<disk, events>>,
         Ends("failed", [mem EXCEPT !.reload = TRUE])
  PROVE  IInv' /\ ReceiptStep
  <1> DEFINE m == [mem EXCEPT !.reload = TRUE]
  <1>1. /\ m \in Memories /\ m.reload /\ m.bindings = mem.bindings
        /\ m.stopIntent = mem.stopIntent /\ m.unwritten = mem.unwritten
    BY DEF IInv, TypeOK, Memories
  <1>2. Ends("failed", m)
    OBVIOUS
  <1> HIDE DEF m
  <1>3. "failed" \in {"ok", "refused"} \cup Failures
    BY DEF Failures
  <1>4. events' \in 0..MaxEvents
    BY FaultCounts DEF IInv, TypeOK
  <1>5. disk' = disk \/ (disk' = Kept(b) /\ Valid(Kept(b)))
    OBVIOUS
  <1>6. disk' \in Bindings /\ Sound(asked, unit.live, disk')
    BY <1>5, SavedSound, StateFields DEF IInv, BindingsInv
  <1>7. Down(disk) /\ (mem.stopIntent # 0 \/ QuietNow) => Down(disk')
    BY <1>5, KeptFacts DEF Saving
  <1>8. Ending("failed")
    BY <1>1, <1>2, <1>3, <1>4, <1>6, <1>7, EndsFacts, StateFields
    DEF IInv, TypeOK, Ending, Saving
  <1>9. NoStopFailed' => NoStopFailed
    BY <1>8 DEF IInv, WorkInv, Placed, Ending, EndsOne, AskedKeeps, NoStopFailed, Failures
  <1>10. ReceiptStep
    BY <1>5, <1>9, SavingKeepsReceipts, SameReceipts DEF ReceiptStep
  <1> QED
    BY <1>3, <1>8, <1>10, EndStep

LEMMA SaveDone ==
  ASSUME IInv, NEW b, NEW w, Saving(b, w), unit' = unit, work.kind # "none",
         Valid(Kept(b)), disk' = Kept(b), mem' = [mem EXCEPT !.bindings = Kept(b)],
         work' = [w EXCEPT !.copy = Kept(b)],
         UNCHANGED <<asked, queue, lapsed, events>>,
         Placed(asked, w), Targets(asked, unit.live, [w EXCEPT !.copy = Kept(b)]),
         StopUnderWay(asked, w) => Down(b) /\ (w.at # "stop" => unit.live = 0)
  PROVE  IInv' /\ ReceiptStep
  <1>1. Kept(b) \in Bindings /\ Sound(asked, unit.live, Kept(b))
    BY SavedSound
  <1>2. /\ work' \in Works /\ work'.kind = work.kind /\ work'.n = work.n
        /\ work'.at = w.at /\ work'.copy = Kept(b)
    BY <1>1 DEF Saving, Works
  <1>3. /\ mem' \in Memories /\ mem'.bindings = Kept(b) /\ mem'.reload = mem.reload
        /\ mem'.stopIntent = mem.stopIntent /\ mem'.unwritten = mem.unwritten
    BY <1>1 DEF IInv, TypeOK, Memories
  <1>4. TypeOK'
    BY <1>1, <1>2, <1>3 DEF IInv, TypeOK
  <1>5. AskedInv'
    BY DEF IInv, AskedInv
  <1>6. BindingsInv'
    BY <1>1, <1>2, <1>3 DEF BindingsInv
  <1>7. Placed(asked, work')
    BY <1>2 DEF Placed, Saving
  <1>8. WorkInv'
    BY <1>7 DEF WorkInv
  <1>9. QueueInv'
    BY <1>2, <1>3 DEF IInv, QueueInv, Ordered, Intents
  <1>10. StopInv'
    <2>1. StopUnderWay(asked, work') =>
            /\ Down(disk') /\ Down(mem'.bindings) /\ Down(work'.copy)
            /\ work'.at # "stop" => unit'.live = 0
      BY <1>2, <1>3, KeptFacts DEF StopUnderWay, Saving
    <2>2. ASSUME NEW n \in DOMAIN asked, OnlyStopsAfter(n), Quiet(n, queue, work, mem)
          PROVE  Quiet(n, queue', work', mem') /\ Down(disk')
      <3>1. QuietNow
        BY <2>2, QuietIsNow DEF IInv, Quiet, Saving
      <3>2. Down(Kept(b)) /\ w.at \in QuietPath
        BY <3>1, KeptFacts DEF Saving
      <3> QED
        BY <1>2, <1>3, <2>2, <3>2 DEF Quiet, Behind, QuietWork
    <2>3. mem.stopIntent # 0 => Down(disk')
      BY KeptFacts DEF Saving
    <2>4. ASSUME NEW n \in DOMAIN asked
          PROVE  /\ Holds(n)' => Holds(n) /\ OnlyStopsAfter(n)
                 /\ Over(n)' => Over(n) /\ OnlyStopsAfter(n)
      BY <1>3 DEF Holds, Over, Written, NoneFailedAfter, OnlyStopsAfter
    <2>5. ASSUME NEW n \in DOMAIN asked'
          PROVE  /\ Holds(n)' => Down(disk') /\ (mem'.stopIntent # 0 \/ Quiet(n, queue', work', mem'))
                 /\ Over(n)' => Down(disk') /\ Quiet(n, queue', work', mem') /\ unit'.live = 0
      BY <1>3, <2>2, <2>3, <2>4 DEF IInv, StopInv
    <2> QED
      BY <2>1, <2>5 DEF StopInv
  <1>11. AheadInv'
    BY <1>2, <1>3 DEF IInv, AheadInv, NoStopFailed, Saving
  <1>12. ReceiptStep
    BY SavingKeepsReceipts DEF ReceiptStep, NoStopFailed
  <1> QED
    BY <1>4, <1>5, <1>6, <1>8, <1>9, <1>10, <1>11, <1>12 DEF IInv

LEMMA SaveStep ==
  ASSUME IInv, NEW b, NEW w, Saving(b, w), unit' = unit, Saves(b, w), work.kind # "none",
         Placed(asked, w), Targets(asked, unit.live, [w EXCEPT !.copy = Kept(b)]),
         StopUnderWay(asked, w) => Down(b) /\ (w.at # "stop" => unit.live = 0)
  PROVE  IInv' /\ ReceiptStep
  BY SaveFails, SaveDone DEF Saves

-----------------------------------------------------------------------------
(* The steps of the work under way: where it goes on.                      *)

LEMMA UnitFewer ==
  ASSUME TypeOK, AskedInv, unit' \in Units, unit'.last = unit.last,
         unit'.live \in {0, unit.live}
  PROVE  UnitGoes
  BY StateFields DEF UnitGoes, AskedInv

LEMMA MemSame ==
  ASSUME TypeOK
  PROVE  /\ mem' = mem => MemKeeps
         /\ mem' = Forgets => MemKeeps
         /\ \A i \in Nat : mem' = [mem EXCEPT !.adopted = i] => MemKeeps
         /\ Forgets \in Memories /\ Forgets.bindings = mem.bindings
         /\ Forgets.reload = mem.reload /\ Forgets.stopIntent = mem.stopIntent
         /\ Forgets.unwritten = mem.unwritten
<1>1. mem \in Memories
  BY DEF TypeOK
<1>2. ASSUME NEW i \in Nat
      PROVE  LET m == [mem EXCEPT !.adopted = i] IN
             /\ m \in Memories /\ m.bindings = mem.bindings
             /\ m.reload = mem.reload /\ m.stopIntent = mem.stopIntent
             /\ m.unwritten = mem.unwritten
  BY <1>1 DEF Memories
<1>3. 0 \in Nat
  OBVIOUS
<1>4. /\ Forgets \in Memories /\ Forgets.bindings = mem.bindings
      /\ Forgets.reload = mem.reload /\ Forgets.stopIntent = mem.stopIntent
      /\ Forgets.unwritten = mem.unwritten
  BY <1>2, <1>3 DEF Forgets
<1>5. mem' = mem => MemKeeps
  BY <1>1 DEF MemKeeps
<1>6. mem' = Forgets => MemKeeps
  BY <1>4 DEF MemKeeps
<1>7. \A i \in Nat : mem' = [mem EXCEPT !.adopted = i] => MemKeeps
  <2>1. SUFFICES ASSUME NEW i \in Nat, mem' = [mem EXCEPT !.adopted = i] PROVE MemKeeps
    OBVIOUS
  <2>2. QED
    BY <1>2, <2>1 DEF MemKeeps
<1>8. QED
  BY <1>4, <1>5, <1>6, <1>7

LEMMA UnitFields ==
  ASSUME TypeOK
  PROVE  /\ StoppedUnit \in Units /\ StoppedUnit.last = unit.last /\ StoppedUnit.live = 0
         /\ \A h \in BOOLEAN :
              /\ [unit EXCEPT !.held = h] \in Units
              /\ [unit EXCEPT !.held = h].last = unit.last
              /\ [unit EXCEPT !.held = h].live = unit.live
         /\ \A h \in {"ok", "degraded", "parked"} :
              /\ [unit EXCEPT !.health = h] \in Units
              /\ [unit EXCEPT !.health = h].last = unit.last
              /\ [unit EXCEPT !.health = h].live = unit.live
              /\ [StoppedUnit EXCEPT !.health = h] \in Units
              /\ [StoppedUnit EXCEPT !.health = h].last = unit.last
              /\ [StoppedUnit EXCEPT !.health = h].live = 0
  BY DEF TypeOK, Units, StoppedUnit

(* The work under way goes on at p, towards g, with the instance i.        *)
Moved(w, p, g, i) ==
  /\ w \in Works /\ w.kind = work.kind /\ w.n = work.n /\ w.copy = work.copy
  /\ w.at = p /\ w.goal = g /\ w.found = i

LEMMA MovedWork ==
  ASSUME TypeOK, NEW p \in Places, NEW g \in Restarts, NEW i \in Nat
  PROVE  /\ Moved([work EXCEPT !.at = p], p, work.goal, work.found)
         /\ Moved([work EXCEPT !.at = p, !.tracked = TRUE], p, work.goal, work.found)
         /\ Moved([work EXCEPT !.at = p, !.goal = g], p, g, work.found)
         /\ Moved([work EXCEPT !.at = p, !.found = i], p, work.goal, i)
  BY DEF TypeOK, Works, Moved

LEMMA MoveStep ==
  ASSUME IInv, NEW p \in Places, NEW g \in Restarts, NEW i \in Nat,
         Moved(work', p, g, i), work.at \notin QuietPath \cup {"idle", "close"},
         p \notin {"idle", "close"}, p \in Asking => work.at \in Asking,
         UNCHANGED <<asked, disk, queue, lapsed>>, events' \in 0..MaxEvents,
         MemKeeps, UnitGoes, Targets(asked, unit'.live, work')
  PROVE  IInv' /\ ReceiptStep
  <1>1. ~QuietNow
    BY DEF QuietNow
  <1>2. WorkKeeps /\ work'.copy = work.copy
    BY DEF Moved, WorkKeeps
  <1>3. /\ work.kind \notin {"none", "failure"}
        /\ work.kind = "command" => asked[work.n].op # "stop"
    BY IdleFacts DEF IInv, WorkInv, Placed, QuietPath, StopPath
  <1>4. Placed(asked, work')
    BY <1>3 DEF IInv, WorkInv, Placed, Moved
  <1>5. ~StopUnderWay(asked, work')
    BY <1>3 DEF StopUnderWay, Moved
  <1> QED
    BY <1>1, <1>2, <1>4, <1>5, KeepsStep, SameReceipts DEF Moved

(* No new instance, and the work takes none for its own.                   *)
LEMMA EasyMove ==
  ASSUME IInv, NEW p \in Places, Moved(work', p, work.goal, work.found),
         work.at \notin QuietPath \cup {"idle", "close"},
         p \notin {"idle", "close"}, p \in Asking => work.at \in Asking,
         UNCHANGED <<asked, disk, queue, lapsed, events>>,
         MemKeeps, unit' \in Units, unit'.last = unit.last, unit'.live \in {0, unit.live},
         p \in Starting \cup Holding \cup {"settle", "done"}
         \/ work.at \notin Holding \cup Starting,
         p \in {"ready", "answered"} => work.at \in {"ready", "answered"},
         p # "finish",
         p \in Holding => work.at \in Holding,
         p \in Starting => work.at \in Holding \cup Starting
  PROVE  IInv' /\ ReceiptStep
  <1>1. UnitGoes
    BY UnitFewer DEF IInv
  <1>2. p \in Holding => work.found = 0
    BY DEF IInv, WorkInv, Targets, Holding, Starting
  <1>3. p \in Starting /\ work.goal # NoRestart => work.copy.restart.id \in {0, work.goal.id}
    BY DEF IInv, WorkInv, Targets
  <1>4. Targets(asked, unit'.live, work')
    <2>1. Newer(asked, unit'.live, work.goal)
      BY DEF IInv, WorkInv, Targets, Newer
    <2> QED
      BY <1>2, <1>3, <2>1 DEF IInv, WorkInv, Targets, Moved, Holding, Starting, QuietPath, StopPath
  <1>5. work.goal \in Restarts /\ work.found \in Nat
    BY StateFields DEF IInv
  <1>6. events' \in 0..MaxEvents
    BY DEF IInv, TypeOK
  <1> QED
    BY <1>1, <1>4, <1>5, <1>6, MoveStep

-----------------------------------------------------------------------------
(* Each action: the invariant, and the receipts.                           *)

Refusals == {"ok", "refused"} \cup Failures

LEMMA Results == "ok" \in Refusals /\ "refused" \in Refusals /\ "failed" \in Refusals
                 /\ "crossed" \in Refusals
  BY DEF Refusals, Failures

LEMMA AtWork ==
  ASSUME IInv, work.at # "idle"
  PROVE  /\ work.kind # "none"
         /\ work.at \notin QuietPath => work.kind # "failure" /\ (work.kind = "command" => asked[work.n].op # "stop")
  BY IdleFacts DEF IInv, WorkInv, Placed, QuietPath, StopPath

(* An end that changes neither the file nor what the Coordinator keeps.    *)
LEMMA PlainEnd ==
  ASSUME IInv, NEW result \in Refusals, work.at # "idle", Ends(result, mem), disk' = disk,
         events' \in 0..MaxEvents, unit' \in Units, unit'.last = unit.last,
         unit'.live \in {0, unit.live},
         result = "ok" => work.at \in {"settle", "done"} \/ work.at \notin StopPath
  PROVE  IInv' /\ ReceiptStep
  <1>1. mem \in Memories /\ work.kind # "none" /\ result \in {"ok", "refused"} \cup Failures
    BY AtWork DEF IInv, TypeOK, Refusals
  <1>2. work.kind = "command" /\ result = "ok" /\ asked[work.n].op = "stop" =>
          work.at \in {"settle", "done"}
    BY DEF IInv, WorkInv, Placed
  <1> QED
    BY <1>1, <1>2, CalmEnd, SameReceipts

LEMMA ForgetfulEnd ==
  ASSUME IInv, NEW result \in Refusals, work.at # "idle", Ends(result, Forgets), disk' = disk,
         events' \in 0..MaxEvents, unit' \in Units, unit'.last = unit.last,
         unit'.live \in {0, unit.live}, work.at \notin StopPath
  PROVE  IInv' /\ ReceiptStep
  <1>1. Forgets \in Memories /\ work.kind # "none" /\ result \in {"ok", "refused"} \cup Failures
    BY AtWork, MemSame DEF IInv, Refusals
  <1>2. ~(work.kind = "command" /\ asked[work.n].op = "stop")
    BY DEF IInv, WorkInv, Placed
  <1> QED
    BY <1>1, <1>2, CalmEnd, MemSame, SameReceipts DEF IInv

LEMMA SameUnit ==
  ASSUME IInv
  PROVE  unit \in Units /\ events \in 0..MaxEvents /\ mem \in Memories
  BY DEF IInv, TypeOK

LEMMA StepRefuse ==
  ASSUME IInv, Refuse
  PROVE  IInv' /\ ReceiptStep
  BY PlainEnd, Results, SameUnit DEF Refuse, At

LEMMA StepDone ==
  ASSUME IInv, Done
  PROVE  IInv' /\ ReceiptStep
  BY PlainEnd, Results, SameUnit DEF Done, At

LEMMA StepClearHealth ==
  ASSUME IInv, ClearHealth
  PROVE  IInv' /\ ReceiptStep
  <1>1. /\ work.at = "clear" /\ work' = [work EXCEPT !.at = "begin"]
        /\ UNCHANGED <<asked, mem, queue, lapsed, disk, events>>
        /\ unit' = unit \/ unit' = [unit EXCEPT !.health = "ok"]
    <2>1. unit' = [unit EXCEPT !.health = unit.health] \/ unit' = [unit EXCEPT !.health = "ok"]
      BY DEF ClearHealth
    <2>2. [unit EXCEPT !.health = unit.health] = unit
      BY SameUnit DEF Units
    <2> QED
      BY <2>1, <2>2 DEF ClearHealth, At, GoesTo, Goes
  <1>2. unit' \in Units /\ unit'.last = unit.last /\ unit'.live \in {0, unit.live}
    BY <1>1, UnitFields, SameUnit DEF IInv
  <1>3. "begin" \in Places /\ Moved(work', "begin", work.goal, work.found)
    BY <1>1, MovedWork, StateFields DEF IInv, Places
  <1> QED
    BY <1>1, <1>2, <1>3, EasyMove, MemSame
    DEF IInv, QuietPath, StopPath, Asking, Starting, Holding

LEMMA StepDrained ==
  ASSUME IInv, Drained
  PROVE  IInv' /\ ReceiptStep
  <1>1. CASE work.aborted
    BY <1>1, PlainEnd, Results, SameUnit DEF Drained, At
  <1>2. CASE ~work.aborted
    <2>1. /\ work.at = "hold" /\ work' = [work EXCEPT !.at = "halt"]
          /\ UNCHANGED <<asked, mem, queue, lapsed, disk, unit, events>>
      BY <1>2 DEF Drained, At, GoesTo, Goes
    <2>2. "halt" \in Places /\ Moved(work', "halt", work.goal, work.found)
      BY <2>1, MovedWork, StateFields DEF IInv, Places
    <2> QED
      BY <2>1, <2>2, EasyMove, MemSame, SameUnit
      DEF IInv, QuietPath, StopPath, Asking, Starting, Holding
  <1> QED
    BY <1>1, <1>2

LEMMA StepHalt ==
  ASSUME IInv, Halt
  PROVE  IInv' /\ ReceiptStep
  <1>1. CASE /\ unit' = StoppedUnit /\ mem' = Forgets
             /\ work' = [work EXCEPT !.at = "halted"]
             /\ UNCHANGED <<asked, queue, lapsed, events>>
    <2>1. work.at = "halt" /\ disk' = disk
      BY DEF Halt, At
    <2>2. "halted" \in Places /\ Moved(work', "halted", work.goal, work.found)
      BY <1>1, MovedWork, StateFields DEF IInv, Places
    <2>3. unit' \in Units /\ unit'.last = unit.last /\ unit'.live \in {0, unit.live} /\ MemKeeps
      BY <1>1, UnitFields, MemSame DEF IInv
    <2> QED
      BY <1>1, <2>1, <2>2, <2>3, EasyMove
      DEF QuietPath, StopPath, Asking, Starting, Holding
  <1>2. CASE Fault("stop") /\ Ends("failed", mem) /\ unit' = [unit EXCEPT !.held = FALSE]
    <2>1. unit' \in Units /\ unit'.last = unit.last /\ unit'.live \in {0, unit.live}
      BY <1>2, UnitFields DEF IInv
    <2> QED
      BY <1>2, <2>1, PlainEnd, Results, FaultCounts DEF IInv, Halt, At
  <1> QED
    BY <1>1, <1>2 DEF Halt

LEMMA StepLaunch ==
  ASSUME IInv, Launch
  PROVE  IInv' /\ ReceiptStep
  <1>0. work.at = "launch" /\ UNCHANGED <<disk, unit, events>>
    BY DEF Launch, At
  <1>1. CASE mem.adopted # 0 /\ unit.live = mem.adopted
    <2> DEFINE p == IF work.goal = NoRestart THEN "settle" ELSE "finish"
    <2>1. /\ work' = [work EXCEPT !.at = p, !.found = unit.live]
          /\ UNCHANGED <<asked, mem, queue, lapsed>>
      BY <1>1 DEF Launch, Goes, Started
    <2>2. p \in Places /\ p \in {"settle", "finish"} /\ (p = "finish" => work.goal # NoRestart)
      BY DEF Places
    <2> HIDE DEF p
    <2>3. Moved(work', p, work.goal, unit.live) /\ unit.live \in Nat /\ work.goal \in Restarts
      BY <2>1, <2>2, MovedWork, StateFields DEF IInv
    <2>4. Newer(asked, unit.live, work.goal) /\ unit.live # 0
      BY <1>1 DEF IInv, WorkInv, Targets
    <2>5. work.goal # NoRestart => /\ work.copy.completed[work.goal.id] = 0
                                   /\ work.copy.restart.id \in {0, work.goal.id}
      BY <1>0 DEF IInv, WorkInv, Targets, Starting
    <2>6. Targets(asked, unit'.live, work')
      BY <1>0, <2>2, <2>3, <2>4, <2>5 DEF Targets, Moved, Starting, Holding
    <2>7. UnitGoes /\ MemKeeps /\ events' \in 0..MaxEvents
      BY <1>0, <2>1, UnitSame, MemSame, SameUnit DEF IInv
    <2> QED
      BY <1>0, <2>1, <2>2, <2>3, <2>6, <2>7, MoveStep DEF QuietPath, StopPath, Asking
  <1>2. CASE ~(mem.adopted # 0 /\ unit.live = mem.adopted) /\ work.aborted
    BY <1>0, <1>2, ForgetfulEnd, Results, SameUnit DEF Launch, StopPath
  <1>3. CASE ~(mem.adopted # 0 /\ unit.live = mem.adopted) /\ ~work.aborted
    <2>1. /\ work' = [work EXCEPT !.at = "ensure"] /\ mem' = Forgets
          /\ UNCHANGED <<asked, queue, lapsed>>
      BY <1>3 DEF Launch
    <2>2. "ensure" \in Places /\ Moved(work', "ensure", work.goal, work.found)
      BY <2>1, MovedWork, StateFields DEF IInv, Places
    <2> QED
      BY <1>0, <2>1, <2>2, EasyMove, MemSame, SameUnit
      DEF IInv, QuietPath, StopPath, Asking, Starting, Holding
  <1> QED
    BY <1>1, <1>2, <1>3

LEMMA StepEnsure ==
  ASSUME IInv, Ensure
  PROVE  IInv' /\ ReceiptStep
  <1> DEFINE instance == IF unit.live # 0 THEN unit.live ELSE unit.last + 1
  <1>0. work.at = "ensure" /\ disk' = disk
    BY DEF Ensure, At
  <1>1. CASE unit.health = "degraded" /\ Ends("failed", mem) /\ UNCHANGED <<unit, events>>
    BY <1>0, <1>1, PlainEnd, Results, SameUnit
  <1>2. CASE /\ \E result \in {"failed", "refused"} : Ends(result, mem)
             /\ UNCHANGED <<unit, events>>
    BY <1>0, <1>2, PlainEnd, Results, SameUnit
  <1>3. CASE Fault("unready") /\ Ends("failed", mem) /\ UNCHANGED unit
    BY <1>0, <1>3, PlainEnd, Results, SameUnit, FaultCounts DEF IInv
  <1>4. CASE /\ unit' = [unit EXCEPT !.live = instance,
                           !.last = IF instance > @ THEN instance ELSE @]
             /\ Goes([work EXCEPT !.at = "ready", !.found = instance])
             /\ UNCHANGED events
    <2>1. /\ unit.live \in Nat /\ unit.last \in Nat /\ unit.live <= unit.last
          /\ instance \in Nat /\ instance # 0
          /\ instance = unit.live \/ instance > unit.last
      BY StateFields DEF IInv, AskedInv
    <2>2. /\ unit' = [unit EXCEPT !.live = instance,
                        !.last = IF instance > unit.last THEN instance ELSE unit.last]
          /\ work' = [work EXCEPT !.at = "ready", !.found = instance]
          /\ UNCHANGED <<asked, mem, queue, lapsed, events>>
      BY <1>4 DEF Goes
    <2> HIDE DEF instance
    <2>3. /\ unit' \in Units /\ unit'.live = instance
          /\ unit'.last = IF instance > unit.last THEN instance ELSE unit.last
      BY <2>1, <2>2, SameUnit DEF Units
    <2>4. UnitGoes
      BY <2>1, <2>3 DEF UnitGoes
    <2>5. "ready" \in Places /\ Moved(work', "ready", work.goal, instance) /\ work.goal \in Restarts
      BY <2>1, <2>2, MovedWork, StateFields DEF IInv, Places
    <2>6. Newer(asked, instance, work.goal)
      <3>1. AskedKeeps
        BY <2>2 DEF AskedKeeps
      <3> QED
        BY <2>2, <2>3, <2>4, <2>5, <3>1, NewerGoes DEF IInv, WorkInv, Targets
    <2>7. work.goal # NoRestart => /\ work.copy.completed[work.goal.id] = 0
                                   /\ work.copy.restart.id \in {0, work.goal.id}
      BY <1>0 DEF IInv, WorkInv, Targets, Starting
    <2>8. Targets(asked, unit'.live, work')
      BY <2>1, <2>3, <2>5, <2>6, <2>7 DEF Targets, Moved, Starting, Holding
    <2> QED
      BY <1>0, <2>1, <2>2, <2>4, <2>5, <2>8, MoveStep, MemSame, SameUnit
      DEF IInv, QuietPath, StopPath, Asking
  <1> QED
    BY <1>1, <1>2, <1>3, <1>4 DEF Ensure

LEMMA StepReady ==
  ASSUME IInv, Ready
  PROVE  IInv' /\ ReceiptStep
  <1>0. work.at = "ready" /\ UNCHANGED <<disk, unit>>
    BY DEF Ready, At
  <1>1. CASE \E result \in {"failed", "refused"} : Ends(result, mem) /\ events' \in 0..MaxEvents
    BY <1>0, <1>1, PlainEnd, Results, SameUnit
  <1>2. CASE GoesTo("answered") /\ UNCHANGED events
    <2>1. /\ work' = [work EXCEPT !.at = "answered"]
          /\ UNCHANGED <<asked, mem, queue, lapsed, events>>
      BY <1>2 DEF GoesTo, Goes
    <2>2. "answered" \in Places /\ Moved(work', "answered", work.goal, work.found)
      BY <2>1, MovedWork, StateFields DEF IInv, Places
    <2> QED
      BY <1>0, <2>1, <2>2, EasyMove, MemSame, SameUnit
      DEF IInv, QuietPath, StopPath, Asking, Starting, Holding
  <1>3. Ends(IF unit.health = "parked" THEN "refused" ELSE "failed", mem) =>
          \E result \in {"failed", "refused"} : Ends(result, mem)
    OBVIOUS
  <1> QED
    BY <1>1, <1>2, <1>3, FaultCounts, SameUnit DEF Ready, IInv

LEMMA StepAnswered ==
  ASSUME IInv, Answered
  PROVE  IInv' /\ ReceiptStep
  <1>0. work.at = "answered" /\ UNCHANGED <<disk, unit, events>>
    BY DEF Answered, At
  <1>1. CASE unit.live = work.found
    <2> DEFINE p == IF work.goal = NoRestart THEN "settle" ELSE "finish"
    <2>1. /\ work' = [work EXCEPT !.at = p, !.found = work.found]
          /\ UNCHANGED <<asked, queue, lapsed>>
          /\ mem' = [mem EXCEPT !.adopted = work.found]
      BY <1>1 DEF Answered, Started
    <2>2. p \in Places /\ p \in {"settle", "finish"} /\ (p = "finish" => work.goal # NoRestart)
      BY DEF Places
    <2> HIDE DEF p
    <2>3. Moved(work', p, work.goal, work.found) /\ work.found \in Nat /\ work.goal \in Restarts
      BY <2>1, <2>2, MovedWork, StateFields DEF IInv
    <2>4. /\ Newer(asked, unit.live, work.goal) /\ Newer(asked, work.found, work.goal)
          /\ work.found # 0
      BY <1>0 DEF IInv, WorkInv, Targets
    <2>5. work.goal # NoRestart => /\ work.copy.completed[work.goal.id] = 0
                                   /\ work.copy.restart.id \in {0, work.goal.id}
      BY <1>0 DEF IInv, WorkInv, Targets, Starting
    <2>6. Targets(asked, unit'.live, work')
      BY <1>0, <2>2, <2>3, <2>4, <2>5 DEF Targets, Moved, Starting, Holding
    <2>7. UnitGoes /\ MemKeeps /\ events' \in 0..MaxEvents
      BY <1>0, <2>1, <2>3, UnitSame, MemSame, SameUnit DEF IInv
    <2> QED
      BY <1>0, <2>1, <2>2, <2>3, <2>6, <2>7, MoveStep DEF QuietPath, StopPath, Asking
  <1>2. CASE unit.live # work.found
    <2>1. \E result \in {"failed", "refused"} : Ends(result, mem)
      BY <1>2 DEF Answered
    <2> QED
      BY <1>0, <2>1, PlainEnd, Results, SameUnit
  <1> QED
    BY <1>1, <1>2

-----------------------------------------------------------------------------
(* The actions that save.                                                  *)

(* Where a save lets the work go on.                                       *)
GoesOn(p, g, b) ==
  /\ p \in {"stop", "refuse", "advance", "launch", "settle", "done"}
  /\ p = "refuse" => work.kind = "command"
  /\ work.kind = "command" /\ asked[work.n].op = "stop" => p \in StopPath
  /\ work.kind = "failure" => p = "done"
  /\ Newer(asked, unit.live, g) /\ Newer(asked, work.found, g)
  /\ p \notin {"launch", "settle", "done"} => work.found = 0 /\ g = NoRestart
  /\ p = "launch" /\ g # NoRestart => b.completed[g.id] = 0 /\ b.restart.id \in {0, g.id}

LEMMA SaveGoesOn ==
  ASSUME IInv, NEW b, NEW w, NEW p \in Places, NEW g \in Restarts,
         Saves(b, w), unit' = unit, Moved(w, p, g, work.found), GoesOn(p, g, b),
         work.at \notin {"idle", "close"},
         b \in Bindings, Receipts(asked, b), Newer(asked, unit.live, b.restart),
         QuietNow => Down(b) /\ p \in QuietPath,
         NoStopFailed => Extends(work.copy, b) \/ Extends(disk, b),
         work.kind = "command" /\ asked[work.n].op = "stop" /\ p # "mark" =>
           Down(b) /\ (p # "stop" => unit.live = 0)
  PROVE  IInv' /\ ReceiptStep
  <1>1. Saving(b, w)
    BY DEF Saving, Moved, GoesOn
  <1>2. work.kind # "none"
    BY AtWork
  <1>3. Placed(asked, w)
    BY <1>2 DEF IInv, WorkInv, Placed, Moved, GoesOn, Asking
  <1>4. Kept(b) \in Bindings /\ Kept(b).completed = b.completed /\ Kept(b).restart.id \in {0, b.restart.id}
    BY KeptFacts DEF NoRestart
  <1>5. /\ [w EXCEPT !.copy = Kept(b)].copy = Kept(b) /\ [w EXCEPT !.copy = Kept(b)].at = p
        /\ [w EXCEPT !.copy = Kept(b)].goal = g /\ [w EXCEPT !.copy = Kept(b)].found = work.found
    BY DEF Moved, Works
  <1>6. Targets(asked, unit.live, [w EXCEPT !.copy = Kept(b)])
    BY <1>4, <1>5 DEF Targets, GoesOn, Holding, Starting
  <1>7. StopUnderWay(asked, w) => Down(b) /\ (w.at # "stop" => unit.live = 0)
    BY DEF StopUnderWay, Moved
  <1> QED
    BY <1>1, <1>2, <1>3, <1>6, <1>7, SaveStep

LEMMA CopySound ==
  ASSUME IInv
  PROVE  /\ work.copy \in Bindings /\ Valid(work.copy) /\ Receipts(asked, work.copy)
         /\ Newer(asked, unit.live, work.copy.restart)
         /\ work.copy.restart \in Restarts
  BY StateFields, BindingFields DEF IInv, BindingsInv, Sound

LEMMA StepMark ==
  ASSUME IInv, Mark
  PROVE  IInv' /\ ReceiptStep
  <1> DEFINE b == Stopped(work.copy)
             w == [work EXCEPT !.at = "stop"]
  <1>1. work.at = "mark" /\ unit' = unit /\ Saves(b, w)
    BY DEF Mark, At, SavesThen
  <1>2. "stop" \in Places /\ Moved(w, "stop", work.goal, work.found) /\ work.goal \in Restarts
    BY MovedWork, StateFields DEF IInv, Places
  <1>3. b \in Bindings /\ Down(b) /\ Closes(work.copy, b)
    BY CopySound, StoppedCloses DEF Closes
  <1>4. Receipts(asked, b) /\ Newer(asked, unit.live, b.restart) /\ Extends(work.copy, b)
    BY <1>3, CopySound, ClosesExtends DEF Closes, Receipts, Newer
  <1> HIDE DEF b, w
  <1>5. GoesOn("stop", work.goal, b)
    BY <1>1 DEF IInv, WorkInv, Placed, Targets, GoesOn, StopPath, Starting, Holding
  <1> QED
    BY <1>1, <1>2, <1>3, <1>4, <1>5, SaveGoesOn DEF QuietPath, StopPath

LEMMA StepAttach ==
  ASSUME IInv, Attach
  PROVE  IInv' /\ ReceiptStep
  <1> DEFINE c == Cancelled(work.copy)
             b == [c EXCEPT !.enabled = TRUE, !.failure = 0]
             w == [work EXCEPT !.at = "launch", !.tracked = TRUE]
  <1>1. work.at = "attach" /\ unit' = unit /\ Saves(b, w)
    BY DEF Attach, At
  <1>2. "launch" \in Places /\ Moved(w, "launch", work.goal, work.found) /\ work.goal \in Restarts
    BY MovedWork, StateFields DEF IInv, Places
  <1>3. c \in Bindings /\ Closes(work.copy, c)
    BY CopySound, CancelledCloses DEF Closes
  <1> HIDE DEF c
  <1>4. /\ b \in Bindings /\ b.restart = NoRestart /\ b.completed = c.completed
        /\ b.cancelled = c.cancelled
    BY <1>3, Bounds DEF Bindings, Closes
  <1> HIDE DEF b, w
  <1>5. Receipts(asked, b) /\ Newer(asked, unit.live, b.restart) /\ Extends(work.copy, b)
    <2>1. Extends(work.copy, c)
      BY <1>3, CopySound, ClosesExtends
    <2>2. Extends(work.copy, b)
      BY <1>3, <1>4, <2>1 DEF Extends, HasReceipt, Closes
    <2> QED
      BY <1>3, <1>4, <2>2, CopySound DEF Closes, Receipts, Newer
  <1>6. work.goal = NoRestart
    BY <1>1 DEF IInv, WorkInv, Targets, Starting, Holding
  <1>7. GoesOn("launch", work.goal, b)
    BY <1>1, <1>6, AtWork DEF IInv, WorkInv, Targets, GoesOn, StopPath, QuietPath
  <1> QED
    BY <1>1, <1>2, <1>4, <1>5, <1>7, SaveGoesOn, AtWork DEF QuietNow, QuietPath, StopPath

LEMMA StepHalted ==
  ASSUME IInv, Halted
  PROVE  IInv' /\ ReceiptStep
  <1> DEFINE b == [work.copy EXCEPT !.restart.phase = "starting"]
             w == [work EXCEPT !.at = "launch"]
  <1>1. work.at = "halted" /\ unit' = unit /\ Saves(b, w)
    BY DEF Halted, At, SavesThen
  <1>2. "launch" \in Places /\ Moved(w, "launch", work.goal, work.found) /\ work.goal \in Restarts
    BY MovedWork, StateFields DEF IInv, Places
  <1>3. work.goal = work.copy.restart /\ work.goal # NoRestart /\ work.copy.completed[work.goal.id] = 0
    BY <1>1 DEF IInv, WorkInv, Targets, Holding
  <1>4. /\ b \in Bindings /\ b.completed = work.copy.completed
        /\ b.cancelled = work.copy.cancelled
        /\ b.restart.id = work.copy.restart.id /\ b.restart.prev = work.copy.restart.prev
    <2>1. [work.copy.restart EXCEPT !.phase = "starting"] \in Restarts
      BY <1>3, CopySound DEF Restarts
    <2>2. b = [work.copy EXCEPT !.restart = [work.copy.restart EXCEPT !.phase = "starting"]]
      BY CopySound DEF Bindings
    <2>3. /\ [work.copy.restart EXCEPT !.phase = "starting"].id = work.copy.restart.id
          /\ [work.copy.restart EXCEPT !.phase = "starting"].prev = work.copy.restart.prev
      BY <1>3, CopySound DEF Restarts
    <2> QED
      BY <2>1, <2>2, <2>3, CopySound DEF Bindings
  <1> HIDE DEF b, w
  <1>5. Receipts(asked, b) /\ Newer(asked, unit.live, b.restart) /\ Extends(work.copy, b)
    BY <1>3, <1>4, CopySound DEF Receipts, Newer, Extends, HasReceipt
  <1>6. GoesOn("launch", work.goal, b)
    BY <1>1, <1>3, <1>4, AtWork DEF IInv, WorkInv, Targets, GoesOn, StopPath, QuietPath
  <1> QED
    BY <1>1, <1>2, <1>4, <1>5, <1>6, SaveGoesOn, AtWork DEF QuietNow, QuietPath, StopPath

LEMMA StepFinish ==
  ASSUME IInv, Finish
  PROVE  IInv' /\ ReceiptStep
  <1> DEFINE b == [work.copy EXCEPT !.restart = NoRestart,
                                    !.completed[work.goal.id] = work.found]
             w == [work EXCEPT !.at = "settle"]
  <1>1. work.at = "finish" /\ unit' = unit
    BY DEF Finish, At
  <1>2. CASE work.found = work.goal.prev
    BY <1>1, <1>2, PlainEnd, Results, SameUnit DEF Finish
  <1>3. CASE work.found # work.goal.prev
    <2>1. Saves(b, w)
      BY <1>3 DEF Finish, SavesThen
    <2>2. "settle" \in Places /\ Moved(w, "settle", work.goal, work.found) /\ work.goal \in Restarts
      BY MovedWork, StateFields DEF IInv, Places
    <2>3. /\ work.goal # NoRestart /\ work.found # 0 /\ work.copy.completed[work.goal.id] = 0
          /\ work.copy.restart.id \in {0, work.goal.id}
          /\ Newer(asked, work.found, work.goal) /\ work.found \in Nat
      BY <1>1, StateFields DEF IInv, WorkInv, Targets, Starting
    <2>4. work.goal.id \in Requests /\ work.goal.id \in DOMAIN asked
          /\ work.found > asked[work.goal.id].born
      BY <1>3, <2>2, <2>3, RestartFields DEF Newer
    <2>5. /\ b \in Bindings /\ b.restart = NoRestart /\ b.cancelled = work.copy.cancelled
          /\ b.completed = [work.copy.completed EXCEPT ![work.goal.id] = work.found]
      BY <2>3, <2>4, CopySound, RegisteredSound DEF Bindings
    <2>6. \A r \in Requests : b.completed[r] = IF r = work.goal.id THEN work.found
                                               ELSE work.copy.completed[r]
      BY <2>4, <2>5, CopySound, BindingFields
    <2> HIDE DEF b, w
    <2>7. Receipts(asked, b) /\ Newer(asked, unit.live, b.restart)
      BY <2>4, <2>5, <2>6, CopySound DEF Receipts, Newer
    <2>8. Extends(work.copy, b)
      BY <2>3, <2>4, <2>5, <2>6, Bounds DEF Extends, HasReceipt
    <2>9. GoesOn("settle", work.goal, b)
      BY <1>1, AtWork DEF IInv, WorkInv, Targets, GoesOn, StopPath, QuietPath
    <2> QED
      BY <1>1, <2>1, <2>2, <2>5, <2>7, <2>8, <2>9, SaveGoesOn, AtWork
      DEF QuietNow, QuietPath, StopPath
  <1> QED
    BY <1>2, <1>3

LEMMA StepSettle ==
  ASSUME IInv, Settle
  PROVE  IInv' /\ ReceiptStep
  <1> DEFINE b == [mem.bindings EXCEPT !.failure = 0]
             w == [work EXCEPT !.at = "done"]
  <1>1. work.at = "settle" /\ unit' = unit
    BY DEF Settle, At
  <1>2. CASE mem.bindings.failure = 0
    BY <1>1, <1>2, PlainEnd, Results, SameUnit DEF Settle
  <1>3. CASE mem.bindings.failure # 0
    <2>1. Saves(b, w)
      BY <1>3 DEF Settle, SavesThen
    <2>2. "done" \in Places /\ Moved(w, "done", work.goal, work.found) /\ work.goal \in Restarts
      BY MovedWork, StateFields DEF IInv, Places
    <2>3. /\ b \in Bindings /\ b.restart = mem.bindings.restart /\ b.cancelled = mem.bindings.cancelled
          /\ b.completed = mem.bindings.completed /\ b.enabled = mem.bindings.enabled
      BY StateFields, Bounds DEF IInv, Bindings
    <2> HIDE DEF b, w
    <2>4. Receipts(asked, b) /\ Newer(asked, unit.live, b.restart)
      BY <2>3 DEF IInv, BindingsInv, Sound, Receipts, Newer
    <2>5. NoStopFailed => Extends(disk, b)
      BY <1>1, <2>3 DEF IInv, AheadInv, BindingsInv, Extends, HasReceipt
    <2>6. QuietNow => Down(b)
      BY <2>3 DEF QuietNow, Down
    <2>7. work.kind = "command" /\ asked[work.n].op = "stop" => Down(b) /\ unit.live = 0
      BY <1>1, <2>3 DEF IInv, StopInv, StopUnderWay, Down
    <2>8. GoesOn("done", work.goal, b)
      BY <1>1 DEF IInv, WorkInv, Targets, GoesOn, StopPath
    <2> QED
      BY <1>1, <2>1, <2>2, <2>3, <2>4, <2>5, <2>6, <2>7, <2>8, SaveGoesOn DEF QuietPath, StopPath
  <1> QED
    BY <1>2, <1>3

LEMMA StepRecord ==
  ASSUME IInv, Record
  PROVE  IInv' /\ ReceiptStep
  <1> DEFINE b == [work.copy EXCEPT !.failure = work.n]
             w == [work EXCEPT !.at = "done"]
  <1>1. work.at = "record" /\ unit' = unit /\ Saves(b, w)
    BY DEF Record, At, SavesThen
  <1>2. "done" \in Places /\ Moved(w, "done", work.goal, work.found) /\ work.goal \in Restarts
    BY MovedWork, StateFields DEF IInv, Places
  <1>3. /\ b \in Bindings /\ b.restart = work.copy.restart /\ b.cancelled = work.copy.cancelled
        /\ b.completed = work.copy.completed /\ b.enabled = work.copy.enabled
    BY StateFields DEF IInv, Bindings
  <1> HIDE DEF b, w
  <1>4. Receipts(asked, b) /\ Newer(asked, unit.live, b.restart) /\ Extends(work.copy, b)
    BY <1>3, CopySound DEF Receipts, Newer, Extends, HasReceipt
  <1>5. QuietNow => Down(b)
    BY <1>3 DEF QuietNow, Down
  <1>6. ~(work.kind = "command" /\ asked[work.n].op = "stop")
    BY <1>1 DEF IInv, WorkInv, Placed, StopPath
  <1>7. GoesOn("done", work.goal, b)
    BY <1>1, <1>6 DEF IInv, WorkInv, Targets, GoesOn, StopPath
  <1> QED
    BY <1>1, <1>2, <1>3, <1>4, <1>5, <1>6, <1>7, SaveGoesOn DEF QuietPath, StopPath

LEMMA StepCheck ==
  ASSUME IInv, Check
  PROVE  IInv' /\ ReceiptStep
  <1>1. /\ work.at = "check" /\ unit' = unit /\ work.kind = "command" /\ work.n \in DOMAIN asked
        /\ work.goal = NoRestart /\ work.found = 0
    BY DEF Check, At, IInv, WorkInv, Placed, Targets, Asking, Starting, Holding
  <1>2. CASE Ends("refused", mem) /\ UNCHANGED <<disk, events>>
    BY <1>1, <1>2, PlainEnd, Results, SameUnit
  <1>3. CASE /\ Operation = "restart" /\ work.copy.restart.id # Id /\ ~Finished(work.copy, Id)
             /\ SavesThen([work.copy EXCEPT !.cancelled = @ \cup {Id}], "refuse")
    <2> DEFINE b == [work.copy EXCEPT !.cancelled = @ \cup {Id}]
               w == [work EXCEPT !.at = "refuse"]
    <2>1. Saves(b, w)
      BY <1>3 DEF SavesThen
    <2>2. "refuse" \in Places /\ Moved(w, "refuse", work.goal, work.found) /\ work.goal \in Restarts
      BY MovedWork, StateFields DEF IInv, Places
    <2>3. Id \in Requests
      BY <1>1, <1>3, AskedFacts, Bounds DEF IInv, AskedInv, Operation, Id
    <2>4. work.copy.cancelled \cup {Id} \in SUBSET Requests
      BY <2>3, CopySound, BindingFields
    <2>5. /\ b \in Bindings /\ b.restart = work.copy.restart /\ b.completed = work.copy.completed
          /\ b.cancelled = work.copy.cancelled \cup {Id}
      BY <2>4, CopySound DEF Bindings
    <2> HIDE DEF b, w
    <2>6. Receipts(asked, b) /\ Newer(asked, unit.live, b.restart) /\ Extends(work.copy, b)
      BY <2>5, CopySound DEF Receipts, Newer, Extends, HasReceipt
    <2>7. GoesOn("refuse", work.goal, b)
      BY <1>1, AtWork DEF IInv, WorkInv, Targets, GoesOn, StopPath, QuietPath
    <2> QED
      BY <1>1, <2>1, <2>2, <2>5, <2>6, <2>7, SaveGoesOn, AtWork DEF QuietNow, QuietPath, StopPath
  <1>4. CASE Goes([work EXCEPT !.at = "clear", !.tracked = TRUE]) /\ UNCHANGED <<disk, events>>
    <2>1. "clear" \in Places /\ Moved(work', "clear", work.goal, work.found)
      BY <1>4, MovedWork, StateFields DEF IInv, Places, Goes
    <2> QED
      BY <1>1, <1>4, <2>1, EasyMove, MemSame, SameUnit
      DEF IInv, Goes, QuietPath, StopPath, Asking, Starting, Holding
  <1> QED
    BY <1>2, <1>3, <1>4 DEF Check

LEMMA StepBegin ==
  ASSUME IInv, Begin
  PROVE  IInv' /\ ReceiptStep
  <1>1. /\ work.at = "begin" /\ unit' = unit /\ work.kind = "command" /\ work.n \in DOMAIN asked
        /\ work.goal = NoRestart /\ work.found = 0
    BY DEF Begin, At, IInv, WorkInv, Placed, Targets, Asking, Starting, Holding
  <1>2. CASE \E result \in {"refused", "failed"} : Ends(result, mem) /\ UNCHANGED <<disk, events>>
    BY <1>1, <1>2, PlainEnd, Results, SameUnit
  <1>3. CASE \E p \in {"settle", "advance"} : GoesTo(p) /\ UNCHANGED <<disk, events>>
    <2>1. PICK p \in {"settle", "advance"} : GoesTo(p) /\ UNCHANGED <<disk, events>>
      BY <1>3
    <2>2. p \in Places /\ Moved(work', p, work.goal, work.found)
      BY <2>1, MovedWork, StateFields DEF IInv, Places, GoesTo, Goes
    <2> QED
      BY <1>1, <2>1, <2>2, EasyMove, MemSame, SameUnit
      DEF IInv, GoesTo, Goes, QuietPath, StopPath, Asking, Starting, Holding
  <1>4. CASE /\ Operation = "restart" /\ ~Finished(work.copy, Id) /\ work.copy.restart = NoRestart
             /\ SavesThen([work.copy EXCEPT !.enabled = TRUE, !.restart = Progress(Id)], "advance")
    <2> DEFINE b == [work.copy EXCEPT !.enabled = TRUE, !.restart = Progress(Id)]
               w == [work EXCEPT !.at = "advance"]
    <2>1. Saves(b, w)
      BY <1>4 DEF SavesThen
    <2>2. "advance" \in Places /\ Moved(w, "advance", work.goal, work.found) /\ work.goal \in Restarts
      BY MovedWork, StateFields DEF IInv, Places
    <2>3. Id \in Requests /\ Id \in DOMAIN asked
      BY <1>1, <1>4, AskedFacts, Bounds DEF IInv, AskedInv, Operation, Id
    <2>4. /\ Progress(Id) \in Restarts /\ Progress(Id).id = Id /\ Progress(Id).prev = unit.live
      BY <2>3, StateFields DEF IInv, Progress, Restarts
    <2>5. /\ b \in Bindings /\ b.restart = Progress(Id) /\ b.completed = work.copy.completed
          /\ b.cancelled = work.copy.cancelled
      BY <2>4, CopySound DEF Bindings
    <2> HIDE DEF b, w
    <2>6. Receipts(asked, b) /\ Newer(asked, unit.live, b.restart)
      BY <2>3, <2>4, <2>5, CopySound DEF Receipts, Newer
    <2>7. Extends(work.copy, b)
      BY <1>4, <2>5, Bounds DEF Extends, HasReceipt, NoRestart
    <2>8. GoesOn("advance", work.goal, b)
      BY <1>1, AtWork DEF IInv, WorkInv, Targets, GoesOn, StopPath, QuietPath
    <2> QED
      BY <1>1, <2>1, <2>2, <2>5, <2>6, <2>7, <2>8, SaveGoesOn, AtWork DEF QuietNow, QuietPath, StopPath
  <1>5. CASE SavesThen([work.copy EXCEPT !.enabled = TRUE], "launch")
    <2> DEFINE b == [work.copy EXCEPT !.enabled = TRUE]
               w == [work EXCEPT !.at = "launch"]
    <2>1. Saves(b, w)
      BY <1>5 DEF SavesThen
    <2>2. "launch" \in Places /\ Moved(w, "launch", work.goal, work.found) /\ work.goal \in Restarts
      BY MovedWork, StateFields DEF IInv, Places
    <2>3. /\ b \in Bindings /\ b.restart = work.copy.restart /\ b.completed = work.copy.completed
          /\ b.cancelled = work.copy.cancelled
      BY CopySound DEF Bindings
    <2> HIDE DEF b, w
    <2>4. Receipts(asked, b) /\ Newer(asked, unit.live, b.restart) /\ Extends(work.copy, b)
      BY <2>3, CopySound DEF Receipts, Newer, Extends, HasReceipt
    <2>5. GoesOn("launch", work.goal, b)
      BY <1>1, AtWork DEF IInv, WorkInv, Targets, GoesOn, StopPath, QuietPath
    <2> QED
      BY <1>1, <2>1, <2>2, <2>3, <2>4, <2>5, SaveGoesOn, AtWork DEF QuietNow, QuietPath, StopPath
  <1> QED
    BY <1>2, <1>3, <1>4, <1>5 DEF Begin

LEMMA StepAdvance ==
  ASSUME IInv, Advance
  PROVE  IInv' /\ ReceiptStep
  <1> DEFINE goal == work.copy.restart
  <1>1. /\ work.at = "advance" /\ work.goal = NoRestart /\ work.found = 0
    BY DEF Advance, At, IInv, WorkInv, Targets, Starting, Holding
  <1>2. /\ goal \in Restarts /\ Newer(asked, unit.live, goal)
        /\ goal # NoRestart => work.copy.completed[goal.id] = 0
    BY CopySound DEF Valid, Finished
  <1>3. Newer(asked, 0, goal)
    BY <1>2 DEF Newer
  <1>4. CASE \E result \in {"crossed", "refused"} :
               Ends(result, mem) /\ UNCHANGED <<disk, unit, events>>
    BY <1>1, <1>4, PlainEnd, Results, SameUnit
  <1>5. CASE \E p \in {"launch", "hold", "halt"} :
               /\ goal # NoRestart /\ Goes([work EXCEPT !.at = p, !.goal = goal])
               /\ unit' = unit \/ unit' = [unit EXCEPT !.held = TRUE]
               /\ UNCHANGED <<disk, events>>
    <2>1. PICK p \in {"launch", "hold", "halt"} :
               /\ goal # NoRestart /\ Goes([work EXCEPT !.at = p, !.goal = goal])
               /\ unit' = unit \/ unit' = [unit EXCEPT !.held = TRUE]
               /\ UNCHANGED <<disk, events>>
      BY <1>5
    <2>2. unit' \in Units /\ unit'.last = unit.last /\ unit'.live = unit.live
      BY <2>1, UnitFields, SameUnit DEF IInv
    <2>3. UnitGoes
      BY <2>2, UnitFewer DEF IInv
    <2>4. p \in Places /\ Moved(work', p, goal, 0)
      BY <1>1, <1>2, <2>1, MovedWork, StateFields DEF IInv, Places, Goes
    <2>5. Targets(asked, unit'.live, work')
      BY <1>2, <1>3, <2>1, <2>2, <2>4 DEF Targets, Moved, Starting, Holding
    <2>6. MemKeeps /\ events' \in 0..MaxEvents /\ UNCHANGED <<asked, disk, queue, lapsed>>
      BY <2>1, MemSame, SameUnit DEF IInv, Goes
    <2> QED
      BY <1>1, <1>2, <2>3, <2>4, <2>5, <2>6, MoveStep DEF QuietPath, StopPath, Asking
  <1>6. CASE /\ goal # NoRestart /\ unit' = unit
             /\ Saves([work.copy EXCEPT !.restart.phase = "starting"],
                      [work EXCEPT !.at = "launch", !.goal = goal])
    <2> DEFINE b == [work.copy EXCEPT !.restart.phase = "starting"]
               w == [work EXCEPT !.at = "launch", !.goal = goal]
    <2>1. Saves(b, w)
      BY <1>6
    <2>2. "launch" \in Places /\ Moved(w, "launch", goal, work.found)
      BY <1>2, MovedWork, StateFields DEF IInv, Places
    <2>4. /\ b \in Bindings /\ b.completed = work.copy.completed
          /\ b.cancelled = work.copy.cancelled
          /\ b.restart.id = goal.id /\ b.restart.prev = goal.prev
      <3>1. [work.copy.restart EXCEPT !.phase = "starting"] \in Restarts
        BY <1>6, CopySound DEF Restarts
      <3>2. b = [work.copy EXCEPT !.restart = [work.copy.restart EXCEPT !.phase = "starting"]]
        BY CopySound DEF Bindings
      <3>3. /\ [work.copy.restart EXCEPT !.phase = "starting"].id = work.copy.restart.id
            /\ [work.copy.restart EXCEPT !.phase = "starting"].prev = work.copy.restart.prev
        BY <1>6, CopySound DEF Restarts
      <3> QED
        BY <3>1, <3>2, <3>3, CopySound DEF Bindings
    <2> HIDE DEF b, w
    <2>5. Receipts(asked, b) /\ Newer(asked, unit.live, b.restart) /\ Extends(work.copy, b)
      BY <1>6, <2>4, CopySound DEF Receipts, Newer, Extends, HasReceipt
    <2>6. GoesOn("launch", goal, b)
      BY <1>1, <1>2, <1>3, <1>6, <2>4, AtWork DEF GoesOn, StopPath, QuietPath
    <2> QED
      BY <1>1, <1>2, <1>6, <2>1, <2>2, <2>4, <2>5, <2>6, SaveGoesOn, AtWork
      DEF QuietNow, QuietPath, StopPath
  <1>7. goal # NoRestart <=> goal.phase \in {"starting", "stopping"}
    BY <1>2 DEF Restarts, NoRestart
  <1> QED
    BY <1>4, <1>5, <1>6, <1>7 DEF Advance

LEMMA StepStopUnit ==
  ASSUME IInv, StopUnit
  PROVE  IInv' /\ ReceiptStep
  <1>1. work.at = "stop" /\ disk' = disk
    BY DEF StopUnit, At
  <1>2. CASE Fault("stop") /\ Ends("failed", mem) /\ UNCHANGED unit
    BY <1>1, <1>2, PlainEnd, Results, SameUnit, FaultCounts DEF IInv
  <1>3. CASE /\ unit' = IF Operation = "configure" THEN [StoppedUnit EXCEPT !.health = "ok"]
                        ELSE StoppedUnit
             /\ mem' = Forgets
             /\ work' = [work EXCEPT !.at = IF Operation = "configure" THEN "attach" ELSE "settle"]
             /\ UNCHANGED <<asked, queue, lapsed, events>>
    <2> DEFINE p == IF Operation = "configure" THEN "attach" ELSE "settle"
    <2>1. p \in {"attach", "settle"} /\ work' = [work EXCEPT !.at = p] /\ p \in Places
      BY <1>3 DEF Places
    <2>2. /\ p = "attach" => work.kind = "command" /\ asked[work.n].op = "configure"
      BY StateFields DEF IInv, Operation, Kinds
    <2> HIDE DEF p
    <2>3. Moved(work', p, work.goal, work.found)
      BY <2>1, MovedWork, StateFields DEF IInv
    <2>4. unit' \in Units /\ unit'.last = unit.last /\ unit'.live = 0 /\ MemKeeps /\ UnitGoes
      BY <1>3, UnitFields, UnitDown, MemSame DEF IInv
    <2>5. Newer(asked, 0, work.goal)
      BY DEF IInv, WorkInv, Targets, Newer
    <2>6. Targets(asked, unit'.live, work')
      BY <1>1, <2>1, <2>3, <2>4, <2>5 DEF IInv, WorkInv, Targets, Moved, Starting, Holding
    <2>7. work.kind \notin {"none", "failure"}
      BY <1>1, IdleFacts DEF IInv, WorkInv, Placed
    <2>8. Placed(asked, work')
      BY <2>1, <2>2, <2>3, <2>7 DEF IInv, WorkInv, Placed, Moved, Asking, StopPath
    <2>9. WorkKeeps /\ work'.copy = work.copy /\ work'.at = p
      BY <2>3 DEF WorkKeeps, Moved
    <2>10. QuietNow => p \in QuietPath
      BY <2>1, <2>2 DEF QuietNow, QuietPath, StopPath
    <2> QED
      BY <1>1, <1>3, <2>1, <2>4, <2>6, <2>8, <2>9, <2>10, KeepsStep, SameReceipts, SameUnit
  <1> QED
    BY <1>2, <1>3 DEF StopUnit

LEMMA StepReconcile ==
  ASSUME IInv, Reconcile
  PROVE  IInv' /\ ReceiptStep
  <1>1. work.at = "reconcile" /\ UNCHANGED <<disk, unit, events>> /\ work.found = 0
        /\ work.goal = NoRestart
    BY DEF Reconcile, At, IInv, WorkInv, Targets, Starting, Holding
  <1>2. CASE Ends("ok", mem)
    BY <1>1, <1>2, PlainEnd, Results, SameUnit DEF StopPath
  <1>3. CASE \E p \in {"stop", "advance", "launch"} :
               /\ Goes([work EXCEPT !.at = p]) \/ Goes([work EXCEPT !.at = p, !.tracked = TRUE])
               /\ p # "stop" => work.copy.enabled
    <2>1. PICK p \in {"stop", "advance", "launch"} :
               /\ Goes([work EXCEPT !.at = p]) \/ Goes([work EXCEPT !.at = p, !.tracked = TRUE])
               /\ p # "stop" => work.copy.enabled
      BY <1>3
    <2>2. p \in Places
      BY DEF Places
    <2>3. Moved(work', p, work.goal, work.found) /\ UNCHANGED <<asked, mem, queue, lapsed>>
      BY <2>1, <2>2, MovedWork, StateFields DEF IInv, Goes
    <2>4. UnitGoes /\ MemKeeps /\ WorkKeeps /\ work'.copy = work.copy
      BY <1>1, <2>3, UnitSame, MemSame DEF IInv, WorkKeeps, Moved
    <2>5. Targets(asked, unit'.live, work')
      BY <1>1, <2>3 DEF IInv, WorkInv, Targets, Moved, Starting, Holding
    <2>6. /\ work.kind \notin {"none", "failure"}
          /\ work.kind = "command" => asked[work.n].op # "stop"
      BY <1>1, IdleFacts DEF IInv, WorkInv, Placed, StopPath
    <2>7. Placed(asked, work')
      BY <2>3, <2>6 DEF IInv, WorkInv, Placed, Moved, Asking
    <2>8. QuietNow => p \in QuietPath
      BY <2>1 DEF QuietNow, QuietPath, StopPath, Down
    <2>9. work'.at = p /\ ~StopUnderWay(asked, work')
      BY <2>3, <2>6 DEF Moved, StopUnderWay
    <2> QED
      BY <1>1, <2>3, <2>4, <2>5, <2>7, <2>8, <2>9, KeepsStep, SameReceipts, SameUnit
  <1>4. Reconcile => Ends("ok", mem) \/ \E p \in {"stop", "advance", "launch"} :
               /\ Goes([work EXCEPT !.at = p]) \/ Goes([work EXCEPT !.at = p, !.tracked = TRUE])
               /\ p # "stop" => work.copy.enabled
    <2>1. CASE ~work.copy.enabled /\ GoesTo("stop")
      BY <2>1 DEF GoesTo
    <2>2. CASE /\ work.copy.enabled
               /\ Goes([work EXCEPT !.tracked = TRUE,
                   !.at = IF work.copy.restart # NoRestart THEN "advance" ELSE "launch"])
      <3> DEFINE p == IF work.copy.restart # NoRestart THEN "advance" ELSE "launch"
      <3>1. [work EXCEPT !.tracked = TRUE, !.at = p] = [work EXCEPT !.at = p, !.tracked = TRUE]
        BY DEF IInv, TypeOK, Works
      <3>2. p \in {"stop", "advance", "launch"} /\ p # "stop"
        OBVIOUS
      <3>3. Goes([work EXCEPT !.at = p, !.tracked = TRUE])
        BY <2>2, <3>1
      <3> HIDE DEF p
      <3> QED
        BY <2>2, <3>2, <3>3
    <2> QED
      BY <2>1, <2>2 DEF Reconcile
  <1> QED
    BY <1>2, <1>3, <1>4

LEMMA StepClose ==
  ASSUME IInv, Close
  PROVE  IInv' /\ ReceiptStep
  <1>1. work.at = "close" /\ disk' = disk
    BY DEF Close, At
  <1>2. CASE unit' = StoppedUnit /\ Ends("ok", Forgets) /\ UNCHANGED events
    BY <1>1, <1>2, ForgetfulEnd, Results, SameUnit, UnitFields DEF IInv, StopPath
  <1>3. CASE Fault("stop") /\ Ends("failed", mem) /\ UNCHANGED unit
    BY <1>1, <1>3, PlainEnd, Results, SameUnit, FaultCounts DEF IInv
  <1> QED
    BY <1>2, <1>3 DEF Close

-----------------------------------------------------------------------------
(* The actions beside the work under way.                                  *)

LEMMA UnitStep ==
  ASSUME IInv, UNCHANGED <<asked, disk, mem, queue, work, lapsed>>, events' \in 0..MaxEvents,
         UnitGoes, unit.live = 0 => unit'.live = 0
  PROVE  IInv' /\ ReceiptStep
  <1>1. AskedKeeps
    BY DEF AskedKeeps
  <1>2. Newer(asked, unit'.live, work.goal)
    BY <1>1, NewerGoes, StateFields DEF IInv, WorkInv, Targets
  <1>3. Targets(asked, unit'.live, work') /\ Placed(asked, work')
    BY <1>2 DEF IInv, WorkInv, Targets
  <1>4. MemKeeps /\ WorkKeeps /\ work'.copy = work.copy
    BY MemSame DEF IInv, TypeOK, WorkKeeps
  <1>5. StopUnderWay(asked, work') => work.at # "mark" /\ (work'.at # "stop" => unit'.live = 0)
    BY DEF IInv, StopInv, StopUnderWay
  <1>6. QuietNow => work.at \in QuietPath
    BY DEF QuietNow
  <1> QED
    BY <1>3, <1>4, <1>5, <1>6, KeepsStep, SameReceipts

LEMMA StepHoldAgain ==
  ASSUME IInv, HoldAgain
  PROVE  IInv' /\ ReceiptStep
  <1>1. unit' \in Units /\ unit'.last = unit.last /\ unit'.live = unit.live
    BY UnitFields DEF IInv, HoldAgain
  <1> QED
    BY <1>1, UnitFewer, UnitStep, SameUnit DEF IInv, HoldAgain

LEMMA StepPark ==
  ASSUME IInv, Park
  PROVE  IInv' /\ ReceiptStep
  <1>1. unit' \in Units /\ unit'.last = unit.last /\ unit'.live = 0
    BY UnitFields DEF IInv, Park
  <1> QED
    BY <1>1, UnitDown, UnitStep, FaultCounts DEF IInv, Park

LEMMA StepUnitExit ==
  ASSUME IInv, UnitExit
  PROVE  IInv' /\ ReceiptStep
  <1>1. CASE unit' = [StoppedUnit EXCEPT !.health = "degraded"]
    <2>1. unit' \in Units /\ unit'.last = unit.last /\ unit'.live = 0
      BY <1>1, UnitFields DEF IInv
    <2> QED
      BY <2>1, UnitDown, UnitStep, FaultCounts DEF IInv, UnitExit
  <1>2. CASE unit' = [unit EXCEPT !.live = unit.last + 1, !.last = @ + 1, !.held = FALSE]
    <2>0. unit.last + 1 \in Nat
      BY StateFields DEF IInv
    <2>1. unit' \in Units /\ unit'.last = unit.last + 1 /\ unit'.live = unit.last + 1
      BY <1>2, <2>0, SameUnit DEF Units
    <2>2. UnitGoes
      BY <2>1, StateFields DEF IInv, UnitGoes
    <2> QED
      BY <2>2, UnitStep, FaultCounts DEF IInv, UnitExit
  <1> QED
    BY <1>1, <1>2 DEF UnitExit

LEMMA StepStutter ==
  ASSUME IInv, UNCHANGED vars
  PROVE  IInv' /\ ReceiptStep
  BY UnitStep, UnitSame, SameUnit DEF IInv, vars

LEMMA StepAnswerEarly ==
  ASSUME IInv, NEW k \in DOMAIN asked, AnswerEarly(k)
  PROVE  IInv' /\ ReceiptStep
  <1> DEFINE c == [asked[k] EXCEPT !.early = TRUE]
  <1>1. /\ asked[k].end = "open" /\ ~asked[k].early /\ k \notin mem.unwritten
        /\ asked' = [asked EXCEPT ![k] = c]
        /\ UNCHANGED <<disk, mem, queue, work, unit, lapsed, events>>
    BY DEF AnswerEarly
  <1>2. /\ c \in Commands /\ c.end = "open" /\ c.op = asked[k].op /\ c.id = asked[k].id
        /\ c.born = asked[k].born
    BY <1>1, AskedFacts DEF IInv, Commands
  <1> HIDE DEF c
  <1>3. /\ asked' \in Seq(Commands) /\ Len(asked') = Len(asked) /\ DOMAIN asked' = DOMAIN asked
        /\ asked'[k] = c /\ \A n \in DOMAIN asked : n # k => asked'[n] = asked[n]
    BY <1>1, <1>2 DEF IInv, TypeOK
  <1>4. /\ AskedKeeps
        /\ \A n \in DOMAIN asked : asked'[n].end = asked[n].end /\ (n # k => asked'[n].early = asked[n].early)
    BY <1>1, <1>2, <1>3 DEF AskedKeeps
  <1>5. TypeOK'
    BY <1>1, <1>3 DEF IInv, TypeOK
  <1>6. AskedInv'
    BY <1>1, <1>3, <1>4 DEF IInv, AskedInv, AskedKeeps
  <1>7. UnitGoes
    BY <1>1, UnitSame DEF IInv
  <1>8. BindingsInv'
    BY <1>1, <1>4, <1>7, SoundGoes, StateFields DEF IInv, BindingsInv
  <1>9. WorkInv'
    <2>1. Placed(asked', work)
      BY <1>3, <1>4 DEF IInv, WorkInv, Placed, AskedKeeps
    <2>2. Targets(asked', unit.live, work)
      BY <1>1, <1>4, <1>7, NewerGoes, StateFields DEF IInv, WorkInv, Targets
    <2> QED
      BY <1>1, <2>1, <2>2 DEF WorkInv
  <1>10. QueueInv'
    BY <1>1, <1>3, <1>4 DEF IInv, QueueInv, Ordered, Intents, AskedKeeps
  <1>11. StopInv'
    <2>1. ASSUME NEW n \in DOMAIN asked
          PROVE  (Holds(n)' => Holds(n)) /\ (Over(n)' => Over(n))
      BY <1>1, <1>3, <1>4 DEF Holds, Over, Written, NoneFailedAfter, OnlyStopsAfter, AskedKeeps
    <2>2. StopUnderWay(asked', work) => StopUnderWay(asked, work)
      BY <1>4 DEF IInv, WorkInv, Placed, StopUnderWay, AskedKeeps
    <2> QED
      BY <1>1, <1>3, <2>1, <2>2 DEF IInv, StopInv
  <1>12. AheadInv'
    BY <1>1, <1>3, <1>4 DEF IInv, AheadInv, NoStopFailed, AskedKeeps
  <1> QED
    BY <1>1, <1>5, <1>6, <1>8, <1>9, <1>10, <1>11, <1>12, SameReceipts DEF IInv

LEMMA StepShutdown ==
  ASSUME IInv, Shutdown
  PROVE  IInv' /\ ReceiptStep
  <1>1. /\ mem' = [mem EXCEPT !.closing = TRUE] /\ events' \in 0..MaxEvents
        /\ queue' = Append(queue, Item("shutdown", 0))
        /\ UNCHANGED <<asked, disk, work, unit, lapsed>>
    BY FaultCounts DEF Shutdown, IInv
  <1>2. Item("shutdown", 0) \in Items /\ Item("shutdown", 0).kind = "shutdown"
    BY Bounds DEF Item, Items, Kinds
  <1>3. QueueGoes
    BY <1>1, <1>2, QueueAppends DEF IInv
  <1>4. MemKeeps
    BY <1>1 DEF IInv, TypeOK, Memories, MemKeeps
  <1>5. TypeOK'
    BY <1>1, <1>3, <1>4 DEF IInv, TypeOK, QueueGoes, MemKeeps
  <1>6. AskedInv' /\ WorkInv'
    BY <1>1 DEF IInv, AskedInv, WorkInv
  <1>7. BindingsInv'
    BY <1>1, <1>4 DEF IInv, BindingsInv, MemKeeps
  <1>8. QueueInv'
    <2>1. Ordered(asked', queue', work')
      BY <1>1, <1>3 DEF IInv, TypeOK, QueueInv, Ordered, QueueGoes
    <2>2. Intents(asked', queue', mem')
      BY <1>1, <1>3, <1>4 DEF IInv, QueueInv, Intents, QueueGoes, MemKeeps
    <2> QED
      BY <2>1, <2>2 DEF QueueInv
  <1>9. StopInv'
    <2>1. ASSUME NEW n \in DOMAIN asked
          PROVE  (Holds(n)' => Holds(n)) /\ (Over(n)' => Over(n))
                 /\ (Quiet(n, queue, work, mem) => Quiet(n, queue', work, mem'))
      BY <1>1, <1>3, <1>4, BehindGoes
      DEF Holds, Over, Written, NoneFailedAfter, OnlyStopsAfter, MemKeeps, Quiet, QuietWork
    <2> QED
      BY <1>1, <1>4, <2>1 DEF IInv, StopInv, MemKeeps
  <1>10. AheadInv'
    BY <1>1, <1>4 DEF IInv, AheadInv, NoStopFailed, MemKeeps
  <1> QED
    BY <1>1, <1>5, <1>6, <1>7, <1>8, <1>9, <1>10, SameReceipts DEF IInv

LEMMA StepBoots ==
  ASSUME IInv, Boots, events' \in 0..MaxEvents
  PROVE  IInv' /\ ReceiptStep
  <1> DEFINE lost(n) == IF asked[n].end = "open" THEN [asked[n] EXCEPT !.end = "lost"] ELSE asked[n]
  <1>1. /\ asked' = [n \in DOMAIN asked |-> lost(n)]
        /\ mem' = Booted(disk) /\ queue' = <<Item("recover", 0)>> /\ work' = Idle
        /\ UNCHANGED <<disk, unit, lapsed>>
    BY DEF Boots
  <1>2. ASSUME NEW n \in DOMAIN asked
        PROVE  /\ lost(n) \in Commands /\ lost(n).op = asked[n].op /\ lost(n).id = asked[n].id
               /\ lost(n).born = asked[n].born /\ lost(n).early = asked[n].early
               /\ lost(n).end = IF asked[n].end = "open" THEN "lost" ELSE asked[n].end
    BY AskedFacts DEF IInv, Commands
  <1> HIDE DEF lost
  <1>3. /\ DOMAIN asked' = DOMAIN asked /\ \A n \in DOMAIN asked : asked'[n] = lost(n)
    BY <1>1
  <1>4. asked' \in Seq(Commands) /\ Len(asked') = Len(asked)
    <2>1. DOMAIN asked = 1..Len(asked) /\ Len(asked) \in Nat
      BY AskedFacts DEF IInv
    <2>2. asked' \in [1..Len(asked) -> Commands]
      BY <1>1, <1>2, <2>1
    <2> QED
      BY <2>1, <2>2
  <1>5. AskedKeeps
    BY <1>2, <1>3 DEF AskedKeeps
  <1>6. /\ mem' \in Memories /\ mem'.bindings = disk /\ mem'.reload = FALSE
        /\ mem'.stopIntent = 0 /\ mem'.unwritten = {}
    BY <1>1, StateFields, Bounds DEF IInv, Booted, Memories
  <1>7. /\ queue' \in Seq(Items) /\ DOMAIN queue' = {1} /\ queue'[1].kind = "recover"
    BY <1>1, Bounds DEF Item, Items, Kinds
  <1>8. TypeOK'
    BY <1>1, <1>4, <1>6, <1>7, IdleFacts DEF IInv, TypeOK
  <1>9. AskedInv'
    BY <1>1, <1>3, <1>5 DEF IInv, AskedInv, AskedKeeps
  <1>10. BindingsInv'
    <2>1. Sound(asked', unit'.live, disk')
      BY <1>1, <1>5, SoundGoes, UnitSame, StateFields DEF IInv, BindingsInv
    <2> QED
      BY <1>1, <1>6, <2>1, IdleFacts, RegisteredSound DEF BindingsInv
  <1>11. WorkInv'
    BY <1>1, IdleFacts DEF WorkInv
  <1>12. QueueInv'
    BY <1>6, <1>7 DEF QueueInv, Ordered, Intents
  <1>13. StopInv'
    <2>1. ASSUME NEW n \in DOMAIN asked, Holds(n)'
          PROVE  Holds(n)
      <3>1. Written(n)
        BY <1>2, <1>3, <2>1 DEF IInv, QueueInv, Intents, Holds, Written
      <3>2. NoneFailedAfter(n) /\ OnlyStopsAfter(n)
        BY <1>2, <1>3, <2>1 DEF Holds, NoneFailedAfter, OnlyStopsAfter, Failures
      <3> QED
        BY <3>1, <3>2 DEF Holds
    <2>2. ASSUME NEW n \in DOMAIN asked, Over(n)'
          PROVE  Over(n)
      BY <1>2, <1>3, <2>2 DEF Over, OnlyStopsAfter
    <2>3. \A n : Quiet(n, queue', work', mem')
      BY <1>1, <1>7, IdleFacts DEF Quiet, Behind, QuietWork
    <2>4. ~StopUnderWay(asked', work')
      BY <1>1, IdleFacts DEF StopUnderWay
    <2> QED
      BY <1>1, <1>3, <2>1, <2>2, <2>3, <2>4 DEF IInv, StopInv
  <1>14. AheadInv'
    BY <1>1, IdleFacts DEF AheadInv
  <1> QED
    BY <1>1, <1>8, <1>9, <1>10, <1>11, <1>12, <1>13, <1>14, SameReceipts DEF IInv

LEMMA CurrentIsDisk ==
  ASSUME IInv
  PROVE  /\ Current = disk /\ Refreshed \in Memories
         /\ Refreshed.bindings = disk /\ Refreshed.reload = FALSE
         /\ Refreshed.stopIntent = mem.stopIntent /\ Refreshed.unwritten = mem.unwritten
  <1>1. Current = disk
    BY StateFields DEF IInv, BindingsInv, Current
  <1> QED
    BY <1>1, StateFields DEF IInv, TypeOK, Memories, Refreshed

(* The intent of a stop, written or not.                                   *)
LEMMA IntentFacts ==
  ASSUME IInv, NEW k \in mem.unwritten
  PROVE  /\ k \in DOMAIN asked /\ asked[k].op = "stop" /\ asked[k].end = "open"
         /\ ~asked[k].early /\ k <= mem.stopIntent /\ mem.stopIntent # 0
         /\ work.kind = "command" => work.n < k
         /\ \A n : Behind(n, queue) => n < k
         /\ k \in Nat
  <1>1. /\ k \in DOMAIN asked /\ asked[k].op = "stop" /\ asked[k].end = "open"
        /\ ~asked[k].early /\ k <= mem.stopIntent /\ k \in Nat /\ k # 0
    BY AskedFacts DEF IInv, QueueInv, Intents
  <1>2. PICK i \in DOMAIN queue : queue[i].kind = "command" /\ queue[i].n = k
    BY DEF IInv, QueueInv, Intents
  <1>3. work.kind = "command" => work.n < k
    BY <1>2 DEF IInv, QueueInv, Ordered
  <1>4. \A n : Behind(n, queue) => n < k
    BY <1>2 DEF Behind
  <1> QED
    BY <1>1, <1>3, <1>4, StateFields DEF IInv

LEMMA IntentWritten ==
  ASSUME IInv, NEW k \in mem.unwritten, disk' = Stopped(disk),
         mem' = [Refreshed EXCEPT !.bindings = Stopped(disk), !.unwritten = mem.unwritten \ {k}],
         UNCHANGED <<asked, events, queue, work, unit, lapsed>>
  PROVE  IInv' /\ ReceiptStep
  <1>1. /\ disk' \in Bindings /\ Down(disk') /\ Closes(disk, disk')
    BY StoppedCloses, StateFields DEF IInv, Closes
  <1>2. /\ mem' \in Memories /\ mem'.bindings = disk' /\ mem'.reload = FALSE
        /\ mem'.stopIntent = mem.stopIntent /\ mem'.unwritten = mem.unwritten \ {k}
    BY <1>1, CurrentIsDisk DEF Memories
  <1>3. Sound(asked, unit.live, disk')
    BY <1>1, ClosesSound, StateFields DEF IInv, BindingsInv
  <1>4. TypeOK'
    BY <1>1, <1>2 DEF IInv, TypeOK
  <1>5. AskedInv' /\ WorkInv'
    BY DEF IInv, AskedInv, WorkInv
  <1>6. BindingsInv'
    BY <1>2, <1>3 DEF IInv, BindingsInv
  <1>7. QueueInv'
    BY <1>2 DEF IInv, QueueInv, Ordered, Intents
  <1>8. mem.stopIntent # 0
    BY IntentFacts
  <1>9. StopInv'
    <2>1. ASSUME NEW n \in DOMAIN asked, Over(n)'
          PROVE  Quiet(n, queue, work, mem') /\ unit.live = 0
      <3>1. Over(n)
        BY <2>1 DEF Over, OnlyStopsAfter
      <3> QED
        BY <1>1, <1>2, <3>1 DEF IInv, StopInv, Quiet, QuietWork
    <2> QED
      BY <1>1, <1>2, <1>8, <2>1 DEF IInv, StopInv
  <1>10. AheadInv'
    <2>1. \A b \in Bindings : Stopped(Stopped(b)) = Stopped(b)
      BY StoppedCloses, StoppedOfDown DEF Closes
    <2> QED
      BY <1>2, <1>8, <2>1, StateFields DEF IInv, AheadInv, NoStopFailed
  <1>11. ReceiptStep
    BY <1>1, <1>3, ClosesExtends, ExtendsKept, StateFields DEF IInv, Sound, ReceiptStep
  <1> QED
    BY <1>4, <1>5, <1>6, <1>7, <1>9, <1>10, <1>11 DEF IInv

LEMMA IntentFails ==
  ASSUME IInv, NEW k \in mem.unwritten, \A m \in mem.unwritten \ {k} : k < m,
         disk' \in {disk, Stopped(disk)}, events' \in 0..MaxEvents,
         mem' = [Refreshed EXCEPT !.reload = TRUE, !.unwritten = mem.unwritten \ {k},
                   !.stopIntent = IF @ = k THEN 0 ELSE @],
         asked' = [asked EXCEPT ![k].end = "failed"],
         UNCHANGED <<queue, work, unit, lapsed>>
  PROVE  IInv' /\ ReceiptStep
  <1>1. /\ k \in DOMAIN asked /\ asked[k].op = "stop" /\ asked[k].end = "open"
        /\ ~asked[k].early /\ k <= mem.stopIntent /\ k \in Nat
        /\ work.kind = "command" => work.n < k
        /\ \A n : Behind(n, queue) => n < k
    BY IntentFacts
  <1>2. EndsOne(k, "failed")
    BY <1>1, EndOfOne DEF IInv, Failures
  <1>3. AskedKeeps /\ DOMAIN asked' = DOMAIN asked /\ Len(asked') = Len(asked)
        /\ asked' \in Seq(Commands)
    BY <1>2 DEF EndsOne
  <1>4. /\ mem' \in Memories /\ mem'.bindings = disk /\ mem'.reload = TRUE
        /\ mem'.stopIntent = (IF mem.stopIntent = k THEN 0 ELSE mem.stopIntent)
        /\ mem'.unwritten = mem.unwritten \ {k}
    BY CurrentIsDisk, Bounds DEF Memories
  <1>5. disk' \in Bindings /\ (Down(disk) => Down(disk')) /\ Sound(asked, unit.live, disk')
    BY StoppedCloses, ClosesSound, StateFields DEF IInv, BindingsInv, Closes
  <1>6. TypeOK'
    BY <1>3, <1>4, <1>5 DEF IInv, TypeOK
  <1>7. AskedInv'
    BY <1>3 DEF IInv, AskedInv, AskedKeeps
  <1>8. UnitGoes
    BY UnitSame DEF IInv
  <1>9. BindingsInv'
    BY <1>3, <1>4, <1>5, <1>8, SoundGoes, StateFields DEF IInv, BindingsInv
  <1>10. WorkInv'
    <2>1. Placed(asked', work)
      <3>1. work.kind = "command" => work.n # k
        BY <1>1
      <3> QED
        BY <1>2, <1>3, <3>1 DEF IInv, WorkInv, Placed, AskedKeeps, EndsOne
    <2>2. Targets(asked', unit.live, work)
      BY <1>3, <1>8, NewerGoes, StateFields DEF IInv, WorkInv, Targets
    <2> QED
      BY <2>1, <2>2 DEF WorkInv
  <1>11. QueueInv'
    <2>1. Ordered(asked', queue, work)
      BY <1>3 DEF IInv, QueueInv, Ordered
    <2>2. ASSUME NEW n \in mem.unwritten \ {k}
          PROVE  /\ \E i \in DOMAIN queue : queue[i].kind = "command" /\ queue[i].n = n
                 /\ n \in DOMAIN asked' /\ asked'[n].op = "stop"
                 /\ asked'[n].end = "open" /\ ~asked'[n].early /\ n <= mem'.stopIntent
      <3>1. k < n /\ n <= mem.stopIntent /\ n \in Nat /\ mem.stopIntent \in Nat
        BY IntentFacts, StateFields, Bounds DEF IInv
      <3>2. mem'.stopIntent = mem.stopIntent
        BY <1>1, <1>4, <3>1
      <3> QED
        BY <1>2, <1>3, <3>1, <3>2 DEF IInv, QueueInv, Intents, EndsOne, AskedKeeps
    <2>3. mem'.stopIntent # 0 =>
            /\ mem'.stopIntent \in DOMAIN asked' /\ asked'[mem'.stopIntent].op = "stop"
            /\ \A n \in DOMAIN asked' : asked'[n].op = "stop" => n <= mem'.stopIntent
      BY <1>3, <1>4 DEF IInv, QueueInv, Intents, AskedKeeps
    <2> QED
      BY <1>4, <2>1, <2>2, <2>3 DEF QueueInv, Intents
  <1>12. StopInv'
    <2>1. StopUnderWay(asked', work) =>
            /\ Down(disk') /\ Down(mem'.bindings) /\ Down(work.copy)
            /\ work.at # "stop" => unit.live = 0
      BY <1>3, <1>4, <1>5 DEF IInv, WorkInv, Placed, StopInv, StopUnderWay, AskedKeeps
    <2>2. ASSUME NEW n \in DOMAIN asked, Down(disk), Quiet(n, queue, work, mem)
          PROVE  Quiet(n, queue, work, mem')
      BY <1>4, <2>2 DEF Quiet, QuietWork
    <2>3. ASSUME NEW n \in DOMAIN asked, Holds(n)'
          PROVE  Down(disk') /\ mem'.stopIntent # 0
      <3>1. /\ asked[n].op = "stop" /\ n # k /\ ~(k > n)
            /\ asked[n].early \/ asked[n].end \in {"open", "ok"}
            /\ n \notin mem.unwritten /\ OnlyStopsAfter(n) /\ NoneFailedAfter(n)
        BY <1>1, <1>2, <1>3, <1>4, <2>3
        DEF Holds, Written, NoneFailedAfter, OnlyStopsAfter, Failures, EndsOne, AskedKeeps
      <3>2. Down(disk) /\ (mem.stopIntent # 0 \/ Quiet(n, queue, work, mem))
        BY <3>1 DEF IInv, StopInv, Holds, Written
      <3>3. k < n /\ n \in Nat
        BY <1>1, <3>1, AskedFacts DEF IInv
      <3>4. mem.stopIntent # 0 /\ n <= mem.stopIntent
        BY <1>1, <3>1, IntentFacts DEF IInv, QueueInv, Intents
      <3> QED
        BY <1>1, <1>4, <1>5, <3>2, <3>3, <3>4, StateFields, Bounds DEF IInv
    <2>4. ASSUME NEW n \in DOMAIN asked, Over(n)'
          PROVE  Down(disk') /\ Quiet(n, queue, work, mem') /\ unit.live = 0
      <3>1. Over(n)
        BY <1>2, <1>3, <2>4 DEF Over, OnlyStopsAfter, EndsOne, AskedKeeps
      <3> QED
        BY <1>5, <2>2, <3>1 DEF IInv, StopInv
    <2> QED
      BY <1>3, <2>1, <2>3, <2>4 DEF StopInv
  <1>13. ~NoStopFailed'
    BY <1>1, <1>2, <1>3 DEF NoStopFailed, EndsOne, AskedKeeps, Failures
  <1> QED
    BY <1>6, <1>7, <1>9, <1>10, <1>11, <1>12, <1>13 DEF IInv, AheadInv, ReceiptStep

LEMMA StepSaveIntent ==
  ASSUME IInv, NEW k \in DOMAIN asked, SaveIntent(k)
  PROVE  IInv' /\ ReceiptStep
  <1>1. k \in mem.unwritten
    BY DEF SaveIntent
  <1>2. (IF mem.stopIntent # 0 THEN Stopped(Current) ELSE Current) = Stopped(disk)
    BY <1>1, IntentFacts, CurrentIsDisk
  <1> QED
    BY <1>1, <1>2, IntentWritten, IntentFails, FaultCounts DEF IInv, SaveIntent

(* A command that is given.                                                *)
Asked(op, n) ==
  /\ n = Len(asked) + 1 /\ n \in Requests /\ Len(asked') = n /\ DOMAIN asked' = 1..n
  /\ asked' \in Seq(Commands)
  /\ \A k \in DOMAIN asked : asked'[k] = asked[k]
  /\ asked'[n].op = op /\ asked'[n].id <= n /\ asked'[n].early = FALSE
  /\ asked'[n].end = "open" /\ asked'[n].born = unit.last
  /\ op = "restart" => asked'[n].id # 0

LEMMA RequestFacts ==
  ASSUME IInv, NEW op \in Operations, Request(op)
  PROVE  Asked(op, Len(asked) + 1)
  <1> DEFINE n == Len(asked) + 1
  <1>1. PICK id \in IF op = "restart" THEN {n} \cup Ids ELSE {0} :
          asked' = Append(asked, [op |-> op, id |-> id, early |-> FALSE,
                                  end |-> "open", born |-> unit.last])
    BY DEF Request
  <1>2. n \in Requests /\ Len(asked) \in Nat /\ DOMAIN asked = 1..Len(asked) /\ n \in Nat
    BY AskedFacts, Bounds DEF IInv, Request
  <1>3. id \in 0..MaxRequests /\ id <= n /\ (op = "restart" => id # 0)
    <2>1. CASE id \in Ids /\ op = "restart"
      <3>1. PICK k \in DOMAIN asked : id = asked[k].id /\ id # 0
        BY <2>1 DEF Ids
      <3>2. asked[k].id <= k /\ k <= n /\ asked[k].id \in 0..MaxRequests /\ k \in Nat
        BY <1>2, AskedFacts DEF IInv, AskedInv
      <3>3. asked[k].id <= n
        BY <1>2, <3>2, Bounds
      <3> QED
        BY <3>1, <3>2, <3>3
    <2>2. CASE id = n /\ op = "restart"
      BY <1>2, <2>2, Bounds
    <2>3. CASE id = 0 /\ op # "restart"
      BY <1>2, <2>3, Bounds
    <2> QED
      BY <1>1, <2>1, <2>2, <2>3
  <1> DEFINE c == [op |-> op, id |-> id, early |-> FALSE, end |-> "open", born |-> unit.last]
  <1>4. /\ c \in Commands /\ c.op = op /\ c.id = id /\ c.early = FALSE /\ c.end = "open"
        /\ c.born = unit.last
    BY <1>3, StateFields DEF IInv, Commands
  <1> HIDE DEF c
  <1>5. asked' = Append(asked, c) /\ asked \in Seq(Commands)
    BY <1>1 DEF c, IInv, TypeOK
  <1>6. /\ asked' \in Seq(Commands) /\ Len(asked') = n /\ DOMAIN asked' = 1..n
        /\ asked'[n] = c /\ \A k \in DOMAIN asked : asked'[k] = asked[k]
    BY <1>2, <1>4, <1>5
  <1> QED
    BY <1>2, <1>3, <1>4, <1>6 DEF Asked

LEMMA StepRequest ==
  ASSUME IInv, NEW op \in Operations, Request(op)
  PROVE  IInv' /\ ReceiptStep
  <1> DEFINE n == Len(asked) + 1
             takesOver == op \in {"stop", "configure"}
  <1>1. /\ n \in Requests /\ n \in Nat /\ n \in 0..MaxRequests /\ n # 0
        /\ DOMAIN asked = 1..Len(asked) /\ DOMAIN asked' = 1..n /\ n \in DOMAIN asked'
        /\ Len(asked) \in Nat /\ Len(asked') = n /\ n \notin DOMAIN asked
        /\ \A k \in DOMAIN asked : k \in DOMAIN asked' /\ asked'[k] = asked[k] /\ k < n /\ k \in Nat
        /\ \A k \in DOMAIN asked' : k = n \/ k \in DOMAIN asked
        /\ asked'[n].op = op /\ asked'[n].id <= n /\ asked'[n].early = FALSE
        /\ asked'[n].end = "open" /\ asked'[n].born = unit.last
        /\ op = "restart" => asked'[n].id # 0
        /\ asked' \in Seq(Commands)
    <2>1. Asked(op, n) /\ n = Len(asked) + 1
      BY RequestFacts
    <2>2. DOMAIN asked = 1..Len(asked) /\ Len(asked) \in Nat
      BY AskedFacts DEF IInv
    <2> HIDE DEF n
    <2>3. /\ n \in Requests /\ DOMAIN asked' = 1..n /\ Len(asked') = n
          /\ \A k \in DOMAIN asked : asked'[k] = asked[k]
          /\ asked'[n].op = op /\ asked'[n].id <= n /\ asked'[n].early = FALSE
          /\ asked'[n].end = "open" /\ asked'[n].born = unit.last
          /\ op = "restart" => asked'[n].id # 0
          /\ asked' \in Seq(Commands)
      BY <2>1 DEF Asked
    <2>4. /\ n \in Nat /\ n \in 0..MaxRequests /\ n # 0 /\ n \in DOMAIN asked'
          /\ n \notin DOMAIN asked
          /\ \A k \in DOMAIN asked : k \in DOMAIN asked' /\ k < n /\ k \in Nat
          /\ \A k \in DOMAIN asked' : k = n \/ k \in DOMAIN asked
      BY <2>1, <2>2, <2>3, Bounds
    <2> QED
      BY <2>2, <2>3, <2>4
  <1>2. /\ mem' = [mem EXCEPT !.superseded = IF takesOver THEN n ELSE @,
                           !.stopIntent = IF op = "stop" THEN n ELSE @,
                           !.unwritten = IF op = "stop" THEN @ \cup {n} ELSE @]
        /\ work' = [work EXCEPT !.aborted = @ \/ (takesOver /\ work.tracked)]
        /\ queue' = Append(queue, Item("command", n))
        /\ UNCHANGED <<disk, unit, lapsed, events>>
    BY DEF Request
  <1> HIDE DEF n
  <1>3. AskedKeeps
    BY <1>1 DEF AskedKeeps
  <1>4. /\ mem' \in Memories /\ mem'.bindings = mem.bindings /\ mem'.reload = mem.reload
        /\ mem'.stopIntent = (IF op = "stop" THEN n ELSE mem.stopIntent)
        /\ mem'.unwritten = (IF op = "stop" THEN mem.unwritten \cup {n} ELSE mem.unwritten)
    <2>1. (IF op = "stop" THEN mem.unwritten \cup {n} ELSE mem.unwritten) \in SUBSET Requests
      BY <1>1, StateFields DEF IInv
    <2> QED
      BY <1>1, <1>2, <2>1 DEF IInv, TypeOK, Memories
  <1>5. /\ work' \in Works /\ work'.kind = work.kind /\ work'.n = work.n /\ work'.at = work.at
        /\ work'.copy = work.copy /\ work'.goal = work.goal /\ work'.found = work.found
        /\ work = Idle => work' = Idle
    <2>1. work.tracked \in BOOLEAN /\ work.aborted \in BOOLEAN
      BY DEF IInv, TypeOK, Works
    <2>2. work = Idle => work' = Idle
      BY <1>2, IdleFacts DEF Idle
    <2> QED
      BY <1>2, <2>1, <2>2 DEF IInv, TypeOK, Works
  <1>6. /\ queue \in Seq(Items) /\ Len(queue) \in Nat /\ queue' \in Seq(Items)
        /\ DOMAIN queue = 1..Len(queue) /\ DOMAIN queue' = 1..(Len(queue) + 1)
        /\ \A i \in DOMAIN queue : i \in DOMAIN queue' /\ queue'[i] = queue[i]
        /\ \A i \in DOMAIN queue' : i = Len(queue) + 1 \/ i \in DOMAIN queue
        /\ queue'[Len(queue) + 1].kind = "command" /\ queue'[Len(queue) + 1].n = n
    <2>1. Item("command", n) \in Items /\ Item("command", n).kind = "command" /\ Item("command", n).n = n
      BY <1>1 DEF Item, Items, Kinds
    <2> QED
      BY <1>2, <2>1 DEF IInv, TypeOK
  <1>7. TypeOK'
    BY <1>1, <1>2, <1>4, <1>5, <1>6, Bounds DEF IInv, TypeOK, Requests
  <1>8. UnitGoes
    BY <1>2, UnitSame DEF IInv
  <1>9. AskedInv'
    BY <1>1, <1>2, StateFields DEF IInv, AskedInv
  <1>10. BindingsInv'
    BY <1>2, <1>3, <1>4, <1>5, <1>8, SoundGoes, StateFields DEF IInv, BindingsInv
  <1>11. work.kind \in {"command", "failure"} => work.n \in DOMAIN asked
    BY DEF IInv, WorkInv, Placed
  <1>12. WorkInv'
    <2>1. Placed(asked', work')
      BY <1>1, <1>5, <1>11 DEF IInv, WorkInv, Placed
    <2>2. Newer(asked', unit.live, work.goal) /\ Newer(asked', work.found, work.goal)
      BY <1>2, <1>3, <1>8, NewerGoes, StateFields DEF IInv, WorkInv, Targets
    <2>3. Targets(asked', unit.live, work')
      BY <1>5, <2>2 DEF IInv, WorkInv, Targets
    <2> QED
      BY <1>2, <2>1, <2>3 DEF WorkInv
  <1>13. QueueInv'
    <2>1. ASSUME NEW i \in DOMAIN queue'
          PROVE  /\ queue'[i].kind \in {"command", "failure"} => queue'[i].n \in DOMAIN asked'
                 /\ queue'[i].kind = "command" /\ work'.kind = "command" => work'.n < queue'[i].n
      BY <1>1, <1>5, <1>6, <1>11 DEF IInv, QueueInv, Ordered
    <2>2. ASSUME NEW i \in DOMAIN queue', NEW j \in DOMAIN queue',
                 i < j, queue'[i].kind = "command", queue'[j].kind = "command"
          PROVE  queue'[i].n < queue'[j].n
      <3>1. i \in DOMAIN queue
        BY <1>6, <2>2
      <3> QED
        BY <1>1, <1>6, <2>2, <3>1 DEF IInv, QueueInv, Ordered
    <2>3. ASSUME NEW k \in mem'.unwritten
          PROVE  /\ \E i \in DOMAIN queue' : queue'[i].kind = "command" /\ queue'[i].n = k
                 /\ k \in DOMAIN asked' /\ asked'[k].op = "stop"
                 /\ asked'[k].end = "open" /\ ~asked'[k].early /\ k <= mem'.stopIntent
      <3>1. CASE k \in mem.unwritten
        <4>1. /\ k \in DOMAIN asked /\ asked[k].op = "stop" /\ asked[k].end = "open"
              /\ ~asked[k].early /\ k <= mem.stopIntent
          BY <3>1, IntentFacts
        <4>2. PICK i \in DOMAIN queue : queue[i].kind = "command" /\ queue[i].n = k
          BY <3>1 DEF IInv, QueueInv, Intents
        <4> QED
          BY <1>1, <1>4, <1>6, <4>1, <4>2
      <3>2. CASE k = n /\ op = "stop"
        BY <1>1, <1>4, <1>6, <3>2
      <3> QED
        BY <1>4, <3>1, <3>2
    <2>4. mem'.stopIntent # 0 =>
            /\ mem'.stopIntent \in DOMAIN asked' /\ asked'[mem'.stopIntent].op = "stop"
            /\ \A k \in DOMAIN asked' : asked'[k].op = "stop" => k <= mem'.stopIntent
      <3>1. CASE op = "stop"
        BY <1>1, <1>4, <3>1
      <3>2. CASE op # "stop"
        BY <1>1, <1>4, <3>2 DEF IInv, QueueInv, Intents
      <3> QED
        BY <3>1, <3>2
    <2> QED
      BY <2>1, <2>2, <2>3, <2>4 DEF QueueInv, Ordered, Intents
  <1>14. StopInv'
    <2>1. StopUnderWay(asked', work') =>
            /\ Down(disk') /\ Down(mem'.bindings) /\ Down(work'.copy)
            /\ work'.at # "stop" => unit'.live = 0
      BY <1>1, <1>2, <1>4, <1>5, <1>11 DEF IInv, StopInv, StopUnderWay
    <2>2. ASSUME NEW k \in DOMAIN asked, Quiet(k, queue, work, mem)
          PROVE  Quiet(k, queue', work', mem')
      BY <1>1, <1>4, <1>5, <1>6, <2>2 DEF Quiet, Behind, QuietWork
    <2>3. ASSUME NEW k \in DOMAIN asked', Holds(k)'
          PROVE  Down(disk') /\ mem'.stopIntent # 0
      <3>1. k # n /\ k \in DOMAIN asked
        BY <1>1, <1>4, <2>3 DEF Holds, Written
      <3>2. op = "stop"
        BY <1>1, <2>3, <3>1 DEF Holds, OnlyStopsAfter
      <3>3. Holds(k)
        BY <1>1, <1>4, <2>3, <3>1, <3>2
        DEF Holds, Written, NoneFailedAfter, OnlyStopsAfter
      <3> QED
        BY <1>1, <1>2, <1>4, <3>1, <3>2, <3>3 DEF IInv, StopInv
    <2>4. ASSUME NEW k \in DOMAIN asked', Over(k)'
          PROVE  Down(disk') /\ Quiet(k, queue', work', mem') /\ unit'.live = 0
      <3>1. k \in DOMAIN asked
        BY <1>1, <2>4 DEF Over
      <3>2. Over(k)
        BY <1>1, <2>4, <3>1 DEF Over, OnlyStopsAfter
      <3> QED
        BY <1>2, <2>2, <3>1, <3>2 DEF IInv, StopInv
    <2> QED
      BY <2>1, <2>3, <2>4 DEF StopInv
  <1>15. AheadInv'
    <2>1. NoStopFailed' => NoStopFailed
      BY <1>1 DEF NoStopFailed
    <2> QED
      BY <1>1, <1>2, <1>4, <1>5, <2>1 DEF IInv, AheadInv
  <1> QED
    BY <1>2, <1>7, <1>9, <1>10, <1>12, <1>13, <1>14, <1>15, SameReceipts DEF IInv

(* The queue once its head has had its turn.                               *)
LEMMA TailFacts ==
  ASSUME TypeOK, queue # <<>>
  PROVE  /\ Len(queue) \in Nat /\ DOMAIN queue = 1..Len(queue) /\ 1 \in DOMAIN queue
         /\ Head(queue) = queue[1] /\ Head(queue) \in Items /\ Tail(queue) \in Seq(Items)
         /\ \A i \in DOMAIN Tail(queue) : i \in Nat /\ i + 1 \in DOMAIN queue
                                          /\ Tail(queue)[i] = queue[i + 1]
         /\ \A i \in DOMAIN queue : i # 1 => i - 1 \in DOMAIN Tail(queue)
                                             /\ Tail(queue)[i - 1] = queue[i]
  <1>1. queue \in Seq(Items) /\ Len(queue) \in Nat /\ Len(queue) # 0
    BY DEF TypeOK
  <1>2. DOMAIN queue = 1..Len(queue) /\ DOMAIN Tail(queue) = 1..(Len(queue) - 1)
    BY <1>1
  <1> QED
    BY <1>1, <1>2

LEMMA StepTakeTurn ==
  ASSUME IInv, TakeTurn
  PROVE  IInv' /\ ReceiptStep
  <1> DEFINE item == Head(queue)
             first == CASE item.kind = "failure"  -> "record"
                        [] item.kind = "recover"  -> "reconcile"
                        [] item.kind = "shutdown" -> "close"
                        [] OTHER -> CASE asked[item.n].op = "stop"      -> "mark"
                                      [] asked[item.n].op = "configure" -> "stop"
                                      [] OTHER                          -> "check"
             w == [Idle EXCEPT !.kind = item.kind, !.n = item.n, !.at = first, !.copy = Current]
  <1>1. /\ work = Idle /\ queue # <<>> /\ item.n \notin mem.unwritten /\ queue' = Tail(queue)
        /\ UNCHANGED <<asked, disk, unit, lapsed, events>>
        /\ IF item.kind = "command" /\ asked[item.n].end # "open" THEN UNCHANGED <<work, mem>>
           ELSE work' = w /\ mem' = IF item.kind = "shutdown" THEN mem ELSE Refreshed
    BY DEF TakeTurn
  <1>2. /\ item \in Items /\ item = queue[1] /\ 1 \in DOMAIN queue
        /\ item.kind \in Kinds /\ item.n \in 0..MaxRequests
        /\ item.kind \in {"command", "failure"} => item.n \in DOMAIN asked
    BY <1>1, TailFacts DEF IInv, Items, QueueInv, Ordered
  <1>3. /\ queue' \in Seq(Items)
        /\ \A i \in DOMAIN queue' : i \in Nat /\ i + 1 \in DOMAIN queue /\ queue'[i] = queue[i + 1]
        /\ \A i \in DOMAIN queue : i # 1 => i - 1 \in DOMAIN queue' /\ queue'[i - 1] = queue[i]
    BY <1>1, TailFacts DEF IInv
  <1>4. \A i \in DOMAIN queue' :
          item.kind = "command" /\ queue'[i].kind = "command" => item.n < queue'[i].n
    BY <1>2, <1>3 DEF IInv, QueueInv, Ordered
  <1>5. /\ first \in Places
        /\ item.kind = "failure" => first = "record"
        /\ item.kind = "recover" => first = "reconcile"
        /\ item.kind = "shutdown" => first = "close"
        /\ item.kind = "command" => first \in {"mark", "stop", "check"}
        /\ item.kind = "command" /\ asked[item.n].op = "stop" => first = "mark"
    BY <1>2 DEF Kinds, Places
  <1> HIDE DEF first
  <1>6. /\ w \in Works /\ w.kind = item.kind /\ w.n = item.n /\ w.at = first /\ w.copy = disk
        /\ w.goal = NoRestart /\ w.found = 0
    BY <1>2, <1>5, IdleFacts, CurrentIsDisk, StateFields DEF IInv, Works
  <1> HIDE DEF item, w
  <1>7. /\ mem' \in Memories /\ mem'.stopIntent = mem.stopIntent /\ mem'.unwritten = mem.unwritten
        /\ mem'.bindings \in {mem.bindings, disk} /\ (mem'.reload = FALSE => mem'.bindings = disk)
        /\ work' = w /\ w.at # "close" => mem'.bindings = disk /\ mem'.reload = FALSE
    <2>1. mem' = mem \/ mem' = Refreshed
      BY <1>1
    <2>2. mem.reload = FALSE => mem.bindings = disk
      BY DEF IInv, BindingsInv
    <2>3. mem' = mem => ~(work' = w /\ w.at # "close") \/ mem' = Refreshed
      BY <1>1, <1>2, <1>5, <1>6, IdleFacts DEF Kinds
    <2> QED
      BY <2>1, <2>2, <2>3, CurrentIsDisk, SameUnit DEF IInv
  <1>8. work' = Idle \/ (work' = w /\ (item.kind = "command" => asked[item.n].end = "open"))
    BY <1>1
  <1>9. TypeOK'
    BY <1>1, <1>3, <1>6, <1>7, <1>8, IdleFacts DEF IInv, TypeOK
  <1>10. AskedInv'
    BY <1>1 DEF IInv, AskedInv
  <1>11. BindingsInv'
    BY <1>1, <1>6, <1>7, <1>8, IdleFacts, RegisteredSound DEF IInv, BindingsInv, TypeOK, Memories
  <1>12. WorkInv'
    <2>1. work' = Idle \/ (Placed(asked, w) /\ Targets(asked, unit.live, w))
      <3>1. CASE work' # Idle
        <4>1. item.kind = "command" => asked[item.n].end = "open"
          BY <1>8, <3>1
        <4>2. Placed(asked, w)
          BY <1>2, <1>5, <1>6, <4>1 DEF Placed, Asking, StopPath, Kinds
        <4>3. Targets(asked, unit.live, w)
          BY <1>2, <1>5, <1>6 DEF Targets, Newer, Holding, Starting, Kinds
        <4> QED
          BY <4>2, <4>3
      <3> QED
        BY <3>1
    <2> QED
      BY <1>1, <1>8, <2>1, IdleFacts DEF WorkInv
  <1>13. QueueInv'
    <2>1. ASSUME NEW i \in DOMAIN queue'
          PROVE  /\ queue'[i].kind \in {"command", "failure"} => queue'[i].n \in DOMAIN asked
                 /\ queue'[i].kind = "command" /\ work'.kind = "command" => work'.n < queue'[i].n
      BY <1>3, <1>4, <1>6, <1>8, IdleFacts DEF IInv, QueueInv, Ordered
    <2>2. ASSUME NEW i \in DOMAIN queue', NEW j \in DOMAIN queue',
                 i < j, queue'[i].kind = "command", queue'[j].kind = "command"
          PROVE  queue'[i].n < queue'[j].n
      <3>1. i + 1 \in DOMAIN queue /\ j + 1 \in DOMAIN queue /\ i + 1 < j + 1
        BY <1>3, <2>2
      <3> QED
        BY <1>3, <2>2, <3>1 DEF IInv, QueueInv, Ordered
    <2>3. ASSUME NEW k \in mem.unwritten
          PROVE  \E i \in DOMAIN queue' : queue'[i].kind = "command" /\ queue'[i].n = k
      <3>1. PICK i \in DOMAIN queue : queue[i].kind = "command" /\ queue[i].n = k
        BY DEF IInv, QueueInv, Intents
      <3>2. i # 1
        BY <1>1, <1>2, <3>1
      <3> QED
        BY <1>3, <3>1, <3>2
    <2>4. Ordered(asked', queue', work')
      BY <1>1, <2>1, <2>2 DEF Ordered
    <2>5. Intents(asked', queue', mem')
      BY <1>1, <1>7, <2>3 DEF IInv, QueueInv, Intents
    <2> QED
      BY <2>4, <2>5 DEF QueueInv
  <1>14. StopInv'
    <2>1. ~StopUnderWay(asked, work')
      BY <1>5, <1>6, <1>8, IdleFacts DEF StopUnderWay
    <2>2. ASSUME NEW n \in DOMAIN asked, OnlyStopsAfter(n), Down(disk), Quiet(n, queue, work, mem)
          PROVE  Quiet(n, queue', work', mem')
      <3>1. Behind(n, queue')
        BY <1>3, <2>2 DEF Quiet, Behind
      <3>2. item.kind = "command" => n < item.n /\ asked[item.n].op = "stop"
        BY <1>2, <2>2 DEF Quiet, Behind, OnlyStopsAfter
      <3>3. QuietWork(n, work', mem')
        <4>1. CASE work' = Idle
          BY <4>1, IdleFacts DEF QuietWork
        <4>2. CASE work' = w
          <5>1. w.kind = "command" => n < w.n
            BY <1>6, <3>2
          <5>2. first \in QuietPath \cup {"close"}
            BY <1>2, <1>5, <3>2 DEF Kinds, QuietPath, StopPath
          <5> QED
            BY <1>6, <1>7, <2>2, <4>2, <5>1, <5>2 DEF QuietWork
        <4> QED
          BY <1>8, <4>1, <4>2
      <3> QED
        BY <3>1, <3>3 DEF Quiet
    <2>3. ASSUME NEW n \in DOMAIN asked
          PROVE  /\ Holds(n)' => Holds(n) /\ OnlyStopsAfter(n)
                 /\ Over(n)' => Over(n) /\ OnlyStopsAfter(n)
      BY <1>1, <1>7 DEF Holds, Over, Written, NoneFailedAfter, OnlyStopsAfter
    <2>4. ASSUME NEW n \in DOMAIN asked'
          PROVE  /\ Holds(n)' => Down(disk') /\ (mem'.stopIntent # 0 \/ Quiet(n, queue', work', mem'))
                 /\ Over(n)' => Down(disk') /\ Quiet(n, queue', work', mem') /\ unit'.live = 0
      BY <1>1, <1>7, <2>2, <2>3 DEF IInv, StopInv
    <2> QED
      BY <1>1, <2>1, <2>4 DEF StopInv
  <1>15. AheadInv'
    BY <1>1, <1>6, <1>7, <1>8, IdleFacts DEF AheadInv
  <1> QED
    BY <1>1, <1>9, <1>10, <1>11, <1>12, <1>13, <1>14, <1>15, SameReceipts DEF IInv

-----------------------------------------------------------------------------
(* The theorems.                                                           *)

LEMMA InitIInv ==
  ASSUME Init
  PROVE  IInv
  <1>1. /\ asked = <<>> /\ disk = Registered /\ queue = <<Item("recover", 0)>> /\ work = Idle
        /\ mem = Booted(Registered)
        /\ unit = [live |-> 0, last |-> 0, held |-> FALSE, health |-> "ok"]
        /\ lapsed = FALSE /\ events = 0
    BY DEF Init
  <1>2. /\ mem \in Memories /\ mem.bindings = disk /\ mem.reload = FALSE /\ mem.stopIntent = 0
        /\ mem.unwritten = {}
    BY <1>1, RegisteredSound, Bounds DEF Booted, Memories
  <1>3. /\ queue \in Seq(Items) /\ DOMAIN queue = {1} /\ queue[1].kind = "recover"
    BY <1>1, Bounds DEF Item, Items, Kinds
  <1>4. unit \in Units /\ unit.live = 0 /\ unit.last = 0
    BY <1>1 DEF Units
  <1>5. asked \in Seq(Commands) /\ Len(asked) = 0 /\ DOMAIN asked = {}
    BY <1>1
  <1>6. TypeOK
    <2>1. disk \in Bindings /\ work \in Works
      BY <1>1, RegisteredSound, IdleFacts
    <2>2. Len(asked) <= MaxRequests /\ events \in 0..MaxEvents
      BY <1>1, <1>5, Bounds
    <2>3. lapsed \in BOOLEAN
      BY <1>1
    <2> QED
      BY <1>2, <1>3, <1>4, <1>5, <2>1, <2>2, <2>3 DEF TypeOK
  <1>7. AskedInv /\ BindingsInv /\ WorkInv /\ QueueInv
    BY <1>1, <1>2, <1>3, <1>4, <1>5, RegisteredSound, IdleFacts
    DEF AskedInv, BindingsInv, WorkInv, QueueInv, Ordered, Intents
  <1>8. StopInv /\ AheadInv
    BY <1>1, <1>5, IdleFacts DEF StopInv, StopUnderWay, AheadInv
  <1> QED
    BY <1>6, <1>7, <1>8 DEF IInv

LEMMA Step ==
  ASSUME IInv, [Next]_vars
  PROVE  IInv' /\ ReceiptStep
  <1>1. CASE Work
    BY <1>1, StepMark, StepStopUnit, StepAttach, StepCheck, StepRefuse, StepClearHealth, StepBegin,
       StepAdvance, StepDrained, StepHalt, StepHalted, StepFinish, StepLaunch, StepEnsure,
       StepReady, StepAnswered, StepSettle, StepDone, StepRecord, StepReconcile, StepClose
    DEF Work
  <1>2. CASE \E op \in Operations : Request(op)
    BY <1>2, StepRequest
  <1>3. CASE \E n \in DOMAIN asked : SaveIntent(n) \/ AnswerEarly(n)
    BY <1>3, StepSaveIntent, StepAnswerEarly
  <1>4. CASE TakeTurn
    BY <1>4, StepTakeTurn
  <1>5. CASE HoldAgain \/ Shutdown \/ UnitExit \/ Park
    BY <1>5, StepHoldAgain, StepShutdown, StepUnitExit, StepPark
  <1>6. CASE Exit
    BY <1>6, StepBoots, SameUnit DEF Exit
  <1>7. CASE Crash
    BY <1>7, StepBoots, FaultCounts DEF Crash, IInv
  <1>8. CASE UNCHANGED vars
    BY <1>8, StepStutter
  <1> QED
    BY <1>1, <1>2, <1>3, <1>4, <1>5, <1>6, <1>7, <1>8 DEF Next

(* The inductive invariant holds throughout.                               *)
THEOREM Invariant == Spec => []IInv
  <1>1. IInv /\ [Next]_vars => IInv'
    BY Step
  <1> QED
    BY <1>1, InitIInv, PTL DEF Spec

(* The state of a Workspace's lifecycle is what the code's types say: in   *)
(* particular a registered restart always has an id and a phase that       *)
(* #advanceRestart goes on from.                                           *)
THEOREM TypeCorrect == Spec => []TypeOK
  <1>1. IInv => TypeOK
    BY DEF IInv
  <1> QED
    BY <1>1, Invariant, PTL

(* A stop that was answered, at its deadline or at its end, stays in the   *)
(* registry file until another command is given: no save of older work, no *)
(* crash and no failure of a save of other work enables the Workspace.     *)
THEOREM StopsHold == Spec => []StopHolds
  <1>1. IInv => StopHolds
    <2>1. SUFFICES ASSUME IInv, NEW n \in DOMAIN asked, asked[n].op = "stop", Told(n),
                          OnlyStopsAfter(n), NoneFailedAfter(n)
                   PROVE  ~disk.enabled /\ disk.restart = NoRestart
      BY DEF StopHolds, NoneFailedAfter
    <2>2. n \notin mem.unwritten
      BY <2>1, IntentFacts DEF Told
    <2>3. Holds(n)
      BY <2>1, <2>2 DEF Told, Holds, Written
    <2> QED
      BY <2>1, <2>3 DEF IInv, StopInv, Down
  <1> QED
    BY <1>1, Invariant, PTL

(* Once a stop is done its daemon stays down until another command.        *)
THEOREM StaysDown == Spec => []StoppedStaysDown
  <1>1. IInv => StoppedStaysDown
    BY DEF IInv, StopInv, StoppedStaysDown, Over
  <1> QED
    BY <1>1, Invariant, PTL

(* The receipt of a restart names an instance younger than its request.    *)
THEOREM Replaces == Spec => []RestartReplaces
  <1>1. IInv => RestartReplaces
    BY DEF IInv, BindingsInv, Sound, Receipts, RestartReplaces
  <1> QED
    BY <1>1, Invariant, PTL

(* The receipt of a restart is not lost, changed or worked at again.       *)
THEOREM ReceiptsRemain == Spec => ReceiptsStay
  <1>1. IInv /\ [Next]_vars =>
          [NoStopFailed' =>
             \A r \in Requests : HasReceipt(disk, r) =>
               /\ HasReceipt(disk', r) /\ disk'.restart.id # r
               /\ disk.completed[r] # 0 => disk'.completed[r] = disk.completed[r]]_vars
    BY Step DEF ReceiptStep, ReceiptsKept
  <1> QED
    BY <1>1, Invariant, PTL DEF Spec, ReceiptsStay
=============================================================================
