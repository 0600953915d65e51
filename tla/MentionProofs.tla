---------------------------- MODULE MentionProofs ----------------------------
(***************************************************************************)
(* What tracked @mention delivery promises for any deliveries, launches,   *)
(* sessions and events.                                                    *)
(***************************************************************************)
EXTENDS MentionDelivery, TLAPS

(* Every step of the system is the cloud's, the tracker's or the           *)
(* transport's, or concerns neither's state.                               *)
RowStep ==
  \/ \E d \in Deliveries : Issue(d) \/ IssueFailed(d)
  \/ \E settled \in BOOLEAN : SettleStopped(settled)
  \/ \E k \in JobKinds : JobWrite(k) \/ \E unsent \in SUBSET Selected(k) : JobSend(k, unsent)
  \/ \E m \in reports, done \in BOOLEAN : ReceiveAck(m, done) \/ ReceiveError(m, done)

AgentStep ==
  \/ Stop \/ Start \/ BeginRestart \/ Ready
  \/ \E k \in JobKinds : JobRead(k)
  \/ \E identity \in Identity : ReceiveStarted(identity)
  \/ \E identity \in Identity, replaced \in 0..MaxSession : AcceptSession(identity, replaced)

ReceiveStep ==
  \E m \in pushes :
    \/ ReceiveTracked(m) \/ ReceiveExited(m)
    \/ \E taken \in BOOLEAN : ReceiveUntracked(m, taken)

TurnStep ==
  \/ AnnounceTold \/ AnnounceGone \/ AnnounceRejected \/ TurnStart
  \/ \E success \in BOOLEAN : TurnEnd(success)
  \/ \E d \in Deliveries : SettleNext(d) \/ NoticeUndelivered(d) \/ Consume(d) \/ Evict(d)
  \/ \E d \in Deliveries, taken \in BOOLEAN : RedeliverySettled(d, taken)
  \/ \E reason \in HoldReasons : SetHold(reason)
  \/ ReleaseHold
  \/ \E taken \in BOOLEAN : FlushSettled(taken)

ProcessStep ==
  \/ \E identity \in Identity, recovered \in SUBSET Deliveries : Launch(identity, recovered)
  \/ \E launch \in 1..MaxLaunch : Rebind(launch)
  \/ \E identity \in Identity : SessionReported(identity)
  \/ ProcessExit \/ StopProcess \/ DaemonRestart

Split ==
  \/ (RowStep \/ AgentStep) /\ UNCHANGED trackerVars
  \/ (ReceiveStep \/ TurnStep \/ ProcessStep) /\ UNCHANGED serverVars
  \/ (LosePush \/ LoseReport \/ UNCHANGED channels) /\ UNCHANGED <<serverVars, trackerVars>>

LEMMA StepSplits == ASSUME TypeOK, Step PROVE Split
<1>1. CASE Issues \/ StopSettles \/ (\E k \in JobKinds : JobRuns(k)) \/ ReportArrives
  <2>1. CASE Issues
    BY <2>1 DEF Issues, ByServer, Split, RowStep
  <2>2. CASE StopSettles
    BY <2>2 DEF StopSettles, ByServer, Split, RowStep
  <2>3. ASSUME NEW k \in JobKinds, JobRuns(k)
        PROVE  Split
    BY <2>3 DEF JobRuns, ByServer, Split, RowStep, AgentStep
  <2>4. CASE ReportArrives
    BY <2>4 DEF ReportArrives, ByServer, Split, RowStep
  <2>5. QED
    BY <1>1, <2>1, <2>2, <2>3, <2>4
<1>2. CASE TrackedArrives \/ WakeArrives \/ AnnounceEnds \/ TurnStarts \/ Settling \/ Flushing
  <2>1. CASE TrackedArrives \/ WakeArrives
    BY <2>1 DEF TrackedArrives, WakeArrives, ByTracker, Split, ReceiveStep
  <2>2. CASE AnnounceEnds \/ TurnStarts \/ Settling \/ Flushing
    BY <2>2 DEF AnnounceEnds, TurnStarts, Settling, Flushing, ByTracker, Split, TurnStep
  <2>3. QED
    BY <1>2, <2>1, <2>2
<1>3. CASE TurnEnds
  BY <1>3 DEF TurnEnds, DaemonTurnEnds, Split, TurnStep
<1>4. CASE Commanded
  <2>1. CASE PersonStarts \/ AdvanceRestart
    BY <2>1 DEF PersonStarts, AdvanceRestart, Split, AgentStep
  <2>2. CASE DaemonRebinds
    <3>1. control.launch \in 1..MaxLaunch
      BY <2>2 DEF DaemonRebinds, TypeOK, LinkTypeOK, Commands
    <3>2. QED
      BY <2>2, <3>1 DEF DaemonRebinds, Split, ProcessStep
  <2>3. CASE DaemonStops \/ DaemonReplaces
    BY <2>3 DEF DaemonStops, DaemonReplaces, Split, ProcessStep
  <2>4. QED
    BY <1>4, <2>1, <2>2, <2>3 DEF Commanded
<1>5. CASE LaunchRuns
  <2>1. CASE DaemonLaunches \/ DaemonWakes
    BY <2>1 DEF DaemonLaunches, DaemonWakes, Split
  <2>2. CASE LaunchCompletes({})
    BY <2>2 DEF LaunchCompletes, Split, ProcessStep, TypeOK, LinkTypeOK, Launches
  <2>3. CASE ReportRefused
    BY <2>3 DEF ReportRefused, LaunchFails, Split
  <2>4. QED
    BY <1>5, <2>1, <2>2, <2>3 DEF LaunchRuns
<1>6. CASE ReportServed \/ ReplyArrives
  <2>1. CASE StartedTaken
    BY <2>1 DEF StartedTaken, Split, AgentStep, TypeOK, LinkTypeOK
  <2>2. CASE SessionServed
    BY <2>2 DEF SessionServed, Split, AgentStep, TypeOK, LinkTypeOK, Calls
  <2>3. CASE SessionReplied
    BY <2>3 DEF SessionReplied, Split, ProcessStep, TypeOK, LinkTypeOK, Calls
  <2>4. QED
    BY <1>6, <2>1, <2>2, <2>3 DEF ReportServed, ReplyArrives
<1>7. QED
  BY <1>1, <1>2, <1>3, <1>4, <1>5, <1>6 DEF Step

LEMMA EventSplits == ASSUME TypeOK, NEW kind, Event(kind) PROVE Split
<1>1. CASE TrackerEvent(kind) /\ UNCHANGED serverVars
  <2>1. TurnStep \/ ProcessExit \/ \E m \in pushes : ReceiveUntracked(m, FALSE)
    BY <1>1 DEF TrackerEvent, TurnStep
  <2>2. QED
    BY <1>1, <2>1 DEF Split, ProcessStep, ReceiveStep
<1>2. CASE ServerEvent(kind) /\ UNCHANGED trackerVars
  <2>1. ASSUME NEW k \in JobKinds, NEW unsent \in SUBSET Selected(k) \ {{}}, JobSend(k, unsent)
        PROVE  RowStep
    BY <2>1 DEF RowStep
  <2>2. RowStep
    BY <1>2, <2>1 DEF ServerEvent, RowStep
  <2>3. QED
    BY <1>2, <2>2 DEF Split
<1>3. CASE LinkEvent(kind)
  <2>1. CASE PersonStops \/ PersonStarts \/ PersonRestarts \/ DaemonReady
    BY <2>1 DEF PersonStops, PersonStarts, PersonRestarts, DaemonReady, Split, AgentStep
  <2>2. CASE DaemonTurnEnds(FALSE)
    BY <2>2 DEF DaemonTurnEnds, Split, TurnStep
  <2>3. CASE LaunchCompletes(Deliveries \ consumed)
    BY <2>3 DEF LaunchCompletes, Split, ProcessStep, TypeOK, LinkTypeOK, Launches
  <2>4. CASE LaunchFails \/ DaemonReportsAgain \/ SessionReplyLost
    BY <2>4 DEF LaunchFails, DaemonReportsAgain, SessionReplyLost, Split
  <2>5. CASE DaemonCrashes
    BY <2>5 DEF DaemonCrashes, Split, ProcessStep
  <2>6. CASE (LosePush \/ LoseReport) /\ UNCHANGED <<serverVars, trackerVars, linkVars>>
    BY <2>6 DEF Split
  <2>7. QED
    BY <1>3, <2>1, <2>2, <2>3, <2>4, <2>5, <2>6 DEF LinkEvent
<1>4. QED
  BY <1>1, <1>2, <1>3 DEF Event

LEMMA NextSplits == ASSUME TypeOK, [Next]_vars PROVE Split
  BY StepSplits, EventSplits DEF Next, vars, Split

-----------------------------------------------------------------------------
(* Types.                                                                  *)
LEMMA Bounds == MaxLaunch \in Nat \ {0} /\ MaxSession \in Nat \ {0}
  BY BoundsAssumption

LEMMA IdentityNotNone == NoIdentity \notin Identity /\ Identity \subseteq Envelope
  BY Bounds DEF NoIdentity, Identity, Envelope

LEMMA NoneTypes ==
  /\ NoIdentity \in Envelope /\ NoEntry \in Entries /\ NoJob \in Jobs
  BY DEF Envelope, NoEntry, Entries, NoJob, Jobs

LEMMA MessageTypes ==
  ASSUME NEW d \in Deliveries, NEW env \in Envelope
  PROVE  /\ Push(d, env) \in Pushes /\ Ack(d, env) \in Reports
         /\ \A code \in TerminalCodes : TerminalError(d, env, code) \in Reports
  BY DEF Push, Pushes, Ack, TerminalError, Reports

(* What is let go of is an envelope of one of the deliveries.              *)
LEMMA PairTypes ==
  ASSUME ProtocolTypeOK, TrackerTypeOK
  PROVE  /\ \A m \in pushes \cup reports : Pair(m) \in Deliveries \X Envelope
         /\ \A d \in Deliveries : \A env : Replaced(d, env) \subseteq Deliveries \X Envelope
<1>1. \A m \in pushes \cup reports : Pair(m) \in Deliveries \X Envelope
  BY DEF ProtocolTypeOK, Pushes, Reports, Pair
<1>2. \A d \in Deliveries : tracked[d].env \in Envelope
  BY DEF TrackerTypeOK, Entries
<1>3. QED
  BY <1>1, <1>2 DEF Replaced

LEMMA CurrentIdentityType == ServerTypeOK => CurrentIdentity \in Envelope
  BY Bounds DEF ServerTypeOK, Agents, CurrentIdentity, Envelope, Identity

LEMMA IssuedType ==
  ASSUME NEW r \in Rows, NEW env \in Envelope, NEW code \in TerminalCodes \cup {"none"}
  PROVE  Issued(r, env, code) \in Rows
  BY DEF Rows, Issued, Outcomes

LEMMA NotLaunchedType == ASSUME NEW r \in Rows PROVE NotLaunched(r) \in Rows
  BY DEF Rows, NotLaunched, Outcomes, Reasons

LEMMA AckSettledType ==
  ASSUME NEW r \in Rows, NEW env
  PROVE  AckSettled(r, env) \in Rows
  BY DEF Rows, AckSettled, Outcomes, Reasons

LEMMA SettledType ==
  ASSUME NEW r \in Rows, NEW reason \in Reasons, NEW code \in TerminalCodes
  PROVE  Settled(r, "lost", reason, code) \in Rows
  BY DEF Rows, Settled, Outcomes

LEMMA RowFieldTypes ==
  ASSUME NEW r \in Rows
  PROVE  /\ r.env \in Envelope /\ r.code \in TerminalCodes \cup {"none"}
         /\ [r EXCEPT !.env = NoIdentity] \in Rows
         /\ [r EXCEPT !.env = NoIdentity, !.code = "none"] \in Rows
         /\ [r EXCEPT !.received = TRUE] \in Rows
  BY NoneTypes DEF Rows

(* One row changes.                                                        *)
LEMMA RowChanges ==
  ASSUME row \in [Deliveries -> Rows], NEW d \in Deliveries, NEW r \in Rows,
         row' = [row EXCEPT ![d] = r]
  PROVE  row' \in [Deliveries -> Rows]
  OBVIOUS

LEMMA InitTypeOK == Init => TypeOK
<1> SUFFICES ASSUME Init
             PROVE  TypeOK
  OBVIOUS
<1> USE Bounds, NoneTypes DEF Init
<1>1. ProtocolTypeOK
  BY DEF ProtocolTypeOK
<1>2. TrackerTypeOK
  BY DEF TrackerInit, TrackerTypeOK
<1>3. ServerTypeOK
  <2>1. row \in [Deliveries -> Rows]
    BY DEF ServerInit, Rows, Outcomes, Reasons
  <2>2. agent \in Agents /\ minted \in 0..MaxLaunch
    BY DEF ServerInit, Agents
  <2>3. jobs \in [JobKinds -> Jobs]
    BY DEF ServerInit
  <2>4. QED
    BY <2>1, <2>2, <2>3 DEF ServerInit, ServerTypeOK
<1>4. LinkTypeOK
  <2>1. NoCommand \in Commands
    BY DEF NoCommand, Commands
  <2>2. events \in 0..MaxEvents /\ sessions \in 0..MaxSession
    BY EventsAssumption
  <2>3. managed \in BOOLEAN /\ restart \in Envelope
    OBVIOUS
  <2>4. QED
    BY <2>1, <2>2, <2>3 DEF LinkTypeOK
<1>5. QED
  BY <1>1, <1>2, <1>3, <1>4 DEF TypeOK

LEMMA RowStepType ==
  ASSUME TypeOK, RowStep
  PROVE  ProtocolTypeOK' /\ ServerTypeOK'
<1> USE DEF TypeOK, ProtocolTypeOK, ServerTypeOK, serverHistory
<1>0. CurrentIdentity \in Envelope
  BY CurrentIdentityType
<1>1. ASSUME NEW d \in Deliveries, Issue(d) \/ IssueFailed(d)
      PROVE  ProtocolTypeOK' /\ ServerTypeOK'
  <2>1. pushes' \subseteq Pushes /\ forgotten' \subseteq Deliveries \X Envelope
    BY <1>0, <1>1, NoneTypes, MessageTypes DEF Issue, IssueFailed, Publish
  <2>2. row' \in [Deliveries -> Rows]
    <3>1. /\ Issued(row[d], CurrentIdentity, "none") \in Rows
          /\ NotLaunched([row[d] EXCEPT !.env = NoIdentity, !.code = "none"]) \in Rows
          /\ [row[d] EXCEPT !.env = NoIdentity] \in Rows
      BY <1>0, IssuedType, NotLaunchedType, RowFieldTypes
    <3>2. QED
      BY <1>1, <3>1, RowChanges DEF Issue, IssueFailed
  <2>3. QED
    BY <1>1, <2>1, <2>2 DEF Issue, IssueFailed
<1>2. ASSUME NEW settled \in BOOLEAN, SettleStopped(settled)
      PROVE  ProtocolTypeOK' /\ ServerTypeOK'
  <2>1. row' \in [Deliveries -> Rows] /\ stopped' \subseteq Deliveries
    BY <1>2, NotLaunchedType DEF SettleStopped
  <2>2. QED
    BY <1>2, <2>1 DEF SettleStopped, channels
<1>3. ASSUME NEW k \in JobKinds, JobWrite(k)
      PROVE  ProtocolTypeOK' /\ ServerTypeOK'
  <2>1. jobs[k] \in Jobs
    OBVIOUS
  <2>2. jobs[k].identity \in Envelope /\ jobs[k].mentions \subseteq Deliveries
    BY <2>1 DEF Jobs
  <2>3. row' \in [Deliveries -> Rows]
    <3>1. \A d \in Deliveries : /\ Issued(row[d], jobs[k].identity, "none") \in Rows
                               /\ Issued(row[d], jobs[k].identity, row[d].code) \in Rows
      BY <2>2, IssuedType, RowFieldTypes
    <3>2. QED
      BY <1>3, <3>1 DEF JobWrite
  <2>4. jobs' \in [JobKinds -> Jobs]
    BY <1>3, <2>2, NoneTypes DEF JobWrite, Jobs, NoJob
  <2>5. QED
    BY <1>3, <2>3, <2>4 DEF JobWrite, channels
<1>4. ASSUME NEW k \in JobKinds, NEW unsent \in SUBSET Selected(k), JobSend(k, unsent)
      PROVE  ProtocolTypeOK' /\ ServerTypeOK'
  <2>1. jobs[k] \in Jobs
    OBVIOUS
  <2>2. jobs[k].identity \in Envelope /\ jobs[k].reissued \subseteq Deliveries
    BY <2>1 DEF Jobs
  <2>3. Selected(k) \subseteq Deliveries
    BY <2>2 DEF Selected
  <2>4. pushes' \subseteq Pushes
    <3>1. \A d \in Deliveries :
            Push(d, IF d \in jobs[k].mentions THEN jobs[k].identity ELSE NoIdentity) \in Pushes
      BY <2>2, NoneTypes, MessageTypes
    <3>2. QED
      BY <1>4, <2>3, <3>1 DEF JobSend
  <2>5. row' \in [Deliveries -> Rows]
    <3>1. \A d \in Deliveries : Issued(row[d], NoIdentity, row[d].code) \in Rows
      BY NoneTypes, IssuedType, RowFieldTypes
    <3>2. QED
      BY <1>4, <3>1 DEF JobSend
  <2>6. jobs' \in [JobKinds -> Jobs]
    BY <1>4, NoneTypes DEF JobSend
  <2>7. forgotten' \subseteq Deliveries \X Envelope
    BY <1>4, <2>2, <2>3 DEF JobSend
  <2>8. QED
    BY <1>4, <2>4, <2>5, <2>6, <2>7 DEF JobSend
<1>5. ASSUME NEW m \in reports, NEW settled \in BOOLEAN, ReceiveAck(m, settled)
      PROVE  ProtocolTypeOK' /\ ServerTypeOK'
  <2>1. m.delivery \in Deliveries /\ m.env \in Envelope
    BY DEF Reports
  <2>2. row' \in [Deliveries -> Rows] /\ echoed' \subseteq Deliveries
    <3>1. [AckSettled(row[m.delivery], m.env) EXCEPT !.received = TRUE] \in Rows
      BY <2>1, AckSettledType, RowFieldTypes
    <3>2. [row[m.delivery] EXCEPT !.received = TRUE] \in Rows
      BY <2>1, RowFieldTypes
    <3>3. row' \in [Deliveries -> Rows]
      BY <1>5, <2>1, <3>1, <3>2 DEF ReceiveAck
    <3>4. QED
      BY <1>5, <2>1, <3>3 DEF ReceiveAck
  <2>3. forgotten' \subseteq Deliveries \X Envelope
    BY <1>5, <2>1 DEF ReceiveAck, Pair
  <2>4. QED
    BY <1>5, <2>2, <2>3 DEF ReceiveAck
<1>6. ASSUME NEW m \in reports, NEW sent \in BOOLEAN, ReceiveError(m, sent)
      PROVE  ProtocolTypeOK' /\ ServerTypeOK'
  <2>1. m.delivery \in Deliveries /\ m.env \in Envelope
    BY DEF Reports
  <2>2. \A target : target = (IF sent THEN DriftTarget(row[m.delivery], m.env) ELSE NoIdentity)
          => target \in Envelope
    BY <1>0, NoneTypes DEF DriftTarget
  <2>3. pushes' \subseteq Pushes /\ forgotten' \subseteq Deliveries \X Envelope
    <3>1. \A env \in Envelope : Push(m.delivery, env) \in Pushes
      BY <2>1, MessageTypes
    <3>2. UNCHANGED <<pushes, forgotten>> \/ \E S \in SUBSET Pushes : Publish(S)
      BY <1>6, <2>2, <3>1, NoneTypes DEF ReceiveError
    <3>3. QED
      BY <3>2 DEF Publish
  <2>4. row' \in [Deliveries -> Rows]
    <3>1. ASSUME NEW reason \in Reasons, NEW code \in TerminalCodes
          PROVE  Settled(row[m.delivery], "lost", reason, code) \in Rows
      BY <2>1, <3>1, SettledType
    <3>2. ASSUME NEW env \in Envelope, NEW code \in TerminalCodes
          PROVE  Issued(row[m.delivery], env, code) \in Rows
      BY <2>1, <3>2, IssuedType
    <3>3. \E r \in Rows : row' = row \/ row' = [row EXCEPT ![m.delivery] = r]
      <4>1. CASE ~(Open(row[m.delivery]) /\ Carries(row[m.delivery], m.env))
        BY <1>6, <2>1, <4>1 DEF ReceiveError
      <4>2. CASE m.code \in {"IDENTITY_UNKNOWN", "IDENTITY_DRIFT"}
        BY <1>6, <2>1, <2>2, <3>1, <3>2, <4>2, NoneTypes
           DEF ReceiveError, TerminalCodes, Reasons
      <4>3. CASE m.code \in {"DELIVERY_REJECTED", "QUOTA_LIMITED"}
        BY <1>6, <2>1, <3>1, <4>3 DEF ReceiveError, TerminalCodes, SettledByCode, Reasons
      <4>4. QED
        BY <1>6, <4>1, <4>2, <4>3 DEF ReceiveError
    <3>4. QED
      BY <2>1, <3>3
  <2>5. refused' \subseteq Deliveries \X Envelope
    BY <1>6, <2>1 DEF ReceiveError
  <2>6. QED
    BY <1>6, <2>3, <2>4, <2>5 DEF ReceiveError
<1>7. QED
  BY <1>1, <1>2, <1>3, <1>4, <1>5, <1>6 DEF RowStep

LEMMA AgentStepType ==
  ASSUME TypeOK, AgentStep
  PROVE  ProtocolTypeOK' /\ ServerTypeOK'
<1> USE Bounds DEF TypeOK, ProtocolTypeOK, ServerTypeOK, serverHistory, channels
<1>1. UNCHANGED channels
  BY DEF AgentStep, Stop, Start, BeginRestart, Ready, JobRead, ReceiveStarted, AcceptSession
<1>2. CASE Stop \/ Start \/ BeginRestart
  <2>1. ASSUME NEW launch \in 0..MaxLaunch, NEW stop \in BOOLEAN,
               agent' = [agent EXCEPT !.stopped = stop, !.launch = launch, !.fence = 0]
        PROVE  agent' \in Agents
    <3>1. 0 \in 0..MaxSession
      OBVIOUS
    <3>2. QED
      BY <2>1, <3>1 DEF Agents
  <2>2. minted' \in 0..MaxLaunch /\ agent' \in Agents
    <3>1. CASE Start
      <4>1. minted + 1 \in 0..MaxLaunch
        BY <3>1 DEF Start
      <4>2. QED
        BY <2>1, <3>1, <4>1 DEF Start
    <3>2. CASE Stop \/ BeginRestart
      <4>1. 0 \in 0..MaxLaunch
        OBVIOUS
      <4>2. QED
        BY <2>1, <3>2, <4>1 DEF Stop, BeginRestart
    <3>3. QED
      BY <1>2, <3>1, <3>2
  <2>3. QED
    BY <1>1, <1>2, <2>2 DEF Stop, Start, BeginRestart
<1>3. ASSUME NEW k \in JobKinds, NEW job \in Jobs, jobs' = [jobs EXCEPT ![k] = job]
      PROVE  jobs' \in [JobKinds -> Jobs]
  BY <1>3
<1>4. [NoJob EXCEPT !.phase = "read"] \in Jobs
  BY NoneTypes DEF Jobs
<1>5. CASE Ready
  BY <1>1, <1>3, <1>4, <1>5 DEF Ready, JobKinds
<1>6. ASSUME NEW k \in JobKinds, JobRead(k)
      PROVE  ServerTypeOK'
  <2>1. CurrentIdentity \in Envelope
    BY CurrentIdentityType
  <2>2. \A d \in Deliveries : row[d].env \in Envelope
    BY RowFieldTypes
  <2>3. jobs' \in [JobKinds -> Jobs]
    <3> DEFINE mentions == {d \in Deliveries : Wakeable /\ row[d].outcome = "pending"}
               carried == [d \in Deliveries |-> IF d \in mentions THEN row[d].env ELSE NoIdentity]
               job == [NoJob EXCEPT !.phase = "write", !.identity = CurrentIdentity,
                                    !.mentions = mentions, !.carried = carried]
    <3>1. mentions \in SUBSET Deliveries
      OBVIOUS
    <3>2. carried \in [Deliveries -> Envelope]
      BY <2>2, NoneTypes
    <3> HIDE DEF mentions, carried
    <3>3. job \in Jobs
      BY <2>1, <3>1, <3>2, NoneTypes DEF Jobs
    <3> HIDE DEF job
    <3>4. jobs' = [jobs EXCEPT ![k] = NoJob] \/ jobs' = [jobs EXCEPT ![k] = job]
      BY <1>6 DEF JobRead, mentions, carried, job
    <3>5. QED
      BY <1>3, <3>3, <3>4, NoneTypes
  <2>4. QED
    BY <1>6, <2>3 DEF JobRead
<1>7. ASSUME NEW identity \in Identity,
             agent' = [agent EXCEPT !.session = identity.session, !.fence = identity.session]
      PROVE  agent' \in Agents
  <2>1. identity.session \in 0..MaxSession
    BY <1>7 DEF Identity
  <2>2. QED
    BY <1>7, <2>1 DEF Agents
<1>8. ASSUME NEW identity \in Identity, ReceiveStarted(identity)
      PROVE  ServerTypeOK'
  BY <1>3, <1>4, <1>7, <1>8 DEF ReceiveStarted, JobKinds
<1>9. ASSUME NEW identity \in Identity, NEW replaced, AcceptSession(identity, replaced)
      PROVE  ServerTypeOK'
  BY <1>3, <1>4, <1>7, <1>9 DEF AcceptSession, JobKinds
<1>10. QED
  BY <1>1, <1>2, <1>5, <1>6, <1>8, <1>9 DEF AgentStep

-----------------------------------------------------------------------------
LEMMA SetType ==
  ASSUME TrackerTypeOK, NEW d \in Deliveries, NEW env \in Envelope,
         NEW state \in {"none", "received", "pending", "drained"}
  PROVE  Set(d, env, state) \in [Deliveries -> Entries]
  BY DEF TrackerTypeOK, Set, Entries

LEMMA DrainType ==
  ASSUME ProtocolTypeOK, TrackerTypeOK, NEW d \in Deliveries, NEW env \in Envelope,
         Drain(d, env)
  PROVE  tracked' \in [Deliveries -> Entries] /\ reports' \subseteq Reports
<1>1. Set(d, env, "drained") \in [Deliveries -> Entries]
  BY SetType
<1>2. Ack(d, env) \in Reports
  BY MessageTypes
<1>3. QED
  BY <1>1, <1>2 DEF Drain, ProtocolTypeOK, TrackerTypeOK

LEMMA RefuseType ==
  ASSUME ProtocolTypeOK, TrackerTypeOK, NEW d \in Deliveries, NEW env \in Envelope,
         NEW code \in TerminalCodes, Refuse(d, env, code)
  PROVE  tracked' \in [Deliveries -> Entries] /\ reports' \subseteq Reports
<1>1. tracked' \in [Deliveries -> Entries]
  BY NoneTypes DEF Refuse, TrackerTypeOK
<1>2. TerminalError(d, env, code) \in Reports
  BY MessageTypes
<1>3. QED
  BY <1>1, <1>2 DEF Refuse, ProtocolTypeOK

LEMMA MarkPendingType ==
  ASSUME ProtocolTypeOK, TrackerTypeOK, NEW d \in Deliveries, NEW env \in Envelope,
         MarkPending(d, env)
  PROVE  tracked' \in [Deliveries -> Entries] /\ reports' \subseteq Reports
  BY SetType DEF MarkPending, ProtocolTypeOK

LEMMA SettleTurnEndType ==
  ASSUME ProtocolTypeOK, TrackerTypeOK, NEW d \in Deliveries, SettleTurnEnd(d)
  PROVE  tracked' \in [Deliveries -> Entries] /\ reports' \subseteq Reports
<1>1. tracked[d].env \in Envelope /\ "DELIVERY_REJECTED" \in TerminalCodes
  BY DEF TrackerTypeOK, Entries, TerminalCodes
<1>2. QED
  BY <1>1, DrainType, RefuseType DEF SettleTurnEnd

(* The steps on one mention of a tracked push.                             *)
LEMMA ReceiveTrackedType ==
  ASSUME TypeOK, NEW m \in pushes, ReceiveTracked(m)
  PROVE  ProtocolTypeOK' /\ TrackerTypeOK'
<1> DEFINE d == m.delivery
           env == m.env
<1> USE DEF TypeOK
<1>1. d \in Deliveries /\ env \in Envelope
  BY DEF ProtocolTypeOK, Pushes
<1>2. {"IDENTITY_UNKNOWN", "IDENTITY_DRIFT", BlockedCode} \subseteq TerminalCodes
  BY DEF TerminalCodes, BlockedCode
<1>3. /\ tracked' \in [Deliveries -> Entries] /\ reports' \subseteq Reports
      /\ announcing' \subseteq Announcements /\ busy' \in BOOLEAN
  <2>1. CASE DeliverConsumed(d, env)
    BY <1>1, <2>1, DrainType DEF DeliverConsumed, TrackerTypeOK
  <2>2. CASE DeliverUnknown(d, env) \/ DeliverDrift(d, env) \/ DeliverBlocked(d, env)
    BY <1>1, <1>2, <2>2, RefuseType
       DEF DeliverUnknown, DeliverDrift, DeliverBlocked, TrackerTypeOK
  <2>3. CASE DeliverRepeat(d, env)
    BY <1>1, <2>3, MessageTypes DEF DeliverRepeat, TrackerTypeOK, ProtocolTypeOK, Entries
  <2>4. CASE DeliverTold(d, env)
    BY <1>1, <2>4, DrainType, MarkPendingType DEF DeliverTold, TrackerTypeOK
  <2>5. CASE DeliverAnnounce(d, env)
    BY <1>1, <2>5, SetType DEF DeliverAnnounce, TrackerTypeOK, ProtocolTypeOK, Announcements
  <2>6. QED
    BY <2>1, <2>2, <2>3, <2>4, <2>5 DEF ReceiveTracked
<1>4. pushes' \subseteq Pushes
  BY DEF ReceiveTracked, ProtocolTypeOK
<1>5. UNCHANGED <<process, hold, held, flushing, notified, consumed, settling, fallback,
                  redelivering, history>>
  BY DEF ReceiveTracked
<1>6. forgotten' \subseteq Deliveries \X Envelope
  <2>1. forgotten' = forgotten \cup Replaced(d, env)
    BY DEF ReceiveTracked
  <2>2. QED
    BY <1>1, <2>1, PairTypes DEF ProtocolTypeOK
<1>7. QED
  BY <1>3, <1>4, <1>5, <1>6 DEF ProtocolTypeOK, TrackerTypeOK, process, history

LEMMA ReceiveStepType ==
  ASSUME TypeOK, ReceiveStep
  PROVE  ProtocolTypeOK' /\ TrackerTypeOK'
<1> USE DEF TypeOK
<1>1. ASSUME NEW m \in pushes, NEW taken \in BOOLEAN,
             ReceiveUntracked(m, taken) \/ ReceiveExited(m)
      PROVE  ProtocolTypeOK' /\ TrackerTypeOK'
  <2>1. m.delivery \in Deliveries
    BY DEF ProtocolTypeOK, Pushes
  <2>2. reports' \subseteq Reports /\ pushes' \subseteq Pushes
    <3>1. Ack(m.delivery, NoIdentity) \in Reports
      BY <2>1, NoneTypes, MessageTypes
    <3>2. QED
      BY <1>1, <3>1 DEF ReceiveUntracked, ReceiveExited, ProtocolTypeOK
  <2>3. /\ busy' \in BOOLEAN /\ held' \subseteq Deliveries /\ notified' \subseteq Deliveries
        /\ accepted' \subseteq Deliveries /\ told' \subseteq Deliveries
    BY <1>1, <2>1 DEF ReceiveUntracked, ReceiveExited, TrackerTypeOK, Tell, history
  <2>4. UNCHANGED <<forgotten, process, hold, flushing, consumed, tracking, steered, doubted,
                    overtaken, silenced>>
    BY <1>1 DEF ReceiveUntracked, ReceiveExited, history
  <2>5. QED
    BY <2>2, <2>3, <2>4 DEF ProtocolTypeOK, TrackerTypeOK, process, tracking
<1>2. QED
  BY <1>1, ReceiveTrackedType DEF ReceiveStep

(* The sets of deliveries the tracker keeps.                               *)
LEMMA TrackerSets ==
  TrackerTypeOK =>
    /\ held \subseteq Deliveries /\ flushing \subseteq Deliveries
    /\ notified \subseteq Deliveries /\ consumed \subseteq Deliveries
    /\ settling \subseteq Deliveries /\ fallback \subseteq Deliveries
    /\ redelivering \subseteq Deliveries /\ accepted \subseteq Deliveries
    /\ told \subseteq Deliveries /\ steered \subseteq Deliveries
    /\ doubted \subseteq Deliveries /\ overtaken \subseteq Deliveries
    /\ silenced \subseteq Deliveries
  BY DEF TrackerTypeOK

LEMMA AnnounceType ==
  ASSUME TypeOK, AnnounceTold \/ AnnounceGone \/ AnnounceRejected
  PROVE  ProtocolTypeOK' /\ TrackerTypeOK'
<1> USE DEF TypeOK
<1>1. \A a \in announcing : a.delivery \in Deliveries /\ a.env \in Envelope
  BY DEF TrackerTypeOK, Announcements
<1>2. {"IDENTITY_DRIFT", "DELIVERY_REJECTED"} \subseteq TerminalCodes
  BY DEF TerminalCodes
<1>3. /\ UNCHANGED <<pushes, forgotten, process, busy, hold, held, flushing, consumed,
                     settling, fallback, redelivering, doubted, overtaken, silenced>>
      /\ announcing' = {}
  BY DEF AnnounceTold, AnnounceGone, AnnounceRejected, turn, history
<1>4. tracked' \in [Deliveries -> Entries] /\ reports' \subseteq Reports
  <2>1. CASE UNCHANGED <<tracked, reports>>
    BY <2>1 DEF TrackerTypeOK, ProtocolTypeOK
  <2>2. ASSUME NEW a \in announcing,
               \/ MarkPending(a.delivery, a.env) \/ Drain(a.delivery, a.env)
               \/ \E code \in TerminalCodes : Refuse(a.delivery, a.env, code)
        PROVE  tracked' \in [Deliveries -> Entries] /\ reports' \subseteq Reports
    BY <1>1, <2>2, MarkPendingType, DrainType, RefuseType
  <2>3. QED
    BY <1>2, <2>1, <2>2 DEF AnnounceTold, AnnounceGone, AnnounceRejected
<1>5. /\ notified' \subseteq Deliveries /\ accepted' \subseteq Deliveries
      /\ told' \subseteq Deliveries /\ steered' \subseteq Deliveries
  BY <1>1, TrackerSets DEF AnnounceTold, AnnounceGone, AnnounceRejected, turn, history
<1>6. QED
  BY <1>3, <1>4, <1>5 DEF ProtocolTypeOK, TrackerTypeOK, process

LEMMA TurnEndType ==
  ASSUME TypeOK, NEW success \in BOOLEAN, TurnEnd(success)
  PROVE  ProtocolTypeOK' /\ TrackerTypeOK'
<1> USE DEF TypeOK
<1>1. /\ hold' \in HoldReasons \cup {"none"} /\ busy' \in BOOLEAN
      /\ held' \subseteq Deliveries /\ flushing' \subseteq Deliveries
  BY TrackerSets DEF TurnEnd, TrackerTypeOK
<1>2. /\ fallback' = {} /\ steered' = {} /\ redelivering' \subseteq Deliveries
      /\ told' \subseteq Deliveries
  BY TrackerSets DEF TurnEnd
<1>3. /\ tracked' \in [Deliveries -> Entries] /\ reports' \subseteq Reports
      /\ settling' \subseteq Deliveries
  BY TrackerSets, SettleTurnEndType
     DEF TurnEnd, PendingAtTurnEnd, TrackerTypeOK, ProtocolTypeOK
<1>4. UNCHANGED <<pushes, forgotten, process, notified, consumed, announcing, accepted,
                  doubted, overtaken, silenced>>
  BY DEF TurnEnd
<1>5. QED
  BY <1>1, <1>2, <1>3, <1>4 DEF ProtocolTypeOK, TrackerTypeOK, process

LEMMA SettlingType ==
  ASSUME TypeOK, NEW d \in Deliveries,
         SettleNext(d) \/ \E taken \in BOOLEAN : RedeliverySettled(d, taken)
  PROVE  ProtocolTypeOK' /\ TrackerTypeOK'
<1> USE DEF TypeOK
<1>1. tracked[d].env \in Envelope /\ "DELIVERY_REJECTED" \in TerminalCodes
  BY DEF TrackerTypeOK, Entries, TerminalCodes
<1>2. tracked' \in [Deliveries -> Entries] /\ reports' \subseteq Reports
  <2>1. CASE UNCHANGED <<tracked, reports>>
    BY <2>1 DEF TrackerTypeOK, ProtocolTypeOK
  <2>2. CASE \/ SettleTurnEnd(d) \/ Drain(d, tracked[d].env)
             \/ Refuse(d, tracked[d].env, "DELIVERY_REJECTED")
    BY <1>1, <2>2, SettleTurnEndType, DrainType, RefuseType
  <2>3. QED
    BY <2>1, <2>2 DEF SettleNext, RedeliverySettled
<1>3. /\ settling' \subseteq Deliveries /\ redelivering' \subseteq Deliveries
      /\ accepted' \subseteq Deliveries /\ told' \subseteq Deliveries
      /\ overtaken' \subseteq Deliveries
  BY TrackerSets DEF SettleNext, RedeliverySettled
<1>4. UNCHANGED <<pushes, forgotten, process, turn, consumed, announcing, fallback, steered,
                  doubted, silenced>>
  BY DEF SettleNext, RedeliverySettled
<1>5. QED
  BY <1>2, <1>3, <1>4 DEF ProtocolTypeOK, TrackerTypeOK, process, turn

LEMMA TurnStepType ==
  ASSUME TypeOK, TurnStep
  PROVE  ProtocolTypeOK' /\ TrackerTypeOK'
<1> USE TrackerSets DEF TypeOK, ProtocolTypeOK, TrackerTypeOK, process, turn, tracking,
      history, channels
<1>1. CASE TurnStart
  BY <1>1 DEF TurnStart
<1>2. ASSUME NEW d \in Deliveries, NoticeUndelivered(d)
      PROVE  ProtocolTypeOK' /\ TrackerTypeOK'
  <2>1. tracked' \in [Deliveries -> Entries]
    BY <1>2 DEF NoticeUndelivered, Entries
  <2>2. QED
    BY <1>2, <2>1 DEF NoticeUndelivered
<1>3. ASSUME NEW d \in Deliveries, Consume(d)
      PROVE  ProtocolTypeOK' /\ TrackerTypeOK'
  BY <1>3 DEF Consume
<1>4. ASSUME NEW d \in Deliveries, Evict(d)
      PROVE  ProtocolTypeOK' /\ TrackerTypeOK'
  <2>1. tracked' \in [Deliveries -> Entries]
    BY <1>4, NoneTypes DEF Evict
  <2>2. forgotten' \subseteq Deliveries \X Envelope
    BY <1>4, PairTypes DEF Evict
  <2>3. QED
    BY <1>4, <2>1, <2>2 DEF Evict
<1>5. ASSUME NEW reason \in HoldReasons, SetHold(reason)
      PROVE  ProtocolTypeOK' /\ TrackerTypeOK'
  BY <1>5 DEF SetHold
<1>6. CASE ReleaseHold
  <2>1. /\ hold' \in HoldReasons \cup {"none"} /\ busy' \in BOOLEAN
        /\ held' \subseteq Deliveries /\ flushing' \subseteq Deliveries
    BY <1>6 DEF ReleaseHold, Running
  <2>2. QED
    BY <1>6, <2>1 DEF ReleaseHold
<1>7. ASSUME NEW taken \in BOOLEAN, FlushSettled(taken)
      PROVE  ProtocolTypeOK' /\ TrackerTypeOK'
  <2>1. /\ notified' \subseteq Deliveries /\ accepted' \subseteq Deliveries
        /\ told' \subseteq Deliveries /\ flushing' = {}
    BY <1>7 DEF FlushSettled, Tell
  <2>2. QED
    BY <1>7, <2>1 DEF FlushSettled
<1>8. QED
  BY <1>1, <1>2, <1>3, <1>4, <1>5, <1>6, <1>7, AnnounceType, TurnEndType, SettlingType
     DEF TurnStep

LEMMA RunningIdentityType == TrackerTypeOK /\ Running => proc \in Identity
  BY DEF TrackerTypeOK, Running, Envelope

LEMMA ProcessStepType ==
  ASSUME TypeOK, ProcessStep
  PROVE  ProtocolTypeOK' /\ TrackerTypeOK'
<1> USE TrackerSets, NoneTypes DEF TypeOK, ProtocolTypeOK, TrackerTypeOK, process, turn,
      tracking, history, channels
<1>1. ASSUME NEW identity \in Identity, NEW recovered \in SUBSET Deliveries,
             Launch(identity, recovered)
      PROVE  ProtocolTypeOK' /\ TrackerTypeOK'
  <2>1. proc' \in Envelope /\ busy' \in BOOLEAN
    BY <1>1, IdentityNotNone DEF Launch
  <2>2. /\ held' \subseteq Deliveries /\ flushing' \subseteq Deliveries
        /\ notified' \subseteq Deliveries /\ accepted' \subseteq Deliveries
        /\ told' \subseteq Deliveries /\ redelivering' \subseteq Deliveries
        /\ steered' = {} /\ fallback' = {}
    BY <1>1 DEF Launch
  <2>3. QED
    BY <1>1, <2>1, <2>2 DEF Launch
<1>2. ASSUME NEW launch \in 1..MaxLaunch, Rebind(launch)
      PROVE  ProtocolTypeOK' /\ TrackerTypeOK'
  <2>1. [proc EXCEPT !.launch = launch] \in Identity
    BY <1>2, RunningIdentityType DEF Rebind, Identity
  <2>2. QED
    BY <1>2, <2>1, IdentityNotNone DEF Rebind
<1>3. ASSUME NEW identity \in Identity, SessionReported(identity)
      PROVE  ProtocolTypeOK' /\ TrackerTypeOK'
  BY <1>3, IdentityNotNone DEF SessionReported
<1>4. ASSUME EndGeneration
      PROVE  /\ proc' \in Envelope /\ busy' \in BOOLEAN /\ notified' = {} /\ flushing' = {}
             /\ steered' = {}
  BY <1>4 DEF EndGeneration
<1>5. CASE ProcessExit
  <2>1. announcing' \subseteq Announcements
    BY <1>5 DEF ProcessExit, Announcements
  <2>2. UNCHANGED <<channels, reported, hold, held, consumed, tracked, settling,
                    fallback, redelivering, accepted, told, doubted, overtaken, silenced>>
    BY <1>5 DEF ProcessExit
  <2>3. EndGeneration
    BY <1>5 DEF ProcessExit
  <2>4. QED
    BY <1>4, <2>1, <2>2, <2>3
<1>6. CASE StopProcess
  <2>1. EndGeneration /\ hold' = "none" /\ held' = {} /\ fallback' = {}
    BY <1>6 DEF StopProcess
  <2>2. UNCHANGED <<channels, reported, consumed, tracked, announcing, settling,
                    redelivering, accepted, told, doubted, overtaken>>
    BY <1>6 DEF StopProcess
  <2>3. silenced' \subseteq Deliveries
    BY <1>6 DEF StopProcess
  <2>4. QED
    BY <1>4, <2>1, <2>2, <2>3
<1>7. CASE DaemonRestart
  <2>1. tracked' \in [Deliveries -> Entries]
    BY <1>7 DEF DaemonRestart
  <2>2. /\ EndGeneration /\ reported' \in Envelope /\ hold' = "none" /\ held' = {}
        /\ announcing' = {} /\ settling' = {} /\ fallback' = {} /\ redelivering' = {}
    BY <1>7 DEF DaemonRestart
  <2>3. UNCHANGED <<pushes, reports, consumed, accepted, told, doubted, overtaken, silenced>>
    BY <1>7 DEF DaemonRestart
  <2>4. forgotten' \subseteq Deliveries \X Envelope
    BY <1>7, PairTypes DEF DaemonRestart
  <2>5. QED
    BY <1>4, <2>1, <2>2, <2>3, <2>4
<1>8. QED
  BY <1>1, <1>2, <1>3, <1>5, <1>6, <1>7 DEF ProcessStep

LEMMA TrackerUnchangedType ==
  TrackerTypeOK /\ UNCHANGED trackerVars => TrackerTypeOK'
  BY DEF TrackerTypeOK, trackerVars, process, turn, tracking, history

LEMMA ServerUnchangedType ==
  ServerTypeOK /\ UNCHANGED serverVars => ServerTypeOK'
  BY DEF ServerTypeOK, serverVars, serverHistory

LEMMA ComponentTypes ==
  ASSUME TypeOK, Split
  PROVE  ProtocolTypeOK' /\ TrackerTypeOK' /\ ServerTypeOK'
<1>1. CASE (RowStep \/ AgentStep) /\ UNCHANGED trackerVars
  BY <1>1, RowStepType, AgentStepType, TrackerUnchangedType DEF TypeOK
<1>2. CASE (ReceiveStep \/ TurnStep \/ ProcessStep) /\ UNCHANGED serverVars
  BY <1>2, ReceiveStepType, TurnStepType, ProcessStepType, ServerUnchangedType DEF TypeOK
<1>3. CASE /\ LosePush \/ LoseReport \/ UNCHANGED channels
           /\ UNCHANGED <<serverVars, trackerVars>>
  <2>1. ProtocolTypeOK'
    BY <1>3, PairTypes DEF TypeOK, ProtocolTypeOK, LosePush, LoseReport, channels
  <2>2. UNCHANGED serverVars /\ UNCHANGED trackerVars
    BY <1>3
  <2>3. QED
    BY <2>1, <2>2, TrackerUnchangedType, ServerUnchangedType DEF TypeOK
<1>4. QED
  BY <1>1, <1>2, <1>3 DEF Split

-----------------------------------------------------------------------------
(* The link between the two sides.                                         *)
LEMMA ReportCallType ==
  ASSUME LinkTypeOK, NEW identity \in Identity, NEW replaced \in 0..MaxSession
  PROVE  Report(identity, replaced) \subseteq Calls
<1>1. ASSUME NEW c \in Calls, NEW again \in BOOLEAN
      PROVE  [c EXCEPT !.again = again] \in Calls
  BY <1>1 DEF Calls
<1>2. ASSUME NEW c \in calls
      PROVE  [c EXCEPT !.again = c.again \/ c.identity = identity] \in Calls
  <2>1. c \in Calls /\ (c.again \/ c.identity = identity) \in BOOLEAN
    BY DEF LinkTypeOK
  <2>2. QED
    BY <1>1, <2>1
<1>3. [identity |-> identity, replaced |-> replaced, served |-> FALSE, again |-> FALSE] \in Calls
  BY DEF Calls
<1>4. {[c EXCEPT !.again = c.again \/ c.identity = identity] : c \in calls} \subseteq Calls
  BY <1>2
<1>5. QED
  BY <1>3, <1>4 DEF Report, LinkTypeOK

LEMMA RepliedType ==
  ASSUME LinkTypeOK, NEW c \in calls
  PROVE  /\ Replied(c) \subseteq Calls /\ c.identity \in Identity
         /\ c.replaced \in 0..MaxSession /\ [c EXCEPT !.served = TRUE] \in Calls
<1>1. c \in Calls /\ 0 \in 0..MaxSession
  BY Bounds DEF LinkTypeOK
<1>2. [c EXCEPT !.replaced = 0, !.served = FALSE, !.again = FALSE] \in Calls
  BY <1>1 DEF Calls
<1>3. [c EXCEPT !.served = TRUE] \in Calls
  BY <1>1 DEF Calls
<1>4. QED
  BY <1>1, <1>2, <1>3 DEF Replied, LinkTypeOK, Calls

LEMMA CommandTypes ==
  /\ \A launch \in 1..MaxLaunch : [command |-> "start", launch |-> launch] \in Commands
  /\ \A command \in {"none", "stop", "restart", "stopped"} :
       [command |-> command, launch |-> 0] \in Commands
  /\ NoCommand \in Commands
  BY DEF Commands, NoCommand

LEMMA StartedCommandType ==
  ASSUME ServerTypeOK, Start
  PROVE  [command |-> "start", launch |-> minted + 1] \in Commands
<1>1. minted + 1 \in 1..MaxLaunch
  BY Bounds DEF Start, ServerTypeOK
<1>2. QED
  BY <1>1, CommandTypes

LEMMA LaunchingType ==
  ASSUME LinkTypeOK, NEW old \in 0..MaxSession, NEW launch \in 1..MaxLaunch,
         NEW session \in 1..MaxSession, NEW wake \in BOOLEAN,
         Launching(old, launch, session, wake)
  PROVE  launching' \subseteq Launches /\ calls' \subseteq Calls /\ sessions' \in 0..MaxSession
<1> DEFINE identity == [launch |-> launch, session |-> session]
<1>1. identity \in Identity
  BY DEF Identity
<1>2. launching' \subseteq Launches
  BY <1>1 DEF Launching, Launches
<1>3. calls' \subseteq Calls
  BY <1>1, ReportCallType DEF Launching, LinkTypeOK
<1>4. sessions' \in 0..MaxSession
  BY Bounds DEF Launching, Opened, LinkTypeOK
<1>5. QED
  BY <1>2, <1>3, <1>4

LEMMA CommandStepType ==
  ASSUME TypeOK, events' \in 0..MaxEvents,
         PersonStops \/ PersonStarts \/ PersonRestarts \/ AdvanceRestart \/ DaemonRebinds
           \/ DaemonReplaces \/ DaemonStops
  PROVE  LinkTypeOK'
<1> USE DEF TypeOK
<1>1. CASE PersonStops \/ PersonRestarts
  BY <1>1, CommandTypes DEF PersonStops, PersonRestarts, LinkTypeOK
<1>2. CASE PersonStarts \/ AdvanceRestart
  BY <1>2, StartedCommandType DEF PersonStarts, AdvanceRestart, LinkTypeOK
<1>3. CASE DaemonRebinds
  <2>1. control.launch \in 1..MaxLaunch
    BY <1>3 DEF DaemonRebinds, LinkTypeOK, Commands
  <2>2. proc' \in Identity
    BY <1>3, <2>1, RunningIdentityType DEF DaemonRebinds, Rebind, Identity
  <2>3. calls' \subseteq Calls
    <3>1. calls' = Report(proc', 0) /\ 0 \in 0..MaxSession
      BY <1>3, Bounds DEF DaemonRebinds
    <3>2. QED
      BY <2>2, <3>1, ReportCallType
  <2>4. QED
    BY <1>3, <2>2, <2>3, IdentityNotNone, CommandTypes DEF DaemonRebinds, LinkTypeOK
<1>4. CASE DaemonStops
  <2>1. control' \in Commands
    BY <1>4, CommandTypes DEF DaemonStops
  <2>2. QED
    BY <1>4, <2>1, NoneTypes DEF DaemonStops, LinkTypeOK
<1>5. CASE DaemonReplaces
  BY <1>5, NoneTypes DEF DaemonReplaces, LinkTypeOK
<1>6. QED
  BY <1>1, <1>2, <1>3, <1>4, <1>5

LEMMA LaunchStepType ==
  ASSUME TypeOK, events' \in 0..MaxEvents,
         \/ DaemonLaunches \/ DaemonWakes \/ LaunchFails
         \/ \E recovered \in SUBSET Deliveries : LaunchCompletes(recovered)
  PROVE  LinkTypeOK'
<1> USE DEF TypeOK
<1>1. CASE DaemonLaunches
  <2>1. control.launch \in 1..MaxLaunch /\ agent.session \in 0..MaxSession
    BY <1>1 DEF DaemonLaunches, LinkTypeOK, Commands, ServerTypeOK, Agents
  <2>2. launching' \subseteq Launches /\ calls' \subseteq Calls /\ sessions' \in 0..MaxSession
    BY <1>1, <2>1, LaunchingType DEF DaemonLaunches
  <2>3. QED
    BY <1>1, <2>2, CommandTypes DEF DaemonLaunches, LinkTypeOK
<1>2. CASE DaemonWakes
  <2>1. restart \in Identity
    BY <1>2 DEF DaemonWakes, LinkTypeOK, Envelope
  <2>2. restart.launch \in 1..MaxLaunch /\ restart.session \in 0..MaxSession
    BY <2>1 DEF Identity
  <2>3. launching' \subseteq Launches /\ calls' \subseteq Calls /\ sessions' \in 0..MaxSession
    BY <1>2, <2>2, LaunchingType DEF DaemonWakes
  <2>4. QED
    BY <1>2, <2>3 DEF DaemonWakes, LinkTypeOK
<1>3. CASE LaunchFails
  BY <1>3 DEF LaunchFails, LinkTypeOK
<1>4. ASSUME NEW recovered \in SUBSET Deliveries, LaunchCompletes(recovered)
      PROVE  LinkTypeOK'
  <2>1. PICK l \in launching :
          /\ restart' = l.identity /\ launching' = {} /\ managed' = ~l.wake
          /\ started' = IF l.wake THEN started ELSE started \cup {l.identity}
          /\ calls' = IF ReportsFirst THEN calls ELSE Report(l.identity, l.replaced)
          /\ UNCHANGED <<serverVars, control, sessions>>
    BY <1>4 DEF LaunchCompletes
  <2>2. l.identity \in Identity /\ l.replaced \in 0..MaxSession
    BY DEF LinkTypeOK, Launches
  <2>3. calls' \subseteq Calls
    BY <2>1, <2>2, ReportCallType DEF LinkTypeOK
  <2>4. QED
    BY <2>1, <2>2, <2>3, IdentityNotNone DEF LinkTypeOK
<1>5. QED
  BY <1>1, <1>2, <1>3, <1>4

LEMMA ReportStepType ==
  ASSUME TypeOK, events' \in 0..MaxEvents,
         StartedTaken \/ DaemonReportsAgain \/ SessionServed \/ SessionReplied
           \/ SessionReplyLost \/ DaemonCrashes
           \/ \E success \in BOOLEAN : DaemonTurnEnds(success)
  PROVE  LinkTypeOK'
<1> USE DEF TypeOK
<1>1. CASE StartedTaken
  BY <1>1 DEF StartedTaken, LinkTypeOK
<1>2. ASSUME Running
      PROVE  Report(proc, 0) \subseteq Calls
  BY <1>2, Bounds, RunningIdentityType, ReportCallType
<1>3. CASE DaemonReportsAgain
  BY <1>2, <1>3 DEF DaemonReportsAgain, LinkTypeOK
<1>4. ASSUME NEW success \in BOOLEAN, DaemonTurnEnds(success)
      PROVE  LinkTypeOK'
  BY <1>2, <1>4 DEF DaemonTurnEnds, TurnEnd, LinkTypeOK
<1>5. CASE SessionServed \/ SessionReplied \/ SessionReplyLost
  <2>1. calls' \subseteq Calls
    BY <1>5, RepliedType DEF SessionServed, SessionReplied, SessionReplyLost, LinkTypeOK
  <2>2. QED
    BY <1>5, <2>1 DEF SessionServed, SessionReplied, SessionReplyLost, LinkTypeOK
<1>6. CASE DaemonCrashes
  BY <1>6, NoneTypes DEF DaemonCrashes, LinkTypeOK
<1>7. QED
  BY <1>1, <1>3, <1>4, <1>5, <1>6

LEMMA LinkType ==
  ASSUME TypeOK, [Next]_vars
  PROVE  LinkTypeOK'
<1> USE DEF TypeOK
<1>1. events \in 0..MaxEvents
  BY DEF LinkTypeOK
<1>2. CASE UNCHANGED <<linkVars, events>>
  BY <1>2 DEF linkVars, LinkTypeOK
<1>3. CASE Step
  <2>1. CASE \/ Issues \/ StopSettles \/ (\E k \in JobKinds : JobRuns(k)) \/ ReportArrives
             \/ TrackedArrives \/ WakeArrives \/ AnnounceEnds \/ TurnStarts \/ Settling
             \/ Flushing
    BY <1>2, <2>1 DEF Issues, StopSettles, JobRuns, ReportArrives, TrackedArrives, WakeArrives,
         AnnounceEnds, TurnStarts, Settling, Flushing, ByServer, ByTracker
  <2>2. CASE Commanded
    BY <1>1, <2>2, CommandStepType DEF Commanded
  <2>3. CASE LaunchRuns
    BY <1>1, <2>3, LaunchStepType DEF LaunchRuns, ReportRefused
  <2>4. CASE ReportServed \/ ReplyArrives \/ TurnEnds
    BY <1>1, <2>4, ReportStepType DEF ReportServed, ReplyArrives, TurnEnds
  <2>5. QED
    BY <1>3, <2>1, <2>2, <2>3, <2>4 DEF Step
<1>4. ASSUME events < MaxEvents, events' = events + 1, NEW kind \in Events, Event(kind)
      PROVE  LinkTypeOK'
  <2>1. events' \in 0..MaxEvents
    BY <1>1, <1>4, EventsAssumption
  <2>2. CASE UNCHANGED linkVars
    BY <2>1, <2>2 DEF linkVars, LinkTypeOK
  <2>3. CASE LinkEvent(kind)
    <3>1. CASE PersonStops \/ PersonStarts \/ PersonRestarts
      BY <2>1, <3>1, CommandStepType
    <3>2. CASE LaunchFails \/ LaunchCompletes(Deliveries \ consumed)
      BY <2>1, <3>2, LaunchStepType
    <3>3. CASE DaemonTurnEnds(FALSE) \/ DaemonReportsAgain \/ DaemonCrashes \/ SessionReplyLost
      BY <2>1, <3>3, ReportStepType
    <3>4. QED
      BY <2>2, <2>3, <3>1, <3>2, <3>3 DEF LinkEvent, DaemonReady
  <2>4. QED
    BY <1>4, <2>2, <2>3 DEF Event
<1>5. QED
  BY <1>2, <1>3, <1>4 DEF Next, vars

LEMMA NextTypeOK == TypeOK /\ [Next]_vars => TypeOK'
  BY NextSplits, ComponentTypes, LinkType DEF TypeOK

(* Every variable stays in its type: a launch id the daemon is told is one *)
(* the server minted, a session one a provider created, and each report    *)
(* carries a code the server knows.                                        *)
THEOREM TypeCorrect == Spec => []TypeOK
<1>1. QED
  BY InitTypeOK, NextTypeOK, PTL DEF Spec

-----------------------------------------------------------------------------
(* The cloud's rows.                                                       *)

(* A reason belongs to a lost mention; a mention that still takes an ACK   *)
(* after it was lost is one a Stop settled.                                *)
ReasonMeansLost == \A d \in Deliveries :
  row[d].reason # "none" => row[d].outcome = "lost"
StopSettledMeansStopped == \A d \in Deliveries :
  StopSettled(row[d]) /\ row[d].env # NoIdentity => d \in stopped

RowInv == ReasonMeansLost /\ StopSettledMeansStopped /\ LostMeansRefused

LEMMA RowUnchangedInv ==
  ASSUME RowInv, UNCHANGED <<row, stopped, refused>>
  PROVE  RowInv' /\ FinalOutcomeStep
  BY DEF RowInv, ReasonMeansLost, StopSettledMeansStopped, LostMeansRefused, FinalOutcomeStep,
     StopSettled

(* What a step may make of a row.                                          *)
GoodRow(d, r) ==
  /\ r.reason # "none" => r.outcome = "lost"
  /\ StopSettled(r) /\ r.env # NoIdentity => d \in stopped'
  /\ r.reason \in {"runtime_error", "quota"} => <<d, r.env>> \in refused'
  /\ row[d].outcome = "delivered" => r.outcome = "delivered"
  /\ row[d].outcome = "lost" =>
       \/ r.outcome = "lost"
       \/ r.outcome = "delivered" /\ d \in stopped

LEMMA GoodRows ==
  ASSUME \A d \in Deliveries : GoodRow(d, row'[d])
  PROVE  RowInv' /\ FinalOutcomeStep
  BY DEF GoodRow, RowInv, ReasonMeansLost, StopSettledMeansStopped, LostMeansRefused,
     FinalOutcomeStep, StopSettled

LEMMA KeptRow ==
  ASSUME RowInv, NEW d \in Deliveries, stopped \subseteq stopped', refused \subseteq refused'
  PROVE  GoodRow(d, row[d])
  BY DEF GoodRow, RowInv, ReasonMeansLost, StopSettledMeansStopped, LostMeansRefused

LEMMA PendingRow ==
  ASSUME RowInv, NEW d \in Deliveries, NEW r \in Rows,
         row[d].outcome \in {"none", "pending", "unknown"}, r.reason = row[d].reason,
         r.outcome \in {"none", "pending", "unknown"}
  PROVE  GoodRow(d, r)
  BY DEF GoodRow, RowInv, ReasonMeansLost, StopSettled

LEMMA IssuedRow ==
  ASSUME TypeOK, RowInv, NEW d \in Deliveries, Issuable(row[d]) \/ Open(row[d]),
         NEW env \in Envelope, NEW code \in TerminalCodes \cup {"none"}
  PROVE  GoodRow(d, Issued(row[d], env, code))
<1>1. row[d] \in Rows
  BY DEF TypeOK, ServerTypeOK
<1>2. /\ Issued(row[d], env, code).reason = row[d].reason
      /\ Issued(row[d], env, code).outcome = "pending"
  BY <1>1 DEF Issued, Rows
<1>3. Issued(row[d], env, code) \in Rows
  BY <1>1, IssuedType
<1>4. QED
  BY <1>2, <1>3, PendingRow DEF Issuable, Open

LEMMA IssueInv ==
  ASSUME TypeOK, RowInv, NEW d \in Deliveries, Issue(d) \/ IssueFailed(d)
  PROVE  RowInv' /\ FinalOutcomeStep
<1>1. row \in [Deliveries -> Rows] /\ CurrentIdentity \in Envelope
  BY CurrentIdentityType DEF TypeOK, ServerTypeOK
<1>2. stopped' = stopped /\ refused' = refused
  BY DEF Issue, IssueFailed, serverHistory
<1>3. CASE row' = row
  BY <1>2, <1>3, RowUnchangedInv
<1>4. ASSUME NEW r, row' = [row EXCEPT ![d] = r], GoodRow(d, r)
      PROVE  RowInv' /\ FinalOutcomeStep
  BY <1>1, <1>2, <1>4, KeptRow, GoodRows
<1>5. CASE Issuable(row[d]) /\ row' = [row EXCEPT ![d] = Issued(row[d], CurrentIdentity, "none")]
  BY <1>1, <1>4, <1>5, IssuedRow
<1>6. CASE /\ Issuable(row[d])
           /\ row' = [row EXCEPT ![d] =
                NotLaunched([row[d] EXCEPT !.env = NoIdentity, !.code = "none"])]
  <2>1. GoodRow(d, NotLaunched([row[d] EXCEPT !.env = NoIdentity, !.code = "none"]))
    BY <1>1, <1>6 DEF GoodRow, NotLaunched, Issuable, Rows
  <2>2. QED
    BY <1>4, <1>6, <2>1
<1>7. CASE row[d].outcome = "pending" /\ row' = [row EXCEPT ![d].env = NoIdentity]
  <2>1. [row[d] EXCEPT !.env = NoIdentity] \in Rows
    BY <1>1, RowFieldTypes
  <2>2. GoodRow(d, [row[d] EXCEPT !.env = NoIdentity])
    BY <1>1, <1>7, <2>1, PendingRow DEF Rows
  <2>3. QED
    BY <1>4, <1>7, <2>2
<1>8. CASE Issue(d)
  BY <1>3, <1>5, <1>6, <1>8 DEF Issue
<1>9. CASE IssueFailed(d)
  BY <1>3, <1>7, <1>9 DEF IssueFailed
<1>10. QED
  BY <1>8, <1>9

LEMMA SettleStoppedInv ==
  ASSUME TypeOK, RowInv, NEW settled \in BOOLEAN, SettleStopped(settled)
  PROVE  RowInv' /\ FinalOutcomeStep
<1>1. refused' = refused /\ \A d \in Deliveries : row[d] \in Rows
  BY DEF SettleStopped, TypeOK, ServerTypeOK
<1>2. CASE UNCHANGED <<row, stopped>>
  BY <1>1, <1>2, RowUnchangedInv
<1>3. CASE /\ row' = [d \in Deliveries |->
                     IF row[d].outcome = "pending" THEN NotLaunched(row[d]) ELSE row[d]]
           /\ stopped' = stopped \cup {d \in Deliveries : row[d].outcome = "pending"}
  <2>1. ASSUME NEW d \in Deliveries, row[d].outcome = "pending"
        PROVE  GoodRow(d, NotLaunched(row[d]))
    BY <1>1, <1>3, <2>1 DEF GoodRow, NotLaunched, Rows
  <2>2. QED
    BY <1>1, <1>3, <2>1, KeptRow, GoodRows
<1>4. QED
  BY <1>2, <1>3 DEF SettleStopped

LEMMA JobInv ==
  ASSUME TypeOK, RowInv, NEW k \in JobKinds,
         JobWrite(k) \/ \E unsent \in SUBSET Selected(k) : JobSend(k, unsent)
  PROVE  RowInv' /\ FinalOutcomeStep
<1>1. /\ \A d \in Deliveries : row[d] \in Rows /\ row[d].code \in TerminalCodes \cup {"none"}
      /\ jobs[k].identity \in Envelope
  BY RowFieldTypes DEF TypeOK, ServerTypeOK, Jobs
<1>2. stopped' = stopped /\ refused' = refused
  BY DEF JobWrite, JobSend, serverHistory
<1>3. ASSUME NEW d \in Deliveries, NEW env, StillCarried(d, env)
      PROVE  Open(row[d])
  BY <1>3 DEF StillCarried, Open
<1>4. ASSUME NEW d \in Deliveries
      PROVE  GoodRow(d, row'[d])
  <2>1. CASE row'[d] = row[d]
    BY <1>2, <2>1, KeptRow
  <2>2. ASSUME NEW env \in Envelope, NEW code \in TerminalCodes \cup {"none"},
               Open(row[d]), row'[d] = Issued(row[d], env, code)
        PROVE  GoodRow(d, row'[d])
    BY <2>2, IssuedRow
  <2>3. CASE JobWrite(k)
    BY <1>1, <1>3, <2>1, <2>2, <2>3 DEF JobWrite
  <2>4. ASSUME NEW unsent, JobSend(k, unsent)
        PROVE  GoodRow(d, row'[d])
    BY <1>1, <1>3, <2>1, <2>2, <2>4, NoneTypes DEF JobSend
  <2>5. QED
    BY <2>3, <2>4
<1>5. QED
  BY <1>4, GoodRows

LEMMA ReceiveAckInv ==
  ASSUME TypeOK, RowInv, NEW m \in reports, NEW settled \in BOOLEAN, ReceiveAck(m, settled)
  PROVE  RowInv' /\ FinalOutcomeStep
<1> DEFINE d == m.delivery
<1>1. /\ row \in [Deliveries -> Rows] /\ d \in Deliveries
      /\ stopped' = stopped /\ refused' = refused
  BY DEF ReceiveAck, TypeOK, ServerTypeOK, ProtocolTypeOK, Reports
<1>2. ASSUME NEW r \in Rows, GoodRow(d, r)
      PROVE  GoodRow(d, [r EXCEPT !.received = TRUE])
  BY <1>2 DEF GoodRow, StopSettled, Rows
<1>3. GoodRow(d, row[d])
  BY <1>1, KeptRow
<1>4. GoodRow(d, AckSettled(row[d], m.env))
  <2>1. row[d] \in Rows
    BY <1>1
  <2>2. CASE m.env = NoIdentity /\ row[d].outcome = "pending" /\ row[d].env # NoIdentity
    <3>1. [row[d] EXCEPT !.outcome = "unknown"] \in Rows
      BY <2>1 DEF Rows, Outcomes
    <3>2. GoodRow(d, [row[d] EXCEPT !.outcome = "unknown"])
      BY <1>1, <2>1, <2>2, <3>1, PendingRow DEF Rows
    <3>3. QED
      BY <2>2, <3>2 DEF AckSettled
  <2>3. CASE m.env # NoIdentity /\ Carries(row[d], m.env) /\ (Open(row[d]) \/ StopSettled(row[d]))
    <3>1. row[d].env # NoIdentity
      BY <2>3 DEF Carries
    <3>2. StopSettled(row[d]) => d \in stopped
      BY <1>1, <3>1 DEF RowInv, StopSettledMeansStopped
    <3>3. GoodRow(d, [row[d] EXCEPT !.outcome = "delivered", !.reason = "none"])
      BY <1>1, <2>1, <2>3, <3>2 DEF GoodRow, Open, StopSettled, Rows
    <3>4. QED
      BY <2>3, <3>3 DEF AckSettled
  <2>4. CASE AckSettled(row[d], m.env) = row[d]
    BY <1>3, <2>4
  <2>5. QED
    BY <2>2, <2>3, <2>4 DEF AckSettled
<1>5. \E r : GoodRow(d, r) /\ row' = [row EXCEPT ![d] = r]
  <2>1. AckSettled(row[d], m.env) \in Rows
    BY <1>1, AckSettledType
  <2>2. CASE row' = [row EXCEPT ![d] = [AckSettled(row[d], m.env) EXCEPT !.received = TRUE]]
    BY <1>2, <1>4, <2>1, <2>2
  <2>3. CASE row' = [row EXCEPT ![d] = [row[d] EXCEPT !.received = TRUE]]
    BY <1>1, <1>2, <1>3, <2>3
  <2>4. QED
    BY <1>1, <2>2, <2>3 DEF ReceiveAck
<1>6. QED
  BY <1>1, <1>5, KeptRow, GoodRows

LEMMA LostRow ==
  ASSUME NEW d \in Deliveries, row[d] \in Rows, Open(row[d]),
         NEW reason \in {"not_launched", "runtime_error", "quota"}, NEW code \in TerminalCodes,
         reason # "not_launched" => <<d, row[d].env>> \in refused'
  PROVE  GoodRow(d, Settled(row[d], "lost", reason, code))
  BY DEF GoodRow, Settled, StopSettled, Open, Rows, TerminalCodes

LEMMA ReceiveErrorInv ==
  ASSUME TypeOK, RowInv, NEW m \in reports, NEW sent \in BOOLEAN, ReceiveError(m, sent)
  PROVE  RowInv' /\ FinalOutcomeStep
<1> DEFINE d == m.delivery
           r == row[d]
<1>1. /\ row \in [Deliveries -> Rows] /\ d \in Deliveries /\ r \in Rows
      /\ CurrentIdentity \in Envelope
  BY CurrentIdentityType DEF TypeOK, ServerTypeOK, ProtocolTypeOK, Reports
<1>2. stopped' = stopped /\ refused' = refused \cup {<<d, m.env>>}
  BY DEF ReceiveError
<1>3. CASE row' = row
  BY <1>1, <1>2, <1>3, KeptRow, GoodRows
<1>4. ASSUME NEW new, row' = [row EXCEPT ![d] = new], GoodRow(d, new)
      PROVE  RowInv' /\ FinalOutcomeStep
  BY <1>1, <1>2, <1>4, KeptRow, GoodRows
<1>5. ASSUME Open(r) /\ Carries(r, m.env), m.code \in {"IDENTITY_UNKNOWN", "IDENTITY_DRIFT"}
      PROVE  RowInv' /\ FinalOutcomeStep
  <2>1. GoodRow(d, Settled(r, "lost", "not_launched", m.code))
    BY <1>1, <1>5, LostRow DEF TerminalCodes
  <2>2. ASSUME NEW env \in Envelope
        PROVE  GoodRow(d, Issued(r, env, m.code))
    BY <1>1, <1>5, IssuedRow DEF TerminalCodes
  <2>3. \A target : target = (IF sent THEN DriftTarget(r, m.env) ELSE NoIdentity)
          => target \in Envelope
    BY <1>1, NoneTypes DEF DriftTarget
  <2>4. \E new : row' = [row EXCEPT ![d] = new] /\ GoodRow(d, new)
    BY <1>5, <2>1, <2>2, <2>3, NoneTypes DEF ReceiveError
  <2>5. QED
    BY <1>4, <2>4
<1>6. ASSUME Open(r) /\ Carries(r, m.env), m.code \in {"DELIVERY_REJECTED", "QUOTA_LIMITED"}
      PROVE  RowInv' /\ FinalOutcomeStep
  <2>1. <<d, r.env>> \in refused'
    BY <1>2, <1>6 DEF Carries
  <2>2. GoodRow(d, Settled(r, "lost", SettledByCode(m.code), m.code))
    BY <1>1, <1>6, <2>1, LostRow DEF TerminalCodes, SettledByCode
  <2>3. row' = [row EXCEPT ![d] = Settled(r, "lost", SettledByCode(m.code), m.code)]
    BY <1>6 DEF ReceiveError
  <2>4. QED
    BY <1>4, <2>2, <2>3
<1>7. QED
  BY <1>3, <1>5, <1>6 DEF ReceiveError

LEMMA RowStepInv ==
  ASSUME TypeOK, RowInv, RowStep
  PROVE  RowInv' /\ FinalOutcomeStep
  BY IssueInv, SettleStoppedInv, JobInv, ReceiveAckInv, ReceiveErrorInv DEF RowStep

LEMMA InitRowInv == Init => RowInv
  BY DEF Init, ServerInit, RowInv, ReasonMeansLost, StopSettledMeansStopped, LostMeansRefused,
     StopSettled

LEMMA NextRowInv ==
  ASSUME TypeOK, RowInv, [Next]_vars
  PROVE  RowInv' /\ FinalOutcomeStep
<1>1. CASE RowStep
  BY <1>1, RowStepInv
<1>2. CASE UNCHANGED <<row, stopped, refused>>
  BY <1>2, RowUnchangedInv
<1>3. AgentStep => UNCHANGED <<row, stopped, refused>>
  BY DEF AgentStep, Stop, Start, BeginRestart, Ready, JobRead, ReceiveStarted, AcceptSession,
     serverHistory
<1>4. UNCHANGED serverVars => UNCHANGED <<row, stopped, refused>>
  BY DEF serverVars, serverHistory
<1>5. QED
  BY <1>1, <1>2, <1>3, <1>4, NextSplits DEF Split

(* A mention is lost to a runtime error or a quota only by the daemon's    *)
(* refusal of the envelope its row still carries, however many launches,   *)
(* late reports and repeats there are (settleTerminal).                    *)
THEOREM LostRefused == Spec => []LostMeansRefused
<1>1. TypeOK /\ RowInv /\ [Next]_vars => RowInv'
  BY NextRowInv
<1>2. RowInv => LostMeansRefused
  BY DEF RowInv
<1>3. QED
  BY <1>1, <1>2, InitRowInv, TypeCorrect, PTL DEF Spec

(* No report, re-issue, Stop or replay takes back a settled outcome, except *)
(* an echoed ACK of a mention that a Stop settled (settleDrained, issue).  *)
THEOREM OutcomesFinal == Spec => FinalOutcome
<1>1. TypeOK /\ RowInv /\ [Next]_vars => RowInv'
  BY NextRowInv
<1>2. TypeOK /\ RowInv /\ [Next]_vars => [FinalOutcomeStep]_vars
  BY NextRowInv
<1>3. QED
  BY <1>1, <1>2, InitRowInv, TypeCorrect, PTL DEF Spec, FinalOutcome

-----------------------------------------------------------------------------
(* What a session accepted.                                                *)

(* What an ACK rests on: the mention was accepted by a session or read.    *)
Seen == accepted \cup consumed

TrackedAck(m) == m.kind = "ack" /\ m.env # NoIdentity

(* Only a mention seen is drained, and only its ACK names an envelope.     *)
DrainedMeansSeen == \A d \in Deliveries : tracked[d].state = "drained" => d \in Seen
AckMeansSeen == \A m \in reports : TrackedAck(m) => m.delivery \in Seen
NotifiedMeansAccepted == notified \subseteq accepted

SeenInv ==
  DrainedMeansSeen /\ AckMeansSeen /\ NotifiedMeansAccepted /\ DeliveredMeansAccepted

(* A step of the daemon that forgets nothing a session accepted.           *)
Grows == accepted \subseteq accepted' /\ consumed \subseteq consumed'
TrackerKeepsSeen == DrainedMeansSeen' /\ AckMeansSeen'

LEMMA SeenGrows == ASSUME Grows PROVE Seen \subseteq Seen'
  BY DEF Grows, Seen

LEMMA TrackerUnchanged ==
  ASSUME SeenInv, Grows, UNCHANGED tracked, \A m \in reports' : TrackedAck(m) => m \in reports
  PROVE  TrackerKeepsSeen
  BY SeenGrows DEF SeenInv, DrainedMeansSeen, AckMeansSeen, TrackerKeepsSeen, TrackedAck

LEMMA DrainSeen ==
  ASSUME TypeOK, SeenInv, Grows, NEW d \in Deliveries, NEW env, Drain(d, env), d \in Seen'
  PROVE  TrackerKeepsSeen
<1>1. tracked \in [Deliveries -> Entries]
  BY DEF TypeOK, TrackerTypeOK
<1>2. DrainedMeansSeen'
  BY <1>1, SeenGrows DEF SeenInv, DrainedMeansSeen, Drain, Set
<1>3. AckMeansSeen'
  BY SeenGrows DEF SeenInv, AckMeansSeen, TrackedAck, Drain, Ack
<1>4. QED
  BY <1>2, <1>3 DEF TrackerKeepsSeen

LEMMA RefuseSeen ==
  ASSUME TypeOK, SeenInv, Grows, NEW d \in Deliveries, NEW env, NEW code, Refuse(d, env, code)
  PROVE  TrackerKeepsSeen
<1>1. tracked \in [Deliveries -> Entries]
  BY DEF TypeOK, TrackerTypeOK
<1>2. DrainedMeansSeen'
  BY <1>1, SeenGrows DEF SeenInv, DrainedMeansSeen, Refuse, NoEntry
<1>3. AckMeansSeen'
  BY SeenGrows DEF SeenInv, AckMeansSeen, TrackedAck, Refuse, TerminalError
<1>4. QED
  BY <1>2, <1>3 DEF TrackerKeepsSeen

(* An entry changes to another state than drained, or stays as it was.     *)
LEMMA EntrySeen ==
  ASSUME TypeOK, SeenInv, Grows, NEW d \in Deliveries, NEW e,
         tracked' = [tracked EXCEPT ![d] = e],
         e.state = "drained" => tracked[d].state = "drained", UNCHANGED reports
  PROVE  TrackerKeepsSeen
<1>1. tracked \in [Deliveries -> Entries]
  BY DEF TypeOK, TrackerTypeOK
<1>2. DrainedMeansSeen'
  BY <1>1, SeenGrows DEF SeenInv, DrainedMeansSeen
<1>3. AckMeansSeen'
  BY SeenGrows DEF SeenInv, AckMeansSeen, TrackedAck
<1>4. QED
  BY <1>2, <1>3 DEF TrackerKeepsSeen

LEMMA ReceiveSeen ==
  ASSUME TypeOK, SeenInv, ReceiveStep
  PROVE  Grows /\ NotifiedMeansAccepted' /\ TrackerKeepsSeen
<1>1. PICK m \in pushes : \/ ReceiveTracked(m) \/ ReceiveExited(m)
                         \/ \E taken \in BOOLEAN : ReceiveUntracked(m, taken)
  BY DEF ReceiveStep
<1>2. m.delivery \in Deliveries /\ tracked \in [Deliveries -> Entries]
  BY DEF TypeOK, ProtocolTypeOK, Pushes, TrackerTypeOK
<1>3. CASE ReceiveTracked(m)
  <2> DEFINE d == m.delivery
  <2>1. Grows /\ NotifiedMeansAccepted' /\ Seen' = Seen
    BY <1>3 DEF ReceiveTracked, history, Grows, NotifiedMeansAccepted, SeenInv, Seen
  <2>2. CASE DeliverConsumed(d, m.env)
    BY <1>2, <2>1, <2>2, DrainSeen DEF DeliverConsumed, Seen
  <2>3. CASE DeliverUnknown(d, m.env) \/ DeliverDrift(d, m.env) \/ DeliverBlocked(d, m.env)
    BY <1>2, <2>1, <2>3, RefuseSeen DEF DeliverUnknown, DeliverDrift, DeliverBlocked
  <2>4. CASE DeliverRepeat(d, m.env)
    <3>1. CASE tracked[d].state = "drained"
      <4>1. d \in Seen
        BY <1>2, <3>1 DEF SeenInv, DrainedMeansSeen
      <4>2. DrainedMeansSeen'
        <5>1. \A e \in Deliveries \ {d} : tracked'[e] = tracked[e]
          BY <1>2, <2>4 DEF DeliverRepeat
        <5>2. QED
          BY <2>1, <4>1, <5>1 DEF SeenInv, DrainedMeansSeen
      <4>3. AckMeansSeen'
        BY <2>1, <2>4, <3>1, <4>1 DEF DeliverRepeat, SeenInv, AckMeansSeen, TrackedAck, Ack
      <4>4. QED
        BY <2>1, <4>2, <4>3 DEF TrackerKeepsSeen
    <3>2. CASE UNCHANGED <<tracked, reports>>
      BY <2>1, <3>2, TrackerUnchanged
    <3>3. QED
      BY <2>4, <3>1, <3>2 DEF DeliverRepeat
  <2>5. CASE DeliverTold(d, m.env)
    <3>1. d \in Seen'
      BY <2>1, <2>5 DEF DeliverTold, SeenInv, NotifiedMeansAccepted, Seen
    <3>2. CASE Drain(d, m.env)
      BY <1>2, <2>1, <3>1, <3>2, DrainSeen
    <3>3. CASE MarkPending(d, m.env)
      BY <1>2, <2>1, <3>3, EntrySeen DEF MarkPending, Set
    <3>4. QED
      BY <2>5, <3>2, <3>3 DEF DeliverTold
  <2>6. CASE DeliverAnnounce(d, m.env)
    BY <1>2, <2>1, <2>6, EntrySeen DEF DeliverAnnounce, Set
  <2>7. QED
    BY <1>3, <2>1, <2>2, <2>3, <2>4, <2>5, <2>6 DEF ReceiveTracked
<1>4. \A d, n : n = Ack(d, NoIdentity) => ~TrackedAck(n)
  BY DEF Ack, TrackedAck
<1>5. CASE ReceiveExited(m)
  <2>1. Grows /\ NotifiedMeansAccepted' /\ UNCHANGED tracked
    BY <1>5 DEF ReceiveExited, tracking, history, Grows, NotifiedMeansAccepted, SeenInv
  <2>2. \A n \in reports' : TrackedAck(n) => n \in reports
    BY <1>4, <1>5 DEF ReceiveExited
  <2>3. QED
    BY <2>1, <2>2, TrackerUnchanged
<1>6. ASSUME NEW taken \in BOOLEAN, ReceiveUntracked(m, taken)
      PROVE  Grows /\ NotifiedMeansAccepted' /\ TrackerKeepsSeen
  <2>1. Grows /\ NotifiedMeansAccepted' /\ UNCHANGED tracked
    BY <1>6 DEF ReceiveUntracked, Tell, tracking, Grows, NotifiedMeansAccepted, SeenInv
  <2>2. \A n \in reports' : TrackedAck(n) => n \in reports
    BY <1>4, <1>6 DEF ReceiveUntracked
  <2>3. QED
    BY <2>1, <2>2, TrackerUnchanged
<1>7. QED
  BY <1>1, <1>3, <1>5, <1>6

(* settleTurnEnd drains only what the generation was told or the Agent read. *)
LEMMA SettleTurnEndSeen ==
  ASSUME TypeOK, SeenInv, Grows, NEW d \in Deliveries, SettleTurnEnd(d)
  PROVE  TrackerKeepsSeen
<1>1. CASE d \in notified \cup consumed /\ Drain(d, tracked[d].env)
  <2>1. d \in Seen'
    BY <1>1, SeenGrows DEF SeenInv, NotifiedMeansAccepted, Seen
  <2>2. QED
    BY <1>1, <2>1, DrainSeen
<1>2. CASE Refuse(d, tracked[d].env, "DELIVERY_REJECTED")
  BY <1>2, RefuseSeen
<1>3. QED
  BY <1>1, <1>2 DEF SettleTurnEnd

LEMMA AnnounceSeen ==
  ASSUME TypeOK, SeenInv, AnnounceTold \/ AnnounceGone \/ AnnounceRejected
  PROVE  Grows /\ NotifiedMeansAccepted' /\ TrackerKeepsSeen
<1>1. Grows /\ NotifiedMeansAccepted'
  BY DEF AnnounceTold, AnnounceGone, AnnounceRejected, turn, history, Grows,
     NotifiedMeansAccepted, SeenInv
<1>2. tracked \in [Deliveries -> Entries] /\ \A a \in announcing : a.delivery \in Deliveries
  BY DEF TypeOK, TrackerTypeOK, Announcements
<1>3. CASE AnnounceTold
  <2>1. PICK a \in announcing :
          /\ accepted' = accepted \cup {a.delivery}
          /\ \/ UNCHANGED <<tracked, reports>>
             \/ MarkPending(a.delivery, a.env) \/ Drain(a.delivery, a.env)
    BY <1>3 DEF AnnounceTold
  <2>2. a.delivery \in Seen'
    BY <2>1 DEF Seen
  <2>3. CASE UNCHANGED <<tracked, reports>>
    BY <1>1, <2>3, TrackerUnchanged
  <2>4. CASE MarkPending(a.delivery, a.env)
    BY <1>1, <1>2, <2>4, EntrySeen DEF MarkPending, Set
  <2>5. CASE Drain(a.delivery, a.env)
    BY <1>1, <1>2, <2>2, <2>5, DrainSeen
  <2>6. QED
    BY <1>1, <2>1, <2>3, <2>4, <2>5
<1>4. CASE AnnounceGone \/ AnnounceRejected
  <2>1. \/ UNCHANGED <<tracked, reports>>
        \/ \E a \in announcing : \E code : Refuse(a.delivery, a.env, code)
    BY <1>4 DEF AnnounceGone, AnnounceRejected
  <2>2. QED
    BY <1>1, <1>2, <2>1, RefuseSeen, TrackerUnchanged
<1>5. QED
  BY <1>3, <1>4

LEMMA TurnEndSeen ==
  ASSUME TypeOK, SeenInv,
         (\E d \in Deliveries : SettleNext(d)) \/ (\E success \in BOOLEAN : TurnEnd(success))
  PROVE  Grows /\ NotifiedMeansAccepted' /\ TrackerKeepsSeen
<1>1. Grows /\ NotifiedMeansAccepted'
  BY DEF SettleNext, TurnEnd, turn, Grows, NotifiedMeansAccepted, SeenInv
<1>2. UNCHANGED <<tracked, reports>> \/ \E e \in Deliveries : SettleTurnEnd(e)
  BY DEF SettleNext, TurnEnd, PendingAtTurnEnd
<1>3. QED
  BY <1>1, <1>2, SettleTurnEndSeen, TrackerUnchanged

LEMMA RedeliverySeen ==
  ASSUME TypeOK, SeenInv, NEW d \in Deliveries, NEW taken \in BOOLEAN, RedeliverySettled(d, taken)
  PROVE  Grows /\ NotifiedMeansAccepted' /\ TrackerKeepsSeen
<1>1. Grows /\ NotifiedMeansAccepted'
  BY DEF RedeliverySettled, turn, Grows, NotifiedMeansAccepted, SeenInv
<1>2. taken => d \in Seen'
  BY DEF RedeliverySettled, Seen
<1>3. \/ UNCHANGED <<tracked, reports>>
      \/ taken /\ Drain(d, tracked[d].env)
      \/ Refuse(d, tracked[d].env, "DELIVERY_REJECTED")
  BY DEF RedeliverySettled
<1>4. QED
  BY <1>1, <1>2, <1>3, DrainSeen, RefuseSeen, TrackerUnchanged

LEMMA EntryStepSeen ==
  ASSUME TypeOK, SeenInv, NEW d \in Deliveries, NoticeUndelivered(d) \/ Evict(d)
  PROVE  Grows /\ NotifiedMeansAccepted' /\ TrackerKeepsSeen
<1>1. Grows /\ NotifiedMeansAccepted' /\ UNCHANGED reports
  BY DEF NoticeUndelivered, Evict, turn, history, channels, Grows, NotifiedMeansAccepted, SeenInv
<1>2. tracked \in [Deliveries -> Entries]
  BY DEF TypeOK, TrackerTypeOK
<1>3. \/ UNCHANGED tracked
      \/ tracked' = [tracked EXCEPT ![d] = [tracked[d] EXCEPT !.undelivered = TRUE]]
      \/ tracked' = [tracked EXCEPT ![d] = NoEntry]
  BY <1>2 DEF NoticeUndelivered, Evict
<1>4. /\ [tracked[d] EXCEPT !.undelivered = TRUE].state = tracked[d].state
      /\ NoEntry.state # "drained"
  BY <1>2 DEF Entries, NoEntry
<1>5. QED
  BY <1>1, <1>3, <1>4, EntrySeen, TrackerUnchanged

LEMMA TurnSeen ==
  ASSUME TypeOK, SeenInv, TurnStep
  PROVE  Grows /\ NotifiedMeansAccepted' /\ TrackerKeepsSeen
<1>1. CASE \/ TurnStart \/ ReleaseHold
           \/ (\E d \in Deliveries : Consume(d))
           \/ (\E reason \in HoldReasons : SetHold(reason))
           \/ (\E taken \in BOOLEAN : FlushSettled(taken))
  <2>1. Grows /\ NotifiedMeansAccepted' /\ UNCHANGED <<tracked, reports>>
    BY <1>1 DEF TurnStart, ReleaseHold, Consume, SetHold, FlushSettled, Tell, channels, turn,
       tracking, history, Grows, NotifiedMeansAccepted, SeenInv
  <2>2. QED
    BY <2>1, TrackerUnchanged
<1>2. QED
  BY <1>1, AnnounceSeen, TurnEndSeen, RedeliverySeen, EntryStepSeen DEF TurnStep

LEMMA ProcessSeen ==
  ASSUME TypeOK, SeenInv, ProcessStep
  PROVE  Grows /\ NotifiedMeansAccepted' /\ TrackerKeepsSeen
<1>1. Grows /\ NotifiedMeansAccepted' /\ UNCHANGED reports
  BY DEF ProcessStep, Launch, Rebind, SessionReported, ProcessExit, StopProcess, DaemonRestart,
     EndGeneration, channels, turn, history, Grows, NotifiedMeansAccepted, SeenInv
<1>2. CASE UNCHANGED tracked
  BY <1>1, <1>2, TrackerUnchanged
<1>3. CASE tracked' = [d \in Deliveries |-> NoEntry]
  <2>1. DrainedMeansSeen'
    BY <1>3 DEF DrainedMeansSeen, NoEntry
  <2>2. AckMeansSeen'
    BY <1>1, SeenGrows DEF SeenInv, AckMeansSeen, TrackedAck
  <2>3. QED
    BY <1>1, <2>1, <2>2 DEF TrackerKeepsSeen
<1>4. QED
  BY <1>2, <1>3 DEF ProcessStep, Launch, Rebind, SessionReported, ProcessExit, StopProcess,
     DaemonRestart, tracking

(* The cloud takes a mention for delivered only on an ACK's word.          *)
LEMMA RowSeen ==
  ASSUME TypeOK, RowStep, NEW d \in Deliveries, row'[d].outcome = "delivered"
  PROVE  \/ row[d].outcome = "delivered"
         \/ \E m \in reports : TrackedAck(m) /\ m.delivery = d
<1>1. row \in [Deliveries -> Rows]
  BY DEF TypeOK, ServerTypeOK
<1>2. \A env, code : Issued(row[d], env, code).outcome = "pending"
  BY <1>1 DEF Issued, Rows
<1>3. ASSUME NEW e \in Deliveries, Issue(e) \/ IssueFailed(e)
      PROVE  row[d].outcome = "delivered"
  BY <1>1, <1>3 DEF Issue, IssueFailed, Issued, NotLaunched, Issuable, Rows
<1>4. ASSUME NEW settled \in BOOLEAN, SettleStopped(settled)
      PROVE  row[d].outcome = "delivered"
  <2>1. NotLaunched(row[d]).outcome = "lost"
    BY <1>1 DEF NotLaunched, Rows
  <2>2. row'[d] \in {row[d], NotLaunched(row[d])}
    BY <1>4 DEF SettleStopped
  <2>3. QED
    BY <2>1, <2>2
<1>5. ASSUME NEW k \in JobKinds,
             JobWrite(k) \/ \E unsent \in SUBSET Selected(k) : JobSend(k, unsent)
      PROVE  row[d].outcome = "delivered"
  <2>1. \/ row'[d] = row[d]
        \/ \E env \in {jobs[k].identity, NoIdentity}, code \in {"none", row[d].code} :
             row'[d] = Issued(row[d], env, code)
    BY <1>5 DEF JobWrite, JobSend
  <2>2. QED
    BY <1>2, <2>1
<1>6. ASSUME NEW m \in reports, NEW settled \in BOOLEAN, ReceiveAck(m, settled)
      PROVE  row[d].outcome = "delivered" \/ (TrackedAck(m) /\ m.delivery = d)
  <2>1. AckSettled(row[m.delivery], m.env) \in Rows \/ m.delivery \notin Deliveries
    BY <1>1, AckSettledType
  <2>2. CASE d # m.delivery
    <3>1. row'[d] = row[d]
      BY <1>1, <1>6, <2>2 DEF ReceiveAck
    <3>2. QED
      BY <3>1
  <2>3. CASE d = m.delivery
    <3>1. row'[d].outcome \in {row[d].outcome, AckSettled(row[d], m.env).outcome}
      BY <1>1, <1>6, <2>1, <2>3 DEF ReceiveAck, Rows
    <3>2. m.env = NoIdentity => AckSettled(row[d], m.env).outcome \in {"unknown", row[d].outcome}
      BY <1>1 DEF AckSettled, Rows
    <3>3. m.kind = "ack"
      BY <1>6 DEF ReceiveAck
    <3>4. QED
      BY <2>3, <3>1, <3>2, <3>3 DEF TrackedAck
  <2>4. QED
    BY <2>2, <2>3
<1>7. ASSUME NEW m \in reports, NEW sent \in BOOLEAN, ReceiveError(m, sent)
      PROVE  row[d].outcome = "delivered"
  <2>1. \A reason, code : Settled(row[m.delivery], "lost", reason, code).outcome = "lost"
                          \/ m.delivery # d
    BY <1>1 DEF Settled, Rows
  <2>2. QED
    BY <1>1, <1>2, <1>7, <2>1 DEF ReceiveError
<1>8. QED
  BY <1>3, <1>4, <1>5, <1>6, <1>7 DEF RowStep

LEMMA InitSeenInv == Init => SeenInv
  BY DEF Init, ServerInit, TrackerInit, SeenInv, DrainedMeansSeen, AckMeansSeen,
     NotifiedMeansAccepted, DeliveredMeansAccepted, NoEntry

LEMMA NextSeenInv ==
  ASSUME TypeOK, SeenInv, [Next]_vars
  PROVE  SeenInv'
<1>1. CASE (ReceiveStep \/ TurnStep \/ ProcessStep) /\ UNCHANGED serverVars
  <2>1. Grows /\ NotifiedMeansAccepted' /\ TrackerKeepsSeen
    BY <1>1, ReceiveSeen, TurnSeen, ProcessSeen
  <2>2. DeliveredMeansAccepted'
    BY <1>1, <2>1 DEF serverVars, SeenInv, DeliveredMeansAccepted, Grows
  <2>3. QED
    BY <2>1, <2>2 DEF SeenInv, TrackerKeepsSeen
<1>2. CASE UNCHANGED trackerVars /\ (RowStep \/ UNCHANGED row) /\ reports' \subseteq reports
  <2>1. UNCHANGED <<tracked, notified, accepted, consumed>>
    BY <1>2 DEF trackerVars, turn, tracking, history
  <2>2. DeliveredMeansAccepted'
    BY <1>2, <2>1, RowSeen DEF SeenInv, DeliveredMeansAccepted, AckMeansSeen, Seen
  <2>3. QED
    BY <1>2, <2>1, <2>2 DEF SeenInv, DrainedMeansSeen, AckMeansSeen, TrackedAck,
       NotifiedMeansAccepted, Seen
<1>3. RowStep => reports' \subseteq reports
  BY DEF RowStep, Issue, IssueFailed, SettleStopped, JobWrite, JobSend, ReceiveAck, ReceiveError,
     channels
<1>4. AgentStep => UNCHANGED row /\ UNCHANGED reports
  BY DEF AgentStep, Stop, Start, BeginRestart, Ready, JobRead, ReceiveStarted, AcceptSession,
     channels
<1>5. (LosePush \/ LoseReport \/ UNCHANGED channels) => reports' \subseteq reports
  BY DEF LosePush, LoseReport, channels
<1>6. UNCHANGED serverVars => UNCHANGED row
  BY DEF serverVars
<1>7. QED
  BY <1>1, <1>2, <1>3, <1>4, <1>5, <1>6, NextSplits DEF Split

(* A mention the cloud shows as delivered was accepted by a session or read *)
(* by the Agent, whatever is lost, repeated or overtaken (settleDrained    *)
(* takes only an ACK that echoes an envelope, and the tracker echoes one   *)
(* only for what it drained).                                              *)
THEOREM DeliveredAccepted == Spec => []DeliveredMeansAccepted
<1>1. TypeOK /\ SeenInv /\ [Next]_vars => SeenInv'
  BY NextSeenInv
<1>2. SeenInv => DeliveredMeansAccepted
  BY DEF SeenInv
<1>3. QED
  BY <1>1, <1>2, InitSeenInv, TypeCorrect, PTL DEF Spec
==============================================================================
