---------------------------- MODULE MentionServer ----------------------------
(***************************************************************************)
(* The cloud's side of tracked @mention delivery for one Agent             *)
(* (mention-deliveries.server.ts and its repository): what a send, a       *)
(* person's Stop, an accepted session, a ready daemon and each daemon      *)
(* report do to the delivery rows.  An action is one database transaction, *)
(* or one statement; a re-issue reads, writes and sends in three of them.  *)
(***************************************************************************)
EXTENDS MentionProtocol, FiniteSets

VARIABLES
  row,        \* the tracked columns of agent_message_deliveries
  agent,      \* stoppedAt, the launch and session of its fence, currentSession
  stopping,   \* a Stop is recorded and has yet to settle the pending mentions
  jobs,       \* the re-issues under way
  minted,     \* launch ids minted so far
  stopped,    \* history: mentions a Stop settled
  echoed,     \* history: mentions whose row's own envelope an ACK echoed
  refused     \* history: the <<delivery, envelope>> pairs the daemon refused

serverHistory == <<stopped, echoed, refused>>
serverVars == <<row, agent, stopping, jobs, minted, serverHistory>>

Outcomes == {"none", "pending", "unknown", "delivered", "lost"}
Reasons == {"none", "not_launched", "runtime_error", "quota"}
Rows == [outcome : Outcomes, reason : Reasons, env : Envelope,
         code : TerminalCodes \cup {"none"}, received : BOOLEAN]
Agents == [stopped : BOOLEAN, launch : 0..MaxLaunch,
           session : 0..MaxSession, fence : 0..MaxSession]
JobKinds == {"session", "started", "ready"}
Jobs == [phase : {"idle", "read", "write", "send"}, identity : Envelope,
         mentions : SUBSET Deliveries, carried : [Deliveries -> Envelope],
         reissued : SUBSET Deliveries, taken : SUBSET Deliveries]

NoJob == [phase |-> "idle", identity |-> NoIdentity, mentions |-> {},
          carried |-> [d \in Deliveries |-> NoIdentity],
          reissued |-> {}, taken |-> {}]

(* The deliveries are committed and not yet issued; the Agent has never    *)
(* been launched.                                                          *)
ServerInit ==
  /\ row = [d \in Deliveries |-> [outcome |-> "none", reason |-> "none",
              env |-> NoIdentity, code |-> "none", received |-> FALSE]]
  /\ agent = [stopped |-> FALSE, launch |-> 0, session |-> 0, fence |-> 0]
  /\ stopping = FALSE
  /\ jobs = [k \in JobKinds |-> NoJob]
  /\ minted = 0
  /\ stopped = {} /\ echoed = {} /\ refused = {}

-----------------------------------------------------------------------------
Wakeable == ~agent.stopped

CurrentIdentity ==
  IF Wakeable /\ agent.launch # 0 /\ agent.session # 0
  THEN [launch |-> agent.launch, session |-> agent.session] ELSE NoIdentity

(* OPEN_WHERE, ISSUABLE_WHERE and STOP_SETTLED_WHERE.                      *)
Open(r) == r.outcome \in {"pending", "unknown"}

(* Mutant of Issuable: a replayed send issues a settled mention again.     *)
IssuableAlways(r) == r.outcome \in Outcomes

Issuable(r) == r.outcome \in {"none", "pending"}
StopSettled(r) ==
  r.outcome = "lost" /\ r.reason = "not_launched" /\ r.code = "none"

(* Mutant of Carries: any report that names an envelope fits a tracked row. *)
CarriesSome(r, env) == r.env # NoIdentity /\ env # NoIdentity

(* reportedRowWhere: the row still carries the report's envelope.          *)
Carries(r, env) == r.env # NoIdentity /\ r.env = env

(* setEnvelopes and notLaunched, on one row.                               *)
Issued(r, env, code) == [r EXCEPT !.outcome = "pending", !.env = env, !.code = code]
NotLaunched(r) == [r EXCEPT !.outcome = "lost", !.reason = "not_launched"]
Settled(r, outcome, reason, code) ==
  [r EXCEPT !.outcome = outcome, !.reason = reason, !.code = code]

(* MentionDeliveryIssuer.issue and the push that follows.  A replayed send *)
(* issues a pending mention again and leaves a settled one alone.          *)
Issue(d) ==
  /\ IF ~Issuable(row[d])
     THEN UNCHANGED row /\ Publish({Push(d, NoIdentity)})
     ELSE /\ Publish({Push(d, CurrentIdentity)})
          /\ row' = [row EXCEPT ![d] =
               IF Wakeable THEN Issued(@, CurrentIdentity, "none")
               ELSE NotLaunched([@ EXCEPT !.env = NoIdentity, !.code = "none"])]
  /\ UNCHANGED <<reports, agent, stopping, jobs, minted, serverHistory>>

(* The issue failed: the push goes out untracked, and clearEnvelopes (which *)
(* may fail as well) leaves no pending row naming an envelope.             *)
IssueFailed(d) ==
  /\ Publish({Push(d, NoIdentity)})
  /\ \/ /\ row[d].outcome = "pending"
        /\ row' = [row EXCEPT ![d].env = NoIdentity]
     \/ UNCHANGED row
  /\ UNCHANGED <<reports, agent, stopping, jobs, minted, serverHistory>>

-----------------------------------------------------------------------------
(* The Agent's control operations and sessions, as far as mentions go.     *)

(* The Agent's runtime lock, which a Stop holds until it has settled the   *)
(* pending mentions and a ready's recovery until it has sent.              *)
LockFree == ~stopping /\ jobs["ready"].phase = "idle"

(* begin(stop): the new request drops the launch fence.                    *)
Stop ==
  /\ LockFree
  /\ agent' = [agent EXCEPT !.stopped = TRUE, !.launch = 0, !.fence = 0]
  /\ stopping' = TRUE
  /\ UNCHANGED <<channels, row, jobs, minted, serverHistory>>

(* settleStoppedMentions, awaited under the Agent's runtime lock; a        *)
(* failure is only logged.                                                 *)
SettleStopped(settled) ==
  /\ stopping
  /\ stopping' = FALSE
  /\ IF settled
     THEN /\ row' = [d \in Deliveries |->
                       IF row[d].outcome = "pending" THEN NotLaunched(row[d]) ELSE row[d]]
          /\ stopped' = stopped \cup {d \in Deliveries : row[d].outcome = "pending"}
     ELSE UNCHANGED <<row, stopped>>
  /\ UNCHANGED <<channels, agent, jobs, minted, echoed, refused>>

(* begin(start) and prepare: the minted launch is in the fence before the  *)
(* daemon reports, beside the session of an earlier launch.                *)
Start ==
  /\ LockFree /\ minted < MaxLaunch
  /\ minted' = minted + 1
  /\ agent' = [agent EXCEPT !.stopped = FALSE, !.launch = minted + 1, !.fence = 0]
  /\ UNCHANGED <<channels, row, stopping, jobs, serverHistory>>

(* begin(restart): no launch until the daemon has stopped the old process. *)
BeginRestart ==
  /\ LockFree /\ minted < MaxLaunch
  /\ agent' = [agent EXCEPT !.stopped = FALSE, !.launch = 0, !.fence = 0]
  /\ UNCHANGED <<channels, row, stopping, jobs, minted, serverHistory>>

(* AgentSessions.verify and accept: a report for the fenced launch, whose  *)
(* session the fence does not contradict, then the re-issue it awaits.     *)
SessionFits(identity, replaced) ==
  /\ agent.launch = identity.launch
  /\ agent.fence \in {0, identity.session, replaced}

AcceptSession(identity, replaced) ==
  /\ SessionFits(identity, replaced)
  /\ jobs["session"].phase = "idle"
  /\ agent' = [agent EXCEPT !.session = identity.session, !.fence = identity.session]
  /\ jobs' = [jobs EXCEPT !["session"] = [NoJob EXCEPT !.phase = "read"]]
  /\ UNCHANGED <<channels, row, stopping, minted, serverHistory>>

(* result(started): a launch that started with its session binds it as an  *)
(* accepted report does; its reply does not wait for the re-issue.         *)
ReceiveStarted(identity) ==
  /\ agent.launch = identity.launch /\ agent.fence \in {0, identity.session}
  /\ jobs["started"].phase = "idle"
  /\ agent' = [agent EXCEPT !.session = identity.session, !.fence = identity.session]
  /\ jobs' = [jobs EXCEPT !["started"] = [NoJob EXCEPT !.phase = "read"]]
  /\ UNCHANGED <<channels, row, stopping, minted, serverHistory>>

(* WorkspaceAgentRecovery: the daemon is ready with the Agent running.     *)
Ready ==
  /\ LockFree /\ Wakeable
  /\ jobs' = [jobs EXCEPT !["ready"] = [NoJob EXCEPT !.phase = "read"]]
  /\ UNCHANGED <<channels, row, agent, stopping, minted, serverHistory>>

-----------------------------------------------------------------------------
(* reissuePending and sendTracked, for one kind of job.                    *)

(* Mutant of Stale: a mention whose envelope was cleared is not stale.     *)
StaleEnvelopes(mentions, identity) ==
  {d \in mentions : row[d].env \notin {NoIdentity, identity}}

Stale(mentions, identity) == {d \in mentions : row[d].env # identity}

(* With nothing to issue again, a `session` or `started` job ends here.    *)
JobRead(k) ==
  LET mentions == {d \in Deliveries : Wakeable /\ row[d].outcome = "pending"} IN
  /\ jobs[k].phase = "read"
  /\ jobs' = [jobs EXCEPT ![k] =
       IF k # "ready" /\ Stale(mentions, CurrentIdentity) = {} THEN NoJob
       ELSE [NoJob EXCEPT
               !.phase = "write",
               !.identity = CurrentIdentity,
               !.mentions = mentions,
               !.carried = [d \in Deliveries |->
                              IF d \in mentions THEN row[d].env ELSE NoIdentity]]]
  /\ UNCHANGED <<channels, row, agent, stopping, minted, serverHistory>>

(* STILL_CARRIED_SQL and WAKEABLE_AGENT_SQL.                               *)
StillCarried(d, env) == Wakeable /\ row[d].outcome = "pending" /\ row[d].env = env

JobWrite(k) ==
  LET j == jobs[k]
      stale == {d \in j.mentions : j.carried[d] # j.identity}
      issued == {d \in stale : StillCarried(d, j.carried[d])}
  IN /\ j.phase = "write"
     /\ row' = [d \in Deliveries |->
          IF d \in issued
          THEN Issued(row[d], j.identity,
                      IF j.identity # NoIdentity THEN "none" ELSE row[d].code)
          ELSE row[d]]
     /\ jobs' = [jobs EXCEPT ![k] =
          IF k # "ready" /\ (issued = {} \/ j.identity = NoIdentity) THEN NoJob
          ELSE [NoJob EXCEPT
                  !.phase = "send",
                  !.identity = j.identity,
                  !.mentions = j.mentions \ (stale \ issued),
                  !.reissued = IF j.identity # NoIdentity THEN issued ELSE {},
                  !.taken = stale \ issued]]
     /\ UNCHANGED <<channels, agent, stopping, minted, serverHistory>>

(* The deliveries a job sends: the ones it re-issued and, once the daemon  *)
(* is ready, every one it has not received.                                *)
Selected(k) ==
  (jobs[k].reissued
     \cup (IF k = "ready" THEN {d \in Deliveries : ~row[d].received} ELSE {}))
    \ jobs[k].taken

(* An envelope that did not go out is cleared again, unless a Stop has     *)
(* come in between.                                                        *)
JobSend(k, unsent) ==
  LET j == jobs[k]
      sent == {Push(d, IF d \in j.mentions THEN j.identity ELSE NoIdentity) :
                 d \in Selected(k) \ unsent}
      cleared == {d \in unsent \cap j.mentions : StillCarried(d, j.identity)}
  IN /\ j.phase = "send"
     /\ unsent \subseteq Selected(k)
     /\ pushes' = pushes \cup sent
     /\ forgotten' = (forgotten \ {Pair(m) : m \in sent})
          \cup {<<d, j.identity>> : d \in (unsent \cap j.mentions) \ cleared}
     /\ row' = [d \in Deliveries |->
          IF d \in cleared THEN Issued(row[d], NoIdentity, row[d].code) ELSE row[d]]
     /\ jobs' = [jobs EXCEPT ![k] = NoJob]
     /\ UNCHANGED <<reports, agent, stopping, minted, serverHistory>>

-----------------------------------------------------------------------------
(* The daemon's reports.                                                   *)

(* Mutant of AckSettled: an ACK settles the mention whatever it echoes.    *)
AckSettledUnechoed(r, env) ==
  IF Open(r) THEN [r EXCEPT !.outcome = "delivered", !.reason = "none"] ELSE r

(* settleDrained and settleUnechoed.                                       *)
AckSettled(r, env) ==
  IF env = NoIdentity
  THEN IF r.outcome = "pending" /\ r.env # NoIdentity
       THEN [r EXCEPT !.outcome = "unknown"] ELSE r
  ELSE IF Carries(r, env) /\ (Open(r) \/ StopSettled(r))
       THEN [r EXCEPT !.outcome = "delivered", !.reason = "none"] ELSE r

(* receiveDeliveryAck: the ACK is recorded; settling may fail, logged.     *)
ReceiveAck(m, settled) ==
  LET d == m.delivery IN
  /\ m \in reports /\ m.kind = "ack"
  /\ reports' = reports \ {m}
  /\ IF settled
     THEN /\ row' = [row EXCEPT ![d] = [AckSettled(@, m.env) EXCEPT !.received = TRUE]]
          /\ echoed' = IF Carries(row[d], m.env) THEN echoed \cup {d} ELSE echoed
          /\ UNCHANGED forgotten
     ELSE /\ row' = [row EXCEPT ![d].received = TRUE]
          /\ forgotten' = forgotten \cup {Pair(m)}
          /\ UNCHANGED echoed
  /\ UNCHANGED <<pushes, agent, stopping, jobs, minted, stopped, refused>>

(* SETTLED_BY_CODE.                                                        *)
SettledByCode(code) == IF code = "QUOTA_LIMITED" THEN "quota" ELSE "runtime_error"

(* answerDrift: the mention goes to the newer launch the server knows, once *)
(* per launch it reached.                                                  *)
DriftTarget(r, env) ==
  IF CurrentIdentity # env /\ r.code # "IDENTITY_DRIFT"
  THEN CurrentIdentity ELSE NoIdentity

(* receiveTerminalError: wakeWithoutEnvelope, answerDrift, settleTerminal. *)
(* `sent` is whether the push an answer calls for could be published; the  *)
(* envelope of one that could not is cleared.                              *)
ReceiveError(m, sent) ==
  LET d == m.delivery
      r == row[d]
      set(new) == row' = [row EXCEPT ![d] = new]
  IN /\ m \in reports /\ m.kind = "error"
     /\ reports' = reports \ {m}
     /\ refused' = refused \cup {<<d, m.env>>}
     /\ \/ /\ ~(Open(r) /\ Carries(r, m.env))
           /\ UNCHANGED <<row, pushes, forgotten>>
        \/ /\ Open(r) /\ Carries(r, m.env)
           /\ \/ /\ m.code \in {"IDENTITY_UNKNOWN", "IDENTITY_DRIFT"} /\ ~Wakeable
                 /\ set(Settled(r, "lost", "not_launched", m.code))
                 /\ UNCHANGED <<pushes, forgotten>>
              \/ /\ m.code = "IDENTITY_UNKNOWN" /\ Wakeable
                 /\ set(Issued(r, NoIdentity, m.code))
                 /\ Publish(IF sent THEN {Push(d, NoIdentity)} ELSE {})
              \/ /\ m.code = "IDENTITY_DRIFT" /\ Wakeable
                 /\ LET target == IF sent THEN DriftTarget(r, m.env) ELSE NoIdentity IN
                    /\ set(Issued(r, target, m.code))
                    /\ Publish(IF target # NoIdentity THEN {Push(d, target)} ELSE {})
              \/ /\ m.code \in {"DELIVERY_REJECTED", "QUOTA_LIMITED"}
                 /\ set(Settled(r, "lost", SettledByCode(m.code), m.code))
                 /\ UNCHANGED <<pushes, forgotten>>
     /\ UNCHANGED <<agent, stopping, jobs, minted, stopped, echoed>>

ServerTypeOK ==
  /\ row \in [Deliveries -> Rows] /\ agent \in Agents
  /\ stopping \in BOOLEAN /\ jobs \in [JobKinds -> Jobs] /\ minted \in 0..MaxLaunch
  /\ stopped \subseteq Deliveries /\ echoed \subseteq Deliveries
  /\ refused \subseteq Deliveries \X Envelope
==============================================================================
