------------------------------ MODULE AgentSend ------------------------------
(***************************************************************************)
(* An Agent's `message send` to one target, end to end: the daemon's draft *)
(* and local hold (runtime.ts #sendAgentMessage), the settling of an       *)
(* ambiguous answer (agent-send-settlement.ts), the cloud's freshness plan *)
(* (agent-messages.server.ts) and the Redis claim around the persistence   *)
(* of the message (redis-message-request-idempotency.server.ts).           *)
(*                                                                         *)
(* A call is one CLI invocation; a fresh send's idempotency key is its     *)
(* call, a resent draft keeps the key it was saved with.  Other people's   *)
(* messages in the target are counted: the newest one is what a boundary   *)
(* is compared with.                                                       *)
(***************************************************************************)
EXTENDS Naturals, FiniteSets

CONSTANTS
  Calls,        \* CLI invocations
  NoCall,       \* no key
  MaxArrivals,  \* bound: messages of other people
  Events,       \* the kinds of failure and expiry that may happen
  MaxEvents     \* bound: how many of them in one behaviour

ASSUME CallsAssumption == NoCall \notin Calls /\ IsFiniteSet(Calls)
ASSUME BoundsAssumption == MaxArrivals \in Nat /\ MaxEvents \in Nat

VARIABLES
  call,     \* each invocation in the daemon
  draft,    \* the target's saved draft: its key and reviewed frontier
  seen,     \* the frontier the Agent has been shown (modelSeenSequence)
  known,    \* the newest message the daemon's attention index has received
  latest,   \* the newest message of other people in the target
  through,  \* the cloud's read-through of the Agent
  handler,  \* the cloud's handlers, one per request of a call
  answer,   \* their answers on the way back
  record,   \* Redis: what each key holds
  rows,     \* PostgreSQL: messages persisted under each key
  windows,  \* history: times a key's row was not protected by its record
  events    \* events so far

daemonVars == <<call, draft, seen, known>>
cloudVars == <<through, handler, answer, record, rows, windows>>
vars == <<daemonVars, latest, cloudVars, events>>

(* A call sends at most twice: the send and its same-key replay.           *)
Requests == Calls \X {1, 2}
NoRequest == <<NoCall, 0>>

Phases == {"idle", "plan", "sending", "reconciling", "replaying", "done"}
Outcomes == {"none", "sent", "held", "failed", "retryable", "unknown"}
Steps == {"none", "sent", "plan", "claim", "find", "persist", "complete",
          "release", "publish", "gone"}
Answers == {"none", "sent", "held", "processing", "refused", "lost"}
Sequence == 0..MaxArrivals

CallRecords == [phase : Phases, key : Calls \cup {NoCall}, anyway : BOOLEAN,
                seen : Sequence, outcome : Outcomes]
Drafts == [key : Calls \cup {NoCall}, seen : Sequence]
Records == [state : {"none", "processing", "completed"},
            owner : Requests \cup {NoRequest}]
Replied == [kind : Answers, seen : Sequence]

NoDraft == [key |-> NoCall, seen |-> 0]
NoRecord == [state |-> "none", owner |-> NoRequest]
NoAnswer == [kind |-> "none", seen |-> 0]
Reply(kind, sequence) == [kind |-> kind, seen |-> sequence]

Init ==
  /\ call = [c \in Calls |-> [phase |-> "idle", key |-> NoCall, anyway |-> FALSE,
                              seen |-> 0, outcome |-> "none"]]
  /\ draft = NoDraft /\ seen = 0 /\ known = 0 /\ latest = 0 /\ through = 0
  /\ handler = [r \in Requests |-> "none"]
  /\ answer = [r \in Requests |-> NoAnswer]
  /\ record = [k \in Calls |-> NoRecord]
  /\ rows = [k \in Calls |-> 0] /\ windows = [k \in Calls |-> 0]
  /\ events = 0

Larger(a, b) == IF a > b THEN a ELSE b
Key(r) == call[r[1]].key
Attempt(c) == <<c, IF call[c].phase = "replaying" THEN 2 ELSE 1>>

-----------------------------------------------------------------------------
(* The daemon.                                                             *)

(* The boundary a draft already accounted for travels with the attempt.    *)
Boundary == IF draft.key # NoCall /\ draft.seen # 0 THEN draft.seen ELSE seen

Begin(c, key, anyway) ==
  call' = [call EXCEPT ![c] = [phase |-> "plan", key |-> key, anyway |-> anyway,
                               seen |-> Boundary, outcome |-> "none"]]

(* A fresh send: its draft replaces the one that was there, before         *)
(* anything is issued.                                                     *)
FreshSend(c) ==
  /\ call[c].phase = "idle"
  /\ Begin(c, c, FALSE)
  /\ draft' = [key |-> c, seen |-> Boundary]
  /\ UNCHANGED <<seen, known, latest, cloudVars, events>>

(* --send-draft: the saved draft goes out again under its own key.  One    *)
(* that --expected-draft-key no longer matches is refused before anything  *)
(* changes.                                                                *)
ResendDraft(c, anyway) ==
  /\ call[c].phase = "idle" /\ draft.key # NoCall
  /\ Begin(c, draft.key, anyway)
  /\ UNCHANGED <<draft, seen, known, latest, cloudVars, events>>

Finish(c, outcome) ==
  call' = [call EXCEPT ![c].phase = "done", ![c].outcome = outcome]

(* Mutant of Cleared: whatever send was accepted, the target's draft goes. *)
ClearedAlways(key) == NoDraft

(* clearIfIdempotencyKeyMatches.                                           *)
Cleared(key) == IF draft.key = key THEN NoDraft ELSE draft

(* A hold refreshes the draft with the frontier it presented.              *)
Held(c, presented) ==
  /\ Finish(c, "held")
  /\ draft' = [key |-> call[c].key, seen |-> presented]
  /\ seen' = Larger(seen, presented)

(* planAgentInboxFreshness: a send held here is never issued.  It holds for*)
(* the messages pending when the draft is saved, those above `seen` by now;*)
(* the frontier that was read before the save only words the log entry.    *)
PlanLocally(c) ==
  /\ call[c].phase = "plan"
  /\ \/ /\ known > seen /\ ~call[c].anyway
        /\ Held(c, known)
        /\ UNCHANGED handler
     \/ /\ known <= seen \/ call[c].anyway
        /\ call' = [call EXCEPT ![c].phase = "sending"]
        /\ handler' = [handler EXCEPT ![<<c, 1>>] = "sent"]
        /\ UNCHANGED <<draft, seen>>
  /\ UNCHANGED <<known, latest, through, answer, record, rows, windows, events>>

(* checkDraftKey: only a draft that holds the key can be sent again.       *)
Verdict(c) == IF draft.key = call[c].key THEN "retryable" ELSE "unknown"

(* settleAgentSend, for each answer to the send or to its replay.          *)
Settle(c) ==
  LET a == answer[Attempt(c)] IN
  /\ call[c].phase \in {"sending", "replaying"} /\ a.kind # "none"
  /\ \/ /\ a.kind = "sent"
        /\ Finish(c, "sent")
        /\ draft' = Cleared(call[c].key)
        /\ seen' = Larger(seen, a.seen)
     \/ a.kind = "held" /\ Held(c, a.seen)
     \/ /\ a.kind = "processing" /\ Finish(c, Verdict(c)) /\ UNCHANGED <<draft, seen>>
     \/ /\ a.kind = "refused"
        /\ Finish(c, IF call[c].phase = "sending" THEN "failed" ELSE Verdict(c))
        /\ UNCHANGED <<draft, seen>>
     \/ /\ a.kind = "lost"
        /\ IF call[c].phase = "sending"
           THEN call' = [call EXCEPT ![c].phase = "reconciling"]
           ELSE Finish(c, Verdict(c))
        /\ UNCHANGED <<draft, seen>>
  /\ UNCHANGED <<known, latest, cloudVars, events>>

(* reconcileAgentSendMessage: what the key's record says, without a claim. *)
Reconcile(c) ==
  LET k == call[c].key IN
  /\ call[c].phase = "reconciling"
  /\ \/ /\ record[k].state = "completed"
        /\ Finish(c, "sent") /\ draft' = Cleared(k) /\ UNCHANGED handler
     \/ /\ record[k].state = "processing"
        /\ Finish(c, "failed") /\ UNCHANGED <<draft, handler>>
     \/ /\ record[k].state = "none"
        /\ call' = [call EXCEPT ![c].phase = "replaying"]
        /\ handler' = [handler EXCEPT ![<<c, 2>>] = "sent"]
        /\ UNCHANGED draft
  /\ UNCHANGED <<seen, known, latest, through, answer, record, rows, windows, events>>

ReconcileFails(c) ==
  /\ call[c].phase = "reconciling"
  /\ Finish(c, "failed")
  /\ UNCHANGED <<draft, seen, known, latest, cloudVars>>

(* Someone else posts in the target; the daemon's attention index receives *)
(* it; the Agent reads the target.                                         *)
Arrives ==
  /\ latest < MaxArrivals
  /\ latest' = latest + 1
  /\ UNCHANGED <<daemonVars, cloudVars, events>>

Notified ==
  /\ known < latest
  /\ known' = latest
  /\ UNCHANGED <<call, draft, seen, latest, cloudVars, events>>

AgentReads ==
  /\ seen < latest
  /\ seen' = latest /\ through' = latest
  /\ UNCHANGED <<call, draft, known, latest, handler, answer, record, rows, windows>>

(* A draft's ten minutes are over.                                         *)
DraftExpires ==
  /\ draft.key # NoCall
  /\ draft' = NoDraft
  /\ UNCHANGED <<call, seen, known, latest, cloudVars>>

(* The daemon restarts: its calls fail, the draft and cursor are on disk.  *)
DaemonCrashes ==
  /\ call' = [c \in Calls |-> IF call[c].phase \in {"idle", "done"} THEN call[c]
                              ELSE [call[c] EXCEPT !.phase = "done", !.outcome = "failed"]]
  /\ known' = 0
  /\ UNCHANGED <<draft, seen, latest, cloudVars>>

-----------------------------------------------------------------------------
(* The cloud's handler of one request.                                     *)

Goes(r, step) == /\ handler' = [handler EXCEPT ![r] = step]
                 /\ UNCHANGED answer

Replies(r, kind, sequence) ==
  /\ handler' = [handler EXCEPT ![r] = "gone"]
  /\ answer' = [answer EXCEPT ![r] = IF @.kind = "lost" THEN @ ELSE Reply(kind, sequence)]

(* executeAgentSendMessageWithPolicy first reads the key's record.         *)
ReadRecord(r) ==
  /\ handler[r] = "sent"
  /\ \/ record[Key(r)].state = "completed" /\ Replies(r, "sent", 0)
     \/ record[Key(r)].state = "processing" /\ Replies(r, "processing", 0)
     \/ record[Key(r)].state = "none" /\ Goes(r, "plan")
  /\ UNCHANGED <<daemonVars, latest, through, record, rows, windows, events>>

(* planAgentSend: the read-through advances to the boundary the Agent      *)
(* reported; with none, the target's context is a first touch.  A bypassed *)
(* hold will report what the Agent chose not to review.                    *)
Reviewed(c) == IF call[c].seen = 0 THEN 0 ELSE Larger(through, call[c].seen)

PlanSend(r) ==
  LET c == r[1] IN
  /\ handler[r] = "plan"
  /\ through' = Larger(through, call[c].seen)
  /\ \/ latest > Reviewed(c) /\ ~call[c].anyway /\ Replies(r, "held", latest)
     \/ latest <= Reviewed(c) /\ Goes(r, "claim")
     \/ /\ latest > Reviewed(c) /\ call[c].anyway
        /\ handler' = [handler EXCEPT ![r] = "claim"]
        /\ answer' = [answer EXCEPT ![r].seen = latest]
  /\ UNCHANGED <<daemonVars, latest, record, rows, windows, events>>

(* Mutant of Claimable: a claim that ran for a while may be taken over.    *)
ClaimableOver(k) == record[k].state # "completed"

(* SET NX EX.                                                              *)
Claimable(k) == record[k].state = "none"

Claim(r) ==
  /\ handler[r] = "claim"
  /\ \/ /\ Claimable(Key(r))
        /\ record' = [record EXCEPT ![Key(r)] = [state |-> "processing", owner |-> r]]
        /\ Goes(r, "persist")
     \/ ~Claimable(Key(r)) /\ Goes(r, "find") /\ UNCHANGED record
  /\ UNCHANGED <<daemonVars, latest, through, rows, windows, events>>

(* Mutant of Find: a claimed key is answered as if its row existed.        *)
FindAny(r) ==
  /\ handler[r] = "find"
  /\ Goes(r, "publish")
  /\ UNCHANGED <<daemonVars, latest, through, record, rows, windows, events>>

(* Mutant of Find: a duplicate waits for the first request's result.       *)
FindWaits(r) ==
  /\ handler[r] = "find" /\ record[Key(r)].state = "completed"
  /\ Goes(r, "publish")
  /\ UNCHANGED <<daemonVars, latest, through, record, rows, windows, events>>

(* The key was claimed: its result, once it is there, is answered (and     *)
(* published) again.                                                       *)
Find(r) ==
  /\ handler[r] = "find"
  /\ \/ record[Key(r)].state = "completed" /\ Goes(r, "publish")
     \/ record[Key(r)].state # "completed" /\ Replies(r, "processing", 0)
  /\ UNCHANGED <<daemonVars, latest, through, record, rows, windows, events>>

Persist(r) ==
  /\ handler[r] = "persist"
  /\ rows' = [rows EXCEPT ![Key(r)] = @ + 1]
  /\ Goes(r, "complete")
  /\ UNCHANGED <<daemonVars, latest, through, record, windows, events>>

(* Completion is written whoever holds the claim by now.                   *)
Complete(r) ==
  /\ handler[r] = "complete"
  /\ record' = [record EXCEPT ![Key(r)] = [state |-> "completed", owner |-> NoRequest]]
  /\ Goes(r, "publish")
  /\ UNCHANGED <<daemonVars, latest, through, rows, windows, events>>

(* The browser, mention and notification events, then the answer.          *)
Publish(r) ==
  /\ handler[r] = "publish"
  /\ Replies(r, "sent", answer[r].seen)
  /\ UNCHANGED <<daemonVars, latest, through, record, rows, windows, events>>

(* RELEASE_IF_OWNER, and the error that the boundary answers as a refusal. *)
Release(r) ==
  /\ handler[r] = "release"
  /\ record' = IF record[Key(r)].owner = r
               THEN [record EXCEPT ![Key(r)] = NoRecord] ELSE record
  /\ Replies(r, "refused", 0)
  /\ UNCHANGED <<daemonVars, latest, through, rows, windows, events>>

Working(r) == handler[r] \in {"persist", "complete", "release"}

(* Mutant of Expirable: the refresh timer is never cancelled.              *)
ExpirableNever(k) == FALSE

(* A claim nobody refreshes any more lives for thirty seconds.             *)
Expirable(k) == record[k].state = "processing" /\ ~Working(record[k].owner)

ClaimExpires(k) ==
  /\ Expirable(k)
  /\ record' = [record EXCEPT ![k] = NoRecord]
  /\ UNCHANGED <<daemonVars, latest, through, handler, answer, rows, windows, events>>

(* Failures.  A row whose record does not protect it is a window.          *)
Opens(k) == windows' = [windows EXCEPT ![k] = @ + 1]

(* A claim expires under its owner: its refreshes failed.                  *)
ClaimLost(k) ==
  /\ record[k].state = "processing" /\ Working(record[k].owner)
  /\ record' = [record EXCEPT ![k] = NoRecord]
  /\ IF handler[record[k].owner] = "release" THEN UNCHANGED windows ELSE Opens(k)
  /\ UNCHANGED <<daemonVars, latest, through, handler, answer, rows>>

(* A step fails: planning, claiming, persisting, the completion write, the *)
(* release or a publication.                                               *)
HandlerFails(r) ==
  /\ \/ handler[r] \in {"plan", "claim", "find", "release", "publish"}
        /\ Replies(r, "refused", 0) /\ UNCHANGED windows
     \/ handler[r] = "persist" /\ Goes(r, "release") /\ UNCHANGED windows
     \/ handler[r] = "complete" /\ Goes(r, "release") /\ Opens(Key(r))
  /\ UNCHANGED <<daemonVars, latest, through, record, rows>>

HandlerCrashes(r) ==
  /\ handler[r] \notin {"none", "gone"}
  /\ handler' = [handler EXCEPT ![r] = "gone"]
  /\ answer' = [answer EXCEPT ![r] = Reply("lost", 0)]
  /\ IF handler[r] = "complete" THEN Opens(Key(r)) ELSE UNCHANGED windows
  /\ UNCHANGED <<daemonVars, latest, through, record, rows>>

(* The connection fails, or a proxy answers 5xx, while the handler runs on *)
(* or the request is still on its way.                                     *)
AnswerLost(r) ==
  /\ handler[r] # "none" /\ answer[r].kind # "lost"
  /\ answer' = [answer EXCEPT ![r] = Reply("lost", 0)]
  /\ UNCHANGED <<daemonVars, latest, through, handler, record, rows, windows>>

-----------------------------------------------------------------------------
CallStep(c) ==
  \/ FreshSend(c) \/ PlanLocally(c) \/ Settle(c) \/ Reconcile(c)
  \/ \E anyway \in BOOLEAN : ResendDraft(c, anyway)

HandlerStep(r) ==
  \/ ReadRecord(r) \/ PlanSend(r) \/ Claim(r) \/ Find(r) \/ Persist(r)
  \/ Complete(r) \/ Publish(r) \/ Release(r)

Event(kind) ==
  \/ kind = "read" /\ AgentReads
  \/ kind = "draft" /\ DraftExpires
  \/ kind = "daemon" /\ DaemonCrashes
  \/ kind = "lost" /\ \E r \in Requests : AnswerLost(r)
  \/ kind = "lost" /\ \E c \in Calls : ReconcileFails(c)
  \/ kind = "claim" /\ \E k \in Calls : ClaimLost(k)
  \/ kind = "failure" /\ \E r \in Requests : HandlerFails(r)
  \/ kind = "crash" /\ \E r \in Requests : HandlerCrashes(r)

Next ==
  \/ \E c \in Calls : CallStep(c)
  \/ \E r \in Requests : HandlerStep(r)
  \/ \E k \in Calls : ClaimExpires(k)
  \/ Arrives \/ Notified
  \/ /\ events < MaxEvents
     /\ events' = events + 1
     /\ \E kind \in Events : Event(kind)

Spec == Init /\ [][Next]_vars

(* A call runs on, a handler's step ends, and Redis expires a claim; no    *)
(* invocation is owed.                                                     *)
FairSpec ==
  /\ Spec
  /\ \A c \in Calls : WF_vars(call[c].phase # "idle" /\ CallStep(c))
  /\ \A r \in Requests : WF_vars(HandlerStep(r))
  /\ \A k \in Calls : WF_vars(ClaimExpires(k))

TypeOK ==
  /\ call \in [Calls -> CallRecords] /\ draft \in Drafts
  /\ seen \in Sequence /\ known \in Sequence /\ latest \in Sequence
  /\ through \in Sequence
  /\ handler \in [Requests -> Steps] /\ answer \in [Requests -> Replied]
  /\ record \in [Calls -> Records]
  /\ rows \in [Calls -> Nat] /\ windows \in [Calls -> Nat]
  /\ events \in 0..MaxEvents

-----------------------------------------------------------------------------
(* One idempotency key makes one message.  Each further one needs a window *)
(* in which the row exists and its record does not: a crash or a failed    *)
(* write between the two, or a claim that expires under its owner          *)
(* (RedisMessageRequestIdempotency.execute).                               *)
OneMessagePerKey == \A k \in Calls : rows[k] <= 1 + windows[k]

(* A send is reported as sent only when its message was persisted, also    *)
(* when only its key's record says so (settleAgentSend).                   *)
SentMeansPersisted ==
  \A c \in Calls : call[c].outcome = "sent" => rows[call[c].key] > 0

(* The draft of a send that did not commit is not cleared by another send  *)
(* that is accepted late; only its own ten minutes end it                  *)
(* (clearIfIdempotencyKeyMatches).                                         *)
DraftSurvivesStep ==
  draft.key # NoCall /\ draft'.key = NoCall =>
    rows[draft.key] > 0 \/ DraftExpires
DraftSurvives == [][DraftSurvivesStep]_vars

(* No key stays refused as "still processing" for ever: its claim is       *)
(* completed, released or expires, whatever became of its owner.           *)
ClaimsEnd == \A k \in Calls :
  record[k].state = "processing" ~> record[k].state # "processing"

(* Every call comes to an answer for the Agent, whatever was lost.         *)
CallsEnd == \A c \in Calls : call[c].phase = "plan" ~> call[c].phase = "done"

(* agent-messages.server.ts, executeAgentSendMessageWithPolicy: "whatever  *)
(* changed since (the person left, newer messages arrived) must not report *)
(* a committed send as refused or held".  The record is read before the    *)
(* freshness plan awaits; a first request may commit in between.           *)
CommittedIsNotHeldStep == \A r \in Requests :
  answer[r].kind = "none" /\ answer'[r].kind = "held" =>
    record[Key(r)].state # "completed"
CommittedIsNotHeld == [][CommittedIsNotHeldStep]_vars
=============================================================================
