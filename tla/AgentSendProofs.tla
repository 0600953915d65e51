--------------------------- MODULE AgentSendProofs ---------------------------
(***************************************************************************)
(* What AgentSend promises for any calls, arrivals and failures.           *)
(***************************************************************************)
EXTENDS AgentSend, FiniteSetTheorems, TLAPS

-----------------------------------------------------------------------------
(* Types of what the helpers return.                                       *)

LEMMA BoundaryType == TypeOK => Boundary \in Sequence
  BY DEF TypeOK, Boundary, Drafts

LEMMA LargerType ==
  ASSUME NEW a \in Sequence, NEW b \in Sequence
  PROVE  Larger(a, b) \in Sequence
  BY DEF Larger

LEMMA ClearedType ==
  ASSUME TypeOK, NEW key
  PROVE  Cleared(key) \in Drafts
  BY BoundsAssumption DEF TypeOK, Cleared, NoDraft, Drafts, Sequence

LEMMA FinishType ==
  ASSUME TypeOK, NEW c \in Calls, NEW outcome \in Outcomes, Finish(c, outcome)
  PROVE  call' \in [Calls -> CallRecords]
<1>1. call \in [Calls -> CallRecords]
  BY DEF TypeOK
<1>2. [call[c] EXCEPT !.phase = "done", !.outcome = outcome] \in CallRecords
  BY <1>1 DEF CallRecords, Phases
<1>3. call' = [call EXCEPT ![c] = [call[c] EXCEPT !.phase = "done", !.outcome = outcome]]
  BY <1>1 DEF Finish
<1>4. QED
  BY <1>1, <1>2, <1>3

LEMMA BeginType ==
  ASSUME TypeOK, NEW c \in Calls, NEW key \in Calls, NEW anyway \in BOOLEAN,
         Begin(c, key, anyway)
  PROVE  call' \in [Calls -> CallRecords]
  BY BoundaryType DEF TypeOK, Begin, CallRecords, Phases, Outcomes

LEMMA PhaseType ==
  ASSUME TypeOK, NEW c \in Calls, NEW phase \in Phases
  PROVE  [call EXCEPT ![c].phase = phase] \in [Calls -> CallRecords]
  BY DEF TypeOK, CallRecords

LEMMA SentType ==
  ASSUME TypeOK, NEW r \in Requests
  PROVE  [handler EXCEPT ![r] = "sent"] \in [Requests -> Steps]
  BY DEF TypeOK, Steps

LEMMA HeldType ==
  ASSUME TypeOK, NEW c \in Calls, NEW presented \in Sequence, Held(c, presented)
  PROVE  /\ call' \in [Calls -> CallRecords]
         /\ draft' \in Drafts /\ seen' \in Sequence
<1>1. call' \in [Calls -> CallRecords]
  BY FinishType DEF Held, Outcomes
<1>2. draft' \in Drafts
  BY DEF Held, Drafts, TypeOK, CallRecords
<1>3. seen' \in Sequence
  BY LargerType DEF Held, TypeOK
<1>4. QED
  BY <1>1, <1>2, <1>3

LEMMA GoesType ==
  ASSUME TypeOK, NEW r \in Requests, NEW step \in Steps, Goes(r, step)
  PROVE  handler' \in [Requests -> Steps] /\ answer' \in [Requests -> Replied]
  BY DEF TypeOK, Goes

LEMMA RepliesType ==
  ASSUME TypeOK, NEW r \in Requests, NEW kind \in Answers, NEW s \in Sequence,
         Replies(r, kind, s)
  PROVE  handler' \in [Requests -> Steps] /\ answer' \in [Requests -> Replied]
  BY DEF TypeOK, Replies, Reply, Replied, Steps

-----------------------------------------------------------------------------
LEMMA InitTypeOK == Init => TypeOK
  BY BoundsAssumption DEF Init, TypeOK, Phases, Outcomes, Steps, Answers, Sequence,
     NoDraft, NoRecord, NoAnswer, Requests, NoRequest, CallRecords, Drafts,
     Records, Replied

LEMMA CallStepTypeOK ==
  ASSUME TypeOK, NEW c \in Calls, CallStep(c)
  PROVE  TypeOK'
<1> USE DEF TypeOK, cloudVars, daemonVars
<1>1. CASE FreshSend(c)
  <2>1. call' \in [Calls -> CallRecords]
    BY <1>1, BeginType DEF FreshSend
  <2>2. draft' \in Drafts
    BY <1>1, BoundaryType DEF FreshSend, Drafts
  <2>3. QED
    BY <1>1, <2>1, <2>2 DEF FreshSend
<1>2. ASSUME NEW anyway \in BOOLEAN, ResendDraft(c, anyway)
      PROVE  TypeOK'
  <2>1. draft.key \in Calls
    BY <1>2 DEF ResendDraft, Drafts
  <2>2. call' \in [Calls -> CallRecords]
    BY <1>2, <2>1, BeginType DEF ResendDraft
  <2>3. QED
    BY <1>2, <2>2 DEF ResendDraft
<1>3. CASE PlanLocally(c)
  <2>1. CASE Held(c, known) /\ UNCHANGED handler
    BY <1>3, <2>1, HeldType DEF PlanLocally
  <2>2. CASE /\ call' = [call EXCEPT ![c].phase = "sending"]
             /\ handler' = [handler EXCEPT ![<<c, 1>>] = "sent"]
             /\ UNCHANGED <<draft, seen>>
    <3>1. call' \in [Calls -> CallRecords]
      BY <2>2, PhaseType DEF Phases
    <3>2. handler' \in [Requests -> Steps]
      BY <2>2, SentType DEF Requests
    <3>3. QED
      BY <1>3, <2>2, <3>1, <3>2 DEF PlanLocally
  <2>3. QED
    BY <1>3, <2>1, <2>2 DEF PlanLocally
<1>4. CASE Settle(c)
  <2> DEFINE a == answer[Attempt(c)]
  <2>1. a \in Replied
    BY DEF Attempt, Requests
  <2>2. UNCHANGED <<known, latest, through, handler, answer, record, rows, windows,
                    events>>
    BY <1>4 DEF Settle
  <2>3. CASE /\ Finish(c, "sent") /\ draft' = Cleared(call[c].key)
             /\ seen' = Larger(seen, a.seen)
    <3>1. call' \in [Calls -> CallRecords]
      BY <2>3, FinishType DEF Outcomes
    <3>2. draft' \in Drafts /\ seen' \in Sequence
      BY <2>1, <2>3, ClearedType, LargerType DEF Replied
    <3>3. QED
      BY <2>2, <3>1, <3>2
  <2>4. CASE Held(c, a.seen)
    BY <2>1, <2>2, <2>4, HeldType DEF Replied
  <2>5. ASSUME NEW outcome \in Outcomes, Finish(c, outcome), UNCHANGED <<draft, seen>>
        PROVE  TypeOK'
    BY <2>2, <2>5, FinishType
  <2>6. CASE call' = [call EXCEPT ![c].phase = "reconciling"] /\ UNCHANGED <<draft, seen>>
    BY <2>2, <2>6, PhaseType DEF Phases
  <2>7. QED
    BY <1>4, <2>3, <2>4, <2>5, <2>6 DEF Settle, Outcomes, Verdict
<1>5. CASE Reconcile(c)
  <2>1. UNCHANGED <<seen, known, latest, through, answer, record, rows, windows, events>>
    BY <1>5 DEF Reconcile
  <2>2. CASE /\ Finish(c, "sent") /\ draft' = Cleared(call[c].key)
             /\ UNCHANGED handler
    BY <2>1, <2>2, FinishType, ClearedType DEF Outcomes
  <2>3. CASE Finish(c, "failed") /\ UNCHANGED <<draft, handler>>
    BY <2>1, <2>3, FinishType DEF Outcomes
  <2>4. CASE /\ call' = [call EXCEPT ![c].phase = "replaying"]
             /\ handler' = [handler EXCEPT ![<<c, 2>>] = "sent"]
             /\ UNCHANGED draft
    BY <2>1, <2>4, PhaseType, SentType DEF Phases, Requests
  <2>5. QED
    BY <1>5, <2>2, <2>3, <2>4 DEF Reconcile
<1>6. QED
  BY <1>1, <1>2, <1>3, <1>4, <1>5 DEF CallStep

LEMMA HandlerStepTypeOK ==
  ASSUME TypeOK, NEW r \in Requests, HandlerStep(r)
  PROVE  TypeOK'
<1> DEFINE Typed == handler' \in [Requests -> Steps] /\ answer' \in [Requests -> Replied]
<1> USE DEF TypeOK, daemonVars
<1>0. /\ 0 \in Sequence /\ r[1] \in Calls
      /\ answer[r] \in Replied /\ Key(r) \in Calls \cup {NoCall}
  BY BoundsAssumption DEF Sequence, Requests, Key, CallRecords
<1>1. CASE ReadRecord(r)
  <2>1. Typed
    BY <1>0, <1>1, RepliesType, GoesType DEF ReadRecord, Answers, Steps
  <2>2. QED
    BY <1>1, <2>1 DEF ReadRecord
<1>2. CASE PlanSend(r)
  <2>1. through' \in Sequence
    BY <1>0, <1>2, LargerType DEF PlanSend, CallRecords
  <2>2. CASE \/ Replies(r, "held", latest)
             \/ Goes(r, "claim")
    <3>1. Typed
      BY <2>2, RepliesType, GoesType DEF Answers, Steps
    <3>2. QED
      BY <1>2, <2>1, <3>1 DEF PlanSend
  <2>3. CASE /\ handler' = [handler EXCEPT ![r] = "claim"]
             /\ answer' = [answer EXCEPT ![r].seen = latest]
    <3>1. Typed
      BY <2>3 DEF Steps, Replied
    <3>2. QED
      BY <1>2, <2>1, <3>1 DEF PlanSend
  <2>4. QED
    BY <1>2, <2>2, <2>3 DEF PlanSend
<1>3. CASE Claim(r)
  <2>1. Typed
    BY <1>3, GoesType DEF Claim, Steps
  <2>2. record' \in [Calls -> Records]
    BY <1>3 DEF Claim, Records
  <2>3. QED
    BY <1>3, <2>1, <2>2 DEF Claim
<1>4. CASE Find(r)
  <2>1. Typed
    BY <1>0, <1>4, RepliesType, GoesType DEF Find, Answers, Steps
  <2>2. QED
    BY <1>4, <2>1 DEF Find
<1>5. CASE Persist(r)
  <2>1. Typed
    BY <1>5, GoesType DEF Persist, Steps
  <2>2. rows' = [k \in Calls |-> IF k = Key(r) THEN rows[k] + 1 ELSE rows[k]]
    BY <1>5 DEF Persist
  <2>3. rows' \in [Calls -> Nat]
    BY <2>2
  <2>4. QED
    BY <1>5, <2>1, <2>3 DEF Persist
<1>6. CASE Complete(r)
  <2>1. Typed
    BY <1>6, GoesType DEF Complete, Steps
  <2>2. record' \in [Calls -> Records]
    BY <1>6 DEF Complete, Records
  <2>3. QED
    BY <1>6, <2>1, <2>2 DEF Complete
<1>7. CASE Publish(r)
  <2>1. Typed
    BY <1>0, <1>7, RepliesType DEF Publish, Answers, Replied
  <2>2. QED
    BY <1>7, <2>1 DEF Publish
<1>8. CASE Release(r)
  <2>1. Typed
    BY <1>0, <1>8, RepliesType DEF Release, Answers
  <2>2. record' \in [Calls -> Records]
    BY <1>8 DEF Release, Records, NoRecord
  <2>3. QED
    BY <1>8, <2>1, <2>2 DEF Release
<1>9. QED
  BY <1>1, <1>2, <1>3, <1>4, <1>5, <1>6, <1>7, <1>8 DEF HandlerStep

LEMMA EventTypeOK ==
  ASSUME TypeOK, NEW kind \in Events, Event(kind), events < MaxEvents,
         events' = events + 1
  PROVE  TypeOK'
<1> USE DEF TypeOK, cloudVars, daemonVars
<1>0. events' \in 0..MaxEvents /\ 0 \in Sequence
  BY BoundsAssumption DEF Sequence
<1>1. CASE AgentReads \/ DraftExpires
  BY <1>0, <1>1 DEF AgentReads, DraftExpires, Drafts, NoDraft
<1>2. CASE DaemonCrashes
  <2>1. call' \in [Calls -> CallRecords]
    BY <1>2 DEF DaemonCrashes, CallRecords, Phases, Outcomes
  <2>2. QED
    BY <1>0, <1>2, <2>1 DEF DaemonCrashes
<1>3. ASSUME NEW r \in Requests, AnswerLost(r)
      PROVE  TypeOK'
  BY <1>0, <1>3 DEF AnswerLost, Reply, Replied, Answers
<1>4. ASSUME NEW c \in Calls, ReconcileFails(c)
      PROVE  TypeOK'
  BY <1>0, <1>4, FinishType DEF ReconcileFails, Outcomes
<1>5. ASSUME NEW k \in Calls, ClaimLost(k)
      PROVE  TypeOK'
  <2>1. record' \in [Calls -> Records] /\ windows' \in [Calls -> Nat]
    BY <1>5 DEF ClaimLost, Opens, Records, NoRecord
  <2>2. QED
    BY <1>0, <1>5, <2>1 DEF ClaimLost
<1>6. ASSUME NEW r \in Requests, HandlerFails(r)
      PROVE  TypeOK'
  <2>1. handler' \in [Requests -> Steps] /\ answer' \in [Requests -> Replied]
    BY <1>0, <1>6, RepliesType, GoesType DEF HandlerFails, Answers, Steps
  <2>2. windows' \in [Calls -> Nat]
    BY <1>6 DEF HandlerFails, Opens
  <2>3. QED
    BY <1>0, <1>6, <2>1, <2>2 DEF HandlerFails
<1>7. ASSUME NEW r \in Requests, HandlerCrashes(r)
      PROVE  TypeOK'
  <2>1. handler' \in [Requests -> Steps] /\ answer' \in [Requests -> Replied]
    BY <1>0, <1>7 DEF HandlerCrashes, Reply, Replied, Answers, Steps
  <2>2. windows' \in [Calls -> Nat]
    BY <1>7 DEF HandlerCrashes, Opens
  <2>3. QED
    BY <1>0, <1>7, <2>1, <2>2 DEF HandlerCrashes
<1>8. QED
  BY <1>1, <1>2, <1>3, <1>4, <1>5, <1>6, <1>7 DEF Event

LEMMA NextTypeOK == TypeOK /\ [Next]_vars => TypeOK'
<1> SUFFICES ASSUME TypeOK, [Next]_vars
             PROVE  TypeOK'
  OBVIOUS
<1>1. ASSUME NEW k \in Calls, ClaimExpires(k)
      PROVE  TypeOK'
  BY <1>1 DEF ClaimExpires, TypeOK, daemonVars, Records, NoRecord
<1>2. CASE Arrives \/ Notified
  BY <1>2, BoundsAssumption DEF Arrives, Notified, TypeOK, daemonVars, cloudVars, Sequence
<1>3. CASE UNCHANGED vars
  BY <1>3 DEF vars, daemonVars, cloudVars, TypeOK
<1>4. QED
  BY <1>1, <1>2, <1>3, CallStepTypeOK, HandlerStepTypeOK, EventTypeOK DEF Next

(* Every variable stays in its type: no step of a call, a handler or a     *)
(* failure leaves the states the daemon and the cloud handle.              *)
THEOREM TypeCorrect == Spec => []TypeOK
<1>1. QED
  BY InitTypeOK, NextTypeOK, PTL DEF Spec

-----------------------------------------------------------------------------
(* A request is sent once its call has a key, which it keeps.              *)
Begun ==
  /\ \A c \in Calls :
       /\ call[c].phase # "idle" => call[c].key \in Calls
       /\ call[c].phase = "idle" => call[c].outcome = "none"
       /\ call[c].phase \in {"idle", "plan"} => handler[<<c, 1>>] = "none"
       /\ call[c].phase \in {"idle", "plan", "sending", "reconciling"} =>
            handler[<<c, 2>>] = "none"
  /\ \A r \in Requests : handler[r] = "none" => answer[r].kind = "none"

(* What tells a handler or the daemon that the key's message is there.     *)
Persisted ==
  /\ \A k \in Calls : record[k].state = "completed" => rows[k] > 0
  /\ \A r \in Requests :
       handler[r] \in {"complete", "publish"} \/ answer[r].kind = "sent" =>
         rows[Key(r)] > 0

SendInv == TypeOK /\ Begun /\ Persisted /\ SentMeansPersisted

LEMMA InitSendInv == Init => SendInv
  BY InitTypeOK DEF Init, SendInv, Begun, Persisted, SentMeansPersisted, Key,
     Requests, NoRecord, NoAnswer

(* A key is fixed before its first request.                                *)
LEMMA KeyFixed ==
  ASSUME SendInv, NEW r \in Requests, handler[r] # "none"
  PROVE  call[r[1]].phase # "idle" /\ Key(r) \in Calls
<1>1. r[1] \in Calls /\ (r = <<r[1], 1>> \/ r = <<r[1], 2>>)
  BY DEF Requests
<1>2. call[r[1]].phase # "idle"
  BY <1>1 DEF SendInv, Begun
<1>3. QED
  BY <1>1, <1>2 DEF SendInv, Begun, Key

LEMMA CallStepSendInv ==
  ASSUME SendInv, TypeOK', NEW c \in Calls, CallStep(c)
  PROVE  SendInv'
<1> USE DEF SendInv, cloudVars, daemonVars
<1>a. \A r \in Requests : /\ r[1] \in Calls
                          /\ r = <<r[1], 1>> \/ r = <<r[1], 2>>
  BY DEF Requests
<1>b. \A i \in Calls : <<i, 1>> \in Requests /\ <<i, 2>> \in Requests
  BY DEF Requests
<1>1. ASSUME NEW key \in Calls, NEW anyway \in BOOLEAN, call[c].phase = "idle",
             Begin(c, key, anyway), UNCHANGED cloudVars
      PROVE  SendInv'
  <2>0. \A i \in Calls : /\ i # c => call'[i] = call[i]
                         /\ call'[c].phase = "plan" /\ call'[c].key = key
                         /\ call'[c].outcome = "none"
    BY <1>1 DEF Begin, TypeOK
  <2>1. Begun'
    BY <1>1, <2>0 DEF Begun
  <2>2. \A r \in Requests : handler[r] # "none" => Key(r)' = Key(r)
    BY <1>1, <1>a, <2>0, KeyFixed DEF Key
  <2>3. Persisted'
    BY <1>1, <2>2 DEF Persisted, Begun, TypeOK, Replied
  <2>4. SentMeansPersisted'
    BY <1>1, <2>0 DEF SentMeansPersisted
  <2>5. QED
    BY <2>1, <2>3, <2>4
<1>2. CASE FreshSend(c)
  BY <1>1, <1>2 DEF FreshSend
<1>3. ASSUME NEW anyway \in BOOLEAN, ResendDraft(c, anyway)
      PROVE  SendInv'
  <2>1. draft.key \in Calls
    BY <1>3 DEF ResendDraft, TypeOK, Drafts
  <2>2. QED
    BY <1>1, <1>3, <2>1 DEF ResendDraft
<1> DEFINE Moved(phase, outcome) ==
      \A i \in Calls : /\ i # c => call'[i] = call[i]
                       /\ call'[c].phase = phase /\ call'[c].key = call[c].key
                       /\ call'[c].outcome = outcome
<1>4. ASSUME NEW phase, NEW outcome, Moved(phase, outcome)
      PROVE  \A r \in Requests : Key(r)' = Key(r)
  BY <1>4, <1>a DEF Key
<1>5. ASSUME NEW outcome \in Outcomes, Finish(c, outcome)
      PROVE  Moved("done", outcome)
  BY <1>5 DEF Finish, TypeOK, CallRecords
<1>6. ASSUME NEW outcome \in Outcomes, outcome = "sent" => rows[call[c].key] > 0,
             call[c].phase # "idle", Finish(c, outcome), UNCHANGED cloudVars
      PROVE  SendInv'
  <2>1. Moved("done", outcome)
    BY <1>5, <1>6
  <2>2. Begun'
    BY <1>6, <2>1 DEF Begun
  <2>3. Persisted'
    BY <1>4, <1>6, <2>1 DEF Persisted
  <2>4. SentMeansPersisted'
    BY <1>6, <2>1 DEF SentMeansPersisted
  <2>5. QED
    BY <2>2, <2>3, <2>4
<1>7. CASE PlanLocally(c)
  <2>1. CASE Held(c, known) /\ UNCHANGED handler
    BY <1>6, <1>7, <2>1 DEF PlanLocally, Held, Outcomes
  <2>2. CASE /\ call' = [call EXCEPT ![c].phase = "sending"]
             /\ handler' = [handler EXCEPT ![<<c, 1>>] = "sent"]
    <3>1. Moved("sending", call[c].outcome)
      BY <2>2 DEF TypeOK, CallRecords
    <3>2. /\ handler'[<<c, 1>>] = "sent" /\ handler' \in [Requests -> Steps]
          /\ \A r \in Requests : r # <<c, 1>> => handler'[r] = handler[r]
      BY <2>2, <1>b DEF TypeOK
    <3>3. Begun'
      BY <1>7, <3>1, <3>2, <1>b DEF Begun, PlanLocally
    <3>4. Persisted'
      BY <1>4, <1>7, <3>1, <3>2 DEF Persisted, PlanLocally
    <3>5. SentMeansPersisted'
      BY <1>7, <3>1 DEF SentMeansPersisted, PlanLocally
    <3>6. QED
      BY <3>3, <3>4, <3>5
  <2>3. QED
    BY <1>7, <2>1, <2>2 DEF PlanLocally
<1>8. CASE Settle(c)
  <2>1. Attempt(c) \in Requests /\ Key(Attempt(c)) = call[c].key
    BY <1>b DEF Attempt, Key
  <2>2. answer[Attempt(c)].kind = "sent" => rows[call[c].key] > 0
    BY <2>1 DEF Persisted
  <2>3. UNCHANGED cloudVars /\ call[c].phase \in {"sending", "replaying"}
    BY <1>8 DEF Settle
  <2>4. CASE \E outcome \in Outcomes :
               Finish(c, outcome) /\ (outcome = "sent" => answer[Attempt(c)].kind = "sent")
    BY <1>6, <2>2, <2>3, <2>4
  <2>5. CASE call' = [call EXCEPT ![c].phase = "reconciling"] /\ call[c].phase = "sending"
    <3>1. Moved("reconciling", call[c].outcome)
      BY <2>5 DEF TypeOK, CallRecords
    <3>2. Begun'
      BY <2>3, <2>5, <3>1 DEF Begun
    <3>3. Persisted'
      BY <1>4, <2>3, <3>1 DEF Persisted
    <3>4. SentMeansPersisted'
      BY <2>3, <3>1 DEF SentMeansPersisted
    <3>5. QED
      BY <3>2, <3>3, <3>4
  <2>6. QED
    BY <1>8, <2>4, <2>5 DEF Settle, Held, Outcomes, Verdict
<1>9. CASE Reconcile(c)
  <2>1. UNCHANGED <<answer, record, rows>> /\ call[c].phase = "reconciling"
    BY <1>9 DEF Reconcile
  <2>2. call[c].key \in Calls
    BY <2>1 DEF Begun
  <2>3. CASE UNCHANGED handler
    <3>1. UNCHANGED cloudVars
      BY <1>9, <2>3 DEF Reconcile
    <3>2. \E outcome \in Outcomes :
            Finish(c, outcome) /\ (outcome = "sent" => rows[call[c].key] > 0)
      <4>1. handler' # [handler EXCEPT ![<<c, 2>>] = "sent"]
        BY <1>b, <2>1, <2>3 DEF Begun, TypeOK
      <4>2. QED
        BY <1>9, <2>2, <4>1 DEF Reconcile, Persisted, Outcomes
    <3>3. QED
      BY <1>6, <2>1, <3>1, <3>2
  <2>4. CASE /\ call' = [call EXCEPT ![c].phase = "replaying"]
             /\ handler' = [handler EXCEPT ![<<c, 2>>] = "sent"]
    <3>1. Moved("replaying", call[c].outcome)
      BY <2>4 DEF TypeOK, CallRecords
    <3>2. /\ handler'[<<c, 2>>] = "sent"
          /\ \A r \in Requests : r # <<c, 2>> => handler'[r] = handler[r]
      BY <2>4, <1>b DEF TypeOK
    <3>3. Begun'
      BY <2>1, <3>1, <3>2, <1>b DEF Begun
    <3>4. Persisted'
      BY <1>4, <2>1, <3>1, <3>2 DEF Persisted
    <3>5. SentMeansPersisted'
      BY <2>1, <3>1 DEF SentMeansPersisted
    <3>6. QED
      BY <3>3, <3>4, <3>5
  <2>5. QED
    BY <1>9, <2>3, <2>4 DEF Reconcile
<1>10. QED
  BY <1>2, <1>3, <1>7, <1>8, <1>9 DEF CallStep

(* What a handler may do to the evidence that a message exists.            *)
LEMMA HandlerSendInv ==
  ASSUME SendInv, TypeOK', NEW r \in Requests, handler[r] # "none",
         UNCHANGED call,
         \A s \in Requests : s # r => handler'[s] = handler[s] /\ answer'[s] = answer[s],
         handler'[r] # "none",
         \A k \in Calls : rows[k] > 0 => rows'[k] > 0,
         \A k \in Calls : record'[k].state = "completed" => rows'[k] > 0,
         handler'[r] \in {"complete", "publish"} \/ answer'[r].kind = "sent" =>
           rows'[Key(r)] > 0
  PROVE  SendInv'
<1> USE DEF SendInv
<1>1. \A s \in Requests : Key(s)' = Key(s)
  BY DEF Key
<1>2. \A i \in Calls : <<i, 1>> \in Requests /\ <<i, 2>> \in Requests
  BY DEF Requests
<1>3. Begun'
  <2>1. \A s \in Requests : handler[s] = "none" =>
          handler'[s] = "none" /\ answer'[s] = answer[s]
    BY DEF Begun
  <2>2. \A s \in Requests : handler'[s] = "none" => answer'[s].kind = "none"
    BY DEF Begun
  <2>3. QED
    BY <1>2, <2>1, <2>2 DEF Begun
<1>4. Persisted'
  <2>1. ASSUME NEW s \in Requests, s # r,
               handler'[s] \in {"complete", "publish"} \/ answer'[s].kind = "sent"
        PROVE  rows'[Key(s)] > 0
    <3>1. handler[s] # "none"
      BY <2>1 DEF Begun
    <3>2. rows[Key(s)] > 0 /\ Key(s) \in Calls
      BY <2>1, <3>1, KeyFixed DEF Persisted
    <3>3. QED
      BY <3>2
  <2>2. QED
    BY <1>1, <2>1 DEF Persisted
<1>5. SentMeansPersisted'
  BY DEF SentMeansPersisted, Begun
<1>6. QED
  BY <1>3, <1>4, <1>5

LEMMA HandlerStepSendInv ==
  ASSUME SendInv, TypeOK', NEW r \in Requests, HandlerStep(r)
  PROVE  SendInv'
<1> USE DEF SendInv
<1> DEFINE Local(step, kind) ==
      /\ \A s \in Requests : s # r => handler'[s] = handler[s] /\ answer'[s] = answer[s]
      /\ handler'[r] = step /\ answer'[r].kind = kind
<1>0. UNCHANGED call /\ handler[r] # "none"
  BY DEF HandlerStep, ReadRecord, PlanSend, Claim, Find, Persist, Complete, Publish,
     Release, daemonVars
<1>1. Key(r) \in Calls
  BY <1>0, KeyFixed
<1>2. ASSUME NEW kind \in Answers, NEW sequence, Replies(r, kind, sequence)
      PROVE  Local("gone", IF answer[r].kind = "lost" THEN "lost" ELSE kind)
  BY <1>2 DEF Replies, Reply, TypeOK, Replied
<1>3. ASSUME NEW step \in Steps, Goes(r, step)
      PROVE  Local(step, answer[r].kind)
  BY <1>3 DEF Goes, TypeOK
<1>4. answer[r].kind = "sent" => rows[Key(r)] > 0
  BY DEF Persisted
<1>5. CASE ReadRecord(r)
  BY <1>0, <1>1, <1>2, <1>3, <1>4, <1>5, HandlerSendInv
     DEF ReadRecord, Persisted, Answers, Steps
<1>6. CASE PlanSend(r)
  <2>1. Local("gone", IF answer[r].kind = "lost" THEN "lost" ELSE "held")
          \/ Local("claim", answer[r].kind)
    <3>1. CASE Goes(r, "claim") \/ Replies(r, "held", latest)
      BY <1>2, <1>3, <3>1 DEF Steps, Answers
    <3>2. CASE /\ handler' = [handler EXCEPT ![r] = "claim"]
               /\ answer' = [answer EXCEPT ![r].seen = latest]
      BY <3>2 DEF TypeOK, Replied
    <3>3. QED
      BY <1>6, <3>1, <3>2 DEF PlanSend
  <2>2. UNCHANGED <<record, rows>>
    BY <1>6 DEF PlanSend
  <2>3. QED
    BY <1>0, <1>4, <2>1, <2>2, HandlerSendInv DEF Persisted
<1>7. CASE Claim(r)
  <2>1. Local("persist", answer[r].kind) \/ Local("find", answer[r].kind)
    BY <1>3, <1>7 DEF Claim, Steps
  <2>2. \A k \in Calls : record'[k].state = "completed" => record[k].state = "completed"
    BY <1>7 DEF Claim, TypeOK
  <2>3. UNCHANGED rows
    BY <1>7 DEF Claim
  <2>4. QED
    BY <1>0, <1>4, <2>1, <2>2, <2>3, HandlerSendInv DEF Persisted
<1>8. CASE Find(r)
  BY <1>0, <1>1, <1>2, <1>3, <1>4, <1>8, HandlerSendInv DEF Find, Persisted, Answers, Steps
<1>9. CASE Persist(r)
  <2>1. rows' = [k \in Calls |-> IF k = Key(r) THEN rows[k] + 1 ELSE rows[k]]
    BY <1>9 DEF Persist, TypeOK
  <2>2. \A k \in Calls : rows[k] \in Nat
    BY DEF TypeOK
  <2>3. (\A k \in Calls : rows[k] > 0 => rows'[k] > 0) /\ rows'[Key(r)] > 0
    BY <1>1, <2>1, <2>2
  <2>4. Local("complete", answer[r].kind) /\ UNCHANGED record
    BY <1>3, <1>9 DEF Persist, Steps
  <2>5. QED
    BY <1>0, <2>3, <2>4, HandlerSendInv DEF Persisted
<1>10. CASE Complete(r)
  <2>1. rows[Key(r)] > 0
    BY <1>10 DEF Complete, Persisted
  <2>2. \A k \in Calls : record'[k].state = "completed" =>
          record[k].state = "completed" \/ k = Key(r)
    BY <1>10 DEF Complete, TypeOK
  <2>3. Local("publish", answer[r].kind) /\ UNCHANGED rows
    BY <1>3, <1>10 DEF Complete, Steps
  <2>4. QED
    BY <1>0, <2>1, <2>2, <2>3, HandlerSendInv DEF Persisted
<1>11. CASE Publish(r)
  <2>1. rows[Key(r)] > 0 /\ UNCHANGED <<record, rows>>
    BY <1>11 DEF Publish, Persisted
  <2>2. Local("gone", IF answer[r].kind = "lost" THEN "lost" ELSE "sent")
    BY <1>2, <1>11 DEF Publish, Answers
  <2>3. QED
    BY <1>0, <2>1, <2>2, HandlerSendInv DEF Persisted
<1>12. CASE Release(r)
  <2>1. Local("gone", IF answer[r].kind = "lost" THEN "lost" ELSE "refused")
    BY <1>2, <1>12 DEF Release, Answers
  <2>2. \A k \in Calls : record'[k].state = "completed" => record[k].state = "completed"
    BY <1>12 DEF Release, TypeOK, NoRecord
  <2>3. UNCHANGED rows
    BY <1>12 DEF Release
  <2>4. QED
    BY <1>0, <2>1, <2>2, <2>3, HandlerSendInv DEF Persisted
<1>13. QED
  BY <1>5, <1>6, <1>7, <1>8, <1>9, <1>10, <1>11, <1>12 DEF HandlerStep

(* A step that touches no call, handler, answer or row keeps the evidence  *)
(* if it completes no record.                                              *)
LEMMA OtherSendInv ==
  ASSUME SendInv, TypeOK', UNCHANGED <<call, handler, answer, rows>>,
         \A k \in Calls : record'[k].state = "completed" => record[k].state = "completed"
  PROVE  SendInv'
<1> USE DEF SendInv
<1>1. Begun'
  BY DEF Begun
<1>2. Persisted' /\ SentMeansPersisted'
  BY DEF Persisted, SentMeansPersisted, Key
<1>3. QED
  BY <1>1, <1>2

LEMMA EventSendInv ==
  ASSUME SendInv, TypeOK', NEW kind \in Events, Event(kind)
  PROVE  SendInv'
<1> USE DEF SendInv, cloudVars, daemonVars
<1>1. CASE AgentReads \/ DraftExpires
  BY <1>1, OtherSendInv DEF AgentReads, DraftExpires
<1>2. ASSUME \A c \in Calls : /\ call'[c].key = call[c].key
                              /\ call'[c] = call[c] \/
                                   /\ call[c].phase # "idle" /\ call'[c].phase = "done"
                                   /\ call'[c].outcome = "failed",
             UNCHANGED cloudVars
      PROVE  SendInv'
  <2>1. \A r \in Requests : Key(r)' = Key(r)
    BY <1>2 DEF Key, Requests
  <2>2. Begun'
    BY <1>2 DEF Begun
  <2>3. Persisted' /\ SentMeansPersisted'
    BY <1>2, <2>1 DEF Persisted, SentMeansPersisted
  <2>4. QED
    BY <2>2, <2>3
<1>3. CASE DaemonCrashes
  <2>1. call \in [Calls -> CallRecords]
    BY DEF TypeOK
  <2>2. \A c \in Calls : /\ call'[c].key = call[c].key
                         /\ call'[c] = call[c] \/
                              /\ call[c].phase # "idle" /\ call'[c].phase = "done"
                              /\ call'[c].outcome = "failed"
    BY <1>3, <2>1 DEF DaemonCrashes, CallRecords
  <2>3. QED
    BY <1>2, <1>3, <2>2 DEF DaemonCrashes
<1>4. ASSUME NEW c \in Calls, ReconcileFails(c)
      PROVE  SendInv'
  BY <1>2, <1>4 DEF ReconcileFails, Finish, TypeOK, CallRecords
<1>5. ASSUME NEW r \in Requests, AnswerLost(r)
      PROVE  SendInv'
  <2>1. answer'[r].kind = "lost"
    BY <1>5 DEF AnswerLost, Reply, TypeOK
  <2>2. QED
    BY <1>5, <2>1, HandlerSendInv DEF AnswerLost, Persisted, TypeOK
<1>6. ASSUME NEW k \in Calls, ClaimLost(k)
      PROVE  SendInv'
  BY <1>6, OtherSendInv DEF ClaimLost, TypeOK, NoRecord
<1>7. ASSUME NEW r \in Requests, HandlerFails(r)
      PROVE  SendInv'
  <2>1. /\ handler[r] # "none" /\ handler'[r] \in {"gone", "release"}
        /\ answer'[r].kind = "sent" => answer[r].kind = "sent"
        /\ \A s \in Requests : s # r => handler'[s] = handler[s] /\ answer'[s] = answer[s]
    BY <1>7 DEF HandlerFails, Replies, Goes, Reply, TypeOK
  <2>2. QED
    BY <1>7, <2>1, HandlerSendInv DEF HandlerFails, Persisted
<1>8. ASSUME NEW r \in Requests, HandlerCrashes(r)
      PROVE  SendInv'
  <2>1. /\ handler[r] # "none" /\ handler'[r] = "gone" /\ answer'[r].kind = "lost"
        /\ \A s \in Requests : s # r => handler'[s] = handler[s] /\ answer'[s] = answer[s]
    BY <1>8 DEF HandlerCrashes, Reply, TypeOK
  <2>2. QED
    BY <1>8, <2>1, HandlerSendInv DEF HandlerCrashes, Persisted
<1>9. QED
  BY <1>1, <1>3, <1>4, <1>5, <1>6, <1>7, <1>8 DEF Event

LEMMA NextSendInv == SendInv /\ [Next]_vars => SendInv'
<1> SUFFICES ASSUME SendInv, [Next]_vars
             PROVE  SendInv'
  OBVIOUS
<1>1. TypeOK'
  BY NextTypeOK DEF SendInv
<1>2. ASSUME NEW k \in Calls, ClaimExpires(k)
      PROVE  SendInv'
  BY <1>1, <1>2, OtherSendInv DEF ClaimExpires, daemonVars, SendInv, TypeOK, NoRecord
<1>3. CASE Arrives \/ Notified \/ UNCHANGED vars
  BY <1>1, <1>3, OtherSendInv DEF Arrives, Notified, vars, daemonVars, cloudVars
<1>4. QED
  BY <1>1, <1>2, <1>3, CallStepSendInv, HandlerStepSendInv, EventSendInv DEF Next

(* A send is reported as sent only when its message exists, for any calls  *)
(* and any failures: settleAgentSend takes no lost or refused answer, and  *)
(* no unfinished claim, for a commit.                                      *)
THEOREM SentIsPersisted == Spec => []SentMeansPersisted
<1>1. SendInv => SentMeansPersisted
  BY DEF SendInv
<1>2. QED
  BY <1>1, InitSendInv, NextSendInv, PTL DEF Spec

LEMMA NextDraftSurvives == SendInv /\ [Next]_vars => [DraftSurvivesStep]_vars
<1> SUFFICES ASSUME SendInv, Next, draft.key # NoCall, draft'.key = NoCall
             PROVE  rows[draft.key] > 0 \/ DraftExpires
  BY DEF DraftSurvivesStep
<1> USE DEF SendInv
<1>1. ASSUME NEW c \in Calls, CallStep(c)
      PROVE  rows[draft.key] > 0
  <2>1. CASE FreshSend(c)
    BY <2>1, CallsAssumption DEF FreshSend
  <2>2. ASSUME NEW anyway \in BOOLEAN, ResendDraft(c, anyway)
        PROVE  FALSE
    BY <2>2 DEF ResendDraft
  <2>3. ASSUME NEW presented, Held(c, presented), call[c].phase # "idle"
        PROVE  FALSE
    BY <2>3, CallsAssumption DEF Held, Begun
  <2>4. ASSUME draft' = Cleared(call[c].key), rows[call[c].key] > 0
        PROVE  rows[draft.key] > 0
    BY <2>4 DEF Cleared
  <2>5. CASE PlanLocally(c)
    BY <2>3, <2>5 DEF PlanLocally
  <2>6. CASE Settle(c)
    <3>1. Attempt(c) \in Requests /\ Key(Attempt(c)) = call[c].key
      BY DEF Attempt, Requests, Key
    <3>2. answer[Attempt(c)].kind = "sent" => rows[call[c].key] > 0
      BY <3>1 DEF Persisted
    <3>3. QED
      BY <2>3, <2>4, <2>6, <3>2 DEF Settle
  <2>7. CASE Reconcile(c)
    <3>1. call[c].key \in Calls
      BY <2>7 DEF Reconcile, Begun
    <3>2. record[call[c].key].state = "completed" => rows[call[c].key] > 0
      BY <3>1 DEF Persisted
    <3>3. QED
      BY <2>4, <2>7, <3>2 DEF Reconcile
  <2>8. QED
    BY <1>1, <2>1, <2>2, <2>5, <2>6, <2>7 DEF CallStep
<1>2. ASSUME NEW r \in Requests, HandlerStep(r)
      PROVE  FALSE
  BY <1>2 DEF HandlerStep, ReadRecord, PlanSend, Claim, Find, Persist, Complete,
     Publish, Release, daemonVars
<1>3. ASSUME NEW kind \in Events, Event(kind)
      PROVE  DraftExpires
  BY <1>3 DEF Event, AgentReads, DaemonCrashes, AnswerLost, ReconcileFails, ClaimLost,
     HandlerFails, HandlerCrashes, daemonVars
<1>4. QED
  BY <1>1, <1>2, <1>3 DEF Next, ClaimExpires, Arrives, Notified, daemonVars

(* The draft of a send that did not commit outlives every other send:      *)
(* clearIfIdempotencyKeyMatches clears only the key it was called for,     *)
(* and that only for a send that did commit.                               *)
THEOREM DraftsSurvive == Spec => DraftSurvives
<1>1. QED
  BY InitSendInv, NextSendInv, NextDraftSurvives, PTL DEF Spec, DraftSurvives

-----------------------------------------------------------------------------
(* The requests about to persist a message under a key, whether the key's  *)
(* record keeps every other request from doing so, and whose claim it is.  *)
Persisting(k) == {r \in Requests : Key(r) = k /\ handler[r] = "persist"}
InFlight(k) == Cardinality(Persisting(k))
Holding(k) == /\ record[k].state = "processing"
              /\ handler[record[k].owner] \in {"persist", "complete"}
Protected(k) == IF record[k].state = "completed" \/ Holding(k) THEN 1 ELSE 0

Claimed == \A k \in Calls :
  IF record[k].state = "processing"
  THEN /\ record[k].owner \in Requests
       /\ Key(record[k].owner) = k /\ handler[record[k].owner] # "none"
  ELSE record[k].owner = NoRequest

(* Each message of a key, made or under way, is paid for by the record     *)
(* that protects it or by a window.                                        *)
Budget == \A k \in Calls : rows[k] + InFlight(k) <= windows[k] + Protected(k)

KeyInv == SendInv /\ Claimed /\ Budget

LEMMA RequestsFinite == IsFiniteSet(Requests)
<1>1. IsFiniteSet({} \cup {1})
  BY FS_EmptySet, FS_AddElement, Zenon
<1>2. IsFiniteSet({1, 2})
  <2>1. IsFiniteSet(({} \cup {1}) \cup {2})
    BY <1>1, FS_AddElement, Zenon
  <2>2. ({} \cup {1}) \cup {2} = {1, 2}
    OBVIOUS
  <2>3. QED
    BY <2>1, <2>2
<1>3. IsFiniteSet(Calls)
  BY CallsAssumption
<1>4. IsFiniteSet(Calls \X {1, 2})
  BY <1>2, <1>3, FS_Product, Zenon
<1>5. QED
  BY <1>4 DEF Requests

LEMMA InFlightType == ASSUME NEW k PROVE InFlight(k) \in Nat
  BY RequestsFinite, FS_Subset, FS_CardinalityType DEF InFlight, Persisting

LEMMA InitKeyInv == Init => KeyInv
<1> SUFFICES ASSUME Init
             PROVE  KeyInv
  OBVIOUS
<1>1. Claimed
  BY DEF Init, Claimed, NoRecord
<1>2. ASSUME NEW k \in Calls
      PROVE  rows[k] + InFlight(k) <= windows[k] + Protected(k)
  <2>1. Persisting(k) = {}
    BY DEF Init, Persisting
  <2>2. InFlight(k) = 0
    BY <2>1, FS_EmptySet DEF InFlight
  <2>3. Protected(k) \in {0, 1} /\ rows[k] = 0 /\ windows[k] = 0
    BY DEF Protected, Init
  <2>4. QED
    BY <2>2, <2>3
<1>3. QED
  BY <1>1, <1>2, InitSendInv DEF KeyInv, Budget

(* A step that starts or leaves alone every handler's work.                *)
LEMMA QuietKeyInv ==
  ASSUME KeyInv, SendInv', UNCHANGED <<record, rows, windows>>,
         \A r \in Requests : handler[r] # "none" =>
           handler'[r] = handler[r] /\ Key(r)' = Key(r),
         \A r \in Requests : handler[r] = "none" => handler'[r] \in {"none", "sent"}
  PROVE  KeyInv'
<1>1. Claimed'
  BY DEF Claimed, KeyInv
<1>2. ASSUME NEW k \in Calls
      PROVE  (rows[k] + InFlight(k) <= windows[k] + Protected(k))'
  <2>1. Persisting(k)' = Persisting(k)
    BY DEF Persisting
  <2>2. Protected(k)' = Protected(k)
    BY DEF Protected, Holding, Claimed, KeyInv
  <2>3. QED
    BY <2>1, <2>2 DEF KeyInv, Budget, InFlight
<1>3. QED
  BY <1>1, <1>2 DEF KeyInv, Budget

(* One handler's step changes only its own key's count.                    *)
LEMMA HandlerCount ==
  ASSUME TypeOK, UNCHANGED call, NEW r \in Requests, NEW step,
         handler' = [handler EXCEPT ![r] = step], NEW k \in Calls
  PROVE  InFlight(k)' =
           InFlight(k) + (IF Key(r) = k /\ step = "persist" THEN 1 ELSE 0)
             - (IF Key(r) = k /\ handler[r] = "persist" THEN 1 ELSE 0)
<1>1. IsFiniteSet(Persisting(k))
  BY RequestsFinite, FS_Subset DEF Persisting
<1>2. \A s \in Requests : Key(s)' = Key(s)
  BY DEF Key
<1>3. \A s \in Requests : handler'[s] = IF s = r THEN step ELSE handler[s]
  BY DEF TypeOK
<1>4. CASE Key(r) # k
  <2>1. Persisting(k)' = Persisting(k)
    BY <1>2, <1>3, <1>4 DEF Persisting
  <2>2. QED
    BY <1>4, <2>1, InFlightType DEF InFlight
<1>5. CASE Key(r) = k /\ step = "persist"
  <2>1. Persisting(k)' = Persisting(k) \cup {r}
    BY <1>2, <1>3, <1>5 DEF Persisting
  <2>2. r \in Persisting(k) <=> handler[r] = "persist"
    BY <1>5 DEF Persisting
  <2>3. Cardinality(Persisting(k)') =
          IF r \in Persisting(k) THEN Cardinality(Persisting(k))
          ELSE Cardinality(Persisting(k)) + 1
    BY <1>1, <2>1, FS_AddElement
  <2>4. QED
    BY <1>5, <2>2, <2>3, InFlightType DEF InFlight
<1>6. CASE Key(r) = k /\ step # "persist"
  <2>1. Persisting(k)' = Persisting(k) \ {r}
    BY <1>2, <1>3, <1>6 DEF Persisting
  <2>2. r \in Persisting(k) <=> handler[r] = "persist"
    BY <1>6 DEF Persisting
  <2>3. Cardinality(Persisting(k)') =
          IF r \in Persisting(k) THEN Cardinality(Persisting(k)) - 1
          ELSE Cardinality(Persisting(k))
    BY <1>1, <2>1, FS_RemoveElement
  <2>4. QED
    BY <1>6, <2>2, <2>3, InFlightType DEF InFlight
<1>7. QED
  BY <1>4, <1>5, <1>6

LEMMA HandlerStepKeyInv ==
  ASSUME KeyInv, SendInv', NEW r \in Requests, HandlerStep(r)
  PROVE  KeyInv'
<1> USE DEF KeyInv
<1> DEFINE k0 == Key(r)
           Step(step) == handler' = [handler EXCEPT ![r] = step]
           Old(k) == IF k = k0 /\ handler[r] = "persist" THEN 1 ELSE 0
           New(k, step) == IF k = k0 /\ step = "persist" THEN 1 ELSE 0
<1>0. /\ TypeOK /\ TypeOK' /\ UNCHANGED <<call, windows>>
      /\ handler[r] # "none" /\ NoRequest \notin Requests
  BY CallsAssumption DEF SendInv, HandlerStep, ReadRecord, PlanSend, Claim, Find, Persist,
     Complete, Publish, Release, daemonVars, NoRequest, Requests
<1>1. k0 \in Calls /\ \A s \in Requests : Key(s)' = Key(s)
  BY <1>0, KeyFixed DEF Key
<1>2. \A k \in Calls :
        /\ rows[k] \in Nat /\ rows'[k] \in Nat /\ windows[k] \in Nat
        /\ InFlight(k) \in Nat /\ Protected(k) \in {0, 1}
        /\ rows[k] + InFlight(k) <= windows[k] + Protected(k)
  BY <1>0, InFlightType DEF TypeOK, Budget, Protected
<1>3. ASSUME NEW step \in Steps, Step(step), NEW k \in Calls
      PROVE  InFlight(k)' = InFlight(k) + New(k, step) - Old(k)
  BY <1>0, <1>3, HandlerCount
<1>4. ASSUME NEW step \in Steps \ {"none"}, Step(step)
      PROVE  \A s \in Requests : handler[s] # "none" => handler'[s] # "none"
  BY <1>0, <1>4 DEF TypeOK
<1>5. ASSUME NEW step \in {"claim", "plan", "find", "gone", "publish"}, Step(step),
             handler[r] \notin {"persist", "complete"}, UNCHANGED <<record, rows>>
      PROVE  KeyInv'
  <2>1. Claimed'
    BY <1>1, <1>4, <1>5 DEF Claimed, Steps
  <2>2. ASSUME NEW k \in Calls
        PROVE  InFlight(k)' = InFlight(k) /\ Protected(k)' = Protected(k)
    <3>1. InFlight(k)' = InFlight(k) + New(k, step) - Old(k)
      BY <1>3, <1>5 DEF Steps
    <3>2. New(k, step) = 0 /\ Old(k) = 0
      BY <1>5
    <3>3. InFlight(k)' = InFlight(k)
      BY <1>2, <3>1, <3>2
    <3>4. Protected(k)' = Protected(k)
      BY <1>0, <1>5 DEF Protected, Holding, Claimed, TypeOK
    <3>5. QED
      BY <3>3, <3>4
  <2>3. Budget'
    BY <1>0, <1>2, <1>5, <2>2 DEF Budget
  <2>4. QED
    BY <2>1, <2>3
<1>6. CASE ReadRecord(r) \/ PlanSend(r) \/ Find(r) \/ Publish(r)
  BY <1>5, <1>6 DEF ReadRecord, PlanSend, Find, Publish, Replies, Goes
<1>7. CASE Claim(r)
  <2>1. CASE /\ record[k0].state = "none" /\ Step("persist")
             /\ record' = [record EXCEPT ![k0] = [state |-> "processing", owner |-> r]]
    <3>1. Claimed'
      BY <1>0, <1>1, <1>4, <2>1 DEF Claimed, Steps, TypeOK
    <3>2. ASSUME NEW k \in Calls
          PROVE  (rows[k] + InFlight(k) <= windows[k] + Protected(k))'
      <4>1. UNCHANGED rows /\ handler[r] = "claim"
        BY <1>7 DEF Claim
      <4>2. InFlight(k)' = InFlight(k) + (IF k = k0 THEN 1 ELSE 0)
        BY <1>2, <1>3, <2>1, <4>1 DEF Steps
      <4>3. k = k0 => Protected(k) = 0 /\ Protected(k)' = 1
        BY <1>0, <1>1, <2>1 DEF Protected, Holding, TypeOK
      <4>4. k # k0 => Protected(k)' = Protected(k)
        BY <1>0, <2>1, <4>1 DEF Protected, Holding, Claimed, TypeOK
      <4>5. QED
        BY <1>0, <1>2, <4>1, <4>2, <4>3, <4>4
    <3>3. QED
      BY <3>1, <3>2 DEF Budget
  <2>2. CASE Step("find") /\ UNCHANGED record
    BY <1>5, <1>7, <2>2 DEF Claim
  <2>3. QED
    BY <1>7, <2>1, <2>2 DEF Claim, Claimable, Goes
<1>8. CASE Persist(r)
  <2>1. /\ handler[r] = "persist" /\ Step("complete") /\ UNCHANGED record
        /\ rows' = [k \in Calls |-> IF k = k0 THEN rows[k] + 1 ELSE rows[k]]
    BY <1>0, <1>8 DEF Persist, Goes, TypeOK
  <2>2. Claimed'
    BY <1>1, <1>4, <2>1 DEF Claimed, Steps
  <2>3. ASSUME NEW k \in Calls
        PROVE  (rows[k] + InFlight(k) <= windows[k] + Protected(k))'
    <3>1. InFlight(k)' = InFlight(k) - (IF k = k0 THEN 1 ELSE 0)
      BY <1>2, <1>3, <2>1 DEF Steps
    <3>2. Protected(k)' = Protected(k)
      BY <1>0, <2>1 DEF Protected, Holding, Claimed, TypeOK
    <3>3. rows'[k] = rows[k] + (IF k = k0 THEN 1 ELSE 0)
      BY <1>2, <2>1
    <3>4. QED
      BY <1>0, <1>2, <3>1, <3>2, <3>3
  <2>4. QED
    BY <2>2, <2>3 DEF Budget
<1>9. CASE Complete(r)
  <2>1. /\ handler[r] = "complete" /\ Step("publish") /\ UNCHANGED rows
        /\ record' = [record EXCEPT ![k0] = [state |-> "completed", owner |-> NoRequest]]
    BY <1>9 DEF Complete, Goes
  <2>2. Claimed'
    BY <1>0, <1>1, <1>4, <2>1 DEF Claimed, Steps, TypeOK
  <2>3. ASSUME NEW k \in Calls
        PROVE  (rows[k] + InFlight(k) <= windows[k] + Protected(k))'
    <3>1. InFlight(k)' = InFlight(k)
      BY <1>2, <1>3, <2>1 DEF Steps
    <3>2. k = k0 => Protected(k)' = 1
      BY <1>0, <2>1 DEF Protected, TypeOK
    <3>3. k # k0 => Protected(k)' = Protected(k)
      BY <1>0, <2>1 DEF Protected, Holding, Claimed, TypeOK
    <3>4. QED
      BY <1>0, <1>2, <2>1, <3>1, <3>2, <3>3
  <2>4. QED
    BY <2>2, <2>3 DEF Budget
<1>10. CASE Release(r)
  <2>1. /\ handler[r] = "release" /\ Step("gone") /\ UNCHANGED rows
        /\ record' = IF record[k0].owner = r
                     THEN [record EXCEPT ![k0] = NoRecord] ELSE record
    BY <1>10 DEF Release, Replies
  <2>2. Claimed'
    BY <1>0, <1>1, <1>4, <2>1 DEF Claimed, Steps, TypeOK, NoRecord
  <2>3. ASSUME NEW k \in Calls
        PROVE  (rows[k] + InFlight(k) <= windows[k] + Protected(k))'
    <3>1. InFlight(k)' = InFlight(k)
      BY <1>2, <1>3, <2>1 DEF Steps
    <3>2. Protected(k)' = Protected(k)
      BY <1>0, <1>1, <2>1 DEF Protected, Holding, Claimed, TypeOK, NoRecord
    <3>3. QED
      BY <1>0, <1>2, <2>1, <3>1, <3>2
  <2>4. QED
    BY <2>2, <2>3 DEF Budget
<1>11. QED
  BY <1>6, <1>7, <1>8, <1>9, <1>10 DEF HandlerStep

(* A claim that goes with nobody working under it, or under a window.      *)
LEMMA ClaimGoneKeyInv ==
  ASSUME KeyInv, SendInv', NEW k \in Calls, UNCHANGED <<call, handler, rows>>,
         record[k].state = "processing", record' = [record EXCEPT ![k] = NoRecord],
         \/ ~Holding(k) /\ UNCHANGED windows
         \/ Opens(k)
  PROVE  KeyInv'
<1> USE DEF KeyInv
<1>0. TypeOK /\ TypeOK'
  BY DEF SendInv
<1>1. Claimed'
  BY <1>0 DEF Claimed, TypeOK, NoRecord, Key
<1>2. ASSUME NEW i \in Calls
      PROVE  (rows[i] + InFlight(i) <= windows[i] + Protected(i))'
  <2>1. InFlight(i)' = InFlight(i)
    BY DEF InFlight, Persisting, Key
  <2>2. i # k => Protected(i)' = Protected(i)
    BY <1>0 DEF Protected, Holding, TypeOK
  <2>3. Protected(i) \in {0, 1} /\ Protected(i)' \in {0, 1}
    BY DEF Protected
  <2>4. i = k /\ ~Holding(k) => Protected(i) = 0
    BY DEF Protected
  <2>5. i # k => windows'[i] = windows[i]
    BY <1>0 DEF Opens, TypeOK
  <2>6. windows'[k] = windows[k] \/ windows'[k] = windows[k] + 1
    BY <1>0 DEF Opens, TypeOK
  <2>7. ~Holding(k) \/ windows'[k] = windows[k] + 1
    BY <1>0 DEF Opens, TypeOK
  <2>8. /\ rows[i] \in Nat /\ windows[i] \in Nat /\ InFlight(i) \in Nat
        /\ rows[i] + InFlight(i) <= windows[i] + Protected(i)
    BY <1>0, InFlightType DEF TypeOK, Budget
  <2>9. QED
    BY <2>1, <2>2, <2>3, <2>4, <2>5, <2>6, <2>7, <2>8
<1>3. QED
  BY <1>1, <1>2 DEF Budget

(* A handler that fails or dies; one whose message exists opens a window.  *)
LEMMA HandlerEndsKeyInv ==
  ASSUME KeyInv, SendInv', NEW r \in Requests, NEW step \in {"gone", "release"},
         UNCHANGED <<call, record, rows>>, handler[r] # "none",
         handler' = [handler EXCEPT ![r] = step],
         IF handler[r] = "complete" THEN Opens(Key(r)) ELSE UNCHANGED windows
  PROVE  KeyInv'
<1> USE DEF KeyInv
<1>0. TypeOK /\ TypeOK'
  BY DEF SendInv
<1>1. Key(r) \in Calls /\ \A s \in Requests : Key(s)' = Key(s)
  BY KeyFixed DEF Key
<1>2. Claimed'
  BY <1>0, <1>1 DEF Claimed, TypeOK
<1>3. ASSUME NEW k \in Calls
      PROVE  (rows[k] + InFlight(k) <= windows[k] + Protected(k))'
  <2>1. InFlight(k)' =
          InFlight(k) - (IF Key(r) = k /\ handler[r] = "persist" THEN 1 ELSE 0)
    <3>1. InFlight(k)' =
            InFlight(k) + (IF Key(r) = k /\ step = "persist" THEN 1 ELSE 0)
              - (IF Key(r) = k /\ handler[r] = "persist" THEN 1 ELSE 0)
      BY <1>0, HandlerCount
    <3>2. InFlight(k) \in Nat
      BY InFlightType
    <3>3. QED
      BY <3>1, <3>2
  <2>2. k # Key(r) => Protected(k)' = Protected(k)
    BY <1>0 DEF Protected, Holding, Claimed, TypeOK
  <2>3. Protected(k) \in {0, 1} /\ Protected(k)' \in {0, 1}
    BY DEF Protected
  <2>4. handler[r] \notin {"persist", "complete"} => Protected(k)' = Protected(k)
    BY <1>0 DEF Protected, Holding, Claimed, TypeOK
  <2>5. windows'[k] =
          windows[k] + (IF k = Key(r) /\ handler[r] = "complete" THEN 1 ELSE 0)
    BY <1>0, <1>1 DEF Opens, TypeOK
  <2>6. /\ rows[k] \in Nat /\ windows[k] \in Nat /\ InFlight(k) \in Nat
        /\ rows[k] + InFlight(k) <= windows[k] + Protected(k)
    BY <1>0, InFlightType DEF TypeOK, Budget
  <2>7. QED
    BY <2>1, <2>2, <2>3, <2>4, <2>5, <2>6
<1>4. QED
  BY <1>2, <1>3 DEF Budget

LEMMA EventKeyInv ==
  ASSUME KeyInv, SendInv', NEW kind \in Events, Event(kind)
  PROVE  KeyInv'
<1>1. CASE AgentReads \/ DraftExpires
  BY <1>1, QuietKeyInv DEF AgentReads, DraftExpires, cloudVars, Key
<1>2. ASSUME UNCHANGED cloudVars, \A c \in Calls : call'[c].key = call[c].key
      PROVE  KeyInv'
  BY <1>2, QuietKeyInv DEF cloudVars, Key, Requests
<1>3. CASE DaemonCrashes
  BY <1>2, <1>3 DEF DaemonCrashes, KeyInv, SendInv, TypeOK, CallRecords
<1>4. ASSUME NEW c \in Calls, ReconcileFails(c)
      PROVE  KeyInv'
  BY <1>2, <1>4 DEF ReconcileFails, Finish, KeyInv, SendInv, TypeOK, CallRecords
<1>5. ASSUME NEW r \in Requests, AnswerLost(r)
      PROVE  KeyInv'
  BY <1>5, QuietKeyInv DEF AnswerLost, daemonVars, Key
<1>6. ASSUME NEW k \in Calls, ClaimLost(k)
      PROVE  KeyInv'
  <2>1. handler[record[k].owner] = "release" => ~Holding(k)
    BY DEF Holding
  <2>2. QED
    BY <1>6, <2>1, ClaimGoneKeyInv DEF ClaimLost, daemonVars
<1>7. ASSUME NEW r \in Requests, HandlerFails(r)
      PROVE  KeyInv'
  BY <1>7, HandlerEndsKeyInv DEF HandlerFails, Replies, Goes, daemonVars
<1>8. ASSUME NEW r \in Requests, HandlerCrashes(r)
      PROVE  KeyInv'
  BY <1>8, HandlerEndsKeyInv DEF HandlerCrashes, daemonVars
<1>9. QED
  BY <1>1, <1>3, <1>4, <1>5, <1>6, <1>7, <1>8 DEF Event

LEMMA CallStepKeyInv ==
  ASSUME KeyInv, SendInv', NEW c \in Calls, CallStep(c)
  PROVE  KeyInv'
<1> USE DEF KeyInv, SendInv
<1>1. UNCHANGED <<record, rows, windows>>
  BY DEF CallStep, FreshSend, ResendDraft, PlanLocally, Settle, Reconcile, cloudVars
<1>2. <<c, 1>> \in Requests /\ <<c, 2>> \in Requests
  BY DEF Requests
<1>3. \A r \in Requests :
        /\ handler[r] # "none" => handler'[r] = handler[r]
        /\ handler[r] = "none" => handler'[r] \in {"none", "sent"}
  <2>1. CASE UNCHANGED handler
    BY <2>1
  <2>2. CASE PlanLocally(c)
    BY <1>2, <2>2 DEF PlanLocally, Begun, TypeOK
  <2>3. CASE Reconcile(c)
    BY <1>2, <2>3 DEF Reconcile, Begun, TypeOK
  <2>4. QED
    BY <2>1, <2>2, <2>3 DEF CallStep, FreshSend, ResendDraft, Settle, cloudVars
<1>4. \A i \in Calls : call[i].phase # "idle" => call'[i].key = call[i].key
  BY DEF CallStep, FreshSend, ResendDraft, PlanLocally, Settle, Reconcile, Begin, Held,
     Finish, TypeOK, CallRecords
<1>5. \A r \in Requests : handler[r] # "none" => Key(r)' = Key(r)
  BY <1>4, KeyFixed DEF Key, Requests
<1>6. QED
  BY <1>1, <1>3, <1>5, QuietKeyInv

LEMMA NextKeyInv == KeyInv /\ [Next]_vars => KeyInv'
<1> SUFFICES ASSUME KeyInv, [Next]_vars
             PROVE  KeyInv'
  OBVIOUS
<1>1. SendInv'
  BY NextSendInv DEF KeyInv
<1>2. ASSUME NEW k \in Calls, ClaimExpires(k)
      PROVE  KeyInv'
  BY <1>1, <1>2, ClaimGoneKeyInv DEF ClaimExpires, Expirable, Working, Holding, daemonVars
<1>3. CASE Arrives \/ Notified \/ UNCHANGED vars
  BY <1>1, <1>3, QuietKeyInv DEF Arrives, Notified, vars, daemonVars, cloudVars, Key
<1>4. QED
  BY <1>1, <1>2, <1>3, CallStepKeyInv, HandlerStepKeyInv, EventKeyInv DEF Next

(* One idempotency key makes one message, whatever is lost, retried or     *)
(* repeated: a further one needs a window in which the row exists and the  *)
(* key's record does not (RedisMessageRequestIdempotency.execute).         *)
THEOREM OneMessage == Spec => []OneMessagePerKey
<1>1. KeyInv => OneMessagePerKey
  <2> SUFFICES ASSUME KeyInv, NEW k \in Calls
               PROVE  rows[k] <= 1 + windows[k]
    BY DEF OneMessagePerKey
  <2>1. /\ rows[k] \in Nat /\ windows[k] \in Nat /\ InFlight(k) \in Nat
        /\ Protected(k) \in {0, 1} /\ rows[k] + InFlight(k) <= windows[k] + Protected(k)
    BY InFlightType DEF KeyInv, SendInv, TypeOK, Budget, Protected
  <2>2. QED
    BY <2>1
<1>2. QED
  BY <1>1, InitKeyInv, NextKeyInv, PTL DEF Spec
==============================================================================
