--------------------------- MODULE MentionProtocol ---------------------------
(***************************************************************************)
(* What the cloud and a Computer's daemon exchange about tracked @mentions *)
(* of one Agent: the envelope a push carries, the reports the daemon sends *)
(* back, and the terminal codes.  A delivery, a launch and a native        *)
(* session are opaque ids in the code; here launches and sessions are      *)
(* numbered in the order they are minted, and 0 stands for "none".         *)
(***************************************************************************)
EXTENDS Naturals

CONSTANTS
  Deliveries,   \* the deliveries that mention the Agent
  MaxLaunch,    \* bound: launch ids the server may mint
  MaxSession    \* bound: native sessions a provider may create

ASSUME BoundsAssumption == MaxLaunch \in Nat \ {0} /\ MaxSession \in Nat \ {0}

VARIABLES
  pushes,       \* deliveries published to the daemon and not yet handled there
  reports,      \* daemon reports sent and not yet handled by the server
  forgotten     \* history: the <<delivery, envelope>> pairs let go of, and
                \* not pushed again since

channels == <<pushes, reports, forgotten>>

(* MentionDeliveryEnvelope: the launch and session a push was issued for.  *)
(* The Computer and the message id are fixed: one Computer, well-formed    *)
(* envelopes.  NoIdentity is an absent envelope (a plain wake).            *)
Identity == [launch : 1..MaxLaunch, session : 1..MaxSession]
NoIdentity == [launch |-> 0, session |-> 0]
Envelope == Identity \cup {NoIdentity}

(* MENTION_DELIVERY_TERMINAL_CODES a well-formed envelope can lead to.     *)
TerminalCodes ==
  {"IDENTITY_UNKNOWN", "IDENTITY_DRIFT", "DELIVERY_REJECTED", "QUOTA_LIMITED"}

Push(d, env) == [delivery |-> d, env |-> env]
Ack(d, env) == [kind |-> "ack", delivery |-> d, env |-> env, code |-> "none"]
TerminalError(d, env, code) ==
  [kind |-> "error", delivery |-> d, env |-> env, code |-> code]

Pushes == [delivery : Deliveries, env : Envelope]
Reports == [kind : {"ack", "error"}, delivery : Deliveries, env : Envelope,
            code : TerminalCodes \cup {"none"}]

ProtocolTypeOK ==
  /\ pushes \subseteq Pushes /\ reports \subseteq Reports
  /\ forgotten \subseteq Deliveries \X Envelope

(* The mention and the envelope a push or a report is about.               *)
Pair(m) == <<m.delivery, m.env>>

(* Pushes go out; no step reads what was forgotten before.                 *)
Publish(S) == /\ pushes' = pushes \cup S
              /\ forgotten' = forgotten \ {Pair(m) : m \in S}

(* The transport gives no delivery guarantee: a publication misses a       *)
(* daemon that is away, a report that cannot be sent is only logged, and   *)
(* a Stop closes the daemon's input queue over what waits in it.           *)
LosePush == \E m \in pushes :
  /\ pushes' = pushes \ {m} /\ forgotten' = forgotten \cup {Pair(m)}
  /\ UNCHANGED reports

LoseReport == \E m \in reports :
  /\ reports' = reports \ {m} /\ forgotten' = forgotten \cup {Pair(m)}
  /\ UNCHANGED pushes
=============================================================================
