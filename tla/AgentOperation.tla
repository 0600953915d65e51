---------------------------- MODULE AgentOperation ----------------------------
(***************************************************************************)
(* What Agent control promises an owner, seen from outside: there is one   *)
(* current operation, a newer one replaces it, and it completes only after *)
(* the steps its action stands for were really taken on the Computer, one  *)
(* after another, for this operation and for no older one.                 *)
(***************************************************************************)
EXTENDS Naturals, Sequences

VARIABLES
  epoch,     \* the current operation
  action,    \* the button it comes from
  confirmed, \* steps the cloud knows to be taken
  taken,     \* steps taken on the Computer for this operation
  outcome    \* pending, completed or failed

vars == <<epoch, action, confirmed, taken, outcome>>

Actions == {"none", "start", "stop", "restart", "reset-session", "full-reset"}

(* The steps the Computer takes; clearing a session is the cloud's own.    *)
Steps(a) ==
  CASE a = "none"       -> <<>>
    [] a = "start"      -> <<"start">>
    [] a = "stop"       -> <<"stop">>
    [] a = "full-reset" -> <<"stop", "reset-workspace", "start">>
    [] OTHER            -> <<"stop", "start">>

Init == epoch = 0 /\ action = "none" /\ confirmed = 0 /\ taken = 0 /\ outcome = "completed"

Begin ==
  /\ epoch' = epoch + 1 /\ action' \in Actions \ {"none"}
  /\ confirmed' = 0 /\ taken' = 0 /\ outcome' = "pending"

Take ==
  /\ outcome = "pending" /\ taken = confirmed /\ taken < Len(Steps(action))
  /\ taken' = taken + 1
  /\ UNCHANGED <<epoch, action, confirmed, outcome>>

Confirm ==
  /\ outcome = "pending" /\ taken = confirmed + 1
  /\ confirmed' = taken
  /\ outcome' \in {"pending"} \cup {o \in {"completed"} : taken = Len(Steps(action))}
  /\ UNCHANGED <<epoch, action, taken>>

Complete ==
  /\ outcome = "pending" /\ confirmed = Len(Steps(action))
  /\ outcome' = "completed"
  /\ UNCHANGED <<epoch, action, confirmed, taken>>

(* How far a failed operation came is not told.                            *)
Fail ==
  /\ outcome = "pending" /\ outcome' = "failed"
  /\ confirmed' = 0 /\ taken' = 0
  /\ UNCHANGED <<epoch, action>>

Next == Begin \/ Take \/ Confirm \/ Complete \/ Fail

Spec == Init /\ [][Next]_vars
=============================================================================
