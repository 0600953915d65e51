-------------------------- MODULE MCMentionDelivery --------------------------
(* MentionDelivery on small instances. *)
EXTENDS MentionDelivery, TLC

CONSTANT MaxInFlight  \* bound: messages, calls and jobs under way at a time

InFlight ==
  Cardinality(pushes) + Cardinality(reports) + Cardinality(calls)
    + Cardinality(started) + Cardinality({k \in JobKinds : jobs[k].phase # "idle"})

(* No action tells the deliveries apart.                                   *)
DeliverySymmetry == Permutations(Deliveries)

FewInFlight == InFlight <= MaxInFlight

(* Mentions that have been sent.                                           *)
SentMentions == {d \in Deliveries : row[d].outcome # "none"}

(* Two mentions of one Agent see one event together; one alone sees all.   *)
AloneInLaterEvents == events > 1 => Cardinality(SentMentions) <= 1

(* Less is under way at a time once a second event has happened, or once   *)
(* two mentions share an event.                                            *)
FewerAfterEvents == events > 1 => InFlight < MaxInFlight
FewerForTwo ==
  events > 0 /\ Cardinality(SentMentions) > 1 => InFlight < MaxInFlight
==============================================================================
