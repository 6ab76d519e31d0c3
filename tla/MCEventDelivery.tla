-------------------------- MODULE MCEventDelivery --------------------------
(* Instances of EventDelivery for TLC. *)
EXTENDS EventDelivery, TLC

Symmetry == Permutations(Events) \cup Permutations(Workers)

(* A run may look at one event under faults and controls, or at a feed of   *)
(* several events without them.                                             *)
Delivering ==
    /\ Cardinality({e \in Events : state[e] # "absent"}) <= 1
    /\ \A r \in Readers : cursor[r] = NoCursor
Feeding ==
    /\ faults = 0 /\ controls = 0
    /\ \A e \in Events : tries[e] <= 1
    /\ Cardinality({w \in Workers : job[w] # "idle"}) <= 2
FeedOrDelivery == Feeding \/ Delivering
=============================================================================
