--------------------------- MODULE CommandLedger ---------------------------
(***************************************************************************)
(* What the command protocol promises its clients: commands are offered    *)
(* with an effect, and every idempotency key is decided once, either by    *)
(* executing one offer atomically, in a state that has the effect offered, *)
(* or by rejecting.  An offer takes effect at most once.                   *)
(***************************************************************************)
EXTENDS Integers

CONSTANTS Keys, Previews, Commands, Resources, Values,
          Effect(_, _), Applied(_, _), NoPreview

VARIABLES
    outcome,    \* "undecided", "rejected" or the Preview a key executed
    offer,      \* the command and the effect a Preview shows
    effects,    \* how often a Preview's command took effect
    world       \* the business state

ledgerVars == <<outcome, offer, effects, world>>

Init ==
    /\ outcome = [k \in Keys |-> "undecided"]
    /\ offer = [p \in Previews |-> NoPreview]
    /\ effects = [p \in Previews |-> 0]
    /\ world \in [Resources -> Values]

(* An offer may show a state that is past. *)
Offer(p, c) ==
    /\ offer[p] = NoPreview
    /\ \E w \in [Resources -> Values] :
           offer' = [offer EXCEPT ![p] = [cmd |-> c, shown |-> Effect(c, w)]]
    /\ UNCHANGED <<outcome, effects, world>>

Execute(k, p) ==
    /\ outcome[k] = "undecided"
    /\ offer[p] # NoPreview
    /\ effects[p] = 0
    /\ Effect(offer[p].cmd, world) = offer[p].shown
    /\ outcome' = [outcome EXCEPT ![k] = p]
    /\ effects' = [effects EXCEPT ![p] = 1]
    /\ world' = Applied(offer[p].cmd, world)
    /\ UNCHANGED offer

Reject(k) ==
    /\ outcome[k] = "undecided"
    /\ outcome' = [outcome EXCEPT ![k] = "rejected"]
    /\ UNCHANGED <<offer, effects, world>>

(* A rejection may also close its Preview, which no client can tell apart   *)
(* from a Preview that stays unconfirmed.                                   *)
Next ==
    \/ \E p \in Previews, c \in Commands : Offer(p, c)
    \/ \E k \in Keys, p \in Previews : Execute(k, p)
    \/ \E k \in Keys : Reject(k)

Spec == Init /\ [][Next]_ledgerVars
=============================================================================
