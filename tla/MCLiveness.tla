----------------------------- MODULE MCLiveness -----------------------------
(* What has to happen eventually on the server: a request ends, an event is *)
(* settled.  A behaviour moves one of the two models, the other one stays   *)
(* where it starts, where none of its fair steps is possible.               *)
EXTENDS MCCommandProtocol

CONSTANTS k1, Events, Workers, Readers, BatchLimit, FeedLimit, Replayable, Pruning,
          MaxTries, MaxFaults, MaxControls
VARIABLES state, seq, head, floor, gen, tries, due, lease, day, old, paused,
          job, claim, num, res, received, cursor, base, got, faults, controls,
          model   \* which of the two models moves

Delivery == INSTANCE EventDelivery
deliveryVars == <<state, seq, head, floor, gen, tries, due, lease, day, old, paused,
                  job, claim, num, res, received, cursor, base, got, faults, controls>>

MCLiveInit ==
    /\ MCPreviewed
    /\ Delivery!Init
    /\ model \in {"protocol", "delivery"}
    /\ model = "protocol" => paused

(* Each Preview is confirmed under a key of its own, which may be retried;   *)
(* the key of the first one may be resolved.                                *)
OwnKeys ==
    \A r \in Requests :
        /\ call[r].op = "confirm" => (call[r].key = k1 <=> call[r].preview = p1)
        /\ call[r].op = "resolve" => call[r].key = k1

MCLiveNext ==
    \/ model = "protocol" /\ Next /\ OwnKeys' /\ UNCHANGED <<deliveryVars, model>>
    \/ model = "delivery" /\ Delivery!Next /\ UNCHANGED <<vars, model>>

MCLiveSpec ==
    /\ MCLiveInit
    /\ [][MCLiveNext]_<<vars, deliveryVars, model>>
    /\ Fairness
    /\ Delivery!Fairness

(* Every published event ends accepted, dead, pruned or on a paused          *)
(* subscription (integration-worker.ts, runOnce).                           *)
Settles == Delivery!Settles
=============================================================================
