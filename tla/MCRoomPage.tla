----------------------------- MODULE MCRoomPage -----------------------------
(* The room page, checked in one run: booking from its form (Booking) and   *)
(* the board it keeps up to date (BoardClient).  A behaviour moves one of   *)
(* the two models, the other one stays where it starts.                    *)
EXTENDS Booking, BoardClient, TLC

-----------------------------------------------------------------------------
(* A twin room sold by the bed or whole and a suite; baselines of two days, *)
(* one rate each to publish; a lot of two suite nights.                   *)

A4(a, b, c, d) == 1 :> a @@ 7 :> b @@ 14 :> c @@ 30 :> d

MCTypeOf == [u \in Units |-> IF u = "suite" THEN "S" ELSE "T"]
MCFactor == [u \in Units |-> IF u = "twin" THEN 2 ELSE 1]
MCKind == [u \in Units |-> IF u = "bed" THEN "BED" ELSE "ROOM"]
MCRate ==
    "t0" :> A4(8850, 45050, 80000, 150000) @@ "t1" :> A4(9910, 50030, 90010, 160000)
    @@ "s0" :> A4(16800, 99950, 180000, 330000) @@ "s1" :> A4(17800, 99950, 180000, 330000)
    @@ "s2" :> A4(17050, 88880, 170000, 300000)
MCBaselines == 0 :> ("T" :> "t0" @@ "S" :> "s0") @@ 2 :> ("T" :> "t0" @@ "S" :> "s1")
MCNewRates == "T" :> {"t1"} @@ "S" :> {"s2"}
MCLot == [type |-> "S", until |-> 3, units |-> 2]

(* Three events from outside, and none in the form once the order is made.   *)
Few == turns + changes + stayChanges <= 3

-----------------------------------------------------------------------------
CONSTANTS p1, p2, k1

VARIABLE model   \* which of the two models moves

(* The page starts at the first query of the first of two properties; what  *)
(* is committed is committed there.  With the last event from outside the   *)
(* user stays in the property and the session.                              *)
MCInit ==
    /\ prop = p1 /\ key = k1
    /\ BoardInit
    /\ Init
    /\ model \in {"booking", "board"}

MCNext ==
    \/ /\ model = "booking"
       /\ Next
       /\ Few'
       /\ order # None => turns' = turns
       /\ UNCHANGED <<boardVars, model>>
    \/ /\ model = "board"
       /\ BoardNext
       /\ revision'[p2] = 0
       /\ (events' = MaxEvents /\ events # events') => <<prop, key, auth>>' = <<prop, key, auth>>
       /\ UNCHANGED <<vars, model>>

MCSpec == MCInit /\ [][MCNext]_<<vars, boardVars, model>> /\ Fairness
=============================================================================
