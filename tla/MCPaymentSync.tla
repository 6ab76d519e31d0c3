------------------------------ MODULE MCPaymentSync ------------------------------
(* The second payment was booked by hand; the two refunds have one number   *)
(* with two merchants, and the first one changes when it is settled.        *)
EXTENDS PaymentSync
CONSTANTS c1, c2, r1, r2, f
MCParent == [r \in Refunds |-> IF r = r1 THEN c1 ELSE c2]
MCReference == [b \in Rows |-> IF b \in Refunds THEN r1 ELSE b]
MCFactsOf == [b \in Rows |-> IF b = c2 THEN {f} ELSE {}]
=============================================================================
