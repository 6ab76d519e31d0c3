---------------------------- MODULE MCCoverage ----------------------------
(* The nights of a membership in one run: what stays do with them           *)
(* (Coverage, Evidence), and how a membership is corrected under them       *)
(* (MemberCorrections, with shorter periods).  A behaviour belongs to one   *)
(* of the two; orders and units are interchangeable.                        *)
EXTENDS Evidence, TLC

VARIABLES rows, bound, conversion, revisedBy,
          model   \* "stays" or "corrections"

Corrections == INSTANCE MemberCorrections
                   WITH Horizon <- 3, Total <- 2, Validity <- 1, MaxGranted <- 2
correctionVars == <<rows, bound, conversion, revisedBy>>

Symmetry == Permutations(Orders) \cup Permutations(Units)

Known == {o \in Orders : status[o] # "none"}
UnitsOf(o) ==
    {plan[o][d] : d \in DOMAIN plan[o]} \cup {item[o][d].unit : d \in Covered(o)}
        \cup UNION {{before.plan[d] : d \in DOMAIN before.plan} : before \in undo[o]}
OneUnit == Cardinality(UNION {UnitsOf(o) : o \in Orders}) <= 1

(* A run may look at one stay in several units, or at several short ones    *)
(* that share the lot.                                                      *)
OneStayOrShortStays ==
    Cardinality(Known) > 1 =>
        /\ OneUnit
        /\ \A o \in Orders : DOMAIN plan[o] \cup Covered(o) \subseteq 1..(Horizon - 2)
        /\ today < Horizon
FewRows ==
    /\ granted \in {0, 2}
    /\ Cardinality({r \in rows : r.st = "RELEASED"}) <= 1
    /\ Cardinality(rows) <= 2 /\ Cardinality(Known) <= 2
    /\ Cardinality(Known) > 1 =>
          /\ OneUnit
          /\ today <= 2
          /\ \A o \in Orders : DOMAIN plan[o] \cup Covered(o) \subseteq 1..2

MCInit == Corrections!CorrectionInit /\ model \in {"stays", "corrections"}
MCNext ==
    \/ model = "stays" /\ Next /\ OneStayOrShortStays' /\ UNCHANGED <<correctionVars, model>>
    \/ model = "corrections" /\ Corrections!CorrectionNext /\ FewRows' /\ UNCHANGED model
MCSpec == MCInit /\ [][MCNext]_<<vars, correctionVars, model>>

(* Every night of the lot is available, written off or charged once, and a  *)
(* stay, its items and an expired lot agree (effects.ts, orders.ts).        *)
NightsAccounted ==
    /\ NightsConserved
    /\ model = "stays" => CoverageFitsStay /\ ExpiredLotStaysEmpty

(* A membership can be corrected and voided whatever its stays have been    *)
(* through: the audit replays every row, refuses for a reason a stay gives, *)
(* and voiding leaves nothing unpaid (member-corrections.ts).               *)
CorrectionsAreSound ==
    model = "corrections" =>
        /\ Corrections!RowsReplay /\ Corrections!PaidInPeriod
        /\ Corrections!RefusedForAReason /\ Corrections!NothingOnAVoidedLot

(* What the web client shows and the effect announces of a stay command is  *)
(* what it does to the nights, a used night is never rewritten, and one     *)
(* command alone can overdraw the lot (effects.ts, ui.tsx).                 *)
CommandsAreTrue ==
    [][model = "stays" =>
         /\ AlignedStepIsShown
         /\ SummaryOfStepIsTrue
         /\ ConsumedIsFinal
         /\ OverdrawnOnlyByReschedule]_<<vars, model>>
=============================================================================
