---------------------------- MODULE MCOrderView ----------------------------
EXTENDS OrderView, TLC

CONSTANTS r1, r2

TwoRooms == [u \in {r1, r2} |-> u]
TwoRanks == (r1 :> 1) @@ (r2 :> 2)

\* Two orders together: WECOM at the policy price, two nights before an extension,
\* three commands, and as a fourth the second correction of a completed stay,
\* the way back from a shortening or an extension beside a completed stay.
\* Alone, only a WECOM order has three nights, an order is repriced once, the
\* last command of four brings a shorter stay back, and a free stay has two.
Types(o) == {log[o][k].type : k \in DOMAIN log[o]}
Correction == "CORRECT_HISTORICAL_STAY_ARRANGEMENT"
FewTogether(known) ==
    /\ \A o \in known :
          /\ InBooks(o) /\ Latest(o).price.basis = "POLICY" /\ "REPRICE_ORDER" \notin Types(o)
          /\ Stayed(plan[o]) <= 2 \/ LastType(o) = "EXTEND_STAY"
    /\ \/ confirmed <= 3
       \/ \A o \in known :
             /\ Types(o) = {"CREATE_ORDER", "CHECK_IN", "CHECK_OUT", Correction}
             /\ Stayed(plan[o]) = 1 /\ Len(log[o]) = 4
       \/ \E o \in known :
             \/ LastType(o) = "REVOKE_CHECK_OUT" /\ "SHORTEN_STAY" \in Types(o)
             \/ LastType(o) = "EXTEND_STAY" /\ \E z \in known : LastType(z) = "CHECK_OUT"
Few ==
    LET known == {o \in Orders : status[o] # "none"}
    IN  /\ Cardinality(known) > 1 => FewTogether(known)
        /\ \A o \in known : Stayed(plan[o]) > 2 =>
              channel[o] = "WECOM" /\ (confirmed <= 3 \/ LastType(o) = "EXTEND_STAY")
        /\ \A o \in known : Cardinality({k \in DOMAIN log[o] : log[o][k].type = "REPRICE_ORDER"}) <= 1
        /\ confirmed = MaxCommands /\ Cardinality(known) = 1 =>
              \E o \in known : LastType(o) = "REVOKE_CHECK_OUT"
        /\ confirmed = MaxCommands - 1 =>
              \E o \in known : LastType(o) \notin {"MOVE_UNIT", "RESCHEDULE_STAY"}
        /\ \A o \in known : channel[o] = "FREE" => confirmed <= 2

MCNext == ViewNext /\ Few'
MCSpec == ViewInit /\ [][MCNext]_viewVars

\* Nothing in this module depends on the rank of a room.
Symmetry == Permutations(Orders) \cup Permutations({r1, r2})
=============================================================================
