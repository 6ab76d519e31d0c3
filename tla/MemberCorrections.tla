------------------------- MODULE MemberCorrections -------------------------
(***************************************************************************)
(* Corrections of a membership: packages/db/src/commands/                  *)
(* member-corrections.ts, on top of the nights of module Coverage.         *)
(*                                                                         *)
(* A membership entered late is backfilled, one entered with the wrong     *)
(* date is corrected and one sold by mistake is voided and the stay it     *)
(* should have come from is converted.  The date correction first audits   *)
(* everything the lot has ever paid for: the coverage rows, released ones  *)
(* too, with the ledger entries of each and the commands that wrote them.  *)
(* Those rows are `rows`; Coverage keeps the active ones as `item`.        *)
(*                                                                         *)
(* The money of a membership is not here: a stay is taken to be paid as    *)
(* VOID_ERRONEOUS_MEMBERSHIP_AND_RECONVERT_STAY wants it.                  *)
(***************************************************************************)
EXTENDS Coverage

VARIABLES
    rows,       \* coverage_items of the lot with their entitlement_ledger entries
    bound,      \* the orders whose member_contract_id is the active contract
    conversion, \* what the CONVERSION_CONSUME entries of the lot say
    revisedBy   \* the command of a converted order's current pricing revision

correctionVars == <<vars, rows, bound, conversion, revisedBy>>

CorrectionInit ==
    /\ Init
    /\ rows = {}
    /\ bound = {}
    /\ conversion = {}
    /\ revisedBy = [o \in Orders |-> "none"]

Row(o, d, st, entries) == [order |-> o, night |-> d, st |-> st, entries |-> entries]
Active(r) == r.st # "RELEASED"
RowsOf(o) == {r \in rows : r.order = o}
EntriesOf(r) == {e[1] : e \in r.entries}
By(r, entry) == {e[2] : e \in {f \in r.entries : f[1] = entry}}

-----------------------------------------------------------------------------
(* What a command `c` that takes the items of order o from item[o] to       *)
(* item'[o] writes: a night it drops or puts on another unit is released,   *)
(* or restored when it was consumed; a new one is held and, if it ends      *)
(* consumed, consumed.                                                      *)

Kept(r) == /\ r.night \in DOMAIN item'[r.order]
           /\ item'[r.order][r.night].unit = item[r.order][r.night].unit
ConsumedNow(r) == r.st = "HELD" /\ item'[r.order][r.night].st = "CONSUMED"

(* releaseCoverage, restoreFutureConsumedCoverage *)
EndedUnrestored(r, c) == [r EXCEPT !.st = "RELEASED",
                                   !.entries = IF r.st = "HELD" THEN @ \cup {<<"RELEASE", c>>} ELSE @]
Ended(r, c) == [r EXCEPT !.st = "RELEASED",
                         !.entries = @ \cup {<<IF r.st = "HELD" THEN "RELEASE" ELSE "RESTORE", c>>}]
Continued(r, c) ==
    IF ConsumedNow(r) THEN [r EXCEPT !.st = "CONSUMED", !.entries = @ \cup {<<"CONSUME", c>>}] ELSE r
Started(o, d, c) ==
    Row(o, d, item'[o][d].st,
        IF c = "CONVERT_STAY_COLLECTIONS_TO_MEMBERSHIP" THEN {<<"CONVERSION_CONSUME", c>>}
        ELSE {<<"HOLD", c>>} \cup (IF item'[o][d].st = "CONSUMED" THEN {<<"CONSUME", c>>} ELSE {}))

Written(o, c) ==
    LET active == {r \in RowsOf(o) : Active(r)}
        kept == {r \in active : Kept(r)}
    IN  rows' = (rows \ active)
                  \cup {Continued(r, c) : r \in kept}
                  \cup {Ended(r, c) : r \in active \ kept}
                  \cup {Started(o, d, c) : d \in DOMAIN item'[o] \ {r.night : r \in kept}}

(* restoreConsumedCoverage leaves the rows as they are and adds entries.    *)
WrittenByRevocation(o) ==
    rows' = {IF r.order = o /\ r.st = "CONSUMED"
             THEN [r EXCEPT !.entries = @ \cup {<<"RESTORE", "REVOKE_CHECK_IN">>}] ELSE r : r \in rows}

Revised(o, c) ==
    revisedBy' = [revisedBy EXCEPT ![o] = IF kind'[o] = "converted" THEN c ELSE "none"]

-----------------------------------------------------------------------------
(* The commands of Coverage, with what they write. *)

(* An order is bound to the contract when the lot can pay for one of its    *)
(* dates; no later command but a conversion binds it.                       *)
BoundAtBooking(o, dates) == bound' = IF LotUsable(o, dates) THEN bound \cup {o} ELSE bound

BookMemberStay(o, u, a, b) ==
    /\ CreateMemberStay(o, u, a, b)
    /\ Written(o, "CREATE_ORDER")
    /\ BoundAtBooking(o, Nights(a, b))
    /\ UNCHANGED <<conversion, revisedBy>>

Restay(o) ==
    /\ \/ \E a \in Dates, b \in 2..(Horizon + 1) :
            RescheduleStay(o, a, b) /\ Written(o, "RESCHEDULE_STAY") /\ Revised(o, "RESCHEDULE_STAY")
       \/ \E b \in 2..(Horizon + 1) :
            ExtendStay(o, b) /\ Written(o, "EXTEND_STAY") /\ Revised(o, "EXTEND_STAY")
       \/ \E b \in 2..(Horizon + 1) :
            ShortenStay(o, b) /\ Written(o, "SHORTEN_STAY") /\ Revised(o, "SHORTEN_STAY")
       \/ \E u \in Units, e \in Dates :
            MoveUnit(o, u, e) /\ Written(o, "MOVE_UNIT") /\ Revised(o, "MOVE_UNIT")
       \/ RefreshCoverage(o) /\ Written(o, "REFRESH_MEMBER_COVERAGE")
            /\ Revised(o, "REFRESH_MEMBER_COVERAGE")
       \/ RevokeCheckOut(o) /\ Written(o, "REVOKE_CHECK_OUT") /\ Revised(o, "REVOKE_CHECK_OUT")
    /\ UNCHANGED <<bound, conversion>>

Fulfil(o) ==
    /\ \/ CheckIn(o) /\ Written(o, "CHECK_IN")
       \/ CheckOut(o) /\ Written(o, "CHECK_OUT")
       \/ CompleteStay(o) /\ Written(o, "COMPLETE_STAY")
       \/ Withdraw(o, "CANCELLED") /\ Written(o, "CANCEL_ORDER")
       \/ Withdraw(o, "NO_SHOW") /\ Written(o, "MARK_NO_SHOW")
       \/ RevokeCheckIn(o) /\ WrittenByRevocation(o)
    /\ UNCHANGED <<bound, conversion, revisedBy>>

Unaudited ==
    /\ \/ Activate \/ Expire \/ NextDay
       \/ \E target \in 0..MaxGranted : Adjust(target)
       \/ \E o \in Orders, u \in Units, a \in Dates, b \in 2..(Horizon + 1) : CreateCashStay(o, u, a, b)
    /\ UNCHANGED <<rows, bound, conversion, revisedBy>>

(* CONVERT_STAY_COLLECTIONS_TO_MEMBERSHIP.  Without items, for a departed    *)
(* guest, the entries have no rows.                                         *)
ConvertStay(o) ==
    /\ Convert(o)
    /\ Written(o, "CONVERT_STAY_COLLECTIONS_TO_MEMBERSHIP")
    /\ bound' = {o}
    /\ conversion' = {[order |-> o, nights |-> DOMAIN plan[o], covered |-> status[o] = "CHECKED_IN"]}
    /\ Revised(o, "CONVERT_STAY_COLLECTIONS_TO_MEMBERSHIP")

-----------------------------------------------------------------------------
(* The audit of CORRECT_MEMBERSHIP_EFFECTIVE_DATE. *)

(* coverageLifecycleIsConserved: the entries a row may have, by its status. *)
LifecycleIsConserved(r) ==
    EntriesOf(r) \in CASE r.st = "HELD" -> {{"HOLD"}}
                       [] r.st = "CONSUMED" -> {{"HOLD", "CONSUME"}, {"HOLD", "CONSUME", "RESTORE"},
                                                {"CONVERSION_CONSUME"}}
                       [] r.st = "RELEASED" -> {{"HOLD", "RELEASE"}, {"HOLD", "CONSUME", "RESTORE"},
                                                {"CONVERSION_CONSUME", "RESTORE"}}

(* Which commands an entry may come from.                                   *)
holdCommands == {"CREATE_ORDER", "RESCHEDULE_STAY", "EXTEND_STAY", "MOVE_UNIT", "REFRESH_MEMBER_COVERAGE"}
releaseCommands == {"RESCHEDULE_STAY", "EXTEND_STAY", "MOVE_UNIT", "REFRESH_MEMBER_COVERAGE",
                    "CANCEL_ORDER", "MARK_NO_SHOW"}
consumeCommands == {"CHECK_IN", "COMPLETE_STAY", "REFRESH_MEMBER_COVERAGE", "EXTEND_STAY"}
Traceable(r) ==
    /\ By(r, "HOLD") \subseteq holdCommands
    /\ By(r, "RELEASE") \subseteq releaseCommands
    /\ By(r, "CONSUME") \subseteq consumeCommands
    /\ By(r, "RESTORE") \subseteq (IF status[r.order] = "CHECK_IN_REVOKED" THEN {"REVOKE_CHECK_IN"} ELSE {})
                                    \cup {"SHORTEN_STAY"}

(* A revoked check-in must have consumed something, and have restored all   *)
(* of it.                                                                   *)
RevocationComplete(o) ==
    LET consumed == {r \in RowsOf(o) : "CONSUME" \in EntriesOf(r)}
    IN  /\ consumed # {}
        /\ consumed = {r \in RowsOf(o) : <<"RESTORE", "REVOKE_CHECK_IN">> \in r.entries}
        /\ \A r \in consumed : r.st = "CONSUMED"

(* A converted stay keeps the dates it was converted with; a guest in house *)
(* may since have shortened it, and done nothing after that.                *)
ConversionTraceable(c) ==
    LET p == plan[c.order]
    IN  /\ status[c.order] \in {"CHECKED_IN", "CHECKED_OUT"}
        /\ IF c.covered
           THEN /\ Arrival(p) = Min(c.nights)
                /\ \/ Departure(p) = Max(c.nights) + 1
                   \/ Departure(p) < Max(c.nights) + 1 /\ revisedBy[c.order] = "SHORTEN_STAY"
           ELSE status[c.order] = "CHECKED_OUT" /\ DOMAIN p = c.nights

AuditPasses ==
    /\ \A r \in rows : r.order \in bound /\ LifecycleIsConserved(r) /\ Traceable(r)
    /\ \A o \in Orders :
         status[o] = "CHECK_IN_REVOKED" /\ RowsOf(o) # {} => RevocationComplete(o)
    /\ \A c \in conversion : ConversionTraceable(c)
    /\ ~expired

Between(d, from) == from <= d /\ d <= from + Validity
InForce == validFrom # 0 /\ available >= 0
NightsEver == {r.night : r \in rows} \cup UNION {c.nights : c \in conversion}

(* CORRECT_MEMBERSHIP_EFFECTIVE_DATE: a membership in force stays in force, *)
(* and every night it was ever charged is in the new period too.            *)
Correctable(actual) ==
    /\ InForce
    /\ Between(today, validFrom) /\ Between(today, actual)
    /\ actual # validFrom
    /\ \A d \in NightsEver : Between(d, actual)
    /\ AuditPasses
CorrectDate(actual) ==
    /\ Correctable(actual)
    /\ validFrom' = actual
    /\ UNCHANGED <<today, stayVars, available, expired, granted, gone, rows, bound, conversion, revisedBy>>

(* BACKFILL_HISTORICAL_MEMBERSHIP *)
Backfillable(actual) == validFrom = 0 /\ Between(today, actual)
Backfill(actual) ==
    /\ Backfillable(actual)
    /\ validFrom' = actual
    /\ available' = Total /\ granted' = Total
    /\ UNCHANGED <<today, stayVars, expired, gone, rows, bound, conversion, revisedBy>>

(* VOID_ERRONEOUS_MEMBERSHIP_AND_RECONVERT_STAY: a membership that nothing  *)
(* was ever written to is voided; a stay that was paid in cash and is over  *)
(* becomes the first of a new one.                                          *)
NeverConverted == conversion = {} /\ ~expired
Unwritten == rows = {} /\ conversion = {} /\ ~expired /\ available = Total /\ granted = Total
Reconvertible(o, actual) ==
    /\ validFrom # 0 /\ Unwritten
    /\ kind[o] = "cash" /\ status[o] = "CHECKED_OUT"
    /\ Cardinality(DOMAIN plan[o]) <= Total
    /\ Between(today, actual) /\ \A d \in DOMAIN plan[o] : Between(d, actual)
SoldAnew(actual, used) ==
    /\ validFrom' = actual
    /\ granted' = Total /\ available' = Total - used /\ gone' = used
    /\ rows' = {}
VoidAndReconvert(o, actual) ==
    /\ Reconvertible(o, actual)
    /\ SoldAnew(actual, Cardinality(DOMAIN plan[o]))
    /\ kind' = [kind EXCEPT ![o] = "converted"]
    /\ undo' = [undo EXCEPT ![o] = {}]
    /\ bound' = {o}
    /\ conversion' = {[order |-> o, nights |-> DOMAIN plan[o], covered |-> FALSE]}
    /\ Revised(o, "VOID_ERRONEOUS_MEMBERSHIP_AND_RECONVERT_STAY")
    /\ UNCHANGED <<today, status, plan, item, shortening, expired>>

CorrectionNext ==
    \/ Unaudited
    \/ \E o \in Orders :
         \/ \E u \in Units, a \in Dates, b \in 2..(Horizon + 1) : BookMemberStay(o, u, a, b)
         \/ Restay(o) \/ Fulfil(o) \/ ConvertStay(o)
         \/ \E actual \in Dates : VoidAndReconvert(o, actual)
    \/ \E actual \in Dates : CorrectDate(actual) \/ Backfill(actual)
CorrectionSpec == CorrectionInit /\ [][CorrectionNext]_correctionVars

-----------------------------------------------------------------------------
(* Type correctness. *)
EntryTypes == {"HOLD", "RELEASE", "CONSUME", "RESTORE", "CONVERSION_CONSUME"}
CorrectionTypeOK ==
    /\ \A r \in rows : /\ r.order \in Orders /\ r.night \in Dates
                        /\ r.st \in {"HELD", "CONSUMED", "RELEASED"} /\ EntriesOf(r) \subseteq EntryTypes
    /\ \A o \in Orders : \A d \in Covered(o) : Cardinality({r \in RowsOf(o) : Active(r) /\ r.night = d}) = 1
    /\ bound \subseteq Orders
    /\ Cardinality(conversion) <= 1
    /\ \A o \in Orders : revisedBy[o] # "none" <=> kind[o] = "converted"

(* Every row's entries are a history its status allows, so the audit never  *)
(* refuses a membership as having "incomplete or ambiguous" entries: not    *)
(* after any order of holds, moves, shortenings and both reversals          *)
(* (member-corrections.ts 350-398, 673-678).                                *)
RowsReplay == \A r \in rows : LifecycleIsConserved(r)

(* Whatever is done to the dates of a membership, the nights it holds or    *)
(* has paid for are in its period, save the past nights of the stay it was  *)
(* converted from.                                                          *)
PaidInPeriod ==
    \A r \in rows : "HOLD" \in EntriesOf(r) => Between(r.night, validFrom)

(* The audit refuses a membership only for what happened to one of its      *)
(* stays: it was booked outside the period and covered later; it was        *)
(* converted in house and its dates have changed, or its early check-out    *)
(* was revoked; its check-in was revoked and it had consumed nothing.       *)
(* Every other membership in force can be corrected to any date that keeps  *)
(* its nights (member-corrections.ts 862-1160).                             *)
RefusedForAReason ==
    validFrom # 0 /\ ~expired /\ ~AuditPasses =>
        \E o \in Orders :
            /\ RowsOf(o) # {}
            /\ \/ o \notin bound
               \/ \E c \in conversion : c.order = o /\ DOMAIN plan[o] # c.nights
               \/ \E r \in RowsOf(o) : <<"HOLD", "REVOKE_CHECK_OUT">> \in r.entries
               \/ status[o] = "CHECK_IN_REVOKED" /\ Consumed(o) = {}

(* Voiding leaves no stay behind that the voided lot pays for: every item   *)
(* is in a row of the lot in force.                                         *)
NothingOnAVoidedLot ==
    \A o \in Orders : Covered(o) = {r.night : r \in {x \in RowsOf(o) : Active(x)}}
=============================================================================
