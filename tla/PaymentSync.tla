---------------------------- MODULE PaymentSync ----------------------------
(***************************************************************************)
(* The importer of WeCom bills: packages/db/src/wecom-sync.ts, the reading *)
(* of the provider's rows in wecom-client.ts and the loop of               *)
(* wecom-worker-main.ts.  Time is counted in rounds of the loop (60 s).    *)
(*                                                                         *)
(* A round holds the source's advisory lock, reads the source row once and *)
(* works through windows: it fetches one (time passes, the provider goes   *)
(* on), then persists it with its checkpoint in one transaction.           *)
(***************************************************************************)
EXTENDS Integers, FiniteSets, SequencesExt

CONSTANTS
    Bills, Refunds, \* collections and refunds at the provider
    Parent,         \* the collection a refund belongs to
    Early,          \* collections the provider lists when the import begins
    Reference,      \* a bill's trade number, which two merchants may share
    FactsOf,        \* payments booked by hand with a bill's trade number and amount
    Unreferenced,   \* refunds booked by hand with their amount but no number
    Revalued,       \* refunds whose amount the provider changes as it settles them
    MatchingSince,  \* what happened earlier is no business of the workbench
    Day,            \* length of a window
    Overlap,        \* how far a round reaches back
    MaxWindows,     \* windows of a round
    Horizon,        \* bound: the last instant
    MaxFailures     \* bound: rounds that fail

ASSUME SyncAssumption ==
    /\ Parent \in [Refunds -> Bills] /\ Bills \cap Refunds = {} /\ Early \subseteq Bills
    /\ Day \in Nat \ {0} /\ Overlap \in Nat /\ MaxWindows \in Nat \ {0} /\ Horizon \in Nat
    /\ MaxFailures \in Nat /\ MatchingSince \in Nat
    /\ Unreferenced \subseteq Refunds /\ Revalued \subseteq Refunds

(* A bill under review may not be matched (external_payment_match_guard): a *)
(* hand booking of a revalued refund would stop the import for good.  No    *)
(* such booking is assumed.                                                 *)
ASSUME BookingAssumption == \A b \in Revalued : FactsOf[b] = {}

Never == Horizon + 1
Rows == Bills \cup Refunds

VARIABLES
    now,
    occurred, shown,  \* when a bill happened, and since when the provider lists it
    state,            \* a bill's state at the provider
    row,              \* external_payment_bills: the state recorded, "NONE" before
    updated,          \* the refunds recorded, by updated_at
    review,           \* bills with needs_review
    match,            \* external_payment_matches: the fact a bill is matched with
    events,           \* bills with a DISCOVERED event
    synced, baseline, \* the source's checkpoints; baseline is Never before it is complete
    reconciled, lastReconciliation,
    round,            \* the running round, <<>> when the lock is free
    failures,
    silent            \* bills first recorded as paid without an event (history)

vars == <<now, occurred, shown, state, row, updated, review, match, events, synced, baseline,
          reconciled, lastReconciliation, round, failures, silent>>
provider == <<occurred, shown, state>>
tables == <<row, updated, review, match, events, synced, baseline, reconciled,
            lastReconciliation>>
history == <<failures, silent>>

Init ==
    /\ now = 0
    /\ occurred = [b \in Rows |-> IF b \in Early THEN 0 ELSE Never]
    /\ shown = occurred
    /\ state = [b \in Rows |-> IF b \in Bills THEN "SUCCESS" ELSE "PENDING"]
    /\ row = [b \in Rows |-> "NONE"]
    /\ updated = <<>> /\ review = {} /\ match = [b \in Rows |-> {}] /\ events = {}
    /\ synced = 0 /\ baseline = Never
    /\ reconciled = Never /\ lastReconciliation = Never
    /\ round = <<>> /\ failures = 0 /\ silent = {}

-----------------------------------------------------------------------------
(* The provider lists a payment some time after it was made, always paid;   *)
(* a refund it lists at once, and settles it later or never.                *)

Tick == now < Horizon /\ now' = now + 1 /\ UNCHANGED <<provider, tables, round, history>>
Occur(b) ==
    /\ occurred[b] = Never
    /\ b \in Refunds => shown[Parent[b]] # Never
    /\ occurred' = [occurred EXCEPT ![b] = now]
    /\ shown' = [shown EXCEPT ![b] = IF b \in Refunds THEN now ELSE @]
    /\ UNCHANGED <<now, state, tables, round, history>>
Appear(b) ==
    /\ occurred[b] # Never /\ shown[b] = Never
    /\ shown' = [shown EXCEPT ![b] = now]
    /\ UNCHANGED <<now, occurred, state, tables, round, history>>
Settle(b) ==
    /\ occurred[b] # Never /\ state[b] = "PENDING"
    /\ state' = [state EXCEPT ![b] = "SUCCESS"]
    /\ UNCHANGED <<now, occurred, shown, tables, round, history>>

(* normalizeWecomBill: a collection carries the verified details of its     *)
(* refunds, a refund's own row only says that there is one.                 *)
Listed(from, to) == {b \in Rows : shown[b] <= now /\ occurred[b] >= from /\ occurred[b] < to}
Answer(from, to) ==
    {[bill |-> b, state |-> state[b]] : b \in Listed(from, to) \cap Bills}
      \cup {[bill |-> r, state |-> state[r]] :
              r \in {r \in Refunds : shown[r] <= now /\ Parent[r] \in Listed(from, to)}}
      \cup {[bill |-> r, state |-> "UNKNOWN"] : r \in Listed(from, to) \cap Refunds}

-----------------------------------------------------------------------------
(* paymentWindows *)
Windows(begin, end) ==
    LET count == Min({MaxWindows, IF end > begin THEN (end - begin + Day - 1) \div Day ELSE 0})
    IN  [i \in 1..count |-> [from |-> begin + (i - 1) * Day, to |-> Min({begin + i * Day, end}),
                             checkpoint |-> "recent"]]

(* Of the refunds not settled whose parent lies before the round's reach,   *)
(* the one updated longest ago; then the next day of the history.  Both     *)
(* only if the source had its baseline when the round began.                *)
Unsettled(r) ==
    /\ row[r] \in {"PENDING", "UNKNOWN"} /\ row[Parent[r]] # "NONE"
    /\ occurred[Parent[r]] < round[1].begin
RepairWindow ==
    LET open == SelectSeq(updated, Unsettled)
        at == occurred[Parent[Head(open)]]
    IN  IF round[1].notify /\ open # <<>>
        THEN <<[from |-> at, to |-> at + 1, checkpoint |-> "repair"]>> ELSE <<>>
HistoryWindow ==
    LET until == Max({0, round[1].target - Overlap})
        start == IF reconciled < until THEN reconciled ELSE 0
    IN  IF /\ round[1].notify /\ start < until
           /\ lastReconciliation = Never \/ round[1].target > lastReconciliation
        THEN <<[from |-> start, to |-> Min({start + Day, until}), checkpoint |-> "reconcile"]>>
        ELSE <<>>

(* pg_try_advisory_lock, then the source row is read once.                  *)
StartRound ==
    /\ round = <<>>
    /\ LET begin == Max({0, synced - Overlap})
       IN  round' = <<[notify |-> baseline # Never, begin |-> begin, target |-> now, older |-> FALSE,
                       todo |-> Windows(begin, now), fetched |-> FALSE, bills |-> {}]>>
    /\ UNCHANGED <<now, provider, tables, history>>
(* The recent windows are done; a round ends with its last window.          *)
TurnToOlder ==
    /\ round # <<>> /\ round[1].todo = <<>> /\ ~round[1].older
    /\ LET windows == RepairWindow \o HistoryWindow
       IN  round' = IF windows = <<>> THEN <<>>
                    ELSE <<[round[1] EXCEPT !.older = TRUE, !.todo = windows]>>
    /\ UNCHANGED <<now, provider, tables, history>>

Fetch ==
    /\ round # <<>> /\ round[1].todo # <<>> /\ ~round[1].fetched
    /\ LET window == Head(round[1].todo)
       IN  round' = <<[round[1] EXCEPT !.fetched = TRUE, !.bills = Answer(window.from, window.to)]>>
    /\ UNCHANGED <<now, provider, tables, history>>

(* persistBill, for every bill of the window: what is verified replaces the *)
(* row, a placeholder only makes a missing one.                             *)
Observed(b) == {a.state : a \in {a \in round[1].bills : a.bill = b}}
RecordedAsListed(b) == IF "UNKNOWN" \in Observed(b) THEN "UNKNOWN" ELSE CHOOSE s \in Observed(b) : TRUE
Recorded(b) ==
    LET verified == Observed(b) \ {"UNKNOWN"}
    IN  IF verified # {} THEN CHOOSE s \in verified : TRUE
        ELSE IF row[b] = "NONE" THEN "UNKNOWN" ELSE row[b]
NewRow == [b \in Rows |-> IF Observed(b) = {} THEN row[b] ELSE Recorded(b)]
NewUpdated ==
    LET written == {r \in Refunds : \/ Observed(r) \ {"UNKNOWN"} # {}
                                    \/ row[r] = "NONE" /\ Observed(r) # {}}
        untouched(r) == r \notin written
    IN  SelectSeq(updated, untouched) \o SetToSeq(written)
Paid == {b \in Rows : row[b] # "SUCCESS" /\ "SUCCESS" \in Observed(b)}
Notify == round[1].notify

(* qintopia_link_historical_external_payment, after each bill: a paid bill  *)
(* is matched with the one fact that was booked for it before the source    *)
(* was configured (later bookings name an imported bill).  Of two bills     *)
(* with one fact the first gets it; what cannot be matched goes to review.  *)
Due == {b \in Rows : Observed(b) # {} /\ row'[b] = "SUCCESS" /\ match[b] = {}}
Matched == UNION {match[b] : b \in Rows}
Linkable(due) ==
    {b \in due \ Unreferenced : Cardinality(FactsOf[b]) = 1 /\ FactsOf[b] \cap Matched = {}}
Firsts(linkable) ==
    {links \in SUBSET linkable :
       \A b \in linkable : Cardinality({c \in links : FactsOf[c] = FactsOf[b]}) = 1}
Link(due, links) ==
    /\ match' = [b \in Rows |-> IF b \in links THEN FactsOf[b] ELSE match[b]]
    /\ review' = review \cup {b \in due \ links : b \in Unreferenced \/ FactsOf[b] # {}}
                   \cup {b \in Revalued : row[b] = "PENDING" /\ row'[b] = "SUCCESS"}

(* A payment is announced if, the whole window being written, it is one     *)
(* that somebody has to book.                                               *)
Duplicate(b) ==
    \E c \in Rows \ {b} :
      (c \in Bills <=> b \in Bills) /\ Reference[c] = Reference[b] /\ row[c] # "NONE"
Discovered(b) ==
    /\ row[b] = "SUCCESS" /\ b \notin review /\ occurred[b] >= MatchingSince
    /\ match[b] = {} /\ ~Duplicate(b)

RecentAtTarget(window) ==
    synced' = round[1].target /\ baseline' = IF baseline = Never THEN round[1].target ELSE baseline
Recent(window) ==
    /\ synced' = window.to
    /\ baseline' = IF baseline = Never /\ window.to >= round[1].target THEN window.to ELSE baseline
Checkpoint(window) ==
    CASE window.checkpoint = "recent" -> Recent(window) /\ UNCHANGED <<reconciled, lastReconciliation>>
      [] window.checkpoint = "reconcile" ->
           reconciled' = window.to /\ lastReconciliation' = round[1].target /\ UNCHANGED <<synced, baseline>>
      [] OTHER -> UNCHANGED <<synced, baseline, reconciled, lastReconciliation>>
Persist ==
    /\ round # <<>> /\ round[1].fetched
    /\ UNCHANGED <<now, provider, failures>>
    /\ row' = NewRow /\ updated' = NewUpdated
    /\ \E due \in {Due} : \E links \in Firsts(Linkable(due)) : Link(due, links)
    /\ events' = IF Notify THEN events \cup {b \in Paid : Discovered(b)'} ELSE events
    /\ silent' = IF Notify THEN silent
                 ELSE silent \cup {b \in Rows : row[b] # "SUCCESS" /\ row'[b] = "SUCCESS"}
    /\ Checkpoint(Head(round[1].todo))
    /\ round' = IF round[1].older /\ Len(round[1].todo) = 1 THEN <<>>
                ELSE <<[round[1] EXCEPT !.todo = Tail(@), !.fetched = FALSE, !.bills = {}]>>

(* The provider or the database fails; what was persisted stays.            *)
FailRound ==
    /\ round # <<>> /\ round' = <<>>
    /\ failures < MaxFailures /\ failures' = failures + 1
    /\ UNCHANGED <<now, provider, tables, silent>>

(* One process, which does one of these at a time.                          *)
Worker == StartRound \/ TurnToOlder \/ Fetch \/ Persist
Next ==
    \/ Tick
    \/ \E b \in Rows : Occur(b) \/ Appear(b) \/ Settle(b)
    \/ Worker \/ FailRound

(* The worker's loop never stops by itself: a round follows a round.        *)
Fairness == WF_vars(Worker)
Spec == Init /\ [][Next]_vars /\ Fairness

-----------------------------------------------------------------------------
TypeOK ==
    /\ now \in 0..Horizon
    /\ occurred \in [Rows -> 0..Never] /\ shown \in [Rows -> 0..Never]
    /\ state \in [Rows -> {"PENDING", "SUCCESS"}]
    /\ row \in [Rows -> {"NONE", "UNKNOWN", "PENDING", "SUCCESS"}]
    /\ review \subseteq Rows /\ \A b \in Rows : match[b] \subseteq FactsOf[b]
    /\ events \subseteq Rows /\ silent \subseteq Rows
    /\ synced \in 0..Horizon /\ baseline \in 0..Never /\ failures \in 0..MaxFailures
    /\ \A i \in DOMAIN updated : row[updated[i]] # "NONE"

(* A bill the provider lists within the overlap is imported by the time the *)
(* checkpoint passes the moment it was listed, whatever failed in between.  *)
Imported ==
    \A b \in Rows : shown[b] <= occurred[b] + Overlap /\ shown[b] < synced => row[b] # "NONE"

(* What the workbench says of an imported bill (listExternalPayments).      *)
Status(b) ==
    IF match[b] # {} THEN "MATCHED"
    ELSE IF b \in review \/ Duplicate(b) THEN "REVIEW"
    ELSE IF occurred[b] < MatchingSince THEN "HISTORICAL"
    ELSE IF row[b] = "PENDING" THEN "PENDING"
    ELSE IF row[b] # "SUCCESS" THEN "UNVERIFIED" ELSE "AVAILABLE"

(* Every payment the workbench offers to be booked was announced when it    *)
(* was first seen as paid or belongs to the baseline, nothing of the        *)
(* baseline was announced, and no payment made after the baseline passes    *)
(* for its history.                                                         *)
Announced ==
    /\ \A b \in Rows : Status(b) = "AVAILABLE" => b \in events \cup silent
    /\ events \cap silent = {}
    /\ \A b \in silent \cap Bills : occurred[b] < baseline

(* Verified details never give way to a placeholder, nor a success to an    *)
(* earlier state.                                                           *)
VerifiedStays ==
    [][\A b \in Rows : /\ row[b] \in {"PENDING", "SUCCESS"} => row'[b] \in {"PENDING", "SUCCESS"}
                       /\ row[b] = "SUCCESS" => row'[b] = "SUCCESS"]_vars

(* Again and again every settled refund of a known payment is recorded as   *)
(* paid back, even if another one stays unsettled for ever.                 *)
RefundsSettle ==
    []<>(\A r \in Refunds :
           row[r] # "NONE" /\ row[Parent[r]] # "NONE" /\ state[r] = "SUCCESS" => row[r] = "SUCCESS")

(* Whatever fails or repeats, the checkpoint leaves no listed bill behind   *)
(* and every payment still to be booked is announced or of the baseline,    *)
(* never both (syncSource and the status of external-payments.ts).          *)
SyncLosesNothing == Imported /\ Announced

(* A refund is verified for good, and in the end.                           *)
RefundsAreVerified == VerifiedStays /\ RefundsSettle
=============================================================================
