------------------------------- MODULE Funds -------------------------------
(***************************************************************************)
(* The money of ordinary direct orders: external bills, the append-only    *)
(* collection facts of orders, the allocation of bills to facts, and the   *)
(* funds a customer leaves behind ("retained"), as payment-allocation.ts,  *)
(* retained-funds.ts, external-payments.ts, wecom-refund-reconciliation.ts,*)
(* wecom-sync.ts (persistBill) and the fund commands of commands/effects.ts*)
(* and commands/apply.ts keep them.                                        *)
(*                                                                         *)
(* A Confirm is two steps: Begin takes the locks and rebuilds the effect,  *)
(* Commit writes it.  Money commands and the importer share the property's *)
(* advisory gate; COMPLETE_STAY writes a collection without it and has     *)
(* only the lock of the bill's row.                                        *)
(***************************************************************************)
EXTENDS Integers, Sequences, FiniteSets, FiniteSetsExt

CONSTANTS
    Orders,
    Due,            \* contract amount of an order
    Bills,          \* collections at the provider
    Refunds,        \* refunds at the provider
    Parent,         \* the collection a refund returns
    Owners,         \* customers retained funds belong to
    MaxAmount,      \* bound: the largest amount of a bill
    MaxFacts,       \* bound: collection facts ever written
    MaxHolds        \* bound: retained funds and their entries

ASSUME FundsAssumption ==
    /\ Due \in [Orders -> Nat]
    /\ Parent \in [Refunds -> Bills] /\ Bills \cap Refunds = {}
    /\ MaxAmount \in Nat \ {0} /\ MaxFacts \in Nat /\ MaxHolds \in Nat

Amounts == 1..MaxAmount
AllBills == Bills \cup Refunds
None == "none"

VARIABLES
    status,     \* of an order
    bill,       \* external_payment_bills, with the match of a whole bill
    facts,      \* collection_facts, each with the state of its allocation
    holds,      \* retained_funds
    entries,    \* retained_fund_entries
    money,      \* the money command between its checks and its commit
    plain       \* the COMPLETE_STAY between its checks and its commit

vars == <<status, bill, facts, holds, entries, money, plain>>

Absent == [state |-> "ABSENT", amount |-> 0, review |-> FALSE, match |-> None]

Fact(o, type, n, ref, rev, b, alloc) ==
    [order |-> o, type |-> type, amount |-> n, ref |-> ref, rev |-> rev, bill |-> b, alloc |-> alloc]

(* A collection may have been typed in before the importer was enabled.    *)
Recorded == {<<>>} \cup {<<Fact(o, "COLLECTION", n, 0, 0, b, None)>> :
                           o \in Orders, n \in Amounts, b \in Bills}
Init ==
    /\ status = [o \in Orders |-> "RESERVED"]
    /\ bill = [b \in AllBills |-> Absent]
    /\ facts \in Recorded
    /\ holds = <<>> /\ entries = <<>>
    /\ money = <<>> /\ plain = <<>>

-----------------------------------------------------------------------------
(* What the tables say.  A bill's amount is 0 while it is unknown (NULL).  *)

Ids(s) == 1..Len(s)
Reversed(f) == \E g \in Ids(facts) : facts[g].rev = f
Using(f, types) == {g \in Ids(facts) : facts[g].ref = f /\ facts[g].type \in types /\ ~Reversed(g)}
FactAmount(g) == facts[g].amount
Total(S) == MapThenSumSet(FactAmount, S)

EntryAmount(e) == entries[e].amount
Spent(h, kinds) ==
    MapThenSumSet(EntryAmount, {e \in Ids(entries) : entries[e].hold = h /\ entries[e].kind \in kinds})
Left(h) == holds[h].amount - Spent(h, {"USE", "REFUND", "RELEASE"})

(* fundingSource *)
IsSource(f) == f \in Ids(facts) /\ facts[f].type \in {"COLLECTION", "REALLOCATION_IN"}
Reserved(f) == MapThenSumSet(Left, {h \in Ids(holds) : holds[h].fact = f})
Transferred(f) == Total({g \in Ids(facts) : facts[g].ref = f /\ facts[g].type = "REALLOCATION_OUT"})
Remaining(f) ==
    IF Reversed(f) THEN 0 ELSE facts[f].amount - Total(Using(f, {"REFUND"})) - Transferred(f)

SourceBill(f) ==
    IF facts[f].alloc = None /\ facts[f].type = "COLLECTION" THEN None ELSE facts[f].bill

(* The balance of a bill; listPaymentAllocations derives its status.       *)
Shares(b) == {f \in Ids(facts) : facts[f].bill = b /\ facts[f].alloc # None}
Allocated(b) == Total({f \in Shares(b) : facts[f].alloc = "live"})
Unallocated(b) == Max({0, bill[b].amount - Allocated(b)})
BillStatus(b) ==
    CASE bill[b].review -> "REVIEW"
      [] bill[b].match = "member" -> "MATCHED"
      [] Allocated(b) >= bill[b].amount /\ bill[b].amount > 0 -> "MATCHED"
      [] bill[b].state = "PENDING" -> "PENDING"
      [] bill[b].state # "SUCCESS" \/ bill[b].amount = 0 -> "UNVERIFIED"
      [] Allocated(b) > 0 -> "PARTIALLY_MATCHED"
      [] OTHER -> "AVAILABLE"

(* assertNoUnassignedRefund *)
Unassigned(b) ==
    {r \in Refunds : /\ Parent[r] = b /\ bill[r].state = "SUCCESS"
                     /\ bill[r].amount = 0 \/ bill[r].review \/ bill[r].amount > Allocated(r)}

(* eligibleOrder *)
NetEffect(f) ==
    LET sign(t) == IF t \in {"COLLECTION", "REALLOCATION_IN"} THEN 1 ELSE -1
    IN  IF facts[f].type = "REVERSAL"
        THEN -sign(facts[facts[f].rev].type) * facts[f].amount
        ELSE sign(facts[f].type) * facts[f].amount
Net(o) == MapThenSumSet(NetEffect, {f \in Ids(facts) : facts[f].order = o})
OrderReserved(o) == MapThenSumSet(Left, {h \in Ids(holds) : holds[h].order = o})

-----------------------------------------------------------------------------
(* What each command checks when its effect is built.  c.order is the order *)
(* it is addressed to, c.amount its amount, c.bill the bill it binds.       *)

Allocatable(b, n) ==
    /\ BillStatus(b) \in {"AVAILABLE", "PARTIALLY_MATCHED"}
    /\ n <= Unallocated(b)
WholeBill(b, n) ==
    /\ Shares(b) = {} /\ bill[b].match = None
    /\ bill[b].state = "SUCCESS" /\ ~bill[b].review /\ bill[b].amount = n

RecordCollection(c) ==
    /\ status[c.order] \in {"RESERVED", "CHECKED_IN", "CHECKED_OUT"}
    /\ IF c.whole THEN WholeBill(c.bill, c.amount)
       ELSE Allocatable(c.bill, c.amount) /\ Unassigned(c.bill) = {}
(* COMPLETE_STAY *)
CompleteStay(c) == status[c.order] = "RESERVED" /\ WholeBill(c.bill, c.amount)

RecordRefund(c) ==
    /\ IsSource(c.fact) /\ facts[c.fact].order = c.order /\ ~Reversed(c.fact)
    /\ c.amount <= Remaining(c.fact) - Reserved(c.fact)
    /\ IF c.whole
       THEN WholeBill(c.bill, c.amount) /\ facts[c.fact].type = "COLLECTION" /\ facts[c.fact].bill = Parent[c.bill]
       ELSE Parent[c.bill] = SourceBill(c.fact) /\ Allocatable(c.bill, c.amount)

ReverseFact(c) ==
    LET f == facts[c.fact]
    IN  /\ f.order = c.order /\ f.type \in {"COLLECTION", "REFUND"}
        /\ ~Reversed(c.fact) /\ c.amount = f.amount
        /\ f.type = "COLLECTION" =>
             /\ Reserved(c.fact) = 0 /\ Transferred(c.fact) = 0 /\ Using(c.fact, {"REFUND"}) = {}
             /\ c.release => Unassigned(f.bill) = {}
        /\ f.type = "REFUND" =>
             /\ \A e \in Ids(entries) : entries[e].refund # c.fact
             /\ f.alloc # None => c.release
        /\ c.release => f.alloc = "live"

(* refundReconciliationReserveSafe, on what buildRefundReconciliation adds up *)
ReserveSafe(remaining, unassigned, collected, refunded) ==
    /\ refunded <= collected /\ collected <= remaining /\ refunded <= unassigned
    /\ collected = refunded \/ remaining - collected >= unassigned - refunded
Verified(b) ==
    /\ bill[b].state = "SUCCESS" /\ bill[b].amount > 0 /\ ~bill[b].review
    /\ bill[b].match # "member" /\ Allocated(b) <= bill[b].amount
    /\ \A f \in Ids(facts) :
         facts[f].type \in {"COLLECTION", "REFUND"} /\ facts[f].bill = b /\ ~Reversed(f)
           => facts[f].alloc = "live"
ReconcileRefunds(c) ==
    LET successful == {r \in Refunds : Parent[r] = c.bill /\ bill[r].state = "SUCCESS"}
        refundAmount(r) == bill[r].amount
        open(r) == bill[r].amount - Allocated(r)
    IN  /\ Parent[c.refund] = c.bill /\ Verified(c.bill) /\ Verified(c.refund)
        /\ \A r \in successful :
             bill[r].amount > 0 /\ ~bill[r].review /\ Allocated(r) <= bill[r].amount
        /\ MapThenSumSet(refundAmount, successful) <= bill[c.bill].amount
        /\ c.back <= open(c.refund)
        /\ ReserveSafe(bill[c.bill].amount - Allocated(c.bill), MapThenSumSet(open, successful),
                       c.amount, c.back)

OwnerOf(f) ==
    LET e == CHOOSE e \in Ids(entries) : entries[e].in = f IN holds[entries[e].hold].owner
Unspent(c) ==
    /\ c.amount <= Remaining(c.fact) - Reserved(c.fact)
    /\ c.amount <= Net(c.order) - Due[c.order] - OrderReserved(c.order)
RetainOrderFunds(c) ==
    /\ status[c.order] \in {"CANCELLED", "CHECKED_OUT"}
    /\ IsSource(c.fact) /\ facts[c.fact].order = c.order /\ ~Reversed(c.fact)
    /\ SourceBill(c.fact) # None /\ Unassigned(SourceBill(c.fact)) = {}
    /\ facts[c.fact].type = "REALLOCATION_IN" => c.owner = OwnerOf(c.fact)
    /\ Unspent(c)
FromHold(c) ==
    /\ c.amount <= Left(c.hold)
    /\ ~Reversed(holds[c.hold].fact) /\ c.amount <= Remaining(holds[c.hold].fact)
ApplyRetainedFunds(c) ==
    /\ FromHold(c) /\ c.order # holds[c.hold].order
    /\ status[c.order] \in {"RESERVED", "CHECKED_IN", "CHECKED_OUT"}
    /\ Unassigned(holds[c.hold].bill) = {}
ReleaseRetainedFunds(c) ==
    FromHold(c) /\ c.order = holds[c.hold].order /\ Unassigned(holds[c.hold].bill) = {}
RefundRetainedFunds(c) ==
    /\ FromHold(c) /\ c.order = holds[c.hold].order
    /\ Parent[c.bill] = holds[c.hold].bill /\ Allocatable(c.bill, c.amount)
RecordMembershipPayment(c) == WholeBill(c.bill, c.amount)

-----------------------------------------------------------------------------
(* The rows a command locks before it checks, and those its writes lock.    *)

OwnBill(c) ==
    CASE c.command \in {"APPLY", "RELEASE"} -> holds[c.hold].bill
      [] c.command \in {"RETAIN", "REVERSE_FACT"} -> facts[c.fact].bill
      [] OTHER -> c.bill
Locks(c) ==
    CASE c.command = "RECONCILE_REFUNDS" -> {c.bill} \cup {r \in Refunds : Parent[r] = c.bill}
      [] c.command = "REFUND_RETAINED" -> {c.bill, holds[c.hold].bill}
      [] c.command = "REVERSE_FACT" -> {}
      [] OTHER -> {OwnBill(c)}
WriteLocks(c) == Locks(c) \cup {OwnBill(c)} \cup {Parent[r] : r \in {OwnBill(c)} \cap Refunds}
LockedBy(t) == UNION {Locks(t[i]) : i \in Ids(t)}
Unlocked(bs) == bs \cap LockedBy(plain) = {}
FreeWithoutLock(b) == TRUE
FreeForPlain(b) == b \notin LockedBy(money)

(* Facts a command writes.  APPLY writes both halves of a transfer.         *)
TransferInOnly(c) ==
    LET h == holds[c.hold]
    IN  <<Fact(c.order, "REALLOCATION_IN", c.amount, h.fact, 0, h.bill, None)>>
Transfer(c) ==
    LET h == holds[c.hold]
    IN  <<Fact(h.order, "REALLOCATION_OUT", c.amount, h.fact, 0, h.bill, None),
          Fact(c.order, "REALLOCATION_IN", c.amount, h.fact, 0, h.bill, None)>>
(* The refund of a reconciliation refers to the collection written with it. *)
BackPaid(c) ==
    <<Fact(c.order, "REFUND", c.back, Len(facts) + 1, 0, c.refund, "live")>>
NewFacts(c) ==
    CASE c.command \in {"RECORD_COLLECTION", "COMPLETE_STAY"} ->
           <<Fact(c.order, "COLLECTION", c.amount, 0, 0, c.bill, "live")>>
      [] c.command = "RECORD_REFUND" ->
           <<Fact(c.order, "REFUND", c.amount, c.fact, 0, c.bill, "live")>>
      [] c.command = "REVERSE_FACT" ->
           <<Fact(c.order, "REVERSAL", c.amount, 0, c.fact, None, None)>>
      [] c.command = "RECONCILE_REFUNDS" ->
           <<Fact(c.order, "COLLECTION", c.amount, 0, 0, c.bill, "live")>> \o BackPaid(c)
      [] c.command = "APPLY" -> Transfer(c)
      [] c.command = "REFUND_RETAINED" ->
           <<Fact(c.order, "REFUND", c.amount, holds[c.hold].fact, 0, c.bill, "live")>>
      [] OTHER -> <<>>
Released(c) == IF c.command = "REVERSE_FACT" /\ c.release THEN {c.fact} ELSE {}

NewEntry(c) ==
    LET entry(kind, in, refund) ==
          <<[hold |-> c.hold, kind |-> kind, amount |-> c.amount, in |-> in, refund |-> refund]>>
    IN  CASE c.command = "APPLY" -> entry("USE", Len(facts) + Len(Transfer(c)), 0)
          [] c.command = "RELEASE" -> entry("RELEASE", 0, 0)
          [] c.command = "REFUND_RETAINED" -> entry("REFUND", 0, Len(facts) + 1)
          [] OTHER -> <<>>
NewHold(c) ==
    IF c.command = "RETAIN"
    THEN <<[order |-> c.order, fact |-> c.fact, bill |-> facts[c.fact].bill, amount |-> c.amount,
            owner |-> c.owner]>>
    ELSE <<>>
(* bindExternalPayments: a whole bill is matched, a share only allocated.   *)
Matched(c) ==
    CASE c.command = "MEMBERSHIP" -> "member"
      [] c.command = "COMPLETE_STAY" -> "fact"
      [] c.command \in {"RECORD_COLLECTION", "RECORD_REFUND"} /\ c.whole -> "fact"
      [] OTHER -> None
Write(c) ==
    /\ facts' = [f \in Ids(facts) |->
                   IF f \in Released(c) THEN [facts[f] EXCEPT !.alloc = "released"] ELSE facts[f]]
                \o NewFacts(c)
    /\ holds' = holds \o NewHold(c)
    /\ entries' = entries \o NewEntry(c)
    /\ bill' = IF Matched(c) = None THEN bill ELSE [bill EXCEPT ![c.bill].match = Matched(c)]

(* The deferred constraint looks at every bill: once one has been imported  *)
(* with less than its allocations, no fact can be written any more.         *)
Wedged == \E b \in AllBills : Allocated(b) > bill[b].amount

-----------------------------------------------------------------------------
Begin(c, allowed) ==
    /\ money = <<>> /\ Unlocked(Locks(c))
    /\ allowed
    /\ Len(facts \o NewFacts(c)) <= MaxFacts
    /\ Len(holds) + Len(entries) + Len(NewHold(c)) + Len(NewEntry(c)) <= MaxHolds
    /\ money' = <<c>>
    /\ UNCHANGED <<status, bill, facts, holds, entries, plain>>

BeginCollection ==
    \E o \in Orders, b \in Bills, n \in Amounts, whole \in BOOLEAN :
      LET c == [command |-> "RECORD_COLLECTION", order |-> o, bill |-> b, amount |-> n, whole |-> whole]
      IN  Begin(c, RecordCollection(c))
BeginRefund ==
    \E o \in Orders, r \in Refunds, f \in Ids(facts), n \in Amounts, whole \in BOOLEAN :
      LET c == [command |-> "RECORD_REFUND", order |-> o, bill |-> r, fact |-> f, amount |-> n,
                whole |-> whole]
      IN  Begin(c, RecordRefund(c))
BeginReversal ==
    \E o \in Orders, f \in Ids(facts), release \in BOOLEAN :
      LET c == [command |-> "REVERSE_FACT", order |-> o, fact |-> f, amount |-> facts[f].amount,
                release |-> release]
      IN  Begin(c, ReverseFact(c))
BeginReconciliation ==
    \E o \in Orders, b \in Bills, r \in Refunds, n \in Amounts, back \in Amounts :
      LET c == [command |-> "RECONCILE_REFUNDS", order |-> o, bill |-> b, refund |-> r, amount |-> n,
                back |-> back]
      IN  Begin(c, ReconcileRefunds(c))
BeginRetain ==
    \E o \in Orders, f \in Ids(facts), n \in Amounts, w \in Owners :
      LET c == [command |-> "RETAIN", order |-> o, fact |-> f, amount |-> n, owner |-> w]
      IN  Begin(c, RetainOrderFunds(c))
BeginApply ==
    \E o \in Orders, h \in Ids(holds), n \in Amounts :
      LET c == [command |-> "APPLY", order |-> o, hold |-> h, amount |-> n]
      IN  Begin(c, ApplyRetainedFunds(c))
BeginRelease ==
    \E o \in Orders, h \in Ids(holds), n \in Amounts :
      LET c == [command |-> "RELEASE", order |-> o, hold |-> h, amount |-> n]
      IN  Begin(c, ReleaseRetainedFunds(c))
BeginRetainedRefund ==
    \E o \in Orders, h \in Ids(holds), r \in Refunds, n \in Amounts :
      LET c == [command |-> "REFUND_RETAINED", order |-> o, hold |-> h, bill |-> r, amount |-> n]
      IN  Begin(c, RefundRetainedFunds(c))
BeginMembershipPayment ==
    \E b \in Bills, n \in Amounts :
      LET c == [command |-> "MEMBERSHIP", bill |-> b, amount |-> n]
      IN  Begin(c, RecordMembershipPayment(c))
Commit ==
    /\ money # <<>> /\ ~Wedged
    /\ Unlocked(WriteLocks(money[1]))
    /\ Write(money[1])
    /\ money' = <<>>
    /\ UNCHANGED <<status, plain>>

BeginCompleteStay ==
    \E o \in Orders, b \in Bills, n \in Amounts :
      LET c == [command |-> "COMPLETE_STAY", order |-> o, bill |-> b, amount |-> n]
      IN  /\ plain = <<>> /\ FreeForPlain(b)
          /\ CompleteStay(c) /\ Len(facts) < MaxFacts
          /\ plain' = <<c>>
          /\ UNCHANGED <<status, bill, facts, holds, entries, money>>
CommitCompleteStay ==
    /\ plain # <<>> /\ ~Wedged
    /\ Write(plain[1])
    /\ status' = [status EXCEPT ![plain[1].order] = "CHECKED_OUT"]
    /\ plain' = <<>>
    /\ UNCHANGED money

(* A crash, a timeout, or the constraint: the transaction is rolled back.   *)
Abort ==
    /\ \/ money # <<>> /\ money' = <<>> /\ UNCHANGED plain
       \/ plain # <<>> /\ plain' = <<>> /\ UNCHANGED money
    /\ UNCHANGED <<status, bill, facts, holds, entries>>

(* Orders outside this module's commands: check-in and out, cancellation.   *)
Proceed ==
    /\ \E o \in Orders :
         /\ \A i \in Ids(plain) : plain[i].order # o
         /\ \/ status[o] = "RESERVED" /\ status' = [status EXCEPT ![o] = "CANCELLED"]
            \/ status[o] = "RESERVED" /\ status' = [status EXCEPT ![o] = "CHECKED_OUT"]
    /\ UNCHANGED <<bill, facts, holds, entries, money, plain>>

(* persistBill: a refund row without its parent's details has no amount and *)
(* replaces nothing; then the bill is linked to what was typed in before.   *)
ImportUngated(b) == b \notin LockedBy(money) \cup LockedBy(plain)
ImportLocks(b) == money = <<>> /\ b \notin LockedBy(plain)
Candidates(b, n) ==
    {f \in Ids(facts) : facts[f].type \in {"COLLECTION", "REFUND"} /\ facts[f].bill = b /\ facts[f].amount = n}
PersistBill(b, state, n) ==
    LET old == bill[b]
        new == IF old = Absent \/ n > 0
               THEN [state |-> state, amount |-> n, match |-> old.match,
                     review |-> old.review \/ (old.amount > 0 /\ old.amount # n)]
               ELSE old
        found == IF new.match = None /\ new.state = "SUCCESS" /\ new.amount > 0
                 THEN Candidates(b, new.amount) ELSE {}
    IN  /\ ImportLocks(b)
        /\ bill' = [bill EXCEPT ![b] =
                      [new EXCEPT !.match = IF Cardinality(found) = 1 THEN "fact" ELSE @,
                                  !.review = @ \/ Cardinality(found) > 1]]
        /\ facts' = [f \in Ids(facts) |->
                       IF found = {f} /\ facts[f].alloc = None
                       THEN [facts[f] EXCEPT !.alloc = "live"] ELSE facts[f]]
        /\ UNCHANGED <<status, holds, entries, money, plain>>
(* What the provider may answer: a success is final, its amount may be      *)
(* corrected; a refund may be listed without an amount.                     *)
Import ==
    \E b \in AllBills, state \in {"PENDING", "UNKNOWN", "SUCCESS"}, n \in 0..MaxAmount :
      /\ bill[b].state = "SUCCESS" => state = "SUCCESS" \/ n = 0
      /\ n = 0 <=> (state = "UNKNOWN" /\ b \in Refunds)
      /\ state = "UNKNOWN" => n = 0
      /\ PersistBill(b, state, n)

Next ==
    \/ BeginCollection \/ BeginRefund \/ BeginReversal \/ BeginReconciliation
    \/ BeginRetain \/ BeginApply \/ BeginRelease \/ BeginRetainedRefund \/ BeginMembershipPayment
    \/ Commit \/ BeginCompleteStay \/ CommitCompleteStay \/ Abort
    \/ Proceed \/ Import

Spec == Init /\ [][Next]_vars

-----------------------------------------------------------------------------
TypeOK ==
    /\ status \in [Orders -> {"RESERVED", "CANCELLED", "CHECKED_OUT"}]
    /\ bill \in [AllBills -> [state : {"ABSENT", "PENDING", "UNKNOWN", "SUCCESS"},
                              amount : 0..MaxAmount, review : BOOLEAN, match : {None, "fact", "member"}]]
    /\ \A f \in Ids(facts) :
         /\ facts[f].ref \in 0..(f - 1) /\ facts[f].rev \in 0..(f - 1)
         /\ facts[f].amount \in Amounts
         /\ facts[f].alloc \in {None, "live", "released"}
    /\ \A h \in Ids(holds) : holds[h].fact \in Ids(facts) /\ holds[h].owner \in Owners
    /\ \A e \in Ids(entries) : entries[e].hold \in Ids(holds)
    /\ Len(money) <= 1 /\ Len(plain) <= 1

(* No bill is given away beyond its amount, unless the provider itself      *)
(* lowered the amount afterwards (the bill is then under review), and a     *)
(* bill a membership was paid with pays for no stay.                        *)
BillNotOverallocated ==
    \A b \in AllBills : /\ Allocated(b) <= bill[b].amount \/ bill[b].review
                        /\ bill[b].match = "member" => Allocated(b) = 0

(* What leaves a collection (refunds, transfers to other orders, amounts    *)
(* still set aside for the customer) never exceeds it, and nothing leaves   *)
(* one that was reversed.                                                   *)
SourceNotOverspent ==
    \A f \in Ids(facts) : IsSource(f) =>
      LET out == Total(Using(f, {"REFUND"})) + Transferred(f) + Reserved(f)
      IN  IF Reversed(f) THEN out = 0 ELSE out <= facts[f].amount

(* No money is spent twice, neither a bill of the provider nor what was     *)
(* collected with it.                                                       *)
NothingIsSpentTwice == BillNotOverallocated /\ SourceNotOverspent

(* The balance an order shows is what its collections still hold, and all   *)
(* balances together are what was collected and not paid back: a transfer   *)
(* takes from one order what it gives another.                              *)
BalanceIsBacked ==
    /\ \A o \in Orders :
         Net(o) = MapThenSumSet(Remaining, {f \in Ids(facts) : IsSource(f) /\ facts[f].order = o})
    /\ MapThenSumSet(Net, Orders) =
         MapThenSumSet(NetEffect, {f \in Ids(facts) : facts[f].type \in {"COLLECTION", "REFUND", "REVERSAL"}})

(* Money booked for another order still belongs to who left it: retaining   *)
(* it again cannot change its owner ("代订不转移款项所有权").                  *)
OwnerSurvives ==
    \A h \in Ids(holds) : facts[holds[h].fact].type = "REALLOCATION_IN" =>
      \E e \in Ids(entries) :
        entries[e].in = holds[h].fact /\ holds[entries[e].hold].owner = holds[h].owner

(* Every balance is backed by collections, and set-aside money by its       *)
(* owner.                                                                   *)
BalancesAreBacked == BalanceIsBacked /\ OwnerSurvives

(* While the provider has paid back money nobody has entered, none of that  *)
(* collection's money is set aside, lent to an order or freed for another.  *)
SpendsOf(b) ==
    \/ \E h \in Ids(holds') \ Ids(holds) : holds'[h].bill = b
    \/ \E e \in Ids(entries') \ Ids(entries) :
         holds[entries'[e].hold].bill = b /\ entries'[e].kind # "REFUND"
    \/ \E f \in Ids(facts) :
         facts[f].bill = b /\ facts[f].alloc = "live" /\ facts'[f].alloc = "released"
FrozenWhileUnassigned ==
    \A b \in Bills : Unassigned(b) # {} => ~SpendsOf(b)

(* A collection entered while a refund is open leaves enough of the bill    *)
(* for what is still to be entered, or is itself paid back in full.         *)
OpenAmount(r) == bill[r].amount - Allocated(r)
EnteredLate(b) ==
    {f \in Ids(facts') \ Ids(facts) : facts'[f].bill = b /\ facts'[f].type = "COLLECTION"}
LateCollectionLeavesReserve ==
    \A b \in Bills : Unassigned(b) # {} /\ plain' = plain => \A f \in EnteredLate(b) :
         \/ Remaining(f)' = 0
         \/ bill'[b].match = "fact"
         \/ bill'[b].amount - Allocated(b)' >= MapThenSumSet(OpenAmount, Unassigned(b))'

(* Money the provider has paid back and nobody has entered yet is kept for  *)
(* that entry (payment-allocation.ts, retained-funds.ts).                   *)
RefundsAreReserved == [][FrozenWhileUnassigned /\ LateCollectionLeavesReserve]_vars
=============================================================================
