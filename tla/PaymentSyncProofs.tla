-------------------------- MODULE PaymentSyncProofs --------------------------
(***************************************************************************)
(* The importer of WeCom bills leaves no bill behind and announces every   *)
(* payment that is still to be booked and not of the baseline, for any     *)
(* length of window, any overlap, any number of windows per round, any     *)
(* bookings made by hand, and rounds that fail anywhere.                   *)
(***************************************************************************)
EXTENDS PaymentSync, SequenceTheorems, TLAPS

-----------------------------------------------------------------------------
(* The inductive invariant. *)

Kinds == {"SUCCESS", "PENDING", "UNKNOWN"}
RecentWindows == [from : Nat, to : Nat, checkpoint : {"recent"}]

Types ==
    /\ now \in 0..Horizon
    /\ occurred \in [Rows -> 0..Never] /\ shown \in [Rows -> 0..Never]
    /\ state \in [Rows -> {"PENDING", "SUCCESS"}]
    /\ row \in [Rows -> {"NONE", "UNKNOWN", "PENDING", "SUCCESS"}]
    /\ events \subseteq Rows /\ silent \subseteq Rows
    /\ synced \in 0..now /\ baseline \in 0..Never

\* A bill is listed no earlier than it happened, and neither in the future.
ProviderTimes ==
    \A b \in Rows : /\ occurred[b] # Never => occurred[b] <= now
                    /\ shown[b] # Never => occurred[b] <= shown[b] /\ shown[b] <= now

\* What the tables call paid is paid, and what was announced or taken for
\* history is recorded as paid.
PaidIsPaid ==
    /\ \A b \in Rows : row[b] = "SUCCESS" => state[b] = "SUCCESS"
    /\ \A b \in events \cup silent : row[b] = "SUCCESS"

\* Payments taken for history happened before the round that may complete the
\* baseline.
SilentIsPast ==
    \A b \in silent \cap Bills :
      /\ occurred[b] < now
      /\ round # <<>> /\ baseline = Never => occurred[b] < round[1].target

\* The recent windows follow each other up to the round's target.
Chained(todo, target) ==
    /\ todo \in Seq(RecentWindows)
    /\ \A k \in 1..Len(todo) : todo[k].from < todo[k].to /\ todo[k].to <= target
    /\ \A k \in 1..Len(todo) - 1 : todo[k + 1].from = todo[k].to

\* One or two windows that leave the import's checkpoint alone.
OlderWindows(todo) ==
    /\ todo = <<todo[1]>> \/ todo = <<todo[1], todo[2]>>
    /\ \A k \in 1..Len(todo) : todo[k].checkpoint \in {"repair", "reconcile"}

RoundShape(r) ==
    /\ r \in [notify : BOOLEAN, begin : Nat, target : 0..now, older : BOOLEAN,
              todo : {r.todo}, fetched : BOOLEAN, bills : SUBSET [bill : Rows, state : Kinds]]
    /\ ~r.older => Chained(r.todo, r.target)
    /\ r.older => r.notify /\ OlderWindows(r.todo)
    /\ r.fetched => r.todo # <<>>
    /\ ~r.older /\ ~r.notify /\ r.todo # <<>> => baseline = Never

\* What the rounds before this one had to import, they have imported.
BeforeRound(r) ==
    r.begin > 0 =>
      /\ r.begin + Overlap <= now
      /\ \A b \in Rows : shown[b] <= occurred[b] + Overlap /\ shown[b] < r.begin + Overlap
           => row[b] # "NONE"

\* What lies in the windows this round has done is imported.
CoveredSoFar(r) ==
    ~r.older /\ r.todo # <<>> =>
      \A b \in Rows : r.begin <= occurred[b] /\ occurred[b] < r.todo[1].from /\ shown[b] < r.target
        => row[b] # "NONE"

\* An answer not yet persisted: no two verified states of a bill, none older
\* than the row's, and every bill of the window that was listed in time.
AnswerIsTrue(r) ==
    r.fetched =>
      /\ \A a \in r.bills : /\ a.state = "SUCCESS" => state[a.bill] = "SUCCESS"
                            /\ row[a.bill] = "SUCCESS" => a.state # "PENDING"
      /\ \A a, c \in r.bills :
           a.bill = c.bill /\ a.state # "UNKNOWN" /\ c.state # "UNKNOWN" => a.state = c.state
      /\ ~r.older =>
           /\ \A a \in r.bills : a.bill \in Bills => occurred[a.bill] < r.todo[1].to
           /\ \A b \in Rows :
                /\ r.todo[1].from <= occurred[b] /\ occurred[b] < r.todo[1].to
                /\ shown[b] < r.target
                => \E a \in r.bills : a.bill = b

RoundInv ==
    round # <<>> =>
      /\ round = <<round[1]>>
      /\ RoundShape(round[1]) /\ BeforeRound(round[1])
      /\ CoveredSoFar(round[1]) /\ AnswerIsTrue(round[1])

SyncInv ==
    /\ Types
    /\ ProviderTimes
    /\ PaidIsPaid
    /\ SilentIsPast
    /\ Imported
    /\ Announced
    /\ RoundInv

-----------------------------------------------------------------------------
(* The arithmetic of the windows. *)

(* The smaller and the greater of two numbers.                              *)
LEMMA MinMaxOfTwo ==
    ASSUME NEW x \in Int, NEW y \in Int
    PROVE  /\ Min({x, y}) = IF x <= y THEN x ELSE y
           /\ Max({x, y}) = IF x >= y THEN x ELSE y
<1>1. Min({x, y}) = IF x <= y THEN x ELSE y
  <2> DEFINE m == IF x <= y THEN x ELSE y
  <2>1. m \in {x, y} /\ \A z \in {x, y} : m <= z
    OBVIOUS
  <2>2. \A n \in {x, y} : (\A z \in {x, y} : n <= z) => n = m
    OBVIOUS
  <2> QED
    BY <2>1, <2>2 DEF Min
<1>2. Max({x, y}) = IF x >= y THEN x ELSE y
  <2> DEFINE m == IF x >= y THEN x ELSE y
  <2>1. m \in {x, y} /\ \A z \in {x, y} : m >= z
    OBVIOUS
  <2>2. \A n \in {x, y} : (\A z \in {x, y} : n >= z) => n = m
    OBVIOUS
  <2> QED
    BY <2>1, <2>2 DEF Max
<1> QED
  BY <1>1, <1>2

(* paymentWindows: from the beginning on, without a gap, up to the target.  *)
LEMMA WindowsAreChained ==
    ASSUME NEW begin \in Nat, NEW end \in Nat
    PROVE  /\ Chained(Windows(begin, end), end)
           /\ Windows(begin, end) # <<>> => Windows(begin, end)[1].from = begin
<1> DEFINE all == IF end > begin THEN (end - begin + Day - 1) \div Day ELSE 0
           count == Min({MaxWindows, all})
           W(i) == [from |-> begin + (i - 1) * Day, to |-> Min({begin + i * Day, end}),
                    checkpoint |-> "recent"]
<1>1. Day \in Nat \ {0} /\ MaxWindows \in Nat
  BY SyncAssumption
<1>2. all \in Nat /\ (end > begin => all * Day <= end - begin + Day - 1)
  BY <1>1
<1>3. count \in Nat /\ count <= all
  BY <1>1, <1>2, MinMaxOfTwo
<1>4. Windows(begin, end) = [i \in 1..count |-> W(i)]
  BY DEF Windows
<1>5. ASSUME NEW i \in 1..count
      PROVE  /\ begin + (i - 1) * Day \in Nat /\ begin + (i - 1) * Day < end
             /\ begin + i * Day \in Int
             /\ begin + (i - 1) * Day < begin + i * Day
             /\ i < count => begin + i * Day < end
  <2>1. end > begin
    BY <1>3
  <2>2. i - 1 \in Nat /\ i <= all /\ i \in Nat
    BY <1>2, <1>3
  <2>3. (i - 1) * Day \in Nat /\ i * Day = (i - 1) * Day + Day /\ i * Day \in Int
    BY <1>1, <2>2
  <2>4. i * Day <= all * Day /\ all * Day \in Int
    BY <1>1, <1>2, <2>2
  <2>5. i < count => i * Day + Day <= all * Day
    <3> HAVE i < count
    <3>1. i + 1 <= all
      BY <1>2, <1>3, <2>2
    <3>2. (i + 1) * Day <= all * Day /\ (i + 1) * Day = i * Day + Day
      BY <1>1, <1>2, <2>2, <3>1
    <3> QED
      BY <3>2
  <2> QED
    BY <1>1, <1>2, <2>1, <2>3, <2>4, <2>5
<1> HIDE DEF all, count
<1>6. ASSUME NEW i \in 1..count
      PROVE  /\ W(i) \in RecentWindows /\ W(i).from < W(i).to /\ W(i).to <= end
             /\ i < count => W(i).to = begin + i * Day
  <2>1. /\ Min({begin + i * Day, end}) \in Nat
        /\ begin + (i - 1) * Day < Min({begin + i * Day, end})
        /\ Min({begin + i * Day, end}) <= end
        /\ i < count => Min({begin + i * Day, end}) = begin + i * Day
    BY <1>5, MinMaxOfTwo
  <2> QED
    BY <1>5, <2>1 DEF RecentWindows
<1>7. Windows(begin, end) \in Seq(RecentWindows) /\ Len(Windows(begin, end)) = count
  BY <1>3, <1>4, <1>6
<1>8. \A k \in 1..count : Windows(begin, end)[k] = W(k)
  BY <1>4
<1>9. ASSUME NEW k \in 1..count - 1
      PROVE  Windows(begin, end)[k + 1].from = Windows(begin, end)[k].to
  <2>1. k \in 1..count /\ k + 1 \in 1..count /\ k < count
    BY <1>3
  <2>2. (k + 1) - 1 = k
    OBVIOUS
  <2>3. W(k + 1).from = begin + k * Day
    BY <2>2
  <2>4. W(k).to = begin + k * Day
    BY <1>6, <2>1
  <2> HIDE DEF W
  <2> QED
    BY <1>8, <2>1, <2>3, <2>4
<1>10. Windows(begin, end) # <<>> => Windows(begin, end)[1].from = begin
  <2> HAVE Windows(begin, end) # <<>>
  <2>1. 1 \in 1..count
    BY <1>3, <1>7
  <2>2. W(1).from = begin
    BY <1>1
  <2> QED
    BY <1>8, <2>1, <2>2
<1> QED
  BY <1>6, <1>7, <1>8, <1>9, <1>10 DEF Chained

(* The window that is next, and what is left after it.                      *)
LEMMA FirstWindow ==
    ASSUME NEW todo, NEW target \in Int, Chained(todo, target), todo # <<>>
    PROVE  /\ Head(todo) = todo[1] /\ todo[1] \in RecentWindows
           /\ todo[1].from \in Nat /\ todo[1].to \in Nat /\ todo[1].checkpoint = "recent"
           /\ todo[1].from < todo[1].to /\ todo[1].to <= target
           /\ Chained(Tail(todo), target)
           /\ Tail(todo) # <<>> => Tail(todo)[1].from = todo[1].to /\ todo[1].to < target
<1>1. todo \in Seq(RecentWindows) /\ Len(todo) \in Nat /\ 1 \in 1..Len(todo)
  BY DEF Chained
<1>2. /\ Head(todo) = todo[1] /\ todo[1] \in RecentWindows
      /\ todo[1].from < todo[1].to /\ todo[1].to <= target
  BY <1>1 DEF Chained
<1>3. todo[1].from \in Nat /\ todo[1].to \in Nat /\ todo[1].checkpoint = "recent"
  BY <1>2 DEF RecentWindows
<1>4. /\ Tail(todo) \in Seq(RecentWindows) /\ Len(Tail(todo)) = Len(todo) - 1
      /\ \A k \in 1..Len(todo) - 1 : Tail(todo)[k] = todo[k + 1]
  BY <1>1
<1>5. Chained(Tail(todo), target)
  <2>1. \A k \in 1..Len(todo) - 1 : k + 1 \in 1..Len(todo)
    BY <1>1
  <2>2. \A k \in 1..Len(todo) - 2 : k + 1 \in 1..Len(todo) - 1 /\ k \in 1..Len(todo) - 1
    BY <1>1
  <2>3. \A k \in 1..Len(Tail(todo)) :
          Tail(todo)[k].from < Tail(todo)[k].to /\ Tail(todo)[k].to <= target
    BY <1>4, <2>1 DEF Chained
  <2>4. \A k \in 1..Len(Tail(todo)) - 1 : Tail(todo)[k + 1].from = Tail(todo)[k].to
    <3>1. Len(Tail(todo)) - 1 = Len(todo) - 2
      BY <1>1, <1>4
    <3> QED
      BY <1>4, <2>2, <3>1 DEF Chained
  <2> QED
    BY <1>4, <2>3, <2>4 DEF Chained
<1>6. Tail(todo) # <<>> => Tail(todo)[1].from = todo[1].to /\ todo[1].to < target
  <2> HAVE Tail(todo) # <<>>
  <2>1. 1 \in 1..Len(todo) - 1 /\ 2 \in 1..Len(todo)
    BY <1>1, <1>4
  <2>2. Tail(todo)[1] = todo[2] /\ todo[2].from = todo[1].to
    BY <1>4, <2>1 DEF Chained
  <2>3. todo[2].from < todo[2].to /\ todo[2].to <= target /\ todo[2] \in RecentWindows
    BY <1>1, <2>1 DEF Chained
  <2> QED
    BY <1>3, <2>2, <2>3 DEF RecentWindows
<1> QED
  BY <1>2, <1>3, <1>5, <1>6

-----------------------------------------------------------------------------
(* The provider's steps. *)

\* What the provider may change: time goes on, a bill happens or is listed
\* now, a refund is settled.
ProviderMove ==
    /\ UNCHANGED <<row, updated, review, match, events, synced, baseline, reconciled, lastReconciliation,
                   round, failures, silent>>
    /\ now' \in now..Horizon
    /\ occurred' \in [Rows -> 0..Never] /\ shown' \in [Rows -> 0..Never]
    /\ state' \in [Rows -> {"PENDING", "SUCCESS"}]
    /\ \A b \in Rows :
         /\ occurred'[b] = occurred[b] \/ (occurred[b] = Never /\ occurred'[b] = now)
         /\ shown'[b] = shown[b] \/ (shown[b] = Never /\ shown'[b] = now)
         /\ state'[b] = state[b] \/ state'[b] = "SUCCESS"
    /\ ProviderTimes'

(* When the provider moves on, nothing the importer knows becomes wrong.    *)
LEMMA ProviderMoves ==
    ASSUME SyncInv, ProviderMove
    PROVE  SyncInv'
<1> USE DEF ProviderMove
<1>0. Horizon \in Nat /\ Overlap \in Nat /\ Never = Horizon + 1
  BY SyncAssumption DEF Never
<1>1. /\ now \in 0..Horizon /\ synced \in 0..now /\ baseline \in 0..Never
      /\ occurred \in [Rows -> 0..Never] /\ shown \in [Rows -> 0..Never]
      /\ silent \subseteq Rows
  BY DEF SyncInv, Types
\* A bill that has just happened, or has just been listed, is listed now or not
\* yet; nothing it could be missing from has passed that moment.
<1>2. ASSUME NEW b \in Rows
      PROVE  \/ occurred'[b] = occurred[b] /\ shown'[b] = shown[b]
             \/ shown'[b] \in Int /\ shown'[b] >= now
  <2>1. shown[b] # Never => occurred[b] # Never
    BY <1>0, <1>1 DEF SyncInv, ProviderTimes
  <2>2. CASE shown[b] # Never
    BY <2>1, <2>2
  <2>3. CASE shown[b] = Never
    BY <1>0, <1>1, <2>3
  <2> QED
    BY <2>2, <2>3
<1>3. Types'
  <2>1. synced \in 0..now' /\ now' \in 0..Horizon
    BY <1>0, <1>1
  <2> QED
    BY <2>1 DEF SyncInv, Types
<1>4. PaidIsPaid'
  BY DEF SyncInv, PaidIsPaid, Types
<1>5. \A b \in Rows : occurred[b] # Never => occurred'[b] = occurred[b]
  OBVIOUS
<1>6. SilentIsPast'
  <2>1. ASSUME NEW b \in silent \cap Bills
        PROVE  occurred[b] < now /\ occurred'[b] = occurred[b]
    <3>1. b \in Rows /\ occurred[b] < now
      BY <1>1 DEF SyncInv, SilentIsPast
    <3> QED
      BY <1>0, <1>1, <1>5, <3>1
  <2>2. ASSUME NEW b \in silent \cap Bills
        PROVE  occurred'[b] < now'
    BY <1>0, <1>1, <2>1
  <2> QED
    BY <2>1, <2>2 DEF SyncInv, SilentIsPast
<1>7. Imported'
  <2> SUFFICES ASSUME NEW b \in Rows, shown'[b] <= occurred'[b] + Overlap, shown'[b] < synced
               PROVE  row[b] # "NONE"
    BY DEF Imported
  <2>1. occurred'[b] = occurred[b] /\ shown'[b] = shown[b]
    BY <1>1, <1>2
  <2> QED
    BY <2>1 DEF SyncInv, Imported
<1>8. Announced'
  <2>1. ASSUME NEW b \in silent \cap Bills
        PROVE  occurred'[b] < baseline
    <3>1. occurred[b] < baseline /\ b \in Rows /\ occurred[b] < now
      BY <1>1 DEF SyncInv, Announced, SilentIsPast
    <3> QED
      BY <1>0, <1>1, <1>5, <3>1
  <2>2. ASSUME NEW b \in Rows, (Status(b) = "AVAILABLE")'
        PROVE  b \in events \cup silent
    <3>1. occurred'[b] <= occurred[b] /\ occurred'[b] \in Nat /\ occurred[b] \in Nat
      BY <1>0, <1>1
    <3>2. MatchingSince \in Nat
      BY SyncAssumption
    <3>3. Status(b) = "AVAILABLE"
      BY <2>2, <3>1, <3>2 DEF Status, Duplicate
    <3> QED
      BY <3>3 DEF SyncInv, Announced
  <2> QED
    BY <2>1, <2>2 DEF SyncInv, Announced
<1>9. RoundInv'
  <2> SUFFICES ASSUME round # <<>>
               PROVE  /\ round = <<round[1]>>
                      /\ RoundShape(round[1])' /\ BeforeRound(round[1])'
                      /\ CoveredSoFar(round[1])' /\ AnswerIsTrue(round[1])'
    BY DEF RoundInv
  <2> DEFINE r == round[1]
  <2>1. /\ round = <<r>> /\ RoundShape(r) /\ BeforeRound(r) /\ CoveredSoFar(r)
        /\ AnswerIsTrue(r)
    BY DEF SyncInv, RoundInv
  <2>2. round' = round
    OBVIOUS
  <2>3. r.target \in 0..now /\ r.begin \in Nat
    BY <2>1 DEF RoundShape
  <2>4. RoundShape(round[1])'
    <3>1. 0..now \subseteq 0..now'
      BY <1>0, <1>1
    <3> QED
      BY <2>1, <2>2, <3>1 DEF RoundShape
  <2>5. BeforeRound(round[1])'
    <3> SUFFICES ASSUME r.begin > 0
                 PROVE  /\ r.begin + Overlap <= now'
                        /\ \A b \in Rows : shown'[b] <= occurred'[b] + Overlap
                                           /\ shown'[b] < r.begin + Overlap => row[b] # "NONE"
      BY <2>2 DEF BeforeRound
    <3>1. r.begin + Overlap <= now
      BY <2>1 DEF BeforeRound
    <3>2. r.begin + Overlap <= now'
      BY <1>0, <1>1, <2>3, <3>1
    <3>3. ASSUME NEW b \in Rows, shown'[b] <= occurred'[b] + Overlap, shown'[b] < r.begin + Overlap
          PROVE  row[b] # "NONE"
      <4>1. occurred'[b] = occurred[b] /\ shown'[b] = shown[b]
        BY <1>0, <1>1, <1>2, <2>3, <3>1, <3>3, SMTT(30)
      <4> QED
        BY <2>1, <3>3, <4>1 DEF BeforeRound
    <3> QED
      BY <3>2, <3>3
  <2>6. ASSUME NEW b \in Rows, shown'[b] < r.target
        PROVE  occurred'[b] = occurred[b] /\ shown'[b] = shown[b]
    BY <1>1, <1>2, <2>3, <2>6
  <2>7. CoveredSoFar(round[1])'
    BY <2>1, <2>2, <2>6 DEF CoveredSoFar
  <2>8. AnswerIsTrue(round[1])'
    <3> SUFFICES ASSUME r.fetched
                 PROVE  AnswerIsTrue(round[1])'
      BY <2>2 DEF AnswerIsTrue
    <3>1. r.bills \subseteq [bill : Rows, state : Kinds]
      BY <2>1 DEF RoundShape
    <3>2. \A a \in r.bills : /\ a.state = "SUCCESS" => state'[a.bill] = "SUCCESS"
                             /\ row[a.bill] = "SUCCESS" => a.state # "PENDING"
      BY <2>1, <3>1 DEF AnswerIsTrue
    <3>3. ASSUME ~r.older, NEW a \in r.bills, a.bill \in Bills
          PROVE  occurred'[a.bill] < r.todo[1].to
      <4>1. occurred[a.bill] < r.todo[1].to /\ a.bill \in Rows
        BY <2>1, <3>1, <3>3 DEF AnswerIsTrue
      <4>2. r.todo[1].to <= r.target /\ r.todo[1].to \in Int
        <5>1. Chained(r.todo, r.target) /\ r.todo # <<>>
          BY <2>1, <3>3 DEF RoundShape
        <5>2. r.target \in Int
          BY <1>1, <2>3
        <5> HIDE DEF r
        <5>3. r.todo[1].to <= r.target /\ r.todo[1].to \in Nat
          BY <5>1, <5>2, FirstWindow
        <5> QED
          BY <5>3
      <4>3. occurred[a.bill] # Never
        BY <1>0, <1>1, <2>3, <4>1, <4>2
      <4> QED
        BY <1>5, <4>1, <4>3
    <3>4. ASSUME ~r.older, NEW b \in Rows, r.todo[1].from <= occurred'[b],
                 occurred'[b] < r.todo[1].to, shown'[b] < r.target
          PROVE  \E a \in r.bills : a.bill = b
      BY <2>1, <2>6, <3>4 DEF AnswerIsTrue
    <3>5. \A a, c \in r.bills :
            a.bill = c.bill /\ a.state # "UNKNOWN" /\ c.state # "UNKNOWN" => a.state = c.state
      BY <2>1 DEF AnswerIsTrue
    <3> QED
      BY <2>2, <3>2, <3>3, <3>4, <3>5 DEF AnswerIsTrue
  <2> QED
    BY <2>1, <2>4, <2>5, <2>7, <2>8
<1> QED
  BY <1>3, <1>4, <1>6, <1>7, <1>8, <1>9 DEF SyncInv

(* The four things that happen at the provider are such moves.              *)
LEMMA ProviderSteps ==
    ASSUME SyncInv,
           Tick \/ \E b \in Rows : Occur(b) \/ Appear(b) \/ Settle(b)
    PROVE  SyncInv'
<1>0. Horizon \in Nat /\ Never = Horizon + 1
  BY SyncAssumption DEF Never
<1>1. /\ now \in 0..Horizon
      /\ occurred \in [Rows -> 0..Never] /\ shown \in [Rows -> 0..Never]
      /\ state \in [Rows -> {"PENDING", "SUCCESS"}]
      /\ \A b \in Rows : /\ occurred[b] # Never => occurred[b] <= now
                         /\ shown[b] # Never => occurred[b] <= shown[b] /\ shown[b] <= now
  BY DEF SyncInv, Types, ProviderTimes
<1>2. CASE Tick
  <2>1. /\ UNCHANGED <<occurred, shown, state>> /\ now' = now + 1 /\ now' \in now..Horizon
        /\ UNCHANGED <<row, updated, review, match, events, synced, baseline, reconciled, lastReconciliation,
                       round, failures, silent>>
    BY <1>0, <1>1, <1>2 DEF Tick, provider, tables, history
  <2>2. ProviderTimes'
    BY <1>0, <1>1, <2>1 DEF ProviderTimes
  <2>3. ProviderMove
    BY <1>1, <2>1, <2>2 DEF ProviderMove
  <2> QED
    BY <2>3, ProviderMoves
<1>3. ASSUME NEW b \in Rows, Occur(b)
      PROVE  SyncInv'
  <2>1. /\ now' = now /\ state' = state /\ occurred[b] = Never
        /\ occurred' = [occurred EXCEPT ![b] = now]
        /\ shown' = [shown EXCEPT ![b] = IF b \in Refunds THEN now ELSE @]
        /\ UNCHANGED <<row, updated, review, match, events, synced, baseline, reconciled, lastReconciliation,
                       round, failures, silent>>
    BY <1>3 DEF Occur, tables, history
  <2>2. now \in 0..Never /\ now # Never /\ now' \in now..Horizon
    BY <1>0, <1>1, <2>1
  <2>3. shown[b] = Never
    BY <1>0, <1>1, <2>1, <2>2
  <2>4. /\ occurred' \in [Rows -> 0..Never] /\ shown' \in [Rows -> 0..Never]
        /\ occurred'[b] = now /\ shown'[b] \in {now, Never}
        /\ \A c \in Rows : c # b => occurred'[c] = occurred[c] /\ shown'[c] = shown[c]
    BY <1>1, <2>1, <2>2, <2>3
  <2>5. ProviderTimes'
    BY <1>1, <2>1, <2>2, <2>4 DEF ProviderTimes
  <2>6. ProviderMove
    BY <1>1, <2>1, <2>2, <2>3, <2>4, <2>5 DEF ProviderMove
  <2> QED
    BY <2>6, ProviderMoves
<1>4. ASSUME NEW b \in Rows, Appear(b)
      PROVE  SyncInv'
  <2>1. /\ now' = now /\ state' = state /\ occurred' = occurred
        /\ occurred[b] # Never /\ shown[b] = Never
        /\ shown' = [shown EXCEPT ![b] = now]
        /\ UNCHANGED <<row, updated, review, match, events, synced, baseline, reconciled, lastReconciliation,
                       round, failures, silent>>
    BY <1>4 DEF Appear, tables, history
  <2>2. now \in 0..Never /\ now' \in now..Horizon
    BY <1>0, <1>1, <2>1
  <2>3. /\ shown' \in [Rows -> 0..Never] /\ shown'[b] = now
        /\ \A c \in Rows : c # b => shown'[c] = shown[c]
    BY <1>1, <2>1, <2>2
  <2>4. ProviderTimes'
    BY <1>1, <2>1, <2>2, <2>3 DEF ProviderTimes
  <2>5. ProviderMove
    BY <1>1, <2>1, <2>2, <2>3, <2>4 DEF ProviderMove
  <2> QED
    BY <2>5, ProviderMoves
<1>5. ASSUME NEW b \in Rows, Settle(b)
      PROVE  SyncInv'
  <2>1. /\ UNCHANGED <<now, occurred, shown>>
        /\ state' = [state EXCEPT ![b] = "SUCCESS"]
        /\ UNCHANGED <<row, updated, review, match, events, synced, baseline, reconciled, lastReconciliation,
                       round, failures, silent>>
    BY <1>5 DEF Settle, tables, history
  <2>2. now' \in now..Horizon
    BY <1>0, <1>1, <2>1
  <2>3. /\ state' \in [Rows -> {"PENDING", "SUCCESS"}]
        /\ \A c \in Rows : state'[c] = state[c] \/ state'[c] = "SUCCESS"
    BY <1>1, <2>1
  <2>4. ProviderTimes'
    BY <1>1, <2>1 DEF ProviderTimes
  <2>5. ProviderMove
    BY <1>1, <2>1, <2>2, <2>3, <2>4 DEF ProviderMove
  <2> QED
    BY <2>5, ProviderMoves
<1> QED
  BY <1>2, <1>3, <1>4, <1>5

-----------------------------------------------------------------------------
(* The importer's steps. *)

(* The facts about the bounds and the kinds of values every step needs.     *)
LEMMA Bounds ==
    ASSUME SyncInv
    PROVE  /\ Horizon \in Nat /\ Overlap \in Nat /\ Never = Horizon + 1
           /\ now \in 0..Horizon /\ synced \in 0..now /\ baseline \in 0..Never
           /\ now \in Nat /\ synced \in Nat
           /\ \A b \in Rows : /\ occurred[b] \in 0..Never /\ shown[b] \in 0..Never
                             /\ row[b] \in {"NONE", "UNKNOWN", "PENDING", "SUCCESS"}
           /\ Bills \subseteq Rows /\ silent \subseteq Rows /\ events \subseteq Rows
BY SyncAssumption DEF SyncInv, Types, Never, Rows

(* At first nothing is imported, and nothing has to be.                     *)
LEMMA SyncStarts == Init => SyncInv
<1> SUFFICES ASSUME Init
             PROVE  SyncInv
  OBVIOUS
<1> USE DEF Init
<1>0. Horizon \in Nat /\ Overlap \in Nat /\ Never = Horizon + 1
  BY SyncAssumption DEF Never
<1>1. \A b \in Rows : occurred[b] \in {0, Never} /\ shown[b] = occurred[b]
  OBVIOUS
<1>2. occurred \in [Rows -> 0..Never] /\ shown \in [Rows -> 0..Never]
  BY <1>0
<1>3. Types
  BY <1>0, <1>2 DEF Types
<1>4. ProviderTimes
  BY <1>0, <1>1 DEF ProviderTimes
<1>5. PaidIsPaid /\ SilentIsPast /\ Announced
  BY DEF PaidIsPaid, SilentIsPast, Announced, Status
<1>6. Imported
  BY <1>0, <1>1 DEF Imported
<1>7. RoundInv
  BY DEF RoundInv
<1> QED
  BY <1>3, <1>4, <1>5, <1>6, <1>7 DEF SyncInv

(* A round starts where the rounds before it have imported everything.      *)
LEMMA RoundStarts ==
    ASSUME SyncInv, StartRound
    PROVE  SyncInv'
<1> DEFINE begin == Max({0, synced - Overlap})
           r == [notify |-> baseline # Never, begin |-> begin, target |-> now, older |-> FALSE,
                 todo |-> Windows(begin, now), fetched |-> FALSE, bills |-> {}]
<1>1. /\ round = <<>> /\ round' = <<r>> /\ round' # <<>> /\ round'[1] = r
      /\ UNCHANGED <<now, occurred, shown, state, row, updated, review, match, events, synced, baseline,
                     reconciled, lastReconciliation, failures, silent>>
  BY DEF StartRound, provider, tables, history
<1>2. begin = IF synced >= Overlap THEN synced - Overlap ELSE 0
  <2>1. synced - Overlap \in Int /\ 0 \in Int
    BY Bounds
  <2>2. begin = IF 0 >= synced - Overlap THEN 0 ELSE synced - Overlap
    BY <2>1, MinMaxOfTwo
  <2> QED
    BY Bounds, <2>2
<1>3. begin \in Nat /\ (begin > 0 => begin + Overlap = synced)
  BY Bounds, <1>2
<1>4. /\ Chained(Windows(begin, now), now)
      /\ Windows(begin, now) # <<>> => Windows(begin, now)[1].from = begin
  BY Bounds, <1>3, WindowsAreChained
<1> HIDE DEF begin
<1>5. RoundShape(round[1])'
  <2>1. /\ r \in [notify : BOOLEAN, begin : Nat, target : 0..now, older : BOOLEAN,
                  todo : {r.todo}, fetched : BOOLEAN, bills : SUBSET [bill : Rows, state : Kinds]]
        /\ ~r.older /\ ~r.fetched /\ Chained(r.todo, r.target)
        /\ ~r.notify => baseline = Never
    <3>1. (baseline # Never) \in BOOLEAN /\ now \in 0..now
      BY Bounds
    <3>2. r.notify = (baseline # Never)
      OBVIOUS
    <3> QED
      BY <1>3, <1>4, <3>1, <3>2
  <2> HIDE DEF r
  <2> QED
    BY <1>1, <2>1 DEF RoundShape
<1>6. BeforeRound(round[1])'
  <2> SUFFICES ASSUME begin > 0
               PROVE  /\ begin + Overlap <= now
                      /\ \A b \in Rows : shown[b] <= occurred[b] + Overlap
                                         /\ shown[b] < begin + Overlap => row[b] # "NONE"
    BY <1>1 DEF BeforeRound
  <2> QED
    BY Bounds, <1>3 DEF SyncInv, Imported
<1>7. CoveredSoFar(round[1])'
  <2> SUFFICES ASSUME Windows(begin, now) # <<>>, NEW b \in Rows, begin <= occurred[b],
                      occurred[b] < Windows(begin, now)[1].from
               PROVE  FALSE
    BY <1>1 DEF CoveredSoFar
  <2> QED
    BY Bounds, <1>3, <1>4
<1>8. AnswerIsTrue(round[1])'
  BY <1>1 DEF AnswerIsTrue
<1>9. RoundInv'
  BY <1>1, <1>5, <1>6, <1>7, <1>8 DEF RoundInv
<1>10. SilentIsPast'
  BY <1>1 DEF SyncInv, SilentIsPast
<1>11. (Types /\ ProviderTimes /\ PaidIsPaid /\ Imported /\ Announced)'
  BY <1>1 DEF SyncInv, Types, ProviderTimes, PaidIsPaid, Imported, Announced, Status,
             Duplicate
<1> QED
  BY <1>9, <1>10, <1>11 DEF SyncInv

(* What a running round is.                                                 *)
LEMMA Running ==
    ASSUME SyncInv, round # <<>>
    PROVE  /\ round = <<round[1]>> /\ RoundShape(round[1]) /\ BeforeRound(round[1])
           /\ CoveredSoFar(round[1]) /\ AnswerIsTrue(round[1])
           /\ round[1].target \in 0..now /\ round[1].target \in Nat /\ round[1].begin \in Nat
           /\ round[1].bills \subseteq [bill : Rows, state : Kinds]
<1>1. /\ round = <<round[1]>> /\ RoundShape(round[1]) /\ BeforeRound(round[1])
      /\ CoveredSoFar(round[1]) /\ AnswerIsTrue(round[1])
  BY DEF SyncInv, RoundInv
<1>2. /\ round[1].target \in 0..now /\ round[1].begin \in Nat
      /\ round[1].bills \subseteq [bill : Rows, state : Kinds]
  BY <1>1 DEF RoundShape
<1> QED
  BY <1>1, <1>2, Bounds

(* A round ends, or turns to older windows, without touching the tables.    *)
LEMMA RoundEnds ==
    ASSUME SyncInv, round' = <<>>,
           UNCHANGED <<now, occurred, shown, state, row, review, match, events, synced, baseline, silent>>
    PROVE  SyncInv'
BY DEF SyncInv, Types, ProviderTimes, PaidIsPaid, SilentIsPast, Imported, Announced, Status,
       Duplicate, RoundInv

(* The recent windows are done; a repair and a day of the history follow.   *)
LEMMA TurnsToOlder ==
    ASSUME SyncInv, TurnToOlder
    PROVE  SyncInv'
<1> DEFINE windows == RepairWindow \o HistoryWindow
           r == round[1]
           next == [r EXCEPT !.older = TRUE, !.todo = windows]
<1>1. /\ round # <<>> /\ r.todo = <<>> /\ ~r.older
      /\ round' = IF windows = <<>> THEN <<>> ELSE <<next>>
      /\ UNCHANGED <<now, occurred, shown, state, row, updated, review, match, events, synced, baseline,
                     reconciled, lastReconciliation, failures, silent>>
  BY DEF TurnToOlder, provider, tables, history
<1>2. /\ RoundShape(r) /\ BeforeRound(r)
  BY <1>1, Running
<1>3. CASE windows = <<>>
  BY <1>1, <1>3, RoundEnds
<1>4. CASE windows # <<>>
  <2>1. /\ RepairWindow = <<>> \/ (r.notify /\ \E x : RepairWindow = <<x>> /\ x.checkpoint = "repair")
        /\ HistoryWindow = <<>> \/ (r.notify /\ \E x : HistoryWindow = <<x>> /\ x.checkpoint = "reconcile")
    <3>1. RepairWindow = <<>> \/ (r.notify /\ \E x : RepairWindow = <<x>> /\ x.checkpoint = "repair")
      BY DEF RepairWindow
    <3>2. HistoryWindow = <<>> \/ (r.notify /\ \E x : HistoryWindow = <<x>> /\ x.checkpoint = "reconcile")
      <4> DEFINE until == Max({0, round[1].target - Overlap})
                 start == IF reconciled < until THEN reconciled ELSE 0
                 y == [from |-> start, to |-> Min({start + Day, until}),
                       checkpoint |-> "reconcile"]
      <4>1. HistoryWindow = <<>> \/ (r.notify /\ HistoryWindow = <<y>>)
        BY DEF HistoryWindow
      <4>2. y.checkpoint = "reconcile"
        OBVIOUS
      <4> HIDE DEF y
      <4> QED
        BY <4>1, <4>2
    <3> QED
      BY <3>1, <3>2
  <2> HIDE DEF windows
  <2>2. r.notify /\ OlderWindows(windows)
    <3>1. CASE RepairWindow = <<>> /\ \E x : HistoryWindow = <<x>> /\ x.checkpoint = "reconcile"
      BY <2>1, <3>1, <1>4 DEF windows, OlderWindows
    <3>2. CASE HistoryWindow = <<>> /\ \E x : RepairWindow = <<x>> /\ x.checkpoint = "repair"
      BY <2>1, <3>2, <1>4 DEF windows, OlderWindows
    <3>3. CASE /\ \E x : RepairWindow = <<x>> /\ x.checkpoint = "repair"
               /\ \E x : HistoryWindow = <<x>> /\ x.checkpoint = "reconcile"
      <4>1. PICK x : RepairWindow = <<x>> /\ x.checkpoint = "repair"
        BY <3>3
      <4>2. PICK y : HistoryWindow = <<y>> /\ y.checkpoint = "reconcile"
        BY <3>3
      <4>3. windows = <<x, y>>
        <5>1. <<x>> \in Seq({x, y}) /\ <<y>> \in Seq({x, y})
          OBVIOUS
        <5>2. /\ windows = <<x>> \o <<y>> /\ windows \in Seq({x, y}) /\ Len(windows) = 2
              /\ windows[1] = x /\ windows[2] = y
          BY <4>1, <4>2, <5>1 DEF windows
        <5>3. <<x, y>> \in Seq({x, y}) /\ Len(<<x, y>>) = 2
          OBVIOUS
        <5>4. \A k \in 1..Len(windows) : windows[k] = <<x, y>>[k]
          BY <5>2
        <5> QED
          BY <5>2, <5>3, <5>4, SeqEqual
      <4> QED
        BY <2>1, <4>1, <4>2, <4>3 DEF OlderWindows
    <3> QED
      BY <2>1, <3>1, <3>2, <3>3, <1>4 DEF windows
  <2>3. round' = <<next>> /\ round'[1] = next /\ round' # <<>>
    BY <1>1, <1>4
  <2>4. /\ next \in [notify : BOOLEAN, begin : Nat, target : 0..now, older : BOOLEAN,
                     todo : {windows}, fetched : BOOLEAN, bills : SUBSET [bill : Rows, state : Kinds]]
        /\ next.notify = r.notify /\ next.begin = r.begin /\ next.target = r.target
        /\ next.older = TRUE /\ next.todo = windows /\ next.fetched = r.fetched
    BY <1>2 DEF RoundShape
  <2>5. ~r.fetched
    BY <1>1, <1>2 DEF RoundShape
  <2> HIDE DEF next
  <2>6. RoundShape(round[1])'
    BY <1>1, <2>2, <2>3, <2>4, <2>5 DEF RoundShape
  <2>7. BeforeRound(round[1])'
    BY <1>1, <1>2, <2>3, <2>4 DEF BeforeRound
  <2>8. (CoveredSoFar(round[1]) /\ AnswerIsTrue(round[1]))'
    BY <2>3, <2>4, <2>5 DEF CoveredSoFar, AnswerIsTrue
  <2>9. RoundInv'
    BY <2>3, <2>6, <2>7, <2>8 DEF RoundInv
  <2>10. SilentIsPast'
    BY <1>1, <2>3, <2>4 DEF SyncInv, SilentIsPast
  <2>11. (Types /\ ProviderTimes /\ PaidIsPaid /\ Imported /\ Announced)'
    BY <1>1 DEF SyncInv, Types, ProviderTimes, PaidIsPaid, Imported, Announced, Status,
             Duplicate
  <2> QED
    BY <2>9, <2>10, <2>11 DEF SyncInv
<1> QED
  BY <1>3, <1>4

(* The answer of the provider says of each bill what is so.                 *)
LEMMA Fetches ==
    ASSUME SyncInv, Fetch
    PROVE  SyncInv'
<1> DEFINE r == round[1]
           window == Head(r.todo)
           bills == Answer(window.from, window.to)
           next == [r EXCEPT !.fetched = TRUE, !.bills = bills]
<1>1. /\ round # <<>> /\ r.todo # <<>> /\ ~r.fetched
      /\ round' = <<next>>
      /\ UNCHANGED <<now, occurred, shown, state, row, updated, review, match, events, synced, baseline,
                     reconciled, lastReconciliation, failures, silent>>
  BY DEF Fetch, provider, tables, history
<1>2. RoundShape(r) /\ BeforeRound(r) /\ CoveredSoFar(r) /\ r.target \in 0..now /\ r.target \in Nat
  BY <1>1, Running
<1>3. state \in [Rows -> {"PENDING", "SUCCESS"}]
  BY DEF SyncInv, Types
<1>4. /\ bills \subseteq [bill : Rows, state : Kinds]
      /\ \A a \in bills : a.state \in {state[a.bill], "UNKNOWN"}
  BY <1>3 DEF Answer, Listed, Rows, Kinds
<1>5. \A a \in bills : a.bill \in Bills => a.bill \in Listed(window.from, window.to)
  BY SyncAssumption DEF Answer
<1>6. \A b \in Listed(window.from, window.to) : \E a \in bills : a.bill = b
  <2> SUFFICES ASSUME NEW b \in Listed(window.from, window.to)
               PROVE  \E a \in bills : a.bill = b
    OBVIOUS
  <2> DEFINE paid == [bill |-> b, state |-> state[b]]
             placed == [bill |-> b, state |-> "UNKNOWN"]
  <2>1. CASE b \in Bills
    <3>1. paid \in bills /\ paid.bill = b
      BY <2>1 DEF Answer
    <3> QED
      BY <3>1
  <2>2. CASE b \in Refunds
    <3>1. placed \in bills /\ placed.bill = b
      BY <2>2 DEF Answer
    <3> QED
      BY <3>1
  <2> QED
    BY <2>1, <2>2 DEF Listed, Rows
<1>7. /\ next \in [notify : BOOLEAN, begin : Nat, target : 0..now, older : BOOLEAN,
                   todo : {r.todo}, fetched : BOOLEAN, bills : SUBSET [bill : Rows, state : Kinds]]
      /\ next.notify = r.notify /\ next.begin = r.begin /\ next.target = r.target
      /\ next.older = r.older /\ next.todo = r.todo /\ next.fetched = TRUE /\ next.bills = bills
  BY <1>2, <1>4 DEF RoundShape
<1>8. round' # <<>> /\ round'[1] = next
  BY <1>1
<1>9. ~r.older => window = r.todo[1] /\ window.from \in Nat /\ window.to \in Nat
  <2> HAVE ~r.older
  <2>1. Chained(r.todo, r.target) /\ r.target \in Int
    BY <1>2 DEF RoundShape
  <2> HIDE DEF r
  <2> QED
    BY <1>1, <2>1, FirstWindow
<1> HIDE DEF next, bills, window
<1>10. RoundShape(round[1])'
  BY <1>1, <1>2, <1>7, <1>8 DEF RoundShape
<1>11. (BeforeRound(round[1]) /\ CoveredSoFar(round[1]))'
  BY <1>1, <1>2, <1>7, <1>8 DEF BeforeRound, CoveredSoFar
<1>12. AnswerIsTrue(round[1])'
  <2>1. \A a \in bills : /\ a.state = "SUCCESS" => state[a.bill] = "SUCCESS"
                         /\ row[a.bill] = "SUCCESS" => a.state # "PENDING"
    BY <1>4 DEF SyncInv, PaidIsPaid
  <2>2. \A a, c \in bills :
          a.bill = c.bill /\ a.state # "UNKNOWN" /\ c.state # "UNKNOWN" => a.state = c.state
    BY <1>4
  <2>3. ASSUME ~r.older, NEW a \in bills, a.bill \in Bills
        PROVE  occurred[a.bill] < r.todo[1].to
    BY <1>5, <1>9, <2>3 DEF Listed
  <2>4. ASSUME ~r.older, NEW b \in Rows, r.todo[1].from <= occurred[b],
               occurred[b] < r.todo[1].to, shown[b] < r.target
        PROVE  \E a \in bills : a.bill = b
    <3>1. shown[b] <= now
      BY Bounds, <1>2, <2>4
    <3>2. occurred[b] >= window.from
      BY Bounds, <1>9, <2>4
    <3> QED
      BY <1>6, <1>9, <2>4, <3>1, <3>2 DEF Listed
  <2> QED
    BY <1>1, <1>7, <1>8, <2>1, <2>2, <2>3, <2>4 DEF AnswerIsTrue
<1>13. RoundInv'
  BY <1>1, <1>8, <1>10, <1>11, <1>12 DEF RoundInv
<1>14. SilentIsPast'
  BY <1>1, <1>7, <1>8 DEF SyncInv, SilentIsPast
<1>15. (Types /\ ProviderTimes /\ PaidIsPaid /\ Imported /\ Announced)'
  BY <1>1 DEF SyncInv, Types, ProviderTimes, PaidIsPaid, Imported, Announced, Status,
             Duplicate
<1> QED
  BY <1>13, <1>14, <1>15 DEF SyncInv

(* What persistBill makes of a row, given a true answer: a success stays    *)
(* one, verified details stay verified, a bill in the answer has a row, and *)
(* it is recorded as paid if the answer says so and only then.              *)
LEMMA NewRows ==
    ASSUME SyncInv, round # <<>>, round[1].fetched, NEW b \in Rows
    PROVE  /\ NewRow[b] \in {"NONE", "UNKNOWN", "PENDING", "SUCCESS"}
           /\ row[b] # "NONE" \/ (\E a \in round[1].bills : a.bill = b) => NewRow[b] # "NONE"
           /\ row[b] \in {"PENDING", "SUCCESS"} => NewRow[b] \in {"PENDING", "SUCCESS"}
           /\ row[b] = "SUCCESS" => NewRow[b] = "SUCCESS"
           /\ NewRow[b] = "SUCCESS" => state[b] = "SUCCESS"
           /\ "SUCCESS" \in Observed(b) => NewRow[b] = "SUCCESS"
           /\ NewRow[b] = "SUCCESS" /\ row[b] # "SUCCESS" => "SUCCESS" \in Observed(b)
<1> DEFINE verified == Observed(b) \ {"UNKNOWN"}
<1>1. row[b] \in {"NONE", "UNKNOWN", "PENDING", "SUCCESS"}
  BY Bounds
<1>2. AnswerIsTrue(round[1]) /\ round[1].bills \subseteq [bill : Rows, state : Kinds]
  BY Running
<1>3. \A s \in Observed(b) : \E a \in round[1].bills : a.bill = b /\ a.state = s
  BY DEF Observed
<1>4. (\E a \in round[1].bills : a.bill = b) => Observed(b) # {}
  BY DEF Observed
<1>5. verified \subseteq {"PENDING", "SUCCESS"}
  BY <1>2, <1>3 DEF Kinds
<1>6. \A s, t \in verified : s = t
  BY <1>2, <1>3 DEF AnswerIsTrue
<1>7. "SUCCESS" \in Observed(b) => state[b] = "SUCCESS"
  BY <1>2, <1>3 DEF AnswerIsTrue
<1>8. row[b] = "SUCCESS" => "PENDING" \notin Observed(b)
  BY <1>2, <1>3 DEF AnswerIsTrue
<1>9. row[b] = "SUCCESS" => state[b] = "SUCCESS"
  BY DEF SyncInv, PaidIsPaid
<1>10. NewRow[b] = IF Observed(b) = {} THEN row[b] ELSE Recorded(b)
  BY DEF NewRow
<1>11. CASE verified # {}
  <2>1. PICK s \in verified : TRUE
    BY <1>11
  <2>2. (CHOOSE x \in verified : TRUE) \in verified
    BY <2>1
  <2>3. Recorded(b) \in verified /\ Observed(b) # {}
    BY <1>11, <2>2 DEF Recorded
  <2>4. NewRow[b] \in verified
    BY <1>10, <2>3
  <2> QED
    BY <1>1, <1>5, <1>6, <1>7, <1>8, <2>4
<1>12. CASE verified = {}
  <2>1. Recorded(b) = IF row[b] = "NONE" THEN "UNKNOWN" ELSE row[b]
    BY <1>12 DEF Recorded
  <2>2. "SUCCESS" \notin Observed(b)
    BY <1>12
  <2>3. NewRow[b] = row[b] \/ (row[b] = "NONE" /\ NewRow[b] = "UNKNOWN")
    BY <1>10, <2>1
  <2>4. Observed(b) # {} => NewRow[b] # "NONE"
    BY <1>10, <2>1
  <2> QED
    BY <1>1, <1>4, <1>9, <2>2, <2>3, <2>4
<1> QED
  BY <1>11, <1>12

(* A window is written with its checkpoint.                                 *)
LEMMA Persists ==
    ASSUME SyncInv, Persist
    PROVE  SyncInv'
<1> DEFINE r == round[1]
           w == r.todo[1]
           rest == [r EXCEPT !.todo = Tail(r.todo), !.fetched = FALSE, !.bills = {}]
<1>1. /\ round # <<>> /\ r.fetched
      /\ row' = NewRow
      /\ events' = IF r.notify THEN events \cup {b \in Paid : Discovered(b)'} ELSE events
      /\ silent' = IF r.notify THEN silent
                   ELSE silent \cup {b \in Rows : row[b] # "SUCCESS" /\ row'[b] = "SUCCESS"}
      /\ Checkpoint(Head(r.todo))
      /\ round' = IF r.older /\ Len(r.todo) = 1 THEN <<>> ELSE <<rest>>
      /\ UNCHANGED <<now, occurred, shown, state>>
  BY DEF Persist, Notify, provider
<1>2. /\ RoundShape(r) /\ BeforeRound(r) /\ CoveredSoFar(r) /\ AnswerIsTrue(r)
      /\ r.target \in 0..now /\ r.target \in Nat /\ r.begin \in Nat
      /\ r.bills \subseteq [bill : Rows, state : Kinds]
  BY <1>1, Running
<1>3. r.todo # <<>>
  BY <1>1, <1>2 DEF RoundShape
<1>4. ~r.older => /\ Head(r.todo) = w /\ w.checkpoint = "recent"
                  /\ w.from \in Nat /\ w.to \in Nat /\ w.from < w.to /\ w.to <= r.target
                  /\ Chained(Tail(r.todo), r.target)
                  /\ Tail(r.todo) # <<>> => Tail(r.todo)[1].from = w.to /\ w.to < r.target
  <2> HAVE ~r.older
  <2>1. Chained(r.todo, r.target) /\ r.target \in Int
    BY <1>2 DEF RoundShape
  <2> HIDE DEF r
  <2> QED
    BY <1>3, <2>1, FirstWindow
<1>5. r.older => /\ r.notify /\ Head(r.todo).checkpoint # "recent"
                 /\ Len(r.todo) # 1 => OlderWindows(Tail(r.todo))
  <2> HAVE r.older
  <2>1. r.notify /\ OlderWindows(r.todo)
    BY <1>2 DEF RoundShape
  <2>2. CASE r.todo = <<r.todo[1]>>
    <3>1. Head(r.todo) = r.todo[1] /\ Len(r.todo) = 1
      BY <2>2
    <3> QED
      BY <2>1, <3>1 DEF OlderWindows
  <2>3. CASE r.todo = <<r.todo[1], r.todo[2]>>
    <3> DEFINE x == r.todo[1]
               y == r.todo[2]
    <3>0. r.todo = <<x, y>>
      BY <2>3
    <3>1. \A k \in 1..Len(r.todo) : r.todo[k].checkpoint \in {"repair", "reconcile"}
      BY <2>1 DEF OlderWindows
    <3> HIDE DEF x, y
    <3>2. Len(r.todo) = 2 /\ Head(r.todo) = x /\ Tail(r.todo) = <<y>>
      BY <3>0
    <3>3. x.checkpoint \in {"repair", "reconcile"} /\ y.checkpoint \in {"repair", "reconcile"}
      <4>1. 1 \in 1..Len(r.todo) /\ 2 \in 1..Len(r.todo)
        BY <3>2
      <4> QED
        BY <3>1, <4>1 DEF x, y
    <3>4. OlderWindows(<<y>>)
      BY <3>3 DEF OlderWindows
    <3> QED
      BY <2>1, <3>2, <3>3, <3>4
  <2> QED
    BY <2>1, <2>2, <2>3 DEF OlderWindows
\* The checkpoints.
<1>6. /\ ~r.older => /\ synced' = w.to
                     /\ baseline' = IF baseline = Never /\ w.to >= r.target THEN w.to ELSE baseline
      /\ r.older => synced' = synced /\ baseline' = baseline
  <2>1. ASSUME ~r.older
        PROVE  Recent(w)
    BY <1>1, <1>4, <2>1 DEF Checkpoint
  <2>2. ASSUME r.older
        PROVE  UNCHANGED <<synced, baseline>>
    BY <1>1, <1>5, <2>2 DEF Checkpoint
  <2> QED
    BY <2>1, <2>2 DEF Recent
<1>7. ~r.older /\ ~r.notify => baseline = Never
  BY <1>2, <1>3 DEF RoundShape
<1>8. baseline # Never => baseline' = baseline
  BY <1>6
<1>9. baseline = Never /\ baseline' # Never => ~r.older /\ w.to = r.target /\ baseline' = w.to
  BY <1>2, <1>4, <1>6
\* The rows.
<1>10. \A b \in Rows :
         /\ row'[b] \in {"NONE", "UNKNOWN", "PENDING", "SUCCESS"}
         /\ row[b] # "NONE" \/ (\E a \in r.bills : a.bill = b) => row'[b] # "NONE"
         /\ row[b] = "SUCCESS" => row'[b] = "SUCCESS"
         /\ row'[b] = "SUCCESS" => state[b] = "SUCCESS"
         /\ "SUCCESS" \in Observed(b) => row'[b] = "SUCCESS"
         /\ row'[b] = "SUCCESS" /\ row[b] # "SUCCESS" => "SUCCESS" \in Observed(b)
  BY <1>1, NewRows
\* A payment first seen in a round without notifications lies in its window.
<1>11. \A b \in Bills : b \in silent' =>
          b \in silent \/ (~r.older /\ ~r.notify /\ occurred[b] < w.to /\ baseline = Never)
  <2> SUFFICES ASSUME NEW b \in Bills, b \in silent', b \notin silent
               PROVE  ~r.older /\ ~r.notify /\ occurred[b] < w.to /\ baseline = Never
    OBVIOUS
  <2>1. ~r.notify /\ b \in Rows /\ row[b] # "SUCCESS" /\ row'[b] = "SUCCESS"
    BY <1>1
  <2>2. ~r.older
    BY <1>5, <2>1
  <2>3. PICK a \in r.bills : a.bill = b
    BY <1>10, <2>1 DEF Observed
  <2>4. occurred[b] < w.to
    BY <1>1, <1>2, <2>2, <2>3 DEF AnswerIsTrue
  <2> QED
    BY <1>7, <2>1, <2>2, <2>4
<1> HIDE DEF r, w, rest
<1>12. Types'
  <2>1. row' \in [Rows -> {"NONE", "UNKNOWN", "PENDING", "SUCCESS"}]
    BY <1>1, <1>10 DEF NewRow
  <2>2. synced' \in 0..now /\ baseline' \in 0..Never
    BY Bounds, <1>2, <1>4, <1>6
  <2>3. events' \subseteq Rows /\ silent' \subseteq Rows
    BY Bounds, <1>1 DEF Paid
  <2> QED
    BY <1>1, <2>1, <2>2, <2>3 DEF SyncInv, Types
<1>13. ProviderTimes'
  BY <1>1 DEF SyncInv, ProviderTimes
<1>14. PaidIsPaid'
  <2>1. \A b \in Paid : b \in Rows /\ row'[b] = "SUCCESS"
    BY <1>10 DEF Paid
  <2>2. \A b \in events \cup silent : b \in Rows /\ row'[b] = "SUCCESS"
    BY Bounds, <1>10 DEF SyncInv, PaidIsPaid
  <2> QED
    BY <1>1, <1>10, <2>1, <2>2 DEF PaidIsPaid
<1>15. SilentIsPast'
  <2> SUFFICES ASSUME NEW b \in silent' \cap Bills
               PROVE  /\ occurred[b] < now
                      /\ round' # <<>> /\ baseline' = Never => occurred[b] < round'[1].target
    BY <1>1 DEF SilentIsPast
  <2>1. round' # <<>> => round'[1].target = r.target
    BY <1>1, <1>2 DEF RoundShape, rest
  <2>2. baseline' = Never => baseline = Never
    BY <1>8
  <2>3. CASE b \in silent
    <3>1. occurred[b] < now /\ (baseline = Never => occurred[b] < r.target)
      BY <1>1, <2>3 DEF SyncInv, SilentIsPast, r
    <3> QED
      BY <2>1, <2>2, <3>1
  <2>4. CASE b \notin silent
    <3>1. ~r.older /\ occurred[b] < w.to
      BY <1>11, <2>4
    <3>2. occurred[b] < r.target /\ occurred[b] < now
      BY Bounds, <1>2, <1>4, <3>1, SMTT(30)
    <3> QED
      BY <2>1, <3>2
  <2> QED
    BY <2>3, <2>4
<1>16. Imported'
  <2> SUFFICES ASSUME NEW b \in Rows, shown[b] <= occurred[b] + Overlap, shown[b] < synced'
               PROVE  row'[b] # "NONE"
    BY <1>1 DEF Imported
  <2>1. CASE r.older
    BY <1>6, <1>10, <2>1 DEF SyncInv, Imported
  <2>2. CASE ~r.older
    <3>1. shown[b] < w.to /\ shown[b] < r.target /\ shown[b] # Never
      BY Bounds, <1>2, <1>4, <1>6, <2>2, SMTT(30)
    <3>2. occurred[b] <= shown[b] /\ occurred[b] < w.to
      <4>1. occurred[b] <= shown[b]
        BY <3>1 DEF SyncInv, ProviderTimes
      <4> QED
        BY Bounds, <1>4, <2>2, <3>1, <4>1, SMTT(30)
    <3>3. CASE w.from <= occurred[b]
      BY <1>1, <1>2, <1>10, <2>2, <3>1, <3>2, <3>3 DEF AnswerIsTrue, w
    <3>4. CASE r.begin <= occurred[b] /\ occurred[b] < w.from
      BY <1>2, <1>3, <1>10, <2>2, <3>1, <3>4 DEF CoveredSoFar, w
    <3>5. CASE occurred[b] < r.begin
      <4>1. r.begin > 0 /\ shown[b] < r.begin + Overlap
        BY Bounds, <1>2, <3>5
      <4> QED
        BY <1>2, <1>10, <4>1 DEF BeforeRound
    <3> QED
      BY Bounds, <1>2, <1>4, <2>2, <3>3, <3>4, <3>5, SMTT(30)
  <2> QED
    BY <2>1, <2>2
\* No match and no review is ever taken back.
<1>17. \A b \in Rows : (match'[b] = {} => match[b] = {}) /\ (b \in review => b \in review')
  <2>1. PICK links \in SUBSET Due : Link(Due, links)
    BY DEF Persist, Firsts, Linkable
  <2> QED
    BY <2>1 DEF Link, Due
<1>18. Announced'
  <2>1. ASSUME NEW b \in Rows, (Status(b) = "AVAILABLE")'
        PROVE  b \in events' \cup silent'
    <3>1. occurred[b] \in Int /\ MatchingSince \in Int
      BY Bounds, SyncAssumption
    <3>2. row'[b] = "SUCCESS" /\ Discovered(b)'
      BY <1>1, <2>1, <3>1 DEF Status, Discovered
    <3>3. CASE row[b] = "SUCCESS"
      <4>1. match[b] = {} /\ b \notin review
        BY <1>17, <3>2 DEF Discovered
      <4>2. ~Duplicate(b)
        BY <1>10, <3>2 DEF Discovered, Duplicate
      <4>3. Status(b) = "AVAILABLE"
        BY <1>1, <3>1, <3>2, <3>3, <4>1, <4>2 DEF Status, Discovered
      <4> QED
        BY <1>1, <4>3 DEF SyncInv, Announced
    <3>4. CASE row[b] # "SUCCESS"
      BY <1>1, <1>10, <3>2, <3>4 DEF Paid
    <3> QED
      BY <3>3, <3>4
  <2>2. events' \cap silent' = {}
    BY <1>1 DEF SyncInv, Announced, PaidIsPaid, Paid
  <2>3. ASSUME NEW b \in silent' \cap Bills
        PROVE  occurred[b] < baseline'
    <3>1. b \in Rows
      BY Bounds
    <3>2. CASE baseline' = Never
      <4>1. occurred[b] < now
        BY <1>1, <1>15 DEF SilentIsPast
      <4> QED
        BY Bounds, <3>1, <3>2, <4>1
    <3>3. CASE baseline # Never
      <4>1. b \in silent
        BY <1>11, <3>3
      <4> QED
        BY <1>8, <3>3, <4>1 DEF SyncInv, Announced
    <3>4. CASE baseline = Never /\ baseline' # Never
      <4>1. ~r.older /\ baseline' = w.to /\ w.to = r.target
        BY <1>9, <3>4
      <4>2. b \in silent => occurred[b] < r.target
        BY <1>1, <3>4 DEF SyncInv, SilentIsPast, r
      <4>3. b \notin silent => occurred[b] < w.to
        BY <1>11
      <4> QED
        BY <4>1, <4>2, <4>3
    <3> QED
      BY <3>2, <3>3, <3>4
  <2> QED
    BY <1>1, <2>1, <2>2, <2>3 DEF Announced
<1>19. RoundInv'
  <2> SUFFICES ASSUME ~(r.older /\ Len(r.todo) = 1)
               PROVE  RoundInv'
    BY <1>1 DEF RoundInv
  <2>1. round' = <<rest>> /\ round' # <<>> /\ round'[1] = rest
    BY <1>1
  <2>2. /\ rest \in [notify : BOOLEAN, begin : Nat, target : 0..now, older : BOOLEAN,
                     todo : {Tail(r.todo)}, fetched : BOOLEAN,
                     bills : SUBSET [bill : Rows, state : Kinds]]
        /\ rest.notify = r.notify /\ rest.begin = r.begin /\ rest.target = r.target
        /\ rest.older = r.older /\ rest.todo = Tail(r.todo) /\ ~rest.fetched
    BY <1>2 DEF RoundShape, rest
  <2>3. RoundShape(round[1])'
    <3>1. ~rest.older /\ ~rest.notify /\ rest.todo # <<>> => baseline' = Never
      BY <1>2, <1>4, <1>6, <1>7, <2>2
    <3>2. ~rest.older => Chained(rest.todo, rest.target)
      BY <1>4, <2>2
    <3>3. rest.older => rest.notify /\ OlderWindows(rest.todo)
      BY <1>5, <2>2
    <3> QED
      BY <1>1, <2>1, <2>2, <3>1, <3>2, <3>3 DEF RoundShape
  <2>4. BeforeRound(round[1])'
    BY <1>1, <1>2, <1>10, <2>1, <2>2 DEF BeforeRound
  <2>5. CoveredSoFar(round[1])'
    <3> SUFFICES ASSUME ~r.older, Tail(r.todo) # <<>>, NEW b \in Rows, r.begin <= occurred[b],
                        occurred[b] < w.to, shown[b] < r.target
                 PROVE  row'[b] # "NONE"
      BY <1>1, <1>4, <2>1, <2>2 DEF CoveredSoFar
    <3>1. CASE w.from <= occurred[b]
      BY <1>1, <1>2, <1>10, <3>1 DEF AnswerIsTrue, w
    <3>2. CASE occurred[b] < w.from
      BY <1>2, <1>3, <1>10, <3>2 DEF CoveredSoFar, w
    <3> QED
      BY Bounds, <1>4, <3>1, <3>2
  <2>6. AnswerIsTrue(round[1])'
    BY <2>1, <2>2 DEF AnswerIsTrue
  <2> QED
    BY <2>1, <2>3, <2>4, <2>5, <2>6 DEF RoundInv
<1> QED
  BY <1>12, <1>13, <1>14, <1>15, <1>16, <1>18, <1>19 DEF SyncInv

-----------------------------------------------------------------------------
(* The theorems. *)

(* Every step of the provider and of the worker keeps the invariant.        *)
LEMMA SyncSteps == SyncInv /\ [Next]_vars => SyncInv'
<1> SUFFICES ASSUME SyncInv, [Next]_vars
             PROVE  SyncInv'
  OBVIOUS
<1>1. CASE Tick \/ \E b \in Rows : Occur(b) \/ Appear(b) \/ Settle(b)
  BY <1>1, ProviderSteps
<1>2. CASE StartRound
  BY <1>2, RoundStarts
<1>3. CASE TurnToOlder
  BY <1>3, TurnsToOlder
<1>4. CASE Fetch
  BY <1>4, Fetches
<1>5. CASE Persist
  BY <1>5, Persists
<1>6. CASE FailRound
  BY <1>6, RoundEnds DEF FailRound, provider, tables
<1>7. CASE UNCHANGED vars
  BY <1>7 DEF vars, SyncInv, Types, ProviderTimes, PaidIsPaid, SilentIsPast, Imported, Announced,
              Status, Duplicate, RoundInv, RoundShape, BeforeRound, CoveredSoFar, AnswerIsTrue
<1> QED
  BY <1>1, <1>2, <1>3, <1>4, <1>5, <1>6, <1>7 DEF Next, Worker

(* What the importer knows and has still to fetch fit together at all times *)
(* (wecom-sync.ts, syncSource).                                             *)
THEOREM SyncInvariant == Spec => []SyncInv
BY SyncStarts, SyncSteps, PTL DEF Spec

(* The checkpoint leaves no listed bill behind, and every payment that      *)
(* still waits to be booked was announced, or was paid when the baseline    *)
(* was imported and then not announced, whatever round fails where          *)
(* (wecom-sync.ts, syncSource; external-payments.ts, listExternalPayments). *)
THEOREM NothingLost == Spec => []SyncLosesNothing
<1>1. SyncInv => SyncLosesNothing
  BY DEF SyncInv, SyncLosesNothing
<1> QED
  BY <1>1, SyncInvariant, PTL

(* No window, however often and in whatever order it is fetched again,      *)
(* replaces verified details by a placeholder or takes back a success       *)
(* (persistBill).                                                           *)
THEOREM VerifiedForGood == Spec => VerifiedStays
<1>1. SyncInv /\ [Next]_vars =>
        [\A b \in Rows : /\ row[b] \in {"PENDING", "SUCCESS"} => row'[b] \in {"PENDING", "SUCCESS"}
                         /\ row[b] = "SUCCESS" => row'[b] = "SUCCESS"]_vars
  <2> SUFFICES ASSUME SyncInv, Next, NEW b \in Rows
               PROVE  /\ row[b] \in {"PENDING", "SUCCESS"} => row'[b] \in {"PENDING", "SUCCESS"}
                      /\ row[b] = "SUCCESS" => row'[b] = "SUCCESS"
    OBVIOUS
  <2>1. CASE Persist
    BY <2>1, NewRows DEF Persist
  <2>2. CASE Tick \/ \E c \in Rows : Occur(c) \/ Appear(c) \/ Settle(c)
    BY <2>2 DEF Tick, Occur, Appear, Settle, tables
  <2>3. CASE StartRound \/ TurnToOlder \/ Fetch \/ FailRound
    BY <2>3 DEF StartRound, TurnToOlder, Fetch, FailRound, tables
  <2> QED
    BY <2>1, <2>2, <2>3 DEF Next, Worker
<1> QED
  BY <1>1, SyncInvariant, PTL DEF Spec, VerifiedStays
=============================================================================
