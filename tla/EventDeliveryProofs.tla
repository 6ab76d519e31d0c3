------------------------ MODULE EventDeliveryProofs ------------------------
(***************************************************************************)
(* The event stream of EventDelivery keeps its promises for any number of   *)
(* events, workers and feed clients, and for every value of the bounds.     *)
(***************************************************************************)
EXTENDS EventDelivery, TLAPS

Sending == {"claimed", "answered"}

(* A worker that sends or has an answer holds a claim on an event. *)
ClaimsHeld == \A w \in Workers : job[w] \in Sending => claim[w] \in Claims

(* The publish-state row has one owner, whose reading of the head is fresh. *)
RowOwned ==
    /\ \A v, w \in Workers : {job[v], job[w]} \subseteq {"publish", "prune"} => v = w
    /\ \A w \in Workers : job[w] = "publish" => num[w] = head
    /\ \A w \in Workers : job[w] = "prune" => num[w] <= head

(* What a worker is about to record as accepted has been recorded.          *)
AnswersTrue ==
    \A w \in Workers : job[w] = "answered" /\ res[w] = "accepted" => claim[w][1] \in received

(* Only events at or below the floor are gone, and a feed client that has a *)
(* cursor is between the floor it started from and the head.                *)
PrunedBelowFloor == \A e \in Events : state[e] = "pruned" => seq[e] <= floor
FeedPlaced ==
    \A r \in Readers :
        /\ cursor[r] = NoCursor => got[r] = {}
        /\ cursor[r] # NoCursor => base[r] <= cursor[r] /\ cursor[r] <= head

TypeInv == TypeOK /\ ClaimsHeld
StreamInv == RowOwned /\ PublishedInOrder /\ PrunedBelowFloor
FeedInv == FeedPlaced /\ FeedComplete
ClaimInv == ClaimsAreFenced /\ AnswersTrue /\ AcceptedWasReceived
DeliveryInv == TypeInv /\ StreamInv /\ FeedInv /\ ClaimInv

-----------------------------------------------------------------------------
(* Every step keeps the ranges of the columns, and a worker that sends has  *)
(* a claim. *)
LEMMA TypeStep == TypeInv /\ [Next]_vars => TypeInv'
<1> SUFFICES ASSUME TypeInv, [Next]_vars PROVE TypeInv'
  OBVIOUS
<1> USE DeliveryAssumption DEF TypeInv, TypeOK, ClaimsHeld, Sending, Claims, States, Retained, NoClaim, NoCursor
<1>1. ASSUME NEW w \in Workers, PublishLock(w) PROVE TypeInv'
  BY <1>1 DEF PublishLock, Goto, rowVars, deliveryVars, readerVars
<1>2. ASSUME NEW w \in Workers, PublishCommit(w) PROVE TypeInv'
  <2>1. PICK n \in 1..BatchLimit, batch \in SUBSET Unpublished :
            \E place \in [batch -> 1..n] : Publish(w, n, batch, place)
    BY <1>2 DEF PublishCommit
  <2>2. PICK place \in [batch -> 1..n] : Publish(w, n, batch, place)
    BY <2>1
  <2>3. seq' \in [Events -> Nat] /\ head' \in Nat
    BY <2>2 DEF Publish
  <2>4. state' \in [Events -> States] /\ due' \in [Events -> BOOLEAN]
    BY <2>2 DEF Publish
  <2> QED
    BY <1>2, <2>3, <2>4 DEF PublishCommit, Done, Goto, readerVars
<1>3. ASSUME NEW w \in Workers, PruneScan(w) PROVE TypeInv'
  BY <1>3 DEF PruneScan, Goto, rowVars, deliveryVars, readerVars
<1>4. ASSUME NEW w \in Workers, PruneDelete(w) PROVE TypeInv'
  BY <1>4 DEF PruneDelete, Done, Goto, deliveryVars, readerVars
<1>5. ASSUME NEW w \in Workers, NEW e \in Events, Claim(w, e) PROVE TypeInv'
  BY <1>5 DEF Claim, NextGeneration, Goto, rowVars, readerVars
<1>6. ASSUME NEW w \in Workers, SendClaim(w) PROVE TypeInv'
  BY <1>6 DEF SendClaim, Goto, RecordedAfter, ClassifyDelivery, Replies, rowVars, deliveryVars, readerVars
<1>7. ASSUME NEW w \in Workers, FinishDelivery(w) PROVE TypeInv'
  <2>1. state' \in [Events -> States] /\ lease' \in [Events -> {"none", "live", "over"}]
    BY <1>7, SMTT(30) DEF FinishDelivery, Settled
  <2>2. due' \in [Events -> BOOLEAN]
    BY <1>7 DEF FinishDelivery
  <2>3. paused' \in BOOLEAN
    BY <1>7 DEF FinishDelivery
  <2>4. /\ Done(w)
        /\ UNCHANGED <<rowVars, gen, tries, day, received, readerVars, faults, controls>>
    BY <1>7 DEF FinishDelivery
  <2> QED
    BY <2>1, <2>2, <2>3, <2>4 DEF Done, Goto, rowVars, readerVars
<1>8. ASSUME NEW w \in Workers, Crash(w) PROVE TypeInv'
  BY <1>8 DEF Crash, Done, Goto, rowVars, deliveryVars, readerVars
<1>9. ASSUME NEW e \in Events, Emit(e) PROVE TypeInv'
  BY <1>9 DEF Emit, rowVars, deliveryVars, workerVars, readerVars
<1>10. ASSUME NEW e \in Events, Time(e) PROVE TypeInv'
  <2>1. CASE RetryDue(e)
    BY <2>1 DEF RetryDue, rowVars, workerVars, readerVars
  <2>2. CASE LeaseOver(e)
    BY <2>2 DEF LeaseOver, rowVars, workerVars, readerVars
  <2>3. CASE DayOver(e)
    BY <2>3 DEF DayOver, rowVars, workerVars, readerVars
  <2>4. CASE RetentionOver(e)
    BY <2>4 DEF RetentionOver, deliveryVars, workerVars, readerVars
  <2> QED
    BY <1>10, <2>1, <2>2, <2>3, <2>4 DEF Time
<1>11. ASSUME NEW e \in Events, Replay(e) PROVE TypeInv'
  BY <1>11 DEF Replay, rowVars, workerVars, readerVars
<1>12. ASSUME NEW r \in Readers, FeedExpired(r) PROVE TypeInv'
  BY <1>12 DEF FeedExpired, rowVars, deliveryVars, workerVars
<1>13. ASSUME NEW r \in Readers, FeedPage(r) PROVE TypeInv'
  <2>1. /\ Consumed(r) \in Nat \cup {NoCursor}
        /\ \A last \in Ahead(r) : seq[last] \in Nat /\ Page(r, last) \subseteq Events
    BY DEF Consumed, Ahead, Page
  <2>2. cursor' \in [Readers -> Nat \cup {NoCursor}] /\ got' \in [Readers -> SUBSET Events]
    BY <1>13, <2>1, SMTT(30) DEF FeedPage
  <2>3. base' \in [Readers -> Nat]
    BY <1>13 DEF FeedPage
  <2> QED
    BY <1>13, <2>2, <2>3 DEF FeedPage, rowVars, deliveryVars, workerVars
<1>14. CASE Pause \/ Resume
  <2>1. paused' \in BOOLEAN
    BY <1>14 DEF Pause, Resume
  <2>2. /\ controls' \in 0..MaxControls
        /\ UNCHANGED <<state, rowVars, deliveryVars, workerVars, received, readerVars, faults>>
    BY <1>14 DEF Pause, Resume
  <2> QED
    BY <2>1, <2>2 DEF rowVars, deliveryVars, workerVars, readerVars
<1>15. CASE UNCHANGED vars
  BY <1>15 DEF vars, rowVars, deliveryVars, workerVars, readerVars
<1> QED
  BY <1>1, <1>2, <1>3, <1>4, <1>5, <1>6, <1>7, <1>8, <1>9, <1>10, <1>11, <1>12,
     <1>13, <1>14, <1>15 DEF Next, Work

-----------------------------------------------------------------------------
(* A publication appends its batch behind the head.                         *)
LEMMA PublishStep ==
    ASSUME TypeInv, StreamInv, NEW w \in Workers, PublishCommit(w)
    PROVE  /\ StreamInv'
           /\ head <= head'
           /\ \A e \in Events : seq'[e] # seq[e] => seq[e] = 0 /\ seq'[e] > head
<1> USE DeliveryAssumption DEF TypeInv, TypeOK, StreamInv, States, Retained
<1>1. PICK n \in 1..BatchLimit, batch \in SUBSET Unpublished :
         \E place \in [batch -> 1..n] : Numbering(n, batch, place) /\ Publish(w, n, batch, place)
  BY DEF PublishCommit
<1>2. PICK place \in [batch -> 1..n] : Numbering(n, batch, place) /\ Publish(w, n, batch, place)
  BY <1>1
<1>3. num[w] = head /\ head' = head + n
  BY <1>2 DEF PublishCommit, RowOwned, Publish
<1>4. \A e \in batch : e \in Events /\ state[e] = "outbox" /\ seq[e] = 0 /\ place[e] \in 1..n
  BY DEF Unpublished, PublishedInOrder
<1>5. \A e \in batch : seq'[e] = head + place[e] /\ state'[e] = "pending"
  BY <1>2, <1>3, <1>4 DEF Publish
<1>6. \A e \in Events \ batch : seq'[e] = seq[e] /\ state'[e] = state[e]
  BY <1>2 DEF Publish
<1>7. UNCHANGED floor /\ Done(w)
  BY DEF PublishCommit
<1>8. RowOwned'
  BY <1>3, <1>7 DEF RowOwned, Done, Goto, PublishCommit
<1>9. PublishedInOrder'
  <2>1. (floor <= head)'
    BY <1>3, <1>7 DEF PublishedInOrder
  <2>2. \A e \in Events : seq'[e] \in 0..head' /\ (seq'[e] = 0 <=> state'[e] \in {"absent", "outbox"})
    BY <1>3, <1>4, <1>5, <1>6 DEF PublishedInOrder
  <2>3. ASSUME NEW i \in 1..head' PROVE \E e \in Events : seq'[e] = i
    <3>1. CASE i <= head
      <4>1. PICK e \in Events : seq[e] = i
        BY <3>1 DEF PublishedInOrder
      <4>2. e \notin batch
        BY <4>1, <1>4
      <4> QED
        BY <4>1, <4>2, <1>6
    <3>2. CASE i > head
      <4>1. i - head \in 1..n
        BY <3>2, <1>3
      <4>2. PICK e \in batch : place[e] = i - head
        BY <4>1, <1>2 DEF Numbering
      <4> QED
        BY <4>2, <1>4, <1>5
    <3> QED
      BY <3>1, <3>2
  <2>4. ASSUME NEW d \in Events, NEW e \in Events, seq'[d] = seq'[e], seq'[d] > 0 PROVE d = e
    <3>1. CASE d \in batch /\ e \in batch
      <4>1. head + place[d] = head + place[e] /\ place[d] \in Nat /\ place[e] \in Nat
        BY <2>4, <3>1, <1>4, <1>5
      <4>2. place[d] = place[e]
        BY <4>1
      <4> QED
        BY <3>1, <4>2, <1>2 DEF Numbering
    <3>2. CASE d \notin batch /\ e \notin batch
      BY <2>4, <3>2, <1>6 DEF PublishedInOrder
    <3>3. CASE d \in batch /\ e \notin batch
      BY <2>4, <3>3, <1>4, <1>5, <1>6 DEF PublishedInOrder
    <3>4. CASE d \notin batch /\ e \in batch
      BY <2>4, <3>4, <1>4, <1>5, <1>6 DEF PublishedInOrder
    <3> QED
      BY <3>1, <3>2, <3>3, <3>4
  <2> QED
    BY <2>1, <2>2, <2>3, <2>4 DEF PublishedInOrder
<1>10. PrunedBelowFloor'
  BY <1>5, <1>6, <1>7 DEF PrunedBelowFloor
<1> QED
  BY <1>3, <1>4, <1>5, <1>6, <1>8, <1>9, <1>10

(* A pruning moves the floor, and nothing else that the stream is read by.  *)
LEMMA PruneStep ==
    ASSUME TypeInv, StreamInv, NEW w \in Workers, PruneDelete(w)
    PROVE  StreamInv'
<1> USE DEF TypeInv, TypeOK, StreamInv, States, Retained
<1>1. /\ UNCHANGED <<seq, head>>
      /\ floor' = IF floor < num[w] THEN num[w] ELSE floor
      /\ num[w] <= head
      /\ Done(w)
  BY DEF PruneDelete, RowOwned
<1>2. \A e \in Events : state'[e] = IF state[e] \in Retained /\ seq[e] <= num[w] THEN "pruned" ELSE state[e]
  BY DEF PruneDelete
<1>3. RowOwned'
  BY <1>1 DEF RowOwned, Done, Goto, PruneDelete
<1>4. PublishedInOrder'
  BY <1>1, <1>2 DEF PublishedInOrder
<1>5. PrunedBelowFloor'
  BY <1>1, <1>2 DEF PrunedBelowFloor
<1> QED
  BY <1>3, <1>4, <1>5

(* Numbers, head and floor belong to these two: every other step leaves     *)
(* them alone and moves an event only between states of one side.           *)
Side(s) ==
    CASE s \in {"absent", "outbox"} -> "unpublished"
      [] s = "pruned" -> "gone"
      [] OTHER -> "kept"
LEMMA OtherSteps ==
    ASSUME TypeInv, [Next]_vars,
           \A w \in Workers : ~PublishCommit(w) /\ ~PruneDelete(w)
    PROVE  /\ UNCHANGED <<seq, head, floor>>
           /\ \A e \in Events : Side(state'[e]) = Side(state[e])
<1> USE DeliveryAssumption DEF TypeInv, TypeOK, States, Retained, Side, rowVars
<1>1. ASSUME NEW w \in Workers, PublishLock(w) \/ PruneScan(w) \/ SendClaim(w) \/ Crash(w)
      PROVE  UNCHANGED <<seq, head, floor, state>>
  BY <1>1 DEF PublishLock, PruneScan, SendClaim, Crash
<1>2. ASSUME NEW w \in Workers, NEW e \in Events, Claim(w, e)
      PROVE  UNCHANGED <<seq, head, floor>> /\ \A d \in Events : Side(state'[d]) = Side(state[d])
  BY <1>2 DEF Claim, Claimable
<1>3. ASSUME NEW w \in Workers, FinishDelivery(w)
      PROVE  UNCHANGED <<seq, head, floor>> /\ \A d \in Events : Side(state'[d]) = Side(state[d])
  <2> DEFINE e == claim[w][1]
  <2>1. UNCHANGED <<seq, head, floor>>
    BY <1>3 DEF FinishDelivery
  <2>2. CASE UNCHANGED state
    BY <2>1, <2>2
  <2>3. CASE state[e] = "sending" /\ state' = [state EXCEPT ![e] = Settled(e, res[w])]
    BY <2>1, <2>3 DEF Settled
  <2> QED
    BY <1>3, <2>2, <2>3 DEF FinishDelivery, Current
<1>4. ASSUME NEW e \in Events, Emit(e) \/ Time(e) \/ Replay(e)
      PROVE  UNCHANGED <<seq, head, floor>> /\ \A d \in Events : Side(state'[d]) = Side(state[d])
  BY <1>4 DEF Emit, Time, RetryDue, LeaseOver, DayOver, RetentionOver, Replay
<1>5. ASSUME NEW r \in Readers, FeedExpired(r) \/ FeedPage(r)
      PROVE  UNCHANGED <<seq, head, floor, state>>
  BY <1>5 DEF FeedExpired, FeedPage
<1>6. CASE Pause \/ Resume \/ UNCHANGED vars
  BY <1>6 DEF Pause, Resume, vars
<1> QED
  BY <1>1, <1>2, <1>3, <1>4, <1>5, <1>6 DEF Next, Work

(* The publish-state row keeps one owner. *)
LEMMA RowStep == TypeInv /\ StreamInv /\ [Next]_vars => StreamInv'
<1> SUFFICES ASSUME TypeInv, StreamInv, [Next]_vars PROVE StreamInv'
  OBVIOUS
<1>1. ASSUME NEW w \in Workers, PublishCommit(w) \/ PruneDelete(w) PROVE StreamInv'
  BY <1>1, PublishStep, PruneStep
<1>2. ASSUME \A w \in Workers : ~PublishCommit(w) /\ ~PruneDelete(w) PROVE StreamInv'
  <2>1. /\ UNCHANGED <<seq, head, floor>>
        /\ \A e \in Events : Side(state'[e]) = Side(state[e])
    BY <1>2, OtherSteps
  <2>2. PublishedInOrder'
    BY <2>1 DEF TypeInv, TypeOK, StreamInv, PublishedInOrder, Side
  <2>3. PrunedBelowFloor'
    BY <2>1 DEF TypeInv, TypeOK, StreamInv, PrunedBelowFloor, Side
  <2>4. RowOwned'
    <3> USE DEF TypeInv, TypeOK, StreamInv, RowOwned
    <3>1. ASSUME NEW w \in Workers, PublishLock(w) PROVE RowOwned'
      BY <3>1, <2>1 DEF PublishLock, Goto, StateRowFree
    <3>2. ASSUME NEW w \in Workers, PruneScan(w) PROVE RowOwned'
      BY <3>2, <2>1 DEF PruneScan, Goto, StateRowFree
    <3>3. ASSUME NEW w \in Workers, SendClaim(w) \/ FinishDelivery(w) \/ Crash(w) PROVE RowOwned'
      <4>1. \A v \in Workers : job'[v] \in {"publish", "prune"} => job[v] = job'[v] /\ num'[v] = num[v]
        BY <3>3 DEF SendClaim, FinishDelivery, Crash, Done, Goto
      <4> QED
        BY <4>1, <2>1
    <3>4. ASSUME NEW w \in Workers, NEW e \in Events, Claim(w, e) PROVE RowOwned'
      BY <3>4, <2>1 DEF Claim, Goto
    <3>5. CASE UNCHANGED <<job, num>>
      BY <3>5, <2>1
    <3>6. ASSUME NEW e \in Events, Emit(e) \/ Time(e) \/ Replay(e) PROVE UNCHANGED <<job, num>>
      BY <3>6 DEF Emit, Time, RetryDue, LeaseOver, DayOver, RetentionOver, Replay, workerVars
    <3>7. ASSUME NEW r \in Readers, FeedExpired(r) \/ FeedPage(r) PROVE UNCHANGED <<job, num>>
      BY <3>7 DEF FeedExpired, FeedPage, workerVars
    <3>8. CASE Pause \/ Resume \/ UNCHANGED vars
      BY <3>8, <3>5 DEF Pause, Resume, vars, workerVars
    <3> QED
      BY <1>2, <3>1, <3>2, <3>3, <3>4, <3>5, <3>6, <3>7, <3>8 DEF Next, Work
  <2> QED
    BY <2>2, <2>3, <2>4 DEF StreamInv
<1> QED
  BY <1>1, <1>2

-----------------------------------------------------------------------------
(* A feed page gives the events behind the cursor without a gap: none of    *)
(* them has been pruned unless the cursor is below the floor.               *)
LEMMA FeedPageStep ==
    ASSUME TypeInv, StreamInv, FeedInv, NEW r \in Readers, FeedPage(r)
    PROVE  FeedInv'
<1> USE DEF TypeInv, TypeOK, NoCursor
<1>1. UNCHANGED <<seq, head, floor, state>>
  BY DEF FeedPage, rowVars
<1> DEFINE start == IF cursor[r] = NoCursor THEN floor ELSE base[r]
<1>2. \A q \in Readers \ {r} : cursor'[q] = cursor[q] /\ base'[q] = base[q] /\ got'[q] = got[q]
  BY DEF FeedPage
<1>3. base'[r] = start /\ start \in Nat
  BY DEF FeedPage
<1>4. floor <= Consumed(r) /\ start <= Consumed(r) /\ Consumed(r) <= head /\ Consumed(r) \in Nat
  BY DEF FeedPage, Expired, Consumed, FeedInv, FeedPlaced, StreamInv, PublishedInOrder
<1>5. got[r] = {e \in Events : start < seq[e] /\ seq[e] <= Consumed(r)}
  <2>1. CASE cursor[r] = NoCursor
    BY <2>1 DEF Consumed, FeedInv, FeedPlaced
  <2>2. CASE cursor[r] # NoCursor
    BY <2>2 DEF Consumed, FeedInv, FeedComplete
  <2> QED
    BY <2>1, <2>2
<1>6. \A e \in Events : Consumed(r) < seq[e] => state[e] \in Retained /\ seq[e] <= head
  BY <1>4 DEF StreamInv, PublishedInOrder, PrunedBelowFloor, States, Retained
<1>7. /\ cursor'[r] \in Nat /\ start <= cursor'[r] /\ cursor'[r] <= head
      /\ got'[r] = {e \in Events : start < seq[e] /\ seq[e] <= cursor'[r]}
  <2>1. CASE Ahead(r) = {}
    BY <2>1, <1>4, <1>5 DEF FeedPage
  <2>2. CASE Ahead(r) # {}
    <3>1. PICK last \in Ahead(r) : cursor'[r] = seq[last] /\ got'[r] = got[r] \cup Page(r, last)
      BY <2>2 DEF FeedPage
    <3>2. last \in Events /\ Consumed(r) < seq[last] /\ seq[last] <= head /\ seq[last] \in Nat
      BY DEF Ahead
    <3>3. Page(r, last) = {e \in Events : Consumed(r) < seq[e] /\ seq[e] <= seq[last]}
      BY <1>6, <3>2 DEF Page, Ahead
    <3>4. got'[r] = {e \in Events : start < seq[e] /\ seq[e] <= seq[last]}
      BY <1>4, <1>5, <3>1, <3>2, <3>3
    <3> QED
      BY <1>4, <3>1, <3>2, <3>4
  <2> QED
    BY <2>1, <2>2
<1>8. FeedPlaced'
  BY <1>1, <1>2, <1>3, <1>7 DEF FeedInv, FeedPlaced
<1>9. FeedComplete'
  BY <1>1, <1>2, <1>3, <1>7 DEF FeedInv, FeedComplete
<1> QED
  BY <1>8, <1>9 DEF FeedInv

(* Every step keeps what the feed clients have been given complete.         *)
LEMMA FeedStep == TypeInv /\ StreamInv /\ FeedInv /\ [Next]_vars => FeedInv'
<1> SUFFICES ASSUME TypeInv, StreamInv, FeedInv, [Next]_vars PROVE FeedInv'
  OBVIOUS
<1> USE DEF TypeInv, TypeOK, NoCursor
<1>1. ASSUME NEW r \in Readers, FeedPage(r) PROVE FeedInv'
  BY <1>1, FeedPageStep
<1>2. ASSUME NEW r \in Readers, FeedExpired(r) PROVE FeedInv'
  BY <1>2 DEF FeedExpired, FeedInv, FeedPlaced, FeedComplete, rowVars
<1>3. ASSUME NEW w \in Workers, PublishCommit(w) PROVE FeedInv'
  <2>1. /\ head <= head'
        /\ \A e \in Events : seq'[e] # seq[e] => seq[e] = 0 /\ seq'[e] > head
    BY <1>3, PublishStep
  <2>2. UNCHANGED <<cursor, base, got>>
    BY <1>3 DEF PublishCommit, readerVars
  <2>3. TypeInv'
    BY TypeStep
  <2>4. FeedPlaced'
    BY <2>1, <2>2, <2>3 DEF FeedInv, FeedPlaced
  <2>5. \A r \in Readers : cursor[r] # NoCursor => \A e \in Events :
            base[r] < seq[e] /\ seq[e] <= cursor[r] <=> base[r] < seq'[e] /\ seq'[e] <= cursor[r]
    BY <2>1, <2>3, SMTT(30) DEF FeedInv, FeedPlaced
  <2>6. FeedComplete'
    BY <2>2, <2>5 DEF FeedInv, FeedComplete
  <2> QED
    BY <2>4, <2>6 DEF FeedInv
<1>4. ASSUME NEW w \in Workers, PruneDelete(w) PROVE FeedInv'
  BY <1>4 DEF PruneDelete, FeedInv, FeedPlaced, FeedComplete, readerVars
<1>5. CASE UNCHANGED <<seq, head, cursor, base, got>>
  BY <1>5 DEF FeedInv, FeedPlaced, FeedComplete
<1> QED
  BY <1>1, <1>2, <1>3, <1>4, <1>5 DEF Next, Work, PublishLock, PruneScan, Claim, SendClaim,
     FinishDelivery, Crash, Emit, Time, RetryDue, LeaseOver, DayOver, RetentionOver, Replay,
     Pause, Resume, vars, rowVars, readerVars

-----------------------------------------------------------------------------
(* Claims stay fenced by their generation, and what is recorded as accepted *)
(* has reached the subscriber.                                              *)
LEMMA ClaimStep == TypeInv /\ ClaimInv /\ [Next]_vars => ClaimInv'
<1> SUFFICES ASSUME TypeInv, ClaimInv, [Next]_vars PROVE ClaimInv'
  OBVIOUS
<1> USE DEF TypeInv, TypeOK, ClaimsHeld, Sending, Claims, States, Retained,
            ClaimInv, ClaimsAreFenced, AnswersTrue, AcceptedWasReceived
<1>1. ASSUME NEW w \in Workers, NEW e \in Events, Claim(w, e) PROVE ClaimInv'
  <2>1. /\ gen' = [gen EXCEPT ![e] = gen[e] + 1]
        /\ claim' = [claim EXCEPT ![w] = <<e, gen[e] + 1>>]
        /\ job' = [job EXCEPT ![w] = "claimed"]
        /\ state' = [state EXCEPT ![e] = "sending"]
        /\ UNCHANGED <<received, res>>
    BY <1>1 DEF Claim, Goto, NextGeneration
  <2>2. ClaimsAreFenced'
    <3>1. ASSUME NEW v \in Workers, v # w, job[v] \in Sending
          PROVE  /\ claim'[v] = claim[v] /\ claim[v] # <<e, gen[e] + 1>>
                 /\ claim[v][2] <= gen'[claim[v][1]]
      BY <2>1, <3>1
    <3>2. claim'[w] = <<e, gen[e] + 1>> /\ gen'[e] = gen[e] + 1
      BY <2>1
    <3>3. \A v \in Workers : v # w => job'[v] = job[v]
      BY <2>1
    <3> QED
      BY <3>1, <3>2, <3>3
  <2>3. AnswersTrue'
    BY <2>1
  <2>4. AcceptedWasReceived'
    BY <2>1
  <2> QED
    BY <2>2, <2>3, <2>4
<1>2. ASSUME NEW w \in Workers, SendClaim(w) PROVE ClaimInv'
  <2>1. /\ job' = [job EXCEPT ![w] = "answered"]
        /\ job[w] = "claimed" /\ claim[w] \in Claims
        /\ UNCHANGED <<state, gen, claim>>
    BY <1>2 DEF SendClaim, Goto, deliveryVars
  <2>2. PICK reply \in Replies : /\ received' \in RecordedAfter(claim[w][1], reply)
                                 /\ res' = [res EXCEPT ![w] = ClassifyDelivery(reply)]
    BY <1>2 DEF SendClaim
  <2>3. received \subseteq received' /\ (reply = "ack" => claim[w][1] \in received')
    BY <2>2 DEF RecordedAfter
  <2>4. res'[w] = "accepted" => claim[w][1] \in received'
    BY <2>2, <2>3 DEF ClassifyDelivery, Replies
  <2>5. \A v \in Workers : v # w => res'[v] = res[v] /\ job'[v] = job[v]
    BY <2>1, <2>2
  <2>6. ClaimsAreFenced'
    BY <2>1, <2>5
  <2>7. AnswersTrue' /\ AcceptedWasReceived'
    BY <2>1, <2>3, <2>4, <2>5
  <2> QED
    BY <2>6, <2>7
<1>3. ASSUME NEW w \in Workers, FinishDelivery(w) PROVE ClaimInv'
  <2>1. Done(w) /\ UNCHANGED <<gen, received>>
    BY <1>3 DEF FinishDelivery
  <2>2. \A v \in Workers : job'[v] # "idle" => /\ v # w
                                              /\ job'[v] = job[v]
                                              /\ claim'[v] = claim[v]
                                              /\ res'[v] = res[v]
    BY <2>1 DEF Done, Goto
  <2>3. ClaimsAreFenced' /\ AnswersTrue'
    BY <2>1, <2>2
  <2>4. AcceptedWasReceived'
    BY <1>3 DEF FinishDelivery, Settled
  <2> QED
    BY <2>3, <2>4
<1>4. ASSUME NEW w \in Workers, Crash(w) \/ PublishCommit(w) \/ PruneDelete(w) PROVE ClaimInv'
  <2>1. Done(w) /\ received \subseteq received' /\ UNCHANGED gen
    BY <1>4 DEF Crash, PublishCommit, PruneDelete, deliveryVars
  <2>2. \A v \in Workers : job'[v] # "idle" => /\ v # w
                                              /\ job'[v] = job[v]
                                              /\ claim'[v] = claim[v]
                                              /\ res'[v] = res[v]
    BY <2>1 DEF Done, Goto
  <2>3. \A e \in Events : state'[e] = "accepted" => state[e] = "accepted"
    <3>1. CASE PublishCommit(w)
      BY <3>1 DEF PublishCommit, Publish
    <3>2. CASE Crash(w) \/ PruneDelete(w)
      BY <3>2 DEF Crash, PruneDelete
    <3> QED
      BY <1>4, <3>1, <3>2
  <2>4. ClaimsAreFenced' /\ AnswersTrue'
    BY <2>1, <2>2
  <2>5. AcceptedWasReceived'
    BY <2>1, <2>3
  <2> QED
    BY <2>4, <2>5
<1>5. ASSUME NEW w \in Workers, PublishLock(w) \/ PruneScan(w) PROVE ClaimInv'
  BY <1>5, SMTT(60) DEF PublishLock, PruneScan, Goto, deliveryVars
<1>6. ASSUME NEW e \in Events, Emit(e) \/ Time(e) \/ Replay(e) PROVE ClaimInv'
  BY <1>6 DEF Emit, Time, RetryDue, LeaseOver, DayOver, RetentionOver, Replay, deliveryVars, workerVars
<1>7. CASE UNCHANGED <<state, gen, job, claim, res, received>>
  BY <1>7
<1>8. ASSUME NEW r \in Readers, FeedExpired(r) \/ FeedPage(r) PROVE ClaimInv'
  BY <1>7, <1>8 DEF FeedExpired, FeedPage, deliveryVars, workerVars
<1>9. CASE Pause \/ Resume \/ UNCHANGED vars
  BY <1>7, <1>9 DEF Pause, Resume, vars, deliveryVars, workerVars
<1> QED
  BY <1>1, <1>2, <1>3, <1>4, <1>5, <1>6, <1>8, <1>9 DEF Next, Work

-----------------------------------------------------------------------------
(* The four parts together are inductive. *)
THEOREM DeliveryInvariant == Spec => []DeliveryInv
<1>1. Init => DeliveryInv
  <2> SUFFICES ASSUME Init PROVE DeliveryInv
    OBVIOUS
  <2> USE DeliveryAssumption DEF Init
  <2>1. TypeInv
    <3>1. due \in [Events -> BOOLEAN] /\ day \in [Events -> BOOLEAN] /\ old \in [Events -> BOOLEAN]
      OBVIOUS
    <3> QED
      BY <3>1 DEF TypeInv, TypeOK, ClaimsHeld, Sending, States, NoClaim, NoCursor
  <2>2. StreamInv
    BY DEF StreamInv, RowOwned, PublishedInOrder, PrunedBelowFloor
  <2>3. FeedInv
    BY DEF FeedInv, FeedPlaced, FeedComplete, NoCursor
  <2>4. ClaimInv
    BY DEF ClaimInv, ClaimsAreFenced, AnswersTrue, AcceptedWasReceived
  <2> QED
    BY <2>1, <2>2, <2>3, <2>4 DEF DeliveryInv
<1>2. DeliveryInv /\ [Next]_vars => DeliveryInv'
  BY TypeStep, RowStep, FeedStep, ClaimStep DEF DeliveryInv
<1> QED
  BY <1>1, <1>2, PTL DEF Spec

(* Concurrent publications and prunings (058_integration_events.sql,        *)
(* qintopia_integration_publish and _prune) number the events without gap   *)
(* and without repetition.                                                  *)
THEOREM StreamIsOrdered == Spec => []PublishedInOrder
<1>1. DeliveryInv => PublishedInOrder
  BY DEF DeliveryInv, StreamInv
<1> QED
  BY <1>1, DeliveryInvariant, PTL

(* A feed client (readPmsEventFeed) is given every event between the floor  *)
(* it started from and its cursor.                                          *)
THEOREM FeedIsComplete == Spec => []FeedComplete
<1>1. DeliveryInv => FeedComplete
  BY DEF DeliveryInv, FeedInv
<1> QED
  BY <1>1, DeliveryInvariant, PTL

(* No two workers hold the same generation of a delivery (claimDelivery).   *)
THEOREM ClaimsStayFenced == Spec => []ClaimsAreFenced
<1>1. DeliveryInv => ClaimsAreFenced
  BY DEF DeliveryInv, ClaimInv
<1> QED
  BY <1>1, DeliveryInvariant, PTL

(* Only what the subscriber has recorded is marked accepted                 *)
(* (classifyDelivery, finishDelivery).                                      *)
THEOREM AcceptedIsReceived == Spec => []AcceptedWasReceived
<1>1. DeliveryInv => AcceptedWasReceived
  BY DEF DeliveryInv, ClaimInv
<1> QED
  BY <1>1, DeliveryInvariant, PTL

(* A live attempt is ended by its own worker, by a replay or by the end of  *)
(* its lease, never by the late answer of another one (finishDelivery).     *)
THEOREM AttemptsAreOwn == Spec => OwnAttempt
<1> DEFINE Untouched(w) ==
        LET e == claim[w][1]
        IN  /\ job[w] \in {"claimed", "answered"}
            /\ gen[e] = claim[w][2] /\ state[e] = "sending" /\ lease[e] = "live"
            /\ job'[w] # "idle"
            => state'[e] \in {"sending", "pruned"} \/ gen'[e] > gen[e]
<1>1. ASSUME DeliveryInv, [Next]_vars, NEW w \in Workers PROVE Untouched(w)
  <2> USE <1>1 DEF DeliveryInv, TypeInv, TypeOK, ClaimsHeld, Sending, Claims
  <2> DEFINE e == claim[w][1]
  <2> SUFFICES ASSUME job[w] \in Sending, gen[e] = claim[w][2], state[e] = "sending",
                      lease[e] = "live", job'[w] # "idle"
               PROVE  state'[e] \in {"sending", "pruned"} \/ gen'[e] > gen[e]
    OBVIOUS
  <2>0. e \in Events
    OBVIOUS
  <2>1. CASE UNCHANGED state
    BY <2>1
  <2>2. ASSUME NEW v \in Workers, FinishDelivery(v) PROVE state'[e] = "sending"
    <3>1. v # w
      BY <2>2 DEF FinishDelivery, Done, Goto
    <3>2. job[v] \in Sending /\ claim[v] # claim[w] /\ claim[v] \in Claims
      BY <2>2, <3>1 DEF FinishDelivery, ClaimInv, ClaimsAreFenced
    <3>3. Current(v) => claim[v][1] # e
      BY <3>2 DEF Current
    <3> QED
      BY <2>2, <3>3 DEF FinishDelivery
  <2>3. ASSUME NEW v \in Workers, NEW d \in Events, Claim(v, d) PROVE state'[e] = "sending"
    BY <2>3 DEF Claim
  <2>4. ASSUME NEW v \in Workers, PublishCommit(v) PROVE state'[e] = "sending"
    BY <2>4, <2>0 DEF PublishCommit, Publish, Unpublished
  <2>5. ASSUME NEW v \in Workers, PruneDelete(v) PROVE state'[e] \in {"sending", "pruned"}
    BY <2>5, <2>0 DEF PruneDelete
  <2>6. ASSUME NEW v \in Workers, PublishLock(v) \/ PruneScan(v) \/ SendClaim(v) \/ Crash(v)
        PROVE  UNCHANGED state
    BY <2>6 DEF PublishLock, PruneScan, SendClaim, Crash
  <2>7. ASSUME NEW d \in Events, Emit(d) \/ Time(d) PROVE state'[e] = "sending"
    BY <2>7 DEF Emit, Time, RetryDue, LeaseOver, DayOver, RetentionOver
  <2>8. ASSUME NEW d \in Events, Replay(d) PROVE state'[e] = "sending" \/ gen'[e] > gen[e]
    BY <2>8, <2>0 DEF Replay
  <2>9. ASSUME NEW r \in Readers, FeedExpired(r) \/ FeedPage(r) PROVE UNCHANGED state
    BY <2>9 DEF FeedExpired, FeedPage
  <2>10. CASE Pause \/ Resume \/ UNCHANGED vars
    BY <2>1, <2>10 DEF Pause, Resume, vars
  <2> QED
    BY <2>1, <2>2, <2>3, <2>4, <2>5, <2>6, <2>7, <2>8, <2>9, <2>10 DEF Next, Work
<1>2. DeliveryInv /\ [Next]_vars => [\A w \in Workers : Untouched(w)]_vars
  BY <1>1
<1> QED
  BY <1>2, DeliveryInvariant, PTL DEF Spec, OwnAttempt
=============================================================================
