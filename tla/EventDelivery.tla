--------------------------- MODULE EventDelivery ---------------------------
(***************************************************************************)
(* The event stream of packages/db/src/integration-worker.ts and of        *)
(* migrations/058_integration_events.sql.  A committed command leaves its   *)
(* event in the outbox.  A worker publishes outbox rows under consecutive   *)
(* numbers, sends each published event to the subscriber until it is        *)
(* accepted or given up, and prunes an old prefix.  A feed client reads the *)
(* same events by cursor.  The payment and allocation streams of            *)
(* payment-event-worker.ts run the same delivery over other tables.         *)
(*                                                                         *)
(* Clocks are abstracted to what the queries compare: whether a retry is    *)
(* due, a lease is over, a day has passed since the first attempt, an event *)
(* is old enough to prune.                                                  *)
(***************************************************************************)
EXTENDS Integers, FiniteSets

CONSTANTS
    Events,         \* integration_outbox rows of one property
    Workers,        \* worker processes
    Readers,        \* clients of the cursor feed
    BatchLimit,     \* rows of one publication
    FeedLimit,      \* rows of one feed page
    Replayable,     \* delivery states an operator may replay
    Pruning,        \* PMS_INTEGRATION_PRUNE_ENABLED
    MaxTries,       \* bound: attempts that fit in a day of backoff
    MaxFaults,      \* bound: crashes, and leases that end under a live worker
    MaxControls     \* bound: operator replays and resumptions

ASSUME DeliveryAssumption ==
    /\ BatchLimit \in Nat \ {0}
    /\ FeedLimit \in Nat \ {0}
    /\ Replayable \subseteq {"pending", "sending", "accepted", "dead_letter"}
    /\ Pruning \in BOOLEAN
    /\ MaxTries \in Nat \ {0}
    /\ MaxFaults \in Nat
    /\ MaxControls \in Nat

VARIABLES
    state,          \* where an event is: outbox row, delivery row, pruned
    seq,            \* publish_seq, 0 before the publication
    head, floor,    \* integration_publish_state of the property
    gen,            \* integration_deliveries.generation
    tries,          \* attempts since first_attempt_at was last NULL
    due,            \* next_attempt_at <= clock_timestamp()
    lease,          \* "none", "live" or "over"
    day,            \* a day has passed since first_attempt_at
    old,            \* published_at is past the retention
    paused,         \* integration_subscription_state
    job,            \* what a worker is doing
    claim,          \* the event and the generation of its claim
    num,            \* the head or the prune limit it has read
    res,            \* the outcome it is about to record
    received,       \* history: events the subscriber has recorded
    cursor,         \* the position of a feed client
    base,           \* the floor it started from
    got,            \* the events it has been given since
    faults, controls \* counters of the bounds

rowVars == <<seq, head, floor, old>>
deliveryVars == <<gen, tries, due, lease, day>>
workerVars == <<job, claim, num, res>>
readerVars == <<cursor, base, got>>
vars == <<state, rowVars, deliveryVars, paused, workerVars, received, readerVars,
          faults, controls>>

Retained == {"pending", "sending", "accepted", "dead_letter"}
States == Retained \cup {"absent", "outbox", "pruned"}
Claims == Events \X Nat
NoClaim == <<"none", 0>>
NoCursor == -1

Init ==
    /\ state = [e \in Events |-> "absent"]
    /\ seq = [e \in Events |-> 0]
    /\ head = 0
    /\ floor = 0
    /\ gen = [e \in Events |-> 0]
    /\ tries = [e \in Events |-> 0]
    /\ due = [e \in Events |-> FALSE]
    /\ lease = [e \in Events |-> "none"]
    /\ day = [e \in Events |-> FALSE]
    /\ old = [e \in Events |-> FALSE]
    /\ paused \in BOOLEAN
    /\ job = [w \in Workers |-> "idle"]
    /\ claim = [w \in Workers |-> NoClaim]
    /\ num = [w \in Workers |-> 0]
    /\ res = [w \in Workers |-> "none"]
    /\ received = {}
    /\ cursor = [r \in Readers |-> NoCursor]
    /\ base = [r \in Readers |-> 0]
    /\ got = [r \in Readers |-> {}]
    /\ faults = 0
    /\ controls = 0

Goto(w, j) == job' = [job EXCEPT ![w] = j]
Done(w) ==
    /\ Goto(w, "idle")
    /\ claim' = [claim EXCEPT ![w] = NoClaim]
    /\ num' = [num EXCEPT ![w] = 0]
    /\ res' = [res EXCEPT ![w] = "none"]

(* The publish-state row is locked by a publication and by a pruning.       *)
StateRowIgnored(w) == TRUE
StateRowFree(w) == \A v \in Workers \ {w} : job[v] \notin {"publish", "prune"}

-----------------------------------------------------------------------------
(* qintopia_integration_emit, at the commit of a command. *)
Emit(e) ==
    /\ state[e] = "absent"
    /\ state' = [state EXCEPT ![e] = "outbox"]
    /\ UNCHANGED <<rowVars, deliveryVars, paused, workerVars, received, readerVars, faults, controls>>

(* qintopia_integration_publish: SELECT head ... FOR UPDATE, then a batch of *)
(* unpublished rows gets the next numbers and a delivery row each.          *)
PublishLock(w) ==
    /\ job[w] = "idle"
    /\ \E e \in Events : state[e] = "outbox"
    /\ StateRowFree(w)
    /\ Goto(w, "publish")
    /\ num' = [num EXCEPT ![w] = head]
    /\ UNCHANGED <<state, rowVars, deliveryVars, paused, claim, res, received, readerVars,
                   faults, controls>>

Unpublished == {e \in Events : state[e] = "outbox"}
Numbering(n, batch, place) ==
    /\ \A i \in 1..n : \E e \in batch : place[e] = i
    /\ \A d, e \in batch : place[d] = place[e] => d = e
    /\ n = BatchLimit \/ batch = Unpublished
Publish(w, n, batch, place) ==
    /\ seq' = [e \in Events |-> IF e \in batch THEN num[w] + place[e] ELSE seq[e]]
    /\ state' = [e \in Events |-> IF e \in batch THEN "pending" ELSE state[e]]
    /\ due' = [e \in Events |-> IF e \in batch THEN TRUE ELSE due[e]]
    /\ head' = num[w] + n
PublishCommit(w) ==
    /\ job[w] = "publish"
    /\ \E n \in 1..BatchLimit, batch \in SUBSET Unpublished :
        \E place \in [batch -> 1..n] :
            Numbering(n, batch, place) /\ Publish(w, n, batch, place)
    /\ Done(w)
    /\ UNCHANGED <<floor, old, gen, tries, lease, day, paused, received, readerVars, faults, controls>>

(* qintopia_integration_prune: the first statement finds the end of the     *)
(* prefix that is accepted and old, the next ones delete up to it.          *)
Keeps(e) == state[e] \in Retained /\ (state[e] # "accepted" \/ ~old[e])
PruneScan(w) ==
    /\ Pruning
    /\ job[w] = "idle"
    /\ \E e \in Events : state[e] \in Retained /\ ~Keeps(e)
    /\ StateRowFree(w)
    /\ Goto(w, "prune")
    /\ \E t \in 0..head :
        /\ \A e \in Events : Keeps(e) => t < seq[e]
        /\ t = head \/ \E e \in Events : Keeps(e) /\ seq[e] = t + 1
        /\ num' = [num EXCEPT ![w] = t]
    /\ UNCHANGED <<state, rowVars, deliveryVars, paused, claim, res, received, readerVars,
                   faults, controls>>

PruneDelete(w) ==
    /\ job[w] = "prune"
    /\ state' = [e \in Events |-> IF state[e] \in Retained /\ seq[e] <= num[w]
                                  THEN "pruned" ELSE state[e]]
    /\ floor' = IF floor < num[w] THEN num[w] ELSE floor
    /\ Done(w)
    /\ UNCHANGED <<seq, head, old, deliveryVars, paused, received, readerVars, faults, controls>>

-----------------------------------------------------------------------------
(* claimDelivery: one statement under the shared lock of the subscription.  *)
ClaimableIfPending(e) == state[e] = "pending" /\ due[e]
Claimable(e) ==
    \/ state[e] = "pending" /\ due[e]
    \/ state[e] = "sending" /\ lease[e] = "over"

NextGeneration(e) == gen[e] + 1
Claim(w, e) ==
    /\ job[w] = "idle"
    /\ ~paused
    /\ Claimable(e)
    /\ tries[e] < MaxTries \/ day[e]
    /\ state' = [state EXCEPT ![e] = "sending"]
    /\ tries' = [tries EXCEPT ![e] = IF @ < MaxTries THEN @ + 1 ELSE @]
    /\ gen' = [gen EXCEPT ![e] = NextGeneration(e)]
    /\ lease' = [lease EXCEPT ![e] = "live"]
    /\ claim' = [claim EXCEPT ![w] = <<e, NextGeneration(e)>>]
    /\ Goto(w, "claimed")
    /\ UNCHANGED <<rowVars, due, day, paused, num, res, received, readerVars, faults, controls>>

(* The subscriber's answers.  Only a proper acknowledgement promises that   *)
(* the event is recorded; after any other one, or none, it may be.          *)
Replies == {"ack", "wrong_ack", "refused", "unauthorized", "busy", "lost", "too_large"}
RecordedAfter(e, reply) ==
    CASE reply = "ack" -> {received \cup {e}}
      [] reply \in {"wrong_ack", "busy", "lost"} -> {received, received \cup {e}}
      [] OTHER -> {received}

(* classifyDelivery, and the exits of sendClaim that do not reach it.       *)
ClassifyByStatus(reply) ==
    CASE reply \in {"ack", "wrong_ack"} -> "accepted"
      [] reply \in {"refused", "too_large"} -> "dead_letter"
      [] reply = "unauthorized" -> "pause"
      [] OTHER -> "retry"
ClassifyDelivery(reply) ==
    CASE reply = "ack" -> "accepted"
      [] reply \in {"refused", "too_large"} -> "dead_letter"
      [] reply = "unauthorized" -> "pause"
      [] OTHER -> "retry"

SendClaim(w) ==
    /\ job[w] = "claimed"
    /\ \E reply \in Replies :
        /\ received' \in RecordedAfter(claim[w][1], reply)
        /\ res' = [res EXCEPT ![w] = ClassifyDelivery(reply)]
    /\ Goto(w, "answered")
    /\ UNCHANGED <<state, rowVars, deliveryVars, paused, claim, num, readerVars, faults, controls>>

(* finishDelivery.  The row changes only while the claim is still the       *)
(* current one; otherwise the outcome is dropped.                           *)
Settled(e, outcome) ==
    IF outcome = "accepted" THEN "accepted"
    ELSE IF outcome = "dead_letter" \/ (outcome = "retry" /\ day[e]) THEN "dead_letter"
    ELSE "pending"

CurrentByState(w) == state[claim[w][1]] = "sending"
Current(w) ==
    LET e == claim[w][1]
    IN  gen[e] = claim[w][2] /\ state[e] = "sending" /\ lease[e] = "live"

FinishDelivery(w) ==
    LET e == claim[w][1]
    IN  /\ job[w] = "answered"
        /\ IF Current(w)
           THEN /\ state' = [state EXCEPT ![e] = Settled(e, res[w])]
                /\ lease' = [lease EXCEPT ![e] = "none"]
                /\ due' = [due EXCEPT ![e] = FALSE]
                /\ paused' = (paused \/ res[w] = "pause")
           ELSE UNCHANGED <<state, lease, due, paused>>
        /\ Done(w)
        /\ UNCHANGED <<rowVars, gen, tries, day, received, readerVars, faults, controls>>

(* A worker process ends: its transaction rolls back, and a request that is *)
(* under way may still arrive.                                              *)
Crash(w) ==
    /\ job[w] # "idle"
    /\ faults < MaxFaults
    /\ faults' = faults + 1
    /\ \/ job[w] = "claimed" /\ received' = received \cup {claim[w][1]}
       \/ received' = received
    /\ Done(w)
    /\ UNCHANGED <<state, rowVars, deliveryVars, paused, readerVars, controls>>

-----------------------------------------------------------------------------
(* Time. *)

RetryDue(e) ==
    /\ state[e] = "pending"
    /\ ~due[e]
    /\ due' = [due EXCEPT ![e] = TRUE]
    /\ UNCHANGED <<state, rowVars, gen, tries, lease, day, paused, workerVars, received,
                   readerVars, faults, controls>>

(* validateDeliveryConfig makes a lease outlast the request by 5 s, so it   *)
(* ends under a worker that still has the claim only when that one stalls.  *)
Working(e) ==
    \E w \in Workers : job[w] \in {"claimed", "answered"} /\ claim[w] = <<e, gen[e]>>
LeaseOver(e) ==
    /\ state[e] = "sending"
    /\ lease[e] = "live"
    /\ Working(e) => faults < MaxFaults
    /\ faults' = IF Working(e) THEN faults + 1 ELSE faults
    /\ lease' = [lease EXCEPT ![e] = "over"]
    /\ UNCHANGED <<state, rowVars, gen, tries, due, day, paused, workerVars, received,
                   readerVars, controls>>

DayOver(e) ==
    /\ tries[e] > 0
    /\ ~day[e]
    /\ state[e] \in {"pending", "sending"}
    /\ day' = [day EXCEPT ![e] = TRUE]
    /\ UNCHANGED <<state, rowVars, gen, tries, due, lease, paused, workerVars, received,
                   readerVars, faults, controls>>

RetentionOver(e) ==
    /\ Pruning
    /\ state[e] \in Retained
    /\ ~old[e]
    /\ old' = [old EXCEPT ![e] = TRUE]
    /\ UNCHANGED <<state, seq, head, floor, deliveryVars, paused, workerVars, received,
                   readerVars, faults, controls>>

-----------------------------------------------------------------------------
(* qintopia_integration_control: PAUSE, RESUME and REPLAY. *)

Pause ==
    /\ ~paused
    /\ paused' = TRUE
    /\ UNCHANGED <<state, rowVars, deliveryVars, workerVars, received, readerVars, faults, controls>>

Resume ==
    /\ paused
    /\ controls < MaxControls
    /\ controls' = controls + 1
    /\ paused' = FALSE
    /\ UNCHANGED <<state, rowVars, deliveryVars, workerVars, received, readerVars, faults>>

Replay(e) ==
    /\ state[e] \in Replayable
    /\ controls < MaxControls
    /\ controls' = controls + 1
    /\ state' = [state EXCEPT ![e] = "pending"]
    /\ gen' = [gen EXCEPT ![e] = @ + 1]
    /\ tries' = [tries EXCEPT ![e] = 0]
    /\ due' = [due EXCEPT ![e] = TRUE]
    /\ lease' = [lease EXCEPT ![e] = "none"]
    /\ day' = [day EXCEPT ![e] = FALSE]
    /\ UNCHANGED <<rowVars, paused, workerVars, received, readerVars, faults>>

-----------------------------------------------------------------------------
(* readPmsEventFeed, in one REPEATABLE READ snapshot.  A cursor below the   *)
(* floor is CURSOR_EXPIRED, and the client starts over from the floor.      *)
NeverExpired(r) == FALSE
Expired(r) == cursor[r] < floor
Consumed(r) == IF cursor[r] = NoCursor THEN floor ELSE cursor[r]
Ahead(r) == {e \in Events : state[e] \in Retained /\ Consumed(r) < seq[e] /\ seq[e] <= head}

Page(r, last) == {e \in Ahead(r) : seq[e] <= seq[last]}
PageFits(r, page) ==
    \/ Cardinality(page) = FeedLimit
    \/ Cardinality(page) < FeedLimit /\ page = Ahead(r)

FeedExpired(r) ==
    /\ cursor[r] # NoCursor
    /\ Expired(r)
    /\ cursor' = [cursor EXCEPT ![r] = NoCursor]
    /\ base' = [base EXCEPT ![r] = 0]
    /\ got' = [got EXCEPT ![r] = {}]
    /\ UNCHANGED <<state, rowVars, deliveryVars, paused, workerVars, received, faults, controls>>

FeedPage(r) ==
    /\ cursor[r] = NoCursor \/ ~Expired(r)
    /\ IF Ahead(r) = {}
       THEN /\ cursor' = [cursor EXCEPT ![r] = Consumed(r)]
            /\ got' = got
       ELSE \E last \in Ahead(r) :
              /\ PageFits(r, Page(r, last))
              /\ cursor' = [cursor EXCEPT ![r] = seq[last]]
              /\ got' = [got EXCEPT ![r] = @ \cup Page(r, last)]
    /\ base' = [base EXCEPT ![r] = IF cursor[r] = NoCursor THEN floor ELSE @]
    /\ UNCHANGED <<state, rowVars, deliveryVars, paused, workerVars, received, faults, controls>>

-----------------------------------------------------------------------------
Work(w) ==
    \/ PublishLock(w) \/ PublishCommit(w)
    \/ PruneScan(w) \/ PruneDelete(w)
    \/ \E e \in Events : Claim(w, e)
    \/ SendClaim(w) \/ FinishDelivery(w)

Time(e) == RetryDue(e) \/ LeaseOver(e) \/ DayOver(e) \/ RetentionOver(e)

Next ==
    \/ \E w \in Workers : Work(w) \/ Crash(w)
    \/ \E e \in Events : Emit(e) \/ Time(e) \/ Replay(e)
    \/ \E r \in Readers : FeedExpired(r) \/ FeedPage(r)
    \/ Pause \/ Resume

Spec == Init /\ [][Next]_vars

(* The worker loop runs once a second, takes the row that has waited        *)
(* longest, and clocks run.                                                 *)
Fairness ==
    /\ \A w \in Workers :
        /\ WF_vars(PublishCommit(w)) /\ WF_vars(PruneDelete(w))
        /\ WF_vars(SendClaim(w)) /\ WF_vars(FinishDelivery(w))
        /\ SF_vars(PublishLock(w))
        /\ \A e \in Events : SF_vars(Claim(w, e))
    /\ \A e \in Events :
        /\ WF_vars(RetryDue(e)) /\ WF_vars(DayOver(e))
        /\ WF_vars(LeaseOver(e))
FairSpec == Spec /\ Fairness

-----------------------------------------------------------------------------
(* Properties. *)

(* Rows of the outbox, the deliveries, the publish state and the feed       *)
(* cursors keep the ranges their columns and checks allow.                  *)
TypeOK ==
    /\ state \in [Events -> States]
    /\ seq \in [Events -> Nat]
    /\ head \in Nat
    /\ floor \in Nat
    /\ gen \in [Events -> Nat]
    /\ tries \in [Events -> 0..MaxTries]
    /\ due \in [Events -> BOOLEAN]
    /\ lease \in [Events -> {"none", "live", "over"}]
    /\ day \in [Events -> BOOLEAN]
    /\ old \in [Events -> BOOLEAN]
    /\ paused \in BOOLEAN
    /\ job \in [Workers -> {"idle", "publish", "prune", "claimed", "answered"}]
    /\ claim \in [Workers -> Claims \cup {NoClaim}]
    /\ num \in [Workers -> Nat]
    /\ res \in [Workers -> {"none", "accepted", "dead_letter", "pause", "retry"}]
    /\ received \in SUBSET Events
    /\ cursor \in [Readers -> Nat \cup {NoCursor}]
    /\ base \in [Readers -> Nat]
    /\ got \in [Readers -> SUBSET Events]
    /\ faults \in 0..MaxFaults
    /\ controls \in 0..MaxControls

(* Concurrent publications and prunings leave the published events numbered *)
(* without gap and without repetition up to the head, with the floor below. *)
PublishedInOrder ==
    /\ floor <= head
    /\ \A e \in Events : seq[e] \in 0..head /\ (seq[e] = 0 <=> state[e] \in {"absent", "outbox"})
    /\ \A i \in 1..head : \E e \in Events : seq[e] = i
    /\ \A d, e \in Events : seq[d] = seq[e] /\ seq[d] > 0 => d = e

(* A feed client that follows its cursors has been given every event        *)
(* published after the floor it started from, up to its cursor, however     *)
(* publications and prunings ran in between.                                *)
FeedComplete ==
    \A r \in Readers : cursor[r] # NoCursor =>
        got[r] = {e \in Events : base[r] < seq[e] /\ seq[e] <= cursor[r]}

(* Two workers never hold the same generation of an event, also after a     *)
(* lease was lost, a worker crashed or an operator replayed the event.      *)
ClaimsAreFenced ==
    \A v, w \in Workers :
        /\ job[w] \in {"claimed", "answered"} => claim[w][2] <= gen[claim[w][1]]
        /\ v # w /\ {job[v], job[w]} \subseteq {"claimed", "answered"} => claim[v] # claim[w]

(* An event is marked accepted only if the subscriber has recorded it.      *)
AcceptedWasReceived ==
    \A e \in Events : state[e] = "accepted" => e \in received

(* While a worker has a live lease, its delivery row is left to it: no late *)
(* answer of an earlier attempt ends the attempt, only a replay (which      *)
(* starts a new generation) or the end of the lease does.                   *)
OwnAttempt ==
    [][\A w \in Workers :
        LET e == claim[w][1]
        IN  /\ job[w] \in {"claimed", "answered"}
            /\ gen[e] = claim[w][2] /\ state[e] = "sending" /\ lease[e] = "live"
            /\ job'[w] # "idle"
            => state'[e] \in {"sending", "pruned"} \/ gen'[e] > gen[e]]_vars

(* Unless the subscription stays paused, every captured event is published  *)
(* and delivered or given up.                                               *)
Settles ==
    <>[]paused \/ \A e \in Events :
        state[e] \in {"outbox", "pending", "sending"} ~>
            state[e] \in {"accepted", "dead_letter", "pruned"}
=============================================================================
