----------------------------- MODULE BoardClient -----------------------------
(***************************************************************************)
(* The room-status page of one browser tab, against the server it reads:   *)
(* apps/web/src/pages/InventoryPage.tsx, room-status/roomStatusSync.ts and *)
(* the part of the command dialog in ui.tsx that reports to the page.      *)
(*                                                                         *)
(* The page holds one board.  A board read is started by the query effect  *)
(* (a new range, page or filter, or a refresh) or by a command that has    *)
(* just committed; starting one aborts the one before, whose answer may    *)
(* still arrive.  A light poll compares revision, business date and        *)
(* authorization with the board and asks for a new one when they differ.   *)
(* A command may be started, previewed and confirmed only from a board     *)
(* that matches what the page wants, under the last authorization known.   *)
(*                                                                         *)
(* The server is external here: a revision per property that every commit  *)
(* raises, the caller's authorization, and the business date.  A request   *)
(* is answered at one moment and delivered at a later one.                 *)
(*                                                                         *)
(* The day a form was opened for is day 0: its nights can be sold while    *)
(* the business date is 0 and only be backfilled afterwards.               *)
(***************************************************************************)
EXTENDS Naturals

CONSTANTS
    Properties,     \* the properties the user may switch between
    Keys,           \* the queries (range, page, filters) of one property
    Requests,       \* the slots of the board reads in flight
    RetryLimit,     \* ROOM_STATUS_QUERY_FAILURE_RETRY_LIMIT
    MaxRevision,    \* a bound on the commits of one property
    MaxEvents,      \* a bound on what happens to the page from outside
    Null

ASSUME BoardAssumption ==
    /\ RetryLimit \in Nat /\ MaxRevision \in Nat /\ MaxEvents \in Nat
    /\ Null \notin Requests

VARIABLES
    \* @server
    revision,       \* the room-status revision of each property
    auth,           \* what the caller is authorized to do now
    businessDate,   \* the business date
    flights,        \* the command sent for each property, as its record knows it
    \* @page
    prop, key,      \* what the page wants to show
    board,          \* what it shows, or Null
    due,            \* the query effect has to run again (refreshToken, key)
    reads, active,  \* the board reads in flight, and the one that counts
    sync,           \* the poll in flight
    queryPhase, queryError,
    failures, timer,        \* queryFailureRetryAttemptRef, ...TimerRef
    denied,                 \* permissionDeniedRef
    admitted,               \* boardWriteAdmitted
    focusAfter,             \* focusAfterNextBoard: locked until a new board
    phase,                  \* commandPhaseRef
    recovery,               \* recoveryDialogOpen
    commandKey,             \* commandQueryKeyRef
    invalidated,            \* commandContextInvalidated
    quoteTarget,            \* the action of the open form, or Null
    \* @bounds and ghosts
    events,
    owed,           \* the revision of the last own commit the page knows of
    warned,         \* the poll saw a changed authorization and no board since
    excused         \* a poll sent before that commit unlocked the board after it

server == <<revision, auth, businessDate, flights>>
query == <<board, due, reads, active, sync, queryPhase, queryError, failures,
           timer, denied, admitted, focusAfter>>
dialog == <<phase, recovery, commandKey, invalidated>>
command == <<dialog, quoteTarget>>
wanted == <<prop, key>>
ghosts == <<owed, warned, excused>>
boardVars == <<server, query, command, wanted, events, ghosts>>

Authorizations == {"all", "fewer", "read", "none"}
Level(a) == IF a \in {"all", "fewer"} THEN "WRITE" ELSE "READ"

NoAnswer == [status |-> "pending", revision |-> 0, auth |-> "none", date |-> 0]
Failure(s) == [NoAnswer EXCEPT !.status = s]
\* What the server says of a property at this moment.
ServerAnswer(p) ==
    IF auth = "none" THEN Failure("refused")
    ELSE [status |-> "ok", revision |-> revision[p], auth |-> auth,
          date |-> businessDate]
Faults == {"retryable", "fatal"}

Happens == events < MaxEvents /\ events' = events + 1

BoardInit ==
    /\ revision = [p \in Properties |-> 0] /\ auth = "all" /\ businessDate = 0
    /\ flights = [p \in Properties |-> "none"]
    /\ prop \in Properties /\ key \in Keys
    /\ board = Null /\ due = TRUE
    /\ reads = [i \in Requests |-> Null] /\ active = Null /\ sync = Null
    /\ queryPhase = "LOADING" /\ queryError = "none"
    /\ failures = 0 /\ timer = FALSE
    /\ denied = FALSE /\ admitted = FALSE /\ focusAfter = FALSE
    /\ phase = "IDLE" /\ recovery = FALSE /\ commandKey = Null
    /\ invalidated = FALSE /\ quoteTarget = Null
    /\ events = 0
    /\ owed = [p \in Properties |-> 0] /\ warned = FALSE /\ excused = FALSE

(***************************************************************************)
(* The gates of the page, recomputed at every render.                      *)
(***************************************************************************)

\* boardMatchesCurrentQuery
BoardMatches == board # Null /\ board.prop = prop /\ board.key = key

\* projectionReadyForWrite; a projection that is not READY is RoomStatus' matter
ProjectionReady ==
    /\ BoardMatches
    /\ queryError \in {"none", "retryable"}
    /\ ~focusAfter
    /\ \/ queryPhase \in {"READY", "REFRESHING"}
       \/ queryPhase = "ERROR" /\ queryError = "retryable"

\* roomStatusProjectionWritable of an open command, and of a new one
ActiveValid == ProjectionReady /\ Level(board.auth) = "WRITE"
Writable == ActiveValid /\ admitted

\* roomStatusCommandWriteGate
StartBlocked == ~Writable \/ flights[prop] # "none"
ActiveBlocked == ~ActiveValid \/ invalidated

\* roomStatusQuoteTargetForBusinessDate and AuthorizedQuoteAction: the nights
\* of day 0 are sold by CREATE on day 0 and by BACKFILL on a later day.
ActionOf(date) == IF date > 0 THEN "BACKFILL" ELSE "CREATE"
SelectionActions(b) ==
    IF Level(b.auth) = "WRITE" THEN {ActionOf(b.date)} ELSE {}
OffersForm(b, f) == f \in SelectionActions(b)

\* The effect that closes a form whose action the board no longer offers; it
\* runs after every render in which the page can write.
FormFollows ==
    quoteTarget' =
        IF quoteTarget # Null /\ Writable' /\ ~OffersForm(board', quoteTarget)
        THEN Null ELSE quoteTarget

\* roomStatusProjectionRefreshAllowed: nothing is replaced under a confirmation
RefreshAllowed == phase # "CONFIRMING"

(***************************************************************************)
(* Board reads.                                                            *)
(***************************************************************************)

ResetFailures == failures' = 0 /\ timer' = FALSE

\* AbortController.abort: ends a read on its way; an answer that has arrived may
\* still be delivered.
Aborted(r) == r # Null /\ r.answer.status = "pending"

\* QueryAttemptGuard.isActive
CountsAlways(i) == TRUE
Counts(i) == active = i

\* QueryAttemptGuard.begin: the new attempt is the only one that counts.
BeginRead(i, kind) ==
    /\ reads[i] = Null \/ Aborted(reads[i])
    /\ reads' = [j \in Requests |->
                    CASE j = i -> [kind |-> kind, prop |-> prop, key |-> key,
                                   answer |-> NoAnswer]
                      [] j # i /\ Aborted(reads[j]) -> Null
                      [] OTHER -> reads[j]]
    /\ active' = i

\* The query effect runs: a denied page reads nothing.
QueryEffect ==
    /\ due /\ due' = FALSE
    /\ \/ denied /\ UNCHANGED <<reads, active, queryPhase, queryError>>
       \/ /\ ~denied
          /\ \E i \in Requests : BeginRead(i, "effect")
          /\ IF ~BoardMatches
             THEN /\ queryPhase' = IF board # Null THEN "RANGE_LOADING"
                                   ELSE "LOADING"
                  /\ queryError' = "none"
             ELSE /\ queryPhase' = IF RefreshAllowed THEN "REFRESHING"
                                   ELSE queryPhase
                  /\ UNCHANGED queryError
    /\ UNCHANGED <<board, sync, failures, timer, denied, admitted, focusAfter,
                   server, dialog, wanted, events, ghosts>>
    /\ FormFollows

\* The server answers a board read, or the read fails on its way.
AnswerRead(i) ==
    /\ reads[i] # Null /\ reads[i].answer.status = "pending"
    /\ \/ /\ reads' = [reads EXCEPT ![i].answer =
                        ServerAnswer(reads[i].prop)]
          /\ UNCHANGED events
       \/ /\ Happens /\ active = i
          /\ \E f \in Faults :
                reads' = [reads EXCEPT ![i].answer = Failure(f)]
    /\ UNCHANGED <<board, due, active, sync, queryPhase, queryError, failures,
                   timer, denied, admitted, focusAfter, server, command,
                   wanted, ghosts>>

\* setBoard, setBoardQueryKey, setBoardWriteAdmitted, READY
Install(r) ==
    /\ board' = [prop |-> r.prop, key |-> r.key, revision |-> r.answer.revision,
                 auth |-> r.answer.auth, date |-> r.answer.date]
    /\ admitted' = TRUE /\ warned' = FALSE
    /\ queryError' = "none" /\ queryPhase' = "READY" /\ ResetFailures

\* The scope of a settled command closes under it: the abort ends its read at
\* once, the failure is swallowed, and its dialog closes as after a commit.
KeepEffectReads(rs) ==
    [i \in Requests |-> IF rs[i] # Null
                           /\ (rs[i].kind = "committed" \/ Aborted(rs[i]))
                        THEN Null ELSE rs[i]]
AbandonCommand ==
    /\ flights' = IF phase = "SETTLED" THEN [flights EXCEPT ![prop] = "none"]
                  ELSE flights
    /\ focusAfter' = (phase = "SETTLED")

\* denyRoomStatusReadAccess: the scope is closed and everything in it dropped.
Deny ==
    /\ active' = Null /\ admitted' = FALSE /\ queryError' = "denied"
    /\ ResetFailures /\ denied' = TRUE /\ board' = Null
    /\ queryPhase' = "PERMISSION_DENIED" /\ AbandonCommand
    /\ phase' = "IDLE" /\ recovery' = FALSE /\ commandKey' = Null
    /\ invalidated' = FALSE /\ quoteTarget' = Null
    /\ warned' = FALSE

\* The answer of a read another one has replaced: isActive fails.
DropRead(i) ==
    /\ reads[i] # Null /\ reads[i].answer.status # "pending" /\ ~Counts(i)
    /\ reads[i].kind = "effect"
    /\ reads' = [reads EXCEPT ![i] = Null]
    /\ UNCHANGED <<board, due, active, sync, queryPhase, queryError, failures,
                   timer, denied, admitted, focusAfter, server, command,
                   wanted, events, ghosts>>

\* The query effect's own read is answered with a board.
BoardArrives(i) ==
    LET r == reads[i] IN
    /\ r # Null /\ r.kind = "effect" /\ r.answer.status = "ok" /\ Counts(i)
    /\ reads' = [reads EXCEPT ![i] = Null] /\ active' = Null
    /\ IF ~RefreshAllowed /\ board # Null
       THEN /\ admitted' = TRUE /\ queryError' = "none" /\ queryPhase' = "READY"
            /\ ResetFailures /\ warned' = FALSE
            /\ UNCHANGED <<board, focusAfter>>
       ELSE Install(r) /\ focusAfter' = FALSE
    /\ denied' = FALSE
    /\ UNCHANGED <<due, sync, server, phase, recovery, commandKey,
                   invalidated, wanted, events, owed, excused>>
    /\ FormFollows

\* It is answered with 401 or 403, or fails.
BoardFails(i) ==
    LET r == reads[i] IN
    /\ r # Null /\ r.kind = "effect" /\ Counts(i)
    /\ reads' = [reads EXCEPT ![i] = Null]
    /\ UNCHANGED <<due, sync, revision, auth, businessDate, wanted, events,
                   owed, excused>>
    /\ \/ r.answer.status = "refused" /\ Deny
       \/ /\ r.answer.status \in Faults /\ UNCHANGED flights
          /\ active' = Null
          /\ queryError' = r.answer.status /\ queryPhase' = "ERROR"
          /\ IF r.answer.status = "retryable"
             THEN /\ failures' = failures + 1
                  /\ timer' = (timer \/ failures + 1 <= RetryLimit)
             ELSE ResetFailures
          /\ UNCHANGED <<board, denied, admitted, focusAfter, dialog, warned>>
          /\ FormFollows

\* scheduleQueryFailureRetry: the timer waits while a command confirms or a
\* read is in flight.
RetryFires ==
    /\ timer /\ ~denied /\ RefreshAllowed /\ active = Null
    /\ timer' = FALSE /\ due' = TRUE
    /\ UNCHANGED <<board, reads, active, sync, queryPhase, queryError,
                   failures, denied, admitted, focusAfter, server, command,
                   wanted, events, ghosts>>

\* requestRoomStatusRefresh: the user's refresh, not while one is in flight.
Refresh ==
    /\ Happens /\ ~denied /\ active = Null /\ ~due /\ due' = TRUE
    /\ UNCHANGED <<board, reads, active, sync, queryPhase, queryError,
                   failures, timer, denied, admitted, focusAfter, server,
                   command, wanted, ghosts>>

(***************************************************************************)
(* The poll.                                                               *)
(***************************************************************************)

SyncStartsWhenSound ==
    /\ sync = Null /\ ~denied /\ active = Null /\ RefreshAllowed
    /\ queryError = "none"
    /\ sync' = NoAnswer
    /\ UNCHANGED <<board, due, reads, active, queryPhase, queryError, failures,
                   timer, denied, admitted, focusAfter, server, command,
                   wanted, events, ghosts>>
SyncStarts ==
    /\ sync = Null /\ ~denied /\ active = Null /\ RefreshAllowed
    /\ queryError # "fatal"
    /\ sync' = NoAnswer
    /\ UNCHANGED <<board, due, reads, active, queryPhase, queryError, failures,
                   timer, denied, admitted, focusAfter, server, command,
                   wanted, events, ghosts>>

AnswerSync ==
    /\ sync # Null /\ sync.status = "pending"
    /\ \/ sync' = ServerAnswer(prop) /\ UNCHANGED events
       \/ /\ Happens
          /\ \E f \in Faults : sync' = Failure(f)
    /\ UNCHANGED <<board, due, reads, active, queryPhase, queryError, failures,
                   timer, denied, admitted, focusAfter, server, command,
                   wanted, ghosts>>

\* roomStatusSyncNeedsBoard, or the board is of another query
SyncNeedsBoard ==
    \/ ~BoardMatches
    \/ board.revision # sync.revision \/ board.date # sync.date
    \/ board.auth # sync.auth

\* The poll's answer: ignored while a board read is in flight.
SyncArrives ==
    /\ sync # Null /\ sync.status = "ok" /\ sync' = Null
    /\ IF active # Null
       THEN UNCHANGED <<due, queryPhase, queryError, failures, timer, admitted,
                        focusAfter, invalidated, warned, excused>>
       ELSE LET changed == board # Null /\ board.auth # sync.auth IN
            /\ admitted' = (admitted /\ ~changed)
            /\ invalidated' = (invalidated \/ changed)
            /\ warned' = (warned \/ changed)
            /\ IF SyncNeedsBoard
               THEN /\ due' = TRUE
                    /\ UNCHANGED <<queryPhase, queryError, failures, timer,
                                   focusAfter, excused>>
               ELSE /\ queryError' = "none" /\ queryPhase' = "READY"
                    /\ ResetFailures /\ focusAfter' = FALSE
                    /\ excused' = (excused \/ sync.revision < owed[prop])
                    /\ UNCHANGED due
    /\ UNCHANGED <<board, reads, active, denied, server, phase, recovery,
                   commandKey, wanted, events, owed>>
    /\ FormFollows

\* The poll fails: this branch does not look at the reads in flight.
SyncFails ==
    /\ sync # Null /\ sync.status \in Faults \cup {"refused"} /\ sync' = Null
    /\ UNCHANGED <<due, revision, auth, businessDate, wanted, events, owed,
                   excused>>
    /\ \/ sync.status = "refused" /\ Deny /\ reads' = KeepEffectReads(reads)
       \/ /\ sync.status \in Faults /\ queryError' = sync.status
          /\ admitted' = (admitted /\ sync.status # "fatal")
          /\ UNCHANGED <<board, active, queryPhase, failures, timer, denied,
                         focusAfter, dialog, warned, reads, flights>>
          /\ FormFollows

(***************************************************************************)
(* What the user does.                                                     *)
(***************************************************************************)

\* Another range, page or filter: an open command belongs to the old one.  The
\* form closes, unless it is its own dates that are set to another range.
ChangeQuery(k) ==
    /\ Happens /\ ~denied /\ k # key
    /\ key' = k /\ due' = TRUE /\ ResetFailures
    /\ invalidated' = (invalidated \/ (phase # "IDLE" /\ commandKey # k))
    /\ UNCHANGED <<board, reads, active, sync, queryPhase, queryError, denied,
                   admitted, focusAfter, server, phase, recovery, commandKey,
                   prop, ghosts>>
    /\ quoteTarget' = Null \/ FormFollows

\* Another property: the page starts over; the record of a command sent for
\* the old one stays with it.
SwitchProperty(p) ==
    /\ Happens /\ p # prop
    /\ prop' = p /\ due' = TRUE /\ board' = Null /\ active' = Null
    /\ sync' = Null /\ denied' = FALSE
    /\ reads' = KeepEffectReads(reads) /\ AbandonCommand
    /\ queryError' = "none" /\ ResetFailures
    /\ phase' = "IDLE" /\ recovery' = FALSE /\ commandKey' = Null
    /\ invalidated' = FALSE /\ quoteTarget' = Null /\ warned' = FALSE
    /\ UNCHANGED <<queryPhase, admitted, revision, auth, businessDate, key,
                   owed, excused>>

\* handleAction: an action of the board on the selected nights opens a form.
OpenForm ==
    /\ Happens /\ ~StartBlocked /\ quoteTarget = Null /\ phase = "IDLE"
    /\ quoteTarget' \in SelectionActions(board)
    /\ UNCHANGED <<phase, recovery, commandKey, invalidated, query, server,
                   wanted, ghosts>>

\* startCommand; startQuoteCommand looks at the board again.  A command that is
\* started while a form is open is the form's.
StartCommand ==
    /\ phase = "IDLE" /\ ~StartBlocked
    /\ quoteTarget # Null => OffersForm(board, quoteTarget)
    /\ phase' = "DRAFT" /\ recovery' = FALSE
    /\ commandKey' = board.key /\ invalidated' = FALSE
    /\ UNCHANGED <<quoteTarget, query, server, wanted, events, ghosts>>

\* loadPreview: asked and answered.
Preview ==
    /\ phase = "DRAFT" /\ ~recovery /\ ~ActiveBlocked
    /\ phase' = "PREVIEW"
    /\ UNCHANGED <<recovery, commandKey, invalidated, quoteTarget, query,
                   server, wanted, events, ghosts>>

\* confirm: the record is saved, the page waits, and the command is sent.
CanConfirm == phase = "PREVIEW" /\ ~recovery /\ ~ActiveBlocked
Confirm ==
    /\ Happens /\ CanConfirm
    /\ phase' = "CONFIRMING" /\ flights' = [flights EXCEPT ![prop] = "SENT"]
    /\ UNCHANGED <<recovery, commandKey, invalidated, quoteTarget, query,
                   revision, auth, businessDate, wanted, ghosts>>

\* openRecoveryDialog
OpenRecovery ==
    /\ phase = "IDLE" /\ flights[prop] # "none" /\ ~denied
    /\ phase' = "CONFIRMING" /\ recovery' = TRUE
    /\ commandKey' = (IF board = Null THEN Null ELSE board.key)
    /\ invalidated' = FALSE
    /\ UNCHANGED <<quoteTarget, query, server, wanted, events, ghosts>>

\* The result of the confirmation, or of the query of it: a commit starts
\* refreshCommittedRoomStatus.
LearnCommit ==
    /\ phase = "CONFIRMING" /\ flights[prop] = "EXECUTED"
    /\ phase' = "SETTLED"
    /\ \E i \in Requests : BeginRead(i, "committed")
    /\ owed' = [owed EXCEPT ![prop] = revision[prop]] /\ excused' = FALSE
    /\ UNCHANGED <<board, due, sync, queryPhase, queryError, failures, timer,
                   denied, admitted, focusAfter, recovery, commandKey,
                   invalidated, quoteTarget, server, wanted, events, warned>>

\* FAILED_NOT_EXECUTED: the dialog is back at its draft and the record closes.
LearnRefusal ==
    /\ phase = "CONFIRMING" /\ flights[prop] = "REFUSED"
    /\ phase' = "DRAFT" /\ flights' = [flights EXCEPT ![prop] = "none"]
    /\ UNCHANGED <<recovery, commandKey, invalidated, quoteTarget, query,
                   revision, auth, businessDate, wanted, events, ghosts>>

\* closeCommandDialog after a commit.
CloseCommittedOpen ==
    /\ flights' = [flights EXCEPT ![prop] = "none"]
    /\ phase' = "IDLE" /\ recovery' = FALSE /\ commandKey' = Null
    /\ invalidated' = FALSE /\ quoteTarget' = Null
    /\ UNCHANGED focusAfter /\ due' = TRUE
CloseCommitted ==
    /\ flights' = [flights EXCEPT ![prop] = "none"]
    /\ phase' = "IDLE" /\ recovery' = FALSE /\ commandKey' = Null
    /\ invalidated' = FALSE /\ quoteTarget' = Null
    /\ focusAfter' = TRUE /\ due' = TRUE

\* The read after a commit is answered: a failure is swallowed, a board that
\* still counts is installed, and the dialog closes.
ScopeIsCurrent(i) == Counts(i) /\ reads[i].prop = prop
CommittedRefreshEnds(i) ==
    LET r == reads[i]
        taken == r.answer.status = "ok" /\ ScopeIsCurrent(i)
    IN
    /\ phase = "SETTLED" /\ r # Null /\ r.kind = "committed"
    /\ r.answer.status # "pending"
    /\ reads' = [reads EXCEPT ![i] = Null]
    /\ active' = IF active = i THEN Null ELSE active
    /\ IF taken
       THEN Install(r)
       ELSE UNCHANGED <<board, admitted, queryError, queryPhase, failures,
                        timer, warned>>
    /\ CloseCommitted
    /\ UNCHANGED <<sync, denied, revision, auth, businessDate, wanted, events,
                   owed, excused>>

\* The user closes a dialog: a command that was sent keeps its record.
CloseDialog ==
    /\ phase \in {"DRAFT", "PREVIEW", "CONFIRMING"}
    /\ phase' = "IDLE" /\ recovery' = FALSE /\ commandKey' = Null
    /\ invalidated' = FALSE
    /\ UNCHANGED <<quoteTarget, query, server, wanted, events, ghosts>>

(***************************************************************************)
(* The server and the others who use it.                                   *)
(***************************************************************************)

Commits(p) ==
    /\ revision[p] < MaxRevision
    /\ revision' = [revision EXCEPT ![p] = @ + 1]

\* The command sent for p is executed or refused.
Execute(p) ==
    /\ flights[p] = "SENT"
    /\ \/ /\ Level(auth) = "WRITE" /\ Commits(p)
          /\ flights' = [flights EXCEPT ![p] = "EXECUTED"]
       \/ flights' = [flights EXCEPT ![p] = "REFUSED"] /\ UNCHANGED revision
    /\ UNCHANGED <<auth, businessDate, query, command, wanted, events, ghosts>>

OtherCommits(p) ==
    /\ Happens /\ Commits(p)
    /\ UNCHANGED <<auth, businessDate, flights, query, command, wanted, ghosts>>

Reauthorize(a) ==
    /\ Happens /\ a # auth /\ auth' = a
    /\ UNCHANGED <<revision, businessDate, flights, query, command, wanted,
                   ghosts>>

Midnight ==
    /\ Happens /\ businessDate = 0 /\ businessDate' = 1
    /\ UNCHANGED <<revision, auth, flights, query, command, wanted,
                   ghosts>>

BoardNext ==
    \/ QueryEffect \/ RetryFires \/ Refresh
    \/ \E i \in Requests :
          \/ AnswerRead(i) \/ DropRead(i) \/ BoardArrives(i) \/ BoardFails(i)
          \/ CommittedRefreshEnds(i)
    \/ SyncStarts \/ AnswerSync \/ SyncArrives \/ SyncFails
    \/ \E k \in Keys : ChangeQuery(k)
    \/ \E p \in Properties :
          SwitchProperty(p) \/ Execute(p) \/ OtherCommits(p)
    \/ OpenForm \/ StartCommand \/ Preview \/ Confirm \/ OpenRecovery
    \/ LearnCommit \/ LearnRefusal \/ CloseDialog
    \/ \E a \in Authorizations : Reauthorize(a)
    \/ Midnight

BoardSpec == BoardInit /\ [][BoardNext]_boardVars

\* Effects and timers run, the visible page polls, and requests end: the 15 s
\* timeout of each ends it if nothing else does.
Fairness ==
    /\ WF_boardVars(QueryEffect) /\ WF_boardVars(RetryFires)
    /\ \A i \in Requests :
          /\ WF_boardVars(AnswerRead(i)) /\ WF_boardVars(DropRead(i))
          /\ WF_boardVars(BoardArrives(i)) /\ WF_boardVars(BoardFails(i))
          /\ WF_boardVars(CommittedRefreshEnds(i))
    /\ WF_boardVars(SyncStarts) /\ WF_boardVars(AnswerSync)
    /\ WF_boardVars(SyncArrives) /\ WF_boardVars(SyncFails)

FairSpec == BoardSpec /\ Fairness

(***************************************************************************)
(* Properties.                                                             *)
(***************************************************************************)

Answers == [status : {"pending", "ok", "refused"} \cup Faults,
            revision : 0..MaxRevision, auth : Authorizations, date : 0..1]
Reads == [kind : {"effect", "committed"}, prop : Properties, key : Keys,
          answer : Answers]
Boards == [prop : Properties, key : Keys, revision : 0..MaxRevision,
           auth : Authorizations, date : 0..1]

BoardTypeOK ==
    /\ revision \in [Properties -> 0..MaxRevision]
    /\ auth \in Authorizations /\ businessDate \in 0..1
    /\ flights \in [Properties -> {"none", "SENT", "EXECUTED", "REFUSED"}]
    /\ prop \in Properties /\ key \in Keys /\ due \in BOOLEAN
    /\ board \in Boards \cup {Null}
    /\ reads \in [Requests -> Reads \cup {Null}]
    /\ active \in Requests \cup {Null}
    /\ sync \in Answers \cup {Null}
    /\ queryPhase \in {"LOADING", "RANGE_LOADING", "READY", "REFRESHING",
                       "ERROR", "PERMISSION_DENIED"}
    /\ queryError \in {"none", "denied"} \cup Faults
    /\ failures \in Nat /\ events \in 0..MaxEvents
    /\ timer \in BOOLEAN /\ denied \in BOOLEAN /\ admitted \in BOOLEAN
    /\ focusAfter \in BOOLEAN /\ recovery \in BOOLEAN /\ invalidated \in BOOLEAN
    /\ warned \in BOOLEAN /\ excused \in BOOLEAN
    /\ phase \in {"IDLE", "DRAFT", "PREVIEW", "CONFIRMING", "SETTLED"}
    /\ commandKey \in Keys \cup {Null}
    /\ quoteTarget \in {Null, "CREATE", "BACKFILL"}

\* After the page has learned that its own command committed, it lets no other
\* command start from a board that is older than that commit, even when the
\* read after the commit fails, is replaced or comes late
\* (refreshCommittedRoomStatus, closeCommandDialog, focusAfterNextBoard).  The
\* one exception is a poll sent before the commit and answered after both reads
\* that follow it have failed: it finds the old board unchanged and unlocks it.
OwnCommitIsSeen ==
    ~StartBlocked => board.revision >= owed[prop] \/ excused

\* Once the poll has seen another authorization than the board's, no command is
\* started and no open one confirmed until a board has been answered since
\* (boardWriteAdmitted, commandContextInvalidated).
ChangedAuthorizationCloses == warned => ~Writable /\ ~CanConfirm

\* A form from which a command could be started asks for what the business date
\* of the board calls for: nights that have passed are backfilled, others sold
\* (roomStatusQuoteTargetForBusinessDate across midnight).
FormMatchesTheDay ==
    Writable /\ quoteTarget # Null => OffersForm(board, quoteTarget)

\* The board of a property is never replaced by an older one: the answer of a
\* read that has been replaced is dropped (RoomStatusQueryAttemptGuard).
BoardGoesOn ==
    board # Null /\ board' # Null /\ board'.prop = board.prop
        => board'.revision >= board.revision

\* A scope to which access was refused stays closed until the user leaves it: no
\* late success of an older read opens it again (denyRoomStatusReadAccess).
DeniedStaysDenied == denied => denied' \/ prop' # prop

\* Late and replaced answers of reads bring back neither an older board nor a
\* scope that was refused.
PageNeverGoesBack == [][BoardGoesOn /\ DeniedStaysDenied]_boardVars

\* What the page lets the user start or confirm rests on a board that has the
\* page's own commit, the authorization last seen and the board's business date.
PageIsSafe == OwnCommitIsSeen /\ ChangedAuthorizationCloses /\ FormMatchesTheDay

\* The lock put on the board by a commit ends, unless a deterministic error or
\* a refusal needs the user, or the user is in another dialog: when both reads
\* fail and the retries are used up, the poll still finds the way back.
LockEnds ==
    focusAfter ~> (~focusAfter \/ denied \/ queryError = "fatal"
                   \/ phase # "IDLE")
=============================================================================
