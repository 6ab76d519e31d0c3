-------------------------- MODULE BoardClientProofs --------------------------
(***************************************************************************)
(* What the room-status page lets its user do is safe whatever answers are *)
(* late, replaced or lost: for any properties, queries and slots of reads, *)
(* and any number of commits and events from outside.                      *)
(***************************************************************************)
EXTENDS BoardClient, TLAPS

(* The board shown is one of the page's property, not ahead of the server.  *)
BoardOfProperty ==
    board # Null => board.prop = prop /\ board.revision <= revision[prop]

(* The read that counts asks for the page's property, and its answer is not *)
(* older than the board nor than the page's own commit.                     *)
ActiveReadIsCurrent ==
    active # Null /\ reads[active] # Null =>
        /\ reads[active].prop = prop
        /\ reads[active].answer.status = "ok" =>
              /\ reads[active].answer.revision <= revision[prop]
              /\ owed[prop] <= reads[active].answer.revision
              /\ board # Null => board.revision <= reads[active].answer.revision

OwedIsCommitted ==
    /\ owed \in [Properties -> Nat]
    /\ \A p \in Properties : owed[p] <= revision[p]

(* A scope that was refused is empty.                                       *)
DeniedIsEmpty == denied => board = Null /\ active = Null /\ phase = "IDLE"

(* A board older than the own commit is locked, or the command that         *)
(* committed is still open and blocks every other one.                      *)
OldBoardIsLocked ==
    board # Null /\ board.revision < owed[prop]
        => excused \/ focusAfter \/ phase = "SETTLED"
SettledIsExecuted == phase = "SETTLED" => flights[prop] = "EXECUTED"

(* After a changed authorization no board admits writes, and an open        *)
(* command is invalidated unless it only recovers one that was sent.        *)
WarnedIsClosed ==
    warned => ~admitted /\ (invalidated \/ recovery \/ phase = "IDLE")

BoardInv ==
    /\ BoardTypeOK /\ BoardOfProperty /\ ActiveReadIsCurrent /\ OwedIsCommitted
    /\ DeniedIsEmpty /\ OldBoardIsLocked /\ SettledIsExecuted /\ WarnedIsClosed
    /\ FormMatchesTheDay

-----------------------------------------------------------------------------
(* Types. *)
LEMMA TypeStep ==
    ASSUME BoardTypeOK, BoardNext
    PROVE  BoardTypeOK'
<1> USE BoardAssumption DEF BoardTypeOK, server, query, dialog, command, wanted, ghosts,
        Happens
<1>1. CASE QueryEffect
  <2>1. /\ board' \in Boards \cup {Null} /\ sync' \in Answers \cup {Null}
        /\ reads' \in [Requests -> Reads \cup {Null}] /\ active' \in Requests \cup {Null}
    BY <1>1 DEF QueryEffect, BeginRead, NoAnswer, Answers, Reads, Authorizations
  <2>2. /\ due' \in BOOLEAN /\ timer' \in BOOLEAN /\ denied' \in BOOLEAN /\ admitted' \in BOOLEAN
        /\ focusAfter' \in BOOLEAN /\ recovery' \in BOOLEAN /\ invalidated' \in BOOLEAN
        /\ warned' \in BOOLEAN /\ excused' \in BOOLEAN
    BY <1>1 DEF QueryEffect
  <2>3. /\ queryPhase' \in {"LOADING", "RANGE_LOADING", "READY", "REFRESHING",
                             "ERROR", "PERMISSION_DENIED"}
        /\ queryError' \in {"none", "denied"} \cup Faults /\ failures' \in Nat
        /\ commandKey' \in Keys \cup {Null} /\ quoteTarget' \in {Null, "CREATE", "BACKFILL"}
    BY <1>1 DEF QueryEffect, FormFollows
  <2> QED
    BY <1>1, <2>1, <2>2, <2>3 DEF QueryEffect
<1>2. CASE RetryFires
  <2>1. due' \in BOOLEAN /\ timer' \in BOOLEAN
    BY <1>2 DEF RetryFires
  <2> QED
    BY <1>2, <2>1 DEF RetryFires
<1>3. CASE Refresh
  BY <1>3 DEF Refresh
<1>4. ASSUME NEW i \in Requests, AnswerRead(i) PROVE BoardTypeOK'
  <2>1. /\ board' \in Boards \cup {Null} /\ sync' \in Answers \cup {Null}
        /\ reads' \in [Requests -> Reads \cup {Null}] /\ active' \in Requests \cup {Null}
    BY <1>4 DEF AnswerRead, Failure, NoAnswer, ServerAnswer, Answers, Reads,
         Authorizations
  <2>2. /\ due' \in BOOLEAN /\ timer' \in BOOLEAN /\ denied' \in BOOLEAN /\ admitted' \in BOOLEAN
        /\ focusAfter' \in BOOLEAN /\ recovery' \in BOOLEAN /\ invalidated' \in BOOLEAN
        /\ warned' \in BOOLEAN /\ excused' \in BOOLEAN
    BY <1>4 DEF AnswerRead
  <2>3. /\ queryPhase' \in {"LOADING", "RANGE_LOADING", "READY", "REFRESHING",
                             "ERROR", "PERMISSION_DENIED"}
        /\ queryError' \in {"none", "denied"} \cup Faults /\ failures' \in Nat
        /\ commandKey' \in Keys \cup {Null} /\ quoteTarget' \in {Null, "CREATE", "BACKFILL"}
    BY <1>4 DEF AnswerRead
  <2> QED
    BY <1>4, <2>1, <2>2, <2>3 DEF AnswerRead
<1>5. ASSUME NEW i \in Requests, DropRead(i) PROVE BoardTypeOK'
  BY <1>5 DEF DropRead
<1>6. ASSUME NEW i \in Requests, BoardArrives(i) PROVE BoardTypeOK'
  <2>1. /\ board' \in Boards \cup {Null} /\ sync' \in Answers \cup {Null}
        /\ reads' \in [Requests -> Reads \cup {Null}] /\ active' \in Requests \cup {Null}
    BY <1>6 DEF BoardArrives, Install, Answers, Reads, Boards
  <2>2. /\ due' \in BOOLEAN /\ timer' \in BOOLEAN /\ denied' \in BOOLEAN /\ admitted' \in BOOLEAN
        /\ focusAfter' \in BOOLEAN /\ recovery' \in BOOLEAN /\ invalidated' \in BOOLEAN
        /\ warned' \in BOOLEAN /\ excused' \in BOOLEAN
    BY <1>6 DEF BoardArrives, Install, ResetFailures
  <2>3. /\ queryPhase' \in {"LOADING", "RANGE_LOADING", "READY", "REFRESHING",
                             "ERROR", "PERMISSION_DENIED"}
        /\ queryError' \in {"none", "denied"} \cup Faults /\ failures' \in Nat
        /\ commandKey' \in Keys \cup {Null} /\ quoteTarget' \in {Null, "CREATE", "BACKFILL"}
    BY <1>6 DEF BoardArrives, FormFollows, Install, ResetFailures
  <2> QED
    BY <1>6, <2>1, <2>2, <2>3 DEF BoardArrives
<1>7. ASSUME NEW i \in Requests, BoardFails(i) PROVE BoardTypeOK'
  <2>1. /\ board' \in Boards \cup {Null} /\ sync' \in Answers \cup {Null}
        /\ reads' \in [Requests -> Reads \cup {Null}] /\ active' \in Requests \cup {Null}
    BY <1>7 DEF BoardFails, Deny
  <2>2. /\ due' \in BOOLEAN /\ timer' \in BOOLEAN /\ denied' \in BOOLEAN /\ admitted' \in BOOLEAN
        /\ focusAfter' \in BOOLEAN /\ recovery' \in BOOLEAN /\ invalidated' \in BOOLEAN
        /\ warned' \in BOOLEAN /\ excused' \in BOOLEAN
    BY <1>7 DEF BoardFails, ResetFailures, Deny, AbandonCommand
  <2>3. /\ queryPhase' \in {"LOADING", "RANGE_LOADING", "READY", "REFRESHING",
                             "ERROR", "PERMISSION_DENIED"}
        /\ queryError' \in {"none", "denied"} \cup Faults /\ failures' \in Nat
        /\ commandKey' \in Keys \cup {Null} /\ quoteTarget' \in {Null, "CREATE", "BACKFILL"}
    BY <1>7 DEF BoardFails, FormFollows, ResetFailures, Deny
  <2> QED
    BY <1>7, <2>1, <2>2, <2>3 DEF BoardFails, Deny, AbandonCommand
<1>8. ASSUME NEW i \in Requests, CommittedRefreshEnds(i) PROVE BoardTypeOK'
  <2>1. /\ board' \in Boards \cup {Null} /\ sync' \in Answers \cup {Null}
        /\ reads' \in [Requests -> Reads \cup {Null}] /\ active' \in Requests \cup {Null}
    BY <1>8 DEF CommittedRefreshEnds, Install, Answers, Reads, Boards
  <2>2. /\ due' \in BOOLEAN /\ timer' \in BOOLEAN /\ denied' \in BOOLEAN /\ admitted' \in BOOLEAN
        /\ focusAfter' \in BOOLEAN /\ recovery' \in BOOLEAN /\ invalidated' \in BOOLEAN
        /\ warned' \in BOOLEAN /\ excused' \in BOOLEAN
    BY <1>8 DEF CommittedRefreshEnds, CloseCommitted, Install, ResetFailures
  <2>3. /\ queryPhase' \in {"LOADING", "RANGE_LOADING", "READY", "REFRESHING",
                             "ERROR", "PERMISSION_DENIED"}
        /\ queryError' \in {"none", "denied"} \cup Faults /\ failures' \in Nat
        /\ commandKey' \in Keys \cup {Null} /\ quoteTarget' \in {Null, "CREATE", "BACKFILL"}
    BY <1>8 DEF CommittedRefreshEnds, CloseCommitted, Install, ResetFailures
  <2> QED
    BY <1>8, <2>1, <2>2, <2>3 DEF CommittedRefreshEnds, CloseCommitted
<1>9. CASE SyncStarts
  BY <1>9 DEF SyncStarts, NoAnswer, Answers, Authorizations
<1>10. CASE AnswerSync
  BY <1>10 DEF AnswerSync, Failure, NoAnswer, ServerAnswer, Answers, Authorizations
<1>11. CASE SyncArrives
  <2>1. /\ board' \in Boards \cup {Null} /\ sync' \in Answers \cup {Null}
        /\ reads' \in [Requests -> Reads \cup {Null}] /\ active' \in Requests \cup {Null}
    BY <1>11 DEF SyncArrives
  <2>2. /\ due' \in BOOLEAN /\ timer' \in BOOLEAN /\ denied' \in BOOLEAN /\ admitted' \in BOOLEAN
        /\ focusAfter' \in BOOLEAN /\ recovery' \in BOOLEAN /\ invalidated' \in BOOLEAN
        /\ warned' \in BOOLEAN /\ excused' \in BOOLEAN
    BY <1>11 DEF SyncArrives, ResetFailures
  <2>3. /\ queryPhase' \in {"LOADING", "RANGE_LOADING", "READY", "REFRESHING",
                             "ERROR", "PERMISSION_DENIED"}
        /\ queryError' \in {"none", "denied"} \cup Faults /\ failures' \in Nat
        /\ commandKey' \in Keys \cup {Null} /\ quoteTarget' \in {Null, "CREATE", "BACKFILL"}
    BY <1>11 DEF SyncArrives, FormFollows, ResetFailures
  <2> QED
    BY <1>11, <2>1, <2>2, <2>3 DEF SyncArrives
<1>12. CASE SyncFails
  <2>1. /\ board' \in Boards \cup {Null} /\ sync' \in Answers \cup {Null}
        /\ reads' \in [Requests -> Reads \cup {Null}] /\ active' \in Requests \cup {Null}
    BY <1>12 DEF SyncFails, KeepEffectReads, Deny
  <2>2. /\ due' \in BOOLEAN /\ timer' \in BOOLEAN /\ denied' \in BOOLEAN /\ admitted' \in BOOLEAN
        /\ focusAfter' \in BOOLEAN /\ recovery' \in BOOLEAN /\ invalidated' \in BOOLEAN
        /\ warned' \in BOOLEAN /\ excused' \in BOOLEAN
    BY <1>12 DEF SyncFails, Deny, AbandonCommand, ResetFailures
  <2>3. /\ queryPhase' \in {"LOADING", "RANGE_LOADING", "READY", "REFRESHING",
                             "ERROR", "PERMISSION_DENIED"}
        /\ queryError' \in {"none", "denied"} \cup Faults /\ failures' \in Nat
        /\ commandKey' \in Keys \cup {Null} /\ quoteTarget' \in {Null, "CREATE", "BACKFILL"}
    BY <1>12 DEF SyncFails, FormFollows, Deny, ResetFailures
  <2> QED
    BY <1>12, <2>1, <2>2, <2>3 DEF SyncFails, Deny, AbandonCommand
<1>13. ASSUME NEW k \in Keys, ChangeQuery(k) PROVE BoardTypeOK'
  <2>1. /\ board' \in Boards \cup {Null} /\ sync' \in Answers \cup {Null}
        /\ reads' \in [Requests -> Reads \cup {Null}] /\ active' \in Requests \cup {Null}
    BY <1>13 DEF ChangeQuery
  <2>2. /\ due' \in BOOLEAN /\ timer' \in BOOLEAN /\ denied' \in BOOLEAN /\ admitted' \in BOOLEAN
        /\ focusAfter' \in BOOLEAN /\ recovery' \in BOOLEAN /\ invalidated' \in BOOLEAN
        /\ warned' \in BOOLEAN /\ excused' \in BOOLEAN
    BY <1>13 DEF ChangeQuery, ResetFailures
  <2>3. /\ queryPhase' \in {"LOADING", "RANGE_LOADING", "READY", "REFRESHING",
                             "ERROR", "PERMISSION_DENIED"}
        /\ queryError' \in {"none", "denied"} \cup Faults /\ failures' \in Nat
        /\ commandKey' \in Keys \cup {Null} /\ quoteTarget' \in {Null, "CREATE", "BACKFILL"}
    BY <1>13 DEF ChangeQuery, FormFollows, ResetFailures
  <2> QED
    BY <1>13, <2>1, <2>2, <2>3 DEF ChangeQuery
<1>14. ASSUME NEW p \in Properties, SwitchProperty(p) PROVE BoardTypeOK'
  <2>1. /\ board' \in Boards \cup {Null} /\ sync' \in Answers \cup {Null}
        /\ reads' \in [Requests -> Reads \cup {Null}] /\ active' \in Requests \cup {Null}
    BY <1>14 DEF SwitchProperty, KeepEffectReads
  <2>2. /\ due' \in BOOLEAN /\ timer' \in BOOLEAN /\ denied' \in BOOLEAN /\ admitted' \in BOOLEAN
        /\ focusAfter' \in BOOLEAN /\ recovery' \in BOOLEAN /\ invalidated' \in BOOLEAN
        /\ warned' \in BOOLEAN /\ excused' \in BOOLEAN
    BY <1>14 DEF SwitchProperty, ResetFailures, AbandonCommand
  <2>3. /\ queryPhase' \in {"LOADING", "RANGE_LOADING", "READY", "REFRESHING",
                             "ERROR", "PERMISSION_DENIED"}
        /\ queryError' \in {"none", "denied"} \cup Faults /\ failures' \in Nat
        /\ commandKey' \in Keys \cup {Null} /\ quoteTarget' \in {Null, "CREATE", "BACKFILL"}
    BY <1>14 DEF SwitchProperty, ResetFailures
  <2> QED
    BY <1>14, <2>1, <2>2, <2>3 DEF SwitchProperty, AbandonCommand
<1>15. ASSUME NEW p \in Properties, Execute(p) PROVE BoardTypeOK'
  BY <1>15 DEF Execute, Commits
<1>16. ASSUME NEW p \in Properties, OtherCommits(p) PROVE BoardTypeOK'
  BY <1>16 DEF OtherCommits, Commits
<1>17. CASE OpenForm
  BY <1>17 DEF OpenForm, SelectionActions, ActionOf
<1>18. CASE StartCommand
  <2>1. /\ board' \in Boards \cup {Null} /\ sync' \in Answers \cup {Null}
        /\ reads' \in [Requests -> Reads \cup {Null}] /\ active' \in Requests \cup {Null}
    BY <1>18 DEF StartCommand
  <2>2. /\ due' \in BOOLEAN /\ timer' \in BOOLEAN /\ denied' \in BOOLEAN /\ admitted' \in BOOLEAN
        /\ focusAfter' \in BOOLEAN /\ recovery' \in BOOLEAN /\ invalidated' \in BOOLEAN
        /\ warned' \in BOOLEAN /\ excused' \in BOOLEAN
    BY <1>18 DEF StartCommand
  <2>3. /\ queryPhase' \in {"LOADING", "RANGE_LOADING", "READY", "REFRESHING",
                             "ERROR", "PERMISSION_DENIED"}
        /\ queryError' \in {"none", "denied"} \cup Faults /\ failures' \in Nat
        /\ commandKey' \in Keys \cup {Null} /\ quoteTarget' \in {Null, "CREATE", "BACKFILL"}
    BY <1>18 DEF StartCommand, StartBlocked, Writable, ActiveValid, ProjectionReady,
         BoardMatches
  <2> QED
    BY <1>18, <2>1, <2>2, <2>3 DEF StartCommand
<1>19. CASE Preview
  BY <1>19 DEF Preview
<1>20. CASE Confirm
  BY <1>20 DEF Confirm
<1>21. CASE OpenRecovery
  <2>1. /\ board' \in Boards \cup {Null} /\ sync' \in Answers \cup {Null}
        /\ reads' \in [Requests -> Reads \cup {Null}] /\ active' \in Requests \cup {Null}
    BY <1>21 DEF OpenRecovery
  <2>2. /\ due' \in BOOLEAN /\ timer' \in BOOLEAN /\ denied' \in BOOLEAN /\ admitted' \in BOOLEAN
        /\ focusAfter' \in BOOLEAN /\ recovery' \in BOOLEAN /\ invalidated' \in BOOLEAN
        /\ warned' \in BOOLEAN /\ excused' \in BOOLEAN
    BY <1>21 DEF OpenRecovery
  <2>3. /\ queryPhase' \in {"LOADING", "RANGE_LOADING", "READY", "REFRESHING",
                             "ERROR", "PERMISSION_DENIED"}
        /\ queryError' \in {"none", "denied"} \cup Faults /\ failures' \in Nat
        /\ commandKey' \in Keys \cup {Null} /\ quoteTarget' \in {Null, "CREATE", "BACKFILL"}
    BY <1>21 DEF OpenRecovery, Boards
  <2> QED
    BY <1>21, <2>1, <2>2, <2>3 DEF OpenRecovery
<1>22. CASE LearnCommit
  <2>1. /\ board' \in Boards \cup {Null} /\ sync' \in Answers \cup {Null}
        /\ reads' \in [Requests -> Reads \cup {Null}] /\ active' \in Requests \cup {Null}
    BY <1>22 DEF LearnCommit, BeginRead, NoAnswer, Answers, Reads, Authorizations
  <2>2. /\ due' \in BOOLEAN /\ timer' \in BOOLEAN /\ denied' \in BOOLEAN /\ admitted' \in BOOLEAN
        /\ focusAfter' \in BOOLEAN /\ recovery' \in BOOLEAN /\ invalidated' \in BOOLEAN
        /\ warned' \in BOOLEAN /\ excused' \in BOOLEAN
    BY <1>22 DEF LearnCommit
  <2>3. /\ queryPhase' \in {"LOADING", "RANGE_LOADING", "READY", "REFRESHING",
                             "ERROR", "PERMISSION_DENIED"}
        /\ queryError' \in {"none", "denied"} \cup Faults /\ failures' \in Nat
        /\ commandKey' \in Keys \cup {Null} /\ quoteTarget' \in {Null, "CREATE", "BACKFILL"}
    BY <1>22 DEF LearnCommit
  <2> QED
    BY <1>22, <2>1, <2>2, <2>3 DEF LearnCommit
<1>23. CASE LearnRefusal
  BY <1>23 DEF LearnRefusal
<1>24. CASE CloseDialog
  <2>1. recovery' \in BOOLEAN /\ invalidated' \in BOOLEAN
    BY <1>24 DEF CloseDialog
  <2> QED
    BY <1>24, <2>1 DEF CloseDialog
<1>25. ASSUME NEW a \in Authorizations, Reauthorize(a) PROVE BoardTypeOK'
  BY <1>25 DEF Reauthorize
<1>26. CASE Midnight
  BY <1>26 DEF Midnight
<1> QED
  BY <1>1, <1>2, <1>3, <1>4, <1>5, <1>6, <1>7, <1>8, <1>9, <1>10, <1>11, <1>12, <1>13,
       <1>14, <1>15, <1>16, <1>17, <1>18, <1>19, <1>20, <1>21, <1>22, <1>23, <1>24, <1>25,
       <1>26 DEF BoardNext

-----------------------------------------------------------------------------
(* Steps. *)

(* Timers, the poll's request and the world outside move nothing the        *)
(* invariant is about.                                                      *)
LEMMA BackgroundStep ==
    ASSUME BoardInv, BoardTypeOK',
           UNCHANGED <<revision, flights, prop, key, board, reads, active, queryPhase,
                       queryError, denied, admitted, focusAfter, command, ghosts>>
    PROVE  BoardInv'
  BY DEF BoardInv, BoardOfProperty, ActiveReadIsCurrent, OwedIsCommitted, DeniedIsEmpty,
       OldBoardIsLocked, SettledIsExecuted, WarnedIsClosed, FormMatchesTheDay, command,
       dialog, ghosts, Writable, ActiveValid, ProjectionReady, BoardMatches

LEMMA QueryEffectStep ==
    ASSUME BoardInv, BoardTypeOK', QueryEffect
    PROVE  BoardInv'
<1> USE BoardAssumption DEF BoardInv, BoardTypeOK, QueryEffect, FormFollows,
     ghosts, wanted, command, query, server, dialog, RefreshAllowed,
     BeginRead, Aborted, NoAnswer, Failure
<1>1. BoardOfProperty' /\ OwedIsCommitted'
  BY DEF BoardOfProperty, OwedIsCommitted
<1>2. ActiveReadIsCurrent'
  BY DEF ActiveReadIsCurrent
<1>3. DeniedIsEmpty' /\ SettledIsExecuted'
  BY DEF DeniedIsEmpty, SettledIsExecuted
<1>4. OldBoardIsLocked'
  BY DEF OldBoardIsLocked
<1>5. WarnedIsClosed'
  BY DEF WarnedIsClosed
<1>6. FormMatchesTheDay'
  BY DEF FormMatchesTheDay
<1> QED
  BY <1>1, <1>2, <1>3, <1>4, <1>5, <1>6

LEMMA AnswerReadStep ==
    ASSUME BoardInv, BoardTypeOK', NEW i \in Requests, AnswerRead(i)
    PROVE  BoardInv'
<1> USE BoardAssumption DEF BoardInv, BoardTypeOK, AnswerRead, ghosts, wanted,
     command, query, server, dialog, Failure, NoAnswer, Faults, Happens,
     ServerAnswer
<1>1. BoardOfProperty' /\ OwedIsCommitted'
  BY DEF BoardOfProperty, OwedIsCommitted
<1>2. ActiveReadIsCurrent'
  BY DEF ActiveReadIsCurrent, BoardOfProperty, OwedIsCommitted, Reads
<1>3. DeniedIsEmpty' /\ SettledIsExecuted'
  BY DEF DeniedIsEmpty, SettledIsExecuted
<1>4. OldBoardIsLocked'
  BY DEF OldBoardIsLocked
<1>5. WarnedIsClosed'
  BY DEF WarnedIsClosed
<1>6. FormMatchesTheDay'
  BY DEF FormMatchesTheDay, Writable, ActiveValid, ProjectionReady, BoardMatches
<1> QED
  BY <1>1, <1>2, <1>3, <1>4, <1>5, <1>6

LEMMA DropReadStep ==
    ASSUME BoardInv, BoardTypeOK', NEW i \in Requests, DropRead(i)
    PROVE  BoardInv'
<1> USE BoardAssumption DEF BoardInv, BoardTypeOK, DropRead, ghosts, wanted,
     command, query, server, dialog, Counts
<1>1. BoardOfProperty' /\ OwedIsCommitted'
  BY DEF BoardOfProperty, OwedIsCommitted
<1>2. ActiveReadIsCurrent'
  BY DEF ActiveReadIsCurrent
<1>3. DeniedIsEmpty' /\ SettledIsExecuted'
  BY DEF DeniedIsEmpty, SettledIsExecuted
<1>4. OldBoardIsLocked'
  BY DEF OldBoardIsLocked
<1>5. WarnedIsClosed'
  BY DEF WarnedIsClosed
<1>6. FormMatchesTheDay'
  BY DEF FormMatchesTheDay, Writable, ActiveValid, ProjectionReady, BoardMatches
<1> QED
  BY <1>1, <1>2, <1>3, <1>4, <1>5, <1>6

LEMMA BoardArrivesStep ==
    ASSUME BoardInv, BoardTypeOK', NEW i \in Requests, BoardArrives(i)
    PROVE  BoardInv'
<1> USE BoardAssumption DEF BoardInv, BoardTypeOK, BoardArrives, FormFollows,
     wanted, ghosts, command, query, server, dialog, Install, ResetFailures,
     RefreshAllowed, Counts
<1>1. BoardOfProperty' /\ OwedIsCommitted'
  BY DEF BoardOfProperty, OwedIsCommitted, ActiveReadIsCurrent
<1>2. ActiveReadIsCurrent'
  BY DEF ActiveReadIsCurrent
<1>3. DeniedIsEmpty' /\ SettledIsExecuted'
  BY DEF DeniedIsEmpty, SettledIsExecuted
<1>4. OldBoardIsLocked'
  BY DEF OldBoardIsLocked, ActiveReadIsCurrent, OwedIsCommitted, Boards
<1>5. WarnedIsClosed'
  BY DEF WarnedIsClosed
<1>6. FormMatchesTheDay'
  BY DEF FormMatchesTheDay
<1> QED
  BY <1>1, <1>2, <1>3, <1>4, <1>5, <1>6

LEMMA BoardFailsStep ==
    ASSUME BoardInv, BoardTypeOK', NEW i \in Requests, BoardFails(i)
    PROVE  BoardInv'
<1> USE BoardAssumption DEF BoardInv, BoardTypeOK, BoardFails, FormFollows,
     dialog, ghosts, wanted, command, query, server, ResetFailures, Faults,
     Deny, AbandonCommand, Counts
<1>1. BoardOfProperty' /\ OwedIsCommitted'
  BY DEF BoardOfProperty, OwedIsCommitted
<1>2. ActiveReadIsCurrent'
  BY DEF ActiveReadIsCurrent
<1>3. DeniedIsEmpty' /\ SettledIsExecuted'
  BY DEF DeniedIsEmpty, SettledIsExecuted
<1>4. OldBoardIsLocked'
  BY DEF OldBoardIsLocked
<1>5. WarnedIsClosed'
  <2>1. CASE Deny
    BY <2>1 DEF WarnedIsClosed
  <2>2. CASE UNCHANGED <<admitted, warned, dialog>>
    <3> HIDE DEF BoardInv, BoardTypeOK, BoardFails
    <3> QED
      BY <2>2, Zenon DEF BoardInv, WarnedIsClosed
  <2> HIDE DEF Deny
  <2> QED
    BY <2>1, <2>2, Zenon
<1>6. FormMatchesTheDay'
  BY DEF FormMatchesTheDay
<1> QED
  BY <1>1, <1>2, <1>3, <1>4, <1>5, <1>6

LEMMA CommittedRefreshEndsStep ==
    ASSUME BoardInv, BoardTypeOK', NEW i \in Requests, CommittedRefreshEnds(i)
    PROVE  BoardInv'
<1> USE BoardAssumption DEF BoardInv, BoardTypeOK, CommittedRefreshEnds,
     wanted, ghosts, command, query, server, dialog, CloseCommitted, Install,
     ResetFailures, ScopeIsCurrent, Counts
<1>1. BoardOfProperty' /\ OwedIsCommitted'
  BY DEF BoardOfProperty, OwedIsCommitted, ActiveReadIsCurrent
<1>2. ActiveReadIsCurrent'
  BY DEF ActiveReadIsCurrent
<1>3. DeniedIsEmpty' /\ SettledIsExecuted'
  BY DEF DeniedIsEmpty, SettledIsExecuted
<1>4. OldBoardIsLocked'
  BY DEF OldBoardIsLocked
<1>5. WarnedIsClosed'
  BY DEF WarnedIsClosed
<1>6. FormMatchesTheDay'
  BY DEF FormMatchesTheDay
<1> QED
  BY <1>1, <1>2, <1>3, <1>4, <1>5, <1>6

LEMMA SyncArrivesStep ==
    ASSUME BoardInv, BoardTypeOK', SyncArrives
    PROVE  BoardInv'
<1> USE BoardAssumption DEF BoardInv, BoardTypeOK, SyncArrives, FormFollows,
     wanted, ghosts, command, query, server, dialog, ResetFailures,
     SyncNeedsBoard
<1>1. BoardOfProperty' /\ OwedIsCommitted'
  BY DEF BoardOfProperty, OwedIsCommitted
<1>2. ActiveReadIsCurrent'
  BY DEF ActiveReadIsCurrent
<1>3. DeniedIsEmpty' /\ SettledIsExecuted'
  BY DEF DeniedIsEmpty, SettledIsExecuted
<1>4. OldBoardIsLocked'
  BY DEF OldBoardIsLocked
<1>5. WarnedIsClosed'
  BY DEF WarnedIsClosed
<1>6. FormMatchesTheDay'
  BY DEF FormMatchesTheDay
<1> QED
  BY <1>1, <1>2, <1>3, <1>4, <1>5, <1>6

LEMMA SyncFailsStep ==
    ASSUME BoardInv, BoardTypeOK', SyncFails
    PROVE  BoardInv'
<1> USE BoardAssumption DEF BoardInv, BoardTypeOK, SyncFails, FormFollows,
     dialog, ghosts, wanted, command, query, server, Faults, KeepEffectReads,
     Aborted, Deny, AbandonCommand, ResetFailures
<1>1. BoardOfProperty' /\ OwedIsCommitted'
  BY DEF BoardOfProperty, OwedIsCommitted
<1>2. ActiveReadIsCurrent'
  BY DEF ActiveReadIsCurrent
<1>3. DeniedIsEmpty' /\ SettledIsExecuted'
  BY DEF DeniedIsEmpty, SettledIsExecuted
<1>4. OldBoardIsLocked'
  BY DEF OldBoardIsLocked
<1>5. WarnedIsClosed'
  <2>1. CASE Deny
    BY <2>1 DEF WarnedIsClosed
  <2>2. CASE UNCHANGED <<warned, dialog>> /\ admitted' = (admitted /\ sync.status # "fatal")
    <3> HIDE DEF BoardInv, BoardTypeOK, SyncFails
    <3> QED
      BY <2>2, Zenon DEF BoardInv, WarnedIsClosed
  <2> HIDE DEF Deny
  <2> QED
    BY <2>1, <2>2, Zenon
<1>6. FormMatchesTheDay'
  BY DEF FormMatchesTheDay
<1> QED
  BY <1>1, <1>2, <1>3, <1>4, <1>5, <1>6

LEMMA ChangeQueryStep ==
    ASSUME BoardInv, BoardTypeOK', NEW k \in Keys, ChangeQuery(k)
    PROVE  BoardInv'
<1> USE BoardAssumption DEF BoardInv, BoardTypeOK, ChangeQuery, FormFollows,
     ghosts, wanted, command, query, server, dialog, ResetFailures, Happens
<1>1. BoardOfProperty' /\ OwedIsCommitted'
  BY DEF BoardOfProperty, OwedIsCommitted
<1>2. ActiveReadIsCurrent'
  BY DEF ActiveReadIsCurrent
<1>3. DeniedIsEmpty' /\ SettledIsExecuted'
  BY DEF DeniedIsEmpty, SettledIsExecuted
<1>4. OldBoardIsLocked'
  BY DEF OldBoardIsLocked
<1>5. WarnedIsClosed'
  BY DEF WarnedIsClosed
<1>6. FormMatchesTheDay'
  BY DEF FormMatchesTheDay
<1> QED
  BY <1>1, <1>2, <1>3, <1>4, <1>5, <1>6

LEMMA SwitchPropertyStep ==
    ASSUME BoardInv, BoardTypeOK', NEW p \in Properties, SwitchProperty(p)
    PROVE  BoardInv'
<1> USE BoardAssumption DEF BoardInv, BoardTypeOK, SwitchProperty,
     ResetFailures, AbandonCommand, KeepEffectReads, Aborted, Happens
<1>1. BoardOfProperty' /\ OwedIsCommitted'
  BY DEF BoardOfProperty, OwedIsCommitted
<1>2. ActiveReadIsCurrent'
  BY DEF ActiveReadIsCurrent
<1>3. DeniedIsEmpty' /\ SettledIsExecuted'
  BY DEF DeniedIsEmpty, SettledIsExecuted
<1>4. OldBoardIsLocked'
  BY DEF OldBoardIsLocked
<1>5. WarnedIsClosed'
  BY DEF WarnedIsClosed
<1>6. FormMatchesTheDay'
  BY DEF FormMatchesTheDay
<1> QED
  BY <1>1, <1>2, <1>3, <1>4, <1>5, <1>6

LEMMA ExecuteStep ==
    ASSUME BoardInv, BoardTypeOK', NEW p \in Properties, Execute(p)
    PROVE  BoardInv'
<1> USE BoardAssumption DEF BoardInv, BoardTypeOK, Execute, ghosts, wanted,
     command, query, server, dialog, Commits
<1>1. BoardOfProperty' /\ OwedIsCommitted'
  BY DEF BoardOfProperty, OwedIsCommitted, Boards
<1>2. ActiveReadIsCurrent'
  BY DEF ActiveReadIsCurrent, Answers, Reads
<1>3. DeniedIsEmpty' /\ SettledIsExecuted'
  BY DEF DeniedIsEmpty, SettledIsExecuted
<1>4. OldBoardIsLocked'
  BY DEF OldBoardIsLocked
<1>5. WarnedIsClosed'
  BY DEF WarnedIsClosed
<1>6. FormMatchesTheDay'
  BY DEF FormMatchesTheDay, Writable, ActiveValid, ProjectionReady, BoardMatches
<1> QED
  BY <1>1, <1>2, <1>3, <1>4, <1>5, <1>6

LEMMA OtherCommitsStep ==
    ASSUME BoardInv, BoardTypeOK', NEW p \in Properties, OtherCommits(p)
    PROVE  BoardInv'
<1> USE BoardAssumption DEF BoardInv, BoardTypeOK, OtherCommits, ghosts,
     wanted, command, query, server, dialog, Commits, Happens
<1>1. BoardOfProperty' /\ OwedIsCommitted'
  BY DEF BoardOfProperty, OwedIsCommitted, Boards
<1>2. ActiveReadIsCurrent'
  BY DEF ActiveReadIsCurrent, Answers, Reads
<1>3. DeniedIsEmpty' /\ SettledIsExecuted'
  BY DEF DeniedIsEmpty, SettledIsExecuted
<1>4. OldBoardIsLocked'
  BY DEF OldBoardIsLocked
<1>5. WarnedIsClosed'
  BY DEF WarnedIsClosed
<1>6. FormMatchesTheDay'
  BY DEF FormMatchesTheDay, Writable, ActiveValid, ProjectionReady, BoardMatches
<1> QED
  BY <1>1, <1>2, <1>3, <1>4, <1>5, <1>6

LEMMA OpenFormStep ==
    ASSUME BoardInv, BoardTypeOK', OpenForm
    PROVE  BoardInv'
<1> USE BoardAssumption DEF BoardInv, BoardTypeOK, OpenForm, ghosts, wanted,
     command, query, server, dialog, StartBlocked, Happens
<1>1. BoardOfProperty' /\ OwedIsCommitted'
  BY DEF BoardOfProperty, OwedIsCommitted
<1>2. ActiveReadIsCurrent'
  BY DEF ActiveReadIsCurrent
<1>3. DeniedIsEmpty' /\ SettledIsExecuted'
  BY DEF DeniedIsEmpty, SettledIsExecuted
<1>4. OldBoardIsLocked'
  BY DEF OldBoardIsLocked
<1>5. WarnedIsClosed'
  BY DEF WarnedIsClosed
<1>6. FormMatchesTheDay'
  BY DEF FormMatchesTheDay, OffersForm
<1> QED
  BY <1>1, <1>2, <1>3, <1>4, <1>5, <1>6

LEMMA StartCommandStep ==
    ASSUME BoardInv, BoardTypeOK', StartCommand
    PROVE  BoardInv'
<1> USE BoardAssumption DEF BoardInv, BoardTypeOK, StartCommand, ghosts,
     wanted, command, query, server, dialog, StartBlocked
<1>1. BoardOfProperty' /\ OwedIsCommitted'
  BY DEF BoardOfProperty, OwedIsCommitted
<1>2. ActiveReadIsCurrent'
  BY DEF ActiveReadIsCurrent
<1>3. DeniedIsEmpty' /\ SettledIsExecuted'
  BY DEF DeniedIsEmpty, SettledIsExecuted, Writable, ActiveValid, ProjectionReady,
       BoardMatches
<1>4. OldBoardIsLocked'
  BY DEF OldBoardIsLocked
<1>5. WarnedIsClosed'
  BY DEF WarnedIsClosed, Writable
<1>6. FormMatchesTheDay'
  BY DEF FormMatchesTheDay
<1> QED
  BY <1>1, <1>2, <1>3, <1>4, <1>5, <1>6

LEMMA PreviewStep ==
    ASSUME BoardInv, BoardTypeOK', Preview
    PROVE  BoardInv'
<1> USE BoardAssumption DEF BoardInv, BoardTypeOK, Preview, ghosts, wanted,
     command, query, server, dialog, ActiveBlocked
<1>1. BoardOfProperty' /\ OwedIsCommitted'
  BY DEF BoardOfProperty, OwedIsCommitted
<1>2. ActiveReadIsCurrent'
  BY DEF ActiveReadIsCurrent
<1>3. DeniedIsEmpty' /\ SettledIsExecuted'
  BY DEF DeniedIsEmpty, SettledIsExecuted
<1>4. OldBoardIsLocked'
  BY DEF OldBoardIsLocked
<1>5. WarnedIsClosed'
  BY DEF WarnedIsClosed
<1>6. FormMatchesTheDay'
  BY DEF FormMatchesTheDay, Writable
<1> QED
  BY <1>1, <1>2, <1>3, <1>4, <1>5, <1>6

LEMMA ConfirmStep ==
    ASSUME BoardInv, BoardTypeOK', Confirm
    PROVE  BoardInv'
<1> USE BoardAssumption DEF BoardInv, BoardTypeOK, Confirm, ghosts, wanted,
     command, query, server, dialog, CanConfirm, ActiveBlocked, Happens
<1>1. BoardOfProperty' /\ OwedIsCommitted'
  BY DEF BoardOfProperty, OwedIsCommitted
<1>2. ActiveReadIsCurrent'
  BY DEF ActiveReadIsCurrent
<1>3. DeniedIsEmpty' /\ SettledIsExecuted'
  BY DEF DeniedIsEmpty, SettledIsExecuted
<1>4. OldBoardIsLocked'
  BY DEF OldBoardIsLocked
<1>5. WarnedIsClosed'
  BY DEF WarnedIsClosed
<1>6. FormMatchesTheDay'
  BY DEF FormMatchesTheDay, Writable
<1> QED
  BY <1>1, <1>2, <1>3, <1>4, <1>5, <1>6

LEMMA OpenRecoveryStep ==
    ASSUME BoardInv, BoardTypeOK', OpenRecovery
    PROVE  BoardInv'
<1> USE BoardAssumption DEF BoardInv, BoardTypeOK, OpenRecovery, ghosts,
     wanted, command, query, server, dialog
<1>1. BoardOfProperty' /\ OwedIsCommitted'
  BY DEF BoardOfProperty, OwedIsCommitted
<1>2. ActiveReadIsCurrent'
  BY DEF ActiveReadIsCurrent
<1>3. DeniedIsEmpty' /\ SettledIsExecuted'
  BY DEF DeniedIsEmpty, SettledIsExecuted
<1>4. OldBoardIsLocked'
  BY DEF OldBoardIsLocked
<1>5. WarnedIsClosed'
  BY DEF WarnedIsClosed
<1>6. FormMatchesTheDay'
  BY DEF FormMatchesTheDay, Writable, ActiveValid, ProjectionReady, BoardMatches
<1> QED
  BY <1>1, <1>2, <1>3, <1>4, <1>5, <1>6

LEMMA LearnCommitStep ==
    ASSUME BoardInv, BoardTypeOK', LearnCommit
    PROVE  BoardInv'
<1> USE BoardAssumption DEF BoardInv, BoardTypeOK, LearnCommit, wanted,
     ghosts, command, query, server, dialog, BeginRead, Aborted, NoAnswer,
     Failure
<1>1. BoardOfProperty' /\ OwedIsCommitted'
  BY DEF BoardOfProperty, OwedIsCommitted
<1>2. ActiveReadIsCurrent'
  BY DEF ActiveReadIsCurrent
<1>3. DeniedIsEmpty' /\ SettledIsExecuted'
  BY DEF DeniedIsEmpty, SettledIsExecuted
<1>4. OldBoardIsLocked'
  BY DEF OldBoardIsLocked
<1>5. WarnedIsClosed'
  BY DEF WarnedIsClosed
<1>6. FormMatchesTheDay'
  BY DEF FormMatchesTheDay, Writable, ActiveValid, ProjectionReady, BoardMatches
<1> QED
  BY <1>1, <1>2, <1>3, <1>4, <1>5, <1>6

LEMMA LearnRefusalStep ==
    ASSUME BoardInv, BoardTypeOK', LearnRefusal
    PROVE  BoardInv'
<1> USE BoardAssumption DEF BoardInv, BoardTypeOK, LearnRefusal, ghosts,
     wanted, command, query, server, dialog
<1>1. BoardOfProperty' /\ OwedIsCommitted'
  BY DEF BoardOfProperty, OwedIsCommitted
<1>2. ActiveReadIsCurrent'
  BY DEF ActiveReadIsCurrent
<1>3. DeniedIsEmpty' /\ SettledIsExecuted'
  BY DEF DeniedIsEmpty, SettledIsExecuted
<1>4. OldBoardIsLocked'
  BY DEF OldBoardIsLocked
<1>5. WarnedIsClosed'
  BY DEF WarnedIsClosed
<1>6. FormMatchesTheDay'
  BY DEF FormMatchesTheDay, Writable, ActiveValid, ProjectionReady, BoardMatches
<1> QED
  BY <1>1, <1>2, <1>3, <1>4, <1>5, <1>6

LEMMA CloseDialogStep ==
    ASSUME BoardInv, BoardTypeOK', CloseDialog
    PROVE  BoardInv'
<1> USE BoardAssumption DEF BoardInv, BoardTypeOK, CloseDialog, ghosts,
     wanted, command, query, server, dialog
<1>1. BoardOfProperty' /\ OwedIsCommitted'
  BY DEF BoardOfProperty, OwedIsCommitted
<1>2. ActiveReadIsCurrent'
  BY DEF ActiveReadIsCurrent
<1>3. DeniedIsEmpty' /\ SettledIsExecuted'
  BY DEF DeniedIsEmpty, SettledIsExecuted
<1>4. OldBoardIsLocked'
  BY DEF OldBoardIsLocked
<1>5. WarnedIsClosed'
  BY DEF WarnedIsClosed
<1>6. FormMatchesTheDay'
  BY DEF FormMatchesTheDay, Writable, ActiveValid, ProjectionReady, BoardMatches
<1> QED
  BY <1>1, <1>2, <1>3, <1>4, <1>5, <1>6

LEMMA InvariantStep ==
    ASSUME BoardInv, [BoardNext]_boardVars
    PROVE  BoardInv'
<1>1. CASE UNCHANGED boardVars
  <2>1. BoardTypeOK'
    BY <1>1 DEF BoardInv, BoardTypeOK, boardVars, server, query, command, dialog,
         wanted, ghosts
  <2> QED
    BY <1>1, <2>1, BackgroundStep DEF boardVars, server, query, wanted
<1>2. CASE BoardNext
  <2>1. BoardTypeOK'
    BY <1>2, TypeStep DEF BoardInv
  <2>2. CASE QueryEffect
    BY <2>1, <2>2, QueryEffectStep
  <2>3. CASE RetryFires
    BY <2>1, <2>3, BackgroundStep DEF RetryFires, server, wanted
  <2>4. CASE Refresh
    BY <2>1, <2>4, BackgroundStep DEF Refresh, server, wanted
  <2>5. ASSUME NEW i \in Requests, AnswerRead(i) PROVE BoardInv'
    BY <2>1, <2>5, AnswerReadStep
  <2>6. ASSUME NEW i \in Requests, DropRead(i) PROVE BoardInv'
    BY <2>1, <2>6, DropReadStep
  <2>7. ASSUME NEW i \in Requests, BoardArrives(i) PROVE BoardInv'
    BY <2>1, <2>7, BoardArrivesStep
  <2>8. ASSUME NEW i \in Requests, BoardFails(i) PROVE BoardInv'
    BY <2>1, <2>8, BoardFailsStep
  <2>9. ASSUME NEW i \in Requests, CommittedRefreshEnds(i) PROVE BoardInv'
    BY <2>1, <2>9, CommittedRefreshEndsStep
  <2>10. CASE SyncStarts
    BY <2>1, <2>10, BackgroundStep DEF SyncStarts, server, wanted
  <2>11. CASE AnswerSync
    BY <2>1, <2>11, BackgroundStep DEF AnswerSync, server, wanted
  <2>12. CASE SyncArrives
    BY <2>1, <2>12, SyncArrivesStep
  <2>13. CASE SyncFails
    BY <2>1, <2>13, SyncFailsStep
  <2>14. ASSUME NEW k \in Keys, ChangeQuery(k) PROVE BoardInv'
    BY <2>1, <2>14, ChangeQueryStep
  <2>15. ASSUME NEW p \in Properties, SwitchProperty(p) PROVE BoardInv'
    BY <2>1, <2>15, SwitchPropertyStep
  <2>16. ASSUME NEW p \in Properties, Execute(p) PROVE BoardInv'
    BY <2>1, <2>16, ExecuteStep
  <2>17. ASSUME NEW p \in Properties, OtherCommits(p) PROVE BoardInv'
    BY <2>1, <2>17, OtherCommitsStep
  <2>18. CASE OpenForm
    BY <2>1, <2>18, OpenFormStep
  <2>19. CASE StartCommand
    BY <2>1, <2>19, StartCommandStep
  <2>20. CASE Preview
    BY <2>1, <2>20, PreviewStep
  <2>21. CASE Confirm
    BY <2>1, <2>21, ConfirmStep
  <2>22. CASE OpenRecovery
    BY <2>1, <2>22, OpenRecoveryStep
  <2>23. CASE LearnCommit
    BY <2>1, <2>23, LearnCommitStep
  <2>24. CASE LearnRefusal
    BY <2>1, <2>24, LearnRefusalStep
  <2>25. CASE CloseDialog
    BY <2>1, <2>25, CloseDialogStep
  <2>26. ASSUME NEW a \in Authorizations, Reauthorize(a) PROVE BoardInv'
    BY <2>1, <2>26, BackgroundStep DEF Reauthorize, query, wanted
  <2>27. CASE Midnight
    BY <2>1, <2>27, BackgroundStep DEF Midnight, query, wanted
  <2> QED
    BY <1>2, <2>2, <2>3, <2>4, <2>5, <2>6, <2>7, <2>8, <2>9, <2>10, <2>11, <2>12, <2>13,
         <2>14, <2>15, <2>16, <2>17, <2>18, <2>19, <2>20, <2>21, <2>22, <2>23, <2>24, <2>25,
         <2>26, <2>27 DEF BoardNext
<1> QED
  BY <1>1, <1>2

-----------------------------------------------------------------------------
(* Theorems. *)

(* The inductive invariant of the page: types, and what holds of the board, *)
(* the read that counts, the lock after a commit and the open command after *)
(* every effect, answer and event of InventoryPage.tsx.                     *)
THEOREM PageInvariant == BoardSpec => []BoardInv
<1>1. BoardInit => BoardInv
  <2> SUFFICES ASSUME BoardInit PROVE BoardInv
    OBVIOUS
  <2> USE DEF BoardInit
  <2>1. BoardTypeOK
    <3>1. revision \in [Properties -> 0..MaxRevision] /\ events \in 0..MaxEvents
      BY BoardAssumption
    <3>2. auth \in Authorizations /\ businessDate \in 0..1 /\ failures \in Nat
      BY DEF Authorizations
    <3> QED
      BY <3>1, <3>2 DEF BoardTypeOK
  <2>2. BoardOfProperty /\ ActiveReadIsCurrent /\ OwedIsCommitted
    BY <2>1 DEF BoardOfProperty, ActiveReadIsCurrent, OwedIsCommitted
  <2>3. DeniedIsEmpty /\ OldBoardIsLocked /\ SettledIsExecuted /\ WarnedIsClosed
    BY DEF DeniedIsEmpty, OldBoardIsLocked, SettledIsExecuted, WarnedIsClosed
  <2>4. FormMatchesTheDay
    BY DEF FormMatchesTheDay
  <2> QED
    BY <2>1, <2>2, <2>3, <2>4 DEF BoardInv
<1>2. BoardInv /\ [BoardNext]_boardVars => BoardInv'
  BY InvariantStep
<1> QED
  BY <1>1, <1>2, PTL DEF BoardSpec

(* No command is started or confirmed from a board that is older than the   *)
(* page's own commit, under an authorization that has changed, or for a     *)
(* form that is of another business date (commandWriteGate, focusAfter-     *)
(* NextBoard, boardWriteAdmitted).                                          *)
THEOREM PageStaysSafe == BoardSpec => []PageIsSafe
<1>1. BoardInv => PageIsSafe
  <2> SUFFICES ASSUME BoardInv PROVE PageIsSafe
    OBVIOUS
  <2>1. OwnCommitIsSeen
    <3> SUFFICES ASSUME ~StartBlocked PROVE board.revision >= owed[prop] \/ excused
      BY DEF OwnCommitIsSeen
    <3>1. board # Null /\ ~focusAfter /\ flights[prop] = "none"
      BY DEF StartBlocked, Writable, ActiveValid, ProjectionReady, BoardMatches
    <3>2. phase # "SETTLED"
      BY <3>1 DEF BoardInv, SettledIsExecuted
    <3>3. board.revision \in Nat /\ owed[prop] \in Nat
      BY <3>1 DEF BoardInv, BoardTypeOK, Boards, OwedIsCommitted
    <3> QED
      BY <3>1, <3>2, <3>3 DEF BoardInv, OldBoardIsLocked
  <2>2. ChangedAuthorizationCloses
    BY DEF BoardInv, WarnedIsClosed, ChangedAuthorizationCloses, Writable, CanConfirm,
         ActiveBlocked
  <2> QED
    BY <2>1, <2>2 DEF BoardInv, PageIsSafe
<1> QED
  BY <1>1, PageInvariant, PTL

(* No step replaces the board by an older one of the same property, and     *)
(* none but leaving the property opens a scope that was refused             *)
(* (RoomStatusQueryAttemptGuard, denyRoomStatusReadAccess).                 *)
THEOREM NothingGoesBack == BoardSpec => PageNeverGoesBack
<1>1. ASSUME BoardInv, BoardNext PROVE BoardGoesOn /\ DeniedStaysDenied
  <2>1. CASE UNCHANGED <<board, denied>>
    <3>1. board # Null => board.revision \in Nat
      BY <1>1 DEF BoardInv, BoardTypeOK, Boards
    <3> QED
      BY <2>1, <3>1 DEF BoardGoesOn, DeniedStaysDenied
  <2>2. CASE board' = Null /\ (denied' \/ prop' # prop)
    BY <2>2 DEF BoardGoesOn, DeniedStaysDenied
  <2>3. ASSUME NEW i \in Requests, BoardArrives(i) PROVE BoardGoesOn /\ DeniedStaysDenied
    <3>1. ~denied
      BY <1>1, <2>3, BoardAssumption DEF BoardInv, DeniedIsEmpty, BoardArrives, Counts
    <3>2. CASE board' = board
      <4>1. board # Null => board.revision \in Nat
        BY <1>1 DEF BoardInv, BoardTypeOK, Boards
      <4> QED
        BY <3>1, <3>2, <4>1 DEF BoardGoesOn, DeniedStaysDenied
    <3>3. CASE Install(reads[i])
      <4>1. board # Null => board.revision <= reads[i].answer.revision
        BY <1>1, <2>3, BoardAssumption DEF BoardInv, ActiveReadIsCurrent, BoardArrives,
             Counts
      <4>2. board # Null => board.revision \in Nat /\ reads[i].answer.revision \in Nat
        BY <1>1, <2>3 DEF BoardInv, BoardTypeOK, Boards, Reads, Answers, BoardArrives
      <4> QED
        BY <3>1, <3>3, <4>1, <4>2 DEF BoardGoesOn, DeniedStaysDenied, Install
    <3> QED
      BY <2>3, <3>2, <3>3 DEF BoardArrives
  <2>4. ASSUME NEW i \in Requests, CommittedRefreshEnds(i) PROVE BoardGoesOn /\ DeniedStaysDenied
    <3>1. denied' = denied
      BY <2>4 DEF CommittedRefreshEnds
    <3>2. CASE board' = board
      BY <2>1, <3>1, <3>2
    <3>3. CASE Install(reads[i]) /\ reads[i].answer.status = "ok" /\ ScopeIsCurrent(i)
      <4>1. board # Null => board.revision <= reads[i].answer.revision
        BY <1>1, <2>4, <3>3, BoardAssumption DEF BoardInv, ActiveReadIsCurrent,
             CommittedRefreshEnds, Counts, ScopeIsCurrent
      <4>2. board # Null => board.revision \in Nat /\ reads[i].answer.revision \in Nat
        BY <1>1, <2>4 DEF BoardInv, BoardTypeOK, Boards, Reads, Answers,
             CommittedRefreshEnds
      <4> QED
        BY <3>1, <3>3, <4>1, <4>2 DEF BoardGoesOn, DeniedStaysDenied, Install
    <3> QED
      BY <2>4, <3>2, <3>3 DEF CommittedRefreshEnds
  <2>5. ASSUME NEW i \in Requests, BoardFails(i) PROVE BoardGoesOn /\ DeniedStaysDenied
    BY <2>1, <2>2, <2>5 DEF BoardFails, Deny
  <2>6. CASE SyncFails
    BY <2>1, <2>2, <2>6 DEF SyncFails, Deny
  <2>7. ASSUME NEW p \in Properties, SwitchProperty(p) PROVE BoardGoesOn /\ DeniedStaysDenied
    BY <2>2, <2>7 DEF SwitchProperty
  <2> USE DEF query
  <2>8. CASE QueryEffect \/ RetryFires \/ Refresh \/ SyncStarts \/ AnswerSync \/ SyncArrives
    BY <2>1, <2>8 DEF QueryEffect, RetryFires, Refresh, SyncStarts, AnswerSync,
         SyncArrives
  <2>9. ASSUME NEW i \in Requests, AnswerRead(i) \/ DropRead(i) PROVE BoardGoesOn /\ DeniedStaysDenied
    BY <2>1, <2>9 DEF AnswerRead, DropRead
  <2>10. ASSUME NEW k \in Keys, ChangeQuery(k) PROVE BoardGoesOn /\ DeniedStaysDenied
    BY <2>1, <2>10 DEF ChangeQuery
  <2>11. ASSUME NEW p \in Properties, Execute(p) \/ OtherCommits(p)
         PROVE  BoardGoesOn /\ DeniedStaysDenied
    BY <2>1, <2>11 DEF Execute, OtherCommits
  <2>12. CASE OpenForm \/ StartCommand \/ Preview \/ Confirm \/ OpenRecovery \/ LearnCommit
              \/ LearnRefusal \/ CloseDialog \/ Midnight
    BY <2>1, <2>12 DEF OpenForm, StartCommand, Preview, Confirm, OpenRecovery,
         LearnCommit, LearnRefusal, CloseDialog, Midnight
  <2>13. ASSUME NEW a \in Authorizations, Reauthorize(a) PROVE BoardGoesOn /\ DeniedStaysDenied
    BY <2>1, <2>13 DEF Reauthorize
  <2> QED
    BY <1>1, <2>3, <2>4, <2>5, <2>6, <2>7, <2>8, <2>9, <2>10, <2>11, <2>12, <2>13 DEF
         BoardNext
<1>2. BoardInv /\ [BoardNext]_boardVars => [BoardGoesOn /\ DeniedStaysDenied]_boardVars
  BY <1>1
<1> QED
  BY <1>2, PageInvariant, PTL DEF BoardSpec, PageNeverGoesBack
=============================================================================
