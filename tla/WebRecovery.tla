---------------------------- MODULE WebRecovery ----------------------------
(***************************************************************************)
(* How the browser keeps track of a command whose result it does not know. *)
(*                                                                         *)
(* Each tab previews and confirms commands, or asks for quotes, of one     *)
(* subject and property.  Before a request leaves, a recovery record is    *)
(* written under the property's lock: in localStorage (shared, auth) and,  *)
(* as a mirror, in the tab's sessionStorage; a marker in localStorage      *)
(* remembers the last record.  While a record is there no tab may start    *)
(* another command; a record is dropped when the result is known.  Tabs    *)
(* are reloaded, closed, duplicated or killed in the middle of a write,    *)
(* answers are lost, and an uncertain command is settled by querying its   *)
(* original result.                                                        *)
(***************************************************************************)
EXTENDS Integers, FiniteSets

CONSTANTS
    Tabs,           \* browser tabs
    CommandKeys,    \* confirmation keys, one per attempt to confirm
    QuoteKeys,      \* idempotency keys of quote requests
    MaxAttempts,    \* bound: keys used, of commands and quotes
    MaxFaults,      \* bound: faults of the browser and the network
    None

Keys == CommandKeys \cup QuoteKeys

Slots == {"COMMAND", "QUOTE"}

SlotOf(k) == IF k \in CommandKeys THEN "COMMAND" ELSE "QUOTE"

(* The states of a command's record; a quote's record is SENDING (here     *)
(* CONFIRMING) or UNKNOWN.                                                  *)
Terminal == {"EXECUTED", "NOT_EXECUTED"}

PersistedCommandRecovery ==
    [key : Keys, state : {"CONFIRMING", "UNKNOWN"} \cup Terminal]

ASSUME RecoveryAssumption ==
    /\ MaxFaults \in Nat
    /\ CommandKeys \cap QuoteKeys = {}
    /\ None \notin Tabs \cup Keys \cup PersistedCommandRecovery

Kept == PersistedCommandRecovery \cup {None}

VARIABLES
    auth,       \* localStorage: the record of each slot
    marker,     \* localStorage: the coordination marker of each slot
    mirror,     \* sessionStorage of each tab
    lock,       \* the tab that holds the property's lock across a request
    dialog,     \* each tab's dialog: its phase, key and answer
    shell,      \* the state the command shell shows in each tab
    ledger,     \* the server: what became of each key
    faults      \* history: faults so far

vars == <<auth, marker, mirror, lock, dialog, shell, ledger, faults>>

storage == <<auth, marker, mirror>>

----------------------------------------------------------------------------
(* The shared recovery storage, one slot at a time: a is localStorage, m   *)
(* the marker and c the tab's mirror.                                       *)

serializedRecoveriesShareCommandIdentity(x, y) == x.key = y.key

Store(kind, a, m, c) == [kind |-> kind, auth |-> a, marker |-> m, mirror |-> c]

getItem(a, m, c) ==
    IF a # None
    THEN IF m # None /\ ~serializedRecoveriesShareCommandIdentity(a, m)
         THEN Store("CORRUPT", a, m, c)
         ELSE IF c # None /\ ~serializedRecoveriesShareCommandIdentity(a, c)
         THEN Store("READ_ERROR", a, m, c)
         ELSE Store("VALID", a, a, a)
    ELSE IF c = None THEN Store("ABSENT", a, m, c)
    ELSE IF m # None /\ serializedRecoveriesShareCommandIdentity(m, c)
         THEN Store("ABSENT", a, m, None)
         ELSE Store("VALID", c, c, c)

setItem(v, a, m, c) ==
    IF a # None /\ c # None /\ a # c
    THEN Store("READ_ERROR", a, m, c)
    ELSE Store("VALID", v, v, v)

removeItem(a, m, c) ==
    Store("ABSENT", None, a, IF a = None \/ c = a THEN None ELSE c)

Read(t, s) == getItem(auth[s], marker[s], mirror[t][s])

Write(v, r) == setItem(v, r.auth, r.marker, r.mirror)

Drop(r) == removeItem(r.auth, r.marker, r.mirror)

(* Tab t leaves the slots as st says.                                       *)
Stored(t, st) ==
    /\ auth' = [s \in Slots |-> st[s].auth]
    /\ marker' = [s \in Slots |-> st[s].marker]
    /\ mirror' = [mirror EXCEPT ![t] = [s \in Slots |-> st[s].mirror]]

ReadBoth(t) == [s \in Slots |-> Read(t, s)]

commandRecoverySnapshotIsBlocked(st) == \E s \in Slots : st[s].kind # "ABSENT"

transitionDroppingUnknown(r, k, answer) ==
    IF r.kind # "VALID" \/ r.auth.key # k \/ r.auth.state \in Terminal THEN r
    ELSE IF answer \in {"REFUSED", "UNKNOWN"} THEN Drop(r)
    ELSE Write([key |-> k, state |-> answer], r)

(* What progress makes of the record of a command. *)
transitionPersistedCommandRecovery(r, k, answer) ==
    IF r.kind # "VALID" \/ r.auth.key # k \/ r.auth.state \in Terminal THEN r
    ELSE IF answer = "REFUSED" THEN Drop(r)
    ELSE Write([key |-> k, state |-> answer], r)

(* What an answer makes of the record of a quote. *)
transitionQuoteRecovery(r, k, answer) ==
    IF r.kind # "VALID" \/ r.auth.key # k THEN r
    ELSE IF answer = "UNKNOWN" THEN Write([key |-> k, state |-> "UNKNOWN"], r)
    ELSE Drop(r)

clearAnyPersistedCommandRecovery(r) == IF r.kind = "VALID" THEN Drop(r) ELSE r

clearExecutedPersistedCommandRecovery(r) ==
    IF r.kind = "VALID" /\ r.auth.state = "EXECUTED" THEN Drop(r) ELSE r

(* The record is dropped only when it is terminal. *)
clearTerminalPersistedCommandRecoveryIfPresent(r) ==
    IF r.kind = "VALID" /\ r.auth.state \in Terminal THEN Drop(r) ELSE r

----------------------------------------------------------------------------
(* The command shell: the events each state accepts, and where they lead.  *)

allowedTransitions ==
    [AUTO_PREVIEWING  |-> {"PREVIEW_STARTED", "PREVIEW_READY", "NOT_EXECUTED",
                           "RETURN_TO_EDIT"},
     READY_TO_CONFIRM |-> {"RETURN_TO_EDIT", "PREVIEW_EXPIRED",
                           "CONFIRM_STARTED"},
     EDITING          |-> {"PREVIEW_STARTED"},
     PREVIEW_EXPIRED  |-> {"PREVIEW_STARTED", "RETURN_TO_EDIT"},
     CONFIRMING       |-> {"RESULT_UNKNOWN", "NOT_EXECUTED", "SUCCEEDED"},
     RESULT_UNKNOWN   |-> {"RESULT_UNKNOWN", "NOT_EXECUTED", "SUCCEEDED"},
     NOT_EXECUTED     |-> {"PREVIEW_STARTED", "RETURN_TO_EDIT"},
     SUCCEEDED        |-> {}]

ShellPhases == DOMAIN allowedTransitions

NextPhase ==
    [PREVIEW_STARTED |-> "AUTO_PREVIEWING", PREVIEW_READY |-> "READY_TO_CONFIRM",
     RETURN_TO_EDIT |-> "EDITING", PREVIEW_EXPIRED |-> "PREVIEW_EXPIRED",
     CONFIRM_STARTED |-> "CONFIRMING", RESULT_UNKNOWN |-> "RESULT_UNKNOWN",
     NOT_EXECUTED |-> "NOT_EXECUTED", SUCCEEDED |-> "SUCCEEDED"]

(* An event the state does not accept is ignored. *)
transitionCommandShell(current, event) ==
    IF event \in allowedTransitions[current] THEN NextPhase[event] ELSE current

applyShellEvent(t, event) ==
    shell' = [shell EXCEPT ![t] = transitionCommandShell(@, event)]

(* A dialog opens on a new command or on the key of one to recover. *)
initialCommandShellState(k) ==
    IF k = None THEN "AUTO_PREVIEWING" ELSE "RESULT_UNKNOWN"

----------------------------------------------------------------------------
Phases == {"idle", "previewing", "ready", "expired", "editing", "failed",
           "claiming", "claimed", "waiting", "answered", "uncertain",
           "querying", "closing"}

Answers == {"EXECUTED", "NOT_EXECUTED", "REFUSED", "UNKNOWN"}

Idle == [phase |-> "idle", key |-> None, answer |-> None, recovery |-> FALSE]

Init ==
    /\ auth = [s \in Slots |-> None]
    /\ marker = [s \in Slots |-> None]
    /\ mirror = [t \in Tabs |-> [s \in Slots |-> None]]
    /\ lock = None
    /\ dialog = [t \in Tabs |-> Idle]
    /\ shell = [t \in Tabs |-> "AUTO_PREVIEWING"]
    /\ ledger = [k \in Keys |-> "UNUSED"]
    /\ faults = 0

Phase(t) == dialog[t].phase

(* A new random key, never used before. *)
recoveryKey(K) == CHOOSE k \in K : ledger[k] = "UNUSED"

Fresh(K) ==
    /\ \E k \in K : ledger[k] = "UNUSED"
    /\ Cardinality({k \in Keys : ledger[k] # "UNUSED"}) < MaxAttempts

(* The attempt gets a new key and waits for the lock. *)
Attempt(t, K) ==
    /\ Fresh(K)
    /\ dialog' = [dialog EXCEPT ![t] = [Idle EXCEPT !.phase = "claiming",
                                                    !.key = recoveryKey(K)]]
    /\ ledger' = [ledger EXCEPT ![recoveryKey(K)] = "TAKEN"]
    /\ UNCHANGED <<storage, lock, shell, faults>>

To(t, p) == dialog' = [dialog EXCEPT ![t].phase = p]

Fault == faults < MaxFaults /\ faults' = faults + 1

----------------------------------------------------------------------------
(* Tab t runs its Preview request inside the property's lock, if neither a *)
(* command nor a quote of the property is open.                             *)
loadPreview(t) ==
    /\ Phase(t) \in {"idle", "editing", "failed", "expired"}
    /\ Fresh(CommandKeys)
    /\ lock = None
    /\ LET st == ReadBoth(t)
           start == IF Phase(t) = "idle" THEN initialCommandShellState(None)
                    ELSE transitionCommandShell(shell[t], "PREVIEW_STARTED")
       IN  /\ Stored(t, st)
           /\ IF commandRecoverySnapshotIsBlocked(st)
              THEN /\ To(t, "failed")
                   /\ shell' = [shell EXCEPT ![t] =
                           transitionCommandShell(start, "NOT_EXECUTED")]
                   /\ UNCHANGED lock
              ELSE /\ To(t, "previewing")
                   /\ shell' = [shell EXCEPT ![t] = start]
                   /\ lock' = t
    /\ UNCHANGED <<ledger, faults>>

(* The Preview's answer, and the end of the lock. *)
PreviewReturns(t) ==
    /\ Phase(t) = "previewing"
    /\ lock' = None
    /\ \/ To(t, "ready") /\ applyShellEvent(t, "PREVIEW_READY")
       \/ To(t, "failed") /\ applyShellEvent(t, "NOT_EXECUTED")
    /\ UNCHANGED <<storage, ledger, faults>>

(* The Preview shown runs out.  Only the shell is asked whether it still     *)
(* matters, and it is ready to confirm until the attempt is recorded: an     *)
(* attempt that waits for the lock, or is about to leave, goes on.           *)
PreviewExpires(t) ==
    /\ shell[t] = "READY_TO_CONFIRM"
    /\ IF Phase(t) = "ready" THEN To(t, "expired") ELSE UNCHANGED dialog
    /\ applyShellEvent(t, "PREVIEW_EXPIRED")
    /\ UNCHANGED <<storage, lock, ledger, faults>>

(* The user goes back to the form; the dialog stays open. *)
returnToEdit(t) ==
    /\ \/ Phase(t) \in {"ready", "expired", "failed"}
       \/ /\ Phase(t) = "closing" /\ dialog[t].answer = "NOT_EXECUTED"
          /\ ~dialog[t].recovery
    /\ dialog' = [dialog EXCEPT ![t] = [Idle EXCEPT !.phase = "editing"]]
    /\ shell' = [shell EXCEPT ![t] = "EDITING"]
    /\ UNCHANGED <<storage, lock, ledger, faults>>

(* The user confirms the Preview shown. *)
confirm(t) == Phase(t) = "ready" /\ Attempt(t, CommandKeys)

(* A page asks for a quote. *)
createQuote(t) == Phase(t) = "idle" /\ Attempt(t, QuoteKeys)

(* A request may be sent only when both slots are free. *)
MayClaim(st, s) == ~commandRecoverySnapshotIsBlocked(st)

(* Under the lock the attempt is recorded, or refused: a command's dialog  *)
(* returns to its Preview, which may have run out, a quote is dropped.      *)
Claim(t) ==
    /\ Phase(t) = "claiming"
    /\ lock = None
    /\ LET k == dialog[t].key
           s == SlotOf(k)
           st == ReadBoth(t)
           record == [key |-> k, state |-> "CONFIRMING"]
       IN  IF MayClaim(st, s)
           THEN /\ Stored(t, [st EXCEPT ![s] = Write(record, @)])
                /\ To(t, "claimed")
           ELSE /\ Stored(t, st)
                /\ dialog' = [dialog EXCEPT ![t] =
                       [Idle EXCEPT !.phase =
                           CASE s = "QUOTE" -> "idle"
                             [] shell[t] = "PREVIEW_EXPIRED" -> "expired"
                             [] OTHER -> "ready"]]
    /\ UNCHANGED <<lock, shell, ledger, faults>>

(* The tab is killed inside a claim's setItem: localStorage has the record *)
(* but neither the marker nor the mirror; or inside removeItem, and the     *)
(* mirror is left behind.                                                   *)
TornWrite(t) ==
    /\ Fault
    /\ lock = None
    /\ LET k == dialog[t].key
           s == SlotOf(k)
           st == ReadBoth(t)
           torn == [st[s] EXCEPT !.auth = [key |-> k, state |-> "CONFIRMING"]]
           cut == [Drop(st["COMMAND"]) EXCEPT !.mirror = st["COMMAND"].mirror]
       IN  \/ /\ Phase(t) = "claiming"
              /\ MayClaim(st, s)
              /\ Stored(t, [st EXCEPT ![s] = torn])
           \/ /\ Phase(t) = "closing"
              /\ st["COMMAND"].kind = "VALID"
              /\ st["COMMAND"].auth.state \in Terminal
              /\ Stored(t, [st EXCEPT !["COMMAND"] = cut])
    /\ dialog' = [dialog EXCEPT ![t] = Idle]
    /\ shell' = [shell EXCEPT ![t] = "AUTO_PREVIEWING"]
    /\ UNCHANGED <<lock, ledger>>

(* The request leaves once it is recorded; its key may have been settled   *)
(* meanwhile by a query from another tab.                                   *)
Send(t) ==
    /\ Phase(t) = "claimed"
    /\ To(t, "waiting")
    /\ ledger' = [ledger EXCEPT ![dialog[t].key] =
                      IF @ = "TAKEN" THEN "SENT" ELSE @]
    /\ IF SlotOf(dialog[t].key) = "COMMAND"
       THEN applyShellEvent(t, "CONFIRM_STARTED")
       ELSE UNCHANGED shell
    /\ UNCHANGED <<storage, lock, faults>>

(* The server decides a request that reaches it; it may also refuse it     *)
(* before it has any effect.                                                *)
Decide(k) ==
    /\ ledger[k] = "SENT"
    /\ \E o \in Terminal \cup {"REFUSED"} :
           ledger' = [ledger EXCEPT ![k] = o]
    /\ UNCHANGED <<storage, lock, dialog, shell, faults>>

(* The answer to the request itself, or the loss of it: a network error, a  *)
(* 5xx, a COMMAND_STATUS_UNKNOWN or a receipt without the evidence of the   *)
(* command requested.                                                       *)
Answered(t) ==
    /\ Phase(t) = "waiting"
    /\ LET o == ledger[dialog[t].key]
       IN  \/ /\ o # "SENT"
              /\ dialog' = [dialog EXCEPT ![t].phase = "answered",
                                          ![t].answer = o]
              /\ UNCHANGED faults
           \/ /\ Fault
              /\ dialog' = [dialog EXCEPT ![t].phase = "answered",
                                          ![t].answer = "UNKNOWN"]
    /\ UNCHANGED <<storage, lock, shell, ledger>>

(* The user, or for its own quote the page, asks for the original result   *)
(* of the record there is.  A dialog opened for it begins a shell of its    *)
(* own; one that sent the command itself keeps the shell it has.            *)
recover(t) ==
    /\ Phase(t) \in {"idle", "uncertain"}
    /\ LET st == ReadBoth(t)
           open == {st[s].auth : s \in {x \in Slots : st[x].kind = "VALID"}}
       IN  \E k \in IF Phase(t) = "uncertain" THEN {dialog[t].key}
                    ELSE {r.key : r \in open} :
              /\ dialog' = [dialog EXCEPT ![t] =
                     [phase |-> "querying", key |-> k, answer |-> None,
                      recovery |-> @.recovery \/ @.phase = "idle"]]
              /\ shell' = [shell EXCEPT ![t] =
                     IF Phase(t) = "idle" /\ k \in CommandKeys
                     THEN initialCommandShellState(k) ELSE @]
              /\ Stored(t, st)
    /\ UNCHANGED <<lock, ledger, faults>>

(* The server settles a key it has no result of as NOT_EXECUTED, unless it *)
(* is still processing it, and answers.                                     *)
Resolved(t) ==
    /\ Phase(t) = "querying"
    /\ LET k == dialog[t].key
       IN  \/ /\ ledger' = IF ledger[k] \in Terminal THEN ledger
                           ELSE [ledger EXCEPT ![k] = "NOT_EXECUTED"]
              /\ dialog' = [dialog EXCEPT ![t].phase = "answered",
                                          ![t].answer = ledger'[k]]
              /\ UNCHANGED faults
           \/ /\ Fault
              /\ UNCHANGED ledger
              /\ dialog' = [dialog EXCEPT ![t].phase = "answered",
                                          ![t].answer = "UNKNOWN"]
    /\ UNCHANGED <<storage, lock, shell>>

(* Under the lock the answer is recorded.  When the record cannot be read   *)
(* the command stays uncertain.                                             *)
recordPostSendProgress(t) ==
    /\ Phase(t) = "answered"
    /\ SlotOf(dialog[t].key) = "COMMAND"
    /\ lock = None
    /\ LET a == dialog[t].answer
           r == Read(t, "COMMAND")
           kept == r.kind \in {"CORRUPT", "READ_ERROR"}
           next == transitionPersistedCommandRecovery(r, dialog[t].key, a)
       IN  /\ Stored(t, [ReadBoth(t) EXCEPT !["COMMAND"] =
                             IF kept THEN r ELSE next])
           /\ IF kept \/ a = "UNKNOWN"
              THEN /\ To(t, "uncertain")
                   /\ applyShellEvent(t, "RESULT_UNKNOWN")
              ELSE IF a = "REFUSED"
              THEN /\ dialog' = [dialog EXCEPT ![t] =
                                     [Idle EXCEPT !.phase = "failed"]]
                   /\ applyShellEvent(t, "NOT_EXECUTED")
              ELSE /\ To(t, "closing")
                   /\ applyShellEvent(t, IF a = "EXECUTED" THEN "SUCCEEDED"
                                         ELSE "NOT_EXECUTED")
    /\ UNCHANGED <<lock, ledger, faults>>

(* The answer to a quote request, and to the query for a quote's original  *)
(* result: a quote that does not fit the room and dates shown keeps its      *)
(* record, and so does a failed query.                                      *)
QuoteReturns(t) ==
    /\ Phase(t) = "answered"
    /\ SlotOf(dialog[t].key) = "QUOTE"
    /\ lock = None
    /\ LET st == ReadBoth(t)
           next == transitionQuoteRecovery(st["QUOTE"], dialog[t].key,
                                           dialog[t].answer)
       IN  \/ Stored(t, [st EXCEPT !["QUOTE"] = next]) /\ UNCHANGED faults
           \/ dialog[t].recovery /\ Fault /\ Stored(t, st)
    /\ dialog' = [dialog EXCEPT ![t] = Idle]
    /\ UNCHANGED <<lock, shell, ledger>>

clearResolved(st) ==
    [st EXCEPT !["COMMAND"] = clearTerminalPersistedCommandRecoveryIfPresent(@)]

(* A dialog that waits for nothing is closed; a terminal record is dropped, *)
(* another one stays.                                                       *)
closeCommandDialog(t) ==
    /\ Phase(t) \in {"ready", "expired", "editing", "failed", "uncertain",
                     "closing"}
    /\ lock = None
    /\ Stored(t, clearResolved(ReadBoth(t)))
    /\ dialog' = [dialog EXCEPT ![t] = Idle]
    /\ shell' = [shell EXCEPT ![t] = "AUTO_PREVIEWING"]
    /\ UNCHANGED <<lock, ledger, faults>>

(* A page that is mounted reads the storage and drops a terminal record. *)
usePersistentCommandRecovery(t) ==
    /\ Phase(t) = "idle"
    /\ lock = None
    /\ Stored(t, clearResolved(ReadBoth(t)))
    /\ UNCHANGED <<lock, dialog, shell, ledger, faults>>

(* A storage event makes a tab read again, whatever it is doing. *)
refreshActiveSnapshot(t) ==
    /\ Stored(t, ReadBoth(t))
    /\ UNCHANGED <<lock, dialog, shell, ledger, faults>>

(* The user drops, after review, a record that cannot be read. *)
discardCorruptAfterReview(t) ==
    /\ Phase(t) = "idle"
    /\ lock = None
    /\ \E s \in Slots :
           /\ Read(t, s).kind = "CORRUPT"
           /\ Stored(t, [ReadBoth(t) EXCEPT ![s] = Drop(@)])
    /\ UNCHANGED <<lock, dialog, shell, ledger, faults>>

----------------------------------------------------------------------------
(* The dialog goes away, with the page or by a reload: its request is       *)
(* aborted, what was sent may still arrive, the mirror stays.               *)
Unmount(t) ==
    /\ Phase(t) # "idle"
    /\ Fault
    /\ dialog' = [dialog EXCEPT ![t] = Idle]
    /\ shell' = [shell EXCEPT ![t] = "AUTO_PREVIEWING"]
    /\ lock' = IF lock = t THEN None ELSE lock
    /\ UNCHANGED <<storage, ledger>>

(* The tab is closed and a new one opened, or another tab is duplicated,    *)
(* with its sessionStorage.  A tab that cannot read its records is always    *)
(* replaced in the end.                                                     *)
ReplaceTab(t) ==
    /\ Phase(t) = "idle"
    /\ \/ /\ \E s \in Slots : Read(t, s).kind = "READ_ERROR"
          /\ mirror' = [mirror EXCEPT ![t] = [s \in Slots |-> None]]
          /\ UNCHANGED faults
       \/ /\ Fault
          /\ \E u \in Tabs : mirror' = [mirror EXCEPT ![t] =
                 IF u = t THEN [s \in Slots |-> None] ELSE mirror[u]]
    /\ UNCHANGED <<auth, marker, lock, dialog, shell, ledger>>

Next ==
    \/ \E t \in Tabs :
           \/ loadPreview(t) \/ PreviewReturns(t) \/ PreviewExpires(t)
           \/ returnToEdit(t) \/ confirm(t) \/ createQuote(t)
           \/ Claim(t) \/ TornWrite(t) \/ Send(t) \/ Answered(t)
           \/ recover(t) \/ Resolved(t)
           \/ recordPostSendProgress(t) \/ QuoteReturns(t)
           \/ usePersistentCommandRecovery(t)
           \/ refreshActiveSnapshot(t) \/ discardCorruptAfterReview(t)
           \/ closeCommandDialog(t) \/ Unmount(t) \/ ReplaceTab(t)
    \/ \E k \in Keys : Decide(k)

Spec == Init /\ [][Next]_vars

(* The browser and the network go on, and a lock is granted in the order of *)
(* the requests for it.                                                     *)
Progress(t) ==
    \/ PreviewReturns(t) \/ Claim(t) \/ Send(t) \/ Answered(t) \/ Resolved(t)
    \/ recordPostSendProgress(t) \/ QuoteReturns(t)

(* The user goes on querying results, reviews a damaged record, replaces a  *)
(* tab that cannot read its records, and closes a dialog that gets nowhere. *)
Attend(t) == recover(t) \/ discardCorruptAfterReview(t) \/ ReplaceTab(t)

Fairness ==
    /\ \A k \in Keys : WF_vars(Decide(k))
    /\ \A t \in Tabs : /\ SF_vars(Progress(t))
                      /\ SF_vars(Attend(t))
                      /\ SF_vars(closeCommandDialog(t))

FairSpec == Spec /\ Fairness

----------------------------------------------------------------------------
(* Types of the storage, the tabs and the server's ledger. *)
TypeOK ==
    /\ auth \in [Slots -> Kept]
    /\ marker \in [Slots -> Kept]
    /\ mirror \in [Tabs -> [Slots -> Kept]]
    /\ lock \in Tabs \cup {None}
    /\ dialog \in [Tabs -> [phase : Phases, key : Keys \cup {None},
                            answer : Answers \cup {None}, recovery : BOOLEAN]]
    /\ shell \in [Tabs -> ShellPhases]
    /\ ledger \in [Keys -> Answers \cup {"UNUSED", "TAKEN", "SENT"}]
    /\ faults \in 0..MaxFaults

(* A request that has left and may still take effect has its record in      *)
(* localStorage, whatever tab was reloaded, closed, duplicated or killed.   *)
SentIsRecorded ==
    \A k \in Keys : ledger[k] = "SENT" =>
        LET r == auth[SlotOf(k)] IN r # None /\ r.key = k

(* At most one request of the property is open at the server, over all tabs *)
(* and over commands and quotes.                                            *)
OneOpenRequest == Cardinality({k \in Keys : ledger[k] = "SENT"}) <= 1

(* What the shell shows is what the dialog knows of its own command:       *)
(* that it is being sent, that its result is not known, or the result the  *)
(* server gave it.  There is one exception.  A Preview that runs out while *)
(* confirm() waits for the lock (ui.tsx 6649-6659, 6883-6910) makes the    *)
(* shell ignore every later event, although the command is sent: it shows  *)
(* an expired Preview to the end, of a command of this dialog only, never  *)
(* a wrong result and never an offer to confirm again.                     *)
ShellTellsTheResult ==
    \A t \in Tabs : dialog[t].key \in CommandKeys =>
        LET shows(p) == shell[t] = p \/ (shell[t] = "PREVIEW_EXPIRED"
                                           /\ ~dialog[t].recovery)
            result == ledger[dialog[t].key]
        IN  CASE Phase(t) = "waiting" -> shows("CONFIRMING")
              [] Phase(t) \in {"uncertain", "querying"} -> shows("RESULT_UNKNOWN")
              [] Phase(t) = "closing" ->
                     /\ result \in Terminal
                     /\ shows(IF result = "EXECUTED" THEN "SUCCEEDED"
                              ELSE "NOT_EXECUTED")
              [] OTHER -> TRUE

(* A record that was executed leaves localStorage only after a tab has      *)
(* recorded that result: no tab forgets a command the user was not told of. *)
ForgottenOnlyWhenKnown ==
    [][\A k \in CommandKeys :
          LET r == auth["COMMAND"] IN
          (/\ r # None /\ r.key = k /\ ledger[k] = "EXECUTED"
           /\ auth'["COMMAND"] # r /\ (auth'["COMMAND"] = None
                                         \/ auth'["COMMAND"].key # k))
          => r.state = "EXECUTED"]_vars

(* Again and again no record is left: no tab and no property stays blocked   *)
(* (commandRecovery.ts, ui.tsx).                                            *)
RecordsClose == []<>(\A s \in Slots : auth[s] = None)

(* The record in localStorage, the one open request and what the shell      *)
(* shows agree, over all tabs (ui.tsx, commandRecovery.ts).                 *)
RecoveryIsSound == SentIsRecorded /\ OneOpenRequest /\ ShellTellsTheResult
=============================================================================
