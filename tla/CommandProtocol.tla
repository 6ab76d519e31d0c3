-------------------------- MODULE CommandProtocol --------------------------
(***************************************************************************)
(* The two-stage command protocol of packages/db/src/commands/service.ts.  *)
(* A client asks for a Preview of a command, reads the effect it would     *)
(* have, and confirms that Preview under an idempotency key of its own.    *)
(* The handler that confirms re-checks everything inside one PostgreSQL    *)
(* transaction, applies the command, and leaves one durable receipt per    *)
(* key.  A client that lost the answer looks the receipt up, or resolves   *)
(* the key, which fences it so that a late confirmation cannot execute.    *)
(*                                                                         *)
(* Handlers interleave statement by statement.  What a handler holds (the  *)
(* advisory lock of its key, the Preview row, the business rows, the room  *)
(* catalog) follows from its program counter, and is released when its     *)
(* transaction or its connection ends.                                     *)
(***************************************************************************)
EXTENDS Integers, FiniteSets, Sequences

CONSTANTS
    Keys,           \* (subject, property, command type, Idempotency-Key) of confirmations
    Previews,       \* the same tuples for PREVIEW:<command type>; each names at most one Preview
    Bodies,         \* "match": confirmation.expectedEffectHash is the stored one; "mismatch"
    Commands,       \* normalized command envelopes
    Envelopes,      \* the commands that clients send under a preview key
    Requests,       \* concurrent HTTP requests, each on a connection of its own
    Resources,      \* business rows a command reads, locks and writes
    Catalog,        \* the room catalog of the property, read by every command
    Values,         \* contents of a resource
    LockIds,        \* 64-bit advisory lock numbers
    LockOf,         \* hashtextextended: Keys and Previews to LockIds, maybe not injective
    LockSeq,        \* the rows a command locks, in lockCommandResources order
    CatalogCommands,\* MANAGE_ROOM_CATALOG commands
    Target          \* the value a command leaves in the rows it writes

ASSUME ConstantsAssumption ==
    /\ Catalog \in Resources
    /\ Keys \cap Previews = {}
    /\ Bodies \subseteq {"match", "mismatch"}
    /\ Envelopes \in [Previews -> SUBSET Commands]
    /\ LockOf \in [Keys \cup Previews -> LockIds]
    /\ LockSeq \in [Commands -> Seq(Resources \ {Catalog})]
    /\ CatalogCommands \subseteq Commands
    /\ Target \in [Commands -> Values]

VARIABLES
    exec,           \* committed command_executions row with its receipt, per key
    preview,        \* committed command_previews row
    dom,            \* committed business state
    applied,        \* history: how often a Preview's command was committed
    pc,             \* where the handler of a request is
    call,           \* what the request asks for
    rows,           \* how many rows of LockSeq the handler has locked
    snap,           \* the REPEATABLE READ snapshot of a preview handler
    ans             \* the answer, or the error on its way to persistRejected

vars == <<exec, preview, dom, applied, pc, call, rows, snap, ans>>

-----------------------------------------------------------------------------
(* Rows, calls and answers. *)

NoCall == [op |-> "none"]
ConfirmCalls == [op : {"confirm"}, key : Keys, preview : Previews, body : Bodies]
PreviewCalls == [op : {"preview"}, preview : Previews, cmd : Commands]
ResolveCalls == [op : {"resolve"}, key : Keys]

(* request_hash of a confirmation, and the hash a resolution fences a key with. *)
RequestHash(r) == [preview |-> call[r].preview, body |-> call[r].body]
FenceHash == [fence |-> TRUE]
Hashes == [preview : Previews, body : Bodies] \cup {FenceHash}

NoExec == [status |-> "NONE"]
ExecRows == [status : {"EXECUTED", "NOT_EXECUTED"}, hash : Hashes]

(* The row with another status. *)
WithStatus(row, s) == [status |-> s, cmd |-> row.cmd, shown |-> row.shown, due |-> row.due]

Worlds == [Resources -> Values]
Effects == UNION {[S -> Values] : S \in SUBSET Resources}
NoSnap == [x \in {} |-> x]
NoPreview == [status |-> "NONE"]
PreviewRows == [status : {"OPEN", "USED", "EXPIRED"}, cmd : Commands,
                shown : Effects, due : BOOLEAN]

Error(code) == [kind |-> code]
Receipt(row) == [kind |-> "RECEIPT", row |-> row]
Codes == {"NONE", "UNKNOWN", "KEY_REUSED", "DENIED", "ERROR", "PREVIEWED",
          "PREVIEW_STALE", "PREVIEW_ALREADY_USED", "CONFIRMATION_MISMATCH",
          "COMMAND_INTERRUPTED"}
Answers == [kind : Codes] \cup [kind : {"RECEIPT"}, row : ExecRows]

(* The rows a command locks and writes, and what it reads on top of them. *)
RowsOf(c) == {LockSeq[c][i] : i \in 1..Len(LockSeq[c])}
Writes(c) == RowsOf(c) \cup (IF c \in CatalogCommands THEN {Catalog} ELSE {})
Reads(c) == RowsOf(c) \cup {Catalog}

(* buildCommandEffect: what the command would do to the state w, as shown   *)
(* to the operator; its hash is what the confirmation quotes.               *)
Effect(c, w) == [x \in Reads(c) |-> w[x]]
(* applyCommand on the state w. *)
Applied(c, w) == [x \in Resources |-> IF x \in Writes(c) THEN Target[c] ELSE w[x]]

-----------------------------------------------------------------------------
(* Locks. *)

InTx == {"fresh", "inserted", "claimed", "applied"}

HoldsKeyLock(r) ==
    pc[r] \in InTx \cup {"locked", "failed", "unlock", "p_locked", "p_built",
                         "r_locked", "r_fresh"}
LockName(r) == IF call[r].op = "preview" THEN call[r].preview ELSE call[r].key
LockId(r) == LockOf[LockName(r)]

HoldsPreviewRow(r) == pc[r] \in {"claimed", "applied"}
CommandOf(r) == preview[call[r].preview].cmd
HeldRows(r) ==
    IF HoldsPreviewRow(r)
    THEN {LockSeq[CommandOf(r)][i] : i \in 1..rows[r]}
    ELSE {}

(* pg_try_advisory_lock and pg_try_advisory_xact_lock succeed. *)
KeyLockFree(r) == \A s \in Requests \ {r} : HoldsKeyLock(s) => LockId(s) # LockId(r)

(* SELECT ... FOR UPDATE of the Preview row does not wait. *)
PreviewRowIgnored(r) == TRUE
PreviewRowFree(r) ==
    \A s \in Requests \ {r} :
        HoldsPreviewRow(s) => call[s].preview # call[r].preview

(* SELECT ... FOR UPDATE of a business row does not wait. *)
RowIgnored(r, x) == TRUE
RowFree(r, x) == \A s \in Requests \ {r} : x \notin HeldRows(s)

(* lockRoomCatalog: shared, or exclusive for MANAGE_ROOM_CATALOG. *)
HoldsCatalog(r) == pc[r] \in InTx
CatalogFree(r) ==
    \A s \in Requests \ {r} :
        HoldsCatalog(s) => /\ CommandOf(s) \notin CatalogCommands
                           /\ CommandOf(r) \notin CatalogCommands

(* A preview handler takes the shared lock of the property of its command. *)
CatalogReadable(r) ==
    \A s \in Requests \ {r} : HoldsCatalog(s) => CommandOf(s) \notin CatalogCommands

(* An insert with the same unique key waits for a pending one. *)
KeyInsertable(r) ==
    \A s \in Requests \ {r} :
        pc[s] \in {"inserted", "claimed", "applied"} => call[s].key # call[r].key

(* INSERT ... ON CONFLICT DO NOTHING of a key's row inserts it. *)
ConflictIgnored(k) == TRUE
NoConflict(k) == exec[k] = NoExec

-----------------------------------------------------------------------------
(* Steps shared by the handlers. *)

Goto(r, l) == pc' = [pc EXCEPT ![r] = l]

(* The work of the handler ends with answer a; a confirmation or a preview  *)
(* still holds its session lock, a resolution held a transaction lock.      *)
Finish(r, a) ==
    /\ Goto(r, IF call[r].op = "resolve" THEN "done" ELSE "unlock")
    /\ rows' = [rows EXCEPT ![r] = 0]
    /\ ans' = [ans EXCEPT ![r] = a]

(* The confirmation's transaction rolls back with an error that is recorded. *)
Fail(r, code) ==
    /\ Goto(r, "failed")
    /\ rows' = [rows EXCEPT ![r] = 0]
    /\ ans' = [ans EXCEPT ![r] = Error(code)]

(* replayOrConflict on an existing row: another request under this key is  *)
(* an error, which persistRejected then finds already taken and rethrows.  *)
ReplayAnyway(r) == Finish(r, Receipt(exec[call[r].key]))
ReplayOrConflict(r) ==
    IF exec[call[r].key].hash = RequestHash(r)
    THEN Finish(r, Receipt(exec[call[r].key]))
    ELSE Fail(r, "KEY_REUSED")

Init ==
    /\ exec = [k \in Keys |-> NoExec]
    /\ preview = [p \in Previews |-> NoPreview]
    /\ dom \in Worlds
    /\ applied = [p \in Previews |-> 0]
    /\ pc = [r \in Requests |-> "idle"]
    /\ call = [r \in Requests |-> NoCall]
    /\ rows = [r \in Requests |-> 0]
    /\ snap = [r \in Requests |-> NoSnap]
    /\ ans = [r \in Requests |-> Error("NONE")]

-----------------------------------------------------------------------------
(* createCommandPreview. *)

PreviewSend(r, p, c) ==
    /\ pc[r] = "idle"
    /\ Goto(r, "p_sent")
    /\ call' = [call EXCEPT ![r] = [op |-> "preview", preview |-> p, cmd |-> c]]
    /\ UNCHANGED <<exec, preview, dom, applied, rows, snap, ans>>

(* The transaction's snapshot is taken by its first statement, which waits  *)
(* for no catalog change.                                                   *)
PreviewBegin(r) ==
    /\ pc[r] = "p_locked"
    /\ Goto(r, "p_built")
    /\ snap' = [snap EXCEPT ![r] = dom]
    /\ UNCHANGED <<exec, preview, dom, applied, call, rows, ans>>

PreviewCommit(r) ==
    LET p == call[r].preview
        c == call[r].cmd
    IN  /\ pc[r] = "p_built"
        /\ CatalogReadable(r)
        /\ IF preview[p] = NoPreview
           THEN /\ preview' = [preview EXCEPT ![p] =
                      [status |-> "OPEN", cmd |-> c,
                       shown |-> Effect(c, snap[r]), due |-> FALSE]]
                /\ Finish(r, Error("PREVIEWED"))
           ELSE /\ Finish(r, Error(IF preview[p].cmd = c THEN "PREVIEWED" ELSE "KEY_REUSED"))
                /\ UNCHANGED preview
        /\ UNCHANGED <<exec, dom, applied, call, snap>>

(* expires_at passes. *)
PreviewDue(p) ==
    /\ preview[p].status = "OPEN"
    /\ ~preview[p].due
    /\ preview' = [preview EXCEPT ![p] =
           [status |-> "OPEN", cmd |-> @.cmd, shown |-> @.shown, due |-> TRUE]]
    /\ UNCHANGED <<exec, dom, applied, pc, call, rows, snap, ans>>

-----------------------------------------------------------------------------
(* withExecutionLock, for previews and confirmations: a key another request *)
(* is executing is answered COMMAND_STATUS_UNKNOWN.                         *)

TryLock(r) ==
    /\ pc[r] \in {"sent", "p_sent"}
    /\ IF KeyLockFree(r)
       THEN /\ Goto(r, IF pc[r] = "sent" THEN "locked" ELSE "p_locked")
            /\ UNCHANGED ans
       ELSE /\ Goto(r, "done")
            /\ ans' = [ans EXCEPT ![r] = Error("UNKNOWN")]
    /\ UNCHANGED <<exec, preview, dom, applied, call, rows, snap>>

-----------------------------------------------------------------------------
(* confirmCommandPreview. *)

(* A client confirms a Preview it was shown. *)
ConfirmSend(r, k, p, b) ==
    /\ pc[r] = "idle"
    /\ preview[p] # NoPreview
    /\ Goto(r, "sent")
    /\ call' = [call EXCEPT ![r] = [op |-> "confirm", key |-> k, preview |-> p, body |-> b]]
    /\ UNCHANGED <<exec, preview, dom, applied, rows, snap, ans>>

(* The transaction begins, takes the catalog lock and looks for a receipt. *)
ConfirmReplay(r) ==
    /\ pc[r] = "locked"
    /\ CatalogFree(r)
    /\ IF exec[call[r].key] = NoExec
       THEN Goto(r, "fresh") /\ UNCHANGED <<rows, ans>>
       ELSE ReplayOrConflict(r)
    /\ UNCHANGED <<exec, preview, dom, applied, call, snap>>

(* INSERT ... ON CONFLICT DO NOTHING of the EXECUTING row, which nobody     *)
(* else sees before the commit.                                             *)
ConfirmInsert(r) ==
    /\ pc[r] = "fresh"
    /\ KeyInsertable(r)
    /\ IF NoConflict(call[r].key)
       THEN Goto(r, "inserted") /\ UNCHANGED <<rows, ans>>
       ELSE ReplayOrConflict(r)
    /\ UNCHANGED <<exec, preview, dom, applied, call, snap>>

(* The Preview row, locked, is examined. *)
PreviewErrorIfDue(r) ==
    IF preview[call[r].preview].due THEN "PREVIEW_STALE"
    ELSE IF call[r].body = "mismatch" THEN "CONFIRMATION_MISMATCH" ELSE "NONE"
PreviewError(r) ==
    LET row == preview[call[r].preview]
    IN  IF row.status = "EXPIRED" \/ (row.status = "OPEN" /\ row.due) THEN "PREVIEW_STALE"
        ELSE IF row.status # "OPEN" THEN "PREVIEW_ALREADY_USED"
        ELSE IF call[r].body = "mismatch" THEN "CONFIRMATION_MISMATCH"
        ELSE "NONE"

ConfirmClaim(r) ==
    /\ pc[r] = "inserted"
    /\ PreviewRowFree(r)
    /\ IF PreviewError(r) = "NONE"
       THEN Goto(r, "claimed") /\ UNCHANGED <<rows, ans>>
       ELSE Fail(r, PreviewError(r))
    /\ UNCHANGED <<exec, preview, dom, applied, call, snap>>

(* lockCommandResources, one row at a time. *)
NextRow(r) == LockSeq[CommandOf(r)][rows[r] + 1]
ConfirmLockRow(r) ==
    /\ pc[r] = "claimed"
    /\ rows[r] < Len(LockSeq[CommandOf(r)])
    /\ RowFree(r, NextRow(r))
    /\ rows' = [rows EXCEPT ![r] = @ + 1]
    /\ UNCHANGED <<exec, preview, dom, applied, pc, call, snap, ans>>

(* rebuildAndApply: the effect is built again from the locked rows, and     *)
(* applied, uncommitted, if it is the one the Preview shows.                *)
EffectUnchanged(r) ==
    Effect(CommandOf(r), dom) = preview[call[r].preview].shown

ConfirmApply(r) ==
    /\ pc[r] = "claimed"
    /\ rows[r] = Len(LockSeq[CommandOf(r)])
    /\ IF EffectUnchanged(r)
       THEN Goto(r, "applied") /\ UNCHANGED <<rows, ans>>
       ELSE Fail(r, "PREVIEW_STALE")
    /\ UNCHANGED <<exec, preview, dom, applied, call, snap>>

(* Everything the transaction wrote becomes visible at once. *)
ConfirmCommit(r) ==
    LET p == call[r].preview
        row == [status |-> "EXECUTED", hash |-> RequestHash(r)]
    IN  /\ pc[r] = "applied"
        /\ dom' = Applied(CommandOf(r), dom)
        /\ applied' = [applied EXCEPT ![p] = @ + 1]
        /\ preview' = [preview EXCEPT ![p] = WithStatus(@, "USED")]
        /\ exec' = [exec EXCEPT ![call[r].key] = row]
        /\ Finish(r, Receipt(row))
        /\ UNCHANGED <<call, snap>>

(* persistRejected, in a transaction of its own on the locked connection:   *)
(* a stale Preview is closed and the key keeps a NOT_EXECUTED receipt.  A    *)
(* key that already has a row makes it throw the first error and roll back. *)
Stale(r) == ans[r] = Error("PREVIEW_STALE")
PersistRejected(r) ==
    LET p == call[r].preview
        k == call[r].key
        row == [status |-> "NOT_EXECUTED", hash |-> RequestHash(r)]
    IN  /\ pc[r] = "failed"
        /\ Stale(r) => PreviewRowFree(r)
        /\ KeyInsertable(r)
        /\ IF NoConflict(k)
           THEN /\ exec' = [exec EXCEPT ![k] = row]
                /\ preview' = IF Stale(r) /\ preview[p].status = "OPEN"
                              THEN [preview EXCEPT ![p] = WithStatus(@, "EXPIRED")]
                              ELSE preview
                /\ Finish(r, Receipt(row))
           ELSE Finish(r, ans[r]) /\ UNCHANGED <<exec, preview>>
        /\ UNCHANGED <<dom, applied, call, snap>>

-----------------------------------------------------------------------------
(* findCommandResult: a read-only lookup. *)

Visible(k) == IF exec[k] = NoExec THEN Error("UNKNOWN") ELSE Receipt(exec[k])

FindResult(r, k) ==
    /\ pc[r] = "idle"
    /\ Goto(r, "done")
    /\ call' = [call EXCEPT ![r] = [op |-> "resolve", key |-> k]]
    /\ ans' = [ans EXCEPT ![r] = Visible(k)]
    /\ UNCHANGED <<exec, preview, dom, applied, rows, snap>>

(* resolveCommandResult. *)

ResolveSend(r, k) ==
    /\ pc[r] = "idle"
    /\ Goto(r, "r_sent")
    /\ call' = [call EXCEPT ![r] = [op |-> "resolve", key |-> k]]
    /\ UNCHANGED <<exec, preview, dom, applied, rows, snap, ans>>

ResolveLock(r) ==
    /\ pc[r] = "r_sent"
    /\ IF KeyLockFree(r)
       THEN Goto(r, "r_locked") /\ UNCHANGED <<rows, ans>>
       ELSE Finish(r, Error("UNKNOWN"))
    /\ UNCHANGED <<exec, preview, dom, applied, call, snap>>

ResolveRead(r) ==
    /\ pc[r] = "r_locked"
    /\ IF exec[call[r].key] = NoExec
       THEN Goto(r, "r_fresh") /\ UNCHANGED <<rows, ans>>
       ELSE Finish(r, Visible(call[r].key))
    /\ UNCHANGED <<exec, preview, dom, applied, call, snap>>

ResolveFence(r) ==
    LET k == call[r].key
        row == [status |-> "NOT_EXECUTED", hash |-> FenceHash]
    IN  /\ pc[r] = "r_fresh"
        /\ KeyInsertable(r)
        /\ exec' = [exec EXCEPT ![k] = IF NoConflict(k) THEN row ELSE @]
        /\ Finish(r, Receipt(exec'[k]))
        /\ UNCHANGED <<preview, dom, applied, call, snap>>

-----------------------------------------------------------------------------
(* What can go wrong on the way. *)

Reset(r) ==
    /\ Goto(r, "idle")
    /\ call' = [call EXCEPT ![r] = NoCall]
    /\ rows' = [rows EXCEPT ![r] = 0]
    /\ ans' = [ans EXCEPT ![r] = Error("NONE")]
    /\ snap' = [snap EXCEPT ![r] = NoSnap]
    /\ UNCHANGED <<exec, preview, dom, applied>>

(* The session lock is released and the answer reaches the client. *)
ReplyUnlockingReceipts(r) ==
    (pc[r] = "done" \/ (pc[r] = "unlock" /\ ans[r].kind = "RECEIPT")) /\ Reset(r)
Reply(r) == pc[r] \in {"unlock", "done"} /\ Reset(r)

(* The request is lost, its process or connection dies: the transaction is  *)
(* rolled back and the locks fall away, or the answer never arrives.        *)
Crash(r) == pc[r] # "idle" /\ Reset(r)

(* authorizeCommandAccess, the token ceilings or the confirmation identity  *)
(* refuse the request; no receipt is written.                               *)
Deny(r) ==
    /\ pc[r] \in {"locked", "claimed", "p_locked", "r_sent", "r_fresh"}
    /\ Finish(r, Error("DENIED"))
    /\ UNCHANGED <<exec, preview, dom, applied, call, snap>>

(* A statement of a confirmation fails: a serialization failure, a lock     *)
(* timeout, a cancellation, a missing confirmation or reason, a domain      *)
(* error outside the stale list.                                            *)
Interrupt(r) ==
    /\ pc[r] \in InTx \cup {"locked"}
    /\ Fail(r, "COMMAND_INTERRUPTED")
    /\ UNCHANGED <<exec, preview, dom, applied, call, snap>>

(* The same in a preview, a resolution or persistRejected: no receipt. *)
Abort(r) ==
    /\ pc[r] \in {"p_built", "r_locked", "failed"}
    /\ Finish(r, Error("ERROR"))
    /\ UNCHANGED <<exec, preview, dom, applied, call, snap>>

(* PostgreSQL aborts one of the transactions that wait for each other. *)
WaitsFor(r, s) ==
    /\ pc[r] = "claimed"
    /\ rows[r] < Len(LockSeq[CommandOf(r)])
    /\ NextRow(r) \in HeldRows(s)
WaitCycle(S) ==
    /\ S # {}
    /\ \A r \in S : \E s \in S \ {r} : WaitsFor(r, s)
    /\ \A s \in S : \E r \in S \ {s} : WaitsFor(r, s)
DeadlockVictim(r) ==
    /\ \E S \in SUBSET Requests : r \in S /\ WaitCycle(S)
    /\ Fail(r, "COMMAND_INTERRUPTED")
    /\ UNCHANGED <<exec, preview, dom, applied, call, snap>>

-----------------------------------------------------------------------------
Step(r) ==
    \/ PreviewBegin(r) \/ PreviewCommit(r) \/ TryLock(r)
    \/ ConfirmReplay(r) \/ ConfirmInsert(r) \/ ConfirmClaim(r)
    \/ ConfirmLockRow(r) \/ ConfirmApply(r) \/ ConfirmCommit(r)
    \/ PersistRejected(r)
    \/ ResolveLock(r) \/ ResolveRead(r) \/ ResolveFence(r)
    \/ DeadlockVictim(r) \/ Reply(r)

Client(r) ==
    \/ \E p \in Previews : \E c \in Envelopes[p] : PreviewSend(r, p, c)
    \/ \E k \in Keys, p \in Previews, b \in Bodies : ConfirmSend(r, k, p, b)
    \/ \E k \in Keys : FindResult(r, k) \/ ResolveSend(r, k)

Fault(r) == Crash(r) \/ Deny(r) \/ Interrupt(r) \/ Abort(r)

Next ==
    \/ \E r \in Requests : Step(r) \/ Client(r) \/ Fault(r)
    \/ \E p \in Previews : PreviewDue(p)

Spec == Init /\ [][Next]_vars

(* Every handler keeps running, and a handler that waits for a row is not  *)
(* overtaken forever: PostgreSQL queues lock waiters and aborts a deadlock. *)
Fairness == \A r \in Requests : SF_vars(Step(r))
FairSpec == Spec /\ Fairness

-----------------------------------------------------------------------------
(* Properties. *)

(* Receipts, Previews and the calls and answers of the handlers keep the    *)
(* shapes the tables and the responses have.                                *)
TypeOK ==
    /\ exec \in [Keys -> ExecRows \cup {NoExec}]
    /\ preview \in [Previews -> PreviewRows \cup {NoPreview}]
    /\ dom \in Worlds
    /\ applied \in [Previews -> Nat]
    /\ pc \in [Requests -> {"idle", "sent", "locked", "fresh", "inserted", "claimed",
                            "applied", "failed", "unlock", "done", "p_sent", "p_locked",
                            "p_built", "r_sent", "r_locked", "r_fresh"}]
    /\ call \in [Requests -> ConfirmCalls \cup PreviewCalls \cup ResolveCalls \cup {NoCall}]
    /\ rows \in [Requests -> Nat]
    /\ snap \in [Requests -> Worlds \cup {NoSnap}]
    /\ ans \in [Requests -> Answers]

Executed(k, p) ==
    exec[k].status = "EXECUTED" /\ exec[k].hash.preview = p

(* A Preview's command is committed at most once, whatever keys, retries,  *)
(* resolutions and crashes surround it; it was committed exactly when one   *)
(* key, and one only, keeps an EXECUTED receipt of it, and exactly when the *)
(* Preview is USED.                                                         *)
OneReceiptPerEffect ==
    \A p \in Previews :
        /\ applied[p] = Cardinality({k \in Keys : Executed(k, p)})
        /\ applied[p] <= 1
        /\ (applied[p] = 1) <=> (preview[p].status = "USED")

(* A receipt on its way to a client is the durable receipt of its key, and  *)
(* one that answers a confirmation is about that very confirmation.         *)
AnswersAreDurable ==
    \A r \in Requests :
        ans[r].kind = "RECEIPT" =>
            /\ exec[call[r].key] = ans[r].row
            /\ call[r].op = "confirm" => ans[r].row.hash = RequestHash(r)

(* Receipts are final: no step changes the row of a key once it exists, so  *)
(* a key a resolution has fenced never executes, and a USED or EXPIRED      *)
(* Preview never opens again.                                               *)
DecidedForever ==
    [][/\ \A k \in Keys : exec[k] # NoExec => exec'[k] = exec[k]
       /\ \A p \in Previews :
            preview[p].status \in {"USED", "EXPIRED"} => preview'[p] = preview[p]]_vars

(* The state a command is committed in shows the operator the effect that   *)
(* was confirmed: nothing that the effect depends on changes between the    *)
(* check in rebuildAndApply and the commit.                                 *)
ShownIsApplied ==
    [][\A p \in Previews : applied'[p] # applied[p] =>
            /\ preview[p].status = "OPEN"
            /\ Effect(preview[p].cmd, dom) = preview[p].shown
            /\ dom' = Applied(preview[p].cmd, dom)]_vars

(* Every request is answered, unless its connection dies, also when         *)
(* handlers wait for each other's rows.                                     *)
EveryRequestEnds == \A r \in Requests : []<>(pc[r] = "idle")

(* The ledger's view of a key and of a Preview. *)
OutcomeOf(k) ==
    IF exec[k].status = "EXECUTED" THEN exec[k].hash.preview
    ELSE IF exec[k].status = "NOT_EXECUTED" THEN "rejected" ELSE "undecided"
OfferOf(p) ==
    IF preview[p] = NoPreview THEN NoPreview
    ELSE [cmd |-> preview[p].cmd, shown |-> preview[p].shown]
Ledger == INSTANCE CommandLedger WITH
    outcome <- [k \in Keys |-> OutcomeOf(k)],
    offer <- [p \in Previews |-> OfferOf(p)],
    effects <- applied,
    world <- dom

(* Seen through its receipts, its Previews and the business state, the      *)
(* protocol is the atomic ledger of CommandLedger.                          *)
ImplementsLedger == Ledger!Spec
=============================================================================
