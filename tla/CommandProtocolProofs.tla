----------------------- MODULE CommandProtocolProofs -----------------------
(***************************************************************************)
(* Proofs about CommandProtocol for every set of keys, Previews, commands, *)
(* requests and resources, every lock order and every advisory-lock hash.  *)
(***************************************************************************)
EXTENDS CommandProtocol, FiniteSetTheorems, TLAPS

ConfirmPcs == InTx \cup {"sent", "locked", "failed"}
PreviewPcs == {"p_sent", "p_locked", "p_built"}
ResolvePcs == {"r_sent", "r_locked", "r_fresh"}

(* A handler at a given place works on a call of the right kind, and a      *)
(* confirmation is of a Preview that exists.                                *)
CallFits(r) ==
    /\ pc[r] \in ConfirmPcs =>
           /\ call[r] \in ConfirmCalls
           /\ preview[call[r].preview] # NoPreview
    /\ pc[r] \in PreviewPcs => call[r] \in PreviewCalls
    /\ pc[r] \in ResolvePcs => call[r] \in ResolveCalls
    /\ pc[r] = "unlock" => call[r] \in ConfirmCalls \cup PreviewCalls
    /\ pc[r] = "done" => call[r] # NoCall
    /\ pc[r] = "idle" => call[r] = NoCall
    /\ pc[r] = "p_built" => snap[r] \in Worlds

CallsFit == \A r \in Requests : CallFits(r)
Fits == TypeOK /\ CallsFit

(* What a handler holds, nobody else holds. *)
KeyLocksExclude ==
    \A r, s \in Requests :
        r # s /\ HoldsKeyLock(r) /\ HoldsKeyLock(s) => LockId(r) # LockId(s)
PreviewRowsExclude ==
    \A r, s \in Requests :
        r # s /\ HoldsPreviewRow(r) /\ HoldsPreviewRow(s) => call[r].preview # call[s].preview
RowsExclude ==
    \A r, s \in Requests : r # s => HeldRows(r) \cap HeldRows(s) = {}
CatalogExcludes ==
    \A r, s \in Requests :
        r # s /\ HoldsCatalog(r) /\ HoldsCatalog(s) => CommandOf(r) \notin CatalogCommands

Locks == KeyLocksExclude /\ PreviewRowsExclude /\ RowsExclude /\ CatalogExcludes

(* What a handler has read inside its locks is still so. *)
StillTrue(r) ==
    /\ pc[r] \in InTx \cup {"r_fresh"} => exec[call[r].key] = NoExec
    /\ HoldsPreviewRow(r) => preview[call[r].preview].status = "OPEN"
    /\ HoldsPreviewRow(r) => rows[r] \in 0..Len(LockSeq[CommandOf(r)])
    /\ ~HoldsPreviewRow(r) => rows[r] = 0
    /\ pc[r] = "applied" => rows[r] = Len(LockSeq[CommandOf(r)]) /\ EffectUnchanged(r)
ReadsStillTrue == \A r \in Requests : StillTrue(r)

(* One effect, one used Preview, one EXECUTED receipt. *)
EffectsAccounted ==
    /\ \A p \in Previews :
           /\ applied[p] \in {0, 1}
           /\ (applied[p] = 1) <=> (preview[p].status = "USED")
           /\ (applied[p] = 1) <=> \E k \in Keys : Executed(k, p)
    /\ \A p \in Previews : \A k, l \in Keys : Executed(k, p) /\ Executed(l, p) => k = l

(* A receipt answers a confirmation, a lookup or a resolution. *)
ReceiptsFit ==
    \A r \in Requests :
        ans[r].kind = "RECEIPT" =>
            pc[r] \in {"unlock", "done"} /\ call[r] \in ConfirmCalls \cup ResolveCalls

ProtocolInv ==
    /\ Fits
    /\ Locks
    /\ ReadsStillTrue
    /\ EffectsAccounted
    /\ ReceiptsFit
    /\ AnswersAreDurable

-----------------------------------------------------------------------------
USE DEF InTx, ConfirmPcs, PreviewPcs, ResolvePcs, NoConflict

Pcs == ConfirmPcs \cup PreviewPcs \cup ResolvePcs \cup {"idle", "unlock", "done"}

(* The type of a Preview's effect. *)
LEMMA EffectType ==
    ASSUME NEW c \in Commands, NEW w \in Worlds
    PROVE  Effect(c, w) \in Effects
<1>1. \A i \in 1..Len(LockSeq[c]) : LockSeq[c][i] \in Resources
  BY ConstantsAssumption
<1>2. Reads(c) \in SUBSET Resources
  BY <1>1, ConstantsAssumption DEF Reads, RowsOf
<1>3. Effect(c, w) \in [Reads(c) -> Values]
  BY <1>2 DEF Effect, Worlds
<1> QED
  BY <1>2, <1>3 DEF Effects

(* A command leaves a well-formed business state. *)
LEMMA AppliedType ==
    ASSUME NEW c \in Commands, NEW w \in Worlds
    PROVE  Applied(c, w) \in Worlds
BY ConstantsAssumption DEF Applied, Worlds

LEMMA FitsInit == Init => Fits
<1> SUFFICES ASSUME Init PROVE Fits
  OBVIOUS
<1>1. TypeOK
  BY DEF Init, TypeOK, Error, Answers, Codes
<1>2. CallsFit
  BY DEF Init, CallsFit, CallFits
<1> QED
  BY <1>1, <1>2 DEF Fits

(* A step of one request that leaves the tables alone. *)
LEMMA FitsLocal ==
    ASSUME Fits, NEW r \in Requests, NEW l \in Pcs,
           NEW n \in Nat, NEW a \in Answers,
           pc' = [pc EXCEPT ![r] = l],
           rows' = [rows EXCEPT ![r] = n],
           ans' = [ans EXCEPT ![r] = a],
           UNCHANGED <<exec, preview, dom, applied, call, snap>>,
           l \in ConfirmPcs => call[r] \in ConfirmCalls /\ preview[call[r].preview] # NoPreview,
           l \in PreviewPcs => call[r] \in PreviewCalls,
           l \in ResolvePcs => call[r] \in ResolveCalls,
           l = "unlock" => call[r] \in ConfirmCalls \cup PreviewCalls,
           l = "done" => call[r] # NoCall,
           l # "idle",
           l = "p_built" => snap[r] \in Worlds
    PROVE  Fits'
<1>1. TypeOK'
  BY DEF Fits, TypeOK, Pcs
<1>2. CallsFit'
  BY DEF Fits, TypeOK, CallsFit, CallFits
<1> QED
  BY <1>1, <1>2 DEF Fits

(* A step of one request that may change a key's row, close or create      *)
(* Previews and change the business state.                                 *)
LEMMA FitsCommit ==
    ASSUME Fits, NEW r \in Requests, NEW l \in {"unlock", "done"}, NEW a \in Answers,
           pc' = [pc EXCEPT ![r] = l],
           rows' = [rows EXCEPT ![r] = 0],
           ans' = [ans EXCEPT ![r] = a],
           UNCHANGED <<call, snap>>,
           call[r] # NoCall,
           l = "unlock" => call[r] \in ConfirmCalls \cup PreviewCalls,
           exec' \in [Keys -> ExecRows \cup {NoExec}],
           preview' \in [Previews -> PreviewRows \cup {NoPreview}],
           dom' \in Worlds,
           applied' \in [Previews -> Nat],
           \A p \in Previews : preview[p] # NoPreview => preview'[p] # NoPreview
    PROVE  Fits'
<1>1. TypeOK'
  BY DEF Fits, TypeOK
<1>2. CallsFit'
  BY DEF Fits, TypeOK, CallsFit, CallFits, ConfirmCalls
<1> QED
  BY <1>1, <1>2 DEF Fits

LEMMA FitsSend ==
    ASSUME Fits, NEW r \in Requests, pc[r] = "idle"
    PROVE  /\ \A p \in Previews, c \in Commands : PreviewSend(r, p, c) => Fits'
           /\ \A k \in Keys, p \in Previews, b \in Bodies : ConfirmSend(r, k, p, b) => Fits'
           /\ \A k \in Keys : FindResult(r, k) => Fits'
           /\ \A k \in Keys : ResolveSend(r, k) => Fits'
<1>1. ASSUME NEW p \in Previews, NEW c \in Commands, PreviewSend(r, p, c) PROVE Fits'
  <2>1. TypeOK'
    BY <1>1 DEF PreviewSend, Goto, Fits, TypeOK, PreviewCalls
  <2>2. CallsFit'
    BY <1>1 DEF PreviewSend, Goto, Fits, TypeOK, CallsFit, CallFits, PreviewCalls
  <2> QED
    BY <2>1, <2>2 DEF Fits
<1>2. ASSUME NEW k \in Keys, NEW p \in Previews, NEW b \in Bodies, ConfirmSend(r, k, p, b)
      PROVE  Fits'
  <2>1. TypeOK'
    BY <1>2 DEF ConfirmSend, Goto, Fits, TypeOK, ConfirmCalls
  <2>2. CallsFit'
    BY <1>2 DEF ConfirmSend, Goto, Fits, TypeOK, CallsFit, CallFits, ConfirmCalls
  <2> QED
    BY <2>1, <2>2 DEF Fits
<1>3. ASSUME NEW k \in Keys, FindResult(r, k) PROVE Fits'
  <2>1. Visible(k) \in Answers
    BY DEF Visible, Error, Receipt, Answers, Codes, Fits, TypeOK
  <2>2. TypeOK'
    BY <1>3, <2>1 DEF FindResult, Goto, Fits, TypeOK, ResolveCalls
  <2>3. CallsFit'
    BY <1>3 DEF FindResult, Goto, Fits, TypeOK, CallsFit, CallFits, ResolveCalls, NoCall
  <2> QED
    BY <2>2, <2>3 DEF Fits
<1>4. ASSUME NEW k \in Keys, ResolveSend(r, k) PROVE Fits'
  <2>1. TypeOK'
    BY <1>4 DEF ResolveSend, Goto, Fits, TypeOK, ResolveCalls
  <2>2. CallsFit'
    BY <1>4 DEF ResolveSend, Goto, Fits, TypeOK, CallsFit, CallFits, ResolveCalls
  <2> QED
    BY <2>1, <2>2 DEF Fits
<1> QED
  BY <1>1, <1>2, <1>3, <1>4

(* The kinds of call are told apart by their op. *)
LEMMA CallKinds ==
    /\ \A x \in ConfirmCalls : x # NoCall /\ x.op = "confirm" /\ x.key \in Keys /\ x.preview \in Previews
                              /\ x.body \in Bodies
    /\ \A x \in PreviewCalls : x # NoCall /\ x.op = "preview" /\ x.preview \in Previews /\ x.cmd \in Commands
    /\ \A x \in ResolveCalls : x # NoCall /\ x.op = "resolve" /\ x.key \in Keys
BY DEF ConfirmCalls, PreviewCalls, ResolveCalls, NoCall

(* A row of a key, once read, answers. *)
LEMMA AnswerTypes ==
    /\ \A c \in Codes : Error(c) \in Answers
    /\ \A x \in ExecRows : Receipt(x) \in Answers
BY DEF Error, Receipt, Answers

(* The rows of a confirmation's own request. *)
LEMMA OwnRows ==
    ASSUME NEW r \in Requests, call[r] \in ConfirmCalls
    PROVE  /\ RequestHash(r) \in Hashes
           /\ [status |-> "EXECUTED", hash |-> RequestHash(r)] \in ExecRows
           /\ [status |-> "NOT_EXECUTED", hash |-> RequestHash(r)] \in ExecRows
BY CallKinds DEF RequestHash, Hashes, ExecRows

LEMMA FitsStep ==
    ASSUME Fits, NEW r \in Requests, Step(r) \/ Fault(r)
    PROVE  Fits'
<1> USE CallKinds, AnswerTypes DEF Goto, Finish, Fail, WithStatus
<1>1. CASE PreviewBegin(r)
  <2>1. TypeOK'
    BY <1>1 DEF PreviewBegin, Fits, TypeOK
  <2>2. CallsFit'
    BY <1>1 DEF PreviewBegin, Fits, TypeOK, CallsFit, CallFits
  <2> QED
    BY <2>1, <2>2 DEF Fits
<1>2. CASE PreviewCommit(r)
  <2> DEFINE p == call[r].preview
             c == call[r].cmd
             row == [status |-> "OPEN", cmd |-> c, shown |-> Effect(c, snap[r]), due |-> FALSE]
  <2>1. call[r] \in PreviewCalls /\ snap[r] \in Worlds
    BY <1>2 DEF PreviewCommit, Fits, CallsFit, CallFits
  <2>2. row \in PreviewRows
    BY <2>1, EffectType DEF PreviewRows
  <2>3. preview' \in [Previews -> PreviewRows \cup {NoPreview}]
    BY <1>2, <2>2 DEF PreviewCommit, Fits, TypeOK
  <2>4. \A q \in Previews : preview[q] # NoPreview => preview'[q] # NoPreview
    BY <1>2, <2>2 DEF PreviewCommit, Fits, TypeOK, PreviewRows, NoPreview
  <2>5. \E a \in Answers : ans' = [ans EXCEPT ![r] = a]
    BY <1>2 DEF PreviewCommit, Codes
  <2> QED
    BY <1>2, <2>1, <2>3, <2>4, <2>5, FitsCommit DEF PreviewCommit, Fits, TypeOK
<1>3. CASE TryLock(r)
  BY <1>3, FitsLocal DEF TryLock, Fits, TypeOK, CallsFit, CallFits, Codes, Pcs
<1>4. CASE ConfirmReplay(r)
  <2>1. call[r] \in ConfirmCalls /\ preview[call[r].preview] # NoPreview
    BY <1>4 DEF ConfirmReplay, Fits, CallsFit, CallFits
  <2>2. CASE exec[call[r].key] = NoExec
    BY <1>4, <2>1, <2>2, FitsLocal DEF ConfirmReplay, Fits, TypeOK, Pcs
  <2>3. CASE exec[call[r].key] # NoExec
    BY <1>4, <2>1, <2>3, FitsLocal DEF ConfirmReplay, ReplayOrConflict, Fits, TypeOK, Codes, Pcs
  <2> QED
    BY <2>2, <2>3
<1>5. CASE ConfirmInsert(r)
  <2>1. call[r] \in ConfirmCalls /\ preview[call[r].preview] # NoPreview
    BY <1>5 DEF ConfirmInsert, Fits, CallsFit, CallFits
  <2>2. CASE exec[call[r].key] = NoExec
    BY <1>5, <2>1, <2>2, FitsLocal DEF ConfirmInsert, Fits, TypeOK, Pcs
  <2>3. CASE exec[call[r].key] # NoExec
    BY <1>5, <2>1, <2>3, FitsLocal DEF ConfirmInsert, ReplayOrConflict, Fits, TypeOK, Codes, Pcs
  <2> QED
    BY <2>2, <2>3
<1>6. CASE ConfirmClaim(r)
  <2>1. PreviewError(r) \in Codes
    BY DEF PreviewError, Codes
  <2> QED
    BY <1>6, <2>1, FitsLocal, SMTT(60) DEF ConfirmClaim, Fits, TypeOK, CallsFit, CallFits, Pcs
<1>7. CASE ConfirmLockRow(r)
  BY <1>7, FitsLocal, SMTT(60) DEF ConfirmLockRow, Fits, TypeOK, CallsFit, CallFits, Pcs
<1>8. CASE ConfirmApply(r)
  <2>1. call[r] \in ConfirmCalls /\ preview[call[r].preview] # NoPreview
    BY <1>8 DEF ConfirmApply, Fits, CallsFit, CallFits
  <2>2. CASE EffectUnchanged(r)
    BY <1>8, <2>1, <2>2, FitsLocal DEF ConfirmApply, Fits, TypeOK, Pcs
  <2>3. CASE ~EffectUnchanged(r)
    <3>1. Error("PREVIEW_STALE") \in Answers /\ 0 \in Nat /\ "failed" \in Pcs
      BY DEF Codes, Pcs
    <3>2. /\ pc' = [pc EXCEPT ![r] = "failed"]
          /\ rows' = [rows EXCEPT ![r] = 0]
          /\ ans' = [ans EXCEPT ![r] = Error("PREVIEW_STALE")]
          /\ UNCHANGED <<exec, preview, dom, applied, call, snap>>
      BY <1>8, <2>3 DEF ConfirmApply
    <3> QED
      BY <2>1, <3>1, <3>2, FitsLocal
  <2> QED
    BY <2>2, <2>3
<1>9. CASE ConfirmCommit(r)
  <2>1. call[r] \in ConfirmCalls /\ preview[call[r].preview] \in PreviewRows
    BY <1>9 DEF ConfirmCommit, Fits, TypeOK, CallsFit, CallFits
  <2>2. CommandOf(r) \in Commands
    BY <2>1 DEF CommandOf, PreviewRows
  <2>3. dom' \in Worlds
    BY <1>9, <2>2, AppliedType DEF ConfirmCommit, Fits, TypeOK
  <2>4. exec' \in [Keys -> ExecRows \cup {NoExec}]
    BY <1>9, <2>1, OwnRows DEF ConfirmCommit, Fits, TypeOK
  <2>5. preview' \in [Previews -> PreviewRows \cup {NoPreview}]
    BY <1>9, <2>1 DEF ConfirmCommit, Fits, TypeOK, PreviewRows
  <2>6. \A q \in Previews : preview[q] # NoPreview => preview'[q] # NoPreview
    BY <1>9, <2>1 DEF ConfirmCommit, Fits, TypeOK, PreviewRows, NoPreview
  <2>7. applied' \in [Previews -> Nat]
    BY <1>9, <2>1 DEF ConfirmCommit, Fits, TypeOK
  <2> QED
    BY <1>9, <2>1, <2>3, <2>4, <2>5, <2>6, <2>7, OwnRows, FitsCommit DEF ConfirmCommit
<1>10. CASE PersistRejected(r)
  <2>1. call[r] \in ConfirmCalls /\ preview[call[r].preview] \in PreviewRows
    BY <1>10 DEF PersistRejected, Fits, TypeOK, CallsFit, CallFits
  <2>2. exec' \in [Keys -> ExecRows \cup {NoExec}]
    BY <1>10, <2>1, OwnRows, ZenonT(60) DEF PersistRejected, Fits, TypeOK, ConfirmCalls
  <2>3. preview' \in [Previews -> PreviewRows \cup {NoPreview}]
    BY <1>10, <2>1 DEF PersistRejected, Fits, TypeOK, PreviewRows
  <2>4. \A q \in Previews : preview[q] # NoPreview => preview'[q] # NoPreview
    BY <1>10, <2>1 DEF PersistRejected, Fits, TypeOK, PreviewRows, NoPreview
  <2>5. \E a \in Answers : ans' = [ans EXCEPT ![r] = a]
    BY <1>10, <2>1, OwnRows DEF PersistRejected, Fits, TypeOK
  <2> QED
    BY <1>10, <2>1, <2>2, <2>3, <2>4, <2>5, FitsCommit DEF PersistRejected, Fits, TypeOK
<1>11. CASE ResolveLock(r)
  BY <1>11, FitsLocal, SMTT(30) DEF ResolveLock, Fits, TypeOK, CallsFit, CallFits, Codes, Pcs
<1>12. CASE ResolveRead(r)
  <2>1. call[r] \in ResolveCalls
    BY <1>12 DEF ResolveRead, Fits, CallsFit, CallFits
  <2>2. CASE exec[call[r].key] = NoExec
    BY <1>12, <2>1, <2>2, FitsLocal DEF ResolveRead, Fits, TypeOK, Pcs
  <2>3. CASE exec[call[r].key] # NoExec
    BY <1>12, <2>1, <2>3, FitsLocal DEF ResolveRead, Visible, Fits, TypeOK, Pcs
  <2> QED
    BY <2>2, <2>3
<1>13. CASE ResolveFence(r)
  <2>1. call[r] \in ResolveCalls
    BY <1>13 DEF ResolveFence, Fits, CallsFit, CallFits
  <2>2. [status |-> "NOT_EXECUTED", hash |-> FenceHash] \in ExecRows
    BY DEF ExecRows, Hashes
  <2>3. exec' \in [Keys -> ExecRows \cup {NoExec}] /\ exec'[call[r].key] \in ExecRows
    BY <1>13, <2>1, <2>2 DEF ResolveFence, Fits, TypeOK
  <2> QED
    BY <1>13, <2>1, <2>3, FitsCommit DEF ResolveFence, Fits, TypeOK
<1>14. CASE DeadlockVictim(r)
  <2>1. pc[r] = "claimed"
    BY <1>14 DEF DeadlockVictim, WaitCycle, WaitsFor
  <2> QED
    BY <1>14, <2>1, FitsLocal DEF DeadlockVictim, Fits, TypeOK, CallsFit, CallFits, Codes, Pcs
<1>15. CASE Reply(r) \/ Crash(r)
  <2>1. Reset(r)
    BY <1>15 DEF Reply, Crash
  <2>2. TypeOK'
    BY <2>1 DEF Reset, Fits, TypeOK, Codes
  <2>3. CallsFit'
    BY <2>1 DEF Reset, Fits, TypeOK, CallsFit, CallFits
  <2> QED
    BY <2>2, <2>3 DEF Fits
<1>16. CASE Deny(r)
  BY <1>16, FitsLocal DEF Deny, Fits, TypeOK, CallsFit, CallFits, Codes, Pcs
<1>17. CASE Interrupt(r)
  BY <1>17, FitsLocal DEF Interrupt, Fits, TypeOK, CallsFit, CallFits, Codes, Pcs
<1>18. CASE Abort(r)
  BY <1>18, FitsLocal DEF Abort, Fits, TypeOK, CallsFit, CallFits, Codes, Pcs
<1> QED
  BY <1>1, <1>2, <1>3, <1>4, <1>5, <1>6, <1>7, <1>8, <1>9, <1>10, <1>11, <1>12, <1>13,
     <1>14, <1>15, <1>16, <1>17, <1>18 DEF Step, Fault

LEMMA FitsNext == Fits /\ [Next]_vars => Fits'
<1> SUFFICES ASSUME Fits, [Next]_vars PROVE Fits'
  OBVIOUS
<1>1. ASSUME NEW r \in Requests, Step(r) \/ Fault(r) PROVE Fits'
  BY <1>1, FitsStep
<1>2. ASSUME NEW r \in Requests, Client(r) PROVE Fits'
  <2>1. pc[r] = "idle"
    BY <1>2 DEF Client, PreviewSend, ConfirmSend, FindResult, ResolveSend
  <2>2. \A p \in Previews : Envelopes[p] \subseteq Commands
    BY ConstantsAssumption
  <2> QED
    BY <1>2, <2>1, <2>2, FitsSend DEF Client
<1>3. ASSUME NEW p \in Previews, PreviewDue(p) PROVE Fits'
  <2>1. preview[p] \in PreviewRows
    BY <1>3 DEF PreviewDue, Fits, TypeOK, NoPreview
  <2>2. preview' \in [Previews -> PreviewRows \cup {NoPreview}]
    BY <1>3, <2>1 DEF PreviewDue, Fits, TypeOK, PreviewRows
  <2>3. preview'[p] # NoPreview
    BY <1>3, <2>1 DEF PreviewDue, Fits, TypeOK, PreviewRows, NoPreview
  <2>4. TypeOK'
    BY <1>3, <2>2 DEF PreviewDue, Fits, TypeOK
  <2>5. CallsFit'
    BY <1>3, <2>3 DEF PreviewDue, Fits, TypeOK, CallsFit, CallFits, ConfirmCalls
  <2> QED
    BY <2>4, <2>5 DEF Fits
<1>4. CASE UNCHANGED vars
  BY <1>4 DEF vars, Fits, TypeOK, CallsFit, CallFits
<1> QED
  BY <1>1, <1>2, <1>3, <1>4 DEF Next

(* The tables of the protocol keep their types, and every handler works on  *)
(* a call of its own kind, for every instance.                              *)
THEOREM TypeCorrect == Spec => []TypeOK
<1>1. Init => Fits
  BY FitsInit
<1>2. Fits /\ [Next]_vars => Fits'
  BY FitsNext
<1>3. Fits => TypeOK
  BY DEF Fits
<1> QED
  BY <1>1, <1>2, <1>3, PTL DEF Spec

-----------------------------------------------------------------------------
(* Which step does what. *)

Act(r) == Step(r) \/ Fault(r) \/ Client(r)

(* A step of one request leaves what belongs to the others alone. *)
LEMMA OthersStay ==
    ASSUME Fits, NEW r \in Requests, Act(r), NEW s \in Requests, s # r
    PROVE  pc'[s] = pc[s] /\ call'[s] = call[s] /\ rows'[s] = rows[s] /\ ans'[s] = ans[s]
<1> USE DEF Fits, TypeOK, Goto, Finish, Fail, ReplayOrConflict, Reset
<1>1. CASE Step(r)
  BY <1>1 DEF Step, PreviewBegin, PreviewCommit, TryLock, ConfirmReplay, ConfirmInsert, ConfirmClaim,
     ConfirmLockRow, ConfirmApply, ConfirmCommit, PersistRejected, ResolveLock, ResolveRead,
     ResolveFence, DeadlockVictim, Reply
<1>2. CASE Fault(r)
  BY <1>2 DEF Fault, Crash, Deny, Interrupt, Abort
<1>3. CASE Client(r)
  BY <1>3 DEF Client, PreviewSend, ConfirmSend, FindResult, ResolveSend
<1> QED
  BY <1>1, <1>2, <1>3 DEF Act

(* How a request moves, and under which guard it comes to hold a lock. *)
LEMMA OwnMoves ==
    ASSUME Fits, NEW r \in Requests, Act(r)
    PROVE  /\ HoldsKeyLock(r)' => call'[r] = call[r] /\ (HoldsKeyLock(r) \/ KeyLockFree(r))
           /\ HoldsCatalog(r)' => call'[r] = call[r] /\ (HoldsCatalog(r) \/ (CatalogFree(r) /\ pc[r] = "locked"))
           /\ HoldsPreviewRow(r)' => /\ call'[r] = call[r]
                                     /\ \/ HoldsPreviewRow(r)
                                        \/ PreviewRowFree(r) /\ pc[r] = "inserted" /\ rows'[r] = rows[r]
           /\ HoldsPreviewRow(r)' /\ rows'[r] # rows[r] =>
                  /\ pc[r] = "claimed" /\ pc'[r] = "claimed"
                  /\ rows[r] < Len(LockSeq[CommandOf(r)])
                  /\ RowFree(r, NextRow(r))
                  /\ rows'[r] = rows[r] + 1
           /\ ~HoldsPreviewRow(r)' => rows'[r] = 0 \/ (rows'[r] = rows[r] /\ ~HoldsPreviewRow(r))
<1> USE DEF Fits, TypeOK, Goto, Finish, Fail, ReplayOrConflict, Reset, HoldsKeyLock, HoldsCatalog,
            HoldsPreviewRow
<1>1. CASE Step(r)
  <2>1. CASE PreviewBegin(r)
    BY <2>1 DEF PreviewBegin
  <2>2. CASE PreviewCommit(r)
    BY <2>2 DEF PreviewCommit
  <2>3. CASE TryLock(r)
    BY <2>3 DEF TryLock
  <2>4. CASE ConfirmReplay(r)
    BY <2>4 DEF ConfirmReplay
  <2>5. CASE ConfirmInsert(r)
    BY <2>5 DEF ConfirmInsert
  <2>6. CASE ConfirmClaim(r)
    BY <2>6 DEF ConfirmClaim
  <2>7. CASE ConfirmLockRow(r)
    BY <2>7 DEF ConfirmLockRow
  <2>8. CASE ConfirmApply(r)
    BY <2>8 DEF ConfirmApply
  <2>9. CASE ConfirmCommit(r)
    BY <2>9 DEF ConfirmCommit
  <2>10. CASE PersistRejected(r)
    BY <2>10 DEF PersistRejected
  <2>11. CASE ResolveLock(r)
    BY <2>11, CallKinds DEF ResolveLock, CallsFit, CallFits
  <2>12. CASE ResolveRead(r)
    BY <2>12 DEF ResolveRead
  <2>13. CASE ResolveFence(r)
    BY <2>13 DEF ResolveFence
  <2>14. CASE DeadlockVictim(r)
    BY <2>14 DEF DeadlockVictim, WaitCycle, WaitsFor
  <2>15. CASE Reply(r)
    BY <2>15 DEF Reply
  <2> QED
    BY <1>1, <2>1, <2>2, <2>3, <2>4, <2>5, <2>6, <2>7, <2>8, <2>9, <2>10, <2>11, <2>12, <2>13, <2>14, <2>15 DEF Step
<1>2. CASE Fault(r)
  <2>1. CASE Crash(r)
    BY <2>1 DEF Crash
  <2>2. CASE Deny(r)
    BY <2>2, CallKinds DEF Deny, CallsFit, CallFits
  <2>3. CASE Interrupt(r)
    BY <2>3 DEF Interrupt
  <2>4. CASE Abort(r)
    BY <2>4 DEF Abort
  <2> QED
    BY <1>2, <2>1, <2>2, <2>3, <2>4 DEF Fault
<1>3. CASE Client(r)
  BY <1>3 DEF Client, PreviewSend, ConfirmSend, FindResult, ResolveSend
<1> QED
  BY <1>1, <1>2, <1>3 DEF Act

(* A Preview that exists keeps the command and the effect it shows. *)
LEMMA PreviewsKeep ==
    ASSUME Fits, NEW r \in Requests, Act(r), NEW p \in Previews, preview[p] # NoPreview
    PROVE  /\ preview'[p] # NoPreview
           /\ preview'[p].cmd = preview[p].cmd
           /\ preview'[p].shown = preview[p].shown
<1> USE DEF Fits, TypeOK, WithStatus, NoPreview, PreviewRows
<1>1. CASE Step(r)
  <2>1. CASE PreviewBegin(r)
    BY <2>1 DEF PreviewBegin
  <2>2. CASE PreviewCommit(r)
    BY <2>2 DEF PreviewCommit
  <2>3. CASE TryLock(r)
    BY <2>3 DEF TryLock
  <2>4. CASE ConfirmReplay(r)
    BY <2>4 DEF ConfirmReplay
  <2>5. CASE ConfirmInsert(r)
    BY <2>5 DEF ConfirmInsert
  <2>6. CASE ConfirmClaim(r)
    BY <2>6 DEF ConfirmClaim
  <2>7. CASE ConfirmLockRow(r)
    BY <2>7 DEF ConfirmLockRow
  <2>8. CASE ConfirmApply(r)
    BY <2>8 DEF ConfirmApply
  <2>9. CASE ConfirmCommit(r)
    BY <2>9 DEF ConfirmCommit
  <2>10. CASE PersistRejected(r)
    BY <2>10 DEF PersistRejected
  <2>11. CASE ResolveLock(r)
    BY <2>11 DEF ResolveLock
  <2>12. CASE ResolveRead(r)
    BY <2>12 DEF ResolveRead
  <2>13. CASE ResolveFence(r)
    BY <2>13 DEF ResolveFence
  <2>14. CASE DeadlockVictim(r)
    BY <2>14 DEF DeadlockVictim
  <2>15. CASE Reply(r)
    BY <2>15 DEF Reply, Reset
  <2> QED
    BY <1>1, <2>1, <2>2, <2>3, <2>4, <2>5, <2>6, <2>7, <2>8, <2>9, <2>10, <2>11, <2>12, <2>13, <2>14, <2>15 DEF Step
<1>2. CASE Fault(r)
  BY <1>2 DEF Fault, Crash, Deny, Interrupt, Abort, Reset
<1>3. CASE Client(r)
  BY <1>3 DEF Client, PreviewSend, ConfirmSend, FindResult, ResolveSend
<1> QED
  BY <1>1, <1>2, <1>3 DEF Act

-----------------------------------------------------------------------------
(* Locks exclude. *)

(* A confirmation's command stays the one its Preview was made for. *)
LEMMA CommandsKeep ==
    ASSUME Fits, NEW r \in Requests, Act(r), NEW s \in Requests,
           call'[s] = call[s], pc[s] \in ConfirmPcs
    PROVE  CommandOf(s)' = CommandOf(s)
<1>1. call[s].preview \in Previews /\ preview[call[s].preview] # NoPreview
  BY CallKinds DEF Fits, CallsFit, CallFits
<1>2. preview'[call[s].preview].cmd = preview[call[s].preview].cmd
  BY <1>1, PreviewsKeep
<1> QED
  BY <1>2 DEF CommandOf

LEMMA KeyLocksAct ==
    ASSUME Fits, KeyLocksExclude, NEW r \in Requests, Act(r)
    PROVE  KeyLocksExclude'
<1> SUFFICES ASSUME NEW s \in Requests, NEW t \in Requests, s # t, HoldsKeyLock(s)', HoldsKeyLock(t)'
             PROVE  LockId(s)' # LockId(t)'
  BY DEF KeyLocksExclude
<1>1. \A x \in {s, t} : LockId(x)' = LockId(x)
  BY OthersStay, OwnMoves DEF LockId, LockName
<1>2. \A x \in {s, t} : x # r => HoldsKeyLock(x)
  BY OthersStay DEF HoldsKeyLock
<1>3. HoldsKeyLock(r)' => HoldsKeyLock(r) \/ KeyLockFree(r)
  BY OwnMoves
<1> QED
  BY <1>1, <1>2, <1>3 DEF KeyLocksExclude, KeyLockFree

LEMMA PreviewRowsAct ==
    ASSUME Fits, PreviewRowsExclude, NEW r \in Requests, Act(r)
    PROVE  PreviewRowsExclude'
<1> SUFFICES ASSUME NEW s \in Requests, NEW t \in Requests, s # t,
                    HoldsPreviewRow(s)', HoldsPreviewRow(t)'
             PROVE  call'[s].preview # call'[t].preview
  BY DEF PreviewRowsExclude
<1>1. \A x \in {s, t} : call'[x] = call[x]
  BY OthersStay, OwnMoves
<1>2. \A x \in {s, t} : x # r => HoldsPreviewRow(x)
  BY OthersStay DEF HoldsPreviewRow
<1>3. HoldsPreviewRow(r)' => HoldsPreviewRow(r) \/ PreviewRowFree(r)
  BY OwnMoves
<1> QED
  BY <1>1, <1>2, <1>3 DEF PreviewRowsExclude, PreviewRowFree

LEMMA CatalogAct ==
    ASSUME Fits, CatalogExcludes, NEW r \in Requests, Act(r)
    PROVE  CatalogExcludes'
<1> SUFFICES ASSUME NEW s \in Requests, NEW t \in Requests, s # t,
                    HoldsCatalog(s)', HoldsCatalog(t)'
             PROVE  CommandOf(s)' \notin CatalogCommands
  BY DEF CatalogExcludes
<1>1. \A x \in {s, t} : call'[x] = call[x]
  BY OthersStay, OwnMoves
<1>2. \A x \in {s, t} : x # r => HoldsCatalog(x)
  BY OthersStay DEF HoldsCatalog
<1>3. HoldsCatalog(r)' => HoldsCatalog(r) \/ (CatalogFree(r) /\ pc[r] = "locked")
  BY OwnMoves
<1>4. CommandOf(s)' = CommandOf(s)
  BY <1>1, <1>2, <1>3, CommandsKeep DEF HoldsCatalog
<1> QED
  BY <1>2, <1>3, <1>4 DEF CatalogExcludes, CatalogFree

(* The rows another request holds stay the same; those of the request that *)
(* moves grow by a row nobody else holds, or shrink.                       *)
LEMMA OthersRows ==
    ASSUME Fits, NEW r \in Requests, Act(r), NEW s \in Requests, s # r
    PROVE  HeldRows(s)' = HeldRows(s)
<1>1. HoldsPreviewRow(s)' <=> HoldsPreviewRow(s)
  BY OthersStay DEF HoldsPreviewRow
<1>2. ASSUME HoldsPreviewRow(s) PROVE CommandOf(s)' = CommandOf(s)
  BY <1>2, OthersStay, CommandsKeep DEF HoldsPreviewRow
<1> QED
  BY <1>1, <1>2, OthersStay DEF HeldRows

LEMMA OwnRowsGrow ==
    ASSUME Fits, ReadsStillTrue, NEW r \in Requests, Act(r), NEW x, x \in HeldRows(r)'
    PROVE  x \in HeldRows(r) \/ RowFree(r, x)
<1>1. HoldsPreviewRow(r)' /\ call'[r] = call[r] /\ pc[r] \in ConfirmPcs
  BY OwnMoves DEF HeldRows, HoldsPreviewRow
<1>2. CommandOf(r)' = CommandOf(r)
  BY <1>1, CommandsKeep
<1>3. PICK i \in 1..rows'[r] : x = LockSeq[CommandOf(r)][i]
  BY <1>1, <1>2 DEF HeldRows
<1>4. CASE rows'[r] = rows[r]
  <2>1. rows[r] # 0
    BY <1>3, <1>4
  <2>2. HoldsPreviewRow(r)
    BY <2>1 DEF ReadsStillTrue, StillTrue
  <2> QED
    BY <1>3, <1>4, <2>2 DEF HeldRows
<1>5. CASE rows'[r] # rows[r]
  <2>1. pc[r] = "claimed" /\ RowFree(r, NextRow(r)) /\ rows'[r] = rows[r] + 1
    BY <1>1, <1>5, OwnMoves
  <2>2. rows[r] \in Nat
    BY DEF Fits, TypeOK
  <2>3. i \in 1..rows[r] \/ i = rows[r] + 1
    BY <1>3, <2>1, <2>2
  <2> QED
    BY <1>3, <2>1, <2>3 DEF HeldRows, HoldsPreviewRow, NextRow
<1> QED
  BY <1>4, <1>5

LEMMA RowsAct ==
    ASSUME Fits, ReadsStillTrue, RowsExclude, NEW r \in Requests, Act(r)
    PROVE  RowsExclude'
<1> SUFFICES ASSUME NEW s \in Requests, NEW t \in Requests, s # t,
                    NEW x, x \in HeldRows(s)', x \in HeldRows(t)'
             PROVE  FALSE
  BY DEF RowsExclude
<1>1. CASE s # r /\ t # r
  BY <1>1, OthersRows DEF RowsExclude
<1>2. CASE s = r
  BY <1>2, OthersRows, OwnRowsGrow DEF RowsExclude, RowFree
<1>3. CASE t = r
  BY <1>3, OthersRows, OwnRowsGrow DEF RowsExclude, RowFree
<1> QED
  BY <1>1, <1>2, <1>3

LEMMA LocksAct ==
    ASSUME Fits, ReadsStillTrue, Locks, NEW r \in Requests, Act(r)
    PROVE  Locks'
BY KeyLocksAct, PreviewRowsAct, RowsAct, CatalogAct DEF Locks

-----------------------------------------------------------------------------
(* What is read under the locks stays true. *)

(* Only a request that holds the key's lock decides the key. *)
LEMMA WhoDecides ==
    ASSUME Fits, NEW r \in Requests, Act(r), NEW k \in Keys, exec'[k] # exec[k]
    PROVE  /\ HoldsKeyLock(r) /\ k = call[r].key
           /\ call[r] \in ConfirmCalls \cup ResolveCalls
           /\ \/ ConfirmCommit(r) /\ pc[r] = "applied"
              \/ (PersistRejected(r) \/ ResolveFence(r)) /\ exec[k] = NoExec
                 /\ exec'[k].status = "NOT_EXECUTED"
<1> USE DEF Fits, TypeOK, Reset, CallsFit, CallFits, HoldsKeyLock
<1>1. CASE ConfirmCommit(r)
  BY <1>1 DEF ConfirmCommit
<1>2. CASE PersistRejected(r)
  BY <1>2 DEF PersistRejected
<1>3. CASE ResolveFence(r)
  BY <1>3 DEF ResolveFence
<1>4. CASE exec' = exec
  BY <1>4
<1>5. ASSUME Step(r), ~ConfirmCommit(r), ~PersistRejected(r), ~ResolveFence(r) PROVE exec' = exec
  BY <1>5 DEF Step, PreviewBegin, PreviewCommit, TryLock, ConfirmReplay, ConfirmInsert, ConfirmClaim,
     ConfirmLockRow, ConfirmApply, ResolveLock, ResolveRead, DeadlockVictim, Reply
<1>6. ASSUME Fault(r) PROVE exec' = exec
  BY <1>6 DEF Fault, Crash, Deny, Interrupt, Abort
<1>7. ASSUME Client(r) PROVE exec' = exec
  BY <1>7 DEF Client, PreviewSend, ConfirmSend, FindResult, ResolveSend
<1> QED
  BY <1>1, <1>2, <1>3, <1>4, <1>5, <1>6, <1>7 DEF Act

(* Only ConfirmCommit changes the business state and counts an effect. *)
LEMMA WhoApplies ==
    ASSUME NEW r \in Requests, Act(r), ~ConfirmCommit(r)
    PROVE  dom' = dom /\ applied' = applied
<1> USE DEF Reset
<1>1. CASE Step(r)
  BY <1>1 DEF Step, PreviewBegin, PreviewCommit, TryLock, ConfirmReplay, ConfirmInsert, ConfirmClaim,
     ConfirmLockRow, ConfirmApply, PersistRejected, ResolveLock, ResolveRead, ResolveFence,
     DeadlockVictim, Reply
<1>2. CASE Fault(r)
  BY <1>2 DEF Fault, Crash, Deny, Interrupt, Abort
<1>3. CASE Client(r)
  BY <1>3 DEF Client, PreviewSend, ConfirmSend, FindResult, ResolveSend
<1> QED
  BY <1>1, <1>2, <1>3 DEF Act

(* A Preview starts OPEN. *)
LEMMA PreviewsStart ==
    ASSUME Fits, NEW r \in Requests, Act(r), NEW p \in Previews, preview[p] = NoPreview
    PROVE  preview'[p].status \in {"NONE", "OPEN"}
<1> USE DEF Fits, TypeOK, NoPreview, Reset, CallsFit, CallFits
<1>1. CASE ConfirmCommit(r)
  BY <1>1 DEF ConfirmCommit
<1>2. CASE PersistRejected(r)
  BY <1>2 DEF PersistRejected
<1>3. CASE PreviewCommit(r)
  BY <1>3 DEF PreviewCommit
<1>4. ASSUME Step(r), ~ConfirmCommit(r), ~PersistRejected(r), ~PreviewCommit(r) PROVE preview' = preview
  BY <1>4 DEF Step, PreviewBegin, TryLock, ConfirmReplay, ConfirmInsert, ConfirmClaim,
     ConfirmLockRow, ConfirmApply, ResolveLock, ResolveRead, ResolveFence, DeadlockVictim, Reply
<1>5. ASSUME Fault(r) PROVE preview' = preview
  BY <1>5 DEF Fault, Crash, Deny, Interrupt, Abort
<1>6. ASSUME Client(r) PROVE preview' = preview
  BY <1>6 DEF Client, PreviewSend, ConfirmSend, FindResult, ResolveSend
<1> QED
  BY <1>1, <1>2, <1>3, <1>4, <1>5, <1>6 DEF Act

(* A Preview's status changes when it is created, by the commit of the      *)
(* request that holds its row, or by closing it while nobody holds its row. *)
LEMMA WhoCloses ==
    ASSUME Fits, NEW r \in Requests, Act(r), NEW p \in Previews, preview[p] # NoPreview,
           preview'[p].status # preview[p].status
    PROVE  /\ p = call[r].preview
           /\ \/ ConfirmCommit(r)
              \/ PersistRejected(r) /\ PreviewRowFree(r) /\ preview[p].status = "OPEN"
                 /\ preview'[p].status = "EXPIRED"
<1> USE DEF Fits, TypeOK, WithStatus, Reset
<1>1. CASE ConfirmCommit(r)
  BY <1>1 DEF ConfirmCommit
<1>2. CASE PersistRejected(r)
  BY <1>2 DEF PersistRejected
<1>3. CASE PreviewCommit(r)
  BY <1>3 DEF PreviewCommit
<1>4. ASSUME Step(r), ~ConfirmCommit(r), ~PersistRejected(r), ~PreviewCommit(r) PROVE preview' = preview
  BY <1>4 DEF Step, PreviewBegin, TryLock, ConfirmReplay, ConfirmInsert, ConfirmClaim,
     ConfirmLockRow, ConfirmApply, ResolveLock, ResolveRead, ResolveFence, DeadlockVictim, Reply
<1>5. ASSUME Fault(r) PROVE preview' = preview
  BY <1>5 DEF Fault, Crash, Deny, Interrupt, Abort
<1>6. ASSUME Client(r) PROVE preview' = preview
  BY <1>6 DEF Client, PreviewSend, ConfirmSend, FindResult, ResolveSend
<1> QED
  BY <1>1, <1>2, <1>3, <1>4, <1>5, <1>6 DEF Act

(* A commit changes nothing that another applied command has read: its own  *)
(* rows are locked, and a catalog command is alone.                         *)
LEMMA EffectsKeep ==
    ASSUME Fits, Locks, ReadsStillTrue, NEW r \in Requests, Act(r),
           NEW s \in Requests, s # r, pc[s] = "applied"
    PROVE  EffectUnchanged(s)'
<1> DEFINE c == CommandOf(s)
<1>1. call[s].preview \in Previews /\ preview[call[s].preview] \in PreviewRows
  BY CallKinds DEF Fits, TypeOK, CallsFit, CallFits
<1>2. c \in Commands
  BY <1>1 DEF CommandOf, PreviewRows
<1>3. call'[s] = call[s] /\ CommandOf(s)' = c
  BY OthersStay, CommandsKeep
<1>4. preview'[call[s].preview].shown = preview[call[s].preview].shown
  BY <1>1, PreviewsKeep DEF PreviewRows, NoPreview
<1>5. EffectUnchanged(s) /\ HeldRows(s) = RowsOf(c)
  BY DEF ReadsStillTrue, StillTrue, HeldRows, HoldsPreviewRow, RowsOf
<1>6. Effect(c, dom') = Effect(c, dom)
  <2>1. CASE ~ConfirmCommit(r)
    BY <2>1, WhoApplies
  <2>2. CASE ConfirmCommit(r)
    <3>1. pc[r] = "applied" /\ dom' = Applied(CommandOf(r), dom)
      BY <2>2 DEF ConfirmCommit
    <3>2. HeldRows(r) = RowsOf(CommandOf(r))
      BY <3>1 DEF ReadsStillTrue, StillTrue, HeldRows, HoldsPreviewRow, RowsOf
    <3>3. RowsOf(CommandOf(r)) \cap RowsOf(c) = {}
      BY <1>5, <3>2 DEF Locks, RowsExclude
    <3>4. CommandOf(r) \notin CatalogCommands
      BY <3>1 DEF Locks, CatalogExcludes, HoldsCatalog
    <3>5. Catalog \notin RowsOf(CommandOf(r))
      <4>1. call[r].preview \in Previews /\ preview[call[r].preview] \in PreviewRows
        BY <3>1, CallKinds DEF Fits, TypeOK, CallsFit, CallFits
      <4>2. CommandOf(r) \in Commands
        BY <4>1 DEF CommandOf, PreviewRows
      <4> QED
        BY <4>2, ConstantsAssumption DEF RowsOf
    <3>6. \A x \in Reads(c) : x \notin Writes(CommandOf(r))
      BY <3>3, <3>4, <3>5 DEF Reads, Writes
    <3>7. Reads(c) \subseteq Resources
      BY <1>2, ConstantsAssumption DEF Reads, RowsOf
    <3>8. \A x \in Reads(c) : dom'[x] = dom[x]
      BY <3>1, <3>6, <3>7 DEF Applied
    <3> QED
      BY <3>8 DEF Effect
  <2> QED
    BY <2>1, <2>2
<1> QED
  BY <1>3, <1>4, <1>5, <1>6 DEF EffectUnchanged, CommandOf

LEMMA OthersStillTrue ==
    ASSUME Fits, Locks, ReadsStillTrue, NEW r \in Requests, Act(r), NEW s \in Requests, s # r
    PROVE  StillTrue(s)'
<1>0. pc'[s] = pc[s] /\ call'[s] = call[s] /\ rows'[s] = rows[s] /\ StillTrue(s)
  BY OthersStay DEF ReadsStillTrue
<1>1. ASSUME pc[s] \in InTx \cup {"r_fresh"} PROVE exec'[call[s].key] = NoExec
  <2>1. call[s] \in ConfirmCalls \cup ResolveCalls
    BY <1>1 DEF Fits, CallsFit, CallFits
  <2>2. exec[call[s].key] = NoExec
    BY <1>0, <1>1 DEF StillTrue
  <2>3. SUFFICES ASSUME exec'[call[s].key] # exec[call[s].key] PROVE FALSE
    BY <2>2
  <2>4. HoldsKeyLock(r) /\ call[r].key = call[s].key /\ call[r] \in ConfirmCalls \cup ResolveCalls
    BY <2>1, <2>3, WhoDecides, CallKinds
  <2>5. LockId(r) = LockId(s)
    BY <2>1, <2>4, CallKinds DEF LockId, LockName
  <2> QED
    BY <1>1, <2>4, <2>5 DEF Locks, KeyLocksExclude, HoldsKeyLock
<1>2. ASSUME HoldsPreviewRow(s) PROVE preview'[call[s].preview].status = "OPEN"
  <2>1. call[s].preview \in Previews /\ preview[call[s].preview] # NoPreview
    BY <1>2, CallKinds DEF Fits, CallsFit, CallFits, HoldsPreviewRow
  <2>2. preview[call[s].preview].status = "OPEN"
    BY <1>0, <1>2 DEF StillTrue
  <2>3. ConfirmCommit(r) => HoldsPreviewRow(r)
    BY DEF ConfirmCommit, HoldsPreviewRow
  <2> QED
    BY <1>2, <2>1, <2>2, <2>3, WhoCloses DEF Locks, PreviewRowsExclude, PreviewRowFree
<1>3. ASSUME HoldsPreviewRow(s) PROVE CommandOf(s)' = CommandOf(s)
  BY <1>0, <1>3, CommandsKeep DEF HoldsPreviewRow
<1>4. pc[s] = "applied" => EffectUnchanged(s)'
  BY EffectsKeep
<1> QED
  BY <1>0, <1>1, <1>2, <1>3, <1>4 DEF StillTrue, HoldsPreviewRow

(* The steps after which the request relies on something it has read. *)
Relying(r) ==
    ConfirmReplay(r) \/ ConfirmInsert(r) \/ ConfirmClaim(r) \/ ConfirmLockRow(r) \/ ConfirmApply(r)
    \/ ResolveRead(r)

LEMMA OwnStillTrue ==
    ASSUME Fits, ReadsStillTrue, NEW r \in Requests, Act(r)
    PROVE  StillTrue(r)'
<1>0. StillTrue(r)
  BY DEF ReadsStillTrue
<1>1. ~HoldsPreviewRow(r)' => rows'[r] = 0
  BY <1>0, OwnMoves DEF StillTrue
<1>2. CASE ~Relying(r)
  <2>1. pc'[r] \notin InTx \cup {"r_fresh"}
    <3> USE DEF Fits, TypeOK, Goto, Finish, Fail, Reset
    <3>1. CASE Step(r)
      BY <1>2, <3>1 DEF Relying, Step, PreviewBegin, PreviewCommit, TryLock, ConfirmCommit,
         PersistRejected, ResolveLock, ResolveFence, DeadlockVictim, Reply
    <3>2. CASE Fault(r)
      BY <3>2 DEF Fault, Crash, Deny, Interrupt, Abort
    <3>3. CASE Client(r)
      BY <3>3 DEF Client, PreviewSend, ConfirmSend, FindResult, ResolveSend
    <3> QED
      BY <3>1, <3>2, <3>3 DEF Act
  <2> QED
    BY <1>1, <2>1 DEF StillTrue, HoldsPreviewRow
<1>3. CASE Relying(r)
  <2>0. UNCHANGED <<exec, preview, dom, call>> /\ pc' \in [Requests -> Pcs]
    BY <1>3, FitsStep DEF Relying, Act, Step, ConfirmReplay, ConfirmInsert, ConfirmClaim, ConfirmLockRow,
       ConfirmApply, ResolveRead, Fits, TypeOK, Pcs
  <2>1. pc'[r] \in InTx \cup {"r_fresh"} => exec[call[r].key] = NoExec
    <3> USE DEF Fits, TypeOK, Goto, Finish, Fail, ReplayOrConflict
    <3>1. CASE ConfirmReplay(r) \/ ConfirmInsert(r) \/ ResolveRead(r)
      BY <3>1 DEF ConfirmReplay, ConfirmInsert, ResolveRead
    <3>2. CASE ConfirmClaim(r) \/ ConfirmLockRow(r) \/ ConfirmApply(r)
      BY <1>0, <3>2 DEF ConfirmClaim, ConfirmLockRow, ConfirmApply, StillTrue
    <3> QED
      BY <1>3, <3>1, <3>2 DEF Relying
  <2>2. HoldsPreviewRow(r)' => ConfirmClaim(r) \/ ConfirmLockRow(r) \/ ConfirmApply(r)
    BY <1>3 DEF Relying, ConfirmReplay, ConfirmInsert, ResolveRead, Fits, TypeOK, Goto, Finish, Fail,
       ReplayOrConflict, HoldsPreviewRow
  <2>3. HoldsPreviewRow(r)' => preview[call[r].preview].status = "OPEN"
    <3>1. ASSUME ConfirmClaim(r), HoldsPreviewRow(r)' PROVE preview[call[r].preview].status = "OPEN"
      BY <3>1 DEF ConfirmClaim, PreviewError, HoldsPreviewRow, Goto, Fail, Fits, TypeOK
    <3>2. ASSUME ConfirmLockRow(r) \/ ConfirmApply(r) PROVE preview[call[r].preview].status = "OPEN"
      BY <1>0, <3>2 DEF ConfirmLockRow, ConfirmApply, StillTrue, HoldsPreviewRow
    <3> QED
      BY <2>2, <3>1, <3>2
  <2>4. HoldsPreviewRow(r)' => rows'[r] \in 0..Len(LockSeq[CommandOf(r)])
    <3> SUFFICES ASSUME HoldsPreviewRow(r)' PROVE rows'[r] \in 0..Len(LockSeq[CommandOf(r)])
      OBVIOUS
    <3>0. Len(LockSeq[CommandOf(r)]) \in Nat
      <4>1. call[r].preview \in Previews /\ preview[call[r].preview] \in PreviewRows
        BY <2>2, CallKinds DEF Fits, TypeOK, CallsFit, CallFits, ConfirmClaim, ConfirmLockRow, ConfirmApply
      <4>2. CommandOf(r) \in Commands
        BY <4>1 DEF CommandOf, PreviewRows
      <4>3. LockSeq[CommandOf(r)] \in Seq(Resources \ {Catalog})
        BY <4>2, ConstantsAssumption
      <4> QED
        BY <4>3
    <3>1. CASE ConfirmClaim(r)
      BY <1>0, <3>0, <3>1 DEF ConfirmClaim, StillTrue, HoldsPreviewRow, Fail, Fits, TypeOK
    <3>2. CASE ConfirmLockRow(r)
      BY <1>0, <3>0, <3>2 DEF ConfirmLockRow, StillTrue, HoldsPreviewRow, Fits, TypeOK
    <3>3. CASE ConfirmApply(r)
      BY <1>0, <3>0, <3>3 DEF ConfirmApply, StillTrue, HoldsPreviewRow, Fail, Fits, TypeOK
    <3> QED
      BY <2>2, <3>1, <3>2, <3>3
  <2>5. pc'[r] = "applied" => rows'[r] = Len(LockSeq[CommandOf(r)]) /\ EffectUnchanged(r)
    <3>1. ASSUME pc'[r] = "applied" PROVE ConfirmApply(r)
      BY <2>2, <3>1 DEF HoldsPreviewRow, ConfirmClaim, ConfirmLockRow, Goto, Fail, Fits, TypeOK
    <3>2. ASSUME pc'[r] = "applied", ConfirmApply(r)
          PROVE  rows'[r] = Len(LockSeq[CommandOf(r)]) /\ EffectUnchanged(r)
      BY <3>2 DEF ConfirmApply, Goto, Fail, Fits, TypeOK
    <3> QED
      BY <3>1, <3>2
  <2> QED
    BY <1>1, <2>0, <2>1, <2>3, <2>4, <2>5 DEF StillTrue, HoldsPreviewRow, CommandOf, EffectUnchanged
<1> QED
  BY <1>2, <1>3

LEMMA StillTrueAct ==
    ASSUME Fits, Locks, ReadsStillTrue, NEW r \in Requests, Act(r)
    PROVE  ReadsStillTrue'
BY OwnStillTrue, OthersStillTrue DEF ReadsStillTrue

-----------------------------------------------------------------------------
(* Receipts and effects. *)

(* A key is decided once; without a commit it is decided NOT_EXECUTED. *)
LEMMA KeysDecidedOnce ==
    ASSUME Fits, ReadsStillTrue, NEW r \in Requests, Act(r), NEW k \in Keys, exec'[k] # exec[k]
    PROVE  /\ exec[k] = NoExec
           /\ ConfirmCommit(r) \/ exec'[k].status = "NOT_EXECUTED"
<1>1. k = call[r].key
  BY WhoDecides
<1>2. pc[r] = "applied" => exec[k] = NoExec
  BY <1>1 DEF ReadsStillTrue, StillTrue
<1> QED
  BY <1>2, WhoDecides

LEMMA AnswersAct ==
    ASSUME Fits, ReadsStillTrue, ReceiptsFit, AnswersAreDurable, NEW r \in Requests, Act(r)
    PROVE  ReceiptsFit' /\ AnswersAreDurable'
<1>1. ASSUME NEW s \in Requests, s # r, ans'[s].kind = "RECEIPT"
      PROVE  /\ pc'[s] \in {"unlock", "done"}
             /\ call'[s] \in ConfirmCalls \cup ResolveCalls
             /\ exec'[call'[s].key] = ans'[s].row
             /\ call'[s].op = "confirm" => ans'[s].row.hash = RequestHash(s)'
  <2>1. pc'[s] = pc[s] /\ call'[s] = call[s] /\ ans'[s] = ans[s]
    BY <1>1, OthersStay
  <2>2. pc[s] \in {"unlock", "done"} /\ call[s] \in ConfirmCalls \cup ResolveCalls /\ call[s].key \in Keys
    BY <1>1, <2>1, CallKinds DEF ReceiptsFit
  <2>3. exec[call[s].key] = ans[s].row /\ (call[s].op = "confirm" => ans[s].row.hash = RequestHash(s))
    BY <1>1, <2>1 DEF AnswersAreDurable
  <2>4. ans[s].row \in ExecRows
    BY <1>1, <2>1 DEF Fits, TypeOK, Answers, Codes
  <2>5. exec[call[s].key] # NoExec
    BY <2>3, <2>4 DEF ExecRows, NoExec
  <2>6. exec'[call[s].key] = exec[call[s].key]
    BY <2>2, <2>5, KeysDecidedOnce
  <2> QED
    BY <2>1, <2>2, <2>3, <2>6 DEF RequestHash
<1>2. ASSUME ans'[r].kind = "RECEIPT"
      PROVE  /\ pc'[r] \in {"unlock", "done"}
             /\ call'[r] \in ConfirmCalls \cup ResolveCalls
             /\ exec'[call'[r].key] = ans'[r].row
             /\ call'[r].op = "confirm" => ans'[r].row.hash = RequestHash(r)'
  <2> USE DEF Fits, TypeOK, Goto, Finish, Fail, Error, Receipt, RequestHash
  <2>0. pc[r] \notin {"unlock", "done"} => ans[r].kind # "RECEIPT"
    BY DEF ReceiptsFit
  <2>1. CASE ConfirmReplay(r)
    BY <1>2, <2>0, <2>1, CallKinds DEF ConfirmReplay, CallsFit, CallFits, ReplayOrConflict, NoExec
  <2>2. CASE ConfirmInsert(r)
    BY <1>2, <2>0, <2>2, CallKinds DEF ConfirmInsert, CallsFit, CallFits, ReplayOrConflict, NoExec
  <2>3. CASE ConfirmCommit(r)
    BY <1>2, <2>0, <2>3, CallKinds DEF ConfirmCommit, CallsFit, CallFits
  <2>4. CASE PersistRejected(r)
    <3>1. call[r] \in ConfirmCalls /\ call[r].key \in Keys /\ call[r].op = "confirm"
      BY <2>4, CallKinds DEF PersistRejected, CallsFit, CallFits
    <3>2. CASE exec[call[r].key] = NoExec
      BY <2>4, <3>1, <3>2 DEF PersistRejected
    <3>3. CASE exec[call[r].key] # NoExec
      BY <1>2, <2>0, <2>4, <3>3 DEF PersistRejected
    <3> QED
      BY <3>2, <3>3
  <2>5. CASE ResolveRead(r)
    BY <1>2, <2>0, <2>5, CallKinds DEF ResolveRead, CallsFit, CallFits, Visible
  <2>6. CASE ResolveFence(r)
    BY <1>2, <2>0, <2>6, CallKinds DEF ResolveFence, CallsFit, CallFits
  <2>7. CASE PreviewBegin(r)
    BY <1>2, <2>0, <2>7 DEF PreviewBegin
  <2>8. CASE PreviewCommit(r)
    BY <1>2, <2>0, <2>8 DEF PreviewCommit
  <2>9. CASE TryLock(r)
    BY <1>2, <2>0, <2>9 DEF TryLock
  <2>10. CASE ConfirmClaim(r)
    BY <1>2, <2>0, <2>10 DEF ConfirmClaim, PreviewError
  <2>11. CASE ConfirmLockRow(r)
    BY <1>2, <2>0, <2>11 DEF ConfirmLockRow
  <2>12. CASE ConfirmApply(r)
    BY <1>2, <2>0, <2>12 DEF ConfirmApply
  <2>13. CASE ResolveLock(r)
    BY <1>2, <2>0, <2>13 DEF ResolveLock
  <2>14. CASE DeadlockVictim(r)
    BY <1>2, <2>0, <2>14 DEF DeadlockVictim, WaitCycle, WaitsFor
  <2>15. CASE Reply(r)
    BY <1>2, <2>0, <2>15 DEF Reply, Reset
  <2>16. CASE Fault(r)
    BY <1>2, <2>0, <2>16 DEF Fault, Crash, Deny, Interrupt, Abort, Reset
  <2>17. CASE Client(r)
    BY <1>2, <2>0, <2>17 DEF Client, PreviewSend, ConfirmSend, FindResult, ResolveSend, Visible, ResolveCalls
  <2> QED
    BY <2>1, <2>2, <2>3, <2>4, <2>5, <2>6, <2>7, <2>8, <2>9, <2>10, <2>11, <2>12, <2>13, <2>14, <2>15, <2>16, <2>17 DEF Act, Step
<1> QED
  BY <1>1, <1>2 DEF ReceiptsFit, AnswersAreDurable, RequestHash

LEMMA EffectsAct ==
    ASSUME Fits, ReadsStillTrue, EffectsAccounted, NEW r \in Requests, Act(r)
    PROVE  EffectsAccounted'
<1>1. CASE ConfirmCommit(r)
  <2>0. PICK k \in Keys, p \in Previews : k = call[r].key /\ p = call[r].preview
    BY <1>1, CallKinds DEF ConfirmCommit, Fits, CallsFit, CallFits
  <2>1. exec[k] = NoExec /\ preview[p].status = "OPEN"
    BY <1>1, <2>0 DEF ConfirmCommit, ReadsStillTrue, StillTrue, HoldsPreviewRow
  <2>2. applied[p] = 0 /\ \A l \in Keys : ~Executed(l, p)
    BY <2>1 DEF EffectsAccounted
  <2>3. applied' = [applied EXCEPT ![p] = 1]
    BY <1>1, <2>0, <2>2 DEF ConfirmCommit
  <2>4. /\ exec'[k] = [status |-> "EXECUTED", hash |-> RequestHash(r)]
        /\ \A l \in Keys : l # k => exec'[l] = exec[l]
    BY <1>1, <2>0 DEF ConfirmCommit, Fits, TypeOK
  <2>5. \A q \in Previews : Executed(k, q)' <=> q = p
    BY <2>0, <2>4 DEF Executed, RequestHash
  <2>6. \A q \in Previews : \A l \in Keys : l # k => (Executed(l, q)' <=> Executed(l, q))
    BY <2>4 DEF Executed
  <2>7. \A q \in Previews : ~Executed(k, q)
    BY <2>1 DEF Executed, NoExec
  <2>8. \A q \in Previews : (preview'[q].status = "USED") <=> (q = p \/ preview[q].status = "USED")
    BY <1>1, <2>0, <2>1 DEF ConfirmCommit, Fits, TypeOK, WithStatus
  <2>9. ASSUME NEW q \in Previews
        PROVE  /\ applied'[q] \in {0, 1}
               /\ (applied'[q] = 1) <=> (preview'[q].status = "USED")
               /\ (applied'[q] = 1) <=> \E l \in Keys : Executed(l, q)'
    <3>1. CASE q = p
      BY <2>1, <2>3, <2>5, <2>8, <3>1 DEF Fits, TypeOK
    <3>2. CASE q # p
      <4>1. applied'[q] = applied[q]
        BY <2>3, <3>2 DEF Fits, TypeOK
      <4>2. (\E l \in Keys : Executed(l, q)') <=> (\E l \in Keys : Executed(l, q))
        BY <2>5, <2>6, <2>7, <3>2
      <4> QED
        BY <2>8, <3>2, <4>1, <4>2 DEF EffectsAccounted
    <3> QED
      BY <3>1, <3>2
  <2>10. ASSUME NEW q \in Previews, NEW l \in Keys, NEW m \in Keys, Executed(l, q)', Executed(m, q)'
         PROVE  l = m
    BY <2>1, <2>2, <2>5, <2>6, <2>10 DEF EffectsAccounted
  <2>11. \A q \in Previews : \A l, m \in Keys : Executed(l, q)' /\ Executed(m, q)' => l = m
    BY <2>10
  <2> QED
    BY <2>9, <2>11 DEF EffectsAccounted
<1>2. CASE ~ConfirmCommit(r)
  <2>1. applied' = applied
    BY <1>2, WhoApplies
  <2>2. \A k \in Keys, q \in Previews : Executed(k, q)' <=> Executed(k, q)
    BY <1>2, KeysDecidedOnce DEF Executed, NoExec
  <2>3. \A q \in Previews : (preview'[q].status = "USED") <=> (preview[q].status = "USED")
    <3> SUFFICES ASSUME NEW q \in Previews
                 PROVE  (preview'[q].status = "USED") <=> (preview[q].status = "USED")
      OBVIOUS
    <3>1. CASE preview[q] # NoPreview
      BY <1>2, <3>1, WhoCloses
    <3>2. CASE preview[q] = NoPreview
      BY <3>2, PreviewsStart DEF NoPreview
    <3> QED
      BY <3>1, <3>2
  <2> QED
    BY <2>1, <2>2, <2>3 DEF EffectsAccounted
<1> QED
  BY <1>1, <1>2

-----------------------------------------------------------------------------
(* The inductive invariant. *)

LEMMA InvInit == Init => ProtocolInv
<1> SUFFICES ASSUME Init PROVE ProtocolInv
  OBVIOUS
<1>1. Fits
  BY FitsInit
<1>2. \A r \in Requests : pc[r] = "idle" /\ rows[r] = 0 /\ ans[r].kind = "NONE"
  BY DEF Init, Error
<1>3. Locks
  BY <1>2 DEF Locks, KeyLocksExclude, PreviewRowsExclude, RowsExclude, CatalogExcludes, HoldsKeyLock,
     HoldsPreviewRow, HeldRows, HoldsCatalog
<1>4. ReadsStillTrue
  BY <1>2 DEF ReadsStillTrue, StillTrue, HoldsPreviewRow
<1>5. EffectsAccounted
  BY DEF Init, EffectsAccounted, Executed, NoExec, NoPreview
<1>6. ReceiptsFit /\ AnswersAreDurable
  BY <1>2 DEF ReceiptsFit, AnswersAreDurable
<1> QED
  BY <1>1, <1>3, <1>4, <1>5, <1>6 DEF ProtocolInv

LEMMA InvNext == ProtocolInv /\ [Next]_vars => ProtocolInv'
<1> SUFFICES ASSUME ProtocolInv, [Next]_vars PROVE ProtocolInv'
  OBVIOUS
<1>0. Fits'
  BY FitsNext DEF ProtocolInv
<1>1. ASSUME NEW r \in Requests, Act(r) PROVE ProtocolInv'
  BY <1>0, <1>1, LocksAct, StillTrueAct, EffectsAct, AnswersAct DEF ProtocolInv
<1>2. ASSUME NEW p \in Previews, PreviewDue(p) PROVE ProtocolInv'
  <2>1. /\ UNCHANGED <<exec, dom, applied, pc, call, rows, snap, ans>>
        /\ \A q \in Previews : /\ preview'[q].status = preview[q].status
                               /\ preview'[q].cmd = preview[q].cmd
                               /\ preview'[q].shown = preview[q].shown
    BY <1>2 DEF PreviewDue, ProtocolInv, Fits, TypeOK
  <2>2. \A r \in Requests : pc[r] \in ConfirmPcs => call[r].preview \in Previews
    BY CallKinds DEF ProtocolInv, Fits, CallsFit, CallFits
  <2>3. \A r \in Requests : pc[r] \in ConfirmPcs => CommandOf(r)' = CommandOf(r)
    BY <2>1, <2>2 DEF CommandOf
  <2>4. \A r \in Requests : HeldRows(r)' = HeldRows(r)
    BY <2>1, <2>3 DEF HeldRows, HoldsPreviewRow
  <2>5. Locks'
    BY <2>1, <2>3, <2>4 DEF ProtocolInv, Locks, KeyLocksExclude, PreviewRowsExclude, RowsExclude,
       CatalogExcludes, HoldsKeyLock, HoldsPreviewRow, HoldsCatalog, LockId, LockName
  <2>6. ReadsStillTrue'
    BY <2>1, <2>2, <2>3 DEF ProtocolInv, ReadsStillTrue, StillTrue, HoldsPreviewRow, EffectUnchanged
  <2>7. EffectsAccounted'
    BY <2>1 DEF ProtocolInv, EffectsAccounted, Executed
  <2>8. ReceiptsFit' /\ AnswersAreDurable'
    BY <2>1 DEF ProtocolInv, ReceiptsFit, AnswersAreDurable, RequestHash
  <2> QED
    BY <1>0, <2>5, <2>6, <2>7, <2>8 DEF ProtocolInv
<1>3. CASE UNCHANGED vars
  <2>0. \A r \in Requests : HeldRows(r)' = HeldRows(r)
    BY <1>3 DEF vars, HeldRows, HoldsPreviewRow, CommandOf
  <2>1. Locks'
    BY <1>3, <2>0 DEF vars, ProtocolInv, Locks, KeyLocksExclude, PreviewRowsExclude, RowsExclude,
       CatalogExcludes, HoldsKeyLock, HoldsPreviewRow, HoldsCatalog, LockId, LockName, CommandOf
  <2>2. ReadsStillTrue'
    BY <1>3 DEF vars, ProtocolInv, ReadsStillTrue, StillTrue, HoldsPreviewRow, EffectUnchanged, CommandOf
  <2>3. EffectsAccounted'
    BY <1>3 DEF vars, ProtocolInv, EffectsAccounted, Executed
  <2>4. ReceiptsFit' /\ AnswersAreDurable'
    BY <1>3 DEF vars, ProtocolInv, ReceiptsFit, AnswersAreDurable, RequestHash
  <2> QED
    BY <1>0, <2>1, <2>2, <2>3, <2>4 DEF ProtocolInv
<1> QED
  BY <1>1, <1>2, <1>3 DEF Next, Act

LEMMA InvAlways == Spec => []ProtocolInv
BY InvInit, InvNext, PTL DEF Spec

-----------------------------------------------------------------------------
(* Theorems. *)

(* Exactly-once execution: a Preview's command is committed at most once,   *)
(* and exactly when a single key keeps an EXECUTED receipt of it and the    *)
(* Preview is USED (service.ts, confirmCommandPreview).                     *)
THEOREM ExactlyOnce == Spec => []OneReceiptPerEffect
<1>1. ASSUME EffectsAccounted PROVE OneReceiptPerEffect
  <2> SUFFICES ASSUME NEW p \in Previews
               PROVE  applied[p] = Cardinality({k \in Keys : Executed(k, p)})
    BY <1>1 DEF EffectsAccounted, OneReceiptPerEffect
  <2>1. CASE applied[p] = 0
    <3>1. {k \in Keys : Executed(k, p)} = {}
      BY <1>1, <2>1 DEF EffectsAccounted
    <3> QED
      BY <2>1, <3>1, FS_EmptySet
  <2>2. CASE applied[p] = 1
    <3>1. PICK k \in Keys : Executed(k, p)
      BY <1>1, <2>2 DEF EffectsAccounted
    <3>2. {l \in Keys : Executed(l, p)} = {k}
      BY <1>1, <3>1 DEF EffectsAccounted
    <3> QED
      BY <2>2, <3>2, FS_Singleton
  <2> QED
    BY <1>1, <2>1, <2>2 DEF EffectsAccounted
<1> QED
  BY <1>1, InvAlways, PTL DEF ProtocolInv

(* A receipt on its way to a client is the durable one of its key, and the  *)
(* one a confirmation gets is about that confirmation.                      *)
THEOREM DurableAnswers == Spec => []AnswersAreDurable
BY InvAlways, PTL DEF ProtocolInv

(* No step changes a decided key or reopens a closed Preview: a fence set   *)
(* by resolveCommandResult holds against every late confirmation.           *)
THEOREM FinalDecisions == Spec => DecidedForever
<1> DEFINE Final == /\ \A k \in Keys : exec[k] # NoExec => exec'[k] = exec[k]
                    /\ \A p \in Previews :
                         preview[p].status \in {"USED", "EXPIRED"} => preview'[p] = preview[p]
<1>1. ASSUME ProtocolInv, [Next]_vars PROVE [Final]_vars
  <2>1. ASSUME NEW r \in Requests, Act(r) PROVE Final
    <3>1. \A k \in Keys : exec[k] # NoExec => exec'[k] = exec[k]
      BY <1>1, <2>1, KeysDecidedOnce DEF ProtocolInv
    <3>2. ASSUME NEW p \in Previews, preview[p].status \in {"USED", "EXPIRED"}
          PROVE  preview'[p] = preview[p]
      <4> USE DEF ProtocolInv, Fits, TypeOK, Reset, CallsFit, CallFits
      <4>1. CASE ConfirmCommit(r)
        BY <1>1, <3>2, <4>1 DEF ConfirmCommit, ReadsStillTrue, StillTrue, HoldsPreviewRow
      <4>2. CASE PersistRejected(r)
        BY <1>1, <3>2, <4>2 DEF PersistRejected
      <4>3. CASE PreviewCommit(r)
        BY <1>1, <3>2, <4>3 DEF PreviewCommit, NoPreview
      <4>4. ASSUME Step(r), ~ConfirmCommit(r), ~PersistRejected(r), ~PreviewCommit(r)
            PROVE  preview' = preview
        BY <4>4 DEF Step, PreviewBegin, TryLock, ConfirmReplay, ConfirmInsert, ConfirmClaim,
           ConfirmLockRow, ConfirmApply, ResolveLock, ResolveRead, ResolveFence, DeadlockVictim, Reply
      <4>5. ASSUME Fault(r) PROVE preview' = preview
        BY <4>5 DEF Fault, Crash, Deny, Interrupt, Abort
      <4>6. ASSUME Client(r) PROVE preview' = preview
        BY <4>6 DEF Client, PreviewSend, ConfirmSend, FindResult, ResolveSend
      <4> QED
        BY <2>1, <4>1, <4>2, <4>3, <4>4, <4>5, <4>6 DEF Act
    <3> QED
      BY <3>1, <3>2
  <2>2. ASSUME NEW p \in Previews, PreviewDue(p) PROVE Final
    BY <1>1, <2>2 DEF PreviewDue, ProtocolInv, Fits, TypeOK
  <2>3. CASE UNCHANGED vars
    BY <2>3
  <2> QED
    BY <1>1, <2>1, <2>2, <2>3 DEF Next, Act
<1> QED
  BY <1>1, InvAlways, PTL DEF Spec, DecidedForever

(* A command is committed in a state that has the effect its Preview shows, *)
(* and changes exactly what that command writes.                            *)
THEOREM ConfirmedEffect == Spec => ShownIsApplied
<1> DEFINE Shown == \A p \in Previews : applied'[p] # applied[p] =>
                        /\ preview[p].status = "OPEN"
                        /\ Effect(preview[p].cmd, dom) = preview[p].shown
                        /\ dom' = Applied(preview[p].cmd, dom)
<1>1. ASSUME ProtocolInv, [Next]_vars PROVE [Shown]_vars
  <2>1. ASSUME NEW r \in Requests, Act(r) PROVE Shown
    <3>1. CASE ~ConfirmCommit(r)
      BY <2>1, <3>1, WhoApplies
    <3>2. CASE ConfirmCommit(r)
      <4>1. pc[r] = "applied" /\ StillTrue(r)
        BY <1>1, <3>2 DEF ConfirmCommit, ProtocolInv, ReadsStillTrue
      <4>2. \A p \in Previews : applied'[p] # applied[p] => p = call[r].preview
        BY <1>1, <3>2 DEF ConfirmCommit, ProtocolInv, Fits, TypeOK
      <4> QED
        BY <3>2, <4>1, <4>2 DEF ConfirmCommit, StillTrue, HoldsPreviewRow, EffectUnchanged, CommandOf
    <3> QED
      BY <3>1, <3>2
  <2>2. ASSUME NEW p \in Previews, PreviewDue(p) PROVE Shown
    BY <2>2 DEF PreviewDue
  <2>3. CASE UNCHANGED vars
    BY <2>3
  <2> QED
    BY <1>1, <2>1, <2>2, <2>3 DEF Next, Act
<1> QED
  BY <1>1, InvAlways, PTL DEF Spec, ShownIsApplied

(* Only PreviewCommit makes an offer. *)
LEMMA OffersKeep ==
    ASSUME Fits, NEW r \in Requests, Act(r), ~PreviewCommit(r)
    PROVE  \A p \in Previews : OfferOf(p)' = OfferOf(p)
<1> SUFFICES ASSUME NEW p \in Previews PROVE OfferOf(p)' = OfferOf(p)
  OBVIOUS
<1>1. CASE preview[p] # NoPreview
  BY <1>1, PreviewsKeep DEF OfferOf
<1>2. CASE preview[p] = NoPreview
  <2> USE DEF Fits, TypeOK, Reset, CallsFit, CallFits
  <2>1. CASE ConfirmCommit(r)
    BY <1>2, <2>1 DEF ConfirmCommit, OfferOf
  <2>2. CASE PersistRejected(r)
    BY <1>2, <2>2 DEF PersistRejected, OfferOf
  <2>3. ASSUME Step(r), ~ConfirmCommit(r), ~PersistRejected(r) PROVE preview' = preview
    BY <2>3 DEF Step, PreviewBegin, TryLock, ConfirmReplay, ConfirmInsert, ConfirmClaim,
       ConfirmLockRow, ConfirmApply, ResolveLock, ResolveRead, ResolveFence, DeadlockVictim, Reply
  <2>4. ASSUME Fault(r) PROVE preview' = preview
    BY <2>4 DEF Fault, Crash, Deny, Interrupt, Abort
  <2>5. ASSUME Client(r) PROVE preview' = preview
    BY <2>5 DEF Client, PreviewSend, ConfirmSend, FindResult, ResolveSend
  <2> QED
    BY <2>1, <2>2, <2>3, <2>4, <2>5 DEF Act, OfferOf
<1> QED
  BY <1>1, <1>2

(* A step of a request is a step of the ledger, or none. *)
LEMMA LedgerAct ==
    ASSUME ProtocolInv, NEW r \in Requests, Act(r)
    PROVE  [Ledger!Next]_(Ledger!ledgerVars)
<1> DEFINE Out == [k \in Keys |-> OutcomeOf(k)]
           Off == [p \in Previews |-> OfferOf(p)]
<1>0. Fits /\ ReadsStillTrue
  BY DEF ProtocolInv
<1>1. CASE ConfirmCommit(r)
  <2>1. PICK k \in Keys, p \in Previews : k = call[r].key /\ p = call[r].preview
    BY <1>0, <1>1, CallKinds DEF ConfirmCommit, Fits, CallsFit, CallFits
  <2>2. /\ exec[k] = NoExec /\ preview[p].status = "OPEN"
        /\ Effect(preview[p].cmd, dom) = preview[p].shown
    BY <1>0, <1>1, <2>1 DEF ConfirmCommit, ReadsStillTrue, StillTrue, HoldsPreviewRow, EffectUnchanged,
       CommandOf
  <2>3. preview[p] # NoPreview /\ Off[p] = [cmd |-> preview[p].cmd, shown |-> preview[p].shown]
    BY <2>2 DEF NoPreview, OfferOf
  <2>4. applied[p] = 0
    BY <2>2 DEF ProtocolInv, EffectsAccounted
  <2>5. Out[k] = "undecided"
    BY <2>2 DEF OutcomeOf, NoExec
  <2>6. Out' = [Out EXCEPT ![k] = p]
    <3>1. exec' = [exec EXCEPT ![k] = [status |-> "EXECUTED", hash |-> RequestHash(r)]]
      BY <1>1, <2>1 DEF ConfirmCommit
    <3>2. OutcomeOf(k)' = p
      BY <1>0, <2>1, <3>1 DEF OutcomeOf, RequestHash, Fits, TypeOK
    <3>3. \A l \in Keys : l # k => OutcomeOf(l)' = OutcomeOf(l)
      BY <1>0, <3>1 DEF OutcomeOf, Fits, TypeOK
    <3> QED
      BY <3>2, <3>3
  <2>7. applied' = [applied EXCEPT ![p] = 1] /\ dom' = Applied(preview[p].cmd, dom)
    BY <1>1, <2>1, <2>4 DEF ConfirmCommit, CommandOf
  <2>8. Off' = Off
    <3>1. ~PreviewCommit(r)
      BY <1>1 DEF ConfirmCommit, PreviewCommit
    <3> QED
      BY <1>0, <3>1, OffersKeep
  <2>9. Off[p] # NoPreview
    BY <2>3 DEF NoPreview
  <2>10. Ledger!Execute(k, p)
    BY <2>2, <2>3, <2>4, <2>5, <2>6, <2>7, <2>8, <2>9 DEF Ledger!Execute
  <2> QED
    BY <2>10 DEF Ledger!Next
<1>2. CASE PreviewCommit(r)
  <2>1. PICK p \in Previews, c \in Commands : p = call[r].preview /\ c = call[r].cmd /\ snap[r] \in Worlds
    BY <1>0, <1>2, CallKinds DEF PreviewCommit, Fits, CallsFit, CallFits
  <2>2. exec' = exec /\ dom' = dom /\ applied' = applied
    BY <1>2 DEF PreviewCommit
  <2>3. Out' = Out
    BY <2>2 DEF OutcomeOf
  <2>4. CASE preview[p] # NoPreview
    <3>1. preview' = preview
      BY <1>2, <2>1, <2>4 DEF PreviewCommit
    <3> QED
      BY <2>2, <2>3, <3>1 DEF Ledger!ledgerVars, OfferOf
  <2>5. CASE preview[p] = NoPreview
    <3>1. preview' = [preview EXCEPT ![p] = [status |-> "OPEN", cmd |-> c,
                                             shown |-> Effect(c, snap[r]), due |-> FALSE]]
      BY <1>2, <2>1, <2>5 DEF PreviewCommit
    <3>2. OfferOf(p)' = [cmd |-> c, shown |-> Effect(c, snap[r])]
      BY <1>0, <3>1 DEF OfferOf, NoPreview, Fits, TypeOK
    <3>3. \A q \in Previews : q # p => OfferOf(q)' = OfferOf(q)
      BY <1>0, <3>1 DEF OfferOf, Fits, TypeOK
    <3>4. Off[p] = NoPreview /\ Off' = [Off EXCEPT ![p] = [cmd |-> c, shown |-> Effect(c, snap[r])]]
      BY <2>5, <3>2, <3>3 DEF OfferOf
    <3>5. Ledger!Offer(p, c)
      BY <2>1, <2>2, <2>3, <3>4 DEF Ledger!Offer, Worlds
    <3> QED
      BY <3>5 DEF Ledger!Next
  <2> QED
    BY <2>4, <2>5
<1>3. CASE ~ConfirmCommit(r) /\ ~PreviewCommit(r)
  <2>1. dom' = dom /\ applied' = applied /\ Off' = Off
    BY <1>0, <1>3, WhoApplies, OffersKeep
  <2>2. CASE \A k \in Keys : exec'[k] = exec[k]
    <3>1. Out' = Out
      BY <2>2 DEF OutcomeOf
    <3> QED
      BY <2>1, <3>1 DEF Ledger!ledgerVars
  <2>3. ASSUME NEW k \in Keys, exec'[k] # exec[k] PROVE Ledger!Next
    <3>1. exec[k] = NoExec /\ exec'[k].status = "NOT_EXECUTED"
      BY <1>0, <1>3, <2>3, KeysDecidedOnce
    <3>2. \A l \in Keys : l # k => exec'[l] = exec[l]
      BY <1>0, <2>3, WhoDecides
    <3>3. Out[k] = "undecided" /\ OutcomeOf(k)' = "rejected"
      BY <3>1 DEF OutcomeOf, NoExec
    <3>4. \A l \in Keys : l # k => OutcomeOf(l)' = OutcomeOf(l)
      BY <3>2 DEF OutcomeOf
    <3>5. Out' = [Out EXCEPT ![k] = "rejected"]
      BY <3>3, <3>4
    <3>6. Ledger!Reject(k)
      BY <2>1, <3>3, <3>5 DEF Ledger!Reject
    <3> QED
      BY <3>6 DEF Ledger!Next
  <2> QED
    BY <2>2, <2>3
<1> QED
  BY <1>1, <1>2, <1>3

(* The protocol implements the ledger: whatever handlers interleave, crash  *)
(* or repeat, every key is decided once and every offer executes atomically *)
(* at most once, in a state that has the effect offered.                    *)
THEOREM LedgerImplemented == Spec => ImplementsLedger
<1>1. Init => Ledger!Init
  BY DEF Init, Ledger!Init, OutcomeOf, OfferOf, NoExec, Worlds
<1>2. ASSUME ProtocolInv, [Next]_vars PROVE [Ledger!Next]_(Ledger!ledgerVars)
  <2>1. ASSUME NEW r \in Requests, Act(r) PROVE [Ledger!Next]_(Ledger!ledgerVars)
    BY <1>2, <2>1, LedgerAct
  <2>2. ASSUME NEW p \in Previews, PreviewDue(p) PROVE UNCHANGED Ledger!ledgerVars
    <3>1. /\ exec' = exec /\ dom' = dom /\ applied' = applied
          /\ \A q \in Previews : q # p => preview'[q] = preview[q]
          /\ preview'[p] = [status |-> "OPEN", cmd |-> preview[p].cmd, shown |-> preview[p].shown, due |-> TRUE]
      BY <1>2, <2>2 DEF PreviewDue, ProtocolInv, Fits, TypeOK
    <3>2. preview[p] # NoPreview /\ preview'[p] # NoPreview
      BY <2>2, <3>1 DEF PreviewDue, NoPreview
    <3>3. \A q \in Previews : OfferOf(q)' = OfferOf(q)
      BY <3>1, <3>2 DEF OfferOf
    <3>4. \A k \in Keys : OutcomeOf(k)' = OutcomeOf(k)
      BY <3>1 DEF OutcomeOf
    <3> QED
      BY <3>1, <3>3, <3>4 DEF Ledger!ledgerVars
  <2>3. CASE UNCHANGED vars
    BY <2>3 DEF vars, Ledger!ledgerVars, OfferOf, OutcomeOf
  <2> QED
    BY <1>2, <2>1, <2>2, <2>3 DEF Next, Act
<1> QED
  BY <1>1, <1>2, InvAlways, PTL DEF Spec, ImplementsLedger, Ledger!Spec
=============================================================================
