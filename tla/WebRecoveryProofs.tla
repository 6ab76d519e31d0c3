-------------------------- MODULE WebRecoveryProofs --------------------------
(***************************************************************************)
(* The recovery records of the browser are sound: for any number of tabs   *)
(* and of commands and quotes, and any number of faults.                   *)
(***************************************************************************)
EXTENDS WebRecovery, FiniteSetTheorems, TLAPS

(* The record in localStorage and the marker are of two commands: a write   *)
(* was torn.                                                                *)
Corrupt(s) == auth[s] # None /\ marker[s] # None /\ auth[s].key # marker[s].key

(* What a record in a slot may be: of a key of that slot, that was taken,   *)
(* and with the server's result if it has one.                              *)
RecordFits(r, s) ==
    r # None =>
        /\ SlotOf(r.key) = s /\ ledger[r.key] # "UNUSED"
        /\ r.state \in Terminal => ledger[r.key] = r.state
        /\ \A t \in Tabs : Phase(t) = "claiming" => dialog[t].key # r.key
RecordsFit ==
    \A s \in Slots : /\ RecordFits(auth[s], s)
                     /\ \A t \in Tabs : RecordFits(mirror[t][s], s)

(* The torn record is of a key no tab will send or ask for.                 *)
CorruptIsDead ==
    \A s \in Slots : Corrupt(s) =>
        ledger[auth[s].key] = "TAKEN" /\ \A t \in Tabs : dialog[t].key # auth[s].key

(* The key of an attempt belongs to its tab alone until it is sent.         *)
Attempting(t) == Phase(t) \in {"claiming", "claimed"}
KeysAreOwn ==
    /\ \A t \in Tabs : dialog[t].key # None => ledger[dialog[t].key] # "UNUSED"
    /\ \A t \in Tabs : Attempting(t) => dialog[t].key # None
    /\ \A t \in Tabs : Phase(t) = "claiming" =>
          /\ ledger[dialog[t].key] = "TAKEN"
          /\ \A u \in Tabs : u # t => dialog[u].key # dialog[t].key
    /\ \A t, u \in Tabs :
          Phase(t) = "claimed" /\ Phase(u) = "claimed" /\ dialog[u].key = dialog[t].key => u = t

(* A request that is on its way, or about to leave.                         *)
Open(k) ==
    \/ ledger[k] = "SENT"
    \/ /\ ledger[k] = "TAKEN"
       /\ \E t \in Tabs : Phase(t) = "claimed" /\ dialog[t].key = k
OpenIsRecorded ==
    \A k \in Keys : Open(k) => auth[SlotOf(k)] # None /\ auth[SlotOf(k)].key = k
OneOpen == \A j, k \in Keys : Open(j) /\ Open(k) => j = k

(* What a dialog knows of its key is what the server decided.               *)
AnswersTrue ==
    \A t \in Tabs :
        /\ Phase(t) \in {"waiting", "answered", "uncertain", "querying", "closing"}
              => dialog[t].key # None
        /\ Phase(t) = "waiting" => ledger[dialog[t].key] \notin {"UNUSED", "TAKEN"}
        /\ Phase(t) = "answered" =>
              /\ dialog[t].answer \in Answers
              /\ dialog[t].answer \in Terminal => ledger[dialog[t].key] = dialog[t].answer
              /\ dialog[t].answer = "REFUSED"
                    => ledger[dialog[t].key] \in {"REFUSED", "NOT_EXECUTED"}
        /\ Phase(t) = "closing" =>
              /\ dialog[t].answer \in Terminal
              /\ ledger[dialog[t].key] = dialog[t].answer

(* The Preview of the dialog's own command ran out before it was sent.      *)
RanOut(t) == shell[t] = "PREVIEW_EXPIRED" /\ ~dialog[t].recovery

(* The state of the shell in each phase of the dialog.                      *)
ShellFits ==
    \A t \in Tabs :
        /\ Phase(t) = "previewing" => shell[t] = "AUTO_PREVIEWING"
        /\ Phase(t) = "ready" => shell[t] = "READY_TO_CONFIRM"
        /\ Phase(t) = "expired" => shell[t] = "PREVIEW_EXPIRED"
        /\ Phase(t) = "editing" => shell[t] = "EDITING"
        /\ Phase(t) = "failed" => shell[t] \in {"NOT_EXECUTED", "PREVIEW_EXPIRED"}
        /\ dialog[t].key \in CommandKeys =>
              /\ Attempting(t) => shell[t] = "READY_TO_CONFIRM" \/ RanOut(t)
              /\ Phase(t) = "waiting" => shell[t] = "CONFIRMING" \/ RanOut(t)
              /\ Phase(t) = "answered" => shell[t] \in {"CONFIRMING", "RESULT_UNKNOWN"} \/ RanOut(t)
              /\ Phase(t) \in {"uncertain", "querying"} => shell[t] = "RESULT_UNKNOWN" \/ RanOut(t)
              /\ Phase(t) = "closing" =>
                    \/ shell[t] = IF dialog[t].answer = "EXECUTED" THEN "SUCCEEDED" ELSE "NOT_EXECUTED"
                    \/ RanOut(t)
              /\ Attempting(t) \/ Phase(t) = "waiting" => ~dialog[t].recovery

RecoveryInv ==
    /\ TypeOK /\ RecordsFit /\ CorruptIsDead /\ KeysAreOwn /\ OpenIsRecorded
    /\ OneOpen /\ AnswersTrue /\ ShellFits

-----------------------------------------------------------------------------
(* The storage of one slot, and the shell's transitions.                    *)

Stores == [kind : {"CORRUPT", "READ_ERROR", "VALID", "ABSENT"},
           auth : Kept, marker : Kept, mirror : Kept]

(* What reading a slot returns and leaves behind.                           *)
LEMMA ReadResult ==
    ASSUME TypeOK, NEW t \in Tabs, NEW s \in Slots
    PROVE  LET r == Read(t, s) IN
           /\ r \in Stores
           /\ r.auth \in {auth[s], mirror[t][s]}
           /\ r.mirror \in {None, auth[s], mirror[t][s]}
           /\ auth[s] # None => r.auth = auth[s]
           /\ r.kind = "ABSENT" => r.auth = None
           /\ r.kind = "VALID" => r.auth # None /\ r.marker = r.auth /\ r.mirror = r.auth
           /\ r.kind = "CORRUPT" <=> Corrupt(s)
           /\ r.kind \in {"CORRUPT", "READ_ERROR"} => r.auth = auth[s] /\ r.marker = marker[s]
<1> DEFINE a == auth[s]  m == marker[s]  c == mirror[t][s]
<1>1. a \in Kept /\ m \in Kept /\ c \in Kept
  BY DEF TypeOK
<1>2. Read(t, s) = getItem(a, m, c)
  BY DEF Read
<1> HIDE DEF a, m, c
<1>3. LET r == getItem(a, m, c) IN
      /\ r \in Stores
      /\ r.auth \in {a, c}
      /\ r.mirror \in {None, a, c}
      /\ a # None => r.auth = a
      /\ r.kind = "ABSENT" => r.auth = None
      /\ r.kind = "VALID" => r.auth # None /\ r.marker = r.auth /\ r.mirror = r.auth
      /\ r.kind = "CORRUPT" <=> a # None /\ m # None /\ a.key # m.key
      /\ r.kind \in {"CORRUPT", "READ_ERROR"} => r.auth = a /\ r.marker = m
  BY <1>1 DEF getItem, Store, Stores, Kept, serializedRecoveriesShareCommandIdentity
<1> QED
  BY <1>2, <1>3 DEF Corrupt, a, m, c

(* Writing a record over a slot that is free, or over its own record.       *)
LEMMA WriteResult ==
    ASSUME NEW v \in PersistedCommandRecovery, NEW r \in Stores,
           (r.kind = "ABSENT" /\ r.auth = None) \/ (r.kind = "VALID" /\ r.mirror = r.auth)
    PROVE  Write(v, r) = [kind |-> "VALID", auth |-> v, marker |-> v, mirror |-> v]
BY DEF Write, setItem, Store, Stores

(* Dropping a record.                                                       *)
LEMMA DropResult ==
    ASSUME NEW r \in Stores
    PROVE  /\ Drop(r) \in Stores /\ Drop(r).kind = "ABSENT"
           /\ Drop(r).auth = None /\ Drop(r).marker = r.auth
           /\ Drop(r).mirror \in {None, r.mirror}
BY DEF Drop, removeItem, Store, Stores, Kept

(* Leaving the slots.                                                       *)
LEMMA StoredResult ==
    ASSUME TypeOK, NEW t \in Tabs, NEW st, Stored(t, st)
    PROVE  /\ \A s \in Slots : auth'[s] = st[s].auth /\ marker'[s] = st[s].marker
                               /\ mirror'[t][s] = st[s].mirror
           /\ \A u \in Tabs : u # t => mirror'[u] = mirror[u]
           /\ (\A s \in Slots : st[s] \in Stores)
                 => /\ auth' \in [Slots -> Kept] /\ marker' \in [Slots -> Kept]
                    /\ mirror' \in [Tabs -> [Slots -> Kept]]
BY DEF Stored, TypeOK, Stores

(* The transitions of the shell that the dialogs rely on.                   *)
Uncertain == {"CONFIRMING", "RESULT_UNKNOWN"}
Settling == {"RESULT_UNKNOWN", "NOT_EXECUTED", "SUCCEEDED"}

LEMMA ShellTransitions ==
    /\ \A p \in ShellPhases, e \in DOMAIN NextPhase : transitionCommandShell(p, e) \in ShellPhases
    /\ \A p \in {"EDITING", "PREVIEW_EXPIRED", "NOT_EXECUTED", "AUTO_PREVIEWING"} :
           transitionCommandShell(p, "PREVIEW_STARTED") = "AUTO_PREVIEWING"
    /\ transitionCommandShell("AUTO_PREVIEWING", "PREVIEW_READY") = "READY_TO_CONFIRM"
    /\ transitionCommandShell("AUTO_PREVIEWING", "NOT_EXECUTED") = "NOT_EXECUTED"
    /\ transitionCommandShell("READY_TO_CONFIRM", "PREVIEW_EXPIRED") = "PREVIEW_EXPIRED"
    /\ transitionCommandShell("READY_TO_CONFIRM", "CONFIRM_STARTED") = "CONFIRMING"
    /\ \A p \in Uncertain, e \in Settling : transitionCommandShell(p, e) = e
    /\ \A e \in Settling \cup {"CONFIRM_STARTED"} :
           transitionCommandShell("PREVIEW_EXPIRED", e) = "PREVIEW_EXPIRED"
<1>1. ShellPhases = {"AUTO_PREVIEWING", "READY_TO_CONFIRM", "EDITING", "PREVIEW_EXPIRED",
                     "CONFIRMING", "RESULT_UNKNOWN", "NOT_EXECUTED", "SUCCEEDED"}
  BY DEF ShellPhases, allowedTransitions
<1>2. \A e \in DOMAIN NextPhase : NextPhase[e] \in ShellPhases
  BY <1>1 DEF NextPhase
<1>3. \A p \in ShellPhases, e \in DOMAIN NextPhase : transitionCommandShell(p, e) \in ShellPhases
  BY <1>2 DEF transitionCommandShell
<1>4. \A p \in {"EDITING", "PREVIEW_EXPIRED", "NOT_EXECUTED", "AUTO_PREVIEWING"} :
          transitionCommandShell(p, "PREVIEW_STARTED") = "AUTO_PREVIEWING"
  BY DEF transitionCommandShell, allowedTransitions, NextPhase
<1>5. /\ transitionCommandShell("AUTO_PREVIEWING", "PREVIEW_READY") = "READY_TO_CONFIRM"
      /\ transitionCommandShell("AUTO_PREVIEWING", "NOT_EXECUTED") = "NOT_EXECUTED"
      /\ transitionCommandShell("READY_TO_CONFIRM", "PREVIEW_EXPIRED") = "PREVIEW_EXPIRED"
      /\ transitionCommandShell("READY_TO_CONFIRM", "CONFIRM_STARTED") = "CONFIRMING"
  BY DEF transitionCommandShell, allowedTransitions, NextPhase
<1>6. \A p \in Uncertain, e \in Settling : transitionCommandShell(p, e) = e
  BY DEF transitionCommandShell, allowedTransitions, NextPhase, Uncertain, Settling
<1>7. \A e \in Settling \cup {"CONFIRM_STARTED"} :
          transitionCommandShell("PREVIEW_EXPIRED", e) = "PREVIEW_EXPIRED"
  BY DEF transitionCommandShell, allowedTransitions, Settling
<1> QED
  BY <1>3, <1>4, <1>5, <1>6, <1>7

-----------------------------------------------------------------------------
(* Steps that start no attempt and send nothing.                            *)

(* The dialogs wait for no other key than before, and no attempt begins.    *)
NoNewAttempt ==
    \A u \in Tabs :
        \/ /\ dialog'[u].key = dialog[u].key
           /\ Attempting(u)' => Phase(u)' = Phase(u)
        \/ dialog'[u].key = None /\ ~Attempting(u)'

(* What such a step may do to a slot.                                       *)
SlotKept(s) ==
    /\ RecordFits(auth'[s], s)
    /\ \A u \in Tabs : RecordFits(mirror'[u][s], s)
    /\ Corrupt(s)' => Corrupt(s) /\ auth'[s] = auth[s]
    /\ \A k \in Keys : Open(k) /\ SlotOf(k) = s => auth'[s] # None /\ auth'[s].key = k

LEMMA KeptRecords ==
    ASSUME RecoveryInv, TypeOK', NoNewAttempt, UNCHANGED ledger,
           \A s \in Slots : SlotKept(s)
    PROVE  RecordsFit' /\ CorruptIsDead' /\ KeysAreOwn' /\ OpenIsRecorded' /\ OneOpen'
<1> USE RecoveryAssumption DEF RecoveryInv
<1>1. \A u \in Tabs : Phase(u)' = "claiming" => Phase(u) = "claiming" /\ dialog'[u].key = dialog[u].key
  BY DEF NoNewAttempt, Attempting
<1>2. RecordsFit'
  BY <1>1 DEF RecordsFit, RecordFits, SlotKept, SlotOf
<1>3. CorruptIsDead'
  BY DEF CorruptIsDead, SlotKept, NoNewAttempt, Corrupt, TypeOK, Kept, PersistedCommandRecovery
<1>4. KeysAreOwn'
  BY <1>1 DEF KeysAreOwn, NoNewAttempt, Attempting
<1>5. \A k \in Keys : Open(k)' => Open(k)
  BY DEF Open, NoNewAttempt, Attempting
<1>6. OpenIsRecorded'
  BY <1>5 DEF OpenIsRecorded, SlotKept, SlotOf, Slots
<1>7. OneOpen'
  BY <1>5 DEF OneOpen
<1> QED
  BY <1>2, <1>3, <1>4, <1>6, <1>7

(* Reading a slot, and dropping or rewriting its record, keep it.           *)
LEMMA ReadKeeps ==
    ASSUME RecoveryInv, NEW t \in Tabs, NEW s \in Slots
    PROVE  LET r == Read(t, s) IN
           /\ RecordFits(r.auth, s) /\ RecordFits(r.mirror, s)
           /\ r.auth # None /\ r.marker # None /\ r.auth.key # r.marker.key
                 => Corrupt(s) /\ r.auth = auth[s]
           /\ \A k \in Keys : Open(k) /\ SlotOf(k) = s => r.auth # None /\ r.auth.key = k
<1> DEFINE r == Read(t, s)
<1>1. TypeOK /\ RecordsFit /\ OpenIsRecorded
  BY DEF RecoveryInv
<1>2. /\ r \in Stores
      /\ r.auth \in {auth[s], mirror[t][s]}
      /\ r.mirror \in {None, auth[s], mirror[t][s]}
      /\ auth[s] # None => r.auth = auth[s]
      /\ r.kind = "ABSENT" => r.auth = None
      /\ r.kind = "VALID" => r.auth # None /\ r.marker = r.auth /\ r.mirror = r.auth
      /\ r.kind = "CORRUPT" <=> Corrupt(s)
      /\ r.kind \in {"CORRUPT", "READ_ERROR"} => r.auth = auth[s] /\ r.marker = marker[s]
  BY <1>1, ReadResult
<1> HIDE DEF r
<1>3. RecordFits(r.auth, s) /\ RecordFits(r.mirror, s)
  <2>1. RecordFits(auth[s], s) /\ RecordFits(mirror[t][s], s)
    BY <1>1 DEF RecordsFit
  <2>2. RecordFits(None, s)
    BY DEF RecordFits
  <2> QED
    BY <1>2, <2>1, <2>2
<1>4. r.auth # None /\ r.marker # None /\ r.auth.key # r.marker.key => Corrupt(s) /\ r.auth = auth[s]
  BY <1>2 DEF Stores, Corrupt
<1>5. \A k \in Keys : Open(k) /\ SlotOf(k) = s => r.auth # None /\ r.auth.key = k
  BY <1>1, <1>2 DEF OpenIsRecorded
<1> QED
  BY <1>3, <1>4, <1>5 DEF r

(* A record that can be read is of the one command of its slot.             *)
LEMMA RecordKnown ==
    ASSUME RecoveryInv, NEW t \in Tabs, NEW s \in Slots, Read(t, s).auth # None
    PROVE  LET v == Read(t, s).auth IN
           /\ v \in PersistedCommandRecovery /\ SlotOf(v.key) = s
           /\ v.state \in Terminal => ledger[v.key] = v.state
           /\ Read(t, s).kind = "VALID" /\ Corrupt(s) => FALSE
BY ReadKeeps, ReadResult DEF RecordFits, Stores, Kept, RecoveryInv

-----------------------------------------------------------------------------
(* Steps. *)

(* A read that leaves the tabs' dialogs and the ledger as NoNewAttempt says. *)
LEMMA StoredKeeps ==
    ASSUME RecoveryInv, NEW t \in Tabs, NEW st, Stored(t, st),
           \A s \in Slots :
               /\ st[s] \in Stores
               /\ RecordFits(st[s].auth, s) /\ RecordFits(st[s].mirror, s)
               /\ st[s].auth # None /\ st[s].marker # None /\ st[s].auth.key # st[s].marker.key
                     => Corrupt(s) /\ st[s].auth = auth[s]
               /\ \A k \in Keys : Open(k) /\ SlotOf(k) = s
                     => st[s].auth # None /\ st[s].auth.key = k
    PROVE  \A s \in Slots : SlotKept(s)
<1>1. TypeOK /\ RecordsFit
  BY DEF RecoveryInv
<1>2. /\ \A s \in Slots : auth'[s] = st[s].auth /\ marker'[s] = st[s].marker
                            /\ mirror'[t][s] = st[s].mirror
      /\ \A u \in Tabs : u # t => mirror'[u] = mirror[u]
  BY <1>1, StoredResult
<1> QED
  BY <1>1, <1>2 DEF SlotKept, RecordsFit, Corrupt

(* Storage that only was read. *)
LEMMA ReadOnly ==
    ASSUME RecoveryInv, NEW t \in Tabs, Stored(t, ReadBoth(t))
    PROVE  \A s \in Slots : SlotKept(s)
<1>1. \A s \in Slots : ReadBoth(t)[s] = Read(t, s)
  BY DEF ReadBoth
<1>2. TypeOK
  BY DEF RecoveryInv
<1> HIDE DEF RecoveryInv
<1>3. \A s \in Slots : Read(t, s) \in Stores
  BY <1>2, ReadResult
<1> QED
  BY <1>1, <1>3, ReadKeeps, StoredKeeps

(* Storage that was not touched. *)
LEMMA Untouched ==
    ASSUME RecoveryInv, UNCHANGED storage
    PROVE  \A s \in Slots : SlotKept(s)
BY DEF RecoveryInv, SlotKept, RecordsFit, OpenIsRecorded, Corrupt, storage

(* Types. *)
LEMMA WriteDropTypes ==
    ASSUME NEW r \in Stores, NEW v \in PersistedCommandRecovery
    PROVE  Write(v, r) \in Stores /\ Drop(r) \in Stores
BY DEF Write, Drop, setItem, removeItem, Store, Stores, Kept

LEMMA StoredTypes ==
    ASSUME TypeOK, NEW t \in Tabs, NEW st, Stored(t, st), \A s \in Slots : st[s] \in Stores
    PROVE  /\ auth' \in [Slots -> Kept] /\ marker' \in [Slots -> Kept]
           /\ mirror' \in [Tabs -> [Slots -> Kept]]
BY StoredResult

LEMMA ReadBothTypes ==
    ASSUME TypeOK, NEW t \in Tabs
    PROVE  /\ \A s \in Slots : Read(t, s) \in Stores /\ ReadBoth(t)[s] = Read(t, s)
           /\ DOMAIN ReadBoth(t) = Slots
           /\ \A s \in Slots : clearResolved(ReadBoth(t))[s] \in Stores
<1>1. \A s \in Slots : Read(t, s) \in Stores /\ ReadBoth(t)[s] = Read(t, s)
  BY ReadResult DEF ReadBoth
<1>2. \A r \in Stores : clearTerminalPersistedCommandRecoveryIfPresent(r) \in Stores
  BY DropResult DEF clearTerminalPersistedCommandRecoveryIfPresent
<1> QED
  BY <1>1, <1>2 DEF ReadBoth, clearResolved

(* What an answer makes of the record of its command or quote.              *)
LEMMA ProgressTypes ==
    ASSUME NEW r \in Stores, NEW k \in Keys, NEW a \in Answers
    PROVE  /\ transitionPersistedCommandRecovery(r, k, a) \in Stores
           /\ transitionQuoteRecovery(r, k, a) \in Stores
<1>1. [key |-> k, state |-> "UNKNOWN"] \in PersistedCommandRecovery
  BY DEF PersistedCommandRecovery
<1>2. a # "REFUSED" => [key |-> k, state |-> a] \in PersistedCommandRecovery
  BY DEF PersistedCommandRecovery, Answers, Terminal
<1> QED
  BY <1>1, <1>2, WriteDropTypes
     DEF transitionPersistedCommandRecovery, transitionQuoteRecovery

(* The types of the state after every step, by what they are moved by.      *)
Dialogs == [phase : Phases, key : Keys \cup {None},
            answer : Answers \cup {None}, recovery : BOOLEAN]

LEMMA DialogTypes ==
    ASSUME TypeOK, NEW t \in Tabs
    PROVE  LET typed == dialog' \in [Tabs -> Dialogs] IN
           /\ \A p \in Phases : To(t, p) => typed
           /\ \A p \in Phases : dialog' = [dialog EXCEPT ![t] = [Idle EXCEPT !.phase = p]] => typed
           /\ dialog' = [dialog EXCEPT ![t] = Idle] => typed
           /\ dialog' = dialog => typed
           /\ \A a \in Answers :
                 dialog' = [dialog EXCEPT ![t].phase = "answered", ![t].answer = a] => typed
           /\ \A e \in DOMAIN NextPhase : applyShellEvent(t, e) => shell' \in [Tabs -> ShellPhases]
           /\ \A p \in ShellPhases : shell' = [shell EXCEPT ![t] = p] => shell' \in [Tabs -> ShellPhases]
           /\ shell' = shell => shell' \in [Tabs -> ShellPhases]
<1>1. dialog \in [Tabs -> Dialogs] /\ Idle \in Dialogs /\ "answered" \in Phases
  BY DEF TypeOK, Dialogs, Idle, Phases
<1>2. \A p \in Phases : [Idle EXCEPT !.phase = p] \in Dialogs
  BY DEF Dialogs, Idle
<1>4. \A p \in Phases : [dialog[t] EXCEPT !.phase = p] \in Dialogs
  BY <1>1 DEF Dialogs
<1>5. \A p \in Phases, a \in Answers : [dialog[t] EXCEPT !.phase = p, !.answer = a] \in Dialogs
  BY <1>1 DEF Dialogs
<1>6. \A p \in Phases : To(t, p) => dialog' \in [Tabs -> Dialogs]
  BY <1>1, <1>4 DEF To
<1>7. \A a \in Answers :
          dialog' = [dialog EXCEPT ![t].phase = "answered", ![t].answer = a]
             => dialog' \in [Tabs -> Dialogs]
  BY <1>1, <1>5
<1>8. \A p \in Phases : dialog' = [dialog EXCEPT ![t] = [Idle EXCEPT !.phase = p]]
                            => dialog' \in [Tabs -> Dialogs]
  BY <1>1, <1>2
<1>9. dialog' = [dialog EXCEPT ![t] = Idle] \/ dialog' = dialog => dialog' \in [Tabs -> Dialogs]
  BY <1>1
<1>10. \A e \in DOMAIN NextPhase : applyShellEvent(t, e) => shell' \in [Tabs -> ShellPhases]
  BY ShellTransitions DEF TypeOK, applyShellEvent
<1>11. /\ \A p \in ShellPhases : shell' = [shell EXCEPT ![t] = p] => shell' \in [Tabs -> ShellPhases]
       /\ shell' = shell => shell' \in [Tabs -> ShellPhases]
  BY DEF TypeOK
<1> QED
  BY <1>6, <1>7, <1>8, <1>9, <1>10, <1>11

LEMMA AttemptType ==
    ASSUME TypeOK, NEW t \in Tabs, NEW K, K = CommandKeys \/ K = QuoteKeys, Attempt(t, K)
    PROVE  /\ recoveryKey(K) \in K /\ recoveryKey(K) \in Keys
           /\ ledger[recoveryKey(K)] = "UNUSED"
           /\ TypeOK'
<1>1. \E k \in K : ledger[k] = "UNUSED"
  BY DEF Attempt, Fresh
<1>2. recoveryKey(K) \in K /\ ledger[recoveryKey(K)] = "UNUSED"
  BY <1>1 DEF recoveryKey
<1>3. recoveryKey(K) \in Keys
  BY <1>2 DEF Keys
<1> HIDE DEF recoveryKey
<1> QED
  BY <1>2, <1>3 DEF Attempt, TypeOK, Idle, Phases, storage

LEMMA TypeStep ==
    ASSUME TypeOK, AnswersTrue, KeysAreOwn, Next
    PROVE  TypeOK'
<1> USE RecoveryAssumption
<1> DEFINE StorageOK == /\ auth' \in [Slots -> Kept] /\ marker' \in [Slots -> Kept]
                        /\ mirror' \in [Tabs -> [Slots -> Kept]]
<1>s. \A p \in ShellPhases, e \in {"PREVIEW_STARTED", "NOT_EXECUTED", "PREVIEW_READY", "RESULT_UNKNOWN",
                     "PREVIEW_EXPIRED", "CONFIRM_STARTED", "SUCCEEDED"} :
         transitionCommandShell(p, e) \in ShellPhases
  BY ShellTransitions DEF NextPhase
<1>i. {"AUTO_PREVIEWING", "EDITING", "RESULT_UNKNOWN"} \subseteq ShellPhases
  BY DEF ShellPhases, allowedTransitions
<1>r. \A t \in Tabs : (UNCHANGED storage \/ Stored(t, ReadBoth(t)) \/ Stored(t, clearResolved(ReadBoth(t))))
        => StorageOK
  <2> SUFFICES ASSUME NEW t \in Tabs PROVE
        (UNCHANGED storage \/ Stored(t, ReadBoth(t)) \/ Stored(t, clearResolved(ReadBoth(t)))) => StorageOK
    OBVIOUS
  <2>1. UNCHANGED storage => StorageOK
    BY DEF storage, TypeOK
  <2>2. Stored(t, ReadBoth(t)) => StorageOK
    BY ReadBothTypes, StoredTypes
  <2>3. Stored(t, clearResolved(ReadBoth(t))) => StorageOK
    BY ReadBothTypes, StoredTypes
  <2> QED
    BY <2>1, <2>2, <2>3
<1>e. \A t \in Tabs, s \in Slots, r \in Stores :
         /\ DOMAIN [ReadBoth(t) EXCEPT ![s] = r] = Slots
         /\ \A x \in Slots : [ReadBoth(t) EXCEPT ![s] = r][x] \in Stores
  BY ReadBothTypes
<1>w. \A t \in Tabs, s \in Slots, r \in Stores : Stored(t, [ReadBoth(t) EXCEPT ![s] = r]) => StorageOK
  BY <1>e, StoredTypes
<1>q. "QUOTE" \in Slots /\ "COMMAND" \in Slots /\ \A k : SlotOf(k) \in Slots
  BY DEF Slots, SlotOf
<1>v. {"PREVIEW_STARTED", "NOT_EXECUTED", "PREVIEW_READY", "RESULT_UNKNOWN", "PREVIEW_EXPIRED",
       "CONFIRM_STARTED", "SUCCEEDED"} \subseteq DOMAIN NextPhase
  BY DEF NextPhase
<1>p. {"idle", "previewing", "ready", "expired", "editing", "failed", "claiming", "claimed", "waiting",
       "answered", "uncertain", "querying", "closing"} \subseteq Phases
  BY DEF Phases
<1> HIDE DEF StorageOK
<1>1. ASSUME NEW t \in Tabs, loadPreview(t) PROVE TypeOK'
  <2>1. StorageOK
    BY <1>1, <1>r DEF loadPreview
  <2>2. /\ lock' \in Tabs \cup {None} /\ dialog' \in [Tabs -> Dialogs]
        /\ shell' \in [Tabs -> ShellPhases]
    <3>1. dialog' \in [Tabs -> Dialogs] /\ lock' \in Tabs \cup {None}
      BY <1>1, <1>p, DialogTypes DEF loadPreview, TypeOK
    <3>2. shell' \in [Tabs -> ShellPhases]
      BY <1>1, <1>s, <1>i DEF loadPreview, TypeOK, initialCommandShellState
    <3> QED
      BY <3>1, <3>2
  <2> QED
    BY <1>1, <2>1, <2>2 DEF loadPreview, TypeOK, Dialogs, StorageOK
<1>2. ASSUME NEW t \in Tabs, PreviewReturns(t) \/ PreviewExpires(t) \/ returnToEdit(t) PROVE TypeOK'
  <2>1. StorageOK
    BY <1>2, <1>r DEF PreviewReturns, PreviewExpires, returnToEdit
  <2>2. dialog' \in [Tabs -> Dialogs] /\ lock' \in Tabs \cup {None}
    BY <1>2, <1>p, DialogTypes DEF PreviewReturns, PreviewExpires, returnToEdit, TypeOK, Dialogs
  <2>3. shell' \in [Tabs -> ShellPhases]
    BY <1>2, <1>v, <1>i, DialogTypes DEF PreviewReturns, PreviewExpires, returnToEdit
  <2> QED
    BY <1>2, <2>1, <2>2, <2>3
       DEF PreviewReturns, PreviewExpires, returnToEdit, TypeOK, Dialogs, StorageOK
<1>3. ASSUME NEW t \in Tabs, confirm(t) \/ createQuote(t) PROVE TypeOK'
  BY <1>3, AttemptType DEF confirm, createQuote
<1>4. ASSUME NEW t \in Tabs, Claim(t) PROVE TypeOK'
  <2> DEFINE k == dialog[t].key
             v == [key |-> k, state |-> "CONFIRMING"]
  <2>0. k \in Keys /\ v \in PersistedCommandRecovery
    BY <1>4 DEF Claim, TypeOK, KeysAreOwn, Attempting, PersistedCommandRecovery
  <2>1. Write(v, ReadBoth(t)[SlotOf(k)]) \in Stores
    BY <2>0, <1>q, ReadBothTypes, WriteDropTypes
  <2>2. StorageOK
    BY <1>4, <2>1, <1>q, <1>w, <1>r DEF Claim
  <2>3. dialog' \in [Tabs -> Dialogs]
    BY <1>4, <1>p, DialogTypes DEF Claim
  <2> QED
    BY <1>4, <2>2, <2>3 DEF Claim, TypeOK, Dialogs, StorageOK
<1>5. ASSUME NEW t \in Tabs, TornWrite(t) PROVE TypeOK'
  <2> DEFINE k == dialog[t].key
             torn == [ReadBoth(t)[SlotOf(k)] EXCEPT !.auth = [key |-> k, state |-> "CONFIRMING"]]
             cut == [Drop(ReadBoth(t)["COMMAND"]) EXCEPT !.mirror = ReadBoth(t)["COMMAND"].mirror]
  <2>1. ReadBoth(t)[SlotOf(k)] \in Stores /\ ReadBoth(t)["COMMAND"] \in Stores
    BY <1>q, ReadBothTypes
  <2>2. cut \in Stores
    BY <2>1, DropResult DEF Stores
  <2>3. Phase(t) = "claiming" => torn \in Stores
    BY <2>1 DEF Stores, TypeOK, KeysAreOwn, Attempting, PersistedCommandRecovery, Kept
  <2> HIDE DEF torn, cut
  <2>4. \/ Phase(t) = "claiming" /\ Stored(t, [ReadBoth(t) EXCEPT ![SlotOf(k)] = torn])
        \/ Stored(t, [ReadBoth(t) EXCEPT !["COMMAND"] = cut])
    BY <1>5 DEF TornWrite, torn, cut
  <2>5. StorageOK
    BY <2>2, <2>3, <2>4, <1>q, <1>w
  <2>6. /\ dialog' \in [Tabs -> Dialogs] /\ shell' \in [Tabs -> ShellPhases]
        /\ faults' \in 0..MaxFaults
    BY <1>5, <1>i DEF TornWrite, TypeOK, Dialogs, Phases, Idle, Fault
  <2> QED
    BY <1>5, <2>5, <2>6 DEF TornWrite, TypeOK, Dialogs, StorageOK
<1>6. ASSUME NEW t \in Tabs, Send(t) PROVE TypeOK'
  <2>1. StorageOK
    BY <1>6, <1>r DEF Send
  <2>2. dialog' \in [Tabs -> Dialogs]
    BY <1>6, <1>p, DialogTypes DEF Send
  <2>3. shell' \in [Tabs -> ShellPhases]
    BY <1>6, <1>v, DialogTypes DEF Send
  <2>4. ledger' \in [Keys -> Answers \cup {"UNUSED", "TAKEN", "SENT"}]
    BY <1>6 DEF Send, TypeOK
  <2> QED
    BY <1>6, <2>1, <2>2, <2>3, <2>4 DEF Send, TypeOK, Dialogs, StorageOK
<1>7. ASSUME NEW t \in Tabs, Answered(t) PROVE TypeOK'
  <2>1. dialog[t].key \in Keys /\ ledger[dialog[t].key] \in Answers \cup {"SENT"}
    BY <1>7 DEF Answered, TypeOK, AnswersTrue
  <2>2. dialog' \in [Tabs -> Dialogs] /\ faults' \in 0..MaxFaults
    <3>1. \E a \in Answers : dialog' = [dialog EXCEPT ![t].phase = "answered", ![t].answer = a]
      BY <1>7, <2>1 DEF Answered, Answers
    <3>2. dialog' \in [Tabs -> Dialogs]
      BY <3>1, DialogTypes
    <3> QED
      BY <1>7, <3>2 DEF Answered, TypeOK, Fault
  <2> QED
    BY <1>7, <2>2 DEF Answered, TypeOK, Dialogs, storage
<1>8. ASSUME NEW t \in Tabs, recover(t) PROVE TypeOK'
  <2>1. StorageOK
    BY <1>8, <1>r DEF recover
  <2> DEFINE open == {ReadBoth(t)[s].auth : s \in {x \in Slots : ReadBoth(t)[x].kind = "VALID"}}
  <2>2. \A r \in open : r.key \in Keys
    BY ReadBothTypes, ReadResult DEF Stores, Kept, PersistedCommandRecovery
  <2>3. PICK k \in IF Phase(t) = "uncertain" THEN {dialog[t].key} ELSE {r.key : r \in open} :
            /\ dialog' = [dialog EXCEPT ![t] = [phase |-> "querying", key |-> k, answer |-> None,
                              recovery |-> @.recovery \/ @.phase = "idle"]]
            /\ shell' = [shell EXCEPT ![t] = IF Phase(t) = "idle" /\ k \in CommandKeys
                                             THEN initialCommandShellState(k) ELSE @]
    BY <1>8 DEF recover
  <2>4. k \in Keys \cup {None}
    BY <2>2, <2>3 DEF TypeOK
  <2>5. dialog' \in [Tabs -> Dialogs] /\ shell' \in [Tabs -> ShellPhases]
    BY <2>3, <2>4, <1>i DEF TypeOK, Dialogs, Phases, initialCommandShellState
  <2> QED
    BY <1>8, <2>1, <2>5 DEF recover, TypeOK, Dialogs, StorageOK
<1>9. ASSUME NEW t \in Tabs, Resolved(t) PROVE TypeOK'
  <2>1. dialog[t].key \in Keys
    BY <1>9 DEF Resolved, TypeOK, AnswersTrue
  <2>2. ledger' \in [Keys -> Answers \cup {"UNUSED", "TAKEN", "SENT"}] /\ faults' \in 0..MaxFaults
    <3>1. /\ \/ ledger' = ledger
             \/ ledger' = [ledger EXCEPT ![dialog[t].key] = "NOT_EXECUTED"]
          /\ \/ faults' = faults
             \/ faults < MaxFaults /\ faults' = faults + 1
      BY <1>9 DEF Resolved, Fault
    <3>2. ledger' \in [Keys -> Answers \cup {"UNUSED", "TAKEN", "SENT"}]
      BY <2>1, <3>1 DEF TypeOK, Answers
    <3>3. faults' \in 0..MaxFaults
      BY <3>1, RecoveryAssumption DEF TypeOK
    <3> QED
      BY <3>2, <3>3
  <2>3. dialog' \in [Tabs -> Dialogs]
    <3>1. \E a \in Answers : dialog' = [dialog EXCEPT ![t].phase = "answered", ![t].answer = a]
      BY <1>9, <2>1 DEF Resolved, TypeOK, Answers, Terminal
    <3> QED
      BY <3>1, DialogTypes
  <2> QED
    BY <1>9, <2>2, <2>3 DEF Resolved, TypeOK, Dialogs, storage
<1>10. ASSUME NEW t \in Tabs, recordPostSendProgress(t) PROVE TypeOK'
  <2>0. dialog[t].key \in Keys /\ dialog[t].answer \in Answers
    BY <1>10 DEF recordPostSendProgress, TypeOK, AnswersTrue
  <2>1. /\ Read(t, "COMMAND") \in Stores
        /\ transitionPersistedCommandRecovery(Read(t, "COMMAND"), dialog[t].key, dialog[t].answer) \in Stores
    BY <2>0, <1>q, ReadBothTypes, ProgressTypes
  <2>2. StorageOK
    BY <1>10, <2>1, <1>q, <1>w DEF recordPostSendProgress
  <2>3. dialog' \in [Tabs -> Dialogs] /\ shell' \in [Tabs -> ShellPhases]
    <3>1. dialog' \in [Tabs -> Dialogs]
      BY <1>10, <1>p, DialogTypes DEF recordPostSendProgress
    <3>2. shell' \in [Tabs -> ShellPhases]
      BY <1>10, <1>v, DialogTypes DEF recordPostSendProgress
    <3> QED
      BY <3>1, <3>2
  <2> QED
    BY <1>10, <2>2, <2>3 DEF recordPostSendProgress, TypeOK, Dialogs, StorageOK
<1>11. ASSUME NEW t \in Tabs, QuoteReturns(t) PROVE TypeOK'
  <2>0. dialog[t].key \in Keys /\ dialog[t].answer \in Answers
    BY <1>11 DEF QuoteReturns, TypeOK, AnswersTrue
  <2>1. transitionQuoteRecovery(ReadBoth(t)["QUOTE"], dialog[t].key, dialog[t].answer) \in Stores
    BY <2>0, <1>q, ReadBothTypes, ProgressTypes
  <2>2. StorageOK
    BY <1>11, <2>1, <1>q, <1>w, <1>r DEF QuoteReturns
  <2>3. dialog' \in [Tabs -> Dialogs] /\ faults' \in 0..MaxFaults
    BY <1>11 DEF QuoteReturns, TypeOK, Dialogs, Phases, Idle, Fault
  <2> QED
    BY <1>11, <2>2, <2>3 DEF QuoteReturns, TypeOK, Dialogs, StorageOK
<1>12. ASSUME NEW t \in Tabs,
              usePersistentCommandRecovery(t) \/ refreshActiveSnapshot(t) \/ closeCommandDialog(t)
       PROVE  TypeOK'
  <2>1. StorageOK
    BY <1>12, <1>r DEF usePersistentCommandRecovery, refreshActiveSnapshot, closeCommandDialog
  <2>2. dialog' \in [Tabs -> Dialogs] /\ shell' \in [Tabs -> ShellPhases]
    BY <1>12, <1>i, DialogTypes
       DEF usePersistentCommandRecovery, refreshActiveSnapshot, closeCommandDialog
  <2> QED
    BY <1>12, <2>1, <2>2 DEF usePersistentCommandRecovery, refreshActiveSnapshot,
       closeCommandDialog, TypeOK, Dialogs, StorageOK
<1>13. ASSUME NEW t \in Tabs, discardCorruptAfterReview(t) PROVE TypeOK'
  <2>1. PICK s \in Slots : Stored(t, [ReadBoth(t) EXCEPT ![s] = Drop(@)])
    BY <1>13 DEF discardCorruptAfterReview
  <2>2. Drop(ReadBoth(t)[s]) \in Stores
    BY ReadBothTypes, DropResult
  <2>3. StorageOK
    BY <2>1, <2>2, <1>w, ReadBothTypes
  <2> QED
    BY <1>13, <2>3 DEF discardCorruptAfterReview, TypeOK, StorageOK
<1>14. ASSUME NEW t \in Tabs, Unmount(t) \/ ReplaceTab(t) PROVE TypeOK'
  <2>1. [s \in Slots |-> None] \in [Slots -> Kept] /\ \A u \in Tabs : mirror[u] \in [Slots -> Kept]
    BY DEF TypeOK, Kept
  <2>2. StorageOK
    BY <1>14, <2>1 DEF Unmount, ReplaceTab, TypeOK, storage, StorageOK
  <2>3. dialog' \in [Tabs -> Dialogs] /\ shell' \in [Tabs -> ShellPhases] /\ faults' \in 0..MaxFaults
        /\ lock' \in Tabs \cup {None}
    <3>1. dialog' \in [Tabs -> Dialogs] /\ shell' \in [Tabs -> ShellPhases]
      BY <1>14, <1>i, DialogTypes DEF Unmount, ReplaceTab
    <3> QED
      BY <1>14, <3>1 DEF Unmount, ReplaceTab, TypeOK, Fault
  <2> QED
    BY <1>14, <2>2, <2>3 DEF Unmount, ReplaceTab, TypeOK, Dialogs, StorageOK
<1>15. ASSUME NEW k \in Keys, Decide(k) PROVE TypeOK'
  BY <1>15 DEF Decide, TypeOK, Answers, Terminal, storage
<1> QED
  BY <1>1, <1>2, <1>3, <1>4, <1>5, <1>6, <1>7, <1>8, <1>9, <1>10, <1>11, <1>12, <1>13, <1>14, <1>15
     DEF Next

-----------------------------------------------------------------------------
(* Steps that only read, or touch no storage.                               *)

LEMMA QuietStep ==
    ASSUME RecoveryInv, TypeOK', UNCHANGED ledger, NoNewAttempt, \A s \in Slots : SlotKept(s),
           NEW t \in Tabs,
           \A u \in Tabs : u # t => dialog'[u] = dialog[u] /\ shell'[u] = shell[u],
           \/ Phase(t)' = "previewing" /\ shell'[t] = "AUTO_PREVIEWING"
           \/ Phase(t)' = "ready" /\ shell'[t] = "READY_TO_CONFIRM"
           \/ Phase(t)' = "expired" /\ shell'[t] = "PREVIEW_EXPIRED"
           \/ Phase(t)' = "editing" /\ shell'[t] = "EDITING"
           \/ Phase(t)' = "failed" /\ shell'[t] = "NOT_EXECUTED"
    PROVE  RecoveryInv'
<1>1. RecordsFit' /\ CorruptIsDead' /\ KeysAreOwn' /\ OpenIsRecorded' /\ OneOpen'
  BY KeptRecords
<1>2. AnswersTrue'
  BY DEF RecoveryInv, AnswersTrue, Phase
<1>3. ShellFits'
  BY DEF RecoveryInv, ShellFits, Phase, Attempting, RanOut
<1> QED
  BY <1>1, <1>2, <1>3 DEF RecoveryInv

LEMMA loadPreviewStep ==
    ASSUME RecoveryInv, TypeOK', NEW t \in Tabs, loadPreview(t)
    PROVE  RecoveryInv'
<1>1. \A s \in Slots : SlotKept(s)
  BY ReadOnly DEF loadPreview
<1>2. \/ /\ dialog' = [dialog EXCEPT ![t].phase = "previewing"]
         /\ shell'[t] = "AUTO_PREVIEWING"
      \/ /\ dialog' = [dialog EXCEPT ![t].phase = "failed"]
         /\ shell'[t] = "NOT_EXECUTED"
  <2>1. shell[t] \in {"EDITING", "PREVIEW_EXPIRED", "NOT_EXECUTED"} \/ Phase(t) = "idle"
    BY DEF loadPreview, RecoveryInv, ShellFits
  <2>2. shell \in [Tabs -> ShellPhases]
    BY DEF RecoveryInv, TypeOK
  <2> DEFINE start == IF Phase(t) = "idle" THEN initialCommandShellState(None)
                      ELSE transitionCommandShell(shell[t], "PREVIEW_STARTED")
  <2>3. start = "AUTO_PREVIEWING"
    BY <2>1, ShellTransitions DEF initialCommandShellState
  <2>4. \/ /\ dialog' = [dialog EXCEPT ![t].phase = "previewing"]
           /\ shell' = [shell EXCEPT ![t] = start]
        \/ /\ dialog' = [dialog EXCEPT ![t].phase = "failed"]
           /\ shell' = [shell EXCEPT ![t] = transitionCommandShell(start, "NOT_EXECUTED")]
    BY DEF loadPreview, To
  <2> HIDE DEF start
  <2>5. transitionCommandShell(start, "NOT_EXECUTED") = "NOT_EXECUTED"
    BY <2>3, ShellTransitions
  <2>6. /\ shell' = [shell EXCEPT ![t] = start] => shell'[t] = "AUTO_PREVIEWING"
        /\ shell' = [shell EXCEPT ![t] = transitionCommandShell(start, "NOT_EXECUTED")]
              => shell'[t] = "NOT_EXECUTED"
    BY <2>2, <2>3, <2>5
  <2> QED
    BY <2>4, <2>6
<1>3. dialog \in [Tabs -> Dialogs] /\ shell \in [Tabs -> ShellPhases]
  BY DEF RecoveryInv, TypeOK, Dialogs
<1>4. /\ Phase(t)' \in {"previewing", "failed"} /\ dialog'[t].key = dialog[t].key
      /\ \A u \in Tabs : u # t => dialog'[u] = dialog[u] /\ shell'[u] = shell[u]
      /\ Phase(t)' = "previewing" => shell'[t] = "AUTO_PREVIEWING"
      /\ Phase(t)' = "failed" => shell'[t] = "NOT_EXECUTED"
  BY <1>2, <1>3 DEF Phase, Dialogs, loadPreview
<1>5. NoNewAttempt
  BY <1>4 DEF NoNewAttempt, Attempting, Phase
<1>6. UNCHANGED ledger
  BY DEF loadPreview
<1> QED
  BY <1>1, <1>4, <1>5, <1>6, QuietStep

LEMMA PreviewStep ==
    ASSUME RecoveryInv, TypeOK', NEW t \in Tabs, PreviewReturns(t) \/ returnToEdit(t)
    PROVE  RecoveryInv'
<1>1. \A s \in Slots : SlotKept(s)
  BY Untouched DEF PreviewReturns, returnToEdit
<1>2. dialog \in [Tabs -> Dialogs] /\ shell \in [Tabs -> ShellPhases]
  BY DEF RecoveryInv, TypeOK, Dialogs
<1>3. /\ Phase(t)' \in {"ready", "failed", "editing"}
      /\ dialog'[t].key \in {dialog[t].key, None}
      /\ \A u \in Tabs : u # t => dialog'[u] = dialog[u] /\ shell'[u] = shell[u]
  BY <1>2 DEF Phase, Dialogs, PreviewReturns, returnToEdit, To, Idle, applyShellEvent
<1>4. /\ Phase(t)' = "ready" => shell'[t] = "READY_TO_CONFIRM"
      /\ Phase(t)' = "failed" => shell'[t] = "NOT_EXECUTED"
      /\ Phase(t)' = "editing" => shell'[t] = "EDITING"
  <2>1. CASE PreviewReturns(t)
    BY <2>1, <1>2, ShellTransitions
       DEF PreviewReturns, RecoveryInv, ShellFits, Phase, To, applyShellEvent, Dialogs
  <2>2. CASE returnToEdit(t)
    BY <2>2, <1>2 DEF returnToEdit, Phase, Idle
  <2> QED
    BY <2>1, <2>2
<1>5. NoNewAttempt
  BY <1>3 DEF NoNewAttempt, Attempting, Phase
<1>6. UNCHANGED ledger
  BY DEF PreviewReturns, returnToEdit
<1> QED
  BY <1>1, <1>3, <1>4, <1>5, <1>6, QuietStep

(* The Preview runs out, in a dialog that shows it or under an attempt.     *)
LEMMA PreviewExpiresStep ==
    ASSUME RecoveryInv, TypeOK', NEW t \in Tabs, PreviewExpires(t)
    PROVE  RecoveryInv'
<1>1. /\ \A s \in Slots : SlotKept(s)
      /\ UNCHANGED ledger
  BY Untouched DEF PreviewExpires
<1>2. dialog \in [Tabs -> Dialogs] /\ shell \in [Tabs -> ShellPhases]
  BY DEF RecoveryInv, TypeOK, Dialogs
<1>3. /\ shell[t] = "READY_TO_CONFIRM" /\ shell'[t] = "PREVIEW_EXPIRED"
      /\ \A u \in Tabs : u # t => shell'[u] = shell[u]
  BY <1>2, ShellTransitions DEF PreviewExpires, applyShellEvent
<1>4. CASE Phase(t) = "ready"
  <2>1. /\ Phase(t)' = "expired" /\ dialog'[t].key = dialog[t].key
        /\ \A u \in Tabs : u # t => dialog'[u] = dialog[u]
    BY <1>2, <1>4 DEF PreviewExpires, To, Phase, Dialogs
  <2>2. NoNewAttempt
    BY <2>1 DEF NoNewAttempt, Attempting, Phase
  <2> QED
    BY <1>1, <1>3, <2>1, <2>2, QuietStep
<1>5. CASE Phase(t) # "ready"
  <2>1. UNCHANGED dialog
    BY <1>5 DEF PreviewExpires
  <2>2. NoNewAttempt
    BY <2>1 DEF NoNewAttempt, Attempting, Phase
  <2>3. RecordsFit' /\ CorruptIsDead' /\ KeysAreOwn' /\ OpenIsRecorded' /\ OneOpen'
    BY <1>1, <2>2, KeptRecords
  <2>4. AnswersTrue'
    BY <1>1, <2>1 DEF RecoveryInv, AnswersTrue, Phase
  <2>5. ShellFits'
    BY <1>3, <1>5, <2>1 DEF RecoveryInv, ShellFits, Phase, Attempting, RanOut
  <2> QED
    BY <2>3, <2>4, <2>5 DEF RecoveryInv
<1> QED
  BY <1>4, <1>5

(* A tab whose dialog goes away, or that has none.                          *)
LEMMA GoneStep ==
    ASSUME RecoveryInv, TypeOK', NEW t \in Tabs, UNCHANGED ledger, \A s \in Slots : SlotKept(s),
           \/ dialog' = [dialog EXCEPT ![t] = Idle]
              /\ (shell' = shell \/ shell' = [shell EXCEPT ![t] = "AUTO_PREVIEWING"])
           \/ UNCHANGED <<dialog, shell>>
    PROVE  RecoveryInv'
<1>1. dialog \in [Tabs -> Dialogs] /\ shell \in [Tabs -> ShellPhases]
  BY DEF RecoveryInv, TypeOK, Dialogs
<1>2. /\ \A u \in Tabs : u # t => dialog'[u] = dialog[u] /\ shell'[u] = shell[u]
      /\ \/ dialog'[t] = Idle
         \/ UNCHANGED <<dialog, shell>>
  BY <1>1
<1>3. NoNewAttempt
  BY <1>2 DEF NoNewAttempt, Attempting, Phase, Idle
<1>4. RecordsFit' /\ CorruptIsDead' /\ KeysAreOwn' /\ OpenIsRecorded' /\ OneOpen'
  BY <1>3, KeptRecords
<1>5. AnswersTrue'
  BY <1>2 DEF RecoveryInv, AnswersTrue, Phase, Idle
<1>6. ShellFits'
  BY <1>2, RecoveryAssumption DEF RecoveryInv, ShellFits, Phase, Attempting, Idle, Keys, RanOut
<1> QED
  BY <1>4, <1>5, <1>6 DEF RecoveryInv

LEMMA UnmountStep ==
    ASSUME RecoveryInv, TypeOK', NEW t \in Tabs, Unmount(t)
    PROVE  RecoveryInv'
BY GoneStep, Untouched DEF Unmount

LEMMA ReplaceTabStep ==
    ASSUME RecoveryInv, TypeOK', NEW t \in Tabs, ReplaceTab(t)
    PROVE  RecoveryInv'
<1>1. TypeOK /\ RecordsFit /\ OpenIsRecorded
  BY DEF RecoveryInv
<1>2. \A u \in Tabs, s \in Slots : mirror'[u][s] = None \/ \E w \in Tabs : mirror'[u][s] = mirror[w][s]
  <2>1. \E m : /\ mirror' = [mirror EXCEPT ![t] = m]
               /\ m = [s \in Slots |-> None] \/ \E w \in Tabs : m = mirror[w]
    BY DEF ReplaceTab
  <2>2. PICK m : /\ mirror' = [mirror EXCEPT ![t] = m]
                 /\ m = [s \in Slots |-> None] \/ \E w \in Tabs : m = mirror[w]
    BY <2>1
  <2>3. \A u \in Tabs : mirror'[u] = IF u = t THEN m ELSE mirror[u]
    BY <1>1, <2>2 DEF TypeOK
  <2> QED
    BY <2>2, <2>3
<1>3. \A s \in Slots : SlotKept(s)
  BY <1>1, <1>2 DEF SlotKept, RecordsFit, RecordFits, OpenIsRecorded, Corrupt, ReplaceTab
<1> QED
  BY <1>3, GoneStep DEF ReplaceTab

LEMMA refreshActiveSnapshotStep ==
    ASSUME RecoveryInv, TypeOK', NEW t \in Tabs, refreshActiveSnapshot(t)
    PROVE  RecoveryInv'
BY GoneStep, ReadOnly DEF refreshActiveSnapshot

-----------------------------------------------------------------------------
(* Steps that drop or settle a record.                                      *)

(* What may become of the record of a slot of storage that was read.        *)
Fits(r, s) ==
    /\ r \in Stores
    /\ RecordFits(r.auth, s) /\ RecordFits(r.mirror, s)
    /\ r.auth # None /\ r.marker # None /\ r.auth.key # r.marker.key
          => Corrupt(s) /\ r.auth = auth[s]
    /\ \A k \in Keys : Open(k) /\ SlotOf(k) = s => r.auth # None /\ r.auth.key = k

LEMMA ReadFits ==
    ASSUME RecoveryInv, NEW t \in Tabs, NEW s \in Slots
    PROVE  Fits(Read(t, s), s) /\ Fits(ReadBoth(t)[s], s)
<1>1. Read(t, s) \in Stores
  BY ReadResult DEF RecoveryInv
<1> QED
  BY <1>1, ReadKeeps DEF Fits, ReadBoth

LEMMA FitsAreKept ==
    ASSUME RecoveryInv, NEW t \in Tabs, NEW st, Stored(t, st), \A s \in Slots : Fits(st[s], s)
    PROVE  \A s \in Slots : SlotKept(s)
BY StoredKeeps DEF Fits

(* A record may be dropped when its command is not open.                    *)
LEMMA DropFits ==
    ASSUME NEW s \in Slots, NEW r, Fits(r, s), \A k \in Keys : Open(k) /\ SlotOf(k) = s => FALSE
    PROVE  Fits(Drop(r), s)
<1>1. /\ Drop(r) \in Stores /\ Drop(r).auth = None
      /\ Drop(r).mirror \in {None, r.mirror}
  BY DropResult DEF Fits
<1> QED
  BY <1>1 DEF Fits, RecordFits

(* A record may be replaced by another of its command that tells no wrong   *)
(* result.                                                                   *)
LEMMA WriteFits ==
    ASSUME RecoveryInv, NEW s \in Slots, NEW r, Fits(r, s), r.kind = "VALID", r.mirror = r.auth,
           r.auth # None,
           NEW v \in PersistedCommandRecovery, v.key = r.auth.key,
           v.state \in Terminal => ledger[v.key] = v.state
    PROVE  Fits(Write(v, r), s)
<1>1. Write(v, r) = [kind |-> "VALID", auth |-> v, marker |-> v, mirror |-> v]
  BY WriteResult DEF Fits
<1>2. Write(v, r) \in Stores
  BY WriteDropTypes DEF Fits
<1>3. v # None
  BY RecoveryAssumption
<1> QED
  BY <1>1, <1>2, <1>3 DEF Fits, RecordFits

(* A terminal record is of a command that is not open.                      *)
LEMMA ClosedIsNotOpen ==
    ASSUME RecoveryInv, NEW s \in Slots, NEW r, Fits(r, s), r.auth # None,
           r.auth.state \in Terminal
    PROVE  \A k \in Keys : Open(k) /\ SlotOf(k) = s => FALSE
BY DEF Fits, RecordFits, Open, Terminal

LEMMA clearResolvedKeeps ==
    ASSUME RecoveryInv, NEW t \in Tabs, Stored(t, clearResolved(ReadBoth(t)))
    PROVE  \A s \in Slots : SlotKept(s)
<1> DEFINE st == clearResolved(ReadBoth(t))
<1>1. ASSUME NEW s \in Slots PROVE Fits(st[s], s)
  <2>1. Fits(ReadBoth(t)[s], s)
    BY ReadFits
  <2>2. \/ st[s] = ReadBoth(t)[s]
        \/ /\ st[s] = Drop(ReadBoth(t)[s])
           /\ ReadBoth(t)[s].kind = "VALID" /\ ReadBoth(t)[s].auth.state \in Terminal
    BY DEF clearResolved, clearTerminalPersistedCommandRecoveryIfPresent, ReadBoth
  <2>3. ReadBoth(t)[s].kind = "VALID" => ReadBoth(t)[s].auth # None
    BY ReadResult DEF ReadBoth, RecoveryInv
  <2> QED
    BY <2>1, <2>2, <2>3, DropFits, ClosedIsNotOpen
<1> QED
  BY <1>1, FitsAreKept

LEMMA CloseStep ==
    ASSUME RecoveryInv, TypeOK', NEW t \in Tabs,
           usePersistentCommandRecovery(t) \/ closeCommandDialog(t)
    PROVE  RecoveryInv'
BY GoneStep, clearResolvedKeeps DEF usePersistentCommandRecovery, closeCommandDialog

(* A record that cannot be read is of a command that never left.            *)
LEMMA discardCorruptAfterReviewStep ==
    ASSUME RecoveryInv, TypeOK', NEW t \in Tabs, discardCorruptAfterReview(t)
    PROVE  RecoveryInv'
<1>1. PICK s \in Slots : /\ Read(t, s).kind = "CORRUPT"
                         /\ Stored(t, [ReadBoth(t) EXCEPT ![s] = Drop(@)])
  BY DEF discardCorruptAfterReview
<1> DEFINE st == [ReadBoth(t) EXCEPT ![s] = Drop(@)]
<1>2. Corrupt(s)
  BY <1>1, ReadResult DEF RecoveryInv
<1>3. \A k \in Keys : Open(k) /\ SlotOf(k) = s => FALSE
  BY <1>2 DEF RecoveryInv, CorruptIsDead, OpenIsRecorded, Open
<1>4. ASSUME NEW x \in Slots PROVE Fits(st[x], x)
  <2>1. Fits(ReadBoth(t)[x], x)
    BY ReadFits
  <2>2. st[x] = IF x = s THEN Drop(ReadBoth(t)[x]) ELSE ReadBoth(t)[x]
    BY DEF ReadBoth
  <2> QED
    BY <2>1, <2>2, <1>3, DropFits
<1>5. \A x \in Slots : SlotKept(x)
  BY <1>1, <1>4, FitsAreKept
<1> QED
  BY <1>5, GoneStep DEF discardCorruptAfterReview

(* The answer to a command is the server's, and a command that was refused  *)
(* is open no more.                                                         *)
LEMMA ProgressFits ==
    ASSUME RecoveryInv, NEW t \in Tabs, Phase(t) = "answered",
           NEW r, Fits(r, SlotOf(dialog[t].key)),
           r.kind = "VALID" => r.auth # None /\ r.mirror = r.auth
    PROVE  LET k == dialog[t].key
               a == dialog[t].answer
           IN  /\ Fits(transitionPersistedCommandRecovery(r, k, a), SlotOf(k))
               /\ Fits(transitionQuoteRecovery(r, k, a), SlotOf(k))
<1> DEFINE k == dialog[t].key
           a == dialog[t].answer
           s == SlotOf(k)
<1>1. k \in Keys /\ a \in Answers /\ s \in Slots
  BY DEF RecoveryInv, TypeOK, AnswersTrue, SlotOf, Slots
<1>2. a \in Terminal => ledger[k] = a
  BY DEF RecoveryInv, AnswersTrue
<1>3. a \in Terminal \cup {"REFUSED"} => ~Open(k)
  BY DEF RecoveryInv, AnswersTrue, Open, Terminal
<1>4. r.kind = "VALID" /\ r.auth.key = k /\ ~Open(k) => Fits(Drop(r), s)
  <2>1. SUFFICES ASSUME r.kind = "VALID", r.auth.key = k, ~Open(k) PROVE Fits(Drop(r), s)
    OBVIOUS
  <2>2. \A j \in Keys : Open(j) /\ SlotOf(j) = s => FALSE
    BY <2>1 DEF Fits
  <2> QED
    BY <2>2, <1>1, DropFits
<1>5. r.kind = "VALID" /\ r.auth.key = k /\ a # "REFUSED"
         => Fits(Write([key |-> k, state |-> a], r), s)
  <2>1. SUFFICES ASSUME r.kind = "VALID", r.auth.key = k, a # "REFUSED"
                 PROVE  Fits(Write([key |-> k, state |-> a], r), s)
    OBVIOUS
  <2>2. [key |-> k, state |-> a] \in PersistedCommandRecovery
    BY <1>1, <2>1 DEF PersistedCommandRecovery, Answers, Terminal
  <2> QED
    BY <2>1, <2>2, <1>1, <1>2, WriteFits
<1>6. Fits(transitionPersistedCommandRecovery(r, k, a), s)
  BY <1>1, <1>3, <1>4, <1>5 DEF transitionPersistedCommandRecovery
<1>7. Fits(transitionQuoteRecovery(r, k, a), s)
  BY <1>1, <1>3, <1>4, <1>5 DEF transitionQuoteRecovery, Answers, Terminal
<1> QED
  BY <1>6, <1>7

LEMMA recordPostSendProgressStep ==
    ASSUME RecoveryInv, TypeOK', NEW t \in Tabs, recordPostSendProgress(t)
    PROVE  RecoveryInv'
<1> DEFINE k == dialog[t].key
           a == dialog[t].answer
           r == Read(t, "COMMAND")
           kept == r.kind \in {"CORRUPT", "READ_ERROR"}
           next == transitionPersistedCommandRecovery(r, k, a)
           st == [ReadBoth(t) EXCEPT !["COMMAND"] = IF kept THEN r ELSE next]
<1>1. /\ SlotOf(k) = "COMMAND" /\ "COMMAND" \in Slots /\ Phase(t) = "answered"
      /\ k \in CommandKeys /\ k # None
  BY RecoveryAssumption
     DEF recordPostSendProgress, Slots, SlotOf, RecoveryInv, TypeOK, AnswersTrue, Keys
<1>2. Fits(r, "COMMAND") /\ (r.kind = "VALID" => r.auth # None /\ r.mirror = r.auth)
  BY <1>1, ReadFits, ReadResult DEF RecoveryInv
<1>3. Fits(next, "COMMAND")
  BY <1>1, <1>2, ProgressFits
<1>4. Stored(t, st)
  BY DEF recordPostSendProgress
<1>5. \A s \in Slots : Fits(st[s], s)
  <2>1. \A s \in Slots : st[s] = IF s = "COMMAND" THEN IF kept THEN r ELSE next ELSE ReadBoth(t)[s]
    BY DEF ReadBoth
  <2> HIDE DEF st, next, r, kept
  <2> QED
    BY <2>1, <1>2, <1>3, ReadFits
<1>6. \A s \in Slots : SlotKept(s)
  BY <1>4, <1>5, FitsAreKept
<1> HIDE DEF st, next, r
<1>7. dialog \in [Tabs -> Dialogs] /\ shell \in [Tabs -> ShellPhases]
  BY DEF RecoveryInv, TypeOK, Dialogs
<1>8. shell[t] \in Uncertain \/ RanOut(t)
  BY <1>1 DEF RecoveryInv, ShellFits, Uncertain
<1>9. /\ \A u \in Tabs : u # t => dialog'[u] = dialog[u] /\ shell'[u] = shell[u]
      /\ \/ /\ dialog'[t] = [dialog[t] EXCEPT !.phase = "uncertain"]
            /\ shell'[t] = transitionCommandShell(shell[t], "RESULT_UNKNOWN")
         \/ /\ dialog'[t] = [Idle EXCEPT !.phase = "failed"]
            /\ shell'[t] = transitionCommandShell(shell[t], "NOT_EXECUTED")
         \/ /\ dialog'[t] = [dialog[t] EXCEPT !.phase = "closing"]
            /\ a \notin {"REFUSED", "UNKNOWN"}
            /\ shell'[t] = transitionCommandShell(shell[t], IF a = "EXECUTED" THEN "SUCCEEDED"
                                                           ELSE "NOT_EXECUTED")
  BY <1>7 DEF recordPostSendProgress, To, applyShellEvent
<1>10. \/ /\ Phase(t)' = "uncertain" /\ dialog'[t].key = k
          /\ shell'[t] = "RESULT_UNKNOWN" \/ RanOut(t)'
       \/ /\ Phase(t)' = "failed" /\ dialog'[t].key = None
          /\ shell'[t] = "NOT_EXECUTED" \/ shell'[t] = "PREVIEW_EXPIRED"
       \/ /\ Phase(t)' = "closing" /\ dialog'[t].key = k /\ dialog'[t].answer = a
          /\ a \in Terminal
          /\ shell'[t] = (IF a = "EXECUTED" THEN "SUCCEEDED" ELSE "NOT_EXECUTED") \/ RanOut(t)'
  <2>1. a \in Answers /\ dialog[t] \in Dialogs
    BY <1>1, <1>7 DEF RecoveryInv, AnswersTrue, Dialogs
  <2> QED
    BY <1>8, <1>9, <2>1, ShellTransitions
       DEF Phase, Dialogs, Idle, Settling, Answers, Terminal, RanOut
<1>11. UNCHANGED ledger
  BY DEF recordPostSendProgress
<1>12. NoNewAttempt
  BY <1>9, <1>10 DEF NoNewAttempt, Attempting, Phase
<1>13. RecordsFit' /\ CorruptIsDead' /\ KeysAreOwn' /\ OpenIsRecorded' /\ OneOpen'
  BY <1>6, <1>11, <1>12, KeptRecords
<1>14. AnswersTrue'
  BY <1>1, <1>9, <1>10, <1>11 DEF RecoveryInv, AnswersTrue, Phase
<1>15. ShellFits'
  BY <1>9, <1>10 DEF RecoveryInv, ShellFits, Phase, Attempting, RanOut
<1> QED
  BY <1>13, <1>14, <1>15 DEF RecoveryInv

LEMMA QuoteReturnsStep ==
    ASSUME RecoveryInv, TypeOK', NEW t \in Tabs, QuoteReturns(t)
    PROVE  RecoveryInv'
<1> DEFINE r == ReadBoth(t)["QUOTE"]
           next == transitionQuoteRecovery(r, dialog[t].key, dialog[t].answer)
           st == [ReadBoth(t) EXCEPT !["QUOTE"] = next]
<1>1. SlotOf(dialog[t].key) = "QUOTE" /\ "QUOTE" \in Slots /\ Phase(t) = "answered"
  BY DEF QuoteReturns, Slots
<1>2. Fits(r, "QUOTE") /\ (r.kind = "VALID" => r.auth # None /\ r.mirror = r.auth)
  BY <1>1, ReadFits, ReadResult DEF RecoveryInv, ReadBoth
<1>3. Fits(next, "QUOTE")
  BY <1>1, <1>2, ProgressFits
<1>4. \A s \in Slots : Fits(st[s], s)
  <2>1. \A s \in Slots : st[s] = IF s = "QUOTE" THEN next ELSE ReadBoth(t)[s]
    BY DEF ReadBoth
  <2> HIDE DEF st, next, r
  <2> QED
    BY <2>1, <1>3, ReadFits
<1>5. Stored(t, st) \/ Stored(t, ReadBoth(t))
  BY DEF QuoteReturns
<1>6. \A s \in Slots : SlotKept(s)
  BY <1>4, <1>5, FitsAreKept, ReadOnly
<1> QED
  BY <1>6, GoneStep DEF QuoteReturns

LEMMA AnsweredStep ==
    ASSUME RecoveryInv, TypeOK', NEW t \in Tabs, Answered(t)
    PROVE  RecoveryInv'
<1> DEFINE k == dialog[t].key
<1>1. dialog \in [Tabs -> Dialogs]
  BY DEF RecoveryInv, TypeOK, Dialogs
<1>2. /\ \A u \in Tabs : u # t => dialog'[u] = dialog[u]
      /\ Phase(t) = "waiting" /\ Phase(t)' = "answered" /\ dialog'[t].key = k
      /\ dialog'[t].recovery = dialog[t].recovery
      /\ dialog'[t].answer = "UNKNOWN" \/ dialog'[t].answer = ledger[k]
  BY <1>1 DEF Answered, Phase, Dialogs
<1>3. UNCHANGED ledger /\ UNCHANGED shell /\ UNCHANGED storage
  BY DEF Answered
<1>4. NoNewAttempt
  BY <1>2 DEF NoNewAttempt, Attempting, Phase
<1>5. RecordsFit' /\ CorruptIsDead' /\ KeysAreOwn' /\ OpenIsRecorded' /\ OneOpen'
  BY <1>3, <1>4, Untouched, KeptRecords
<1>6. dialog'[t].answer \in Answers
  <2>1. k \in Keys /\ ledger[k] \notin {"UNUSED", "TAKEN"} /\ k # None
    BY <1>2 DEF RecoveryInv, TypeOK, AnswersTrue
  <2> QED
    BY <2>1, <1>1 DEF Answered, RecoveryInv, TypeOK, Dialogs, Answers
<1>7. AnswersTrue'
  BY <1>2, <1>3, <1>6 DEF RecoveryInv, AnswersTrue, Phase, Terminal
<1>8. ShellFits'
  BY <1>2, <1>3 DEF RecoveryInv, ShellFits, Phase, Attempting, RanOut
<1> QED
  BY <1>5, <1>7, <1>8 DEF RecoveryInv

(* The server decides one request.                                          *)
LEMMA DecideStep ==
    ASSUME RecoveryInv, TypeOK', NEW k \in Keys, Decide(k)
    PROVE  RecoveryInv'
<1> USE DEF RecoveryInv
<1>1. /\ ledger[k] = "SENT" /\ ledger'[k] \in Terminal \cup {"REFUSED"}
      /\ \A j \in Keys : j # k => ledger'[j] = ledger[j]
      /\ UNCHANGED <<storage, dialog, shell>>
  BY DEF Decide, TypeOK
<1>2. \A t \in Tabs : Phase(t)' = Phase(t) /\ (Attempting(t)' <=> Attempting(t))
  BY <1>1 DEF Phase, Attempting
<1>3. /\ \A s \in Slots : auth[s] # None => auth[s].key \in Keys
      /\ \A s \in Slots, t \in Tabs : mirror[t][s] # None => mirror[t][s].key \in Keys
      /\ \A t \in Tabs : dialog[t].key # None => dialog[t].key \in Keys
  BY DEF TypeOK, Kept, PersistedCommandRecovery
<1>4. RecordsFit'
  BY <1>1, <1>2, <1>3 DEF RecordsFit, RecordFits, Terminal, storage
<1>5. CorruptIsDead'
  BY <1>1, <1>3 DEF CorruptIsDead, Corrupt, storage
<1>6. KeysAreOwn'
  BY <1>1, <1>2, <1>3 DEF KeysAreOwn, Terminal, Attempting
<1>7. \A j \in Keys : Open(j)' => Open(j)
  BY <1>1, <1>2 DEF Open, Terminal
<1>8. OpenIsRecorded' /\ OneOpen'
  BY <1>1, <1>7 DEF OpenIsRecorded, OneOpen, storage
<1>9. AnswersTrue'
  BY <1>1, <1>2, <1>3 DEF AnswersTrue, Terminal
<1>10. ShellFits'
  BY <1>1, <1>2 DEF ShellFits, RanOut
<1> QED
  BY <1>4, <1>5, <1>6, <1>8, <1>9, <1>10

-----------------------------------------------------------------------------
(* Steps that begin, record, send and settle an attempt.                    *)

LEMMA AttemptStep ==
    ASSUME RecoveryInv, TypeOK', NEW t \in Tabs, confirm(t) \/ createQuote(t)
    PROVE  RecoveryInv'
<1> USE DEF RecoveryInv
<1>1. PICK K : /\ Attempt(t, K)
               /\ \/ K = CommandKeys /\ Phase(t) = "ready"
                  \/ K = QuoteKeys
  BY DEF confirm, createQuote
<1> DEFINE k == recoveryKey(K)
<1>2. k \in K /\ k \in Keys /\ ledger[k] = "UNUSED"
  BY <1>1, AttemptType
<1>3. /\ dialog' = [dialog EXCEPT ![t] = [Idle EXCEPT !.phase = "claiming", !.key = k]]
      /\ ledger' = [ledger EXCEPT ![k] = "TAKEN"]
      /\ UNCHANGED storage /\ UNCHANGED shell
  BY <1>1 DEF Attempt
<1> HIDE DEF k
<1>4. /\ Phase(t)' = "claiming" /\ dialog'[t].key = k /\ ledger'[k] = "TAKEN"
      /\ \A u \in Tabs : u # t => dialog'[u] = dialog[u]
      /\ \A j \in Keys : j # k => ledger'[j] = ledger[j]
  BY <1>2, <1>3 DEF TypeOK, Phase, Idle
<1>5. /\ \A s \in Slots : auth[s] # None => auth[s].key \in Keys /\ auth[s].key # k
      /\ \A s \in Slots, u \in Tabs : mirror[u][s] # None
            => mirror[u][s].key \in Keys /\ mirror[u][s].key # k
      /\ \A u \in Tabs : dialog[u].key # None => dialog[u].key \in Keys /\ dialog[u].key # k
  BY <1>2 DEF TypeOK, Kept, PersistedCommandRecovery, RecordsFit, RecordFits, KeysAreOwn
<1>6. RecordsFit'
  BY <1>2, <1>3, <1>4, <1>5 DEF RecordsFit, RecordFits, Phase, storage, Terminal
<1>7. CorruptIsDead'
  BY <1>3, <1>4, <1>5 DEF CorruptIsDead, Corrupt, storage
<1>8. KeysAreOwn'
  BY <1>2, <1>4, <1>5, RecoveryAssumption DEF KeysAreOwn, Phase, Attempting
<1>9. \A j \in Keys : Open(j)' => Open(j)
  <2>1. ASSUME NEW j \in Keys, Open(j)' PROVE Open(j)
    <3>1. ledger'[j] = "SENT" => ledger[j] = "SENT"
      BY <1>4, <1>2
    <3>2. ASSUME NEW u \in Tabs, Phase(u)' = "claimed", dialog'[u].key = j, ledger'[j] = "TAKEN"
          PROVE  Open(j)
      <4>1. u # t /\ dialog'[u] = dialog[u]
        BY <3>2, <1>4
      <4>2. Phase(u) = "claimed" /\ dialog[u].key = j
        BY <3>2, <4>1 DEF Phase
      <4>3. j # k
        BY <4>2, <1>5, RecoveryAssumption
      <4> QED
        BY <3>2, <4>2, <4>3, <1>4 DEF Open
    <3> QED
      BY <2>1, <3>1, <3>2 DEF Open
  <2> QED
    BY <2>1
<1>10. OpenIsRecorded' /\ OneOpen'
  BY <1>3, <1>9 DEF OpenIsRecorded, OneOpen, storage
<1>11. AnswersTrue'
  BY <1>2, <1>4, <1>5 DEF AnswersTrue, Phase
<1>12. ShellFits'
  <2>1. k \in CommandKeys => Phase(t) = "ready"
    BY <1>1, <1>2, RecoveryAssumption
  <2> QED
    BY <1>3, <1>4, <2>1 DEF ShellFits, Phase, Attempting, RanOut, Idle
<1> QED
  BY <1>6, <1>7, <1>8, <1>10, <1>11, <1>12

LEMMA ClaimStep ==
    ASSUME RecoveryInv, TypeOK', NEW t \in Tabs, Claim(t)
    PROVE  RecoveryInv'
<1> USE DEF RecoveryInv
<1> DEFINE k == dialog[t].key
           z == SlotOf(k)
           v == [key |-> k, state |-> "CONFIRMING"]
<1>1. /\ k \in Keys /\ k # None /\ z \in Slots /\ v \in PersistedCommandRecovery
      /\ Phase(t) = "claiming" /\ ledger[k] = "TAKEN"
      /\ \A u \in Tabs : u # t => dialog[u].key # k
  BY RecoveryAssumption
     DEF Claim, TypeOK, KeysAreOwn, Attempting, PersistedCommandRecovery, SlotOf, Slots
<1>2. UNCHANGED ledger /\ UNCHANGED shell
  BY DEF Claim
<1>d. dialog \in [Tabs -> Dialogs]
  BY DEF TypeOK, Dialogs
<1>3. ASSUME ~MayClaim(ReadBoth(t), z) PROVE RecoveryInv'
  <2>1. \A s \in Slots : SlotKept(s)
    BY <1>3, ReadOnly DEF Claim
  <2>2. /\ \A u \in Tabs : u # t => dialog'[u] = dialog[u]
        /\ dialog'[t].key = None
        /\ Phase(t)' = CASE z = "QUOTE" -> "idle"
                          [] shell[t] = "PREVIEW_EXPIRED" -> "expired"
                          [] OTHER -> "ready"
    BY <1>3, <1>d DEF Claim, Phase, Idle
  <2>3. NoNewAttempt
    BY <2>2 DEF NoNewAttempt, Attempting, Phase
  <2>4. RecordsFit' /\ CorruptIsDead' /\ KeysAreOwn' /\ OpenIsRecorded' /\ OneOpen'
    BY <2>1, <2>3, <1>2, KeptRecords
  <2>5. AnswersTrue'
    BY <1>2, <2>2 DEF AnswersTrue, Phase
  <2>6. z # "QUOTE" => shell[t] \in {"READY_TO_CONFIRM", "PREVIEW_EXPIRED"}
    BY <1>1 DEF ShellFits, Attempting, SlotOf, Keys, RanOut
  <2>7. ShellFits'
    BY <1>2, <2>2, <2>6, RecoveryAssumption DEF ShellFits, Phase, Attempting, Keys, RanOut
  <2> QED
    BY <2>4, <2>5, <2>7
<1>4. ASSUME MayClaim(ReadBoth(t), z) PROVE RecoveryInv'
  <2> DEFINE st == [ReadBoth(t) EXCEPT ![z] = Write(v, @)]
  <2>1. \A s \in Slots : Read(t, s).kind = "ABSENT" /\ Read(t, s).auth = None /\ auth[s] = None
                         /\ Read(t, s) \in Stores
    BY <1>4, ReadResult DEF MayClaim, commandRecoverySnapshotIsBlocked, ReadBoth
  <2>2. \A j \in Keys : ~Open(j)
    BY <2>1 DEF OpenIsRecorded, SlotOf, Slots
  <2>3. /\ st[z] = [kind |-> "VALID", auth |-> v, marker |-> v, mirror |-> v]
        /\ \A s \in Slots : s # z => st[s] = Read(t, s)
    <3>1. Write(v, Read(t, z)) = [kind |-> "VALID", auth |-> v, marker |-> v, mirror |-> v]
      BY <1>1, <2>1, WriteResult
    <3>2. \A s \in Slots : ReadBoth(t)[s] = Read(t, s)
      BY DEF ReadBoth
    <3>3. st[z] = Write(v, ReadBoth(t)[z]) /\ \A s \in Slots : s # z => st[s] = ReadBoth(t)[s]
      BY <1>1 DEF ReadBoth
    <3> QED
      BY <3>1, <3>2, <3>3, <1>1
  <2>4. Stored(t, st)
    BY <1>4 DEF Claim
  <2> HIDE DEF st
  <2>5. /\ auth'[z] = v /\ marker'[z] = v /\ mirror'[t][z] = v
        /\ \A s \in Slots : s # z => auth'[s] = None /\ mirror'[t][s] = Read(t, s).mirror
        /\ \A u \in Tabs : u # t => mirror'[u] = mirror[u]
    <3>1. TypeOK
      OBVIOUS
    <3>2. /\ \A s \in Slots : auth'[s] = st[s].auth /\ marker'[s] = st[s].marker
                               /\ mirror'[t][s] = st[s].mirror
          /\ \A u \in Tabs : u # t => mirror'[u] = mirror[u]
      BY <3>1, <2>4, StoredResult
    <3> QED
      BY <3>2, <2>1, <2>3, <1>1
  <2>6. /\ \A u \in Tabs : u # t => dialog'[u] = dialog[u]
        /\ dialog'[t].key = k /\ Phase(t)' = "claimed"
        /\ dialog'[t].recovery = dialog[t].recovery
    BY <1>4, <1>d DEF Claim, To, Phase, Dialogs
  <2>7. RecordsFit'
    <3>1. \A r \in PersistedCommandRecovery, s \in Slots : r = v /\ s = z => RecordFits(r, s)'
      BY <1>1, <1>2, <2>6 DEF RecordFits, Phase, Terminal
    <3>2. \A u \in Tabs : Phase(u)' = "claiming" => Phase(u) = "claiming" /\ dialog'[u] = dialog[u]
      BY <2>6 DEF Phase
    <3>3. \A s \in Slots : \A r : RecordFits(r, s) => RecordFits(r, s)'
      BY <1>2, <3>2 DEF RecordFits, Phase
    <3>4. \A s \in Slots : RecordFits(Read(t, s).mirror, s) /\ RecordFits(None, s)
      BY ReadFits DEF Fits, RecordFits
    <3>5. \A s \in Slots : RecordFits(auth[s], s)'
      BY <3>1, <3>3, <3>4, <2>5, <1>1
    <3>6. \A s \in Slots, u \in Tabs : RecordFits(mirror[u][s], s)'
      BY <3>1, <3>3, <3>4, <2>5, <1>1 DEF RecordsFit
    <3> QED
      BY <3>5, <3>6 DEF RecordsFit
  <2>8. CorruptIsDead'
    BY <2>5 DEF CorruptIsDead, Corrupt
  <2>9. KeysAreOwn'
    BY <1>1, <1>2, <2>6 DEF KeysAreOwn, Attempting, Phase
  <2>10. \A j \in Keys : Open(j)' => j = k
    BY <1>2, <2>2, <2>6 DEF Open, Phase
  <2>11. OpenIsRecorded' /\ OneOpen'
    BY <2>5, <2>10, <1>1, RecoveryAssumption DEF OpenIsRecorded, OneOpen
  <2>12. AnswersTrue'
    BY <1>2, <2>6 DEF AnswersTrue, Phase
  <2>13. ShellFits'
    BY <1>1, <1>2, <2>6 DEF ShellFits, Phase, Attempting, RanOut
  <2> QED
    BY <2>7, <2>8, <2>9, <2>11, <2>12, <2>13
<1> QED
  BY <1>3, <1>4

(* The torn record is of a key that its tab forgets.                        *)
LEMMA TornWriteStep ==
    ASSUME RecoveryInv, TypeOK', NEW t \in Tabs, TornWrite(t)
    PROVE  RecoveryInv'
<1> DEFINE k == dialog[t].key
           z == SlotOf(k)
           v == [key |-> k, state |-> "CONFIRMING"]
           torn == [ReadBoth(t)[z] EXCEPT !.auth = v]
           cut == [Drop(ReadBoth(t)["COMMAND"]) EXCEPT !.mirror = ReadBoth(t)["COMMAND"].mirror]
<1>1. UNCHANGED ledger
  BY DEF TornWrite
<1>2. dialog' = [dialog EXCEPT ![t] = Idle] /\ shell' = [shell EXCEPT ![t] = "AUTO_PREVIEWING"]
  BY DEF TornWrite
<1>3. ASSUME Phase(t) = "closing", ReadBoth(t)["COMMAND"].kind = "VALID",
             ReadBoth(t)["COMMAND"].auth.state \in Terminal,
             Stored(t, [ReadBoth(t) EXCEPT !["COMMAND"] = cut])
      PROVE  RecoveryInv'
  <2> DEFINE r == ReadBoth(t)["COMMAND"]
             st == [ReadBoth(t) EXCEPT !["COMMAND"] = cut]
  <2>0. "COMMAND" \in Slots
    BY DEF Slots
  <2>1. Fits(r, "COMMAND") /\ r.auth # None /\ r \in Stores
    BY <2>0, <1>3, ReadFits, ReadResult DEF ReadBoth, RecoveryInv
  <2>2. Fits(Drop(r), "COMMAND")
    BY <2>0, <2>1, <1>3, DropFits, ClosedIsNotOpen
  <2>3. Fits(cut, "COMMAND")
    <3>1. /\ cut \in Stores /\ cut.auth = Drop(r).auth /\ cut.marker = Drop(r).marker
          /\ cut.mirror = r.mirror
      BY <2>1, DropResult DEF Stores
    <3> QED
      BY <3>1, <2>1, <2>2 DEF Fits
  <2> HIDE DEF cut
  <2>4. \A s \in Slots : st[s] = IF s = "COMMAND" THEN cut ELSE ReadBoth(t)[s]
    BY DEF ReadBoth
  <2>5. Stored(t, st)
    BY <1>3
  <2> HIDE DEF st
  <2>6. \A s \in Slots : Fits(st[s], s)
    BY <2>3, <2>4, ReadFits
  <2>7. \A s \in Slots : SlotKept(s)
    BY <2>5, <2>6, FitsAreKept
  <2> QED
    BY <2>7, <1>1, <1>2, GoneStep
<1>4. ASSUME Phase(t) = "claiming", MayClaim(ReadBoth(t), z),
             Stored(t, [ReadBoth(t) EXCEPT ![z] = torn])
      PROVE  RecoveryInv'
  <2> USE DEF RecoveryInv
  <2> DEFINE st == [ReadBoth(t) EXCEPT ![z] = torn]
  <2>1. \A s \in Slots : Read(t, s).kind = "ABSENT" /\ Read(t, s).auth = None /\ auth[s] = None
                         /\ Read(t, s) \in Stores
    BY <1>4, ReadResult DEF MayClaim, commandRecoverySnapshotIsBlocked, ReadBoth
  <2>2. \A j \in Keys : ~Open(j)
    BY <2>1 DEF OpenIsRecorded, SlotOf, Slots
  <2>3. /\ k \in Keys /\ k # None /\ z \in Slots /\ v \in PersistedCommandRecovery
        /\ ledger[k] = "TAKEN"
        /\ \A u \in Tabs : u # t => dialog[u].key # k
    BY <1>4, RecoveryAssumption
       DEF TypeOK, KeysAreOwn, Attempting, PersistedCommandRecovery, SlotOf, Slots
  <2>4. torn.auth = v /\ torn.mirror = Read(t, z).mirror
    BY <2>1, <2>3 DEF Stores, ReadBoth
  <2>5. \A s \in Slots : st[s] = IF s = z THEN torn ELSE Read(t, s)
    BY DEF ReadBoth
  <2>6. Stored(t, st)
    BY <1>4
  <2> HIDE DEF st, torn
  <2>7. /\ auth'[z] = v
        /\ \A s \in Slots : s # z => auth'[s] = None
        /\ \A s \in Slots : mirror'[t][s] = Read(t, s).mirror
        /\ \A u \in Tabs : u # t => mirror'[u] = mirror[u]
    <3>1. TypeOK
      OBVIOUS
    <3>2. /\ \A s \in Slots : auth'[s] = st[s].auth /\ mirror'[t][s] = st[s].mirror
          /\ \A u \in Tabs : u # t => mirror'[u] = mirror[u]
      BY <3>1, <2>6, StoredResult
    <3> QED
      BY <3>2, <2>1, <2>3, <2>4, <2>5
  <2>8. /\ \A u \in Tabs : u # t => dialog'[u] = dialog[u]
        /\ dialog'[t] = Idle
    BY <1>2 DEF TypeOK
  <2>9. \A u \in Tabs : Phase(u)' \in {"claiming", "claimed"} => u # t /\ Phase(u)' = Phase(u)
    BY <2>8 DEF Phase, Idle
  <2>10. RecordsFit'
    <3>1. \A r \in PersistedCommandRecovery, s \in Slots : r = v /\ s = z => RecordFits(r, s)'
      BY <1>1, <2>3, <2>8, <2>9 DEF RecordFits, Phase, Terminal, Idle
    <3>2. \A s \in Slots : \A r : RecordFits(r, s) => RecordFits(r, s)'
      BY <1>1, <2>8, <2>9 DEF RecordFits, Phase
    <3>3. \A s \in Slots : RecordFits(Read(t, s).mirror, s) /\ RecordFits(None, s)
      BY ReadFits DEF Fits, RecordFits
    <3>4. \A s \in Slots : RecordFits(auth[s], s)'
      BY <3>1, <3>2, <3>3, <2>7, <2>3
    <3>5. \A s \in Slots, u \in Tabs : RecordFits(mirror[u][s], s)'
      BY <3>1, <3>2, <3>3, <2>7 DEF RecordsFit
    <3> QED
      BY <3>4, <3>5 DEF RecordsFit
  <2>11. CorruptIsDead'
    BY <1>1, <2>3, <2>7, <2>8 DEF CorruptIsDead, Corrupt, Idle
  <2>12. KeysAreOwn'
    BY <1>1, <2>8, <2>9, RecoveryAssumption DEF KeysAreOwn, Attempting, Idle, Phase
  <2>13. \A j \in Keys : Open(j)' => Open(j)
    BY <1>1, <2>8, <2>9 DEF Open, Phase
  <2>14. OpenIsRecorded' /\ OneOpen'
    BY <2>2, <2>13 DEF OpenIsRecorded, OneOpen
  <2>15. AnswersTrue'
    BY <1>1, <2>8 DEF AnswersTrue, Phase, Idle
  <2>16. ShellFits'
    BY <1>2, <2>8, RecoveryAssumption DEF ShellFits, Phase, Attempting, Idle, Keys, TypeOK, RanOut
  <2> QED
    BY <2>10, <2>11, <2>12, <2>14, <2>15, <2>16
<1> QED
  BY <1>3, <1>4 DEF TornWrite

LEMMA SendStep ==
    ASSUME RecoveryInv, TypeOK', NEW t \in Tabs, Send(t)
    PROVE  RecoveryInv'
<1> USE DEF RecoveryInv
<1> DEFINE k == dialog[t].key
<1>d. dialog \in [Tabs -> Dialogs] /\ shell \in [Tabs -> ShellPhases]
  BY DEF TypeOK, Dialogs
<1>1. k \in Keys /\ k # None /\ ledger[k] # "UNUSED" /\ Phase(t) = "claimed"
  BY DEF Send, TypeOK, KeysAreOwn, Attempting
<1>2. /\ \A u \in Tabs : u # t => dialog'[u] = dialog[u] /\ shell'[u] = shell[u]
      /\ dialog'[t].key = k /\ Phase(t)' = "waiting"
      /\ dialog'[t].recovery = dialog[t].recovery
  BY <1>d DEF Send, To, Phase, Dialogs, applyShellEvent
<1>3. /\ UNCHANGED storage
      /\ \A j \in Keys : j # k => ledger'[j] = ledger[j]
      /\ ledger'[k] = IF ledger[k] = "TAKEN" THEN "SENT" ELSE ledger[k]
  BY <1>1 DEF Send, TypeOK
<1>4. \A s \in Slots : /\ auth[s] # None => auth[s].key \in Keys
                       /\ \A u \in Tabs : mirror[u][s] # None => mirror[u][s].key \in Keys
  BY DEF TypeOK, Kept, PersistedCommandRecovery
<1>5. RecordsFit'
  BY <1>1, <1>2, <1>3, <1>4 DEF RecordsFit, RecordFits, Phase, storage, Terminal
<1>6. CorruptIsDead'
  BY <1>1, <1>2, <1>3, <1>4 DEF CorruptIsDead, Corrupt, storage
<1>7. KeysAreOwn'
  <2>1. \A u \in Tabs : dialog[u].key # None => dialog[u].key \in Keys
    BY DEF TypeOK
  <2> QED
    BY <1>1, <1>2, <1>3, <2>1 DEF KeysAreOwn, Phase, Attempting
<1>8. \A j \in Keys : Open(j)' => Open(j)
  <2>1. ASSUME NEW j \in Keys, Open(j)', j # k PROVE Open(j)
    BY <2>1, <1>2, <1>3 DEF Open, Phase
  <2>2. Open(k)' => Open(k)
    BY <1>1, <1>2, <1>3 DEF Open, Phase
  <2>3. ASSUME NEW j \in Keys, j = k, Open(j)' PROVE Open(j)
    <3>1. ledger[k] \in {"TAKEN", "SENT"}
      BY <2>3, <1>2, <1>3 DEF Open
    <3> QED
      BY <2>3, <3>1, <1>1 DEF Open
  <2> QED
    BY <2>1, <2>3
<1>9. OpenIsRecorded' /\ OneOpen'
  BY <1>3, <1>8 DEF OpenIsRecorded, OneOpen, storage
<1>10. AnswersTrue'
  <2>1. \A u \in Tabs : dialog[u].key # None => dialog[u].key \in Keys
    BY DEF TypeOK
  <2> QED
    BY <1>1, <1>2, <1>3, <2>1 DEF AnswersTrue, Phase, Terminal
<1>11. k \in CommandKeys => shell'[t] = "CONFIRMING" \/ RanOut(t)'
  <2>1. SUFFICES ASSUME k \in CommandKeys PROVE shell'[t] = "CONFIRMING" \/ RanOut(t)'
    OBVIOUS
  <2>2. /\ shell[t] \in {"READY_TO_CONFIRM", "PREVIEW_EXPIRED"}
        /\ ~dialog[t].recovery /\ SlotOf(k) = "COMMAND"
    BY <1>1, <2>1 DEF ShellFits, Attempting, SlotOf, RanOut
  <2>3. shell'[t] = transitionCommandShell(shell[t], "CONFIRM_STARTED")
    BY <2>2, <1>d DEF Send, applyShellEvent
  <2>4. shell'[t] \in {"CONFIRMING", "PREVIEW_EXPIRED"}
    BY <2>2, <2>3, ShellTransitions
  <2> QED
    BY <2>2, <2>4, <1>2 DEF RanOut
<1>12. ShellFits'
  BY <1>1, <1>2, <1>11 DEF ShellFits, Phase, Attempting, RanOut
<1> QED
  BY <1>5, <1>6, <1>7, <1>9, <1>10, <1>12

LEMMA recoverStep ==
    ASSUME RecoveryInv, TypeOK', NEW t \in Tabs, recover(t)
    PROVE  RecoveryInv'
<1> USE DEF RecoveryInv
<1> DEFINE open == {ReadBoth(t)[s].auth : s \in {x \in Slots : ReadBoth(t)[x].kind = "VALID"}}
<1>1. PICK k \in IF Phase(t) = "uncertain" THEN {dialog[t].key} ELSE {r.key : r \in open} :
         /\ dialog' = [dialog EXCEPT ![t] = [phase |-> "querying", key |-> k, answer |-> None,
                           recovery |-> @.recovery \/ @.phase = "idle"]]
         /\ shell' = [shell EXCEPT ![t] = IF Phase(t) = "idle" /\ k \in CommandKeys
                                          THEN initialCommandShellState(k) ELSE @]
  BY DEF recover
<1>2. UNCHANGED ledger /\ Stored(t, ReadBoth(t)) /\ Phase(t) \in {"idle", "uncertain"}
  BY DEF recover
<1>3. \A s \in Slots : SlotKept(s)
  BY <1>2, ReadOnly
<1>4. \/ Phase(t) = "uncertain" /\ k = dialog[t].key
      \/ \E s \in Slots : /\ Read(t, s).kind = "VALID" /\ Read(t, s).auth # None
                          /\ k = Read(t, s).auth.key
  <2>1. CASE Phase(t) = "uncertain"
    BY <1>1, <2>1
  <2>2. CASE Phase(t) # "uncertain"
    <3>1. PICK s \in Slots : ReadBoth(t)[s].kind = "VALID" /\ k = ReadBoth(t)[s].auth.key
      BY <1>1, <2>2
    <3>2. Read(t, s).kind = "VALID" /\ k = Read(t, s).auth.key
      BY <3>1 DEF ReadBoth
    <3> QED
      BY <3>2, ReadResult
  <2> QED
    BY <2>1, <2>2
<1> HIDE DEF open
<1>5. /\ k \in Keys /\ k # None /\ ledger[k] # "UNUSED"
      /\ \A u \in Tabs : Phase(u) = "claiming" => dialog[u].key # k
      /\ \A s \in Slots : Corrupt(s) => auth[s].key # k
  <2>1. CASE Phase(t) = "uncertain" /\ k = dialog[t].key
    BY <2>1 DEF TypeOK, AnswersTrue, KeysAreOwn, CorruptIsDead
  <2>2. ASSUME NEW s \in Slots, Read(t, s).kind = "VALID", Read(t, s).auth # None,
               k = Read(t, s).auth.key
        PROVE  /\ k \in Keys /\ k # None /\ ledger[k] # "UNUSED"
               /\ \A u \in Tabs : Phase(u) = "claiming" => dialog[u].key # k
               /\ \A x \in Slots : Corrupt(x) => auth[x].key # k
    <3>1. RecordFits(Read(t, s).auth, s) /\ Read(t, s).auth \in PersistedCommandRecovery
      BY <2>2, ReadFits DEF Fits, Stores, Kept
    <3>2. k \in Keys /\ SlotOf(k) = s /\ ledger[k] # "UNUSED"
          /\ \A u \in Tabs : Phase(u) = "claiming" => dialog[u].key # k
      BY <3>1, <2>2 DEF RecordFits, PersistedCommandRecovery
    <3>3. ~Corrupt(s)
      BY <2>2, ReadResult
    <3>4. \A x \in Slots : Corrupt(x) => auth[x].key # k
      BY <3>2, <3>3 DEF Corrupt, RecordsFit, RecordFits
    <3> QED
      BY <3>2, <3>4, RecoveryAssumption
  <2> QED
    BY <1>4, <2>1, <2>2
<1>6. /\ \A u \in Tabs : u # t => dialog'[u] = dialog[u] /\ shell'[u] = shell[u]
      /\ dialog'[t].key = k /\ Phase(t)' = "querying"
      /\ dialog'[t].recovery = (dialog[t].recovery \/ Phase(t) = "idle")
      /\ shell'[t] = IF Phase(t) = "idle" /\ k \in CommandKeys
                     THEN "RESULT_UNKNOWN" ELSE shell[t]
  BY <1>1, <1>5 DEF Phase, TypeOK, initialCommandShellState
<1>7. \A u \in Tabs : Phase(u)' \in {"claiming", "claimed"}
         => u # t /\ Phase(u)' = Phase(u) /\ dialog'[u] = dialog[u]
  BY <1>6 DEF Phase
<1>8. RecordsFit'
  <2>1. \A s \in Slots : \A r : RecordFits(r, s) => RecordFits(r, s)'
    BY <1>2, <1>7 DEF RecordFits, Phase
  <2> QED
    BY <1>3, <2>1 DEF SlotKept, RecordsFit
<1>9. CorruptIsDead'
  BY <1>2, <1>3, <1>5, <1>6 DEF CorruptIsDead, SlotKept, Corrupt
<1>10. KeysAreOwn'
  <2>1. \A u \in Tabs : dialog'[u].key # None => ledger'[dialog'[u].key] # "UNUSED"
    BY <1>2, <1>5, <1>6 DEF KeysAreOwn
  <2>2. \A u \in Tabs : Attempting(u)' => dialog'[u].key # None
    BY <1>7 DEF KeysAreOwn, Attempting
  <2>3. \A u \in Tabs : Phase(u)' = "claiming" =>
            /\ ledger'[dialog'[u].key] = "TAKEN"
            /\ \A w \in Tabs : w # u => dialog'[w].key # dialog'[u].key
    BY <1>2, <1>5, <1>6, <1>7 DEF KeysAreOwn
  <2>4. \A u, w \in Tabs : (Phase(u)' = "claimed" /\ Phase(w)' = "claimed"
                               /\ dialog'[w].key = dialog'[u].key) => w = u
    BY <1>7 DEF KeysAreOwn
  <2> QED
    BY <2>1, <2>2, <2>3, <2>4 DEF KeysAreOwn
<1>11. \A j \in Keys : Open(j)' => Open(j)
  BY <1>2, <1>7 DEF Open
<1>12. OpenIsRecorded'
  BY <1>3, <1>11 DEF OpenIsRecorded, SlotKept, SlotOf, Slots
<1>13. OneOpen'
  BY <1>11 DEF OneOpen
<1>14. AnswersTrue'
  BY <1>2, <1>5, <1>6 DEF AnswersTrue, Phase
<1>15. ShellFits'
  <2>1. CASE Phase(t) = "idle"
    BY <1>6, <2>1 DEF ShellFits, Phase, Attempting, RanOut
  <2>2. CASE Phase(t) = "uncertain"
    <3>1. k = dialog[t].key
      BY <1>1, <2>2
    <3>2. k \in CommandKeys => shell'[t] = "RESULT_UNKNOWN" \/ RanOut(t)'
      BY <1>6, <2>2, <3>1 DEF ShellFits, RanOut
    <3> QED
      BY <1>6, <2>2, <3>2 DEF ShellFits, Phase, Attempting, RanOut
  <2> QED
    BY <1>2, <2>1, <2>2
<1> QED
  BY <1>8, <1>9, <1>10, <1>12, <1>13, <1>14, <1>15

(* The query settles its key, which no tab is about to record.              *)
LEMMA ResolvedStep ==
    ASSUME RecoveryInv, TypeOK', NEW t \in Tabs, Resolved(t)
    PROVE  RecoveryInv'
<1> USE DEF RecoveryInv
<1> DEFINE k == dialog[t].key
<1>d. dialog \in [Tabs -> Dialogs]
  BY DEF TypeOK, Dialogs
<1>1. k \in Keys /\ k # None /\ ledger[k] # "UNUSED" /\ Phase(t) = "querying"
  BY DEF Resolved, TypeOK, AnswersTrue, KeysAreOwn
<1>2. /\ \A j \in Keys : j # k => ledger'[j] = ledger[j]
      /\ \/ ledger'[k] = ledger[k]
         \/ ledger'[k] = "NOT_EXECUTED" /\ ledger[k] \notin Terminal
  BY <1>1 DEF Resolved, TypeOK
<1>3. /\ \A u \in Tabs : u # t => dialog'[u] = dialog[u]
      /\ dialog'[t].key = k /\ Phase(t)' = "answered"
      /\ dialog'[t].recovery = dialog[t].recovery
      /\ \/ dialog'[t].answer = "UNKNOWN"
         \/ dialog'[t].answer = ledger'[k] /\ ledger'[k] \in Terminal
  <2>1. CASE dialog' = [dialog EXCEPT ![t].phase = "answered", ![t].answer = "UNKNOWN"]
    BY <2>1, <1>d DEF Phase, Dialogs
  <2>2. CASE /\ dialog' = [dialog EXCEPT ![t].phase = "answered", ![t].answer = ledger'[k]]
             /\ ledger' = IF ledger[k] \in Terminal THEN ledger
                          ELSE [ledger EXCEPT ![k] = "NOT_EXECUTED"]
    <3>1. ledger'[k] \in Terminal
      BY <2>2, <1>1 DEF TypeOK, Terminal
    <3> QED
      BY <2>2, <3>1, <1>d DEF Phase, Dialogs
  <2> QED
    BY <2>1, <2>2 DEF Resolved
<1>4. UNCHANGED storage /\ UNCHANGED shell
  BY DEF Resolved
<1>5. /\ \A s \in Slots : /\ auth[s] # None => auth[s].key \in Keys
                         /\ \A u \in Tabs : mirror[u][s] # None => mirror[u][s].key \in Keys
      /\ \A u \in Tabs : dialog[u].key # None => dialog[u].key \in Keys
  BY DEF TypeOK, Kept, PersistedCommandRecovery
<1>6. \A u \in Tabs : Phase(u)' \in {"claiming", "claimed"}
         => u # t /\ Phase(u) = Phase(u)' /\ dialog'[u] = dialog[u]
  BY <1>3 DEF Phase
<1>7. RecordsFit'
  <2>1. \A s \in Slots : \A r : ((r # None => r.key \in Keys) /\ RecordFits(r, s)) => RecordFits(r, s)'
    BY <1>1, <1>2, <1>6 DEF RecordFits, Phase, Terminal
  <2> QED
    BY <1>4, <1>5, <2>1 DEF RecordsFit, storage
<1>8. CorruptIsDead'
  BY <1>1, <1>2, <1>3, <1>4, <1>5 DEF CorruptIsDead, Corrupt, storage
<1>9. KeysAreOwn'
  <2>1. \A u \in Tabs : dialog'[u].key # None => ledger'[dialog'[u].key] # "UNUSED"
    BY <1>1, <1>2, <1>3, <1>5 DEF KeysAreOwn
  <2>2. \A u \in Tabs : Attempting(u)' => dialog'[u].key # None
    BY <1>6 DEF KeysAreOwn, Attempting
  <2>3. \A u \in Tabs : Phase(u)' = "claiming" =>
            /\ ledger'[dialog'[u].key] = "TAKEN"
            /\ \A w \in Tabs : w # u => dialog'[w].key # dialog'[u].key
    <3>1. ASSUME NEW u \in Tabs, Phase(u)' = "claiming"
          PROVE  /\ ledger'[dialog'[u].key] = "TAKEN"
                 /\ \A w \in Tabs : w # u => dialog'[w].key # dialog'[u].key
      <4>1. /\ u # t /\ dialog'[u] = dialog[u] /\ Phase(u) = "claiming"
            /\ dialog[u].key # None /\ ledger[dialog[u].key] = "TAKEN"
            /\ \A w \in Tabs : w # u => dialog[w].key # dialog[u].key
        BY <3>1, <1>6 DEF KeysAreOwn, Attempting
      <4> QED
        BY <4>1, <1>2, <1>3, <1>5
    <3> QED
      BY <3>1
  <2>4. \A u, w \in Tabs : (Phase(u)' = "claimed" /\ Phase(w)' = "claimed"
                               /\ dialog'[w].key = dialog'[u].key) => w = u
    BY <1>6 DEF KeysAreOwn
  <2> QED
    BY <2>1, <2>2, <2>3, <2>4 DEF KeysAreOwn
<1>10. \A j \in Keys : Open(j)' => Open(j)
  BY <1>1, <1>2, <1>6 DEF Open, Phase
<1>11. OpenIsRecorded' /\ OneOpen'
  BY <1>4, <1>10 DEF OpenIsRecorded, OneOpen, storage
<1>12. AnswersTrue'
  <2>1. dialog'[t].answer \in Answers
    BY <1>3 DEF Answers, Terminal
  <2> QED
    BY <1>1, <1>2, <1>3, <1>5, <2>1 DEF AnswersTrue, Phase, Terminal
<1>13. ShellFits'
  BY <1>1, <1>3, <1>4 DEF ShellFits, Phase, Attempting, RanOut
<1> QED
  BY <1>7, <1>8, <1>9, <1>11, <1>12, <1>13

-----------------------------------------------------------------------------
(* The invariant. *)

LEMMA InitInv == Init => RecoveryInv
<1> SUFFICES ASSUME Init PROVE RecoveryInv
  OBVIOUS
<1>1. TypeOK
  <2>1. "AUTO_PREVIEWING" \in ShellPhases
    BY DEF ShellPhases, allowedTransitions
  <2> QED
    BY <2>1, RecoveryAssumption DEF Init, TypeOK, Kept, Idle, Phases
<1>2. \A t \in Tabs : Phase(t) = "idle" /\ dialog[t].key = None
  BY DEF Init, Phase, Idle
<1>3. RecordsFit /\ CorruptIsDead /\ KeysAreOwn
  BY <1>2 DEF Init, RecordsFit, RecordFits, CorruptIsDead, Corrupt, KeysAreOwn, Attempting
<1>4. \A k \in Keys : ~Open(k)
  BY DEF Init, Open
<1>5. OpenIsRecorded /\ OneOpen
  BY <1>4 DEF OpenIsRecorded, OneOpen
<1>6. AnswersTrue /\ ShellFits
  BY <1>2, RecoveryAssumption DEF AnswersTrue, ShellFits, Keys
<1> QED
  BY <1>1, <1>3, <1>5, <1>6 DEF RecoveryInv

LEMMA NextInv ==
    ASSUME RecoveryInv, Next
    PROVE  RecoveryInv'
<1>1. TypeOK'
  BY TypeStep DEF RecoveryInv
<1>2. ASSUME NEW t \in Tabs,
             \/ loadPreview(t) \/ PreviewReturns(t) \/ PreviewExpires(t) \/ returnToEdit(t)
             \/ confirm(t) \/ createQuote(t) \/ Claim(t) \/ TornWrite(t)
             \/ Send(t) \/ Answered(t) \/ recover(t) \/ Resolved(t)
      PROVE  RecoveryInv'
  BY <1>1, <1>2, loadPreviewStep, PreviewStep, PreviewExpiresStep, AttemptStep, ClaimStep,
     TornWriteStep, SendStep, AnsweredStep, recoverStep, ResolvedStep
<1>3. ASSUME NEW t \in Tabs,
             \/ recordPostSendProgress(t) \/ QuoteReturns(t) \/ usePersistentCommandRecovery(t)
             \/ refreshActiveSnapshot(t) \/ discardCorruptAfterReview(t)
             \/ closeCommandDialog(t) \/ Unmount(t) \/ ReplaceTab(t)
      PROVE  RecoveryInv'
  BY <1>1, <1>3, recordPostSendProgressStep, QuoteReturnsStep, CloseStep,
     refreshActiveSnapshotStep, discardCorruptAfterReviewStep, UnmountStep, ReplaceTabStep
<1>4. ASSUME NEW k \in Keys, Decide(k) PROVE RecoveryInv'
  BY <1>1, <1>4, DecideStep
<1> QED
  BY <1>2, <1>3, <1>4 DEF Next

LEMMA StutterInv ==
    ASSUME RecoveryInv, UNCHANGED vars
    PROVE  RecoveryInv'
BY DEF RecoveryInv, vars, TypeOK, RecordsFit, RecordFits, CorruptIsDead, Corrupt, KeysAreOwn,
   Attempting, Phase, OpenIsRecorded, Open, OneOpen, AnswersTrue, ShellFits, RanOut

(* In every state that can be reached the invariant holds: the records are  *)
(* of their slots' commands and never tell a wrong result, a record that    *)
(* cannot be read is of a command that never left, and the answers and the  *)
(* shells agree with the server.                                             *)
THEOREM RecoveryInvariant == Spec => []RecoveryInv
<1>1. RecoveryInv /\ [Next]_vars => RecoveryInv'
  BY NextInv, StutterInv
<1> QED
  BY InitInv, <1>1, PTL DEF Spec

-----------------------------------------------------------------------------
(* The record in localStorage, the one open request and what the shell      *)
(* shows agree (ui.tsx, commandRecovery.ts), for any number of tabs,        *)
(* commands, quotes and faults.                                              *)
THEOREM RecoveryStaysSound == Spec => []RecoveryIsSound
<1>1. ASSUME RecoveryInv PROVE RecoveryIsSound
  <2> USE <1>1 DEF RecoveryInv
  <2>1. SentIsRecorded
    BY DEF SentIsRecorded, OpenIsRecorded, Open
  <2>2. OneOpenRequest
    <3> DEFINE sent == {k \in Keys : ledger[k] = "SENT"}
    <3>1. CASE sent = {}
      BY <3>1, FS_EmptySet DEF OneOpenRequest
    <3>2. CASE sent # {}
      <4>1. PICK k \in Keys : k \in sent
        BY <3>2
      <4>2. sent = {k}
        BY <4>1 DEF OneOpen, Open
      <4>3. Cardinality(sent) = 1
        BY <4>2, FS_Singleton
      <4> QED
        BY <4>3 DEF OneOpenRequest
    <3> QED
      BY <3>1, <3>2
  <2>3. ShellTellsTheResult
    BY DEF ShellTellsTheResult, ShellFits, AnswersTrue, Terminal, RanOut
  <2> QED
    BY <2>1, <2>2, <2>3 DEF RecoveryIsSound
<1> QED
  BY RecoveryInvariant, <1>1, PTL

-----------------------------------------------------------------------------
(* What is forgotten. *)

(* The COMMAND slot's record is of k, and the step takes it away.           *)
Forgets(k) ==
    /\ auth["COMMAND"] # None /\ auth["COMMAND"].key = k
    /\ auth'["COMMAND"] = None \/ auth'["COMMAND"].key # k

LEMMA StepForgets ==
    ASSUME RecoveryInv, Next, NEW k \in CommandKeys, ledger[k] = "EXECUTED", Forgets(k)
    PROVE  auth["COMMAND"].state = "EXECUTED"
<1> DEFINE a == auth["COMMAND"]
<1>1. /\ TypeOK /\ "COMMAND" \in Slots /\ a \in PersistedCommandRecovery
      /\ auth'["COMMAND"] # a
  BY DEF RecoveryInv, TypeOK, Slots, Kept, Forgets
<1>2. a.state \in Terminal => a.state = "EXECUTED"
  BY <1>1 DEF RecoveryInv, RecordsFit, RecordFits, Forgets
<1>3. ASSUME NEW t \in Tabs
      PROVE  /\ Read(t, "COMMAND").auth = a /\ Read(t, "COMMAND").kind # "ABSENT"
             /\ Read(t, "COMMAND") \in Stores /\ ReadBoth(t)["COMMAND"] = Read(t, "COMMAND")
  BY <1>1, ReadResult DEF Forgets, ReadBoth
<1>4. ASSUME NEW t \in Tabs, NEW st, Stored(t, st) PROVE st["COMMAND"].auth # a
  BY <1>1, <1>4, StoredResult
<1>5. ASSUME UNCHANGED auth PROVE FALSE
  BY <1>5 DEF Forgets
<1>6. ASSUME NEW t \in Tabs, Stored(t, ReadBoth(t)) PROVE FALSE
  BY <1>3, <1>4, <1>6
<1>7. ASSUME NEW t \in Tabs, Stored(t, clearResolved(ReadBoth(t)))
      PROVE  a.state = "EXECUTED"
  <2>1. clearResolved(ReadBoth(t))["COMMAND"].auth # a
    BY <1>4, <1>7
  <2>2. clearResolved(ReadBoth(t))["COMMAND"] =
           clearTerminalPersistedCommandRecoveryIfPresent(Read(t, "COMMAND"))
    BY <1>1 DEF clearResolved, ReadBoth
  <2> QED
    BY <2>1, <2>2, <1>2, <1>3 DEF clearTerminalPersistedCommandRecoveryIfPresent
<1>8. ASSUME NEW t \in Tabs, Claim(t) PROVE FALSE
  <2>1. ~MayClaim(ReadBoth(t), SlotOf(dialog[t].key))
    BY <1>1, <1>3 DEF MayClaim, commandRecoverySnapshotIsBlocked
  <2> QED
    BY <1>6, <1>8, <2>1 DEF Claim
<1>9. ASSUME NEW t \in Tabs, TornWrite(t) PROVE a.state = "EXECUTED"
  <2>1. ~MayClaim(ReadBoth(t), SlotOf(dialog[t].key))
    BY <1>1, <1>3 DEF MayClaim, commandRecoverySnapshotIsBlocked
  <2>2. ReadBoth(t)["COMMAND"].auth.state \in Terminal
    BY <1>9, <2>1 DEF TornWrite
  <2> QED
    BY <2>2, <1>2, <1>3
<1>10. ASSUME NEW t \in Tabs, discardCorruptAfterReview(t) PROVE FALSE
  <2>1. PICK s \in Slots : /\ Read(t, s).kind = "CORRUPT"
                           /\ Stored(t, [ReadBoth(t) EXCEPT ![s] = Drop(@)])
    BY <1>10 DEF discardCorruptAfterReview
  <2>2. s # "COMMAND"
    <3>1. Corrupt(s)
      BY <1>1, <2>1, ReadResult
    <3>2. ledger[auth[s].key] = "TAKEN"
      BY <3>1 DEF RecoveryInv, CorruptIsDead
    <3> QED
      BY <3>2 DEF Forgets
  <2>3. [ReadBoth(t) EXCEPT ![s] = Drop(@)]["COMMAND"] = Read(t, "COMMAND")
    BY <2>2, <1>1 DEF ReadBoth
  <2> QED
    BY <2>1, <2>3, <1>3, <1>4
<1>11. ASSUME NEW t \in Tabs, recordPostSendProgress(t) PROVE a.state = "EXECUTED"
  <2> DEFINE r == Read(t, "COMMAND")
             next == transitionPersistedCommandRecovery(r, dialog[t].key, dialog[t].answer)
             st == [ReadBoth(t) EXCEPT !["COMMAND"] =
                        IF r.kind \in {"CORRUPT", "READ_ERROR"} THEN r ELSE next]
  <2>1. Stored(t, st)
    BY <1>11 DEF recordPostSendProgress
  <2>2. st["COMMAND"] = IF r.kind \in {"CORRUPT", "READ_ERROR"} THEN r ELSE next
    BY <1>1 DEF ReadBoth
  <2> HIDE DEF st
  <2>3. auth'["COMMAND"] = st["COMMAND"].auth
    BY <1>1, <2>1, StoredResult
  <2>4. next # r /\ auth'["COMMAND"] = next.auth
    BY <2>2, <2>3, <1>1, <1>3
  <2>5. r.kind = "VALID" /\ r.auth.key = dialog[t].key /\ r.mirror = r.auth
    BY <2>4, <1>1, ReadResult DEF transitionPersistedCommandRecovery
  <2>6. dialog[t].key = k /\ dialog[t].answer \in Answers /\ dialog[t].answer # "REFUSED"
    BY <1>3, <1>11, <2>5 DEF Forgets, RecoveryInv, AnswersTrue, recordPostSendProgress
  <2>7. next = Write([key |-> k, state |-> dialog[t].answer], r)
    BY <2>4, <2>5, <2>6 DEF transitionPersistedCommandRecovery
  <2>8. [key |-> k, state |-> dialog[t].answer] \in PersistedCommandRecovery
    BY <2>6 DEF PersistedCommandRecovery, Answers, Terminal, Keys
  <2>9. auth'["COMMAND"] = [key |-> k, state |-> dialog[t].answer]
    BY <2>4, <2>5, <2>7, <2>8, <1>3, WriteResult
  <2> QED
    BY <2>8, <2>9, RecoveryAssumption DEF Forgets
<1>12. ASSUME NEW t \in Tabs, QuoteReturns(t) PROVE FALSE
  <2> DEFINE next == transitionQuoteRecovery(ReadBoth(t)["QUOTE"], dialog[t].key, dialog[t].answer)
  <2>1. \/ Stored(t, [ReadBoth(t) EXCEPT !["QUOTE"] = next])
        \/ Stored(t, ReadBoth(t))
    BY <1>12 DEF QuoteReturns
  <2>2. [ReadBoth(t) EXCEPT !["QUOTE"] = next]["COMMAND"] = Read(t, "COMMAND")
    BY <1>1 DEF ReadBoth
  <2> HIDE DEF next
  <2> QED
    BY <2>1, <2>2, <1>3, <1>4, <1>6
<1>13. ASSUME NEW t \in Tabs,
              \/ PreviewReturns(t) \/ PreviewExpires(t) \/ returnToEdit(t) \/ confirm(t)
              \/ createQuote(t) \/ Send(t) \/ Answered(t) \/ Resolved(t) \/ Unmount(t)
              \/ ReplaceTab(t)
       PROVE  FALSE
  BY <1>5, <1>13 DEF PreviewReturns, PreviewExpires, returnToEdit, confirm, createQuote, Attempt,
     Send, Answered, Resolved, Unmount, ReplaceTab, storage
<1>14. ASSUME NEW j \in Keys, Decide(j) PROVE FALSE
  BY <1>5, <1>14 DEF Decide, storage
<1>15. ASSUME NEW t \in Tabs, loadPreview(t) \/ recover(t) \/ refreshActiveSnapshot(t) PROVE FALSE
  BY <1>6, <1>15 DEF loadPreview, recover, refreshActiveSnapshot
<1>16. ASSUME NEW t \in Tabs, usePersistentCommandRecovery(t) \/ closeCommandDialog(t)
       PROVE  a.state = "EXECUTED"
  BY <1>7, <1>16 DEF usePersistentCommandRecovery, closeCommandDialog
<1> HIDE DEF a
<1>17. a.state = "EXECUTED"
  BY <1>8, <1>9, <1>10, <1>11, <1>12, <1>13, <1>14, <1>15, <1>16 DEF Next
<1> QED
  BY <1>17 DEF a

(* A record that was executed leaves localStorage only after a tab has      *)
(* recorded that result (clearTerminalPersistedCommandRecoveryIfPresent,    *)
(* ui.tsx): no tab forgets a command the user was not told of.              *)
THEOREM NothingIsForgotten == Spec => ForgottenOnlyWhenKnown
<1> DEFINE Told ==
        \A k \in CommandKeys :
          LET r == auth["COMMAND"] IN
          (/\ r # None /\ r.key = k /\ ledger[k] = "EXECUTED"
           /\ auth'["COMMAND"] # r /\ (auth'["COMMAND"] = None
                                         \/ auth'["COMMAND"].key # k))
          => r.state = "EXECUTED"
<1>1. RecoveryInv /\ [Next]_vars => [Told]_vars
  BY StepForgets DEF Forgets
<1> HIDE DEF Told
<1>2. Spec => [][Told]_vars
  BY RecoveryInvariant, <1>1, PTL DEF Spec
<1> QED
  BY <1>2 DEF ForgottenOnlyWhenKnown, Told
=============================================================================
