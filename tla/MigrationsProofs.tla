-------------------------- MODULE MigrationsProofs --------------------------
(***************************************************************************)
(* Upgrades leave one history and commands see one protocol, for any list  *)
(* of files and images, any number of migrators, probes and commands, and  *)
(* a clock that may be stepped back as often as one likes.                 *)
(***************************************************************************)
EXTENDS Migrations, WellFoundedInduction, TLAPS

-----------------------------------------------------------------------------
(* Least and greatest numbers. *)

(* What Min returns of a nonempty set of natural numbers.                   *)
LEMMA MinIsLeast ==
  ASSUME NEW S \in SUBSET Nat, S # {}
  PROVE  Min(S) \in S /\ \A y \in S : Min(S) <= y
<1> DEFINE Less == {p \in Nat \X Nat : p[1] < p[2]}
<1>1. IsWellFoundedOn(Less, Nat)
  BY NatLessThanWellFounded DEF OpToRel
<1> HIDE DEF Less
<1>2. \E x \in S : \A y \in S : ~(<<y, x>> \in Less)
  BY <1>1, WFMin, Zenon
<1>3. \A x, y \in Nat : ~(<<y, x>> \in Less) => x <= y
  BY DEF Less
<1>4. \E x \in S : \A y \in S : x <= y
  BY <1>2, <1>3
<1> QED
  BY <1>4 DEF Min

(* What Max returns of a nonempty set of numbers up to N.                   *)
LEMMA MaxIsGreatest ==
  ASSUME NEW N \in Nat, NEW S \in SUBSET (0 .. N), S # {}
  PROVE  Max(S) \in S /\ \A y \in S : Max(S) >= y
<1> DEFINE T == {N - x : x \in S}
<1>0. \A x \in S : x \in 0 .. N /\ N - x \in Nat
  OBVIOUS
<1>1. T \in SUBSET Nat /\ T # {}
  BY <1>0
<1> HIDE DEF T
<1>2. Min(T) \in T /\ \A y \in T : Min(T) <= y
  BY <1>1, MinIsLeast
<1>3. PICK x \in S : Min(T) = N - x
  BY <1>2 DEF T
<1>4. \A y \in S : N - y \in T
  BY DEF T
<1>5. \A y \in S : N - x <= N - y
  BY <1>2, <1>3, <1>4
<1>6. \A y \in S : x >= y
  BY <1>5
<1> QED
  BY <1>6 DEF Max

(* NextFile is the first file of the image after f, or 0 after its last.    *)
LEMMA NextFileIsNext ==
  ASSUME UpgradeConstants, NEW i \in Images, NEW f \in Nat
  PROVE  /\ NextFile(i, f) \in Ships(i) \cup {0}
         /\ NextFile(i, f) # 0 =>
              /\ NextFile(i, f) > f
              /\ \A g \in Ships(i) : g < NextFile(i, f) => g <= f
         /\ NextFile(i, f) = 0 => \A g \in Ships(i) : g <= f
<1> DEFINE later == {g \in Ships(i) : g > f}
<1>1. Ships(i) \subseteq Nat \ {0}
  BY DEF Ships, UpgradeConstants
<1>2. NextFile(i, f) = IF later = {} THEN 0 ELSE Min(later)
  BY DEF NextFile
<1>3. CASE later = {}
  BY <1>1, <1>2, <1>3
<1>4. CASE later # {}
  <2>1. later \in SUBSET Nat
    BY <1>1
  <2> HIDE DEF later
  <2>2. Min(later) \in later /\ \A g \in later : Min(later) <= g
    BY <2>1, <1>4, MinIsLeast
  <2> QED
    BY <1>1, <1>2, <1>4, <2>2 DEF later
<1> QED
  BY <1>3, <1>4

(* The queries are a sequence that has the one about profiles.              *)
LEMMA QueriesLength == Len(Queries) = 31 /\ DOMAIN Queries = 1 .. 31
<1>1. Len(Queries) = 31
  BY DEF Queries
<1>2. DOMAIN Queries = 1 .. 31
  BY DEF Queries
<1> QED
  BY <1>1, <1>2

(* The numbers of the queries, of the one about the profiles among them.    *)
LEMMA QueryNumbers ==
  Answered = 32 /\ Watched \subseteq 1 .. 31 /\ ProfileQuery \in Watched
<1>1. Answered = 32
  BY QueriesLength DEF Answered
<1>2. Watched \subseteq 1 .. 31
  BY QueriesLength DEF Watched
<1>3. ProfileQuery \in Watched
  BY QueriesLength DEF Watched, ProfileQuery
<1> QED
  BY <1>1, <1>2, <1>3

(* NextQuery passes over no query that is watched.                          *)
LEMMA NextQueryIsNext ==
  ASSUME NEW q \in Nat, q < Answered
  PROVE  /\ NextQuery(q) \in 1 .. Answered /\ NextQuery(q) > q
         /\ \A r \in Watched : r < NextQuery(q) => r <= q
         /\ NextQuery(q) > ProfileQuery => q >= ProfileQuery
<1> DEFINE later == {r \in Watched : r > q} \cup {Answered}
<1>1. Answered = 32 /\ Watched \subseteq 1 .. 31 /\ ProfileQuery \in Watched
  BY QueryNumbers
<1>2. later \in SUBSET Nat /\ later # {}
  <2>1. \A r \in later : r \in Nat
    BY <1>1
  <2>2. Answered \in later
    OBVIOUS
  <2> QED
    BY <2>1, <2>2
<1> HIDE DEF later
<1>3. Min(later) \in later /\ \A r \in later : Min(later) <= r
  BY <1>2, MinIsLeast
<1>4. NextQuery(q) = Min(later)
  BY DEF NextQuery, later
<1>5. \A r \in later : r \in 1 .. 32 /\ r > q
  BY <1>1 DEF later
<1>6. NextQuery(q) \in 1 .. Answered /\ NextQuery(q) > q
  BY <1>1, <1>3, <1>4, <1>5
<1>7. ASSUME NEW r \in Watched, r < NextQuery(q)
      PROVE  r <= q
  <2> SUFFICES ASSUME r > q
               PROVE  FALSE
    BY <1>1
  <2>1. r \in later
    BY DEF later
  <2> QED
    BY <1>1, <1>3, <1>4, <1>6, <1>7, <2>1
<1>8. NextQuery(q) > ProfileQuery => q >= ProfileQuery
  BY <1>1, <1>6, <1>7
<1> QED
  BY <1>6, <1>7, <1>8

-----------------------------------------------------------------------------
(* The inductive invariant. *)

Active(m) == mig[m].pc # "idle"

\* The two advisory locks: one migrator, no probe beside it, and no command
\* beside a migrator that has the epoch.
LocksHeld ==
  /\ \A m, n \in Migrators : Active(m) /\ Active(n) => m = n
  /\ \A m \in Migrators, p \in Probes : Active(m) => probe[p].at = 0
  /\ \A m \in Migrators : mig[m].epoch => Active(m) /\ DOMAIN confirm = {}

\* Where a migrator is in its list.
PlaceInList ==
  \A m \in Migrators :
    /\ mig[m].pc = "files" =>
         /\ mig[m].file \in Ships(mig[m].image)
         /\ DOMAIN applied \subseteq Ships(mig[m].image)
         /\ \A g \in Ships(mig[m].image) : g < mig[m].file => g \in DOMAIN applied
         /\ mig[m].file > HeldFrom => mig[m].epoch
    /\ mig[m].pc = "profiles" => DOMAIN applied = Ships(mig[m].image)

\* What a probe has seen so far is still so, but for what it lists as late.
SeenByProbe ==
  /\ damaged \subseteq Watched
  /\ \A p \in Probes : probe[p].at # 0 =>
       /\ DOMAIN applied = Ships(probe[p].image)
       /\ probe[p].at > ProfileQuery => manifest = ManifestOf[probe[p].image]
       /\ \A q \in damaged : q < probe[p].at => q \in probe[p].late

\* schema_migrations gives every recorded file one time.
RowsHaveTimes == applied \in [DOMAIN applied -> 0 .. MaxTime]

UpgradeInv ==
  /\ UpgradeTypeOK
  /\ RowsHaveTimes
  /\ LocksHeld
  /\ HistoryInOrder
  /\ PlaceInList
  /\ SeenByProbe
  /\ CommandsSeeOneProtocol

-----------------------------------------------------------------------------
(* Facts that hold in every state of the invariant. *)

(* The latest row is a time, no row is later, and a new row is a time.      *)
LEMMA LatestIsLatest ==
  ASSUME UpgradeConstants, RowsHaveTimes, clock \in 0 .. MaxTime
  PROVE  /\ LatestApplied \in 0 .. MaxTime
         /\ \A f \in DOMAIN applied : applied[f] <= LatestApplied
         /\ MigrationTime \in 0 .. MaxTime
<1>1. MaxTime \in Nat /\ Tolerance \in Nat
  BY DEF UpgradeConstants
<1>2. CASE DOMAIN applied = {}
  <2>1. applied = <<>>
    BY <1>2 DEF RowsHaveTimes
  <2> QED
    BY <1>1, <1>2, <2>1 DEF LatestApplied, MigrationTime
<1>3. CASE DOMAIN applied # {}
  <2>1. applied # <<>>
    BY <1>3
  <2>2. Range(applied) \in SUBSET (0 .. MaxTime) /\ Range(applied) # {}
    BY <1>3 DEF RowsHaveTimes, Range
  <2>3. Max(Range(applied)) \in Range(applied)
        /\ \A y \in Range(applied) : Max(Range(applied)) >= y
    BY <1>1, <2>2, MaxIsGreatest
  <2>4. LatestApplied = Max(Range(applied))
    BY <2>1 DEF LatestApplied
  <2>5. \A f \in DOMAIN applied : applied[f] \in Range(applied)
    BY DEF Range
  <2>6. LatestApplied \in 0 .. MaxTime
    BY <2>2, <2>3, <2>4
  <2>7. \A f \in DOMAIN applied : applied[f] <= LatestApplied
    BY <2>2, <2>3, <2>4, <2>5, <2>6
  <2>8. MigrationTime \in 0 .. MaxTime
    BY <2>6 DEF MigrationTime
  <2> QED
    BY <2>6, <2>7, <2>8
<1> QED
  BY <1>2, <1>3

MigratorStates == [image : Images, pc : {"idle", "history", "files", "profiles"},
                   file : Files \cup {0}, epoch : BOOLEAN]
ProbeStates == [image : Images, at : 0 .. Answered, late : SUBSET Watched]

(* A process that does nothing has a state of its kind.                     *)
LEMMA AtRest ==
  ASSUME UpgradeConstants
  PROVE  /\ NotMigrating \in MigratorStates /\ NotMigrating.pc = "idle" /\ NotMigrating.epoch = FALSE
         /\ NotProbing \in ProbeStates /\ NotProbing.at = 0
<1>1. (CHOOSE i \in Images : TRUE) \in Images
  BY DEF UpgradeConstants
<1> QED
  BY <1>1, QueryNumbers DEF NotMigrating, NotProbing, MigratorStates, ProbeStates

(* A session that ends, with or without new profiles, keeps the invariant   *)
(* when nobody relies on the old ones.                                      *)
LEMMA SessionEnds ==
  ASSUME UpgradeConstants, UpgradeInv, NEW m \in Migrators, EndSession(m),
         UNCHANGED <<applied, objects, damaged, clock, budget, probe, confirm>>,
         manifest' \in Range(ManifestOf) \cup {"none"},
         \/ manifest' = manifest
         \/ DOMAIN confirm = {} /\ \A p \in Probes : probe[p].at = 0
  PROVE  UpgradeInv'
<1>1. /\ mig' \in [Migrators -> MigratorStates]
      /\ mig'[m] = NotMigrating
      /\ \A n \in Migrators : n # m => mig'[n] = mig[n]
  BY AtRest DEF EndSession, UpgradeInv, UpgradeTypeOK, MigratorStates
<1>2. UpgradeTypeOK' /\ RowsHaveTimes'
  BY <1>1 DEF UpgradeInv, UpgradeTypeOK, RowsHaveTimes, MigratorStates
<1>3. LocksHeld'
  <2>1. \A n \in Migrators : Active(n)' => Active(n) /\ n # m /\ mig'[n] = mig[n]
    BY <1>1, AtRest DEF Active
  <2>2. \A n \in Migrators : mig'[n].epoch => n # m /\ mig[n].epoch
    BY <1>1, AtRest
  <2>3. \A n \in Migrators : mig'[n].epoch => Active(n)' /\ DOMAIN confirm' = {}
    BY <1>1, <2>2 DEF UpgradeInv, LocksHeld, Active
  <2> QED
    BY <2>1, <2>3 DEF UpgradeInv, LocksHeld
<1>4. HistoryInOrder'
  BY DEF UpgradeInv, HistoryInOrder
<1>5. PlaceInList'
  BY <1>1, AtRest DEF UpgradeInv, PlaceInList
<1>6. SeenByProbe'
  BY DEF UpgradeInv, SeenByProbe
<1>7. CommandsSeeOneProtocol'
  BY DEF UpgradeInv, CommandsSeeOneProtocol, Protocol
<1> QED
  BY <1>2, <1>3, <1>4, <1>5, <1>6, <1>7 DEF UpgradeInv

-----------------------------------------------------------------------------
(* The initial states and the steps. *)

(* A new database, or one an image set up, satisfies the invariant.         *)
LEMMA UpgradeInvInit ==
  ASSUME UpgradeConstants, UpgradeInit
  PROVE  UpgradeInv
<1> PICK i \in Images \cup {"none"} :
       /\ objects = IF i = "none" THEN {} ELSE Ships(i)
       /\ applied = [f \in objects |-> 0]
       /\ manifest = IF i = "none" THEN "none" ELSE ManifestOf[i]
  BY DEF UpgradeInit
<1>1. /\ damaged = {} /\ clock = 0 /\ confirm = <<>>
      /\ budget = [steps |-> 0, runs |-> 0]
      /\ mig = [m \in Migrators |-> NotMigrating]
      /\ probe = [p \in Probes |-> NotProbing]
  BY DEF UpgradeInit
<1>2. /\ MaxTime \in Nat /\ MaxSteps \in Nat /\ MaxRuns \in Nat
      /\ DOMAIN ManifestOf = Images
  BY DEF UpgradeConstants
<1>3. objects \subseteq Files /\ DOMAIN applied = objects
      /\ \A f \in Files, g \in objects : f < g => f \in objects
  <2>1. Files \subseteq Nat /\ \A j \in Images : Newest[j] \in Nat
    BY DEF UpgradeConstants
  <2>2. CASE i = "none"
    BY <2>2
  <2>3. CASE i # "none"
    <3>1. i \in Images /\ objects = Ships(i)
      BY <2>3
    <3> QED
      BY <2>1, <3>1 DEF Ships
  <2> QED
    BY <2>2, <2>3
<1>4. RowsHaveTimes
  BY <1>2, <1>3 DEF RowsHaveTimes
<1>5. UpgradeTypeOK
  <2>1. manifest \in Range(ManifestOf) \cup {"none"}
    BY <1>2 DEF Range
  <2>2. Range(applied) \subseteq 0 .. MaxTime
    BY <1>4 DEF RowsHaveTimes, Range
  <2>3. budget \in [steps : 0 .. MaxSteps, runs : 0 .. MaxRuns]
    BY <1>1, <1>2
  <2>4. mig \in [Migrators -> MigratorStates] /\ probe \in [Probes -> ProbeStates]
    BY <1>1, AtRest
  <2>5. DOMAIN confirm = {} /\ clock \in 0 .. MaxTime
    BY <1>1, <1>2
  <2> QED
    BY <1>1, <1>3, <2>1, <2>2, <2>3, <2>4, <2>5
    DEF UpgradeTypeOK, MigratorStates, ProbeStates
<1>6. LocksHeld /\ PlaceInList /\ SeenByProbe
  BY <1>1, AtRest DEF LocksHeld, PlaceInList, SeenByProbe, Active
<1>7. HistoryInOrder
  BY <1>3 DEF HistoryInOrder
<1>8. CommandsSeeOneProtocol
  BY <1>1 DEF CommandsSeeOneProtocol
<1> QED
  BY <1>4, <1>5, <1>6, <1>7, <1>8 DEF UpgradeInv

(* A migrator starts, reads the history and takes the protocol epoch: only  *)
(* its own place changes.                                                   *)
LEMMA MigratorPrepares ==
  ASSUME UpgradeConstants, UpgradeInv, NEW m \in Migrators,
         \/ \E i \in Images : TakeMigrationLock(m, i)
         \/ VerifyHistory(m)
         \/ TakeProtocolEpoch(m)
  PROVE  UpgradeInv'
<1>0. mig \in [Migrators -> MigratorStates]
  BY DEF UpgradeInv, UpgradeTypeOK, MigratorStates
<1>1. ASSUME NEW i \in Images, TakeMigrationLock(m, i)
      PROVE  UpgradeInv'
  <2> USE <1>1 DEF TakeMigrationLock
  <2>1. /\ mig' \in [Migrators -> MigratorStates]
        /\ mig'[m].pc = "history" /\ mig'[m].epoch = FALSE
        /\ \A n \in Migrators : n # m => mig'[n] = mig[n]
    BY <1>0, AtRest DEF MigratorStates, NotMigrating
  <2>2. \A n \in Migrators : ~Active(n)
    BY DEF Migrating, Active
  <2>3. \A p \in Probes : probe[p].at = 0
    BY DEF Probing
  <2>4. UpgradeTypeOK'
    <3>1. /\ MaxRuns \in Nat /\ budget \in [steps : 0 .. MaxSteps, runs : 0 .. MaxRuns]
          /\ budget.runs < MaxRuns /\ budget' = [budget EXCEPT !.runs = @ + 1]
      BY DEF UpgradeInv, UpgradeTypeOK, UpgradeConstants
    <3>2. budget.runs + 1 \in 0 .. MaxRuns
      <4>1. budget.runs \in 0 .. MaxRuns
        BY <3>1
      <4> HIDE <1>1 DEF TakeMigrationLock
      <4> QED
        BY <3>1, <4>1
    <3>3. budget' \in [steps : 0 .. MaxSteps, runs : 0 .. MaxRuns]
      BY <3>1, <3>2
    <3> QED
      BY <2>1, <3>3 DEF UpgradeInv, UpgradeTypeOK, MigratorStates
  <2>5. LocksHeld'
    BY <2>1, <2>2, <2>3 DEF UpgradeInv, LocksHeld, Active
  <2>6. PlaceInList'
    BY <2>1 DEF UpgradeInv, PlaceInList
  <2> QED
    BY <2>4, <2>5, <2>6
    DEF UpgradeInv, RowsHaveTimes, HistoryInOrder, SeenByProbe, CommandsSeeOneProtocol, Protocol
<1>2. ASSUME VerifyHistory(m)
      PROVE  UpgradeInv'
  <2> USE <1>2 DEF VerifyHistory
  <2> DEFINE i == mig[m].image
             first == NextFile(i, 0)
  <2>1. i \in Images
    BY <1>0 DEF MigratorStates
  <2>2. first \in Ships(i) /\ \A g \in Ships(i) : ~(g < first)
    <3>1. Ships(i) \subseteq Nat \ {0} /\ Ships(i) # {}
      BY <2>1 DEF UpgradeConstants, Ships
    <3> QED
      BY <2>1, <3>1, NextFileIsNext
  <2>3. first \in Files
    BY <2>2 DEF Ships
  <2> HIDE DEF first
  <2>4. /\ mig' \in [Migrators -> MigratorStates]
        /\ mig'[m].pc = "files" /\ mig'[m].file = first
        /\ mig'[m].image = i /\ mig'[m].epoch = mig[m].epoch
        /\ \A n \in Migrators : n # m => mig'[n] = mig[n]
    BY <1>0, <2>3 DEF MigratorStates, first
  <2>5. UpgradeTypeOK'
    BY <2>4 DEF UpgradeInv, UpgradeTypeOK, MigratorStates
  <2>6. LocksHeld'
    BY <2>4 DEF UpgradeInv, LocksHeld, Active
  <2>7. ~(first > HeldFrom)
    <3>1. 46 \in Files /\ Newest[i] \in Nat /\ Files \subseteq Nat
      BY <2>1 DEF UpgradeConstants
    <3> QED
      BY <2>2, <3>1 DEF Ships, HeldFrom
  <2>8. DOMAIN applied \subseteq Ships(i)
    BY DEF HistoryFits
  <2>9. PlaceInList'
    BY <2>2, <2>4, <2>7, <2>8 DEF UpgradeInv, PlaceInList, Ships
  <2> QED
    BY <2>5, <2>6, <2>9
    DEF UpgradeInv, RowsHaveTimes, HistoryInOrder, SeenByProbe, CommandsSeeOneProtocol, Protocol
<1>3. ASSUME TakeProtocolEpoch(m)
      PROVE  UpgradeInv'
  <2> USE <1>3 DEF TakeProtocolEpoch
  <2>1. /\ mig' \in [Migrators -> MigratorStates]
        /\ mig'[m] = [mig[m] EXCEPT !.epoch = TRUE]
        /\ \A n \in Migrators : n # m => mig'[n] = mig[n]
    BY <1>0 DEF MigratorStates
  <2>2. /\ mig'[m].pc = "files" /\ mig'[m].file = mig[m].file
        /\ mig'[m].image = mig[m].image /\ mig'[m].epoch = TRUE
    BY <1>0, <2>1 DEF MigratorStates
  <2>3. DOMAIN confirm = {}
    OBVIOUS
  <2>4. UpgradeTypeOK'
    BY <2>1 DEF UpgradeInv, UpgradeTypeOK, MigratorStates
  <2>5. LocksHeld'
    BY <2>1, <2>2, <2>3 DEF UpgradeInv, LocksHeld, Active
  <2>6. PlaceInList'
    BY <2>1, <2>2 DEF UpgradeInv, PlaceInList, Ships
  <2> QED
    BY <2>4, <2>5, <2>6
    DEF UpgradeInv, RowsHaveTimes, HistoryInOrder, SeenByProbe, CommandsSeeOneProtocol, Protocol
<1> QED
  BY <1>1, <1>2, <1>3

(* The next file: recorded with its SQL, in order, under the epoch when it  *)
(* is one a command may rely on.                                            *)
LEMMA FileApplies ==
  ASSUME UpgradeConstants, UpgradeInv, NEW m \in Migrators, ApplyFile(m)
  PROVE  UpgradeInv'
<1> DEFINE i == mig[m].image
           f == mig[m].file
           next == NextFile(i, f)
<1>0. mig \in [Migrators -> MigratorStates]
  BY DEF UpgradeInv, UpgradeTypeOK, MigratorStates
<1>1. i \in Images /\ f \in Ships(i) /\ f \in Files
  BY <1>0 DEF ApplyFile, UpgradeInv, PlaceInList, MigratorStates, Ships
<1>2. 46 \in Files /\ Newest[i] \in Nat /\ Files \subseteq Nat \ {0}
  BY <1>1 DEF UpgradeConstants
<1>3. /\ next \in Ships(i) \cup {0}
      /\ next # 0 => next > f /\ \A g \in Ships(i) : g < next => g <= f
      /\ next = 0 => \A g \in Ships(i) : g <= f
  BY <1>1, <1>2, NextFileIsNext
<1> HIDE DEF next
<1>4. /\ mig' \in [Migrators -> MigratorStates]
      /\ mig'[m].image = i /\ mig'[m].file = next
      /\ mig'[m].pc = IF next = 0 THEN "profiles" ELSE "files"
      /\ mig'[m].epoch = (mig[m].epoch /\ f >= HeldFrom)
      /\ \A n \in Migrators : n # m => mig'[n] = mig[n]
  <2>1. next \in Files \cup {0}
    BY <1>3 DEF Ships
  <2> QED
    BY <1>0, <2>1, ZenonT(60) DEF ApplyFile, PassFile, MigratorStates, next
<1>5. /\ \A n \in Migrators : n # m => ~Active(n)
      /\ \A p \in Probes : probe[p].at = 0
  BY DEF UpgradeInv, LocksHeld, Active, ApplyFile
<1>6. UNCHANGED <<manifest, clock, budget, probe, confirm>>
  BY DEF ApplyFile
<1>7. /\ DOMAIN applied' = DOMAIN applied \cup {f}
      /\ objects' = objects \cup {f}
      /\ damaged' \subseteq damaged
      /\ RowsHaveTimes'
      /\ \A g \in DOMAIN applied : applied'[g] = applied[g]
      /\ f \notin DOMAIN applied => \A g \in DOMAIN applied : applied[g] <= applied'[f]
  <2>1. CASE f \in DOMAIN applied
    BY <2>1 DEF ApplyFile, UpgradeInv, RowsHaveTimes, HistoryInOrder
  <2>2. CASE f \notin DOMAIN applied
    <3>1. /\ LatestApplied \in 0 .. MaxTime /\ MigrationTime \in 0 .. MaxTime
          /\ \A g \in DOMAIN applied : applied[g] <= LatestApplied
      BY LatestIsLatest DEF UpgradeInv, UpgradeTypeOK
    <3>2. LatestApplied <= MigrationTime /\ RecordFile(f)
      BY <2>2 DEF ApplyFile
    <3>3. /\ DOMAIN applied' = DOMAIN applied \cup {f}
          /\ applied'[f] = MigrationTime
          /\ \A g \in DOMAIN applied : applied'[g] = applied[g]
      BY <2>2, <3>2 DEF RecordFile
    <3>4. RowsHaveTimes'
      BY <3>1, <3>2, <2>2 DEF RecordFile, UpgradeInv, RowsHaveTimes
    <3>5. \A g \in DOMAIN applied : applied[g] <= applied'[f]
      <4>1. MaxTime \in Nat /\ \A g \in DOMAIN applied : applied[g] \in 0 .. MaxTime
        BY DEF UpgradeInv, RowsHaveTimes, UpgradeConstants
      <4> QED
        BY <3>1, <3>2, <3>3, <4>1
    <3>6. objects' = objects \cup {f} /\ damaged' \subseteq damaged
      BY <3>2 DEF RecordFile
    <3> QED
      BY <3>3, <3>4, <3>5, <3>6
  <2> QED
    BY <2>1, <2>2
<1>8. UpgradeTypeOK'
  <2>1. Range(applied)' \subseteq 0 .. MaxTime
    BY <1>7 DEF RowsHaveTimes, Range
  <2>2. DOMAIN applied' \subseteq Files /\ objects' \subseteq Files
    BY <1>1, <1>7 DEF UpgradeInv, UpgradeTypeOK
  <2> QED
    BY <1>4, <1>6, <1>7, <2>1, <2>2 DEF UpgradeInv, UpgradeTypeOK, MigratorStates
<1>9. LocksHeld'
  BY <1>4, <1>5, <1>6 DEF UpgradeInv, LocksHeld, Active, ApplyFile
<1>10. HistoryInOrder'
  <2>1. DOMAIN applied' = objects'
    BY <1>7 DEF UpgradeInv, HistoryInOrder
  <2>2. ASSUME NEW x \in Files, NEW g \in DOMAIN applied', x < g
        PROVE  x \in DOMAIN applied' /\ applied'[x] <= applied'[g]
    <3>1. CASE g \in DOMAIN applied
      BY <1>7, <2>2, <3>1 DEF UpgradeInv, HistoryInOrder
    <3>2. CASE g \notin DOMAIN applied
      <4>1. g = f
        BY <1>7, <3>2
      <4>2. x \in Ships(i)
        BY <1>1, <1>2, <2>2, <4>1 DEF Ships
      <4>3. x \in DOMAIN applied
        BY <2>2, <4>1, <4>2 DEF UpgradeInv, PlaceInList, ApplyFile
      <4> QED
        BY <1>7, <3>2, <4>1, <4>3
    <3> QED
      BY <3>1, <3>2
  <2> QED
    BY <2>1, <2>2 DEF HistoryInOrder
<1>11. PlaceInList'
  <2>1. /\ DOMAIN applied \subseteq Ships(i)
        /\ \A g \in Ships(i) : g < f => g \in DOMAIN applied
        /\ f > HeldFrom => mig[m].epoch
    BY DEF UpgradeInv, PlaceInList, ApplyFile
  <2>2. DOMAIN applied' \subseteq Ships(i)
    BY <1>1, <1>7, <2>1
  <2>3. \A g \in Ships(i) : g <= f => g \in DOMAIN applied'
    <3>1. \A g \in Ships(i) : g \in Nat /\ f \in Nat
      BY <1>1, <1>2 DEF Ships
    <3> QED
      BY <1>7, <2>1, <3>1
  <2>4. next # 0 =>
          /\ next \in Ships(i)
          /\ \A g \in Ships(i) : g < next => g \in DOMAIN applied'
          /\ next > HeldFrom => mig'[m].epoch
    <3> SUFFICES ASSUME next # 0
                 PROVE  next > HeldFrom => mig'[m].epoch
      BY <1>3, <2>3
    <3>1. HAVE next > HeldFrom
    <3>2. 46 \in Ships(i)
      BY <1>2, <1>3, <3>1 DEF Ships, HeldFrom
    <3>3. f \in Nat /\ 46 <= f
      BY <1>1, <1>2, <1>3, <3>1, <3>2 DEF HeldFrom
    <3>4. mig[m].epoch
      BY <2>1, <3>3 DEF HeldFrom, ApplyFile, NeedsEpoch, EpochFiles
    <3> QED
      BY <1>4, <3>3, <3>4 DEF HeldFrom
  <2>5. next = 0 => DOMAIN applied' = Ships(i)
    BY <1>3, <2>2, <2>3
  <2>7. ASSUME NEW n \in Migrators, n # m
        PROVE  mig'[n].pc = "idle"
    BY <1>4, <1>5, <2>7 DEF Active
  <2> QED
    BY <1>4, <2>2, <2>4, <2>5, <2>7 DEF PlaceInList, Ships
<1>12. SeenByProbe'
  BY <1>5, <1>6, <1>7 DEF UpgradeInv, SeenByProbe
<1>13. CommandsSeeOneProtocol'
  <2> SUFFICES ASSUME NEW c \in DOMAIN confirm
               PROVE  Protocol' = Protocol
    BY <1>6 DEF UpgradeInv, CommandsSeeOneProtocol
  <2>1. ~mig[m].epoch
    BY DEF UpgradeInv, LocksHeld
  <2>2. f \notin EpochFiles /\ ~(f >= HeldFrom)
    <3>1. f \notin EpochFiles
      BY <2>1 DEF ApplyFile, NeedsEpoch
    <3>2. ~(f > HeldFrom) /\ f \in Nat
      BY <1>1, <1>2, <2>1 DEF UpgradeInv, PlaceInList, ApplyFile
    <3> QED
      BY <3>1, <3>2 DEF EpochFiles, HeldFrom
  <2> QED
    BY <1>6, <1>7, <2>2 DEF Protocol
<1> QED
  BY <1>7, <1>8, <1>9, <1>10, <1>11, <1>12, <1>13 DEF UpgradeInv

(* What a probe does: it holds the migration lock shared, and goes on only  *)
(* past a query that found what its program expects.                        *)
LEMMA ProbeSteps ==
  ASSUME UpgradeConstants, UpgradeInv, NEW p \in Probes,
         \/ \E i \in Images : StartProbe(p, i)
         \/ ProbeQuery(p)
         \/ AnswerReady(p)
  PROVE  UpgradeInv'
<1> DEFINE Sound(r) ==
       /\ r \in ProbeStates
       /\ r.at # 0 =>
            /\ \A m \in Migrators : ~Active(m)
            /\ DOMAIN applied = Ships(r.image)
            /\ r.at > ProfileQuery => manifest = ManifestOf[r.image]
            /\ \A q \in damaged : q < r.at => q \in r.late
<1>0. probe \in [Probes -> ProbeStates] /\ damaged \subseteq Watched
  BY DEF UpgradeInv, UpgradeTypeOK, ProbeStates, SeenByProbe
<1>1. UNCHANGED <<applied, objects, damaged, manifest, clock, budget, mig, confirm>>
  BY DEF StartProbe, ProbeQuery, AnswerReady
<1>2. Sound(NotProbing)
  BY AtRest
<1>3. ASSUME NEW r, probe' = [probe EXCEPT ![p] = r], Sound(r)
      PROVE  UpgradeInv'
  <2>1. /\ probe' \in [Probes -> ProbeStates] /\ probe'[p] = r
        /\ \A o \in Probes : o # p => probe'[o] = probe[o]
    BY <1>0, <1>3
  <2>2. UpgradeTypeOK'
    BY <1>1, <2>1 DEF UpgradeInv, UpgradeTypeOK, ProbeStates
  <2>3. LocksHeld'
    BY <1>1, <1>3, <2>1 DEF UpgradeInv, LocksHeld, Active
  <2>4. SeenByProbe'
    BY <1>0, <1>1, <1>3, <2>1 DEF UpgradeInv, SeenByProbe, Ships
  <2> QED
    BY <1>1, <2>2, <2>3, <2>4
    DEF UpgradeInv, RowsHaveTimes, HistoryInOrder, PlaceInList, CommandsSeeOneProtocol, Protocol
<1>4. ASSUME NEW i \in Images, StartProbe(p, i)
      PROVE  UpgradeInv'
  <2>1. CASE MigrationsReady(i)
    <3> DEFINE r == [NotProbing EXCEPT !.image = i, !.at = NextQuery(0)]
    <3>1. NextQuery(0) \in 1 .. Answered
          /\ (\A q \in Watched : q < NextQuery(0) => q <= 0)
          /\ ~(NextQuery(0) > ProfileQuery)
      <4>1. 0 \in Nat /\ 0 < Answered
        BY QueryNumbers
      <4> QED
        BY <4>1, NextQueryIsNext DEF ProfileQuery
    <3>2. r.image = i /\ r.at = NextQuery(0) /\ r \in ProbeStates
      <4>1. NotProbing \in ProbeStates /\ NextQuery(0) \in 0 .. Answered
        BY <3>1, AtRest, QueryNumbers
      <4> QED
        BY <4>1 DEF ProbeStates
    <3>3. \A m \in Migrators : ~Active(m)
      BY <1>4 DEF StartProbe, ProbeMayStart, Migrating, Active
    <3>4. DOMAIN applied = Ships(i)
      BY <2>1 DEF MigrationsReady
    <3>5. \A q \in damaged : ~(q < NextQuery(0))
      BY <1>0, <3>1, QueryNumbers
    <3>6. Sound(r)
      BY <3>1, <3>2, <3>3, <3>4, <3>5
    <3> QED
      BY <1>3, <1>4, <2>1, <3>6 DEF StartProbe
  <2>2. CASE ~MigrationsReady(i)
    BY <1>2, <1>3, <1>4, <2>2 DEF StartProbe
  <2> QED
    BY <2>1, <2>2
<1>5. ASSUME ProbeQuery(p)
      PROVE  UpgradeInv'
  <2> DEFINE q == probe[p].at
             i == probe[p].image
  <2>1. q \in 1 .. Answered - 1 /\ i \in Images
    BY <1>0, <1>5, QueryNumbers DEF ProbeQuery, ProbeStates
  <2>2. CASE Finds(i, q)
    <3> DEFINE r == [probe[p] EXCEPT !.at = NextQuery(q)]
    <3>1. /\ NextQuery(q) \in 1 .. Answered
          /\ \A x \in Watched : x < NextQuery(q) => x <= q
          /\ NextQuery(q) > ProfileQuery => q >= ProfileQuery
      BY <2>1, QueryNumbers, NextQueryIsNext
    <3>2. r.image = i /\ r.at = NextQuery(q) /\ r.late = probe[p].late
          /\ r \in ProbeStates
      BY <1>0, <3>1, QueryNumbers DEF ProbeStates
    <3>3. q # 0
      BY <2>1, QueryNumbers
    <3>4. (\A m \in Migrators : ~Active(m)) /\ DOMAIN applied = Ships(i)
      BY <3>3 DEF UpgradeInv, LocksHeld, SeenByProbe
    <3>5. NextQuery(q) > ProfileQuery => manifest = ManifestOf[i]
      <4>1. q > ProfileQuery => manifest = ManifestOf[i]
        BY <3>3 DEF UpgradeInv, SeenByProbe
      <4>2. q = ProfileQuery => manifest = ManifestOf[i]
        BY <2>2 DEF Finds, ProfilesAgree
      <4> QED
        BY <2>1, <3>1, <4>1, <4>2, QueryNumbers DEF ProfileQuery
    <3>6. \A x \in damaged : x < NextQuery(q) => x \in probe[p].late
      <4>1. \A x \in damaged : x < q => x \in probe[p].late
        BY <3>3 DEF UpgradeInv, SeenByProbe
      <4>2. q \notin damaged
        BY <2>2 DEF Finds
      <4>3. \A x \in damaged : x < NextQuery(q) => x < q
        BY <1>0, <2>1, <3>1, <4>2, QueryNumbers
      <4> QED
        BY <4>1, <4>3
    <3>7. Sound(r)
      BY <3>2, <3>4, <3>5, <3>6
    <3> QED
      BY <1>3, <1>5, <2>2, <3>7 DEF ProbeQuery
  <2>3. CASE ~Finds(i, q)
    BY <1>2, <1>3, <1>5, <2>3 DEF ProbeQuery
  <2> QED
    BY <2>2, <2>3
<1>6. ASSUME AnswerReady(p)
      PROVE  UpgradeInv'
  BY <1>2, <1>3, <1>6 DEF AnswerReady
<1> QED
  BY <1>4, <1>5, <1>6

(* Commands take and give back the epoch.                                   *)
LEMMA CommandSteps ==
  ASSUME UpgradeConstants, UpgradeInv, NEW c \in Confirms,
         BeginConfirm(c) \/ EndConfirm(c)
  PROVE  UpgradeInv'
<1>1. UNCHANGED <<applied, objects, damaged, manifest, clock, budget, mig, probe>>
  BY DEF BeginConfirm, EndConfirm
<1>2. Protocol' = Protocol
  BY <1>1 DEF Protocol
<1>3. /\ DOMAIN confirm' \subseteq Confirms
      /\ \A d \in DOMAIN confirm' : confirm'[d] = Protocol
      /\ \A m \in Migrators : mig[m].epoch => DOMAIN confirm' = {}
  <2>1. CASE BeginConfirm(c)
    <3>1. \A m \in Migrators : ~mig[m].epoch
      BY <2>1 DEF BeginConfirm, EpochHolders
    <3> QED
      BY <2>1, <3>1 DEF BeginConfirm, UpgradeInv, UpgradeTypeOK, CommandsSeeOneProtocol
  <2>2. CASE EndConfirm(c)
    <3>1. DOMAIN confirm' = DOMAIN confirm \ {c}
          /\ \A d \in DOMAIN confirm' : confirm'[d] = confirm[d]
      BY <2>2 DEF EndConfirm, Restrict
    <3> QED
      BY <3>1 DEF UpgradeInv, UpgradeTypeOK, CommandsSeeOneProtocol, LocksHeld
  <2> QED
    BY <2>1, <2>2
<1>4. UpgradeTypeOK'
  BY <1>1, <1>3 DEF UpgradeInv, UpgradeTypeOK
<1>5. LocksHeld'
  BY <1>1, <1>3 DEF UpgradeInv, LocksHeld, Active
<1>6. CommandsSeeOneProtocol'
  BY <1>2, <1>3 DEF CommandsSeeOneProtocol
<1> QED
  BY <1>1, <1>4, <1>5, <1>6
  DEF UpgradeInv, RowsHaveTimes, HistoryInOrder, PlaceInList, SeenByProbe

(* The clock moves either way; somebody alters an object.                   *)
LEMMA WorldSteps ==
  ASSUME UpgradeConstants, UpgradeInv,
         ClockAdvances \/ StepClockBack \/ (\E q \in Watched : AlterByHand(q))
  PROVE  UpgradeInv'
<1>1. CASE ClockAdvances \/ StepClockBack
  <2>1. UNCHANGED <<applied, objects, damaged, manifest, mig, probe, confirm>>
    BY <1>1 DEF ClockAdvances, StepClockBack
  <2>2. clock' \in 0 .. MaxTime /\ budget' \in [steps : 0 .. MaxSteps, runs : 0 .. MaxRuns]
    <3>1. /\ MaxTime \in Nat /\ MaxSteps \in Nat /\ clock \in 0 .. MaxTime
          /\ budget \in [steps : 0 .. MaxSteps, runs : 0 .. MaxRuns]
      BY DEF UpgradeConstants, UpgradeInv, UpgradeTypeOK
    <3>2. CASE ClockAdvances
      BY <3>1, <3>2 DEF ClockAdvances
    <3>3. CASE StepClockBack
      BY <3>1, <3>3 DEF StepClockBack
    <3> QED
      BY <1>1, <3>2, <3>3
  <2>3. UpgradeTypeOK'
    BY <2>1, <2>2 DEF UpgradeInv, UpgradeTypeOK
  <2> QED
    BY <2>1, <2>3
    DEF UpgradeInv, RowsHaveTimes, LocksHeld, Active, HistoryInOrder, PlaceInList,
        SeenByProbe, CommandsSeeOneProtocol, Protocol, Ships
<1>2. ASSUME NEW q \in Watched, AlterByHand(q)
      PROVE  UpgradeInv'
  <2>1. /\ UNCHANGED <<applied, objects, manifest, clock, budget, mig, confirm>>
        /\ damaged' = damaged \cup {q}
    BY <1>2 DEF AlterByHand
  <2>2. probe \in [Probes -> ProbeStates] /\ q \in 1 .. 31
    BY QueryNumbers DEF UpgradeInv, UpgradeTypeOK, ProbeStates
  <2>3. /\ probe' \in [Probes -> ProbeStates]
        /\ \A p \in Probes :
             /\ probe'[p].at = probe[p].at /\ probe'[p].image = probe[p].image
             /\ probe[p].late \subseteq probe'[p].late
             /\ probe[p].at > q => q \in probe'[p].late
    BY <1>2, <2>2 DEF AlterByHand, ProbeStates
  <2>4. UpgradeTypeOK'
    BY <2>1, <2>2, <2>3, QueriesLength DEF UpgradeInv, UpgradeTypeOK, ProbeStates
  <2>5. LocksHeld'
    BY <2>1, <2>3 DEF UpgradeInv, LocksHeld, Active
  <2>6. SeenByProbe'
    <3>1. damaged' \subseteq Watched
      BY <2>1 DEF UpgradeInv, SeenByProbe
    <3>2. ASSUME NEW p \in Probes, probe'[p].at # 0
          PROVE  /\ DOMAIN applied' = Ships(probe'[p].image)
                 /\ probe'[p].at > ProfileQuery => manifest' = ManifestOf[probe'[p].image]
                 /\ \A x \in damaged' : x < probe'[p].at => x \in probe'[p].late
      <4>1. probe[p].at \in Nat
        BY <2>2, QueryNumbers DEF ProbeStates
      <4> QED
        BY <2>1, <2>2, <2>3, <3>2, <4>1 DEF UpgradeInv, SeenByProbe
    <3> QED
      BY <3>1, <3>2 DEF SeenByProbe, Ships
  <2> QED
    BY <2>1, <2>4, <2>5, <2>6
    DEF UpgradeInv, RowsHaveTimes, HistoryInOrder, PlaceInList, CommandsSeeOneProtocol, Protocol
<1> QED
  BY <1>1, <1>2

-----------------------------------------------------------------------------
(* The results. *)

(* However migrators, probes, commands and the clock interleave, the locks, *)
(* the history, the migrators' places and what probes have seen stay        *)
(* consistent (migrate.ts, databaseReady).                                  *)
THEOREM UpgradeInvariant == UpgradeSpec => []UpgradeInv
<1> USE UpgradeAssumption
<1>1. UpgradeInit => UpgradeInv
  BY UpgradeInvInit
<1>2. UpgradeInv /\ [UpgradeNext]_upgradeVars => UpgradeInv'
  <2> SUFFICES ASSUME UpgradeInv, [UpgradeNext]_upgradeVars
               PROVE  UpgradeInv'
    OBVIOUS
  <2>1. ASSUME NEW m \in Migrators,
               \/ \E i \in Images : TakeMigrationLock(m, i)
               \/ VerifyHistory(m) \/ TakeProtocolEpoch(m)
        PROVE  UpgradeInv'
    BY <2>1, MigratorPrepares
  <2>2. ASSUME NEW m \in Migrators, ApplyFile(m)
        PROVE  UpgradeInv'
    BY <2>2, FileApplies
  <2>3. ASSUME NEW m \in Migrators, RefuseHistory(m) \/ RefuseFile(m) \/ MigratorFails(m)
        PROVE  UpgradeInv'
    <3>1. manifest \in Range(ManifestOf) \cup {"none"}
      BY DEF UpgradeInv, UpgradeTypeOK
    <3> QED
      BY <2>3, <3>1, SessionEnds DEF RefuseHistory, RefuseFile, MigratorFails
  <2>4. ASSUME NEW m \in Migrators, ReconcileProfiles(m)
        PROVE  UpgradeInv'
    <3>1. mig[m].image \in Images /\ DOMAIN ManifestOf = Images
      BY DEF UpgradeInv, UpgradeTypeOK, UpgradeConstants
    <3>2. manifest' \in Range(ManifestOf) \cup {"none"}
      BY <2>4, <3>1 DEF ReconcileProfiles, Range
    <3>3. DOMAIN confirm = {} /\ \A p \in Probes : probe[p].at = 0
      BY <2>4 DEF ReconcileProfiles, UpgradeInv, LocksHeld, Active
    <3> QED
      BY <2>4, <3>2, <3>3, SessionEnds DEF ReconcileProfiles
  <2>5. ASSUME NEW p \in Probes,
               (\E i \in Images : StartProbe(p, i)) \/ ProbeQuery(p) \/ AnswerReady(p)
        PROVE  UpgradeInv'
    BY <2>5, ProbeSteps
  <2>6. ASSUME NEW c \in Confirms, BeginConfirm(c) \/ EndConfirm(c)
        PROVE  UpgradeInv'
    BY <2>6, CommandSteps
  <2>7. CASE ClockAdvances \/ StepClockBack \/ \E q \in Watched : AlterByHand(q)
    BY <2>7, WorldSteps
  <2>8. CASE UNCHANGED upgradeVars
    BY <2>8
    DEF upgradeVars, UpgradeInv, UpgradeTypeOK, RowsHaveTimes, LocksHeld, Active, HistoryInOrder,
        PlaceInList, SeenByProbe, CommandsSeeOneProtocol, Protocol
  <2> QED
    BY <2>1, <2>2, <2>3, <2>4, <2>5, <2>6, <2>7, <2>8 DEF UpgradeNext
<1> QED
  BY <1>1, <1>2, PTL DEF UpgradeSpec

(* While a command holds the protocol epoch, no guarded migration commits   *)
(* and the profiles are not rewritten (migrate.ts, lockProtocolEpoch).      *)
THEOREM OneProtocol == UpgradeSpec => []CommandsSeeOneProtocol
<1>1. UpgradeInv => CommandsSeeOneProtocol
  BY DEF UpgradeInv
<1> QED
  BY <1>1, UpgradeInvariant, PTL

(* Overlapping, dying and repeated upgrades leave an ordered history, can   *)
(* be resumed, reconcile onto the whole schema, and a ready answer is about *)
(* one schema.                                                              *)
THEOREM SoundUpgrade == UpgradeSpec => []UpgradeIsSound
<1> USE UpgradeAssumption
<1>1. UpgradeInv => UpgradeIsSound
  <2> SUFFICES ASSUME UpgradeInv
               PROVE  UpgradeIsSound
    OBVIOUS
  <2>1. HistoryInOrder
    BY DEF UpgradeInv
  <2>2. UpgradeResumes
    <3>1. /\ LatestApplied \in 0 .. MaxTime /\ clock \in 0 .. MaxTime
          /\ MaxTime \in Nat /\ Tolerance \in Nat
      BY LatestIsLatest DEF UpgradeInv, UpgradeTypeOK, UpgradeConstants
    <3>2. ASSUME NEW m \in Migrators, mig[m].pc = "history", ~HistoryFits(mig[m].image)
          PROVE  \/ DOMAIN applied \ Ships(mig[m].image) # {}
                 \/ LatestApplied > clock + Tolerance
      <4>1. \A f \in Ships(mig[m].image), g \in DOMAIN applied : f < g => f \in DOMAIN applied
        BY <2>1 DEF HistoryInOrder, Ships
      <4>2. \A f, g \in DOMAIN applied : f < g => applied[f] <= applied[g] + Tolerance
        <5>1. \A f \in DOMAIN applied : applied[f] \in 0 .. MaxTime /\ f \in Files
          BY DEF UpgradeInv, UpgradeTypeOK, RowsHaveTimes
        <5>2. \A f, g \in DOMAIN applied : f < g => applied[f] <= applied[g]
          BY <2>1, <5>1 DEF HistoryInOrder
        <5> QED
          BY <3>1, <5>1, <5>2
      <4> QED
        BY <3>1, <3>2, <4>1, <4>2 DEF HistoryFits
    <3>3. LatestApplied > MigrationTime => LatestApplied > clock + Tolerance
      BY <3>1 DEF MigrationTime
    <3> QED
      BY <3>2, <3>3 DEF UpgradeResumes
  <2>3. ReconciledOnWholeSchema
    BY <2>1 DEF UpgradeInv, PlaceInList, HistoryInOrder, ReconciledOnWholeSchema
  <2>4. ReadyIsOneSchema
    <3> SUFFICES ASSUME NEW p \in Probes, probe[p].at = Answered
                 PROVE  /\ DOMAIN applied = Ships(probe[p].image)
                        /\ objects = Ships(probe[p].image)
                        /\ manifest = ManifestOf[probe[p].image]
                        /\ damaged \subseteq probe[p].late
      BY DEF ReadyIsOneSchema
    <3>1. probe[p].at # 0 /\ probe[p].at > ProfileQuery
          /\ \A q \in damaged : q < probe[p].at
      BY QueryNumbers DEF ProfileQuery, UpgradeInv, SeenByProbe
    <3> QED
      BY <2>1, <3>1 DEF UpgradeInv, SeenByProbe, HistoryInOrder
  <2> QED
    BY <2>1, <2>2, <2>3, <2>4 DEF UpgradeIsSound
<1> QED
  BY <1>1, UpgradeInvariant, PTL
=============================================================================
