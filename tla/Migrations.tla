----------------------------- MODULE Migrations -----------------------------
(***************************************************************************)
(* Upgrading the database under a running system: the migration program    *)
(* packages/db/src/migrate.ts, the readiness probe databaseReady of        *)
(* packages/db/src/database.ts, and the commands that keep running beside  *)
(* them.  Migrators of an old and of a new release image may be started at *)
(* any time, several at once, and die anywhere; the database clock may     *)
(* step backwards; somebody may alter an object by hand.                   *)
(*                                                                         *)
(* A migration file is its number.  What matters of a file is its place in *)
(* the order, whether it changes the command protocol, and which readiness *)
(* queries look at the objects it defines.                                 *)
(***************************************************************************)
EXTENDS Integers, Sequences, FiniteSets, FiniteSetsExt, Functions

CONSTANTS
  Files,       \* the numbers of the migrations of the newest image
  Newest,      \* image |-> the last file it ships (an image ships a prefix)
  ManifestOf,  \* image |-> the staff profile manifest its environment names
  Migrators,   \* migration processes
  Probes,      \* readiness probes
  Confirms,    \* commands that run in the API processes
  Tolerance,   \* appliedAtClockSkewTolerance
  MaxTime,     \* bound: the database clock stays in 0 .. MaxTime
  MaxSteps,    \* bound: how often the clock is stepped backwards
  MaxRuns,     \* bound: how many migrators are started
  MaxDamage    \* bound: how many queries find an object altered by hand

VARIABLES
  applied,   \* schema_migrations: file |-> applied_at
  objects,   \* the files whose SQL has taken effect
  damaged,   \* indices of the queries whose objects were altered by hand
  manifest,  \* manifest_name of staff_profile_reconciliation_state, or "none"
  clock,     \* statement_timestamp() of the database
  budget,    \* [steps, runs]: how much of the bounds is used
  mig,       \* migrator |-> its image, its step, its file, its epoch lock
  probe,     \* probe |-> its image, the query it is at, and the queries
             \* whose objects were altered after it had read them
  confirm    \* command that holds the protocol epoch (shared) |-> what it
             \* found: the guarded migrations and the manifest

upgradeVars == <<applied, objects, damaged, manifest, clock, budget, mig, probe, confirm>>

Images == DOMAIN Newest

\* readdir(...).sort() of an image, and currentMigrationNames of its program.
Ships(i) == {f \in Files : f <= Newest[i]}

\* The file after f in the image's order; 0 at the end of the list.
NextFile(i, f) == LET later == {g \in Ships(i) : g > f}
                  IN  IF later = {} THEN 0 ELSE Min(later)

\* Every image ships a file, and the list has the file from which on the
\* protocol epoch is kept.
UpgradeConstants ==
  /\ Files \subseteq Nat \ {0} /\ 46 \in Files
  /\ Images # {} /\ Newest \in [Images -> Nat] /\ DOMAIN ManifestOf = Images
  /\ \A i \in Images : Ships(i) # {}
  /\ Tolerance \in Nat /\ MaxTime \in Nat /\ MaxSteps \in Nat /\ MaxRuns \in Nat
ASSUME UpgradeAssumption == UpgradeConstants

-----------------------------------------------------------------------------
(* What each readiness query compares: the migrations that last defined    *)
(* the functions, triggers, constraints, indexes and columns it names.  A  *)
(* query is one SQL statement and sees one snapshot.  How it compares an   *)
(* object (a body, a hash, a list of columns) is left out: an object is    *)
(* the one its migration defines, or altered.  These sets decide which     *)
(* queries a run watches (Watched) and which files can undo an alteration; *)
(* beyond that no property depends on them.                                *)

questionProgress == {78}
providerSettings == {79, 80}
expectedStaffProfileCatalog == {48, 50, 55, 56, 61, 69, 74}
isolationRole == {47, 48, 50, 51}
isolationUpdateColumns == {48, 50, 51}
isolationTokenGuards == {48, 50, 51}
isolationProjectionGuards == {48, 50, 51}
memberProfileObjects == {37, 53}
foundationalObjects == {2, 4, 6, 17, 50}
stage10Objects == {27, 43, 44, 73}
stage11Objects == {13, 27, 28, 44, 73}
collectionFactObjects == {9, 69}
completedStayBackfillObjects == {41, 43}
completeStayGuardObjects == {43}
stage12Objects == {18, 29, 44}
stage13Functions == {2, 11, 17, 33, 34, 35, 45, 50, 69}
stage13Constraints == {33, 50}
stage13Bodies == {2, 33, 34, 35, 45, 50, 69}
ownerHistoricalPaymentRepriceObjects == {77}
historicalStayArrangementCorrectionObjects == {2, 49}
adminMembershipTables == {50}
adminMembershipFunctions == {49, 50, 53}
adminMembershipBindings == {2, 50}
step9NewTables == {49, 50}
step9AlteredTables == {50, 54}
inHouseMembershipBindings == {5, 18, 27, 28, 44, 45, 50, 52}
inHouseMembershipBodies == {27, 28, 44, 45, 50, 52}
temporaryOtherRoomTriggers == {52}
temporaryOtherRoomBodies == {52}
membershipCancellationReady == {74}
crossRoomUpgradeReady == {65, 76}
roomCatalogReady == {2, 61, 75}
accountManagementReady == {2, 50, 53, 54}
checkoutReversalReady == {28, 55}
companionReady == {2, 20, 56}
integrationReady == {58}
wecomRefundReady == {59, 69}
externalPaymentsReady == {59, 60, 69}
paymentDeliveryReady == {67}
\* Two schemas are accepted: the one before 081 and the one with it.
expectedFingerprints == {{69}, {69, 81}}
paymentAllocationReady == UNION expectedFingerprints
operatingSalesReady == {69, 72}

\* The queries in the order databaseReady sends them.
Queries == <<
  questionProgress, providerSettings, expectedStaffProfileCatalog,
  isolationRole \cup isolationUpdateColumns \cup isolationTokenGuards
    \cup isolationProjectionGuards,
  memberProfileObjects, foundationalObjects, stage10Objects, stage11Objects,
  collectionFactObjects, completedStayBackfillObjects, completeStayGuardObjects,
  stage12Objects, stage13Functions \cup stage13Constraints \cup stage13Bodies,
  ownerHistoricalPaymentRepriceObjects, historicalStayArrangementCorrectionObjects,
  adminMembershipTables \cup adminMembershipFunctions \cup adminMembershipBindings,
  step9NewTables \cup step9AlteredTables,
  inHouseMembershipBindings \cup inHouseMembershipBodies,
  temporaryOtherRoomTriggers \cup temporaryOtherRoomBodies,
  membershipCancellationReady, crossRoomUpgradeReady, roomCatalogReady,
  accountManagementReady, checkoutReversalReady, companionReady, integrationReady,
  wecomRefundReady, externalPaymentsReady, paymentDeliveryReady,
  paymentAllocationReady, operatingSalesReady >>

\* The statement that also compares assignments, grants and the
\* reconciliation state with the manifest the environment names.
ProfileQuery == 4
ProfilesAgree(i) == manifest = ManifestOf[i]

\* The query that compares a fingerprint with a list of known ones.
AllocationQuery == 30
Known(q) == IF q = AllocationQuery THEN expectedFingerprints ELSE {Queries[q]}

\* Query q finds what the image's program expects: the objects of its files,
\* no newer version of them, and none altered by hand.
Finds(i, q) ==
  /\ \E files \in Known(q) : Queries[q] \cap objects = files \cap Ships(i)
  /\ q \notin damaged
  /\ q = ProfileQuery => ProfilesAgree(i)

\* The queries that look at the profiles or at an object of the chosen
\* files; the others find the same at every time and are passed over.
Watched == {q \in DOMAIN Queries : Queries[q] \cap Files # {} \/ q = ProfileQuery}
Answered == Len(Queries) + 1
NextQuery(q) == Min({r \in Watched : r > q} \cup {Answered})

-----------------------------------------------------------------------------
(* The two advisory locks.  qintopia:migrate is held by a migrator         *)
(* (exclusive) or by probes (shared); qintopia:protocol-epoch is held by a *)
(* migrator (exclusive) or by commands (shared).                           *)

Migrating == {m \in Migrators : mig[m].pc # "idle"}
Probing == {p \in Probes : probe[p].at # 0}
EpochHolders == {m \in Migrators : mig[m].epoch}

LatestApplied == IF applied = <<>> THEN 0 ELSE Max(Range(applied))

\* Files after which old programs must not confirm with the guards they
\* know: each takes the protocol epoch, and from 046 on it is kept.
EpochFiles == {28, 44, 46}
HeldFrom == 46

\* What a command may rely on while it holds the epoch.
Protocol == <<{f \in objects : f >= HeldFrom \/ f \in EpochFiles}, manifest>>

NotMigrating == [image |-> CHOOSE i \in Images : TRUE, pc |-> "idle", file |-> 0, epoch |-> FALSE]
NotProbing == [image |-> CHOOSE i \in Images : TRUE, at |-> 0, late |-> {}]

\* The migrator's session ends: its open transaction is rolled back and the
\* server releases its locks.
EndSession(m) == mig' = [mig EXCEPT ![m] = NotMigrating]

-----------------------------------------------------------------------------
(* The migration program.                                                  *)

\* A migrator of image i connects as the owner and gets qintopia:migrate.
TakeMigrationLock(m, i) ==
  /\ mig[m].pc = "idle" /\ budget.runs < MaxRuns
  /\ Migrating = {} /\ Probing = {}
  /\ mig' = [mig EXCEPT ![m] = [NotMigrating EXCEPT !.image = i, !.pc = "history"]]
  /\ budget' = [budget EXCEPT !.runs = @ + 1]
  /\ UNCHANGED <<applied, objects, damaged, manifest, clock, probe, confirm>>

\* schema_migrations is an ordered prefix of the image's list, not from the
\* future and not reordered, both up to the tolerance.
HistoryFits(i) ==
  /\ DOMAIN applied \subseteq Ships(i)
  /\ \A f \in Ships(i), g \in DOMAIN applied : f < g => f \in DOMAIN applied
  /\ LatestApplied <= clock + Tolerance
  /\ \A f, g \in DOMAIN applied : f < g => applied[f] <= applied[g] + Tolerance

VerifyHistory(m) ==
  /\ mig[m].pc = "history"
  /\ HistoryFits(mig[m].image)
  /\ mig' = [mig EXCEPT ![m].pc = "files", ![m].file = NextFile(mig[m].image, 0)]
  /\ UNCHANGED <<applied, objects, damaged, manifest, clock, budget, probe, confirm>>

RefuseHistory(m) ==
  /\ mig[m].pc = "history"
  /\ ~HistoryFits(mig[m].image)
  /\ EndSession(m)
  /\ UNCHANGED <<applied, objects, damaged, manifest, clock, budget, probe, confirm>>

\* Before 028, 044 and 046, applied or not, the migrator waits until no
\* command runs and keeps new ones from starting.
NeedsEpoch(m) == mig[m].file \in EpochFiles /\ ~mig[m].epoch

TakeProtocolEpoch(m) ==
  /\ mig[m].pc = "files" /\ NeedsEpoch(m)
  /\ confirm = <<>> /\ EpochHolders = {}
  /\ mig' = [mig EXCEPT ![m].epoch = TRUE]
  /\ UNCHANGED <<applied, objects, damaged, manifest, clock, budget, probe, confirm>>

\* Always the clock.
MutMigrationTime == clock

\* applied_at of the next row: the latest row's time when the clock is
\* behind it by no more than the tolerance.
MigrationTime ==
  IF LatestApplied > clock /\ LatestApplied <= clock + Tolerance
  THEN LatestApplied ELSE clock

\* The epoch is released after every file.
MutPassFile(m) ==
  LET next == NextFile(mig[m].image, mig[m].file)
  IN  mig' = [mig EXCEPT ![m].file = next,
                         ![m].pc = IF next = 0 THEN "profiles" ELSE "files",
                         ![m].epoch = FALSE]

\* After the file: the next one, and the epoch only when 046 was passed.
PassFile(m) ==
  LET next == NextFile(mig[m].image, mig[m].file)
  IN  mig' = [mig EXCEPT ![m].file = next,
                         ![m].pc = IF next = 0 THEN "profiles" ELSE "files",
                         ![m].epoch = @ /\ mig[m].file >= HeldFrom]

\* One transaction runs the file's SQL and records it.  A file that defines
\* an object anew may or may not undo what was altered by hand.
RecordFile(f) ==
  /\ applied' = [g \in DOMAIN applied \cup {f} |-> IF g = f THEN MigrationTime ELSE applied[g]]
  /\ objects' = objects \cup {f}
  /\ \E mended \in SUBSET {q \in damaged : f \in Queries[q]} : damaged' = damaged \ mended

ApplyFile(m) ==
  /\ mig[m].pc = "files" /\ ~NeedsEpoch(m)
  /\ IF mig[m].file \in DOMAIN applied
     THEN UNCHANGED <<applied, objects, damaged>>
     ELSE LatestApplied <= MigrationTime /\ RecordFile(mig[m].file)
  /\ PassFile(m)
  /\ UNCHANGED <<manifest, clock, budget, probe, confirm>>

\* The insert returns no row: the clock has been stepped back too far.
RefuseFile(m) ==
  /\ mig[m].pc = "files" /\ ~NeedsEpoch(m)
  /\ mig[m].file \notin DOMAIN applied
  /\ LatestApplied > MigrationTime
  /\ EndSession(m)
  /\ UNCHANGED <<applied, objects, damaged, manifest, clock, budget, probe, confirm>>

\* reconcileReviewedStaffProfiles, then the finally block; the function takes
\* the epoch itself when the loop did not.
ReconcileProfiles(m) ==
  /\ mig[m].pc = "profiles"
  /\ confirm = <<>> /\ EpochHolders \subseteq {m}
  /\ manifest' = ManifestOf[mig[m].image]
  /\ EndSession(m)
  /\ UNCHANGED <<applied, objects, damaged, clock, budget, probe, confirm>>

\* A file's SQL or the reconciliation raises, the lock times out, or the
\* process is killed.
MigratorFails(m) ==
  /\ mig[m].pc # "idle"
  /\ EndSession(m)
  /\ UNCHANGED <<applied, objects, damaged, manifest, clock, budget, probe, confirm>>

-----------------------------------------------------------------------------
(* The readiness probe: one transaction that keeps qintopia:migrate shared *)
(* from the first statement to the answer.                                 *)

\* The rows of schema_migrations are exactly currentMigrationNames.
MigrationsReady(i) == DOMAIN applied = Ships(i)

ProbeMayStart == Migrating = {}

\* It reads the migration rows; when they are not the program's own it
\* answers FALSE at once.
StartProbe(p, i) ==
  /\ probe[p].at = 0 /\ ProbeMayStart
  /\ IF MigrationsReady(i)
     THEN probe' = [probe EXCEPT ![p] = [NotProbing EXCEPT !.image = i, !.at = NextQuery(0)]]
     ELSE probe' = [probe EXCEPT ![p] = NotProbing]
  /\ UNCHANGED <<applied, objects, damaged, manifest, clock, budget, mig, confirm>>

\* The next query: a false answer ends the probe.
ProbeQuery(p) ==
  LET q == probe[p].at
  IN  /\ q \notin {0, Answered}
      /\ probe' = [probe EXCEPT ![p] =
           IF Finds(@.image, q) THEN [@ EXCEPT !.at = NextQuery(q)] ELSE NotProbing]
      /\ UNCHANGED <<applied, objects, damaged, manifest, clock, budget, mig, confirm>>

\* All queries were true: the answer is ready, and the transaction ends.
AnswerReady(p) ==
  /\ probe[p].at = Answered
  /\ probe' = [probe EXCEPT ![p] = NotProbing]
  /\ UNCHANGED <<applied, objects, damaged, manifest, clock, budget, mig, confirm>>

-----------------------------------------------------------------------------
(* Commands, the clock, and hands.                                         *)

\* lockProtocolEpoch at the head of a command's transaction.
BeginConfirm(c) ==
  /\ c \notin DOMAIN confirm /\ EpochHolders = {}
  /\ confirm' = [d \in DOMAIN confirm \cup {c} |-> IF d = c THEN Protocol ELSE confirm[d]]
  /\ UNCHANGED <<applied, objects, damaged, manifest, clock, budget, mig, probe>>

EndConfirm(c) ==
  /\ c \in DOMAIN confirm
  /\ confirm' = Restrict(confirm, DOMAIN confirm \ {c})
  /\ UNCHANGED <<applied, objects, damaged, manifest, clock, budget, mig, probe>>

ClockAdvances ==
  /\ clock < MaxTime
  /\ clock' = clock + 1
  /\ UNCHANGED <<applied, objects, damaged, manifest, budget, mig, probe, confirm>>

StepClockBack ==
  /\ budget.steps < MaxSteps
  /\ \E t \in 0 .. clock - 1 : clock' = t
  /\ budget' = [budget EXCEPT !.steps = @ + 1]
  /\ UNCHANGED <<applied, objects, damaged, manifest, mig, probe, confirm>>

\* Somebody alters an object that query q looks at.
AlterByHand(q) ==
  /\ Cardinality(damaged) < MaxDamage
  /\ Queries[q] \cap objects # {}
  /\ q \notin damaged
  /\ damaged' = damaged \cup {q}
  /\ probe' = [p \in Probes |->
       IF probe[p].at > q THEN [probe[p] EXCEPT !.late = @ \cup {q}] ELSE probe[p]]
  /\ UNCHANGED <<applied, objects, manifest, clock, budget, mig, confirm>>

\* A new database, or one an image has set up at time 0.
UpgradeInit ==
  /\ \E i \in Images \cup {"none"} :
       /\ objects = IF i = "none" THEN {} ELSE Ships(i)
       /\ applied = [f \in objects |-> 0]
       /\ manifest = IF i = "none" THEN "none" ELSE ManifestOf[i]
  /\ damaged = {} /\ clock = 0 /\ confirm = <<>>
  /\ budget = [steps |-> 0, runs |-> 0]
  /\ mig = [m \in Migrators |-> NotMigrating]
  /\ probe = [p \in Probes |-> NotProbing]

UpgradeNext ==
  \/ \E m \in Migrators :
       \/ \E i \in Images : TakeMigrationLock(m, i)
       \/ VerifyHistory(m) \/ RefuseHistory(m) \/ TakeProtocolEpoch(m)
       \/ ApplyFile(m) \/ RefuseFile(m) \/ ReconcileProfiles(m) \/ MigratorFails(m)
  \/ \E p \in Probes :
       \/ \E i \in Images : StartProbe(p, i)
       \/ ProbeQuery(p) \/ AnswerReady(p)
  \/ \E c \in Confirms : BeginConfirm(c) \/ EndConfirm(c)
  \/ ClockAdvances \/ StepClockBack
  \/ \E q \in Watched : AlterByHand(q)

UpgradeSpec == UpgradeInit /\ [][UpgradeNext]_upgradeVars

-----------------------------------------------------------------------------
UpgradeTypeOK ==
  /\ DOMAIN applied \subseteq Files /\ Range(applied) \subseteq 0 .. MaxTime
  /\ objects \subseteq Files /\ damaged \subseteq DOMAIN Queries
  /\ manifest \in Range(ManifestOf) \cup {"none"}
  /\ clock \in 0 .. MaxTime /\ DOMAIN confirm \subseteq Confirms
  /\ budget \in [steps : 0 .. MaxSteps, runs : 0 .. MaxRuns]
  /\ mig \in [Migrators -> [image : Images, pc : {"idle", "history", "files", "profiles"},
                            file : Files \cup {0}, epoch : BOOLEAN]]
  /\ probe \in [Probes -> [image : Images, at : 0 .. Answered,
                       late : SUBSET Watched]]

\* However migrators of different images overlap, die and are repeated, and
\* however the clock moves, the rows of schema_migrations are the first files
\* of the order, each one's SQL has taken effect, and applied_at never
\* decreases along them (migrate.ts:151-184, 200-226).
HistoryInOrder ==
  /\ DOMAIN applied = objects
  /\ \A f \in Files, g \in DOMAIN applied :
       f < g => f \in DOMAIN applied /\ applied[f] <= applied[g]

\* When databaseReady answers TRUE, after some thirty statements, the database
\* is at that moment the one its program was written for: every migration of
\* the program and none beyond, the profiles of its manifest, and no object
\* altered by hand before the statement that looks at it.
ReadyIsOneSchema ==
  \A p \in Probes : probe[p].at = Answered =>
    /\ DOMAIN applied = Ships(probe[p].image)
    /\ objects = Ships(probe[p].image)
    /\ manifest = ManifestOf[probe[p].image]
    /\ damaged \subseteq probe[p].late

\* While a command holds the protocol epoch, no migration that the epoch
\* guards commits and the staff profiles are not rewritten: the guards and
\* grants it was authorized under are those it commits under.
CommandsSeeOneProtocol ==
  \A c \in DOMAIN confirm : confirm[c] = Protocol

\* An interrupted upgrade can be resumed: a migrator is refused only when the
\* database has migrations its image does not ship, or the clock is behind
\* the history by more than the tolerance.
UpgradeResumes ==
  \A m \in Migrators :
    \/ mig[m].pc = "history" /\ ~HistoryFits(mig[m].image)
    \/ mig[m].pc = "files" /\ mig[m].file \notin DOMAIN applied /\ LatestApplied > MigrationTime
    => \/ DOMAIN applied \ Ships(mig[m].image) # {}
       \/ LatestApplied > clock + Tolerance

\* Staff profiles are reconciled only onto the whole schema of the image
\* whose manifest is used; an image that is too old never gets there.
ReconciledOnWholeSchema ==
  \A m \in Migrators : mig[m].pc = "profiles" => objects = Ships(mig[m].image)

\* Overlapping, dying and repeated upgrades leave one history: the rows of
\* schema_migrations are in order, an upgrade can be resumed, profiles are
\* written onto the whole schema, and a program that reports itself ready
\* finds the schema it was written for.
UpgradeIsSound ==
  HistoryInOrder /\ UpgradeResumes /\ ReconciledOnWholeSchema /\ ReadyIsOneSchema
=============================================================================
