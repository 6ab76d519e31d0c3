------------------------------- MODULE Access -------------------------------
(***************************************************************************)
(* Who may do what, while requests run side by side: web sessions and API  *)
(* tokens, the authorization every command repeats under row locks, the    *)
(* token lifecycle commands, account management, the reconciliation of the *)
(* staff profiles at deployment and the quota of unexpired quotes.         *)
(*                                                                         *)
(* A request is authenticated without locks (auth.ts), then takes its row  *)
(* locks one at a time (command-authorization.ts, account management in    *)
(* SQL), decides with all of them held, and commits later: between any two *)
(* of those steps the other requests, the clock and a deployment may step. *)
(* Every property grant is WRITE, as the staff profiles require, and the   *)
(* commands are told apart only as far as authorization does.              *)
(***************************************************************************)
EXTENDS Naturals, Sequences, FiniteSets

CONSTANTS
    Subjects,      \* rows of subjects
    Sessions,      \* rows of web_sessions
    Tokens,        \* rows of api_tokens
    Requests,      \* requests that may be in flight together
    IdOrder,       \* the row ids in the order they are locked in
    SeedAdmins,    \* subjects that are administrators at the start
    SeedStaff,     \* subjects that are staff at the start
    SeedSessions,  \* [session |-> subject] open at the start
    SeedTokens,    \* [token |-> subject] issued by the seed
    Manifests,     \* the sets of administrators a deployment may select
    Ceilings,      \* the command ceilings a caller may ask for
    QuoteQuota,    \* unexpired quotes a subject may hold
    Horizon,       \* bound: the last instant of the clock
    MaxEvents      \* bound: requests, sign-outs, expiries and deployments started

None == "none"

Ids == Subjects \cup Sessions \cup Tokens

ASSUME SeedsAssumption ==
    /\ SeedAdmins \subseteq Subjects /\ SeedStaff \subseteq Subjects
    /\ SeedSessions \in [DOMAIN SeedSessions -> SeedAdmins \cup SeedStaff]
    /\ SeedTokens \in [DOMAIN SeedTokens -> SeedAdmins \cup SeedStaff]
    /\ Ceilings \subseteq SUBSET {"ORDINARY", "ISSUE_TOKEN", "ROTATE_TOKEN", "REVOKE_TOKEN"}
    /\ QuoteQuota \in Nat \ {0} /\ Horizon \in Nat /\ MaxEvents \in Nat

\* No id is in two tables, and every subject comes before every session,
\* every session before every token.
ASSUME IdsAssumption ==
    /\ Subjects \cap Sessions = {} /\ Subjects \cap Tokens = {} /\ Sessions \cap Tokens = {}
    /\ Ids \cap {None, "room-catalog", "account-management"} = {}
    /\ IdOrder \in Seq(Ids)
    /\ \A id \in Ids : \E i \in DOMAIN IdOrder : IdOrder[i] = id
    /\ \A i, j \in DOMAIN IdOrder :
          \/ IdOrder[i] \in Subjects /\ IdOrder[j] \in Sessions \cup Tokens
          \/ IdOrder[i] \in Sessions /\ IdOrder[j] \in Tokens
          => i < j

VARIABLES
    subjects,    \* [status, version, password] of each subject
    profile,     \* staff_profile_assignments
    grants,      \* subject_command_grants
    sessions,    \* [status, subject, password it was opened with]
    tokens,      \* [status, subject, commands, expires, from, by]
    quotes,      \* number of unexpired quotes of each subject
    operations,  \* account_management_operations
    req,         \* what each request is doing
    need,        \* the row locks a request still has to take
    locks,       \* the row locks held: <<request, row, mode>>
    epoch,       \* command protocol the database is at
    migration,   \* "no", "waiting" for the epoch lock, or "holding" it
    now,
    events       \* counts what MaxEvents bounds

vars == <<subjects, profile, grants, sessions, tokens, quotes, operations,
          req, need, locks, epoch, migration, now, events>>

data == <<subjects, profile, grants, sessions, tokens, quotes, operations>>

(***************************************************************************)
(* Grants                                                                  *)
(***************************************************************************)
SessionOnly == {"MANAGE_ROOM_CATALOG"}
lifecycleTypes == {"ISSUE_TOKEN", "ROTATE_TOKEN", "REVOKE_TOKEN"}
administratorCommandGrants == {"ORDINARY"} \cup SessionOnly \cup lifecycleTypes
ordinaryStaffCommandGrants == {"ORDINARY"}

CommandProfile(p) == CASE p = "ADMIN" -> administratorCommandGrants
                       [] p = "STAFF" -> ordinaryStaffCommandGrants
                       [] OTHER       -> {}

UpdateOps == {"RESET_PASSWORD", "CHANGE_PASSWORD", "DISABLE_STAFF", "ENABLE_STAFF", "REVOKE_SESSIONS"}
ManagementOps == UpdateOps \cup {"CREATE_STAFF", "DELETE_STAFF"}
PlainTypes == {"ORDINARY", "CREATE_QUOTE"} \cup SessionOnly
Kinds == PlainTypes \cup lifecycleTypes \cup ManagementOps \cup {"LOGIN"}

Owner(c) == IF c \in Sessions THEN sessions[c].subject ELSE tokens[c].subject

Unrevoked(c) == IF c \in Sessions THEN sessions[c].status = "LIVE" ELSE tokens[c].status = "LIVE"

Unexpired(c) == c \in Tokens => tokens[c].expires > now

\* What authenticateRequest lets in, without a lock.
authenticateRequest(c) ==
    /\ Unrevoked(c)
    /\ Unexpired(c)
    /\ subjects[Owner(c)].status = "ACTIVE"

evaluateCommandAuthorization(c, commandType) ==
    /\ subjects[Owner(c)].status = "ACTIVE"
    /\ commandType \in grants[Owner(c)]
    /\ c \in Tokens => commandType \in tokens[c].commands \ SessionOnly

\* The grants a caller can pass on: its own, narrowed by its token.
effectiveCallerCommandGrants(c) ==
    grants[Owner(c)] \cap (IF c \in Tokens THEN tokens[c].commands \ SessionOnly ELSE administratorCommandGrants)

\* A ceiling must fit the target's grants and the caller's own scope, and
\* a token's offspring may not outlive it.
WithinCeilings(q) ==
    /\ q.ceiling \subseteq grants[q.target]
    /\ q.ceiling \subseteq effectiveCallerCommandGrants(q.cred)
    /\ q.cred \in Tokens => q.expires <= tokens[q.cred].expires

assertResolvedTokenLifecycleConstraint(q) ==
    /\ subjects[q.target].status = "ACTIVE"
    /\ q.kind = "ROTATE_TOKEN" => tokens[q.token].status = "LIVE" /\ tokens[q.token].expires > now
    /\ q.kind # "REVOKE_TOKEN" => WithinCeilings(q)

(***************************************************************************)
(* What a request locks, and what it may do once it has                    *)
(***************************************************************************)
\* The catalog and the account management are locked before any row.
Rank(row) == IF row \in Ids THEN CHOOSE i \in DOMAIN IdOrder : IdOrder[i] = row ELSE 0

Each(ids, mode) == {[row |-> id, mode |-> mode] : id \in ids}

lockRoomCatalog(exclusive) == Each({"room-catalog"}, IF exclusive THEN "U" ELSE "S")

CommandLocksCredentialOnly(q) ==
    Each({q.cred} \cap Sessions, "S") \cup Each({q.cred, q.token} \cap Tokens, "S")

\* The room catalog lock, which a catalog change takes alone, the subjects,
\* the session, the tokens; token commands lock rows for update.
CommandLocks(q) ==
    LET mode == IF q.kind \in lifecycleTypes THEN "U" ELSE "S" IN
    lockRoomCatalog(q.kind \in SessionOnly)
      \cup Each({Owner(q.cred), q.target} \ {None}, mode)
      \cup Each({q.cred} \cap Sessions, "S")
      \cup Each({q.cred, q.token} \cap Tokens, mode)

ManagementLocks(q) == Each({"account-management", Owner(q.cred), q.target, q.cred}, "U")

LoginWithoutLock(q) == {}

LoginLocks(q) == Each({q.target}, "S")

LocksOf(q) == IF q.kind = "LOGIN" THEN LoginLocks(q)
              ELSE IF q.kind \in ManagementOps THEN ManagementLocks(q)
              ELSE CommandLocks(q)

authorizeCommandAccess(q) ==
    /\ Unrevoked(q.cred)
    /\ IF q.kind = "CREATE_QUOTE" THEN subjects[Owner(q.cred)].status = "ACTIVE"
       ELSE evaluateCommandAuthorization(q.cred, q.kind)
    /\ q.kind \in SessionOnly => profile[Owner(q.cred)] = "ADMIN" /\ q.cred \in Sessions

\* Staff of this property who are not administrators, and never oneself.
Manageable(actor, s) == s # actor /\ profile[s] = "STAFF"

Body(q) == [actor |-> Owner(q.cred), session |-> q.cred, op |-> q.kind, target |-> q.target, version |-> q.basis.version]

EverUsed(s) == \/ \E x \in Sessions : sessions[x].status # "UNUSED" /\ sessions[x].subject = s
               \/ \E t \in Tokens : tokens[t].status # "UNUSED" /\ tokens[t].subject = s

\* The checks of qintopia_manage_account once its locks are held.
ManagementAllowed(q) ==
    /\ subjects[Owner(q.cred)].status = "ACTIVE"
    /\ Unrevoked(q.cred)
    /\ q.kind # "CHANGE_PASSWORD" => profile[Owner(q.cred)] = "ADMIN"
    /\ \/ Body(q) \in operations
       \/ CASE q.kind = "CREATE_STAFF" -> subjects[q.target].status = "NEW"
            [] q.kind = "CHANGE_PASSWORD" ->
                 /\ q.target = Owner(q.cred)
                 /\ subjects[q.target].password = q.password
                 /\ subjects[q.target].version = q.basis.version
            [] OTHER ->
                 /\ Manageable(Owner(q.cred), q.target)
                 /\ subjects[q.target].version = q.basis.version
                 /\ q.kind = "DELETE_STAFF" =>
                      /\ \E o \in operations : o.op = "CREATE_STAFF" /\ o.target = q.target
                      /\ ~EverUsed(q.target)

LoginAllowed(q) == /\ subjects[q.target].status = "ACTIVE"
                   /\ subjects[q.target].password = q.password

\* The decision, save for expiry, which is looked at once and not again.
Permitted(q) == IF q.kind = "LOGIN" THEN LoginAllowed(q)
                ELSE IF q.kind \in ManagementOps THEN ManagementAllowed(q)
                ELSE /\ authorizeCommandAccess(q)
                     /\ q.kind \in lifecycleTypes => subjects[q.target].status = "ACTIVE"

(***************************************************************************)
(* Requests                                                                *)
(***************************************************************************)
Idle == [kind |-> "idle", pc |-> "idle", cred |-> None, target |-> None, token |-> None, ceiling |-> {},
         expires |-> 0, password |-> 0, basis |-> None, epoch |-> 0, seen |-> 0]

\* The part of the previewed state the confirmation must find unchanged.
Basis(kind, s, t) ==
    [version |-> subjects[s].version,
     grants  |-> IF kind = "REVOKE_TOKEN" THEN {} ELSE grants[s],
     token   |-> IF t = None THEN None ELSE tokens[t]]

UsesEpoch(q) == q.kind \notin {"idle", "LOGIN"}

\* The session lock that serializes the quotes of one subject.
QuotaLockFree(c) == ~\E r \in Requests : req[r].kind = "CREATE_QUOTE" /\ Owner(req[r].cred) = Owner(c)

Event == events < MaxEvents /\ events' = events + 1

Free(r) == req[r].pc = "idle" /\ events < MaxEvents

Start(r, q) ==
    /\ UsesEpoch(q) => migration = "no"
    /\ Event
    /\ req' = [req EXCEPT ![r] = q]
    /\ need' = [need EXCEPT ![r] = LocksOf(q)]
    /\ UNCHANGED <<data, locks, epoch, migration, now>>

Request(kind, c) == [Idle EXCEPT !.kind = kind, !.pc = "locking", !.cred = c, !.epoch = epoch]

BeginCommand(r, c, kind) ==
    /\ Free(r)
    /\ authenticateRequest(c)
    /\ kind = "CREATE_QUOTE" => QuotaLockFree(c)
    /\ Start(r, Request(kind, c))

\* A token command previewed now and confirmed in the steps that follow.
BeginTokenCommand(r, c, kind, target, token, ceiling, expires) ==
    LET q == [Request(kind, c) EXCEPT !.target = target, !.token = token, !.ceiling = ceiling,
                                      !.expires = expires, !.basis = Basis(kind, target, token)] IN
    /\ authenticateRequest(c)
    /\ authorizeCommandAccess(q)
    /\ assertResolvedTokenLifecycleConstraint(q)
    /\ Start(r, q)

BeginIssue(r) ==
    /\ Free(r)
    /\ \E c \in Sessions \cup Tokens, s \in Subjects, ceiling \in Ceilings, expires \in now + 1 .. Horizon :
         BeginTokenCommand(r, c, "ISSUE_TOKEN", s, None, ceiling, expires)

BeginRotate(r) ==
    /\ Free(r)
    /\ \E c \in Sessions \cup Tokens, t \in Tokens, ceiling \in Ceilings, expires \in now + 1 .. Horizon :
        /\ tokens[t].status = "LIVE"
        /\ BeginTokenCommand(r, c, "ROTATE_TOKEN", tokens[t].subject, t, ceiling, expires)

BeginRevoke(r) ==
    /\ Free(r)
    /\ \E c \in Sessions \cup Tokens, t \in Tokens :
        /\ tokens[t].status = "LIVE"
        /\ BeginTokenCommand(r, c, "REVOKE_TOKEN", tokens[t].subject, t, {}, 0)

\* The page was read before the request: the version it carries, and the
\* password the handler verified, are those of that moment.
BeginManagement(r, x, op, s) ==
    /\ Free(r)
    /\ authenticateRequest(x)
    /\ op # "CHANGE_PASSWORD" => profile[Owner(x)] = "ADMIN"
    /\ op = "CHANGE_PASSWORD" => s = Owner(x)
    /\ Start(r, [Request(op, x) EXCEPT !.target = s, !.password = subjects[s].password,
                                       !.basis = [version |-> subjects[s].version]])

\* The request is sent again with the same id and body: its answer was lost.
RetryManagement(r) ==
    /\ Free(r)
    /\ \E o \in operations :
        /\ authenticateRequest(o.session)
        /\ Start(r, [Request(o.op, o.session) EXCEPT !.target = o.target, !.basis = [version |-> o.version]])

\* A sign-in with the current password or with one already replaced.
BeginLogin(r, s) ==
    /\ Free(r)
    /\ \E password \in 0 .. subjects[s].password :
        Start(r, [Request("LOGIN", None) EXCEPT !.target = s, !.password = password])

Conflict(h, r, l) == h[1] # r /\ h[2] = l.row /\ ~(h[3] = "S" /\ l.mode = "S")

\* Rows are locked one at a time, in the order of their ids.
NextLock(r, l) == l \in need[r] /\ \A m \in need[r] : Rank(l.row) <= Rank(m.row)

Acquire(r) ==
    /\ req[r].pc = "locking"
    /\ \E l \in need[r] :
        /\ NextLock(r, l)
        /\ \A h \in locks : ~Conflict(h, r, l)
        /\ locks' = locks \cup {<<r, l.row, l.mode>>}
        /\ need' = [need EXCEPT ![r] = @ \ {l}]
    /\ UNCHANGED <<data, req, epoch, migration, now, events>>

\* The transaction ends: its locks go, and with them the request.
Release(r) ==
    /\ req' = [req EXCEPT ![r] = Idle]
    /\ need' = [need EXCEPT ![r] = {}]
    /\ locks' = {h \in locks : h[1] # r}
    /\ UNCHANGED <<epoch, migration, now, events>>

DecidedYes(q) == /\ Permitted(q)
                 /\ q.cred # None => Unexpired(q.cred)
                 /\ q.kind \in lifecycleTypes => assertResolvedTokenLifecycleConstraint(q)

Authorize(r) ==
    /\ req[r].pc = "locking" /\ need[r] = {}
    /\ DecidedYes(req[r])
    /\ req' = [req EXCEPT ![r].pc = "authorized",
                          ![r].seen = IF req[r].kind = "CREATE_QUOTE" THEN quotes[Owner(req[r].cred)] ELSE 0]
    /\ UNCHANGED <<data, need, locks, epoch, migration, now, events>>

Deny(r) ==
    /\ req[r].pc = "locking" /\ need[r] = {}
    /\ ~DecidedYes(req[r])
    /\ Release(r)
    /\ UNCHANGED data

\* The connection is lost: the transaction rolls back, every lock is freed.
Abort(r) ==
    /\ req[r].pc # "idle"
    /\ Release(r)
    /\ UNCHANGED data

Authorized(r, kinds) == req[r].pc = "authorized" /\ req[r].kind \in kinds

CommitCommand(r) ==
    /\ Authorized(r, {"ORDINARY"} \cup SessionOnly)
    /\ Release(r)
    /\ UNCHANGED data

CommitQuote(r) ==
    /\ Authorized(r, {"CREATE_QUOTE"})
    /\ quotes' = IF req[r].seen < QuoteQuota
                 THEN [quotes EXCEPT ![Owner(req[r].cred)] = @ + 1] ELSE quotes
    /\ Release(r)
    /\ UNCHANGED <<subjects, profile, grants, sessions, tokens, operations>>

NewToken(q, from) == [status |-> "LIVE", subject |-> q.target, commands |-> q.ceiling,
                      expires |-> q.expires, from |-> from, by |-> q.cred]

\* The effect is built again and applied only if it is the previewed one.
EffectUnchanged(q) ==
    /\ q.basis = Basis(q.kind, q.target, q.token)
    /\ q.kind # "REVOKE_TOKEN" => q.expires > now

CommitTokenCommand(r) ==
    LET q == req[r] IN
    /\ Authorized(r, lifecycleTypes)
    /\ \/ /\ ~EffectUnchanged(q)
          /\ tokens' = tokens
       \/ /\ EffectUnchanged(q) /\ q.kind = "ISSUE_TOKEN"
          /\ \E t \in Tokens : /\ tokens[t].status = "UNUSED"
                               /\ tokens' = [tokens EXCEPT ![t] = NewToken(q, None)]
       \/ /\ EffectUnchanged(q) /\ q.kind = "ROTATE_TOKEN"
          /\ \E t \in Tokens : /\ tokens[t].status = "UNUSED"
                               /\ tokens' = [tokens EXCEPT ![t] = NewToken(q, q.token), ![q.token].status = "REVOKED"]
       \/ /\ EffectUnchanged(q) /\ q.kind = "REVOKE_TOKEN"
          /\ tokens' = [tokens EXCEPT ![q.token].status = "REVOKED"]
    /\ Release(r)
    /\ UNCHANGED <<subjects, profile, grants, sessions, quotes, operations>>

RevokeSessionsOf(s) == [x \in Sessions |-> IF sessions[x].status = "LIVE" /\ sessions[x].subject = s
                                           THEN [sessions[x] EXCEPT !.status = "REVOKED"] ELSE sessions[x]]

RevokeTokensOf(s) == [t \in Tokens |-> IF tokens[t].status = "LIVE" /\ tokens[t].subject = s
                                       THEN [tokens[t] EXCEPT !.status = "REVOKED"] ELSE tokens[t]]

ApplyUpdate(q) ==
    /\ subjects' = [subjects EXCEPT ![q.target] =
         [status   |-> CASE q.kind = "DISABLE_STAFF" -> "DISABLED"
                         [] q.kind = "ENABLE_STAFF"  -> "ACTIVE"
                         [] OTHER                    -> @.status,
          version  |-> @.version + 1,
          password |-> IF q.kind \in {"RESET_PASSWORD", "CHANGE_PASSWORD"} THEN @.password + 1 ELSE @.password]]
    /\ sessions' = RevokeSessionsOf(q.target)
    /\ tokens' = IF q.kind = "DISABLE_STAFF" THEN RevokeTokensOf(q.target) ELSE tokens
    /\ UNCHANGED <<profile, grants>>

ApplyCreate(q) ==
    /\ subjects' = [subjects EXCEPT ![q.target] = [@ EXCEPT !.status = "ACTIVE", !.version = 1]]
    /\ profile' = [profile EXCEPT ![q.target] = "STAFF"]
    /\ grants' = [grants EXCEPT ![q.target] = ordinaryStaffCommandGrants]
    /\ UNCHANGED <<sessions, tokens>>

ApplyDelete(q) ==
    /\ subjects' = [subjects EXCEPT ![q.target].status = "DELETED"]
    /\ profile' = [profile EXCEPT ![q.target] = None]
    /\ grants' = [grants EXCEPT ![q.target] = {}]
    /\ UNCHANGED <<sessions, tokens>>

\* A repeated request is answered from its record and changes nothing.
CommitManagement(r) ==
    LET q == req[r] IN
    /\ Authorized(r, ManagementOps)
    /\ \/ /\ Body(q) \in operations
          /\ UNCHANGED <<subjects, profile, grants, sessions, tokens>>
       \/ Body(q) \notin operations /\ q.kind = "CREATE_STAFF" /\ ApplyCreate(q)
       \/ Body(q) \notin operations /\ q.kind = "DELETE_STAFF" /\ ApplyDelete(q)
       \/ Body(q) \notin operations /\ q.kind \in UpdateOps /\ ApplyUpdate(q)
    /\ operations' = operations \cup {Body(q)}
    /\ Release(r)
    /\ UNCHANGED quotes

CommitLogin(r) ==
    LET q == req[r] IN
    /\ Authorized(r, {"LOGIN"})
    /\ \E x \in Sessions : /\ sessions[x].status = "UNUSED"
                           /\ sessions' = [sessions EXCEPT ![x] = [status |-> "LIVE", subject |-> q.target,
                                                                   password |-> q.password]]
    /\ Release(r)
    /\ UNCHANGED <<subjects, profile, grants, tokens, quotes, operations>>

\* logout is one statement: it waits only for whoever holds the session row.
Logout(x) ==
    /\ authenticateRequest(x)
    /\ \A h \in locks : h[2] # x
    /\ sessions' = [sessions EXCEPT ![x].status = "REVOKED"]
    /\ Event
    /\ UNCHANGED <<subjects, profile, grants, tokens, quotes, operations,
                   req, need, locks, epoch, migration, now>>

ExpireQuote(s) ==
    /\ quotes[s] > 0
    /\ quotes' = [quotes EXCEPT ![s] = @ - 1]
    /\ Event
    /\ UNCHANGED <<subjects, profile, grants, sessions, tokens, operations,
                   req, need, locks, epoch, migration, now>>

Tick ==
    /\ now < Horizon
    /\ now' = now + 1
    /\ Event
    /\ UNCHANGED <<data, req, need, locks, epoch, migration>>

(***************************************************************************)
(* A deployment: the epoch lock, the migrations, the reviewed profiles     *)
(***************************************************************************)
MigrateQueue ==
    /\ migration = "no" /\ epoch = 0
    /\ migration' = "waiting"
    /\ Event
    /\ UNCHANGED <<data, req, need, locks, epoch, now>>

EpochLockFree == \A r \in Requests : ~UsesEpoch(req[r])

MigrateApply ==
    /\ migration = "waiting"
    /\ EpochLockFree
    /\ migration' = "holding"
    /\ epoch' = epoch + 1
    /\ UNCHANGED <<data, req, need, locks, now, events>>

Exists(s) == subjects[s].status \in {"ACTIVE", "DISABLED"}

\* Profiles and grants are those of the manifest, staff by default, and
\* every token keeps only commands its subject is still granted.
Reconcile(admins) ==
    LET profiles == [s \in Subjects |-> IF ~Exists(s) THEN None ELSE IF s \in admins THEN "ADMIN" ELSE "STAFF"] IN
    /\ migration = "holding"
    /\ \A h \in locks : h[2] \notin admins
    /\ profile' = profiles
    /\ grants' = [s \in Subjects |-> CommandProfile(profiles[s])]
    /\ tokens' = [t \in Tokens |-> [tokens[t] EXCEPT !.commands =
                     IF tokens[t].status = "UNUSED" THEN {}
                     ELSE @ \cap (CommandProfile(profiles[tokens[t].subject]) \ SessionOnly)]]
    /\ migration' = "no"
    /\ UNCHANGED <<subjects, sessions, quotes, operations, req, need, locks, epoch, now, events>>

(***************************************************************************)
(* Specification                                                           *)
(***************************************************************************)
Init ==
    /\ subjects = [s \in Subjects |-> [status |-> IF s \in SeedAdmins \cup SeedStaff THEN "ACTIVE" ELSE "NEW",
                                       version |-> 1, password |-> 0]]
    /\ profile = [s \in Subjects |-> IF s \in SeedAdmins THEN "ADMIN" ELSE IF s \in SeedStaff THEN "STAFF" ELSE None]
    /\ grants = [s \in Subjects |-> CommandProfile(profile[s])]
    /\ sessions = [x \in Sessions |->
         IF x \in DOMAIN SeedSessions THEN [status |-> "LIVE", subject |-> SeedSessions[x], password |-> 0]
         ELSE [status |-> "UNUSED", subject |-> None, password |-> 0]]
    /\ tokens = [t \in Tokens |->
         IF t \in DOMAIN SeedTokens
         THEN [status |-> "LIVE", subject |-> SeedTokens[t], expires |-> Horizon, from |-> None, by |-> None,
               commands |-> CommandProfile(profile[SeedTokens[t]]) \ SessionOnly]
         ELSE [status |-> "UNUSED", subject |-> None, expires |-> 0, from |-> None, by |-> None, commands |-> {}]]
    /\ quotes = [s \in Subjects |-> 0]
    /\ operations = {}
    /\ req = [r \in Requests |-> Idle]
    /\ need = [r \in Requests |-> {}]
    /\ locks = {}
    /\ epoch = 0 /\ migration = "no" /\ now = 0 /\ events = 0

Next ==
    \/ \E r \in Requests :
        \/ \E c \in Sessions \cup Tokens, kind \in PlainTypes : BeginCommand(r, c, kind)
        \/ BeginIssue(r) \/ BeginRotate(r) \/ BeginRevoke(r)
        \/ \E x \in Sessions, op \in ManagementOps, s \in Subjects : BeginManagement(r, x, op, s)
        \/ RetryManagement(r)
        \/ \E s \in Subjects : BeginLogin(r, s)
        \/ Acquire(r) \/ Authorize(r) \/ Deny(r) \/ Abort(r)
        \/ CommitCommand(r) \/ CommitQuote(r) \/ CommitTokenCommand(r)
        \/ CommitManagement(r) \/ CommitLogin(r)
    \/ \E x \in Sessions : Logout(x)
    \/ \E s \in Subjects : ExpireQuote(s)
    \/ Tick
    \/ MigrateQueue \/ MigrateApply
    \/ \E admins \in Manifests : Reconcile(admins)

Spec == Init /\ [][Next]_vars

(***************************************************************************)
(* Properties                                                              *)
(***************************************************************************)
\* Every variable holds a value of its type.
TypeOK ==
    /\ \A s \in Subjects : subjects[s].status \in {"NEW", "ACTIVE", "DISABLED", "DELETED"}
    /\ profile \in [Subjects -> {"ADMIN", "STAFF", None}]
    /\ grants \in [Subjects -> SUBSET administratorCommandGrants]
    /\ \A x \in Sessions : sessions[x].status \in {"UNUSED", "LIVE", "REVOKED"}
    /\ \A t \in Tokens : /\ tokens[t].status \in {"UNUSED", "LIVE", "REVOKED"}
                         /\ tokens[t].commands \subseteq administratorCommandGrants
    /\ \A r \in Requests : req[r].kind \in Kinds \cup {"idle"} /\ req[r].pc \in {"idle", "locking", "authorized"}
    /\ migration \in {"no", "waiting", "holding"}

\* A decision is still right when the request acts on it: from the moment
\* authorizeCommandAccess, qintopia_manage_account or login has said yes until
\* the transaction ends, the credential is not revoked, the account is active,
\* the grant, the ceiling, the version and the password it looked at are the
\* current ones, and the command protocol has not moved to another epoch.
AuthorizedStillHolds ==
    \A r \in Requests : req[r].pc = "authorized" =>
        /\ Permitted(req[r])
        /\ UsesEpoch(req[r]) => req[r].epoch = epoch

\* Disabling or deleting an account shuts every door: no session or token of
\* an account that is not active is live, not even one that a sign-in or an
\* ISSUE_TOKEN running at the same time was about to create.
DisabledIsLockedOut ==
    /\ \A x \in Sessions : sessions[x].status = "LIVE" => subjects[sessions[x].subject].status = "ACTIVE"
    /\ \A t \in Tokens : tokens[t].status = "LIVE" => subjects[tokens[t].subject].status = "ACTIVE"

\* A password change ends every session opened with the password before it:
\* a live session was opened with its subject's current password.
SessionsFollowPassword ==
    \A x \in Sessions : sessions[x].status = "LIVE" => sessions[x].password = subjects[sessions[x].subject].password

\* A token never carries a command its subject is not granted now, through
\* every issue, rotation and change of the reviewed profiles.
CeilingWithinGrants ==
    \A t \in Tokens : tokens[t].status = "LIVE" => tokens[t].commands \subseteq grants[tokens[t].subject] \ SessionOnly

\* A token created with another token never outlives it, so no chain of
\* issues and rotations extends the reach of a token past its expiry.
OffspringDiesFirst ==
    \A t \in Tokens : tokens[t].by \in Tokens => tokens[t].expires <= tokens[tokens[t].by].expires

\* A token is replaced at most once: of two rotations of one token running
\* together only one leaves a successor, and the replaced token is dead.
RotatedOnce ==
    \A t, u \in Tokens : tokens[t].from # None =>
        /\ tokens[tokens[t].from].status = "REVOKED"
        /\ tokens[u].from = tokens[t].from => t = u

\* Concurrent quote requests of one subject never take it past its quota.
QuotaHolds == \A s \in Subjects : quotes[s] <= QuoteQuota

Waits(r, h) == /\ req[r].pc = "locking"
               /\ \E l \in need[r], k \in locks : NextLock(r, l) /\ k[1] = h /\ Conflict(k, r, l)

\* No set of requests waits in a circle: administrators who change each
\* other's tokens, or an account while it changes theirs, never deadlock.
NoCircularWait ==
    \A group \in (SUBSET Requests) \ {{}} : \E r \in group : \A h \in group \ {r} : ~Waits(r, h)

\* The row locks a request takes are enough for what it decides, and their
\* order lets every request have them (command-authorization.ts, auth.ts,
\* service.ts).
LocksSuffice == AuthorizedStillHolds /\ QuotaHolds /\ NoCircularWait

\* No sequence of sign-ins, issues, rotations, password changes, disablings and
\* new profiles leaves a credential that reaches further than its account, its
\* grants or the credential it came from (auth.ts, apply.ts, 052, 053 and 054
\* of the migrations).
CredentialsStayBounded ==
    /\ DisabledIsLockedOut
    /\ SessionsFollowPassword
    /\ CeilingWithinGrants
    /\ OffspringDiesFirst
    /\ RotatedOnce
=============================================================================
