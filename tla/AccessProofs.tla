---------------------------- MODULE AccessProofs ----------------------------
(***************************************************************************)
(* What a request may do, it still may when it commits, and no credential  *)
(* reaches further than it should: for any number of requests, accounts,   *)
(* sessions and tokens.                                                    *)
(***************************************************************************)
EXTENDS Access, WellFoundedInduction, TLAPS

Credentials == Sessions \cup Tokens
Statuses == {"UNUSED", "LIVE", "REVOKED"}
Rows == Ids \cup {"room-catalog", "account-management"}

SubjectRows == [status : {"NEW", "ACTIVE", "DISABLED", "DELETED"}, version : Nat, password : Nat]
SessionRows == [status : Statuses, subject : Subjects \cup {None}, password : Nat]
TokenRows == [status : Statuses, subject : Subjects \cup {None},
              commands : SUBSET administratorCommandGrants, expires : Nat,
              from : Tokens \cup {None}, by : Credentials \cup {None}]
Bases == {None} \cup [version : Nat]
         \cup [version : Nat, grants : SUBSET administratorCommandGrants, token : TokenRows \cup {None}]
Asked == [kind : Kinds \cup {"idle"}, pc : {"idle", "locking", "authorized"},
          cred : Credentials \cup {None}, target : Subjects \cup {None},
          token : Tokens \cup {None}, ceiling : SUBSET administratorCommandGrants,
          expires : Nat, password : Nat, basis : Bases, epoch : Nat, seen : Nat]
Operations == [actor : Subjects, session : Sessions, op : ManagementOps,
               target : Subjects, version : Nat]

(* Types of the tables and of the requests.                                 *)
Typed ==
    /\ subjects \in [Subjects -> SubjectRows]
    /\ profile \in [Subjects -> {"ADMIN", "STAFF", None}]
    /\ grants \in [Subjects -> SUBSET administratorCommandGrants]
    /\ sessions \in [Sessions -> SessionRows]
    /\ tokens \in [Tokens -> TokenRows]
    /\ quotes \in [Subjects -> Nat]
    /\ operations \subseteq Operations
    /\ req \in [Requests -> Asked]
    /\ need \in [Requests -> SUBSET [row : Rows, mode : {"S", "U"}]]
    /\ epoch \in Nat /\ now \in Nat
    /\ migration \in {"no", "waiting", "holding"}

Issued(c) == IF c \in Sessions THEN sessions[c].status # "UNUSED" ELSE tokens[c].status # "UNUSED"

(* A session or token that was issued has its subject, and what a token was *)
(* made from was issued before it.                                          *)
CredentialsFit ==
    /\ \A x \in Sessions : sessions[x].status # "UNUSED" => sessions[x].subject \in Subjects
    /\ \A t \in Tokens :
          /\ tokens[t].status # "UNUSED" => tokens[t].subject \in Subjects
          /\ tokens[t].status = "UNUSED" => tokens[t].from = None /\ tokens[t].by = None
          /\ tokens[t].by \in Tokens => tokens[tokens[t].by].status # "UNUSED"

(* What a request of each kind carries with it.                             *)
RequestFits(q) ==
    /\ q.pc = "idle" <=> q.kind = "idle"
    /\ q.pc = "idle" => q.cred = None
    /\ q.kind \in Kinds \ {"LOGIN"} => q.cred \in Credentials /\ Issued(q.cred)
    /\ q.kind = "LOGIN" => q.cred = None
    /\ q.kind \in PlainTypes => q.target = None /\ q.token = None
    /\ q.kind \in ManagementOps => q.cred \in Sessions /\ q.basis \in [version : Nat]
    /\ q.kind \in ManagementOps \cup lifecycleTypes \cup {"LOGIN"} => q.target \in Subjects
    /\ q.kind \in {"ROTATE_TOKEN", "REVOKE_TOKEN"} => q.token \in Tokens /\ q.basis.token.status = "LIVE"
    /\ q.kind \in {"ISSUE_TOKEN", "ROTATE_TOKEN"} =>
          /\ q.ceiling \subseteq q.basis.grants \ SessionOnly
          /\ q.cred \in Tokens => q.expires <= tokens[q.cred].expires
RequestsFit == \A r \in Requests : RequestFits(req[r])

(* A request has taken its locks in their order up to the one it wants.     *)
LocksTaken ==
    \A r \in Requests :
        /\ req[r].pc = "idle" => need[r] = {} /\ \A h \in locks : h[1] # r
        /\ req[r].pc = "authorized" => need[r] = {}
        /\ req[r].pc # "idle" =>
              /\ need[r] \subseteq LocksOf(req[r])
              /\ \A l \in LocksOf(req[r]) \ need[r] : <<r, l.row, l.mode>> \in locks
              /\ \A h \in locks : h[1] = r =>
                    /\ \E l \in LocksOf(req[r]) \ need[r] : l.row = h[2]
                    /\ \A l \in need[r] : Rank(h[2]) < Rank(l.row)
LocksApart ==
    \A h, k \in locks : h[1] # k[1] /\ h[2] = k[2] => h[3] = "S" /\ k[3] = "S"

(* The epoch moves only while no request that relies on it is open.         *)
EpochHeld ==
    \A r \in Requests : UsesEpoch(req[r]) => req[r].epoch = epoch /\ migration # "holding"

(* One quote request per subject, which has seen at least the quotes there  *)
(* are.                                                                     *)
QuotesCounted ==
    /\ \A r \in Requests :
          req[r].kind = "CREATE_QUOTE" /\ req[r].pc = "authorized" => quotes[Owner(req[r].cred)] <= req[r].seen
    /\ \A r, s \in Requests :
          /\ req[r].kind = "CREATE_QUOTE" /\ req[s].kind = "CREATE_QUOTE"
          /\ Owner(req[r].cred) = Owner(req[s].cred)
          => r = s

AccessInv ==
    /\ Typed /\ CredentialsFit /\ RequestsFit /\ LocksTaken /\ LocksApart /\ EpochHeld
    /\ QuotesCounted /\ AuthorizedStillHolds /\ QuotaHolds /\ CredentialsStayBounded

-----------------------------------------------------------------------------
(* The rows a request locks, and their order. *)
LEMMA RanksInOrder ==
    /\ \A row : Rank(row) \in 0 .. Len(IdOrder)
    /\ \A row \in Ids : Rank(row) \in DOMAIN IdOrder /\ IdOrder[Rank(row)] = row
    /\ \A row : row \notin Ids => Rank(row) = 0
    /\ \A s \in Subjects, c \in Sessions \cup Tokens : Rank(s) < Rank(c)
    /\ \A x \in Sessions, t \in Tokens : Rank(x) < Rank(t)
<1>1. \A row \in Ids : Rank(row) \in DOMAIN IdOrder /\ IdOrder[Rank(row)] = row
  BY IdsAssumption DEF Rank
<1>2. \A row : row \notin Ids => Rank(row) = 0
  BY DEF Rank
<1>3. DOMAIN IdOrder = 1 .. Len(IdOrder) /\ Len(IdOrder) \in Nat
  BY IdsAssumption
<1>4. \A s \in Subjects, c \in Sessions \cup Tokens : Rank(s) < Rank(c)
  BY <1>1, IdsAssumption DEF Ids
<1>5. \A x \in Sessions, t \in Tokens : Rank(x) < Rank(t)
  BY <1>1, IdsAssumption DEF Ids
<1> QED
  BY <1>1, <1>2, <1>3, <1>4, <1>5

(* The owner of an issued credential is an account.                         *)
LEMMA OwnersAreSubjects ==
    ASSUME Typed, CredentialsFit, NEW c \in Credentials, Issued(c)
    PROVE  Owner(c) \in Subjects
BY IdsAssumption DEF Typed, CredentialsFit, Credentials, Issued, Owner

(* What an open request locks: no two locks of one rank, and the rows its   *)
(* decision looks at among them.                                            *)
LEMMA WhatIsLocked ==
    ASSUME Typed, CredentialsFit, NEW q \in Asked, RequestFits(q), q.pc # "idle"
    PROVE  /\ LocksOf(q) \subseteq [row : Rows, mode : {"S", "U"}]
           /\ \A l, m \in LocksOf(q) : Rank(l.row) = Rank(m.row) => l = m
           /\ q.kind # "LOGIN" => /\ \E l \in LocksOf(q) : l.row = Owner(q.cred)
                                  /\ \E l \in LocksOf(q) : l.row = q.cred
           /\ q.kind = "LOGIN" => \E l \in LocksOf(q) : l.row = q.target
           /\ q.kind \in lifecycleTypes \cup ManagementOps => [row |-> q.target, mode |-> "U"] \in LocksOf(q)
           /\ q.kind \in {"ROTATE_TOKEN", "REVOKE_TOKEN"} => [row |-> q.token, mode |-> "U"] \in LocksOf(q)
<1>0. q.kind \in Kinds
  BY DEF RequestFits, Asked
<1>a. {None, "room-catalog", "account-management"} \cap Ids = {} /\ None \notin Subjects
  BY IdsAssumption DEF Ids
<1>b. Ids = Subjects \cup Credentials
  BY DEF Ids, Credentials
<1>1. CASE q.kind = "LOGIN"
  <2>1. LocksOf(q) = {[row |-> q.target, mode |-> "S"]} /\ q.target \in Subjects
    BY <1>1 DEF LocksOf, LoginLocks, Each, RequestFits
  <2> QED
    BY <1>1, <2>1, <1>b DEF Rows, lifecycleTypes, ManagementOps, UpdateOps
<1>2. CASE q.kind \in ManagementOps
  <2>1. /\ LocksOf(q) = Each({"account-management", Owner(q.cred), q.target, q.cred}, "U")
        /\ q.cred \in Sessions /\ q.target \in Subjects /\ Issued(q.cred)
    BY <1>2 DEF LocksOf, ManagementLocks, RequestFits, ManagementOps, UpdateOps, Kinds
  <2>2. Owner(q.cred) \in Subjects
    BY <2>1, OwnersAreSubjects DEF Credentials
  <2>3. \A i, j \in {"account-management", Owner(q.cred), q.target, q.cred} : Rank(i) = Rank(j) => i = j
    BY <2>1, <2>2, <1>a, <1>b, RanksInOrder DEF Credentials
  <2> HIDE DEF Credentials
  <2>4. \A l, m \in LocksOf(q) : Rank(l.row) = Rank(m.row) => l = m
    BY <2>1, <2>3 DEF Each
  <2>5. /\ [row |-> q.target, mode |-> "U"] \in LocksOf(q)
        /\ [row |-> q.cred, mode |-> "U"] \in LocksOf(q)
        /\ [row |-> Owner(q.cred), mode |-> "U"] \in LocksOf(q)
    BY <2>1 DEF Each
  <2>6. LocksOf(q) \subseteq [row : Rows, mode : {"S", "U"}]
    BY <2>1, <2>2, <1>b DEF Each, Rows, Credentials
  <2> QED
    BY <1>2, <2>4, <2>5, <2>6 DEF ManagementOps, UpdateOps
<1>3. CASE q.kind \in PlainTypes \cup lifecycleTypes
  <2> DEFINE mode == IF q.kind \in lifecycleTypes THEN "U" ELSE "S"
             catalog == Each({"room-catalog"}, IF q.kind \in SessionOnly THEN "U" ELSE "S")
             accounts == Each({Owner(q.cred), q.target} \ {None}, mode)
             session == Each({q.cred} \cap Sessions, "S")
             tokenRows == Each({q.cred, q.token} \cap Tokens, mode)
  <2>1. LocksOf(q) = catalog \cup accounts \cup session \cup tokenRows
    BY <1>3 DEF LocksOf, CommandLocks, lockRoomCatalog, ManagementOps, UpdateOps, PlainTypes,
         SessionOnly, lifecycleTypes
  <2>2. q.cred \in Credentials /\ Issued(q.cred)
    BY <1>3 DEF RequestFits, PlainTypes, lifecycleTypes, SessionOnly, Kinds
  <2>3. Owner(q.cred) \in Subjects
    BY <2>2, OwnersAreSubjects
  <2>4. q.target \in Subjects \cup {None} /\ q.token \in Tokens \cup {None}
    BY DEF Asked
  <2>5. /\ \A l \in catalog : l.row = "room-catalog"
        /\ \A l \in accounts : l.row \in Subjects /\ l.mode = mode
        /\ \A l \in session : l.row \in Sessions /\ l.row = q.cred /\ l.mode = "S"
        /\ \A l \in tokenRows : l.row \in Tokens /\ l.mode = mode
        /\ \A l, m \in catalog : l = m
        /\ \A l \in catalog \cup accounts \cup session \cup tokenRows :
              l = [row |-> l.row, mode |-> l.mode] /\ l.mode \in {"S", "U"}
    BY <2>3, <2>4 DEF Each
  <2>6. \A l, m \in LocksOf(q) : Rank(l.row) = Rank(m.row) => l = m
    <3> SUFFICES ASSUME NEW l \in LocksOf(q), NEW m \in LocksOf(q), Rank(l.row) = Rank(m.row)
                 PROVE  l = m
      OBVIOUS
    <3> HIDE DEF catalog, accounts, session, tokenRows, mode
    <3>1. CASE l.row = "room-catalog" \/ m.row = "room-catalog"
      <4>1. l.row = "room-catalog" /\ m.row = "room-catalog"
        BY <3>1, <2>1, <2>5, <1>a, <1>b, RanksInOrder DEF Credentials
      <4> QED
        BY <4>1, <2>1, <2>5, <1>a, <1>b DEF Credentials
    <3>2. CASE l.row # "room-catalog" /\ m.row # "room-catalog"
      <4>1. l.row \in Ids /\ m.row \in Ids
        BY <3>2, <2>1, <2>5, <1>b DEF Credentials
      <4>2. l.row = m.row
        BY <4>1, RanksInOrder
      <4>3. l.mode = m.mode
        BY <4>2, <3>2, <2>1, <2>5, IdsAssumption
      <4> QED
        BY <4>2, <4>3, <2>1, <2>5
    <3> QED
      BY <3>1, <3>2
  <2>7. LocksOf(q) \subseteq [row : Rows, mode : {"S", "U"}]
    <3> HIDE DEF catalog, accounts, session, tokenRows, mode
    <3>1. \A l \in LocksOf(q) : l.row \in Rows /\ l.mode \in {"S", "U"}
      BY <2>1, <2>5, <1>b DEF Rows, Credentials
    <3> QED
      BY <3>1, <2>1, <2>5
  <2>8. /\ [row |-> Owner(q.cred), mode |-> mode] \in LocksOf(q)
        /\ q.target # None => [row |-> q.target, mode |-> mode] \in LocksOf(q)
    BY <2>1, <2>3, <1>a DEF Each
  <2>9. \E l \in LocksOf(q) : l.row = q.cred
    <3>1. q.cred \in Sessions => [row |-> q.cred, mode |-> "S"] \in LocksOf(q)
      BY <2>1 DEF Each
    <3>2. q.cred \in Tokens => [row |-> q.cred, mode |-> mode] \in LocksOf(q)
      BY <2>1 DEF Each
    <3> QED
      BY <2>2, <3>1, <3>2 DEF Credentials
  <2>10. q.token # None => [row |-> q.token, mode |-> mode] \in LocksOf(q)
    BY <2>1, <2>4 DEF Each
  <2>11. /\ q.kind \in lifecycleTypes => mode = "U" /\ q.target # None
         /\ q.kind \in {"ROTATE_TOKEN", "REVOKE_TOKEN"} => mode = "U" /\ q.token # None
    BY IdsAssumption, <1>a DEF RequestFits, lifecycleTypes, Ids
  <2>12. \E l \in LocksOf(q) : l.row = Owner(q.cred)
    BY <2>8
  <2> HIDE DEF mode
  <2> QED
    BY <1>3, <2>6, <2>7, <2>8, <2>9, <2>10, <2>11, <2>12
       DEF PlainTypes, lifecycleTypes, SessionOnly, ManagementOps, UpdateOps
<1> QED
  BY <1>0, <1>1, <1>2, <1>3 DEF Kinds

-----------------------------------------------------------------------------
(* The steps, grouped by what they do to the request. *)
Begins(r) ==
    \/ \E c \in Sessions \cup Tokens, kind \in PlainTypes : BeginCommand(r, c, kind)
    \/ BeginIssue(r) \/ BeginRotate(r) \/ BeginRevoke(r)
    \/ \E x \in Sessions, op \in ManagementOps, s \in Subjects : BeginManagement(r, x, op, s)
    \/ RetryManagement(r)
    \/ \E s \in Subjects : BeginLogin(r, s)

EndsUnchanged(r) == Deny(r) \/ Abort(r) \/ CommitCommand(r)
Commits(r) == CommitQuote(r) \/ CommitTokenCommand(r) \/ CommitManagement(r) \/ CommitLogin(r)
Ends(r) == EndsUnchanged(r) \/ Commits(r)

Aside ==
    \/ \E x \in Sessions : Logout(x)
    \/ \E s \in Subjects : ExpireQuote(s)
    \/ Tick \/ MigrateQueue \/ MigrateApply
    \/ \E admins \in Manifests : Reconcile(admins)

LEMMA StepsGrouped ==
    ASSUME Next
    PROVE  \/ \E r \in Requests : Begins(r) \/ Acquire(r) \/ Authorize(r) \/ Ends(r)
           \/ Aside
BY DEF Next, Begins, Ends, EndsUnchanged, Commits, Aside

(* Every request starts as its kind demands.                                *)
StartsWell(r) ==
    \E q \in Asked :
       /\ Start(r, q)
       /\ req[r].pc = "idle"
       /\ q.pc = "locking" /\ q.kind \in Kinds /\ q.epoch = epoch
       /\ RequestFits(q)
       /\ q.kind = "CREATE_QUOTE" => QuotaLockFree(q.cred)

LEMMA HowRequestsBegin ==
    ASSUME Typed, CredentialsFit, NEW r \in Requests, Begins(r)
    PROVE  StartsWell(r)
<1> USE DEF Free
<1>i. ASSUME NEW kind \in Kinds, NEW c \in Credentials
      PROVE  /\ Request(kind, c) \in Asked
             /\ Request(kind, c).kind = kind /\ Request(kind, c).pc = "locking"
             /\ Request(kind, c).cred = c /\ Request(kind, c).epoch = epoch
             /\ Request(kind, c).target = None /\ Request(kind, c).token = None
  BY DEF Request, Idle, Asked, Bases, Typed
<1>u. ASSUME NEW c \in Credentials, authenticateRequest(c)
      PROVE  Issued(c)
  BY <1>u DEF authenticateRequest, Unrevoked, Issued
<1>b. \A kind \in Kinds, s \in Subjects, t \in Tokens \cup {None} : Basis(kind, s, t) \in Bases
  <2> SUFFICES ASSUME NEW kind \in Kinds, NEW s \in Subjects, NEW t \in Tokens \cup {None}
               PROVE  Basis(kind, s, t) \in Bases
    OBVIOUS
  <2>1. subjects[s].version \in Nat /\ grants[s] \in SUBSET administratorCommandGrants
    BY DEF Typed, SubjectRows
  <2>2. (IF t = None THEN None ELSE tokens[t]) \in TokenRows \cup {None}
    BY DEF Typed
  <2>3. (IF kind = "REVOKE_TOKEN" THEN {} ELSE grants[s]) \in SUBSET administratorCommandGrants
    BY <2>1
  <2> QED
    BY <2>1, <2>2, <2>3 DEF Basis, Bases
<1>1. ASSUME NEW c \in Sessions \cup Tokens, NEW kind \in PlainTypes, BeginCommand(r, c, kind)
      PROVE  StartsWell(r)
  <2> DEFINE q == Request(kind, c)
  <2>1. kind \in Kinds /\ c \in Credentials
    BY <1>1 DEF Kinds, Credentials
  <2>2. Start(r, q) /\ (kind = "CREATE_QUOTE" => QuotaLockFree(c)) /\ Issued(c) /\ req[r].pc = "idle"
    BY <1>1, <2>1, <1>u DEF BeginCommand
  <2>3. RequestFits(q)
    <3> HIDE DEF q
    <3>1. q.kind = kind /\ q.pc = "locking" /\ q.cred = c /\ q.target = None /\ q.token = None
      BY <1>i, <2>1 DEF q
    <3> QED
      BY <3>1, <2>1, <2>2 DEF RequestFits, PlainTypes, SessionOnly, ManagementOps, UpdateOps, lifecycleTypes
  <2> HIDE DEF q
  <2> QED
    BY <2>1, <2>2, <2>3, <1>i DEF q, StartsWell
<1>2. ASSUME NEW kind \in lifecycleTypes, NEW c \in Credentials, NEW s \in Subjects,
             NEW t \in Tokens \cup {None}, NEW ceiling, NEW expires \in Nat,
             ceiling \in Ceilings \cup {{}},
             BeginTokenCommand(r, c, kind, s, t, ceiling, expires), req[r].pc = "idle",
             kind # "ISSUE_TOKEN" => t # None /\ tokens[t].status = "LIVE"
      PROVE  StartsWell(r)
  <2> DEFINE q == [Request(kind, c) EXCEPT !.target = s, !.token = t, !.ceiling = ceiling,
                                           !.expires = expires, !.basis = Basis(kind, s, t)]
  <2>1. kind \in Kinds /\ kind # "CREATE_QUOTE"
    BY DEF Kinds, lifecycleTypes
  <2>2. /\ Start(r, q) /\ Issued(c) /\ assertResolvedTokenLifecycleConstraint(q)
    BY <1>2, <1>u DEF BeginTokenCommand
  <2>3. ceiling \subseteq administratorCommandGrants \ SessionOnly
    BY <1>2, SeedsAssumption DEF administratorCommandGrants, SessionOnly, lifecycleTypes
  <2>4. /\ q \in Asked
        /\ q.kind = kind /\ q.pc = "locking" /\ q.cred = c /\ q.epoch = epoch
        /\ q.target = s /\ q.token = t /\ q.ceiling = ceiling /\ q.expires = expires
        /\ q.basis = Basis(kind, s, t)
    <3> DEFINE p == Request(kind, c)
    <3>1. p \in Asked /\ p.kind = kind /\ p.pc = "locking" /\ p.cred = c /\ p.epoch = epoch
      BY <1>i, <2>1
    <3>2. Basis(kind, s, t) \in Bases
      BY <1>b, <2>1
    <3>3. ceiling \in SUBSET administratorCommandGrants
      BY <2>3
    <3> HIDE DEF p
    <3> QED
      BY <3>1, <3>2, <3>3 DEF Asked, p
  <2> HIDE DEF q
  <2>5. kind # "REVOKE_TOKEN" => ceiling \subseteq grants[s] /\ (c \in Tokens => expires <= tokens[c].expires)
    BY <2>2, <2>4 DEF assertResolvedTokenLifecycleConstraint, WithinCeilings
  <2>6. RequestFits(q)
    <3>1. /\ kind # "REVOKE_TOKEN" => q.basis.grants = grants[s]
          /\ t # None => q.basis.token = tokens[t]
      BY <2>4 DEF Basis
    <3>2. kind \in {"ROTATE_TOKEN", "REVOKE_TOKEN"} => q.token \in Tokens /\ q.basis.token.status = "LIVE"
      BY <1>2, <2>4, <3>1
    <3>3. kind \in {"ISSUE_TOKEN", "ROTATE_TOKEN"} =>
            /\ q.ceiling \subseteq q.basis.grants \ SessionOnly
            /\ q.cred \in Tokens => q.expires <= tokens[q.cred].expires
      BY <2>3, <2>4, <2>5, <3>1
    <3> QED
      BY <2>1, <2>2, <2>4, <3>2, <3>3
         DEF RequestFits, PlainTypes, SessionOnly, ManagementOps, UpdateOps, lifecycleTypes
  <2> QED
    BY <1>2, <2>1, <2>2, <2>4, <2>6 DEF StartsWell
<1>3. CASE BeginIssue(r)
  <2>1. PICK c \in Sessions \cup Tokens, s \in Subjects, ceiling \in Ceilings, expires \in now + 1 .. Horizon :
          BeginTokenCommand(r, c, "ISSUE_TOKEN", s, None, ceiling, expires)
    BY <1>3 DEF BeginIssue
  <2>2. expires \in Nat /\ req[r].pc = "idle" /\ c \in Credentials
    BY <1>3 DEF BeginIssue, Typed, Credentials
  <2> QED
    BY <2>1, <2>2, <1>2 DEF lifecycleTypes
<1>4. CASE BeginRotate(r)
  <2>1. PICK c \in Sessions \cup Tokens, t \in Tokens, ceiling \in Ceilings, expires \in now + 1 .. Horizon :
          /\ tokens[t].status = "LIVE"
          /\ BeginTokenCommand(r, c, "ROTATE_TOKEN", tokens[t].subject, t, ceiling, expires)
    BY <1>4 DEF BeginRotate
  <2>2. expires \in Nat /\ req[r].pc = "idle" /\ c \in Credentials
    BY <1>4 DEF BeginRotate, Typed, Credentials
  <2>3. tokens[t].subject \in Subjects /\ t # None
    BY <2>1, IdsAssumption DEF CredentialsFit, Ids
  <2> QED
    BY <2>1, <2>2, <2>3, <1>2 DEF lifecycleTypes
<1>5. CASE BeginRevoke(r)
  <2>1. PICK c \in Sessions \cup Tokens, t \in Tokens :
          /\ tokens[t].status = "LIVE"
          /\ BeginTokenCommand(r, c, "REVOKE_TOKEN", tokens[t].subject, t, {}, 0)
    BY <1>5 DEF BeginRevoke
  <2>2. req[r].pc = "idle" /\ c \in Credentials
    BY <1>5 DEF BeginRevoke, Credentials
  <2>3. tokens[t].subject \in Subjects /\ t # None
    BY <2>1, IdsAssumption DEF CredentialsFit, Ids
  <2> QED
    BY <2>1, <2>2, <2>3, <1>2 DEF lifecycleTypes
<1>6. ASSUME NEW x \in Sessions, NEW op \in ManagementOps, NEW s \in Subjects,
             NEW password \in Nat, NEW version \in Nat,
             Start(r, [Request(op, x) EXCEPT !.target = s, !.password = password,
                                             !.basis = [version |-> version]]),
             authenticateRequest(x), req[r].pc = "idle"
      PROVE  StartsWell(r)
  <2> DEFINE q == [Request(op, x) EXCEPT !.target = s, !.password = password,
                                         !.basis = [version |-> version]]
  <2>1. op \in Kinds /\ op # "CREATE_QUOTE" /\ x \in Credentials /\ Issued(x)
    BY <1>6, <1>u DEF Kinds, ManagementOps, UpdateOps, Credentials
  <2>2. /\ q \in Asked
        /\ q.kind = op /\ q.pc = "locking" /\ q.cred = x /\ q.epoch = epoch
        /\ q.target = s /\ q.basis = [version |-> version]
    <3> DEFINE p == Request(op, x)
    <3>1. p \in Asked /\ p.kind = op /\ p.pc = "locking" /\ p.cred = x /\ p.epoch = epoch
      BY <1>i, <2>1
    <3>2. [version |-> version] \in Bases
      BY DEF Bases
    <3> HIDE DEF p
    <3> QED
      BY <3>1, <3>2 DEF Asked, p
  <2>3. Start(r, q)
    BY <1>6
  <2> HIDE DEF q
  <2>4. RequestFits(q)
    BY <2>1, <2>2 DEF RequestFits, PlainTypes, SessionOnly, ManagementOps, UpdateOps, lifecycleTypes
  <2> QED
    BY <1>6, <2>1, <2>2, <2>3, <2>4 DEF StartsWell
<1>7. ASSUME NEW x \in Sessions, NEW op \in ManagementOps, NEW s \in Subjects, BeginManagement(r, x, op, s)
      PROVE  StartsWell(r)
  <2>1. subjects[s].password \in Nat /\ subjects[s].version \in Nat
    BY DEF Typed, SubjectRows
  <2> QED
    BY <1>6, <1>7, <2>1 DEF BeginManagement
<1>8. CASE RetryManagement(r)
  <2>1. PICK o \in operations :
          /\ authenticateRequest(o.session)
          /\ Start(r, [Request(o.op, o.session) EXCEPT !.target = o.target,
                                                       !.basis = [version |-> o.version]])
    BY <1>8 DEF RetryManagement
  <2>2. /\ o.session \in Sessions /\ o.op \in ManagementOps /\ o.target \in Subjects /\ o.version \in Nat
    BY DEF Typed, Operations
  <2>3. [Request(o.op, o.session) EXCEPT !.target = o.target, !.basis = [version |-> o.version]]
        = [Request(o.op, o.session) EXCEPT !.target = o.target, !.password = 0,
                                           !.basis = [version |-> o.version]]
    <3> DEFINE p == Request(o.op, o.session)
    <3>1. p \in Asked /\ p.password = 0
      BY <1>i, <2>2 DEF Kinds, Credentials, Request, Idle
    <3> HIDE DEF p
    <3>2. [p EXCEPT !.target = o.target, !.basis = [version |-> o.version]]
          = [p EXCEPT !.target = o.target, !.password = 0, !.basis = [version |-> o.version]]
      BY <3>1 DEF Asked
    <3> QED
      BY <3>2 DEF p
  <2>4. Start(r, [Request(o.op, o.session) EXCEPT !.target = o.target, !.password = 0,
                                                  !.basis = [version |-> o.version]])
    BY <2>1, <2>3
  <2>5. authenticateRequest(o.session) /\ req[r].pc = "idle" /\ 0 \in Nat
    BY <1>8, <2>1 DEF RetryManagement
  <2> QED
    BY <1>6, <2>2, <2>4, <2>5
<1>9. ASSUME NEW s \in Subjects, BeginLogin(r, s)
      PROVE  StartsWell(r)
  <2>1. PICK password \in 0 .. subjects[s].password :
          Start(r, [Request("LOGIN", None) EXCEPT !.target = s, !.password = password])
    BY <1>9 DEF BeginLogin
  <2> DEFINE q == [Request("LOGIN", None) EXCEPT !.target = s, !.password = password]
  <2>2. password \in Nat
    BY DEF Typed, SubjectRows
  <2>3. /\ q \in Asked
        /\ q.kind = "LOGIN" /\ q.pc = "locking" /\ q.cred = None /\ q.epoch = epoch /\ q.target = s
    BY <2>2 DEF Request, Idle, Asked, Bases, Typed, Kinds
  <2> HIDE DEF q
  <2>4. RequestFits(q)
    BY <2>3 DEF RequestFits, PlainTypes, SessionOnly, ManagementOps, UpdateOps, lifecycleTypes
  <2> QED
    BY <1>9, <2>1, <2>3, <2>4 DEF BeginLogin, q, Kinds, StartsWell
<1> QED
  BY <1>1, <1>3, <1>4, <1>5, <1>7, <1>8, <1>9 DEF Begins

-----------------------------------------------------------------------------
(* Issued credentials keep their account, and tokens their expiry. *)
IssuedStay ==
    /\ \A x \in Sessions : sessions[x].status # "UNUSED" =>
          sessions'[x].status # "UNUSED" /\ sessions'[x].subject = sessions[x].subject
    /\ \A t \in Tokens : tokens[t].status # "UNUSED" =>
          /\ tokens'[t].status # "UNUSED" /\ tokens'[t].subject = tokens[t].subject
          /\ tokens'[t].expires = tokens[t].expires

(* The outcomes of the commit of a token command.                           *)
TokenWritten(q) ==
    \/ tokens' = tokens
    \/ /\ EffectUnchanged(q) /\ q.kind \in {"ISSUE_TOKEN", "ROTATE_TOKEN"}
       /\ \E t \in Tokens :
             /\ tokens[t].status = "UNUSED"
             /\ tokens'[t] = NewToken(q, IF q.kind = "ROTATE_TOKEN" THEN q.token ELSE None)
             /\ \A u \in Tokens \ {t} :
                   tokens'[u] = IF q.kind = "ROTATE_TOKEN" /\ u = q.token
                                THEN [tokens[u] EXCEPT !.status = "REVOKED"] ELSE tokens[u]
    \/ /\ EffectUnchanged(q) /\ q.kind = "REVOKE_TOKEN"
       /\ \A u \in Tokens : tokens'[u] = IF u = q.token
                                         THEN [tokens[u] EXCEPT !.status = "REVOKED"] ELSE tokens[u]

LEMMA TokenCommandWrites ==
    ASSUME Typed, RequestsFit, NEW r \in Requests, CommitTokenCommand(r)
    PROVE  TokenWritten(req[r]) /\ tokens' \in [Tokens -> TokenRows]
<1> DEFINE q == req[r]
<1>1. q \in Asked /\ RequestFits(q) /\ q.kind \in lifecycleTypes
  BY DEF Typed, RequestsFit, CommitTokenCommand, Authorized
<1>2. q.cred \in Credentials /\ q.target \in Subjects
  BY <1>1 DEF RequestFits, lifecycleTypes, Kinds
<1>3. \A from \in Tokens \cup {None} : NewToken(q, from) \in TokenRows /\ NewToken(q, from).status = "LIVE"
  BY <1>1, <1>2 DEF NewToken, TokenRows, Asked, Statuses
<1>4. \A u \in Tokens : tokens[u] \in TokenRows /\ [tokens[u] EXCEPT !.status = "REVOKED"] \in TokenRows
  BY DEF Typed, TokenRows, Statuses
<1>5. tokens \in [Tokens -> TokenRows]
  BY DEF Typed
<1>6. \/ tokens' = tokens
      \/ /\ EffectUnchanged(q) /\ q.kind = "ISSUE_TOKEN"
         /\ \E t \in Tokens : /\ tokens[t].status = "UNUSED"
                              /\ tokens' = [tokens EXCEPT ![t] = NewToken(q, None)]
      \/ /\ EffectUnchanged(q) /\ q.kind = "ROTATE_TOKEN"
         /\ \E t \in Tokens : /\ tokens[t].status = "UNUSED"
                              /\ tokens' = [tokens EXCEPT ![t] = NewToken(q, q.token),
                                                          ![q.token].status = "REVOKED"]
      \/ /\ EffectUnchanged(q) /\ q.kind = "REVOKE_TOKEN"
         /\ tokens' = [tokens EXCEPT ![q.token].status = "REVOKED"]
  BY DEF CommitTokenCommand
<1>7. q.kind \in {"ROTATE_TOKEN", "REVOKE_TOKEN"} =>
         q.token \in Tokens /\ q.basis.token.status = "LIVE"
  BY <1>1 DEF RequestFits
<1>8. EffectUnchanged(q) /\ q.kind = "ROTATE_TOKEN" => tokens[q.token].status = "LIVE"
  BY <1>7, IdsAssumption DEF EffectUnchanged, Basis, Ids
<1> HIDE DEF q
<1>9. CASE tokens' = tokens
  BY <1>9, <1>5 DEF TokenWritten, q
<1>10. CASE /\ EffectUnchanged(q) /\ q.kind = "ISSUE_TOKEN"
            /\ \E t \in Tokens : /\ tokens[t].status = "UNUSED"
                                 /\ tokens' = [tokens EXCEPT ![t] = NewToken(q, None)]
  <2>1. PICK t \in Tokens : /\ tokens[t].status = "UNUSED"
                            /\ tokens' = [tokens EXCEPT ![t] = NewToken(q, None)]
    BY <1>10
  <2>2. /\ tokens' \in [Tokens -> TokenRows] /\ tokens'[t] = NewToken(q, None)
        /\ \A u \in Tokens \ {t} : tokens'[u] = tokens[u]
    BY <2>1, <1>3, <1>5
  <2> QED
    BY <1>10, <2>1, <2>2 DEF TokenWritten, q
<1>11. CASE /\ EffectUnchanged(q) /\ q.kind = "ROTATE_TOKEN"
            /\ \E t \in Tokens : /\ tokens[t].status = "UNUSED"
                                 /\ tokens' = [tokens EXCEPT ![t] = NewToken(q, q.token),
                                                             ![q.token].status = "REVOKED"]
  <2>1. PICK t \in Tokens : /\ tokens[t].status = "UNUSED"
                            /\ tokens' = [tokens EXCEPT ![t] = NewToken(q, q.token),
                                                        ![q.token].status = "REVOKED"]
    BY <1>11
  <2>2. q.token \in Tokens /\ q.token # t
    BY <1>7, <1>8, <1>11, <2>1
  <2>3. /\ tokens' \in [Tokens -> TokenRows] /\ tokens'[t] = NewToken(q, q.token)
        /\ \A u \in Tokens \ {t} : tokens'[u] = IF u = q.token
                                                THEN [tokens[u] EXCEPT !.status = "REVOKED"] ELSE tokens[u]
    BY <2>1, <2>2, <1>3, <1>4, <1>5
  <2>4. q.kind = "ROTATE_TOKEN" /\ EffectUnchanged(q)
    BY <1>11
  <2>5. \A u \in Tokens \ {t} :
           tokens'[u] = IF q.kind = "ROTATE_TOKEN" /\ u = q.token
                        THEN [tokens[u] EXCEPT !.status = "REVOKED"] ELSE tokens[u]
    BY <2>3, <2>4
  <2>6. tokens'[t] = NewToken(q, IF q.kind = "ROTATE_TOKEN" THEN q.token ELSE None)
    BY <2>3, <2>4
  <2>7. TokenWritten(q)
    BY <2>1, <2>4, <2>5, <2>6 DEF TokenWritten
  <2> QED
    BY <2>3, <2>7 DEF q
<1>12. CASE /\ EffectUnchanged(q) /\ q.kind = "REVOKE_TOKEN"
            /\ tokens' = [tokens EXCEPT ![q.token].status = "REVOKED"]
  <2>1. q.token \in Tokens
    BY <1>7, <1>12
  <2>2. /\ tokens' \in [Tokens -> TokenRows]
        /\ \A u \in Tokens : tokens'[u] = IF u = q.token
                                          THEN [tokens[u] EXCEPT !.status = "REVOKED"] ELSE tokens[u]
    BY <1>12, <2>1, <1>4, <1>5
  <2> QED
    BY <1>12, <2>2 DEF TokenWritten, q
<1> QED
  BY <1>6, <1>9, <1>10, <1>11, <1>12

(* A sign-in opens one unused session.                                      *)
LEMMA LoginOpens ==
    ASSUME Typed, RequestsFit, NEW r \in Requests, CommitLogin(r)
    PROVE  /\ sessions' \in [Sessions -> SessionRows]
           /\ \E x \in Sessions :
                 /\ sessions[x].status = "UNUSED"
                 /\ sessions'[x] = [status |-> "LIVE", subject |-> req[r].target, password |-> req[r].password]
                 /\ \A y \in Sessions \ {x} : sessions'[y] = sessions[y]
<1>1. req[r].target \in Subjects /\ req[r].password \in Nat
  BY DEF Typed, Asked, RequestsFit, RequestFits, CommitLogin, Authorized
<1>2. [status |-> "LIVE", subject |-> req[r].target, password |-> req[r].password] \in SessionRows
  BY <1>1 DEF SessionRows, Statuses
<1> QED
  BY <1>2 DEF Typed, CommitLogin

(* What account management leaves of the sessions and tokens.               *)
LEMMA ManagementWrites ==
    ASSUME Typed, RequestsFit, NEW r \in Requests, CommitManagement(r)
    PROVE  LET q == req[r] IN
           /\ q.target \in Subjects /\ q.kind \in ManagementOps
           /\ operations' = operations \cup {Body(q)}
           /\ \/ /\ Body(q) \in operations
                 /\ UNCHANGED <<subjects, profile, grants, sessions, tokens>>
              \/ /\ Body(q) \notin operations
                 /\ \/ q.kind = "CREATE_STAFF" /\ ApplyCreate(q)
                    \/ q.kind = "DELETE_STAFF" /\ ApplyDelete(q)
                    \/ q.kind \in UpdateOps /\ ApplyUpdate(q)
BY DEF Typed, RequestsFit, RequestFits, CommitManagement, Authorized

LEMMA IssuedStayIssued ==
    ASSUME Typed, CredentialsFit, RequestsFit, Next
    PROVE  IssuedStay
<1>1. ASSUME NEW r \in Requests, CommitTokenCommand(r) PROVE IssuedStay
  <2> DEFINE q == req[r]
  <2>1. TokenWritten(q) /\ sessions' = sessions
    BY <1>1, TokenCommandWrites DEF CommitTokenCommand
  <2>2. \A u \in Tokens : tokens[u] \in TokenRows
    BY DEF Typed
  <2> HIDE DEF q
  <2> QED
    BY <2>1, <2>2 DEF TokenWritten, IssuedStay, TokenRows
<1>2. ASSUME NEW r \in Requests, CommitManagement(r) PROVE IssuedStay
  <2>1. \/ sessions' = sessions \/ sessions' = RevokeSessionsOf(req[r].target)
    BY <1>2, ManagementWrites DEF ApplyCreate, ApplyDelete, ApplyUpdate
  <2>2. \/ tokens' = tokens \/ tokens' = RevokeTokensOf(req[r].target)
    BY <1>2, ManagementWrites DEF ApplyCreate, ApplyDelete, ApplyUpdate
  <2>3. \A x \in Sessions : sessions[x] \in SessionRows
    BY DEF Typed
  <2>4. \A u \in Tokens : tokens[u] \in TokenRows
    BY DEF Typed
  <2> QED
    BY <2>1, <2>2, <2>3, <2>4 DEF RevokeSessionsOf, RevokeTokensOf, IssuedStay, SessionRows, TokenRows
<1>3. ASSUME NEW r \in Requests, CommitLogin(r) PROVE IssuedStay
  BY <1>3, LoginOpens DEF IssuedStay, CommitLogin
<1>4. ASSUME NEW r \in Requests, CommitQuote(r) PROVE IssuedStay
  BY <1>4 DEF CommitQuote, IssuedStay
<1>5. ASSUME NEW r \in Requests, EndsUnchanged(r) PROVE IssuedStay
  BY <1>5 DEF EndsUnchanged, Deny, Abort, CommitCommand, data, IssuedStay
<1>6. ASSUME NEW r \in Requests, Begins(r) PROVE IssuedStay
  BY <1>6, HowRequestsBegin DEF StartsWell, Start, data, IssuedStay
<1>7. ASSUME NEW r \in Requests, Acquire(r) \/ Authorize(r) PROVE IssuedStay
  BY <1>7 DEF Acquire, Authorize, data, IssuedStay
<1>8. CASE Aside
  <2>1. ASSUME NEW x \in Sessions, Logout(x) PROVE IssuedStay
    BY <2>1 DEF Logout, IssuedStay, Typed, SessionRows
  <2>2. ASSUME NEW admins \in Manifests, Reconcile(admins) PROVE IssuedStay
    BY <2>2 DEF Reconcile, IssuedStay, Typed, TokenRows
  <2>3. ASSUME UNCHANGED <<sessions, tokens>> PROVE IssuedStay
    BY <2>3 DEF IssuedStay
  <2> QED
    BY <1>8, <2>1, <2>2, <2>3 DEF Aside, ExpireQuote, Tick, MigrateQueue, MigrateApply, data
<1> QED
  BY <1>1, <1>2, <1>3, <1>4, <1>5, <1>6, <1>7, <1>8, StepsGrouped DEF Ends, Commits

-----------------------------------------------------------------------------
(* Types. *)
LEMMA TypesStep ==
    ASSUME Typed, CredentialsFit, RequestsFit, Next
    PROVE  Typed'
<1>0. Idle \in Asked
  BY DEF Idle, Asked, Bases
<1>1. ASSUME NEW r \in Requests, Release(r), subjects' \in [Subjects -> SubjectRows],
             profile' \in [Subjects -> {"ADMIN", "STAFF", None}],
             grants' \in [Subjects -> SUBSET administratorCommandGrants],
             sessions' \in [Sessions -> SessionRows], tokens' \in [Tokens -> TokenRows],
             quotes' \in [Subjects -> Nat], operations' \subseteq Operations
      PROVE  Typed'
  <2>1. req' \in [Requests -> Asked]
    BY <1>1, <1>0 DEF Typed, Release
  <2> QED
    BY <1>1, <2>1 DEF Typed, Release
<1>2. ASSUME NEW r \in Requests, EndsUnchanged(r) PROVE Typed'
  <2>1. Release(r) /\ UNCHANGED data
    BY <1>2 DEF EndsUnchanged, Deny, Abort, CommitCommand
  <2> QED
    BY <1>1, <2>1 DEF data, Typed
<1>3. ASSUME NEW r \in Requests, CommitQuote(r) PROVE Typed'
  <2>1. quotes' \in [Subjects -> Nat]
    <3>1. req[r].kind = "CREATE_QUOTE"
      BY <1>3 DEF CommitQuote, Authorized
    <3>2. Owner(req[r].cred) \in Subjects
      BY <3>1, OwnersAreSubjects DEF RequestsFit, RequestFits, Kinds, PlainTypes
    <3> QED
      BY <1>3, <3>2 DEF CommitQuote, Typed
  <2> QED
    BY <1>1, <1>3, <2>1 DEF CommitQuote, Typed
<1>4. ASSUME NEW r \in Requests, CommitTokenCommand(r) PROVE Typed'
  <2>1. tokens' \in [Tokens -> TokenRows]
    BY <1>4, TokenCommandWrites
  <2> QED
    BY <1>1, <1>4, <2>1 DEF CommitTokenCommand, Typed
<1>5. ASSUME NEW r \in Requests, CommitLogin(r) PROVE Typed'
  <2>1. sessions' \in [Sessions -> SessionRows]
    BY <1>5, LoginOpens
  <2> QED
    BY <1>1, <1>5, <2>1 DEF CommitLogin, Typed
<1>6. ASSUME NEW r \in Requests, CommitManagement(r) PROVE Typed'
  <2> DEFINE q == req[r]
  <2>1. /\ q.target \in Subjects /\ q.kind \in ManagementOps
        /\ operations' = operations \cup {Body(q)}
        /\ \/ UNCHANGED <<subjects, profile, grants, sessions, tokens>>
           \/ ApplyCreate(q) \/ ApplyDelete(q) \/ ApplyUpdate(q)
    BY <1>6, ManagementWrites
  <2>2. Body(q) \in Operations
    <3>1. q.cred \in Sessions /\ q.basis.version \in Nat /\ Issued(q.cred) /\ q.kind # "LOGIN" /\ q.kind \in Kinds
      BY <2>1 DEF RequestsFit, RequestFits, ManagementOps, UpdateOps, Kinds
    <3>2. Owner(q.cred) \in Subjects
      BY <3>1, OwnersAreSubjects DEF Credentials
    <3> HIDE DEF q
    <3> QED
      BY <3>1, <3>2, <2>1 DEF Body, Operations
  <2>3. /\ \A s \in Subjects : subjects[s] \in SubjectRows
        /\ \A x \in Sessions : sessions[x] \in SessionRows
        /\ \A t \in Tokens : tokens[t] \in TokenRows
    BY DEF Typed
  <2> HIDE DEF q
  <2>4. subjects' \in [Subjects -> SubjectRows]
    <3>1. subjects \in [Subjects -> SubjectRows]
      BY DEF Typed
    <3>2. CASE subjects' = subjects
      BY <3>1, <3>2
    <3>3. CASE ApplyCreate(q) \/ ApplyDelete(q)
      <4> DEFINE old == subjects[q.target]
      <4>1. old \in SubjectRows
        BY <2>1, <3>1
      <4>2. /\ [old EXCEPT !.status = "ACTIVE", !.version = 1] \in SubjectRows
            /\ [old EXCEPT !.status = "DELETED"] \in SubjectRows
        BY <4>1 DEF SubjectRows
      <4>3. \/ subjects' = [subjects EXCEPT ![q.target] = [old EXCEPT !.status = "ACTIVE", !.version = 1]]
            \/ subjects' = [subjects EXCEPT ![q.target] = [old EXCEPT !.status = "DELETED"]]
        BY <3>3 DEF ApplyCreate, ApplyDelete
      <4> HIDE DEF old
      <4> QED
        BY <3>1, <4>2, <4>3
    <3>4. CASE ApplyUpdate(q)
      <4>1. PICK row \in SubjectRows : subjects' = [subjects EXCEPT ![q.target] = row]
        <5> DEFINE old == subjects[q.target]
                   new == [status   |-> CASE q.kind = "DISABLE_STAFF" -> "DISABLED"
                                          [] q.kind = "ENABLE_STAFF"  -> "ACTIVE"
                                          [] OTHER                    -> old.status,
                           version  |-> old.version + 1,
                           password |-> IF q.kind \in {"RESET_PASSWORD", "CHANGE_PASSWORD"}
                                        THEN old.password + 1 ELSE old.password]
        <5>1. old \in SubjectRows
          BY <2>1, <3>1
        <5>2. new \in SubjectRows
          BY <5>1 DEF SubjectRows
        <5>3. subjects' = [subjects EXCEPT ![q.target] = new]
          BY <3>4 DEF ApplyUpdate
        <5> HIDE DEF new
        <5> QED
          BY <5>2, <5>3
      <4> QED
        BY <3>1, <4>1
    <3> QED
      BY <2>1, <3>2, <3>3, <3>4
  <2>5. /\ profile' \in [Subjects -> {"ADMIN", "STAFF", None}]
        /\ grants' \in [Subjects -> SUBSET administratorCommandGrants]
    BY <2>1 DEF ApplyCreate, ApplyDelete, ApplyUpdate, Typed, ordinaryStaffCommandGrants, administratorCommandGrants
  <2>6. sessions' \in [Sessions -> SessionRows]
    BY <2>1, <2>3 DEF ApplyCreate, ApplyDelete, ApplyUpdate, RevokeSessionsOf, Typed, SessionRows, Statuses
  <2>7. tokens' \in [Tokens -> TokenRows]
    BY <2>1, <2>3 DEF ApplyCreate, ApplyDelete, ApplyUpdate, RevokeTokensOf, Typed, TokenRows, Statuses
  <2>8. Release(r) /\ quotes' = quotes
    BY <1>6 DEF CommitManagement
  <2> QED
    BY <1>1, <2>1, <2>2, <2>4, <2>5, <2>6, <2>7, <2>8 DEF Typed
<1>7. ASSUME NEW r \in Requests, Begins(r) PROVE Typed'
  <2>1. PICK q \in Asked : Start(r, q) /\ RequestFits(q) /\ q.pc = "locking"
    BY <1>7, HowRequestsBegin DEF StartsWell
  <2>2. req' \in [Requests -> Asked]
    BY <2>1 DEF Start, Typed
  <2>3. need' \in [Requests -> SUBSET [row : Rows, mode : {"S", "U"}]]
    BY <2>1, WhatIsLocked DEF Start, Typed
  <2> QED
    BY <2>1, <2>2, <2>3 DEF Start, data, Typed
<1>8. ASSUME NEW r \in Requests, Acquire(r) PROVE Typed'
  BY <1>8 DEF Acquire, data, Typed
<1>9. ASSUME NEW r \in Requests, Authorize(r) PROVE Typed'
  <2>0. ASSUME NEW n \in Nat, req' = [req EXCEPT ![r].pc = "authorized", ![r].seen = n]
        PROVE  req' \in [Requests -> Asked]
    <3>1. req' = [req EXCEPT ![r] = [[req[r] EXCEPT !.pc = "authorized"] EXCEPT !.seen = n]]
      BY <2>0 DEF Typed
    <3>2. req[r] \in Asked
      BY DEF Typed
    <3>3. [[req[r] EXCEPT !.pc = "authorized"] EXCEPT !.seen = n] \in Asked
      BY <3>2 DEF Asked
    <3> QED
      BY <3>1, <3>3 DEF Typed
  <2>1. CASE req[r].kind = "CREATE_QUOTE"
    <3>1. Owner(req[r].cred) \in Subjects
      BY <2>1, OwnersAreSubjects DEF RequestsFit, RequestFits, Kinds, PlainTypes
    <3>2. req' = [req EXCEPT ![r].pc = "authorized", ![r].seen = quotes[Owner(req[r].cred)]]
      BY <1>9, <2>1 DEF Authorize
    <3>3. quotes[Owner(req[r].cred)] \in Nat
      BY <3>1 DEF Typed
    <3> QED
      BY <1>9, <2>0, <3>2, <3>3 DEF Authorize, data, Typed
  <2>2. CASE req[r].kind # "CREATE_QUOTE"
    <3>1. req' = [req EXCEPT ![r].pc = "authorized", ![r].seen = 0]
      BY <1>9, <2>2 DEF Authorize
    <3> QED
      BY <1>9, <2>0, <3>1 DEF Authorize, data, Typed
  <2> QED
    BY <2>1, <2>2
<1>10. CASE Aside
  <2>1. ASSUME NEW x \in Sessions, Logout(x) PROVE Typed'
    BY <2>1 DEF Logout, Typed, SessionRows, Statuses
  <2>2. ASSUME NEW admins \in Manifests, Reconcile(admins) PROVE Typed'
    <3> DEFINE profiles == [s \in Subjects |-> IF ~Exists(s) THEN None
                                               ELSE IF s \in admins THEN "ADMIN" ELSE "STAFF"]
    <3>1. profile' = profiles /\ profiles \in [Subjects -> {"ADMIN", "STAFF", None}]
      BY <2>2 DEF Reconcile
    <3>2. \A p : CommandProfile(p) \subseteq administratorCommandGrants
      BY DEF CommandProfile, ordinaryStaffCommandGrants, administratorCommandGrants
    <3>3. grants' \in [Subjects -> SUBSET administratorCommandGrants]
      BY <2>2, <3>2 DEF Reconcile
    <3> HIDE DEF profiles
    <3>4. \A t \in Tokens : tokens[t] \in TokenRows
      BY DEF Typed
    <3>5. tokens' = [t \in Tokens |-> [tokens[t] EXCEPT !.commands =
                       IF tokens[t].status = "UNUSED" THEN {}
                       ELSE @ \cap (CommandProfile(profiles[tokens[t].subject]) \ SessionOnly)]]
      BY <2>2 DEF Reconcile, profiles
    <3>6. tokens' \in [Tokens -> TokenRows]
      BY <3>4, <3>5 DEF TokenRows
    <3> QED
      BY <2>2, <3>1, <3>3, <3>6 DEF Reconcile, Typed
  <2>3. ASSUME NEW s \in Subjects, ExpireQuote(s) PROVE Typed'
    BY <2>3 DEF ExpireQuote, Typed
  <2>4. CASE Tick \/ MigrateQueue \/ MigrateApply
    BY <2>4 DEF Tick, MigrateQueue, MigrateApply, data, Typed
  <2> QED
    BY <1>10, <2>1, <2>2, <2>3, <2>4 DEF Aside
<1> QED
  BY <1>2, <1>3, <1>4, <1>5, <1>6, <1>7, <1>8, <1>9, <1>10, StepsGrouped DEF Ends, Commits

-----------------------------------------------------------------------------
(* Credentials and requests stay as they should be. *)
LEMMA CredentialsStep ==
    ASSUME Typed, CredentialsFit, RequestsFit, Next
    PROVE  CredentialsFit'
<1>0. IssuedStay
  BY IssuedStayIssued
<1>1. ASSUME NEW r \in Requests, CommitTokenCommand(r) PROVE CredentialsFit'
  <2> DEFINE q == req[r]
  <2>1. TokenWritten(q) /\ sessions' = sessions
    BY <1>1, TokenCommandWrites DEF CommitTokenCommand
  <2>2. \A u \in Tokens : tokens[u] \in TokenRows
    BY DEF Typed
  <2>3. q.target \in Subjects /\ q.cred \in Credentials /\ Issued(q.cred)
    BY <1>1 DEF CommitTokenCommand, Authorized, RequestsFit, RequestFits, lifecycleTypes, Kinds
  <2>4. q.cred \in Tokens => tokens[q.cred].status # "UNUSED"
    BY <2>3, IdsAssumption DEF Issued
  <2> HIDE DEF q
  <2>5. CASE tokens' = tokens
    BY <2>1, <2>5 DEF CredentialsFit
  <2>5a. EffectUnchanged(q) /\ q.kind \in {"ROTATE_TOKEN", "REVOKE_TOKEN"}
          => q.token \in Tokens /\ tokens[q.token].status = "LIVE"
    BY IdsAssumption DEF q, RequestsFit, RequestFits, EffectUnchanged, Basis, Ids
  <2>6. CASE EffectUnchanged(q) /\ q.kind = "REVOKE_TOKEN" /\ \A u \in Tokens : tokens'[u] = IF u = q.token
                                         THEN [tokens[u] EXCEPT !.status = "REVOKED"] ELSE tokens[u]
    <3>2. q.token \in Tokens /\ tokens[q.token].status = "LIVE"
      BY <2>5a, <2>6
    <3>3. \A u \in Tokens : /\ tokens'[u].subject = tokens[u].subject
                            /\ (tokens'[u].status = "UNUSED" <=> tokens[u].status = "UNUSED")
                            /\ tokens'[u].from = tokens[u].from /\ tokens'[u].by = tokens[u].by
      BY <2>2, <2>6, <3>2 DEF TokenRows
    <3> QED
      BY <2>1, <3>3 DEF CredentialsFit
  <2>7. ASSUME EffectUnchanged(q), NEW t \in Tokens, tokens[t].status = "UNUSED",
               tokens'[t] = NewToken(q, IF q.kind = "ROTATE_TOKEN" THEN q.token ELSE None),
               \A u \in Tokens \ {t} :
                   tokens'[u] = IF q.kind = "ROTATE_TOKEN" /\ u = q.token
                                THEN [tokens[u] EXCEPT !.status = "REVOKED"] ELSE tokens[u]
        PROVE  CredentialsFit'
    <3>1. tokens'[t].status = "LIVE" /\ tokens'[t].subject = q.target /\ tokens'[t].by = q.cred
      BY <2>7 DEF NewToken
    <3>2. q.kind = "ROTATE_TOKEN" => q.token \in Tokens /\ tokens[q.token].status = "LIVE"
      BY <2>5a, <2>7
    <3>3. \A u \in Tokens \ {t} :
            /\ tokens'[u].subject = tokens[u].subject
            /\ tokens'[u].from = tokens[u].from /\ tokens'[u].by = tokens[u].by
            /\ (tokens'[u].status = "UNUSED" <=> tokens[u].status = "UNUSED")
      <4> SUFFICES ASSUME NEW u \in Tokens \ {t}
                   PROVE  /\ tokens'[u].subject = tokens[u].subject
                          /\ tokens'[u].from = tokens[u].from /\ tokens'[u].by = tokens[u].by
                          /\ (tokens'[u].status = "UNUSED" <=> tokens[u].status = "UNUSED")
        OBVIOUS
      <4>1. CASE tokens'[u] = tokens[u]
        BY <4>1
      <4>2. CASE tokens'[u] = [tokens[u] EXCEPT !.status = "REVOKED"] /\ tokens[u].status = "LIVE"
        BY <2>2, <4>2 DEF TokenRows
      <4> QED
        BY <2>7, <3>2, <4>1, <4>2
    <3>4. \A u \in Tokens : tokens[u].status # "UNUSED" => tokens'[u].status # "UNUSED"
      BY <1>0 DEF IssuedStay
    <3>5. \A u \in Tokens : tokens'[u].by \in Tokens => tokens'[tokens'[u].by].status # "UNUSED"
      BY <2>4, <3>1, <3>3, <3>4 DEF CredentialsFit
    <3> QED
      BY <2>1, <2>3, <3>1, <3>3, <3>5 DEF CredentialsFit
  <2> QED
    BY <2>1, <2>5, <2>6, <2>7 DEF TokenWritten
<1>2. ASSUME NEW r \in Requests, CommitLogin(r) PROVE CredentialsFit'
  <2>1. req[r].target \in Subjects /\ tokens' = tokens
    BY <1>2 DEF CommitLogin, Authorized, RequestsFit, RequestFits
  <2> QED
    <3>1. PICK x \in Sessions :
            /\ sessions[x].status = "UNUSED"
            /\ sessions'[x] = [status |-> "LIVE", subject |-> req[r].target, password |-> req[r].password]
            /\ \A y \in Sessions \ {x} : sessions'[y] = sessions[y]
      BY <1>2, LoginOpens
    <3>2. \A y \in Sessions : sessions'[y].status # "UNUSED" => sessions'[y].subject \in Subjects
      BY <2>1, <3>1 DEF CredentialsFit
    <3> QED
      BY <2>1, <3>2 DEF CredentialsFit
<1>3. ASSUME NEW r \in Requests, CommitManagement(r) PROVE CredentialsFit'
  <2>1. \/ sessions' = sessions \/ sessions' = RevokeSessionsOf(req[r].target)
    BY <1>3, ManagementWrites DEF ApplyCreate, ApplyDelete, ApplyUpdate
  <2>2. \/ tokens' = tokens \/ tokens' = RevokeTokensOf(req[r].target)
    BY <1>3, ManagementWrites DEF ApplyCreate, ApplyDelete, ApplyUpdate
  <2>3. \A x \in Sessions : sessions[x] \in SessionRows
    BY DEF Typed
  <2>4. \A u \in Tokens : tokens[u] \in TokenRows
    BY DEF Typed
  <2>5. \A x \in Sessions : sessions'[x].subject = sessions[x].subject
                            /\ (sessions'[x].status = "UNUSED" <=> sessions[x].status = "UNUSED")
    BY <2>1, <2>3 DEF RevokeSessionsOf, SessionRows
  <2>6. \A t \in Tokens : /\ tokens'[t].subject = tokens[t].subject
                          /\ (tokens'[t].status = "UNUSED" <=> tokens[t].status = "UNUSED")
                          /\ tokens'[t].from = tokens[t].from /\ tokens'[t].by = tokens[t].by
    BY <2>2, <2>4 DEF RevokeTokensOf, TokenRows
  <2> QED
    BY <2>5, <2>6 DEF CredentialsFit
<1>4. ASSUME UNCHANGED <<sessions, tokens>> PROVE CredentialsFit'
  BY <1>4 DEF CredentialsFit
<1>5. ASSUME NEW r \in Requests, CommitQuote(r) PROVE CredentialsFit'
  BY <1>4, <1>5 DEF CommitQuote
<1>6. ASSUME NEW r \in Requests, EndsUnchanged(r) PROVE CredentialsFit'
  BY <1>4, <1>6 DEF EndsUnchanged, Deny, Abort, CommitCommand, data
<1>7. ASSUME NEW r \in Requests, Begins(r) PROVE CredentialsFit'
  BY <1>4, <1>7, HowRequestsBegin DEF StartsWell, Start, data
<1>8. ASSUME NEW r \in Requests, Acquire(r) \/ Authorize(r) PROVE CredentialsFit'
  BY <1>4, <1>8 DEF Acquire, Authorize, data
<1>9. CASE Aside
  <2>1. ASSUME NEW x \in Sessions, Logout(x) PROVE CredentialsFit'
    <3>1. sessions[x].status = "LIVE"
      BY <2>1 DEF Logout, authenticateRequest, Unrevoked
    <3>2. \A y \in Sessions : sessions'[y].subject = sessions[y].subject
                              /\ (sessions'[y].status = "UNUSED" <=> sessions[y].status = "UNUSED")
      BY <2>1, <3>1 DEF Logout, Typed, SessionRows
    <3> QED
      BY <2>1, <3>2 DEF Logout, CredentialsFit
  <2>2. ASSUME NEW admins \in Manifests, Reconcile(admins) PROVE CredentialsFit'
    <3>1. \A t \in Tokens : /\ tokens'[t].subject = tokens[t].subject
                            /\ tokens'[t].status = tokens[t].status
                            /\ tokens'[t].from = tokens[t].from /\ tokens'[t].by = tokens[t].by
      BY <2>2 DEF Reconcile, Typed, TokenRows
    <3> QED
      <4>1. sessions' = sessions
        BY <2>2 DEF Reconcile
      <4>2. \A t \in Tokens : tokens'[t].by \in Tokens => tokens'[tokens'[t].by].status # "UNUSED"
        BY <3>1 DEF CredentialsFit
      <4> QED
        BY <3>1, <4>1, <4>2 DEF CredentialsFit
  <2> QED
    BY <1>4, <1>9, <2>1, <2>2 DEF Aside, ExpireQuote, Tick, MigrateQueue, MigrateApply, data
<1> QED
  BY <1>1, <1>2, <1>3, <1>5, <1>6, <1>7, <1>8, <1>9, StepsGrouped DEF Ends, Commits

(* What a step does to the requests.                                        *)
LEMMA HowRequestsMove ==
    ASSUME Typed, CredentialsFit, RequestsFit, Next
    PROVE  \/ req' = req
           \/ \E r \in Requests :
                 /\ \A u \in Requests \ {r} : req'[u] = req[u]
                 /\ \/ req'[r] = Idle
                    \/ /\ UNCHANGED data
                       /\ \/ /\ Start(r, req'[r]) /\ req'[r] \in Asked /\ req'[r].pc = "locking"
                             /\ req'[r].kind \in Kinds /\ req'[r].epoch = epoch
                             /\ RequestFits(req'[r])
                             /\ req'[r].kind = "CREATE_QUOTE" => QuotaLockFree(req'[r].cred)
                          \/ /\ Authorize(r)
                             /\ req'[r].pc = "authorized"
                             /\ req'[r].kind = req[r].kind /\ req'[r].cred = req[r].cred
                             /\ req'[r].target = req[r].target /\ req'[r].token = req[r].token
                             /\ req'[r].ceiling = req[r].ceiling /\ req'[r].expires = req[r].expires
                             /\ req'[r].password = req[r].password /\ req'[r].basis = req[r].basis
                             /\ req'[r].epoch = req[r].epoch
                             /\ req'[r].kind = "CREATE_QUOTE" => req'[r].seen = quotes[Owner(req[r].cred)]
<1>1. ASSUME NEW r \in Requests, Begins(r)
      PROVE  \E q \in Asked : /\ req' = [req EXCEPT ![r] = q] /\ UNCHANGED data
                              /\ Start(r, q) /\ q.pc = "locking" /\ q.kind \in Kinds
                              /\ q.epoch = epoch /\ RequestFits(q)
                              /\ q.kind = "CREATE_QUOTE" => QuotaLockFree(q.cred)
  BY <1>1, HowRequestsBegin DEF StartsWell, Start
<1>2. ASSUME NEW r \in Requests, Authorize(r)
      PROVE  /\ UNCHANGED data
             /\ \A u \in Requests \ {r} : req'[u] = req[u]
             /\ req'[r].pc = "authorized"
             /\ req'[r].kind = req[r].kind /\ req'[r].cred = req[r].cred
             /\ req'[r].target = req[r].target /\ req'[r].token = req[r].token
             /\ req'[r].ceiling = req[r].ceiling /\ req'[r].expires = req[r].expires
             /\ req'[r].password = req[r].password /\ req'[r].basis = req[r].basis
             /\ req'[r].epoch = req[r].epoch
             /\ req'[r].kind = "CREATE_QUOTE" => req'[r].seen = quotes[Owner(req[r].cred)]
  <2>1. PICK n : /\ req' = [req EXCEPT ![r].pc = "authorized", ![r].seen = n]
                 /\ req[r].kind = "CREATE_QUOTE" => n = quotes[Owner(req[r].cred)]
    BY <1>2 DEF Authorize
  <2>2. req[r] \in Asked
    BY DEF Typed
  <2> QED
    BY <1>2, <2>1, <2>2 DEF Authorize, Typed, Asked
<1>3. ASSUME NEW r \in Requests, Ends(r)
      PROVE  req' = [req EXCEPT ![r] = Idle]
  BY <1>3 DEF Ends, EndsUnchanged, Commits, Deny, Abort, CommitCommand, CommitQuote, CommitTokenCommand,
       CommitManagement, CommitLogin, Release
<1>4. ASSUME NEW r \in Requests, Acquire(r) PROVE req' = req
  BY <1>4 DEF Acquire
<1>5. CASE Aside
  BY <1>5 DEF Aside, Logout, ExpireQuote, Tick, MigrateQueue, MigrateApply, Reconcile
<1>6. \A r \in Requests : \A q : req' = [req EXCEPT ![r] = q] => req'[r] = q /\ \A u \in Requests \ {r} : req'[u] = req[u]
  BY DEF Typed
<1> QED
  <2>1. ASSUME NEW r \in Requests, Begins(r)
        PROVE  /\ \A u \in Requests \ {r} : req'[u] = req[u]
               /\ UNCHANGED data
               /\ Start(r, req'[r]) /\ req'[r] \in Asked /\ req'[r].pc = "locking"
               /\ req'[r].kind \in Kinds /\ req'[r].epoch = epoch
               /\ RequestFits(req'[r])
               /\ req'[r].kind = "CREATE_QUOTE" => QuotaLockFree(req'[r].cred)
    <3>1. PICK q \in Asked : /\ req' = [req EXCEPT ![r] = q] /\ UNCHANGED data
                             /\ Start(r, q) /\ q.pc = "locking" /\ q.kind \in Kinds
                             /\ q.epoch = epoch /\ RequestFits(q)
                             /\ q.kind = "CREATE_QUOTE" => QuotaLockFree(q.cred)
      BY <2>1, <1>1
    <3>2. req'[r] = q /\ \A u \in Requests \ {r} : req'[u] = req[u]
      BY <3>1, <1>6
    <3> QED
      BY <3>1, <3>2
  <2>2. ASSUME NEW r \in Requests, Ends(r)
        PROVE  req'[r] = Idle /\ \A u \in Requests \ {r} : req'[u] = req[u]
    BY <2>2, <1>3, <1>6
  <2> QED
    BY <2>1, <2>2, <1>2, <1>4, <1>5, StepsGrouped

LEMMA RequestsStep ==
    ASSUME Typed, CredentialsFit, RequestsFit, Next
    PROVE  RequestsFit'
<1>0. IssuedStay
  BY IssuedStayIssued
<1>1. ASSUME NEW r \in Requests, req'[r] = req[r]
      PROVE  RequestFits(req[r])'
  <2>1. RequestFits(req[r])
    BY DEF RequestsFit
  <2>2. req[r].cred \in Credentials /\ Issued(req[r].cred) =>
          /\ Issued(req[r].cred)'
          /\ req[r].cred \in Tokens => tokens'[req[r].cred].expires = tokens[req[r].cred].expires
    BY <1>0, <1>1, IdsAssumption DEF IssuedStay, Issued, Credentials
  <2>3. req[r].cred \in Tokens => req[r].kind \notin {"idle", "LOGIN"}
    BY <2>1, IdsAssumption DEF RequestFits, Ids
  <2> QED
    BY <1>1, <2>1, <2>2 DEF RequestFits, lifecycleTypes, Kinds
<1>2. ASSUME NEW r \in Requests, req'[r] = Idle
      PROVE  RequestFits(req[r])'
  BY <1>2 DEF Idle, RequestFits, Kinds, PlainTypes, ManagementOps, UpdateOps, lifecycleTypes, SessionOnly
<1>3. ASSUME NEW r \in Requests, UNCHANGED data, RequestFits(req'[r])
      PROVE  RequestFits(req[r])'
  BY <1>3 DEF data, RequestFits, Issued
<1>4. ASSUME NEW r \in Requests, UNCHANGED data, RequestFits(req[r]),
             req[r].pc = "locking", req'[r].pc = "authorized",
             req'[r].kind = req[r].kind, req'[r].cred = req[r].cred,
             req'[r].target = req[r].target, req'[r].token = req[r].token,
             req'[r].ceiling = req[r].ceiling, req'[r].expires = req[r].expires,
             req'[r].basis = req[r].basis
      PROVE  RequestFits(req[r])'
  BY <1>4 DEF data, RequestFits, Issued
<1>5. \A r \in Requests : Authorize(r) => req[r].pc = "locking"
  BY DEF Authorize
<1> QED
  BY <1>1, <1>2, <1>3, <1>4, <1>5, HowRequestsMove DEF RequestsFit

-----------------------------------------------------------------------------
(* Locks. *)
LEMMA LocksSame ==
    ASSUME Typed, CredentialsFit, RequestsFit, IssuedStay, NEW r \in Requests, req[r].pc # "idle",
           req'[r].kind = req[r].kind, req'[r].cred = req[r].cred,
           req'[r].target = req[r].target, req'[r].token = req[r].token
    PROVE  LocksOf(req[r])' = LocksOf(req[r])
<1>1. RequestFits(req[r]) /\ req[r].kind \in Kinds
  BY DEF RequestsFit, RequestFits, Typed, Asked
<1>2. CASE req[r].kind = "LOGIN"
  BY <1>2 DEF LocksOf, LoginLocks, Each
<1>3. CASE req[r].kind # "LOGIN"
  <2>1. Owner(req[r].cred)' = Owner(req[r].cred)
    <3>1. req[r].cred \in Credentials /\ Issued(req[r].cred)
      BY <1>1, <1>3 DEF RequestFits
    <3> DEFINE c == req[r].cred
    <3>2. IF c \in Sessions THEN sessions'[c].subject = sessions[c].subject
          ELSE tokens'[c].subject = tokens[c].subject
      BY <3>1, IdsAssumption DEF Issued, IssuedStay, Credentials
    <3> QED
      BY <3>2 DEF Owner
  <2> QED
    BY <1>3, <2>1 DEF LocksOf, ManagementLocks, CommandLocks, lockRoomCatalog, Each
<1> QED
  BY <1>2, <1>3

(* One request: it begins, takes a lock, decides, or ends.                  *)
LockedAs(r) ==
    /\ req[r].pc = "idle" => need[r] = {} /\ \A h \in locks : h[1] # r
    /\ req[r].pc = "authorized" => need[r] = {}
    /\ req[r].pc # "idle" =>
          /\ need[r] \subseteq LocksOf(req[r])
          /\ \A l \in LocksOf(req[r]) \ need[r] : <<r, l.row, l.mode>> \in locks
          /\ \A h \in locks : h[1] = r =>
                /\ \E l \in LocksOf(req[r]) \ need[r] : l.row = h[2]
                /\ \A l \in need[r] : Rank(h[2]) < Rank(l.row)

LEMMA OtherRequestsLock ==
    ASSUME Typed, CredentialsFit, RequestsFit, LocksTaken, IssuedStay, NEW r \in Requests,
           req'[r] = req[r], need'[r] = need[r],
           \A h : h[1] = r => (h \in locks' <=> h \in locks)
    PROVE  LockedAs(r)'
<1>1. LockedAs(r)
  BY DEF LocksTaken, LockedAs
<1>2. CASE req[r].pc = "idle"
  BY <1>1, <1>2 DEF LockedAs
<1>3. CASE req[r].pc # "idle"
  <2>1. LocksOf(req[r])' = LocksOf(req[r])
    BY <1>3, LocksSame
  <2>2. \A l : <<r, l.row, l.mode>> \in locks => <<r, l.row, l.mode>> \in locks'
    OBVIOUS
  <2>3. \A h \in locks' : h[1] = r => h \in locks
    OBVIOUS
  <2>4. \A row : Rank(row)' = Rank(row)
    BY DEF Rank
  <2> QED
    BY <1>1, <1>3, <2>1, <2>2, <2>3, <2>4 DEF LockedAs
<1> QED
  BY <1>2, <1>3

LEMMA LocksStep ==
    ASSUME Typed, CredentialsFit, RequestsFit, LocksTaken, LocksApart, Next
    PROVE  LocksTaken' /\ LocksApart'
<1>0. IssuedStay
  BY IssuedStayIssued
<1>a. LocksTaken' <=> \A r \in Requests : LockedAs(r)'
  BY DEF LocksTaken, LockedAs
<1>1. ASSUME NEW r \in Requests, Begins(r) PROVE LocksTaken' /\ LocksApart'
  <2>1. PICK q \in Asked : Start(r, q) /\ req[r].pc = "idle" /\ q.pc = "locking"
    BY <1>1, HowRequestsBegin DEF StartsWell
  <2>2. /\ req'[r] = q /\ need'[r] = LocksOf(q) /\ locks' = locks /\ UNCHANGED data
        /\ \A u \in Requests \ {r} : req'[u] = req[u] /\ need'[u] = need[u]
    <3>1. need' = [need EXCEPT ![r] = LocksOf(q)] /\ locks' = locks /\ UNCHANGED data
      BY <2>1 DEF Start
    <3>2. req' = [req EXCEPT ![r] = q]
      BY <2>1 DEF Start
    <3> QED
      BY <3>1, <3>2 DEF Typed
  <2>3. ASSUME NEW u \in Requests \ {r} PROVE LockedAs(u)'
    BY <2>2, <1>0, OtherRequestsLock
  <2>4. LocksOf(req[r])' = LocksOf(q)
    BY <2>2 DEF data, LocksOf, LoginLocks, ManagementLocks, CommandLocks, lockRoomCatalog, Each, Owner
  <2>5. \A h \in locks : h[1] # r
    BY <2>1 DEF LocksTaken
  <2>6. LockedAs(r)'
    BY <2>1, <2>2, <2>4, <2>5 DEF LockedAs
  <2> QED
    BY <1>a, <2>2, <2>3, <2>6 DEF LocksApart
<1>2. ASSUME NEW r \in Requests, Acquire(r) PROVE LocksTaken' /\ LocksApart'
  <2>1. PICK l \in need[r] : /\ NextLock(r, l) /\ req[r].pc = "locking"
                             /\ \A h \in locks : ~Conflict(h, r, l)
                             /\ locks' = locks \cup {<<r, l.row, l.mode>>}
                             /\ need' = [need EXCEPT ![r] = @ \ {l}]
                             /\ req' = req
    BY <1>2 DEF Acquire
  <2> DEFINE L == LocksOf(req[r])
  <2>2. /\ need[r] \subseteq L
        /\ \A m \in L \ need[r] : <<r, m.row, m.mode>> \in locks
        /\ \A h \in locks : h[1] = r => /\ \E m \in L \ need[r] : m.row = h[2]
                                        /\ \A m \in need[r] : Rank(h[2]) < Rank(m.row)
    BY <2>1 DEF LocksTaken
  <2>3. /\ L \subseteq [row : Rows, mode : {"S", "U"}]
        /\ \A k, m \in L : Rank(k.row) = Rank(m.row) => k = m
    BY <2>1, WhatIsLocked DEF Typed, RequestsFit
  <2>4. L' = L
    BY <2>1, <1>0, LocksSame
  <2>5. need'[r] = need[r] \ {l} /\ \A u \in Requests \ {r} : need'[u] = need[u]
    BY <2>1 DEF Typed
  <2> HIDE DEF L
  <2>6. \A m \in need[r] \ {l} : Rank(l.row) < Rank(m.row)
    BY <2>1, <2>2, <2>3, RanksInOrder DEF NextLock
  <2>7. \A m \in L \ need'[r] : <<r, m.row, m.mode>> \in locks'
    BY <2>1, <2>2, <2>5
  <2>8. \A h \in locks' : h[1] = r =>
          /\ \E m \in L \ need'[r] : m.row = h[2]
          /\ \A m \in need'[r] : Rank(h[2]) < Rank(m.row)
    <3> SUFFICES ASSUME NEW h \in locks', h[1] = r
                 PROVE  /\ \E m \in L \ need'[r] : m.row = h[2]
                        /\ \A m \in need'[r] : Rank(h[2]) < Rank(m.row)
      OBVIOUS
    <3>1. CASE h \in locks
      BY <3>1, <2>2, <2>5
    <3>2. CASE h = <<r, l.row, l.mode>>
      BY <3>2, <2>1, <2>2, <2>5, <2>6
    <3> QED
      BY <3>1, <3>2, <2>1
  <2>9. LockedAs(r)'
    <3>1. \A row : Rank(row)' = Rank(row)
      BY DEF Rank
    <3> QED
      BY <2>1, <2>2, <2>4, <2>5, <2>7, <2>8, <3>1 DEF LockedAs, L
  <2>10. ASSUME NEW u \in Requests \ {r} PROVE LockedAs(u)'
    <3>1. \A h : h[1] = u => (h \in locks' <=> h \in locks)
      BY <2>1
    <3> QED
      BY <2>1, <2>5, <3>1, <1>0, OtherRequestsLock
  <2>11. LocksApart'
    BY <2>1 DEF LocksApart, Conflict
  <2> QED
    BY <1>a, <2>9, <2>10, <2>11
<1>3. ASSUME NEW r \in Requests, Authorize(r) PROVE LocksTaken' /\ LocksApart'
  <2>1. req[r].pc = "locking" /\ need[r] = {} /\ need' = need /\ locks' = locks
    BY <1>3 DEF Authorize
  <2>2. /\ req'[r].pc = "authorized" /\ req'[r].kind = req[r].kind /\ req'[r].cred = req[r].cred
        /\ req'[r].target = req[r].target /\ req'[r].token = req[r].token
        /\ \A u \in Requests \ {r} : req'[u] = req[u]
    <3>1. PICK n : req' = [req EXCEPT ![r].pc = "authorized", ![r].seen = n]
      BY <1>3 DEF Authorize
    <3>2. req[r] \in Asked
      BY DEF Typed
    <3> QED
      BY <3>1, <3>2 DEF Typed, Asked
  <2>3. LocksOf(req[r])' = LocksOf(req[r])
    BY <2>1, <2>2, <1>0, LocksSame
  <2>4. LockedAs(r)'
    <3>1. \A row : Rank(row)' = Rank(row)
      BY DEF Rank
    <3>2. LockedAs(r)
      BY DEF LocksTaken, LockedAs
    <3> QED
      BY <2>1, <2>2, <2>3, <3>1, <3>2 DEF LockedAs
  <2>5. ASSUME NEW u \in Requests \ {r} PROVE LockedAs(u)'
    BY <2>1, <2>2, <1>0, OtherRequestsLock
  <2> QED
    BY <1>a, <2>1, <2>4, <2>5 DEF LocksApart
<1>4. ASSUME NEW r \in Requests, Ends(r) PROVE LocksTaken' /\ LocksApart'
  <2>1. /\ req' = [req EXCEPT ![r] = Idle] /\ need' = [need EXCEPT ![r] = {}]
        /\ locks' = {h \in locks : h[1] # r}
    BY <1>4 DEF Ends, EndsUnchanged, Commits, Deny, Abort, CommitCommand, CommitQuote,
         CommitTokenCommand, CommitManagement, CommitLogin, Release
  <2>2. /\ req'[r].pc = "idle" /\ need'[r] = {} /\ \A h \in locks' : h[1] # r
        /\ \A u \in Requests \ {r} : req'[u] = req[u] /\ need'[u] = need[u]
    BY <2>1 DEF Typed, Idle
  <2>3. LockedAs(r)'
    BY <2>2 DEF LockedAs
  <2>4. ASSUME NEW u \in Requests \ {r} PROVE LockedAs(u)'
    <3>1. \A h : h[1] = u => (h \in locks' <=> h \in locks)
      BY <2>1
    <3> QED
      BY <2>2, <3>1, <1>0, OtherRequestsLock
  <2> QED
    BY <1>a, <2>1, <2>3, <2>4 DEF LocksApart
<1>5. CASE Aside
  <2>1. UNCHANGED <<req, need, locks>>
    BY <1>5 DEF Aside, Logout, ExpireQuote, Tick, MigrateQueue, MigrateApply, Reconcile
  <2>2. ASSUME NEW u \in Requests PROVE LockedAs(u)'
    BY <2>1, <1>0, OtherRequestsLock
  <2> QED
    BY <1>a, <2>1, <2>2 DEF LocksApart
<1> QED
  BY <1>1, <1>2, <1>3, <1>4, <1>5, StepsGrouped

-----------------------------------------------------------------------------
(* The epoch and the quotes. *)
LEMMA EpochStep ==
    ASSUME Typed, CredentialsFit, RequestsFit, EpochHeld, Next
    PROVE  EpochHeld'
<1>1. ~UsesEpoch(Idle)
  BY DEF UsesEpoch, Idle
<1>2. CASE epoch' = epoch /\ (migration' = migration \/ migration' \in {"no", "waiting"})
  <2> SUFFICES ASSUME NEW u \in Requests, UsesEpoch(req[u])'
               PROVE  req'[u].epoch = epoch' /\ migration' # "holding"
    BY DEF EpochHeld
  <2>1. CASE req'[u].kind = req[u].kind /\ req'[u].epoch = req[u].epoch
    BY <1>2, <2>1 DEF EpochHeld, UsesEpoch
  <2>2. CASE req'[u] = Idle
    BY <2>2, <1>1 DEF UsesEpoch
  <2>3. CASE Start(u, req'[u]) /\ req'[u].epoch = epoch
    BY <1>2, <2>3 DEF Start, UsesEpoch
  <2> QED
    BY <2>1, <2>2, <2>3, HowRequestsMove
<1>3. CASE MigrateApply
  BY <1>3 DEF MigrateApply, EpochLockFree, EpochHeld, UsesEpoch
<1>4. ASSUME NEW r \in Requests, Begins(r) \/ Acquire(r) \/ Authorize(r) \/ Ends(r)
      PROVE  epoch' = epoch /\ migration' = migration
  BY <1>4, HowRequestsBegin DEF StartsWell, Start, Acquire, Authorize, Ends, EndsUnchanged, Commits, Deny,
     Abort, CommitCommand, CommitQuote, CommitTokenCommand, CommitManagement, CommitLogin, Release
<1>5. CASE Aside /\ ~MigrateApply
  <2>1. epoch' = epoch /\ (migration' = migration \/ migration' \in {"no", "waiting"})
    BY <1>5 DEF Aside, Logout, ExpireQuote, Tick, MigrateQueue, Reconcile
  <2> QED
    BY <2>1, <1>2
<1> QED
  BY <1>2, <1>3, <1>4, <1>5, StepsGrouped

LEMMA QuotesStep ==
    ASSUME Typed, CredentialsFit, RequestsFit, QuotesCounted, QuotaHolds, Next
    PROVE  QuotesCounted' /\ QuotaHolds'
<1>0. IssuedStay
  BY IssuedStayIssued
<1>a. \A u \in Requests : req[u].kind = "CREATE_QUOTE" =>
        /\ req[u].cred \in Credentials /\ Issued(req[u].cred)
        /\ Owner(req[u].cred) \in Subjects
  BY OwnersAreSubjects DEF RequestsFit, RequestFits, Kinds, PlainTypes
<1>c. \A u \in Requests : req[u].kind = "CREATE_QUOTE" /\ req'[u].cred = req[u].cred
        => Owner(req[u].cred)' = Owner(req[u].cred)
  <2> SUFFICES ASSUME NEW u \in Requests, req[u].kind = "CREATE_QUOTE", req'[u].cred = req[u].cred
               PROVE  Owner(req[u].cred)' = Owner(req[u].cred)
    OBVIOUS
  <2> DEFINE c == req[u].cred
  <2>1. IF c \in Sessions THEN sessions'[c].subject = sessions[c].subject
        ELSE tokens'[c].subject = tokens[c].subject
    BY <1>a, <1>0, IdsAssumption DEF Issued, IssuedStay, Credentials
  <2> QED
    BY <2>1 DEF Owner
<1>d. Idle.kind # "CREATE_QUOTE"
  BY DEF Idle
<1>1. (\A r, s \in Requests :
          /\ req[r].kind = "CREATE_QUOTE" /\ req[s].kind = "CREATE_QUOTE"
          /\ Owner(req[r].cred) = Owner(req[s].cred)
          => r = s)'
  <2>1. CASE \E r \in Requests : /\ UNCHANGED data
                                 /\ \A u \in Requests \ {r} : req'[u] = req[u]
                                 /\ req'[r].kind = "CREATE_QUOTE" => QuotaLockFree(req'[r].cred)
    BY <2>1 DEF QuotesCounted, QuotaLockFree, data, Owner
  <2>2. CASE \A u \in Requests : req'[u].kind = "CREATE_QUOTE" =>
               req[u].kind = "CREATE_QUOTE" /\ req'[u].cred = req[u].cred
    BY <2>2, <1>c DEF QuotesCounted
  <2> QED
    BY <2>1, <2>2, <1>d, HowRequestsMove
<1>2. ASSUME NEW r \in Requests, CommitQuote(r)
      PROVE  QuotesCounted' /\ QuotaHolds'
  <2> DEFINE s == Owner(req[r].cred)
  <2>1. /\ req[r].pc = "authorized" /\ req[r].kind = "CREATE_QUOTE"
        /\ quotes' = IF req[r].seen < QuoteQuota THEN [quotes EXCEPT ![s] = @ + 1] ELSE quotes
        /\ req' = [req EXCEPT ![r] = Idle] /\ UNCHANGED <<sessions, tokens>>
    BY <1>2 DEF CommitQuote, Authorized, Release
  <2>2. s \in Subjects /\ quotes[s] <= req[r].seen /\ req[r].seen \in Nat /\ quotes \in [Subjects -> Nat]
    BY <2>1, <1>a DEF QuotesCounted, Typed, Asked
  <2>3. \A u \in Requests : req'[u].kind = "CREATE_QUOTE" =>
          u # r /\ req'[u] = req[u] /\ Owner(req[u].cred)' = Owner(req[u].cred)
    BY <2>1, <1>c, <1>d DEF Typed
  <2>4. \A u \in Requests : req'[u].kind = "CREATE_QUOTE" => Owner(req[u].cred) # s
    BY <2>1, <2>3 DEF QuotesCounted
  <2> HIDE DEF s
  <2>5. QuotaHolds'
    BY <2>1, <2>2, SeedsAssumption DEF QuotaHolds
  <2>6. \A u \in Subjects \ {s} : quotes'[u] = quotes[u]
    BY <2>1, <2>2
  <2>7. \A u \in Requests : req'[u].kind = "CREATE_QUOTE" /\ req'[u].pc = "authorized"
          => quotes'[Owner(req[u].cred)'] <= req'[u].seen
    BY <2>3, <2>4, <2>6, <1>a DEF QuotesCounted
  <2> QED
    BY <1>1, <2>5, <2>7 DEF QuotesCounted
<1>3. ASSUME \A s \in Subjects : quotes'[s] <= quotes[s]
      PROVE  QuotesCounted' /\ QuotaHolds'
  <2>1. QuotaHolds'
    BY <1>3, TypesStep, SeedsAssumption DEF QuotaHolds, Typed
  <2>2. ASSUME NEW u \in Requests, req'[u].kind = "CREATE_QUOTE", req'[u].pc = "authorized"
        PROVE  quotes'[Owner(req[u].cred)'] <= req'[u].seen
    <3>1. /\ req[u].kind = "CREATE_QUOTE" /\ req'[u].cred = req[u].cred
          /\ \/ req'[u] = req[u]
             \/ req'[u].seen = quotes[Owner(req[u].cred)]
      BY <2>2, <1>d, HowRequestsMove
    <3>2. Owner(req[u].cred)' = Owner(req[u].cred) /\ Owner(req[u].cred) \in Subjects
      BY <3>1, <1>a, <1>c
    <3>3. /\ quotes[Owner(req[u].cred)] \in Nat /\ quotes'[Owner(req[u].cred)] \in Nat
          /\ req[u].seen \in Nat
      BY <3>2, TypesStep DEF Typed, Asked
    <3> QED
      BY <2>2, <3>1, <3>2, <3>3, <1>3 DEF QuotesCounted
  <2> QED
    BY <1>1, <2>1, <2>2 DEF QuotesCounted
<1>4. ASSUME UNCHANGED quotes PROVE QuotesCounted' /\ QuotaHolds'
  BY <1>3, <1>4 DEF Typed
<1>5. ASSUME NEW s \in Subjects, ExpireQuote(s) PROVE QuotesCounted' /\ QuotaHolds'
  <2>1. \A u \in Subjects : quotes'[u] <= quotes[u]
    BY <1>5 DEF ExpireQuote, Typed
  <2> QED
    BY <1>3, <2>1
<1>6. ASSUME NEW r \in Requests, Begins(r) \/ Acquire(r) \/ Authorize(r) \/ (Ends(r) /\ ~CommitQuote(r))
      PROVE  UNCHANGED quotes
  BY <1>6, HowRequestsBegin DEF StartsWell, Start, Acquire, Authorize, Ends, EndsUnchanged, Commits, Deny,
     Abort, CommitCommand, CommitTokenCommand, CommitManagement, CommitLogin, data
<1>7. CASE Aside /\ ~(\E s \in Subjects : ExpireQuote(s))
  <2>1. UNCHANGED quotes
    BY <1>7 DEF Aside, Logout, Tick, MigrateQueue, MigrateApply, Reconcile, data
  <2> QED
    BY <1>4, <2>1
<1> QED
  BY <1>2, <1>4, <1>5, <1>6, <1>7, StepsGrouped

-----------------------------------------------------------------------------
(* A decision still holds. *)
Locked(r, row) == \E h \in locks : h[1] = r /\ h[2] = row
Aimed == ManagementOps \cup lifecycleTypes

LEMMA AuthorizedLocks ==
    ASSUME Typed, CredentialsFit, RequestsFit, LocksTaken,
           NEW r \in Requests, req[r].pc = "authorized"
    PROVE  /\ req[r].kind # "LOGIN" => Locked(r, Owner(req[r].cred)) /\ Locked(r, req[r].cred)
           /\ req[r].kind \in Aimed \cup {"LOGIN"} => Locked(r, req[r].target)
           /\ req[r].kind \in Aimed => <<r, req[r].target, "U">> \in locks
           /\ req[r].kind \in {"ROTATE_TOKEN", "REVOKE_TOKEN"} => <<r, req[r].token, "U">> \in locks
<1> DEFINE q == req[r]
<1>1. \A l \in LocksOf(q) : <<r, l.row, l.mode>> \in locks
  BY DEF LocksTaken
<1>2. q \in Asked /\ RequestFits(q) /\ q.pc # "idle"
  BY DEF Typed, RequestsFit
<1> HIDE DEF q
<1>3. \A l \in LocksOf(q) : Locked(r, l.row)
  BY <1>1 DEF Locked
<1>4. /\ q.kind # "LOGIN" => /\ \E l \in LocksOf(q) : l.row = Owner(q.cred)
                             /\ \E l \in LocksOf(q) : l.row = q.cred
      /\ q.kind = "LOGIN" => \E l \in LocksOf(q) : l.row = q.target
      /\ q.kind \in Aimed => [row |-> q.target, mode |-> "U"] \in LocksOf(q)
      /\ q.kind \in {"ROTATE_TOKEN", "REVOKE_TOKEN"} => [row |-> q.token, mode |-> "U"] \in LocksOf(q)
  BY <1>2, WhatIsLocked DEF Aimed
<1>5. /\ q.kind \in Aimed => <<r, q.target, "U">> \in locks
      /\ q.kind \in {"ROTATE_TOKEN", "REVOKE_TOKEN"} => <<r, q.token, "U">> \in locks
  BY <1>1, <1>4
<1>6. q.kind \in Aimed => Locked(r, q.target)
  BY <1>5 DEF Locked
<1>7. /\ q.kind # "LOGIN" => Locked(r, Owner(q.cred)) /\ Locked(r, q.cred)
      /\ q.kind = "LOGIN" => Locked(r, q.target)
  BY <1>3, <1>4
<1> QED
  BY <1>5, <1>6, <1>7 DEF q

(* A row locked for update is nobody else's.                                *)
LEMMA UpdateLockIsAlone ==
    ASSUME LocksApart, NEW r, NEW s, NEW row, <<s, row, "U">> \in locks, Locked(r, row)
    PROVE  r = s
BY DEF LocksApart, Locked

(* What a step must leave alone for a decision to remain right.             *)
Undisturbed(r) ==
    /\ req[r].kind # "LOGIN" =>
          /\ subjects'[Owner(req[r].cred)].status = subjects[Owner(req[r].cred)].status
          /\ grants'[Owner(req[r].cred)] = grants[Owner(req[r].cred)]
          /\ profile'[Owner(req[r].cred)] = profile[Owner(req[r].cred)]
    /\ req[r].cred \in Sessions => sessions'[req[r].cred].status = sessions[req[r].cred].status
    /\ req[r].cred \in Tokens => /\ tokens'[req[r].cred].status = tokens[req[r].cred].status
                                 /\ tokens'[req[r].cred].commands = tokens[req[r].cred].commands
    /\ req[r].kind \in Aimed \cup {"LOGIN"} => subjects'[req[r].target] = subjects[req[r].target]
    /\ req[r].kind \in Aimed => profile'[req[r].target] = profile[req[r].target]
    /\ operations \subseteq operations'
    /\ req[r].kind = "DELETE_STAFF" /\ EverUsed(req[r].target)' => EverUsed(req[r].target)

SameRequest(r) ==
    /\ req'[r].kind = req[r].kind /\ req'[r].cred = req[r].cred /\ req'[r].target = req[r].target
    /\ req'[r].password = req[r].password /\ req'[r].basis = req[r].basis

LEMMA StillPermitted ==
    ASSUME Typed, CredentialsFit, RequestsFit, IssuedStay, NEW r \in Requests,
           req[r].pc # "idle", Permitted(req[r]), Undisturbed(r), SameRequest(r)
    PROVE  Permitted(req[r])'
<1>1. RequestFits(req[r]) /\ req[r].kind \in Kinds /\ req[r].kind # "idle"
  BY DEF RequestsFit, RequestFits, Typed, Asked
<1>2. CASE req[r].kind = "LOGIN"
  BY <1>2, <1>1 DEF Permitted, LoginAllowed, Undisturbed, SameRequest, Aimed
<1>3. CASE req[r].kind # "LOGIN"
  <2>1. req[r].cred \in Credentials /\ Issued(req[r].cred)
    BY <1>1, <1>3 DEF RequestFits
  <2>2. Owner(req[r].cred)' = Owner(req[r].cred)
    <3> DEFINE c == req[r].cred
    <3>1. IF c \in Sessions THEN sessions'[c].subject = sessions[c].subject
          ELSE tokens'[c].subject = tokens[c].subject
      BY <2>1, IdsAssumption DEF Issued, IssuedStay, Credentials
    <3> QED
      BY <3>1 DEF Owner, SameRequest
  <2>3. Unrevoked(req[r].cred)' <=> Unrevoked(req[r].cred)
    BY <2>1 DEF Unrevoked, Undisturbed, SameRequest, Credentials
  <2>4. CASE req[r].kind \in ManagementOps
    <3>1. Body(req[r])' = Body(req[r])
      BY <2>2 DEF Body, SameRequest
    <3>2. Body(req[r]) \in operations => Body(req[r]) \in operations'
      BY DEF Undisturbed
    <3>3. ManagementAllowed(req[r])
      BY <1>3, <2>4 DEF Permitted
    <3>4. req[r].kind = "DELETE_STAFF" =>
            /\ ~EverUsed(req[r].target) => ~EverUsed(req[r].target)'
            /\ (\E o \in operations : o.op = "CREATE_STAFF" /\ o.target = req[r].target)
               => (\E o \in operations' : o.op = "CREATE_STAFF" /\ o.target = req'[r].target)
      BY DEF Undisturbed, SameRequest
    <3>5. /\ subjects'[req'[r].target] = subjects[req[r].target]
          /\ profile'[req'[r].target] = profile[req[r].target]
          /\ subjects'[Owner(req[r].cred)'].status = subjects[Owner(req[r].cred)].status
          /\ profile'[Owner(req[r].cred)'] = profile[Owner(req[r].cred)]
          /\ req'[r].kind = req[r].kind /\ req'[r].password = req[r].password
          /\ req'[r].basis = req[r].basis /\ req'[r].target = req[r].target
      BY <1>3, <2>2, <2>4 DEF Undisturbed, SameRequest, Aimed
    <3>6. ManagementAllowed(req[r])'
      <4> HIDE DEF EverUsed, Body, Owner, Unrevoked
      <4>1. CASE Body(req[r]) \in operations
        BY <3>1, <3>2, <3>3, <3>5, <4>1, <2>3 DEF ManagementAllowed
      <4>2. CASE Body(req[r]) \notin operations /\ req[r].kind = "DELETE_STAFF"
        BY <3>3, <3>4, <3>5, <4>2, <2>3, <2>2 DEF ManagementAllowed, Manageable
      <4>3. CASE Body(req[r]) \notin operations /\ req[r].kind # "DELETE_STAFF"
        BY <3>3, <3>5, <4>3, <2>3, <2>2 DEF ManagementAllowed, Manageable
      <4> QED
        BY <4>1, <4>2, <4>3
    <3> QED
      BY <1>3, <2>4, <3>5, <3>6 DEF Permitted
  <2>5. CASE req[r].kind \notin ManagementOps
    <3>1. /\ subjects'[Owner(req[r].cred)'].status = subjects[Owner(req[r].cred)].status
          /\ profile'[Owner(req[r].cred)'] = profile[Owner(req[r].cred)]
          /\ grants'[Owner(req[r].cred)'] = grants[Owner(req[r].cred)]
          /\ req'[r].kind = req[r].kind /\ req'[r].cred = req[r].cred /\ req'[r].target = req[r].target
          /\ req[r].kind \in lifecycleTypes => subjects'[req[r].target] = subjects[req[r].target]
          /\ req[r].cred \in Tokens => tokens'[req[r].cred].commands = tokens[req[r].cred].commands
      BY <1>3, <2>2 DEF Undisturbed, SameRequest, Aimed
    <3>2. authorizeCommandAccess(req[r]) /\ (req[r].kind \in lifecycleTypes => subjects[req[r].target].status = "ACTIVE")
      BY <1>3, <2>5 DEF Permitted
    <3>3. authorizeCommandAccess(req[r])'
      BY <2>3, <3>1, <3>2 DEF authorizeCommandAccess, evaluateCommandAuthorization
    <3> QED
      BY <1>3, <2>5, <3>1, <3>2, <3>3 DEF Permitted
  <2> QED
    BY <2>4, <2>5
<1> QED
  BY <1>2, <1>3

LEMMA OthersUndisturbed ==
    ASSUME Typed, CredentialsFit, RequestsFit, LocksTaken, LocksApart, EpochHeld, Next,
           NEW r \in Requests, req[r].pc = "authorized", req'[r] = req[r], req'[r].pc = "authorized"
    PROVE  Undisturbed(r)
<1> DEFINE c == req[r].cred  k == req[r].kind  o == Owner(c)  target == req[r].target
<1>0. IssuedStay
  BY IssuedStayIssued
<1>1. /\ RequestFits(req[r]) /\ k \in Kinds
      /\ k # "LOGIN" => c \in Credentials /\ Issued(c) /\ o \in Subjects
      /\ k = "LOGIN" => c = None /\ c \notin Credentials
      /\ k \in Aimed \cup {"LOGIN"} => target \in Subjects
  <2>1. RequestFits(req[r]) /\ k \in Kinds
    BY DEF RequestsFit, RequestFits, Typed, Asked
  <2>2. k # "LOGIN" => c \in Credentials /\ Issued(c)
    BY <2>1 DEF RequestFits
  <2>3. k # "LOGIN" => o \in Subjects
    BY <2>2, OwnersAreSubjects
  <2>4. k = "LOGIN" => c = None /\ c \notin Credentials
    BY <2>1, IdsAssumption DEF RequestFits, Credentials, Ids
  <2>5. k \in Aimed \cup {"LOGIN"} => target \in Subjects
    BY <2>1 DEF RequestFits, Aimed
  <2> QED
    BY <2>1, <2>2, <2>3, <2>4, <2>5
<1>2. /\ k # "LOGIN" => Locked(r, o) /\ Locked(r, c)
      /\ k \in Aimed \cup {"LOGIN"} => Locked(r, target)
      /\ k \in Aimed => <<r, target, "U">> \in locks
  BY AuthorizedLocks
<1>3. c \in Sessions \cup Tokens => k # "LOGIN"
  BY <1>1 DEF Credentials
<1> HIDE DEF o
<1>4. ASSUME UNCHANGED <<subjects, profile, grants, sessions, tokens, operations>>
      PROVE  Undisturbed(r)
  BY <1>4 DEF Undisturbed, EverUsed, o
<1>5. ASSUME NEW s \in Requests, CommitTokenCommand(s) PROVE Undisturbed(r)
  <2> DEFINE q == req[s]
  <2>1. /\ UNCHANGED <<subjects, profile, grants, sessions, operations>>
        /\ TokenWritten(q) /\ req[s].pc = "authorized" /\ q.kind \in lifecycleTypes
        /\ req'[s] = Idle
    BY <1>5, TokenCommandWrites DEF CommitTokenCommand, Authorized, Release, Typed
  <2>2. r # s
    BY <2>1 DEF Idle
  <2>3. /\ <<s, q.target, "U">> \in locks
        /\ q.kind \in {"ROTATE_TOKEN", "REVOKE_TOKEN"} => <<s, q.token, "U">> \in locks
    BY <2>1, AuthorizedLocks DEF Aimed
  <2>4. EffectUnchanged(q) /\ q.kind \in {"ROTATE_TOKEN", "REVOKE_TOKEN"}
          => q.token \in Tokens /\ tokens[q.token].status = "LIVE"
    BY IdsAssumption DEF RequestsFit, RequestFits, EffectUnchanged, Basis, Ids
  <2>5. k # "LOGIN" /\ q.kind \in {"ROTATE_TOKEN", "REVOKE_TOKEN"} => c # q.token
    BY <1>2, <2>2, <2>3, UpdateLockIsAlone
  <2>6. k \in Aimed => target # q.target
    BY <1>2, <2>2, <2>3, UpdateLockIsAlone
  <2>7. c \in Tokens => tokens[c].status # "UNUSED"
    BY <1>1, <1>3, IdsAssumption DEF Issued
  <2>8. \A t \in Tokens : tokens[t] \in TokenRows
    BY DEF Typed
  <2> HIDE DEF q
  <2>9. c \in Tokens => tokens'[c] = tokens[c]
    BY <1>3, <2>1, <2>5, <2>7 DEF TokenWritten
  <2>10. \A t \in Tokens : tokens'[t].status # "UNUSED" /\ tokens'[t].subject # q.target
           => tokens[t].status # "UNUSED" /\ tokens[t].subject = tokens'[t].subject
    <3>1. \A t \in Tokens : \/ tokens'[t] = tokens[t]
                            \/ tokens'[t] = [tokens[t] EXCEPT !.status = "REVOKED"] /\ tokens[t].status = "LIVE"
                            \/ \E from : tokens'[t] = NewToken(q, from)
      BY <2>1, <2>4 DEF TokenWritten
    <3>2. \A from : NewToken(q, from).subject = q.target
      BY DEF NewToken
    <3>3. \A t \in Tokens : tokens[t].status = "LIVE"
            => LET w == [tokens[t] EXCEPT !.status = "REVOKED"]
               IN w.subject = tokens[t].subject /\ tokens[t].status # "UNUSED"
      BY <2>8 DEF TokenRows
    <3> QED
      BY <3>1, <3>2, <3>3
  <2>11. k \in Aimed /\ EverUsed(target)' => EverUsed(target)
    BY <2>1, <2>6, <2>10 DEF EverUsed
  <2> QED
    BY <2>1, <2>9, <2>11 DEF Undisturbed, o, Aimed, ManagementOps
<1>6. ASSUME NEW s \in Requests, CommitLogin(s) PROVE Undisturbed(r)
  <2>1. /\ UNCHANGED <<subjects, profile, grants, tokens, operations>>
        /\ req[s].pc = "authorized" /\ req[s].kind = "LOGIN" /\ req'[s] = Idle
    BY <1>6 DEF CommitLogin, Authorized, Release, Typed
  <2>2. r # s
    BY <2>1 DEF Idle
  <2>3. PICK x \in Sessions :
          /\ sessions[x].status = "UNUSED"
          /\ sessions'[x] = [status |-> "LIVE", subject |-> req[s].target, password |-> req[s].password]
          /\ \A y \in Sessions \ {x} : sessions'[y] = sessions[y]
    BY <1>6, LoginOpens
  <2>4. Locked(s, req[s].target)
    BY <2>1, AuthorizedLocks
  <2>5. k \in Aimed => target # req[s].target
    BY <1>2, <2>2, <2>4, UpdateLockIsAlone
  <2>6. c \in Sessions => sessions'[c] = sessions[c]
    BY <1>1, <1>3, <2>3 DEF Issued
  <2>7. k \in Aimed /\ EverUsed(target)' => EverUsed(target)
    BY <2>1, <2>3, <2>5 DEF EverUsed
  <2> QED
    BY <2>1, <2>6, <2>7 DEF Undisturbed, o, Aimed, ManagementOps
<1>7. ASSUME NEW s \in Requests, CommitManagement(s) PROVE Undisturbed(r)
  <2> DEFINE q == req[s]
  <2>1. req[s].pc = "authorized" /\ q.kind \in ManagementOps /\ req'[s] = Idle
    BY <1>7 DEF CommitManagement, Authorized, Release, Typed
  <2>2. r # s
    BY <2>1 DEF Idle
  <2>3. <<s, q.target, "U">> \in locks
    BY <2>1, AuthorizedLocks DEF Aimed
  <2>4. /\ k # "LOGIN" => o # q.target
        /\ k \in Aimed \cup {"LOGIN"} => target # q.target
    BY <1>2, <2>2, <2>3, UpdateLockIsAlone
  <2>5. /\ q.target \in Subjects /\ operations' = operations \cup {Body(q)}
        /\ \/ UNCHANGED <<subjects, profile, grants, sessions, tokens>>
           \/ ApplyCreate(q) \/ ApplyDelete(q) \/ ApplyUpdate(q)
    BY <1>7, ManagementWrites
  <2>6. /\ \A x \in Sessions : sessions[x] \in SessionRows
        /\ \A t \in Tokens : tokens[t] \in TokenRows
    BY DEF Typed
  <2> HIDE DEF q
  <2>7. \A u \in Subjects \ {q.target} :
          subjects'[u] = subjects[u] /\ profile'[u] = profile[u] /\ grants'[u] = grants[u]
    BY <2>5 DEF ApplyCreate, ApplyDelete, ApplyUpdate, Typed
  <2>8. /\ sessions' = sessions \/ sessions' = RevokeSessionsOf(q.target)
        /\ tokens' = tokens \/ tokens' = RevokeTokensOf(q.target)
    BY <2>5 DEF ApplyCreate, ApplyDelete, ApplyUpdate
  <2>9. /\ \A x \in Sessions : sessions'[x].subject = sessions[x].subject
              /\ (sessions'[x].status = "UNUSED" <=> sessions[x].status = "UNUSED")
              /\ (sessions[x].subject # q.target => sessions'[x] = sessions[x])
    BY <2>6, <2>8 DEF RevokeSessionsOf, SessionRows
  <2>10. \A t \in Tokens : tokens'[t].subject = tokens[t].subject
              /\ (tokens'[t].status = "UNUSED" <=> tokens[t].status = "UNUSED")
              /\ (tokens[t].subject # q.target => tokens'[t] = tokens[t])
    BY <2>6, <2>8 DEF RevokeTokensOf, TokenRows
  <2>11. /\ c \in Sessions => sessions[c].subject = o
         /\ c \in Tokens => tokens[c].subject = o
    BY IdsAssumption DEF o, Owner
  <2>12. /\ c \in Sessions => sessions'[c] = sessions[c]
         /\ c \in Tokens => tokens'[c] = tokens[c]
    BY <1>3, <2>4, <2>9, <2>10, <2>11
  <2>13. EverUsed(target)' => EverUsed(target)
    BY <2>9, <2>10 DEF EverUsed
  <2>14. k # "LOGIN" => subjects'[o] = subjects[o] /\ profile'[o] = profile[o] /\ grants'[o] = grants[o]
    BY <1>1, <2>4, <2>7
  <2>15. k \in Aimed \cup {"LOGIN"} => subjects'[target] = subjects[target] /\ profile'[target] = profile[target]
    BY <1>1, <2>4, <2>7
  <2> QED
    BY <2>5, <2>12, <2>13, <2>14, <2>15 DEF Undisturbed, o
<1>8. ASSUME NEW x \in Sessions, Logout(x) PROVE Undisturbed(r)
  <2>1. /\ UNCHANGED <<subjects, profile, grants, tokens, operations>>
        /\ sessions' = [sessions EXCEPT ![x].status = "REVOKED"]
        /\ sessions[x].status = "LIVE" /\ \A h \in locks : h[2] # x
    BY <1>8 DEF Logout, authenticateRequest, Unrevoked
  <2>2. c # x
    BY <1>2, <1>3, <2>1 DEF Locked
  <2>3. \A y \in Sessions : /\ y # x => sessions'[y] = sessions[y]
                            /\ sessions'[y].subject = sessions[y].subject
                            /\ (sessions'[y].status = "UNUSED" <=> sessions[y].status = "UNUSED")
    BY <2>1 DEF Typed, SessionRows
  <2>4. EverUsed(target)' => EverUsed(target)
    BY <2>1, <2>3 DEF EverUsed
  <2> QED
    BY <2>1, <2>2, <2>3, <2>4 DEF Undisturbed, o
<1>9. ASSUME NEW admins \in Manifests, Reconcile(admins) PROVE Undisturbed(r)
  <2>1. migration = "holding" /\ UNCHANGED <<subjects, sessions, operations>>
    BY <1>9 DEF Reconcile
  <2>2. k = "LOGIN"
    BY <2>1, <1>1 DEF EpochHeld, UsesEpoch, RequestFits
  <2> QED
    BY <1>1, <2>1, <2>2 DEF Undisturbed, Aimed, ManagementOps, UpdateOps, lifecycleTypes, Credentials
<1>10. ASSUME NEW s \in Requests, Begins(s) \/ Acquire(s) \/ Authorize(s) \/ EndsUnchanged(s) \/ CommitQuote(s)
       PROVE  Undisturbed(r)
  <2>1. UNCHANGED <<subjects, profile, grants, sessions, tokens, operations>>
    BY <1>10, HowRequestsBegin DEF StartsWell, Start, Acquire, Authorize, EndsUnchanged, Deny, Abort,
       CommitCommand, CommitQuote, data
  <2> QED
    BY <2>1, <1>4
<1>11. CASE Tick \/ MigrateQueue \/ MigrateApply \/ \E s \in Subjects : ExpireQuote(s)
  <2>1. UNCHANGED <<subjects, profile, grants, sessions, tokens, operations>>
    BY <1>11 DEF Tick, MigrateQueue, MigrateApply, ExpireQuote, data
  <2> QED
    BY <2>1, <1>4
<1> QED
  BY <1>5, <1>6, <1>7, <1>8, <1>9, <1>10, <1>11, StepsGrouped DEF Aside, Ends, Commits

LEMMA AuthorizedStep ==
    ASSUME Typed, CredentialsFit, RequestsFit, LocksTaken, LocksApart, EpochHeld,
           AuthorizedStillHolds, Next
    PROVE  AuthorizedStillHolds'
<1>0. IssuedStay
  BY IssuedStayIssued
<1> SUFFICES ASSUME NEW r \in Requests, req'[r].pc = "authorized"
             PROVE  Permitted(req[r])' /\ (UsesEpoch(req[r])' => req'[r].epoch = epoch')
  BY DEF AuthorizedStillHolds
<1>1. UsesEpoch(req[r])' => req'[r].epoch = epoch'
  BY EpochStep DEF EpochHeld
<1>2. CASE req'[r] = req[r]
  <2>1. Undisturbed(r) /\ SameRequest(r) /\ Permitted(req[r])
    BY <1>2, OthersUndisturbed DEF SameRequest, AuthorizedStillHolds
  <2> QED
    BY <1>0, <1>1, <1>2, <2>1, StillPermitted
<1>3. CASE UNCHANGED data /\ Authorize(r) /\ SameRequest(r)
  <2>1. Permitted(req[r]) /\ req[r].pc # "idle"
    BY <1>3 DEF Authorize, DecidedYes
  <2>2. Undisturbed(r)
    BY <1>3 DEF data, Undisturbed, EverUsed, SameRequest
  <2> QED
    BY <1>0, <1>1, <1>3, <2>1, <2>2, StillPermitted
<1>4. Idle.pc = "idle"
  BY DEF Idle
<1> QED
  BY <1>1, <1>2, <1>3, <1>4, HowRequestsMove DEF SameRequest

-----------------------------------------------------------------------------
(* Credentials reach no further than they should. *)
LEMMA TokenCommandKeepsBounds ==
    ASSUME Typed, CredentialsFit, RequestsFit, AuthorizedStillHolds, CredentialsStayBounded,
           NEW r \in Requests, CommitTokenCommand(r)
    PROVE  CredentialsStayBounded'
<1> DEFINE q == req[r]
<1>1. /\ UNCHANGED <<subjects, grants, sessions>>
      /\ TokenWritten(q) /\ q.pc = "authorized" /\ q.kind \in lifecycleTypes
      /\ tokens' \in [Tokens -> TokenRows]
  BY TokenCommandWrites DEF CommitTokenCommand, Authorized
<1>2. /\ subjects[q.target].status = "ACTIVE" /\ q.target \in Subjects
      /\ q.cred \in Credentials /\ Issued(q.cred)
  <2>1. Permitted(q) /\ RequestFits(q)
    BY <1>1 DEF AuthorizedStillHolds, RequestsFit
  <2> QED
    BY <1>1, <2>1 DEF Permitted, RequestFits, lifecycleTypes, ManagementOps, UpdateOps, Kinds
<1>3. q.cred \in Tokens => tokens[q.cred].status # "UNUSED"
  BY <1>2, IdsAssumption DEF Issued
<1>4. EffectUnchanged(q) /\ q.kind \in {"ROTATE_TOKEN", "REVOKE_TOKEN"}
        => q.token \in Tokens /\ tokens[q.token].status = "LIVE"
  BY IdsAssumption DEF RequestsFit, RequestFits, EffectUnchanged, Basis, Ids
<1>5. EffectUnchanged(q) /\ q.kind \in {"ISSUE_TOKEN", "ROTATE_TOKEN"}
        => /\ q.ceiling \subseteq grants[q.target] \ SessionOnly
           /\ q.cred \in Tokens => q.expires <= tokens[q.cred].expires
  BY DEF RequestsFit, RequestFits, EffectUnchanged, Basis
<1>6. \A t \in Tokens : tokens[t] \in TokenRows
  BY DEF Typed
<1> HIDE DEF q
<1>7. /\ DisabledIsLockedOut /\ SessionsFollowPassword /\ CeilingWithinGrants
      /\ OffspringDiesFirst /\ RotatedOnce
  BY DEF CredentialsStayBounded
<1>8. SessionsFollowPassword'
  BY <1>1, <1>7 DEF SessionsFollowPassword
<1>9. (\A x \in Sessions : sessions[x].status = "LIVE" => subjects[sessions[x].subject].status = "ACTIVE")'
  BY <1>1, <1>7 DEF DisabledIsLockedOut
<1>10. CASE tokens' = tokens
  BY <1>1, <1>7, <1>10 DEF CredentialsStayBounded, DisabledIsLockedOut, SessionsFollowPassword,
     CeilingWithinGrants, OffspringDiesFirst, RotatedOnce
<1>11. CASE /\ EffectUnchanged(q) /\ q.kind = "REVOKE_TOKEN"
            /\ \A u \in Tokens : tokens'[u] = IF u = q.token
                                              THEN [tokens[u] EXCEPT !.status = "REVOKED"] ELSE tokens[u]
  <2>1. \A u \in Tokens :
          /\ tokens'[u].subject = tokens[u].subject /\ tokens'[u].commands = tokens[u].commands
          /\ tokens'[u].expires = tokens[u].expires
          /\ tokens'[u].from = tokens[u].from /\ tokens'[u].by = tokens[u].by
          /\ tokens'[u].status = "LIVE" => tokens[u].status = "LIVE"
          /\ tokens[u].status = "REVOKED" => tokens'[u].status = "REVOKED"
    BY <1>6, <1>11 DEF TokenRows
  <2>2. DisabledIsLockedOut'
    BY <1>1, <1>7, <1>9, <2>1 DEF DisabledIsLockedOut
  <2>3. CeilingWithinGrants'
    BY <1>1, <1>7, <2>1 DEF CeilingWithinGrants
  <2>4. OffspringDiesFirst'
    BY <1>7, <2>1 DEF OffspringDiesFirst
  <2>5. RotatedOnce'
    BY <1>7, <1>6, <2>1 DEF RotatedOnce, TokenRows
  <2> QED
    BY <1>8, <2>2, <2>3, <2>4, <2>5 DEF CredentialsStayBounded
<1>12. ASSUME EffectUnchanged(q), q.kind \in {"ISSUE_TOKEN", "ROTATE_TOKEN"},
              NEW t \in Tokens, tokens[t].status = "UNUSED",
              tokens'[t] = NewToken(q, IF q.kind = "ROTATE_TOKEN" THEN q.token ELSE None),
              \A u \in Tokens \ {t} :
                   tokens'[u] = IF q.kind = "ROTATE_TOKEN" /\ u = q.token
                                THEN [tokens[u] EXCEPT !.status = "REVOKED"] ELSE tokens[u]
       PROVE  CredentialsStayBounded'
  <2>1. \A u \in Tokens \ {t} :
          /\ tokens'[u].subject = tokens[u].subject /\ tokens'[u].commands = tokens[u].commands
          /\ tokens'[u].expires = tokens[u].expires
          /\ tokens'[u].from = tokens[u].from /\ tokens'[u].by = tokens[u].by
          /\ tokens'[u].status = "LIVE" => tokens[u].status = "LIVE"
          /\ tokens[u].status = "REVOKED" => tokens'[u].status = "REVOKED"
    <3> SUFFICES ASSUME NEW u \in Tokens \ {t}
                 PROVE  /\ tokens'[u].subject = tokens[u].subject /\ tokens'[u].commands = tokens[u].commands
                        /\ tokens'[u].expires = tokens[u].expires
                        /\ tokens'[u].from = tokens[u].from /\ tokens'[u].by = tokens[u].by
                        /\ tokens'[u].status = "LIVE" => tokens[u].status = "LIVE"
                        /\ tokens[u].status = "REVOKED" => tokens'[u].status = "REVOKED"
      OBVIOUS
    <3>1. CASE tokens'[u] = tokens[u]
      BY <3>1
    <3>2. CASE tokens'[u] = [tokens[u] EXCEPT !.status = "REVOKED"]
      BY <1>6, <3>2 DEF TokenRows
    <3> QED
      BY <1>12, <3>1, <3>2
  <2>2. /\ tokens'[t].subject = q.target /\ tokens'[t].commands = q.ceiling
        /\ tokens'[t].expires = q.expires /\ tokens'[t].by = q.cred
        /\ tokens'[t].from = IF q.kind = "ROTATE_TOKEN" THEN q.token ELSE None
    BY <1>12 DEF NewToken
  <2>3. DisabledIsLockedOut'
    BY <1>1, <1>2, <1>7, <1>9, <2>1, <2>2 DEF DisabledIsLockedOut
  <2>4. CeilingWithinGrants'
    BY <1>1, <1>5, <1>7, <1>12, <2>1, <2>2 DEF CeilingWithinGrants
  <2>5. OffspringDiesFirst'
    <3> SUFFICES ASSUME NEW u \in Tokens, tokens'[u].by \in Tokens
                 PROVE  tokens'[u].expires <= tokens'[tokens'[u].by].expires
      BY DEF OffspringDiesFirst
    <3>1. CASE u = t
      <4>1. q.cred \in Tokens /\ q.cred # t
        BY <3>1, <2>2, <1>3, <1>12
      <4> QED
        BY <3>1, <4>1, <2>1, <2>2, <1>5, <1>12
    <3>2. CASE u # t
      <4>1. tokens[u].by \in Tokens /\ tokens[u].by # t
        BY <3>2, <2>1, <1>12 DEF CredentialsFit
      <4> QED
        BY <3>2, <4>1, <2>1, <1>7 DEF OffspringDiesFirst
    <3> QED
      BY <3>1, <3>2
  <2>6. RotatedOnce'
    <3>1. \A u \in Tokens \ {t} : tokens[u].from # None =>
            tokens[u].from # t /\ tokens[u].from \in Tokens
            /\ (q.kind = "ROTATE_TOKEN" => tokens[u].from # q.token)
      BY <1>4, <1>6, <1>7, <1>12 DEF RotatedOnce, TokenRows
    <3>2. q.kind = "ROTATE_TOKEN" => q.token \in Tokens \ {t} /\ tokens'[q.token].status = "REVOKED"
      BY <1>4, <1>6, <1>12 DEF TokenRows
    <3>3. \A u \in Tokens : tokens'[u].from # None => tokens'[tokens'[u].from].status = "REVOKED"
      BY <1>7, <2>1, <2>2, <3>1, <3>2 DEF RotatedOnce
    <3>4. \A u, v \in Tokens : tokens'[u].from # None /\ tokens'[v].from = tokens'[u].from => u = v
      BY <1>7, <2>1, <2>2, <3>1, <3>2 DEF RotatedOnce
    <3> QED
      BY <3>3, <3>4 DEF RotatedOnce
  <2> QED
    BY <1>8, <2>3, <2>4, <2>5, <2>6 DEF CredentialsStayBounded
<1> QED
  BY <1>1, <1>10, <1>11, <1>12 DEF TokenWritten

LEMMA ManagementKeepsBounds ==
    ASSUME Typed, CredentialsFit, RequestsFit, AuthorizedStillHolds, CredentialsStayBounded,
           NEW r \in Requests, CommitManagement(r)
    PROVE  CredentialsStayBounded'
<1> DEFINE q == req[r]
<1>1. q.pc = "authorized" /\ q.target \in Subjects /\ q.kind \in ManagementOps
  BY ManagementWrites DEF CommitManagement, Authorized
<1>2. /\ subjects \in [Subjects -> SubjectRows]
      /\ \A x \in Sessions : sessions[x] \in SessionRows
      /\ \A t \in Tokens : tokens[t] \in TokenRows
  BY DEF Typed
<1>3. /\ DisabledIsLockedOut /\ SessionsFollowPassword /\ CeilingWithinGrants
      /\ OffspringDiesFirst /\ RotatedOnce
  BY DEF CredentialsStayBounded
<1>4. Body(q) \notin operations =>
        /\ q.kind = "CREATE_STAFF" => subjects[q.target].status = "NEW"
        /\ q.kind = "DELETE_STAFF" => ~EverUsed(q.target)
  <2>1. Permitted(q)
    BY <1>1 DEF AuthorizedStillHolds
  <2> QED
    BY <1>1, <2>1 DEF Permitted, ManagementAllowed, ManagementOps, UpdateOps
<1>5. \/ UNCHANGED <<subjects, profile, grants, sessions, tokens>>
      \/ Body(q) \notin operations /\ q.kind = "CREATE_STAFF" /\ ApplyCreate(q)
      \/ Body(q) \notin operations /\ q.kind = "DELETE_STAFF" /\ ApplyDelete(q)
      \/ q.kind \in UpdateOps /\ ApplyUpdate(q)
  BY ManagementWrites
<1> HIDE DEF q
<1>6. CASE UNCHANGED <<subjects, profile, grants, sessions, tokens>>
  BY <1>3, <1>6 DEF CredentialsStayBounded, DisabledIsLockedOut, SessionsFollowPassword,
     CeilingWithinGrants, OffspringDiesFirst, RotatedOnce
<1>7. CASE Body(q) \notin operations /\ q.kind = "CREATE_STAFF" /\ ApplyCreate(q)
  <2>1. /\ subjects[q.target].status = "NEW" /\ sessions' = sessions /\ tokens' = tokens
        /\ subjects'[q.target].status = "ACTIVE" /\ subjects'[q.target].password = subjects[q.target].password
        /\ \A u \in Subjects \ {q.target} : subjects'[u] = subjects[u] /\ grants'[u] = grants[u]
    BY <1>1, <1>2, <1>4, <1>7 DEF ApplyCreate, SubjectRows, Typed
  <2>2. /\ \A x \in Sessions : sessions[x].status = "LIVE" => sessions[x].subject \in Subjects \ {q.target}
        /\ \A t \in Tokens : tokens[t].status = "LIVE" => tokens[t].subject \in Subjects \ {q.target}
    BY <1>3, <2>1 DEF DisabledIsLockedOut, CredentialsFit
  <2> QED
    BY <1>3, <2>1, <2>2 DEF CredentialsStayBounded, DisabledIsLockedOut, SessionsFollowPassword,
       CeilingWithinGrants, OffspringDiesFirst, RotatedOnce
<1>8. CASE Body(q) \notin operations /\ q.kind = "DELETE_STAFF" /\ ApplyDelete(q)
  <2>1. /\ ~EverUsed(q.target) /\ sessions' = sessions /\ tokens' = tokens
        /\ \A u \in Subjects \ {q.target} : subjects'[u] = subjects[u] /\ grants'[u] = grants[u]
    BY <1>1, <1>2, <1>4, <1>8 DEF ApplyDelete, Typed
  <2>2. /\ \A x \in Sessions : sessions[x].status = "LIVE" => sessions[x].subject \in Subjects \ {q.target}
        /\ \A t \in Tokens : tokens[t].status = "LIVE" => tokens[t].subject \in Subjects \ {q.target}
    BY <2>1 DEF EverUsed, CredentialsFit
  <2> QED
    BY <1>3, <2>1, <2>2 DEF CredentialsStayBounded, DisabledIsLockedOut, SessionsFollowPassword,
       CeilingWithinGrants, OffspringDiesFirst, RotatedOnce
<1>9. CASE q.kind \in UpdateOps /\ ApplyUpdate(q)
  <2>1. /\ \A u \in Subjects \ {q.target} : subjects'[u] = subjects[u]
        /\ subjects'[q.target].status = (CASE q.kind = "DISABLE_STAFF" -> "DISABLED"
                                           [] q.kind = "ENABLE_STAFF"  -> "ACTIVE"
                                           [] OTHER -> subjects[q.target].status)
        /\ grants' = grants /\ sessions' = RevokeSessionsOf(q.target)
        /\ tokens' = IF q.kind = "DISABLE_STAFF" THEN RevokeTokensOf(q.target) ELSE tokens
    BY <1>1, <1>2, <1>9 DEF ApplyUpdate
  <2>2. \A x \in Sessions : sessions'[x].status = "LIVE" =>
          sessions'[x] = sessions[x] /\ sessions[x].subject \in Subjects \ {q.target}
    BY <1>2, <2>1 DEF RevokeSessionsOf, SessionRows, CredentialsFit
  <2>3. \A t \in Tokens :
          /\ tokens'[t].subject = tokens[t].subject /\ tokens'[t].commands = tokens[t].commands
          /\ tokens'[t].expires = tokens[t].expires
          /\ tokens'[t].from = tokens[t].from /\ tokens'[t].by = tokens[t].by
          /\ tokens'[t].status = "LIVE" =>
                /\ tokens[t].status = "LIVE"
                /\ q.kind = "DISABLE_STAFF" => tokens[t].subject # q.target
          /\ tokens[t].status = "REVOKED" => tokens'[t].status = "REVOKED"
    BY <1>2, <2>1 DEF RevokeTokensOf, TokenRows
  <2>4. \A t \in Tokens : tokens[t].status = "LIVE" => tokens[t].subject \in Subjects
    BY DEF CredentialsFit
  <2>5. DisabledIsLockedOut'
    <3>1. \A t \in Tokens : tokens'[t].status = "LIVE" => subjects'[tokens'[t].subject].status = "ACTIVE"
      BY <1>3, <2>1, <2>3, <2>4 DEF DisabledIsLockedOut
    <3> QED
      BY <1>3, <2>1, <2>2, <3>1 DEF DisabledIsLockedOut
  <2>6. SessionsFollowPassword'
    BY <1>3, <2>1, <2>2 DEF SessionsFollowPassword
  <2>7. CeilingWithinGrants'
    BY <1>3, <2>1, <2>3 DEF CeilingWithinGrants
  <2>8. OffspringDiesFirst'
    BY <1>3, <2>3 DEF OffspringDiesFirst
  <2>9. RotatedOnce'
    BY <1>2, <1>3, <2>3 DEF RotatedOnce, TokenRows
  <2> QED
    BY <2>5, <2>6, <2>7, <2>8, <2>9 DEF CredentialsStayBounded
<1> QED
  BY <1>5, <1>6, <1>7, <1>8, <1>9

LEMMA BoundsStep ==
    ASSUME Typed, CredentialsFit, RequestsFit, AuthorizedStillHolds, CredentialsStayBounded, Next
    PROVE  CredentialsStayBounded'
<1>0. /\ DisabledIsLockedOut /\ SessionsFollowPassword /\ CeilingWithinGrants
      /\ OffspringDiesFirst /\ RotatedOnce
  BY DEF CredentialsStayBounded
<1>1. ASSUME NEW r \in Requests, CommitLogin(r) PROVE CredentialsStayBounded'
  <2>1. /\ UNCHANGED <<subjects, grants, tokens>>
        /\ req[r].pc = "authorized" /\ req[r].kind = "LOGIN"
    BY <1>1 DEF CommitLogin, Authorized
  <2>2. /\ subjects[req[r].target].status = "ACTIVE"
        /\ subjects[req[r].target].password = req[r].password
    BY <2>1 DEF AuthorizedStillHolds, Permitted, LoginAllowed
  <2>3. PICK x \in Sessions :
          /\ sessions[x].status = "UNUSED"
          /\ sessions'[x] = [status |-> "LIVE", subject |-> req[r].target, password |-> req[r].password]
          /\ \A y \in Sessions \ {x} : sessions'[y] = sessions[y]
    BY <1>1, LoginOpens
  <2>4. DisabledIsLockedOut' /\ SessionsFollowPassword'
    BY <1>0, <2>1, <2>2, <2>3 DEF DisabledIsLockedOut, SessionsFollowPassword
  <2> QED
    BY <1>0, <2>1, <2>4 DEF CredentialsStayBounded, CeilingWithinGrants, OffspringDiesFirst, RotatedOnce
<1>2. ASSUME NEW x \in Sessions, Logout(x) PROVE CredentialsStayBounded'
  <2>1. /\ UNCHANGED <<subjects, grants, tokens>>
        /\ sessions' = [sessions EXCEPT ![x].status = "REVOKED"]
    BY <1>2 DEF Logout
  <2>2. \A y \in Sessions : sessions'[y].status = "LIVE" => sessions'[y] = sessions[y]
    BY <2>1 DEF Typed, SessionRows
  <2>3. DisabledIsLockedOut' /\ SessionsFollowPassword'
    BY <1>0, <2>1, <2>2 DEF DisabledIsLockedOut, SessionsFollowPassword
  <2> QED
    BY <1>0, <2>1, <2>3 DEF CredentialsStayBounded, CeilingWithinGrants, OffspringDiesFirst, RotatedOnce
<1>3. ASSUME NEW admins \in Manifests, Reconcile(admins) PROVE CredentialsStayBounded'
  <2>1. UNCHANGED <<subjects, sessions>>
    BY <1>3 DEF Reconcile
  <2>2. \A t \in Tokens :
          /\ tokens'[t].subject = tokens[t].subject /\ tokens'[t].expires = tokens[t].expires
          /\ tokens'[t].from = tokens[t].from /\ tokens'[t].by = tokens[t].by
          /\ tokens'[t].status = tokens[t].status
    BY <1>3 DEF Reconcile, Typed, TokenRows
  <2>3. CeilingWithinGrants'
    <3> DEFINE profiles == [s \in Subjects |-> IF ~Exists(s) THEN None
                                               ELSE IF s \in admins THEN "ADMIN" ELSE "STAFF"]
    <3>1. /\ grants' = [s \in Subjects |-> CommandProfile(profiles[s])]
          /\ tokens' = [t \in Tokens |-> [tokens[t] EXCEPT !.commands =
                          IF tokens[t].status = "UNUSED" THEN {}
                          ELSE @ \cap (CommandProfile(profiles[tokens[t].subject]) \ SessionOnly)]]
      BY <1>3 DEF Reconcile
    <3> HIDE DEF profiles
    <3>2. \A t \in Tokens : tokens[t].status = "LIVE" =>
            tokens'[t].commands = tokens[t].commands
                                    \cap (CommandProfile(profiles[tokens[t].subject]) \ SessionOnly)
      BY <3>1 DEF Typed, TokenRows
    <3> QED
      BY <2>2, <3>1, <3>2 DEF CeilingWithinGrants, CredentialsFit
  <2>4. DisabledIsLockedOut' /\ SessionsFollowPassword'
    BY <1>0, <2>1, <2>2 DEF DisabledIsLockedOut, SessionsFollowPassword
  <2>5. OffspringDiesFirst'
    BY <1>0, <2>2 DEF OffspringDiesFirst
  <2>6. RotatedOnce'
    BY <1>0, <2>2 DEF RotatedOnce, Typed, TokenRows
  <2> QED
    BY <2>3, <2>4, <2>5, <2>6 DEF CredentialsStayBounded
<1>4. ASSUME UNCHANGED <<subjects, grants, sessions, tokens>> PROVE CredentialsStayBounded'
  BY <1>0, <1>4 DEF CredentialsStayBounded, DisabledIsLockedOut, SessionsFollowPassword,
     CeilingWithinGrants, OffspringDiesFirst, RotatedOnce
<1>5. ASSUME NEW r \in Requests, Begins(r) \/ Acquire(r) \/ Authorize(r) \/ EndsUnchanged(r) \/ CommitQuote(r)
      PROVE  CredentialsStayBounded'
  <2>1. UNCHANGED <<subjects, grants, sessions, tokens>>
    BY <1>5, HowRequestsBegin DEF StartsWell, Start, Acquire, Authorize, EndsUnchanged, Deny, Abort,
       CommitCommand, CommitQuote, data
  <2> QED
    BY <1>4, <2>1
<1>6. CASE Tick \/ MigrateQueue \/ MigrateApply \/ \E s \in Subjects : ExpireQuote(s)
  BY <1>4, <1>6 DEF Tick, MigrateQueue, MigrateApply, ExpireQuote, data
<1> QED
  BY <1>1, <1>2, <1>3, <1>5, <1>6, TokenCommandKeepsBounds, ManagementKeepsBounds, StepsGrouped
     DEF Aside, Ends, Commits

-----------------------------------------------------------------------------
(* Nobody waits in a circle. *)
LEMMA GreatestRank ==
    ASSUME NEW N \in Nat, NEW S \in SUBSET (0 .. N), S # {}
    PROVE  \E x \in S : \A y \in S : y <= x
<1> DEFINE Less == {p \in Nat \X Nat : p[1] < p[2]}
           T == {d \in 0 .. N : N - d \in S}
<1>1. IsWellFoundedOn(Less, Nat)
  BY NatLessThanWellFounded DEF OpToRel
<1>2. T \in SUBSET Nat
  OBVIOUS
<1>3. \A x \in S : N - x \in T
  OBVIOUS
<1> HIDE DEF Less, T
<1>4. T # {}
  BY <1>3
<1>5. PICK d \in T : \A e \in T : ~(<<e, d>> \in Less)
  BY <1>1, <1>2, <1>4, WFMin, Zenon
<1>6. \A e \in T : d <= e
  <2>1. \A p, q \in Nat : ~(<<q, p>> \in Less) => p <= q
    BY DEF Less
  <2> QED
    BY <1>2, <1>5, <2>1
<1>7. N - d \in S /\ d \in 0 .. N
  BY <1>5 DEF T
<1>8. ASSUME NEW y \in S PROVE y <= N - d
  <2>1. d <= N - y /\ y \in Nat /\ d \in Nat
    BY <1>3, <1>6, <1>7
  <2> QED
    BY <2>1
<1> QED
  BY <1>7, <1>8

(* The wanted row of whoever waits comes after every row it holds, so of    *)
(* those who wait for each other the one that wants the last row waits for  *)
(* nobody.                                                                  *)
LEMMA WaitingIsOrdered ==
    ASSUME LocksTaken
    PROVE  NoCircularWait
<1> SUFFICES ASSUME NEW group \in SUBSET Requests, group # {}
             PROVE  \E r \in group : \A h \in group \ {r} : ~Waits(r, h)
  BY DEF NoCircularWait
<1> SUFFICES ASSUME \A r \in group : \E h \in group \ {r} : Waits(r, h)
             PROVE  FALSE
  OBVIOUS
<1> DEFINE W == {n \in 0 .. Len(IdOrder) : \E u \in group : \E w \in need[u] : NextLock(u, w) /\ Rank(w.row) = n}
<1>1. \A r \in group : req[r].pc = "locking" /\ \E l \in need[r] : NextLock(r, l)
  BY DEF Waits
<1>2. Len(IdOrder) \in Nat
  BY IdsAssumption
<1>3. \A r \in group : \A l \in need[r] : NextLock(r, l) => Rank(l.row) \in W
  BY <1>1, RanksInOrder
<1>4. W # {}
  BY <1>1, <1>3
<1>5. PICK n \in W : \A m \in W : m <= n
  <2> HIDE DEF W
  <2>1. W \in SUBSET (0 .. Len(IdOrder))
    BY DEF W
  <2> QED
    BY <1>2, <1>4, <2>1, GreatestRank
<1>6. PICK r \in group : \E w \in need[r] : NextLock(r, w) /\ Rank(w.row) = n
  BY <1>5
<1>6a. PICK w \in need[r] : NextLock(r, w) /\ Rank(w.row) = n
  BY <1>6
<1>7. PICK h \in group : \E l \in need[r], k \in locks :
        NextLock(r, l) /\ k[1] = h /\ Conflict(k, r, l)
  BY DEF Waits
<1>7a. PICK l \in need[r], k \in locks : NextLock(r, l) /\ k[1] = h /\ Conflict(k, r, l)
  BY <1>7
<1>8. Rank(l.row) = n
  <2>1. Rank(l.row) <= Rank(w.row) /\ Rank(w.row) <= Rank(l.row)
    BY <1>6a, <1>7a DEF NextLock
  <2>2. Rank(l.row) \in Nat /\ Rank(w.row) \in Nat
    BY <1>2, RanksInOrder
  <2> QED
    BY <1>6a, <2>1, <2>2
<1>9. PICK m \in need[h] : NextLock(h, m)
  BY <1>1, <1>7
<1>10. Rank(l.row) < Rank(m.row)
  <2>1. k[2] = l.row /\ k[1] = h
    BY <1>7a DEF Conflict
  <2>2. req[h].pc # "idle"
    BY <1>1, <1>7
  <2> QED
    BY <1>7a, <1>9, <2>1, <2>2 DEF LocksTaken
<1>11. Rank(m.row) \in W
  BY <1>3, <1>7, <1>9
<1> QED
  BY <1>2, <1>5, <1>8, <1>10, <1>11, RanksInOrder

-----------------------------------------------------------------------------
(* The invariant. *)
LEMMA AccessInit == Init => AccessInv
<1> SUFFICES ASSUME Init PROVE AccessInv
  OBVIOUS
<1>1. \A r \in Requests : req[r] = Idle /\ need[r] = {}
  BY DEF Init
<1>2. \A s \in Subjects : profile[s] \in {"ADMIN", "STAFF", None}
  BY DEF Init
<1>3. \A p : CommandProfile(p) \subseteq administratorCommandGrants
  BY DEF CommandProfile, ordinaryStaffCommandGrants, administratorCommandGrants
<1>4. /\ \A x \in DOMAIN SeedSessions : SeedSessions[x] \in SeedAdmins \cup SeedStaff
      /\ \A t \in DOMAIN SeedTokens : SeedTokens[t] \in SeedAdmins \cup SeedStaff
      /\ SeedAdmins \cup SeedStaff \subseteq Subjects
  BY SeedsAssumption
<1>5. \A x \in Sessions : /\ sessions[x] \in SessionRows /\ sessions[x].password = 0
                          /\ sessions[x].status # "UNUSED" => sessions[x].subject \in SeedAdmins \cup SeedStaff
  BY <1>4 DEF Init, SessionRows, Statuses
<1>6. \A t \in Tokens : /\ tokens[t] \in TokenRows
                        /\ tokens[t].from = None /\ tokens[t].by = None
                        /\ tokens[t].status # "UNUSED" =>
                              /\ tokens[t].subject \in SeedAdmins \cup SeedStaff
                              /\ tokens[t].commands = CommandProfile(profile[tokens[t].subject]) \ SessionOnly
  <2> SUFFICES ASSUME NEW t \in Tokens
               PROVE  /\ tokens[t] \in TokenRows
                      /\ tokens[t].from = None /\ tokens[t].by = None
                      /\ tokens[t].status # "UNUSED" =>
                            /\ tokens[t].subject \in SeedAdmins \cup SeedStaff
                            /\ tokens[t].commands = CommandProfile(profile[tokens[t].subject]) \ SessionOnly
    OBVIOUS
  <2>1. CASE t \in DOMAIN SeedTokens
    <3>1. tokens[t] = [status |-> "LIVE", subject |-> SeedTokens[t], expires |-> Horizon, from |-> None, by |-> None,
                       commands |-> CommandProfile(profile[SeedTokens[t]]) \ SessionOnly]
      BY <2>1 DEF Init
    <3> QED
      BY <2>1, <3>1, <1>3, <1>4, SeedsAssumption DEF TokenRows, Statuses
  <2>2. CASE t \notin DOMAIN SeedTokens
    <3>1. tokens[t] = [status |-> "UNUSED", subject |-> None, expires |-> 0, from |-> None, by |-> None,
                       commands |-> {}]
      BY <2>2 DEF Init
    <3> QED
      BY <3>1 DEF TokenRows, Statuses
  <2> QED
    BY <2>1, <2>2
<1>7. \A s \in Subjects : /\ subjects[s] \in SubjectRows /\ subjects[s].password = 0
                          /\ s \in SeedAdmins \cup SeedStaff => subjects[s].status = "ACTIVE"
                          /\ grants[s] = CommandProfile(profile[s])
                          /\ quotes[s] = 0
  BY DEF Init, SubjectRows
<1>8. Idle \in Asked /\ Idle.pc = "idle" /\ Idle.kind = "idle" /\ Idle.cred = None
  BY DEF Idle, Asked, Bases
<1>9. Typed
  <2>1. subjects \in [Subjects -> SubjectRows]
    BY <1>7 DEF Init
  <2>2. sessions \in [Sessions -> SessionRows]
    BY <1>5 DEF Init
  <2>3. tokens \in [Tokens -> TokenRows]
    BY <1>6 DEF Init
  <2>4. req \in [Requests -> Asked]
    BY <1>8 DEF Init
  <2>5. grants \in [Subjects -> SUBSET administratorCommandGrants]
    BY <1>3 DEF Init
  <2> QED
    BY <2>1, <2>2, <2>3, <2>4, <2>5 DEF Init, Typed
<1>10. CredentialsFit
  BY <1>4, <1>5, <1>6, IdsAssumption DEF CredentialsFit, Ids
<1>11. RequestsFit
  BY <1>1, <1>8 DEF RequestsFit, RequestFits, Kinds, PlainTypes, ManagementOps, UpdateOps, lifecycleTypes, SessionOnly
<1>12. LocksTaken /\ LocksApart
  BY <1>1, <1>8 DEF Init, LocksTaken, LocksApart
<1>13. EpochHeld
  BY <1>1, <1>8 DEF EpochHeld, UsesEpoch
<1>14. QuotesCounted /\ AuthorizedStillHolds
  BY <1>1, <1>8 DEF QuotesCounted, AuthorizedStillHolds
<1>15. QuotaHolds
  BY <1>7, SeedsAssumption DEF QuotaHolds
<1>16. CredentialsStayBounded
  <2>1. DisabledIsLockedOut
    BY <1>4, <1>5, <1>6, <1>7 DEF DisabledIsLockedOut
  <2>2. SessionsFollowPassword
    BY <1>4, <1>5, <1>7 DEF SessionsFollowPassword
  <2>3. CeilingWithinGrants
    BY <1>4, <1>6, <1>7 DEF CeilingWithinGrants
  <2>4. OffspringDiesFirst /\ RotatedOnce
    BY <1>6, IdsAssumption DEF OffspringDiesFirst, RotatedOnce, Ids
  <2> QED
    BY <2>1, <2>2, <2>3, <2>4 DEF CredentialsStayBounded
<1> QED
  BY <1>9, <1>10, <1>11, <1>12, <1>13, <1>14, <1>15, <1>16 DEF AccessInv

LEMMA AccessStep == AccessInv /\ [Next]_vars => AccessInv'
<1> SUFFICES ASSUME AccessInv, [Next]_vars PROVE AccessInv'
  OBVIOUS
<1>1. CASE Next
  <2> USE <1>1 DEF AccessInv
  <2>1. Typed'
    BY TypesStep
  <2>2. CredentialsFit'
    BY CredentialsStep
  <2>3. RequestsFit'
    BY RequestsStep
  <2>4. LocksTaken' /\ LocksApart'
    BY LocksStep
  <2>5. EpochHeld'
    BY EpochStep
  <2>6. QuotesCounted' /\ QuotaHolds'
    BY QuotesStep
  <2>7. AuthorizedStillHolds'
    BY AuthorizedStep
  <2>8. CredentialsStayBounded'
    BY BoundsStep
  <2> QED
    BY <2>1, <2>2, <2>3, <2>4, <2>5, <2>6, <2>7, <2>8
<1>2. CASE UNCHANGED vars
  <2> USE <1>2 DEF vars
  <2>1. Typed' /\ CredentialsFit'
    BY DEF AccessInv, Typed, CredentialsFit
  <2>2. RequestsFit'
    BY DEF AccessInv, RequestsFit, RequestFits, Issued
  <2>3. LocksTaken' /\ LocksApart'
    <3>1. \A r \in Requests : LocksOf(req[r])' = LocksOf(req[r])
      BY DEF LocksOf, LoginLocks, ManagementLocks, CommandLocks, lockRoomCatalog, Each, Owner
    <3> QED
      BY <3>1 DEF AccessInv, LocksTaken, LocksApart
  <2>4. EpochHeld' /\ QuotesCounted' /\ QuotaHolds'
    BY DEF AccessInv, EpochHeld, UsesEpoch, QuotesCounted, QuotaHolds, Owner
  <2>5. AuthorizedStillHolds'
    <3> SUFFICES ASSUME NEW r \in Requests, req'[r].pc = "authorized"
                 PROVE  Permitted(req[r])' /\ (UsesEpoch(req[r])' => req'[r].epoch = epoch')
      BY DEF AuthorizedStillHolds
    <3>1. IssuedStay
      BY DEF IssuedStay
    <3>2. Undisturbed(r) /\ SameRequest(r)
      BY DEF Undisturbed, SameRequest, EverUsed
    <3>3. Permitted(req[r])'
      BY <3>1, <3>2, StillPermitted DEF AccessInv, AuthorizedStillHolds
    <3>4. UsesEpoch(req[r])' => req'[r].epoch = epoch'
      BY DEF AccessInv, EpochHeld, UsesEpoch
    <3> QED
      BY <3>3, <3>4
  <2>6. CredentialsStayBounded'
    BY DEF AccessInv, CredentialsStayBounded, DisabledIsLockedOut, SessionsFollowPassword,
       CeilingWithinGrants, OffspringDiesFirst, RotatedOnce
  <2> QED
    BY <2>1, <2>2, <2>3, <2>4, <2>5, <2>6 DEF AccessInv
<1> QED
  BY <1>1, <1>2

(* In every reachable state each request holds the locks its kind takes, in *)
(* their order, what was decided under them is still right, and the tables  *)
(* of sessions, tokens and grants fit together.                             *)
THEOREM AccessInvariant == Spec => []AccessInv
<1>1. Init => AccessInv
  BY AccessInit
<1>2. AccessInv /\ [Next]_vars => AccessInv'
  BY AccessStep
<1> QED
  BY <1>1, <1>2, PTL DEF Spec

(* The row locks of command-authorization.ts, auth.ts and                   *)
(* qintopia_manage_account are enough for what is decided under them, for   *)
(* any number of requests, and are taken in an order that never deadlocks.  *)
THEOREM LocksAreEnough == Spec => []LocksSuffice
<1>1. AccessInv => LocksSuffice
  BY WaitingIsOrdered DEF AccessInv, LocksSuffice
<1> QED
  BY <1>1, AccessInvariant, PTL

(* No sequence of sign-ins, issues, rotations, password changes, disablings *)
(* and new profiles leaves a session or token that reaches further than its *)
(* account, its grants or the token it came from.                           *)
THEOREM CredentialsNeverExceed == Spec => []CredentialsStayBounded
<1>1. AccessInv => CredentialsStayBounded
  BY DEF AccessInv
<1> QED
  BY <1>1, AccessInvariant, PTL

=============================================================================
