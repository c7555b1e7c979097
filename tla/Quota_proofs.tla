----------------------------- MODULE Quota_proofs -----------------------------
(***************************************************************************)
(* Proofs about Quota, for any users, rules, limits, usage and number of   *)
(* requests in progress.                                                   *)
(***************************************************************************)
EXTENDS Quota, TLAPS

(***************************************************************************)
(* A rule follows the quotas (out: the accounts whose quota is used up).   *)
(***************************************************************************)
Follows(r, row, out) ==
  /\ row.status = "quota_exhausted" =>
       \/ row.source = "user" /\ OwnerOf[r] \in out
       \/ row.source = "tenant" /\ OwnerOf[r] \in Members /\ Tenant \in out
  /\ row.status = "active" =>
       OwnerOf[r] \notin out /\ (OwnerOf[r] \in Members => Tenant \notin out)
RulesFollow == \A r \in Rules \ crossed : Follows(r, rule[r], Exhausted)

(***************************************************************************)
(* A tenant is blocked just when its quota is used up.                     *)
(***************************************************************************)
Consistent(row) == row.blocked <=> row.limit > 0 /\ row.used >= row.limit

(***************************************************************************)
(* What a request makes of the rules, when they are as in old.             *)
(***************************************************************************)
UserAfter(old, j) ==
  IF UserExhausted(j.row)
    THEN Stop(old, {j.user}, "user")
    ELSE Restore(old, j.restore, IF Tenant \in j.stopped THEN Rules ELSE {}, "tenant")
TenantAfter(old, j) ==
  IF j.tenantRow.blocked
    THEN Stop(Restore(old, j.restore, RulesOf(j.stopped), "user"), Members, "tenant")
    ELSE Restore(old, j.restore, RulesOf(j.stopped), "user")
ReportedAfter(old, j) ==
  IF UserExhausted(j.row)
    THEN Stop(IF j.user \in Members THEN TenantAfter(old, j) ELSE old, {j.user}, "user")
    ELSE IF j.user \in Members THEN TenantAfter(old, j) ELSE old
SavedAfter(old, j) ==
  [TenantAfter(old, j) EXCEPT ![j.rule] =
     [status |-> IF j.kind = "resume" THEN "active" ELSE "paused", source |-> ""]]
After(old, j) ==
  CASE j.kind \in {"user", "reset user"} -> UserAfter(old, j)
    [] j.kind \in {"tenant", "reset tenant"} -> TenantAfter(old, j)
    [] j.kind = "report" -> ReportedAfter(old, j)
    [] j.kind \in {"resume", "pause"} -> SavedAfter(old, j)

(***************************************************************************)
(* Once a request has its locks, what it will make of the accounts was     *)
(* read under them.  The row of a profile save may be older; a report adds *)
(* its byte to the rows as they are, and a write of a rule changes the     *)
(* tenant only when it rolls its period.                                   *)
(***************************************************************************)
LockedUser(j) ==
  /\ j.user \in j.locks /\ j.restore \subseteq RulesOf({j.user})
  /\ j.kind = "reset user" => j.row.used = 0
LockedTenant(j) ==
  /\ Tenant \in j.locks /\ Consistent(j.tenantRow) /\ j.restore \subseteq RulesOf(Members)
  /\ j.kind = "reset tenant" => j.tenantRow.used = 0
LockedReport(j) ==
  /\ j.locks = WithTenant(j.user)
  /\ j.row.used = user[j.user].used + 1 /\ j.row.limit = user[j.user].limit
  /\ j.rolled => j.user \in Members
  /\ j.user \in Members =>
       /\ j.tenantRow.limit = tenant.limit /\ Consistent(j.tenantRow)
       /\ j.tenantRow.used = IF j.rolled THEN 1 ELSE tenant.used + 1
       /\ j.restore \subseteq RulesOf(Members)
LockedRule(j) ==
  /\ j.tenantRow.blocked = FALSE
  /\ ~j.rolled => j.restore = {}
  /\ j.rolled => j.user \in Members
  /\ j.user \in Members =>
       /\ Tenant \in j.locks
       /\ j.tenantRow.limit = tenant.limit /\ Consistent(j.tenantRow)
       /\ j.tenantRow.used = IF j.rolled THEN 0 ELSE tenant.used
       /\ j.restore \subseteq RulesOf(Members)
Locked(j) ==
  /\ j.kind \in {"user", "reset user"} => LockedUser(j)
  /\ j.kind \in {"tenant", "reset tenant"} => LockedTenant(j)
  /\ j.kind = "report" => LockedReport(j)
  /\ j.kind \in {"resume", "pause"} => LockedRule(j)

(***************************************************************************)
(* Whose rows a request is about, and what it has not done before.         *)
(***************************************************************************)
Owned(j) ==
  /\ j.kind \in {"user", "reset user"} => j.user \in Users
  /\ j.kind \in {"report", "resume", "pause"} => j.rule \in Rules /\ j.user = OwnerOf[j.rule]
Blank(j) ==
  j.restore = {} /\ (j.kind \in {"resume", "pause"} => j.tenantRow.blocked = FALSE)

(***************************************************************************)
(* A rule that has been written holds what the request would make of it    *)
(* still, for nobody else can have written it since.                       *)
(***************************************************************************)
Wrote(j) ==
  j.stage = "written" =>
    \A r \in Rules :
      /\ j.writes[r] # None => j.writes[r] = After(rule, j)[r]
      /\ r \in j.restore \cup {j.rule} => j.writes[r] # None

(***************************************************************************)
(* No account and no rule is held by two requests.                         *)
(***************************************************************************)
Alone == \A h, k \in Busy : h # k => job[h].locks \cap job[k].locks = {}
RowsAlone == \A h, k \in Busy : h # k => Written(job[h]) \cap Written(job[k]) = {}

PlannedJob(j) ==
  /\ Owned(j)
  /\ IF j.stage = "read" THEN Blank(j) ELSE Locked(j)
Planned == \A h \in Busy : PlannedJob(job[h]) /\ Wrote(job[h])

IInv ==
  /\ TypeOK /\ Consistent(tenant)
  /\ Alone /\ RowsAlone /\ Planned
  /\ RulesFollow /\ UsageKept

-----------------------------------------------------------------------------
(* Accounts and rows *)

\* Who is out of quota.
LEMMA ExhaustedAt ==
  /\ \A u \in Users : u \in Exhausted <=> UserExhausted(user[u])
  /\ Tenant \in Exhausted <=> TenantExhausted(tenant)
BY QuotaConstants DEF Exhausted

LEMMA ExhaustedNext ==
  /\ \A u \in Users : u \in Exhausted' <=> UserExhausted(user'[u])
  /\ Tenant \in Exhausted' <=> TenantExhausted(tenant')
BY QuotaConstants DEF Exhausted

LEMMA LocksOf ==
  ASSUME NEW u \in Users
  PROVE  /\ u \in WithTenant(u) /\ WithTenant(u) \subseteq Accounts
         /\ u \in Members <=> Tenant \in WithTenant(u)
         /\ u \in Accounts /\ u # Tenant
BY QuotaConstants DEF WithTenant, Accounts

\* Rows of the rules, one by one.
LEMMA RowTypes ==
  ASSUME NEW source \in {"user", "tenant"}
  PROVE  /\ StoppedRow(source) \in RuleRow
         /\ StoppedRow(source).status = "quota_exhausted" /\ StoppedRow(source).source = source
         /\ \A row \in RuleRow : row.status = "quota_exhausted" /\ row.source = source
              => row = StoppedRow(source)
         /\ \A status \in Status :
              /\ [status |-> status, source |-> ""] \in RuleRow
              /\ [status |-> status, source |-> ""].status = status
<1>1. StoppedRow(source) \in RuleRow
  BY DEF StoppedRow, RuleRow, Status
<1>2. StoppedRow(source).status = "quota_exhausted" /\ StoppedRow(source).source = source
  BY DEF StoppedRow
<1>3. ASSUME NEW row \in RuleRow, row.status = "quota_exhausted", row.source = source
      PROVE  row = StoppedRow(source)
  <2>1. PICK status \in Status, from \in {"", "user", "tenant"} :
          row = [status |-> status, source |-> from]
    BY DEF RuleRow
  <2>2. status = "quota_exhausted" /\ from = source
    BY <1>3, <2>1
  <2>3. QED BY <2>1, <2>2 DEF StoppedRow
<1>4. \A status \in Status :
        /\ [status |-> status, source |-> ""] \in RuleRow
        /\ [status |-> status, source |-> ""].status = status
  BY DEF RuleRow
<1>5. QED BY <1>1, <1>2, <1>3, <1>4

LEMMA StopAt ==
  ASSUME NEW old \in [Rules -> RuleRow], NEW S, NEW source \in {"user", "tenant"}
  PROVE  /\ Stop(old, S, source) \in [Rules -> RuleRow]
         /\ \A r \in Rules :
              /\ OwnerOf[r] \in S /\ old[r].status \notin {"paused", "quota_exhausted"}
                   => Stop(old, S, source)[r] = StoppedRow(source)
              /\ ~(OwnerOf[r] \in S /\ old[r].status \notin {"paused", "quota_exhausted"})
                   => Stop(old, S, source)[r] = old[r]
BY RowTypes DEF Stop

LEMMA RestoreAt ==
  ASSUME NEW old \in [Rules -> RuleRow], NEW restore, NEW out,
         NEW source \in {"user", "tenant"}
  PROVE  /\ Restore(old, restore, out, source) \in [Rules -> RuleRow]
         /\ \A r \in Rules :
              /\ r \notin restore => Restore(old, restore, out, source)[r] = old[r]
              /\ r \in restore /\ r \in out
                   => Restore(old, restore, out, source)[r] = StoppedRow(source)
              /\ r \in restore /\ r \notin out
                   => Restore(old, restore, out, source)[r].status = "active"
<1> DEFINE active == [status |-> "active", source |-> ""]
<1>1. active \in RuleRow /\ active.status = "active"
  BY DEF RuleRow, Status
<1>2. \A r \in Rules :
        /\ r \notin restore => Restore(old, restore, out, source)[r] = old[r]
        /\ r \in restore /\ r \in out
             => Restore(old, restore, out, source)[r] = StoppedRow(source)
        /\ r \in restore /\ r \notin out
             => Restore(old, restore, out, source)[r] = active
  BY DEF Restore
<1> HIDE DEF active
<1>3. \A r \in Rules : Restore(old, restore, out, source)[r] \in RuleRow
  BY <1>1, <1>2, RowTypes
<1>4. Restore(old, restore, out, source) \in [Rules -> RuleRow]
  BY <1>3 DEF Restore
<1>5. QED BY <1>1, <1>2, <1>4

-----------------------------------------------------------------------------
(* What a request makes of each rule *)

Kinds == {"user", "reset user", "tenant", "reset tenant", "report", "resume", "pause"}

LEMMA TenantAfterAgrees ==
  ASSUME NEW j
  PROVE  TenantRules(j) = TenantAfter(rule, j)
BY DEF TenantRules, TenantAfter

\* What becomes of each rule depends on that rule alone.
LEMMA StopOne ==
  ASSUME NEW f, NEW g, NEW S, NEW source, NEW r \in Rules, f[r] = g[r]
  PROVE  Stop(f, S, source)[r] = Stop(g, S, source)[r]
BY DEF Stop

LEMMA RestoreOne ==
  ASSUME NEW f, NEW g, NEW restore, NEW out, NEW source, NEW r \in Rules, f[r] = g[r]
  PROVE  Restore(f, restore, out, source)[r] = Restore(g, restore, out, source)[r]
BY DEF Restore

LEMMA TenantAfterType ==
  ASSUME NEW f \in [Rules -> RuleRow], NEW j
  PROVE  TenantAfter(f, j) \in [Rules -> RuleRow]
<1> DEFINE mid == Restore(f, j.restore, RulesOf(j.stopped), "user")
<1>1. "user" \in {"user", "tenant"} /\ "tenant" \in {"user", "tenant"}
  OBVIOUS
<1>2. mid \in [Rules -> RuleRow]
  BY <1>1, RestoreAt
<1>3. TenantAfter(f, j) = IF j.tenantRow.blocked THEN Stop(mid, Members, "tenant") ELSE mid
  BY DEF TenantAfter
<1> HIDE DEF mid
<1>4. Stop(mid, Members, "tenant") \in [Rules -> RuleRow]
  BY <1>1, <1>2, StopAt
<1>5. QED BY <1>2, <1>3, <1>4

LEMMA TenantAfterOne ==
  ASSUME NEW f, NEW g, NEW j, NEW r \in Rules, f[r] = g[r]
  PROVE  TenantAfter(f, j)[r] = TenantAfter(g, j)[r]
<1> DEFINE F == Restore(f, j.restore, RulesOf(j.stopped), "user")
           G == Restore(g, j.restore, RulesOf(j.stopped), "user")
<1>1. F[r] = G[r]
  BY RestoreOne
<1>2. /\ TenantAfter(f, j) = IF j.tenantRow.blocked THEN Stop(F, Members, "tenant") ELSE F
      /\ TenantAfter(g, j) = IF j.tenantRow.blocked THEN Stop(G, Members, "tenant") ELSE G
  BY DEF TenantAfter
<1> HIDE DEF F, G
<1>3. Stop(F, Members, "tenant")[r] = Stop(G, Members, "tenant")[r]
  BY <1>1, StopOne
<1>4. QED BY <1>1, <1>2, <1>3

LEMMA AfterAgrees ==
  ASSUME NEW j
  PROVE  RulesAfter(j) = After(rule, j)
<1>1. UserRules(j) = UserAfter(rule, j)
  BY DEF UserRules, UserAfter
<1>2. TenantRules(j) = TenantAfter(rule, j)
  BY TenantAfterAgrees
<1>3. ReportedRules(j) = ReportedAfter(rule, j)
  BY <1>2 DEF ReportedRules, ReportedAfter
<1>4. SavedRules(j) = SavedAfter(rule, j)
  BY <1>2 DEF SavedRules, SavedAfter
<1>5. QED BY <1>1, <1>2, <1>3, <1>4 DEF RulesAfter, After

LEMMA AfterType ==
  ASSUME NEW f \in [Rules -> RuleRow], NEW j, j.kind \in Kinds
  PROVE  After(f, j) \in [Rules -> RuleRow]
<1>1. "user" \in {"user", "tenant"} /\ "tenant" \in {"user", "tenant"}
  OBVIOUS
<1>2. TenantAfter(f, j) \in [Rules -> RuleRow]
  BY TenantAfterType
<1>3. UserAfter(f, j) \in [Rules -> RuleRow]
  <2> DEFINE out == IF Tenant \in j.stopped THEN Rules ELSE {}
  <2>1. Stop(f, {j.user}, "user") \in [Rules -> RuleRow]
    BY <1>1, StopAt
  <2>2. Restore(f, j.restore, out, "tenant") \in [Rules -> RuleRow]
    BY <1>1, RestoreAt
  <2>3. QED BY <2>1, <2>2 DEF UserAfter
<1>4. ReportedAfter(f, j) \in [Rules -> RuleRow]
  <2> DEFINE old == IF j.user \in Members THEN TenantAfter(f, j) ELSE f
  <2>1. old \in [Rules -> RuleRow]
    BY <1>2
  <2>2. ReportedAfter(f, j) = IF UserExhausted(j.row) THEN Stop(old, {j.user}, "user") ELSE old
    BY DEF ReportedAfter
  <2> HIDE DEF old
  <2>3. Stop(old, {j.user}, "user") \in [Rules -> RuleRow]
    BY <1>1, <2>1, StopAt
  <2>4. QED BY <2>1, <2>2, <2>3
<1>5. SavedAfter(f, j) \in [Rules -> RuleRow]
  <2> DEFINE new == [status |-> IF j.kind = "resume" THEN "active" ELSE "paused", source |-> ""]
  <2>1. new \in RuleRow
    BY DEF RuleRow, Status
  <2>2. SavedAfter(f, j) = [TenantAfter(f, j) EXCEPT ![j.rule] = new]
    BY DEF SavedAfter
  <2> HIDE DEF new
  <2>3. QED BY <1>2, <2>1, <2>2
<1>6. QED BY <1>2, <1>3, <1>4, <1>5 DEF After, Kinds

LEMMA AfterOne ==
  ASSUME NEW f \in [Rules -> RuleRow], NEW g \in [Rules -> RuleRow], NEW j, j.kind \in Kinds,
         NEW r \in Rules, f[r] = g[r]
  PROVE  After(f, j)[r] = After(g, j)[r]
<1>1. TenantAfter(f, j)[r] = TenantAfter(g, j)[r]
  BY TenantAfterOne
<1>2. UserAfter(f, j)[r] = UserAfter(g, j)[r]
  <2> DEFINE out == IF Tenant \in j.stopped THEN Rules ELSE {}
  <2>1. Stop(f, {j.user}, "user")[r] = Stop(g, {j.user}, "user")[r]
    BY StopOne
  <2>2. Restore(f, j.restore, out, "tenant")[r] = Restore(g, j.restore, out, "tenant")[r]
    BY RestoreOne
  <2>3. QED BY <2>1, <2>2 DEF UserAfter
<1>3. ReportedAfter(f, j)[r] = ReportedAfter(g, j)[r]
  <2> DEFINE F == IF j.user \in Members THEN TenantAfter(f, j) ELSE f
             G == IF j.user \in Members THEN TenantAfter(g, j) ELSE g
  <2>1. F[r] = G[r]
    BY <1>1
  <2>2. /\ ReportedAfter(f, j) = IF UserExhausted(j.row) THEN Stop(F, {j.user}, "user") ELSE F
        /\ ReportedAfter(g, j) = IF UserExhausted(j.row) THEN Stop(G, {j.user}, "user") ELSE G
    BY DEF ReportedAfter
  <2> HIDE DEF F, G
  <2>3. Stop(F, {j.user}, "user")[r] = Stop(G, {j.user}, "user")[r]
    BY <2>1, StopOne
  <2>4. QED BY <2>1, <2>2, <2>3
<1>4. SavedAfter(f, j)[r] = SavedAfter(g, j)[r]
  <2> DEFINE new == [status |-> IF j.kind = "resume" THEN "active" ELSE "paused", source |-> ""]
  <2>1. /\ SavedAfter(f, j) = [TenantAfter(f, j) EXCEPT ![j.rule] = new]
        /\ SavedAfter(g, j) = [TenantAfter(g, j) EXCEPT ![j.rule] = new]
    BY DEF SavedAfter
  <2>2. TenantAfter(f, j) \in [Rules -> RuleRow] /\ TenantAfter(g, j) \in [Rules -> RuleRow]
    BY TenantAfterType
  <2> HIDE DEF new
  <2>3. QED BY <1>1, <2>1, <2>2
<1>5. QED BY <1>1, <1>2, <1>3, <1>4 DEF After, Kinds

-----------------------------------------------------------------------------
(* Requests *)

LEMMA JobTypes ==
  ASSUME TypeOK
  PROVE  \A h \in Busy : h \in Handlers /\ job[h] \in Job /\ job[h] # None
BY DEF TypeOK, Busy

LEMMA JobFields ==
  ASSUME NEW j \in Job
  PROVE  /\ j.kind \in Kinds /\ j.row \in UserRow /\ j.tenantRow \in TenantRow
         /\ j.restore \subseteq Rules /\ j.locks \subseteq Accounts
         /\ j.writes \in [Rules -> RuleRow \cup {None}]
BY DEF Job, Kinds

LEMMA NewJobFacts ==
  ASSUME NEW kind \in Kinds, NEW u, u \in Users \/ u = None, NEW r, r \in Rules \/ r = None
  PROVE  /\ NewJob(kind, u, r) \in Job /\ NewJob(kind, u, r).kind = kind
         /\ NewJob(kind, u, r).user = u /\ NewJob(kind, u, r).rule = r
         /\ NewJob(kind, u, r).stage = "read"
         /\ NewJob(kind, u, r).locks = {} /\ NewJob(kind, u, r).restore = {}
BY DEF NewJob, Job, Kinds, UserRow, TenantRow, NoTenantRow

LEMMA NewJobIsBlank ==
  ASSUME NEW kind, NEW u, NEW r
  PROVE  /\ NewJob(kind, u, r).tenantRow.blocked = FALSE
         /\ \A q \in Rules : NewJob(kind, u, r).writes[q] = None
BY DEF NewJob, NoTenantRow

LEMMA NewJobWritesNothing ==
  ASSUME NEW kind, NEW u, NEW r
  PROVE  \A q \in Rules : NewJob(kind, u, r).writes[q] = None
BY NewJobIsBlank

\* Jobs that differ in how far they have come only.
Alike(p, q) ==
  /\ p.kind = q.kind /\ p.rolled = q.rolled /\ p.user = q.user /\ p.rule = q.rule
  /\ p.row = q.row /\ p.tenantRow = q.tenantRow /\ p.locks = q.locks
  /\ p.restore = q.restore /\ p.stopped = q.stopped

LEMMA AlikeAfter ==
  ASSUME NEW f, NEW p, NEW q, Alike(p, q)
  PROVE  After(f, p) = After(f, q)
<1>1. TenantAfter(f, p) = TenantAfter(f, q)
  BY DEF TenantAfter, Alike
<1>2. UserAfter(f, p) = UserAfter(f, q)
  BY DEF UserAfter, Alike
<1>3. ReportedAfter(f, p) = ReportedAfter(f, q)
  BY <1>1 DEF ReportedAfter, Alike
<1>4. SavedAfter(f, p) = SavedAfter(f, q)
  BY <1>1 DEF SavedAfter, Alike
<1>5. QED BY <1>1, <1>2, <1>3, <1>4 DEF After, Alike

LEMMA AlikeLocked ==
  ASSUME NEW p, NEW q, Alike(p, q), Owned(p), Locked(p)
  PROVE  Owned(q) /\ Locked(q)
<1>1. Owned(q)
  BY DEF Owned, Alike
<1>2. p.kind \in {"user", "reset user"} => LockedUser(q)
  BY DEF Locked, LockedUser, Alike
<1>3. p.kind \in {"tenant", "reset tenant"} => LockedTenant(q)
  BY DEF Locked, LockedTenant, Alike
<1>4. p.kind = "report" => LockedReport(q)
  BY DEF Locked, LockedReport, Alike
<1>5. p.kind \in {"resume", "pause"} => LockedRule(q)
  BY DEF Locked, LockedRule, Alike
<1>6. QED BY <1>1, <1>2, <1>3, <1>4, <1>5 DEF Locked, Alike

\* Every rule a request restores or saves is written, and what is written is what the
\* request makes of the rule.
LEMMA WritingFacts ==
  ASSUME TypeOK, NEW j \in Job, NEW q, q = Writing(j)
  PROVE  q \in Job /\ Alike(j, q) /\ q.stage = "written" /\ Wrote(q)
<1> DEFINE after == RulesAfter(j)
           writes == [r \in Rules |->
                        IF r \in j.restore \cup {j.rule} \/ after[r] # rule[r]
                          THEN after[r] ELSE None]
<1>1. after = After(rule, j)
  BY AfterAgrees
<1>2. after \in [Rules -> RuleRow]
  BY <1>1, JobFields, AfterType DEF TypeOK
<1>3. q = [j EXCEPT !.stage = "written", !.writes = writes]
  BY DEF Writing
<1> HIDE DEF after
<1>4. writes \in [Rules -> RuleRow \cup {None}]
  BY <1>2
<1>5. \A r \in Rules : /\ writes[r] # None => writes[r] = after[r]
                       /\ r \in j.restore \cup {j.rule} => writes[r] # None
  BY <1>2, NoneIsNoRecord
<1> HIDE DEF writes
<1>6. /\ q \in Job /\ q.stage = "written" /\ q.writes = writes
      /\ Alike(j, q)
  BY <1>3, <1>4 DEF Job, Alike
<1>7. After(rule, q) = after /\ q.restore = j.restore /\ q.rule = j.rule
  BY <1>1, <1>6, AlikeAfter DEF Alike
<1>8. Wrote(q)
  BY <1>5, <1>6, <1>7 DEF Wrote
<1>9. QED BY <1>6, <1>8

LEMMA ListingFacts ==
  ASSUME TypeOK, NEW j \in Job, NEW q, q = Listing(j)
  PROVE  q \in Job /\ Alike(j, q) /\ q.stage # "read" /\ Wrote(q)
<1>1. CASE j.restore = {}
  BY <1>1, WritingFacts DEF Listing
<1>2. CASE j.restore # {}
  <2>1. q = [j EXCEPT !.stage = "listed"]
    BY <1>2 DEF Listing
  <2>2. q \in Job /\ Alike(j, q) /\ q.stage = "listed"
    BY <2>1 DEF Job, Alike
  <2>3. QED BY <2>2 DEF Wrote
<1>3. QED BY <1>1, <1>2

\* What a change of a user's row plans for the user's rules.
UserPlanned(j, row, p) ==
  /\ p \in Job /\ p.kind = j.kind /\ p.user = j.user /\ p.rule = j.rule /\ p.row = row
  /\ p.restore \subseteq RulesOf({j.user})

LEMMA UserPlanFacts ==
  ASSUME NEW j \in Job, NEW row \in UserRow, NEW p, p = UserPlan(j, row)
  PROVE  UserPlanned(j, row, p)
<1> DEFINE back == IF UserExhausted(row) THEN {} ELSE StoppedBy("user", {j.user})
           others == OthersOf(back, "user") \cap Exhausted
<1>1. back \subseteq RulesOf({j.user}) /\ RulesOf({j.user}) \subseteq Rules
  BY DEF StoppedBy, RulesOf
<1>2. others \subseteq Accounts
  BY DEF OthersOf, Accounts
<1>3. p = [j EXCEPT !.row = row, !.restore = back, !.stopped = others]
  BY DEF UserPlan
<1> HIDE DEF back, others
<1>4. /\ p \in Job /\ p.kind = j.kind /\ p.user = j.user /\ p.rule = j.rule
      /\ p.row = row /\ p.restore = back
  BY <1>1, <1>2, <1>3 DEF Job
<1>5. QED BY <1>1, <1>4 DEF UserPlanned

\* What a change of the tenant's row plans for the rules of its members.
LEMMA TenantPlanFacts ==
  ASSUME NEW j \in Job, NEW row \in TenantRow, NEW exhausted,
         NEW p, p = TenantPlan(j, row, exhausted)
  PROVE  /\ p \in Job /\ p.kind = j.kind /\ p.rolled = j.rolled /\ p.user = j.user
         /\ p.rule = j.rule /\ p.row = j.row /\ p.locks = j.locks
         /\ p.tenantRow.used = row.used /\ p.tenantRow.limit = row.limit
         /\ p.tenantRow \in TenantRow /\ Consistent(p.tenantRow)
         /\ p.restore \subseteq RulesOf(Members)
<1> DEFINE blocked == row.limit > 0 /\ row.used >= row.limit
           back == IF j.rolled \/ (row.blocked /\ ~blocked)
                     THEN StoppedBy("tenant", Members) ELSE {}
           others == OthersOf(back, "tenant") \cap exhausted
           next == [row EXCEPT !.blocked = blocked]
<1>1. back \subseteq RulesOf(Members) /\ RulesOf(Members) \subseteq Rules
  BY DEF StoppedBy, RulesOf
<1>2. others \subseteq Accounts
  BY <1>1, QuotaConstants DEF OthersOf, Accounts, RulesOf
<1>3. blocked \in BOOLEAN
  BY DEF TenantRow
<1>4. /\ next \in TenantRow /\ next.used = row.used /\ next.limit = row.limit
      /\ next.blocked = blocked
  BY <1>3 DEF TenantRow
<1>5. Consistent(next)
  BY <1>4 DEF Consistent
<1>6. p = [j EXCEPT !.tenantRow = next, !.restore = back, !.stopped = others]
  BY DEF TenantPlan
<1> HIDE DEF back, others, next, blocked
<1>7. back \subseteq Rules
  BY <1>1
<1>8. /\ p \in Job /\ p.kind = j.kind /\ p.rolled = j.rolled /\ p.user = j.user
      /\ p.rule = j.rule /\ p.row = j.row /\ p.locks = j.locks
      /\ p.tenantRow = next /\ p.restore = back
  BY <1>2, <1>4, <1>6, <1>7 DEF Job
<1>9. QED BY <1>1, <1>4, <1>5, <1>8

\* Unless a period ends nothing is restored for a tenant that is not blocked.
LEMMA PlainPlan ==
  ASSUME NEW j \in Job, j.rolled = FALSE, NEW row, row.blocked = FALSE, NEW exhausted,
         NEW p, p = TenantPlan(j, row, exhausted)
  PROVE  p.restore = {}
BY DEF TenantPlan, Job

\* The rolled row of a tenant.
LEMMA RolledFacts ==
  ASSUME TypeOK, Consistent(tenant), NEW due \in BOOLEAN
  PROVE  /\ Rolled(due) \in TenantRow /\ Consistent(Rolled(due))
         /\ Rolled(due).limit = tenant.limit
         /\ Rolled(due).used = IF due THEN 0 ELSE tenant.used
<1>1. tenant \in TenantRow /\ tenant.limit \in Nat
  BY DEF TypeOK, TenantRow
<1>2. CASE due
  <2>1. /\ Rolled(due) \in TenantRow /\ Rolled(due).limit = tenant.limit
        /\ Rolled(due).used = 0 /\ ~Rolled(due).blocked
    BY <1>1, <1>2 DEF Rolled, TenantRow
  <2>2. Consistent(Rolled(due))
    BY <1>1, <2>1 DEF Consistent
  <2>3. QED BY <1>2, <2>1, <2>2
<1>3. CASE ~due
  BY <1>1, <1>3 DEF Rolled
<1>4. QED BY <1>2, <1>3

-----------------------------------------------------------------------------
(* Steps that begin a request, or take it further, and steps that end one *)

LEMMA JobSet ==
  ASSUME TypeOK, NEW h \in Handlers, NEW j \in Job, job' = [job EXCEPT ![h] = j]
  PROVE  /\ job' \in [Handlers -> Job \cup {None}] /\ Busy' = Busy \cup {h} /\ job'[h] = j
         /\ \A k \in Busy \ {h} : job'[k] = job[k]
<1>1. /\ job' \in [Handlers -> Job \cup {None}] /\ job'[h] = j /\ j # None
      /\ \A k \in Handlers \ {h} : job'[k] = job[k]
  BY NoneIsNoRecord DEF TypeOK
<1>2. QED BY <1>1 DEF Busy

LEMMA JobEnds ==
  ASSUME TypeOK, NEW h \in Handlers, job' = [job EXCEPT ![h] = None]
  PROVE  /\ job' \in [Handlers -> Job \cup {None}] /\ Busy' = Busy \ {h} /\ job'[h] = None
         /\ \A k \in Busy' : k \in Busy /\ job'[k] = job[k]
<1>1. /\ job' \in [Handlers -> Job \cup {None}] /\ job'[h] = None
      /\ \A k \in Handlers \ {h} : job'[k] = job[k]
  BY DEF TypeOK
<1>2. QED BY <1>1 DEF Busy

\* What a request read under its locks, and what it has written, is still so while
\* nobody else writes there.
LEMMA PlannedKept ==
  ASSUME IInv, NEW k \in Busy, job'[k] = job[k], rule' \in [Rules -> RuleRow],
         \A u \in Users : u \in job[k].locks => user'[u] = user[u],
         Tenant \in job[k].locks => tenant' = tenant,
         \A r \in Written(job[k]) : rule'[r] = rule[r]
  PROVE  (PlannedJob(job[k]) /\ Wrote(job[k]))'
<1>1. PlannedJob(job[k]) /\ Wrote(job[k]) /\ job[k] \in Job /\ TypeOK
  BY JobTypes DEF IInv, Planned
<1>2. Owned(job[k])'
  BY <1>1 DEF PlannedJob, Owned
<1>3. ASSUME job[k].stage = "read" PROVE Blank(job[k])'
  BY <1>1, <1>3 DEF PlannedJob, Blank
<1>4. ASSUME job[k].stage # "read" PROVE Locked(job[k])'
  <2>1. Locked(job[k]) /\ Owned(job[k])
    BY <1>1, <1>4 DEF PlannedJob
  <2>2. job[k].kind \in {"user", "reset user"} => LockedUser(job[k])'
    BY <2>1 DEF Locked, LockedUser
  <2>3. job[k].kind \in {"tenant", "reset tenant"} => LockedTenant(job[k])'
    BY <2>1 DEF Locked, LockedTenant
  <2>4. ASSUME job[k].kind = "report" PROVE LockedReport(job[k])'
    <3>1. job[k].user \in Users /\ LockedReport(job[k])
      BY <2>1, <2>4, QuotaConstants DEF Owned, Locked
    <3>2. job[k].locks = WithTenant(job[k].user)
      BY <3>1 DEF LockedReport
    <3>3. /\ user'[job[k].user] = user[job[k].user]
          /\ job[k].user \in Members => tenant' = tenant
      BY <3>1, <3>2, LocksOf
    <3>4. QED BY <3>1, <3>3 DEF LockedReport
  <2>5. ASSUME job[k].kind \in {"resume", "pause"} PROVE LockedRule(job[k])'
    BY <2>1, <2>5 DEF Locked, LockedRule
  <2>6. QED BY <2>2, <2>3, <2>4, <2>5 DEF Locked
<1>5. Wrote(job[k])'
  <2>1. SUFFICES ASSUME job[k].stage = "written", NEW r \in Rules
                 PROVE  /\ job[k].writes[r] # None =>
                             job[k].writes[r] = After(rule', job[k])[r]
                        /\ r \in job[k].restore \cup {job[k].rule} => job[k].writes[r] # None
    BY DEF Wrote
  <2>2. /\ job[k].writes[r] # None => job[k].writes[r] = After(rule, job[k])[r]
        /\ r \in job[k].restore \cup {job[k].rule} => job[k].writes[r] # None
    BY <1>1, <2>1 DEF Wrote
  <2>3. ASSUME job[k].writes[r] # None PROVE After(rule', job[k])[r] = After(rule, job[k])[r]
    <3>1. rule'[r] = rule[r] /\ rule \in [Rules -> RuleRow] /\ job[k].kind \in Kinds
      BY <1>1, <2>3, JobFields DEF Written, TypeOK
    <3>2. QED BY <3>1, AfterOne
  <2>4. QED BY <2>2, <2>3
<1>6. QED BY <1>2, <1>3, <1>4, <1>5 DEF PlannedJob

LEMMA StartKeeps ==
  ASSUME IInv, UNCHANGED <<rows, history>>, NEW h \in Handlers, NEW j \in Job,
         job' = [job EXCEPT ![h] = j], PlannedJob(j), Wrote(j),
         \A k \in Busy \ {h} : job[k].locks \cap j.locks = {}, RulesFree(h, j)
  PROVE  IInv'
<1>1. /\ job' \in [Handlers -> Job \cup {None}] /\ Busy' = Busy \cup {h} /\ job'[h] = j
      /\ \A k \in Busy \ {h} : job'[k] = job[k]
  BY JobSet DEF IInv
<1>2. UNCHANGED <<user, tenant, rule, counted, overwritten, crossed>>
  BY DEF rows, history
<1>3. TypeOK' /\ Consistent(tenant)'
  BY <1>1, <1>2 DEF IInv, TypeOK, Consistent
<1>4. Alone'
  BY <1>1 DEF IInv, Alone
<1>5. RowsAlone'
  BY <1>1 DEF IInv, RowsAlone, RulesFree, Written
<1>6. (PlannedJob(job[h]) /\ Wrote(job[h]))'
  <2>1. PlannedJob(job[h])'
    BY <1>1, <1>2 DEF PlannedJob, Owned, Blank, Locked, LockedUser, LockedTenant,
                      LockedReport, LockedRule
  <2>2. Wrote(job[h])'
    BY <1>1, <1>2 DEF Wrote
  <2>3. QED BY <2>1, <2>2
<1>7. ASSUME NEW k \in Busy \ {h} PROVE (PlannedJob(job[k]) /\ Wrote(job[k]))'
  BY <1>1, <1>2, <1>3, PlannedKept DEF TypeOK
<1>8. Planned'
  BY <1>1, <1>6, <1>7 DEF Planned
<1>9. RulesFollow' /\ UsageKept'
  <2>1. Exhausted' = Exhausted
    BY <1>2 DEF Exhausted
  <2>2. QED BY <1>2, <2>1 DEF IInv, RulesFollow, UsageKept
<1>10. QED BY <1>3, <1>4, <1>5, <1>8, <1>9 DEF IInv

\* A request has read what it reads without locks.
LEMMA ReadKeeps ==
  ASSUME IInv, UNCHANGED <<rows, history>>, NEW h \in Handlers, NEW j \in Job,
         job' = [job EXCEPT ![h] = j], Owned(j), Blank(j), j.stage = "read", j.locks = {},
         \A r \in Rules : j.writes[r] = None
  PROVE  IInv'
<1>1. PlannedJob(j) /\ Wrote(j)
  BY DEF PlannedJob, Wrote
<1>2. RulesFree(h, j)
  BY DEF RulesFree, Written
<1>3. QED BY <1>1, <1>2, StartKeeps

\* A request has its locks, and has listed or written its rules.
LEMMA ProceedKeeps ==
  ASSUME IInv, UNCHANGED <<rows, history>>, NEW h \in Handlers, NEW p \in Job,
         Owned(p), Locked(p), LocksFree(h, p.locks),
         NEW q, q = Listing(p) \/ q = Writing(p), Proceed(h, q)
  PROVE  IInv'
<1>1. TypeOK /\ RulesFree(h, q) /\ job' = [job EXCEPT ![h] = q]
  BY DEF IInv, Proceed
<1>2. q \in Job /\ Alike(p, q) /\ q.stage # "read" /\ Wrote(q)
  BY <1>1, ListingFacts, WritingFacts
<1>3. PlannedJob(q)
  BY <1>2, AlikeLocked DEF PlannedJob
<1>4. \A k \in Busy \ {h} : job[k].locks \cap q.locks = {}
  BY <1>2 DEF LocksFree, Alike
<1>5. QED BY <1>1, <1>2, <1>3, <1>4, StartKeeps

LEMMA EndKeeps ==
  ASSUME IInv, NEW h \in Handlers, job' = [job EXCEPT ![h] = None],
         rule' \in [Rules -> RuleRow],
         \A k \in Busy \ {h} :
           /\ \A u \in Users : u \in job[k].locks => user'[u] = user[u]
           /\ Tenant \in job[k].locks => tenant' = tenant
           /\ \A r \in Written(job[k]) : rule'[r] = rule[r]
  PROVE  job' \in [Handlers -> Job \cup {None}] /\ Alone' /\ RowsAlone' /\ Planned'
<1>1. /\ job' \in [Handlers -> Job \cup {None}] /\ Busy' = Busy \ {h}
      /\ \A k \in Busy' : k \in Busy /\ job'[k] = job[k]
  BY JobEnds DEF IInv
<1>2. Alone'
  BY <1>1 DEF IInv, Alone
<1>3. RowsAlone'
  BY <1>1 DEF IInv, RowsAlone, Written
<1>4. ASSUME NEW k \in Busy' PROVE (PlannedJob(job[k]) /\ Wrote(job[k]))'
  BY <1>1, PlannedKept
<1>5. QED BY <1>1, <1>2, <1>3, <1>4 DEF Planned

-----------------------------------------------------------------------------
(* Requests that begin, or take their locks *)

LEMMA ReadUserKeeps ==
  ASSUME IInv, NEW h \in Handlers, NEW u \in Users, ReadUser(h, u)
  PROVE  IInv'
<1> DEFINE n == NewJob("user", u, None)
           j == [n EXCEPT !.row = user[u]]
<1>0. "user" \in Kinds
  BY DEF Kinds
<1>1. /\ n \in Job /\ n.kind = "user" /\ n.user = u /\ n.locks = {} /\ n.restore = {}
      /\ n.stage = "read"
  BY <1>0, NewJobFacts
<1>a. \A q \in Rules : n.writes[q] = None
  BY NewJobWritesNothing
<1>2. user[u] \in UserRow
  BY DEF IInv, TypeOK
<1>3. job' = [job EXCEPT ![h] = j] /\ UNCHANGED <<rows, history>>
  BY DEF ReadUser
<1> HIDE DEF n
<1>4. /\ j \in Job /\ j.kind = "user" /\ j.user = u /\ j.locks = {} /\ j.restore = {}
      /\ j.stage = "read" /\ \A q \in Rules : j.writes[q] = None
  BY <1>1, <1>a, <1>2 DEF Job
<1> HIDE DEF j
<1>5. Owned(j) /\ Blank(j)
  BY <1>4 DEF Owned, Blank
<1>6. QED BY <1>3, <1>4, <1>5, ReadKeeps

LEMMA SaveUserKeeps ==
  ASSUME IInv, NEW h \in Handlers, NEW limit \in UserLimits, SaveUser(h, limit)
  PROVE  IInv'
<1> DEFINE old == job[h]
           row == [old.row EXCEPT !.limit = limit]
           locks == WithTenant(old.user)
           p == UserPlan(old, row)
           j == [p EXCEPT !.locks = locks]
<1>1. /\ h \in Busy /\ old.kind = "user" /\ LocksFree(h, locks)
      /\ Proceed(h, Listing(j)) /\ UNCHANGED <<rows, history>>
  BY DEF SaveUser
<1>2. old \in Job /\ PlannedJob(old)
  BY <1>1, JobTypes DEF IInv, Planned
<1>3. old.user \in Users
  BY <1>1, <1>2 DEF PlannedJob, Owned
<1> HIDE DEF old
<1>4. row \in UserRow
  <2>1. old.row \in UserRow
    BY <1>2 DEF Job
  <2>2. limit \in Nat
    BY QuotaConstants
  <2>3. QED BY <2>1, <2>2 DEF UserRow
<1>5. locks \in SUBSET Accounts /\ old.user \in locks
  BY <1>3, LocksOf
<1> HIDE DEF row
<1>6. p = UserPlan(old, row)
  OBVIOUS
<1> HIDE DEF p
<1>7. /\ p \in Job /\ p.kind = old.kind /\ p.user = old.user /\ p.row = row
      /\ p.restore \subseteq RulesOf({old.user})
  <2>1. UserPlanned(old, row, p)
    BY <1>2, <1>4, <1>6, UserPlanFacts
  <2>2. QED BY <2>1 DEF UserPlanned
<1>8. /\ j \in Job /\ j.kind = p.kind /\ j.user = p.user
      /\ j.locks = locks /\ j.restore = p.restore
  BY <1>5, <1>7 DEF Job
<1> HIDE DEF j
<1>9. Owned(j) /\ Locked(j)
  BY <1>1, <1>3, <1>5, <1>7, <1>8 DEF Owned, Locked, LockedUser
<1>10. LocksFree(h, j.locks)
  BY <1>1, <1>8
<1>11. QED BY <1>1, <1>8, <1>9, <1>10, ProceedKeeps

LEMMA ResetUserKeeps ==
  ASSUME IInv, NEW h \in Handlers, NEW u \in Users, ResetUser(h, u)
  PROVE  IInv'
<1> DEFINE kind == "reset user"
           n == NewJob(kind, u, None)
           row == AfterReset(user[u])
           locks == {u}
           p == UserPlan(n, row)
           j == [p EXCEPT !.locks = locks]
<1>0. kind \in Kinds
  BY DEF Kinds
<1>1. /\ LocksFree(h, locks) /\ Proceed(h, Listing(j)) /\ UNCHANGED <<rows, history>>
  BY DEF ResetUser
<1> HIDE DEF kind
<1>2. n \in Job /\ n.kind = kind /\ n.user = u /\ n.user \in Users
  BY <1>0, NewJobFacts
<1>3. row \in UserRow /\ row.used = 0
  BY DEF IInv, TypeOK, AfterReset, UserRow
<1>4. locks \in SUBSET Accounts
  BY DEF Accounts
<1> HIDE DEF n, row, locks
<1>5. p = UserPlan(n, row)
  OBVIOUS
<1> HIDE DEF p
<1>6. /\ p \in Job /\ p.kind = n.kind /\ p.user = n.user /\ p.row = row
      /\ p.restore \subseteq RulesOf({n.user})
  <2>1. UserPlanned(n, row, p)
    BY <1>2, <1>3, <1>5, UserPlanFacts
  <2>2. QED BY <2>1 DEF UserPlanned
<1>7. /\ j \in Job /\ j.kind = p.kind /\ j.user = p.user /\ j.row = p.row
      /\ j.locks = locks /\ j.restore = p.restore
  BY <1>4, <1>6 DEF Job
<1> HIDE DEF j
<1>8. Owned(j) /\ Locked(j)
  BY <1>2, <1>3, <1>6, <1>7 DEF Owned, Locked, LockedUser, kind, locks
<1>9. LocksFree(h, j.locks)
  BY <1>1, <1>7
<1>10. QED BY <1>1, <1>7, <1>8, <1>9, ProceedKeeps

LEMMA ReadTenantKeeps ==
  ASSUME IInv, NEW h \in Handlers, ReadTenant(h)
  PROVE  IInv'
<1> DEFINE n == NewJob("tenant", None, None)
           j == [n EXCEPT !.tenantRow = tenant]
<1>0. "tenant" \in Kinds
  BY DEF Kinds
<1>1. /\ n \in Job /\ n.kind = "tenant" /\ n.locks = {} /\ n.restore = {}
      /\ n.stage = "read"
  BY <1>0, NewJobFacts
<1>a. \A q \in Rules : n.writes[q] = None
  BY NewJobWritesNothing
<1>2. tenant \in TenantRow
  BY DEF IInv, TypeOK
<1>3. job' = [job EXCEPT ![h] = j] /\ UNCHANGED <<rows, history>>
  BY DEF ReadTenant
<1> HIDE DEF n
<1>4. /\ j \in Job /\ j.kind = "tenant" /\ j.locks = {} /\ j.restore = {}
      /\ j.stage = "read" /\ \A q \in Rules : j.writes[q] = None
  BY <1>1, <1>a, <1>2 DEF Job
<1> HIDE DEF j
<1>5. Owned(j) /\ Blank(j)
  BY <1>4 DEF Owned, Blank
<1>6. QED BY <1>3, <1>4, <1>5, ReadKeeps

LEMMA SaveTenantKeeps ==
  ASSUME IInv, NEW h \in Handlers, NEW limit \in TenantLimits, SaveTenant(h, limit)
  PROVE  IInv'
<1> DEFINE old == job[h]
           row == [old.tenantRow EXCEPT !.limit = limit]
           p == TenantPlan(old, row, Exhausted)
           j == [p EXCEPT !.locks = {Tenant}]
<1>1. /\ h \in Busy /\ old.kind = "tenant" /\ LocksFree(h, {Tenant})
      /\ Proceed(h, Listing(j)) /\ UNCHANGED <<rows, history>>
  BY DEF SaveTenant
<1>2. old \in Job
  BY <1>1, JobTypes DEF IInv
<1> HIDE DEF old
<1>3. row \in TenantRow
  <2>1. old.tenantRow \in TenantRow
    BY <1>2 DEF Job
  <2>2. limit \in Nat
    BY QuotaConstants
  <2>3. QED BY <2>1, <2>2 DEF TenantRow
<1> HIDE DEF row
<1>4. p = TenantPlan(old, row, Exhausted) /\ {Tenant} \in SUBSET Accounts
  BY DEF Accounts
<1> HIDE DEF p
<1>5. /\ p \in Job /\ p.kind = old.kind /\ Consistent(p.tenantRow)
      /\ p.restore \subseteq RulesOf(Members)
  BY <1>2, <1>3, <1>4, TenantPlanFacts
<1>6. /\ j \in Job /\ j.kind = p.kind /\ j.tenantRow = p.tenantRow
      /\ j.restore = p.restore /\ j.locks = {Tenant}
  BY <1>4, <1>5 DEF Job
<1> HIDE DEF j
<1>7. Owned(j) /\ Locked(j)
  BY <1>1, <1>5, <1>6 DEF Owned, Locked, LockedTenant
<1>8. LocksFree(h, j.locks)
  BY <1>1, <1>6
<1>9. QED BY <1>1, <1>6, <1>7, <1>8, ProceedKeeps

LEMMA ResetTenantKeeps ==
  ASSUME IInv, NEW h \in Handlers, ResetTenant(h)
  PROVE  IInv'
<1> DEFINE kind == "reset tenant"
           n == NewJob(kind, None, None)
           j == [n EXCEPT !.rolled = TRUE, !.locks = {Tenant}]
           row == Rolled(TRUE)
           p == TenantPlan(j, row, Exhausted)
<1>0. kind \in Kinds
  BY DEF Kinds
<1>1. LocksFree(h, {Tenant}) /\ Proceed(h, Listing(p)) /\ UNCHANGED <<rows, history>>
  BY DEF ResetTenant
<1> HIDE DEF kind
<1>2. n \in Job /\ n.kind = kind
  BY <1>0, NewJobFacts
<1>3. row \in TenantRow /\ row.used = 0
  BY RolledFacts DEF IInv
<1>4. {Tenant} \in SUBSET Accounts
  BY DEF Accounts
<1> HIDE DEF n, row
<1>5. j \in Job /\ j.kind = kind /\ j.locks = {Tenant}
  BY <1>2, <1>4 DEF Job
<1> HIDE DEF j
<1>6. p = TenantPlan(j, row, Exhausted)
  OBVIOUS
<1> HIDE DEF p
<1>7. /\ p \in Job /\ p.kind = kind /\ Consistent(p.tenantRow) /\ p.locks = {Tenant}
      /\ p.tenantRow.used = 0 /\ p.restore \subseteq RulesOf(Members)
  BY <1>3, <1>5, <1>6, TenantPlanFacts
<1>8. Owned(p) /\ Locked(p)
  BY <1>7 DEF Owned, Locked, LockedTenant, kind
<1>9. LocksFree(h, p.locks)
  BY <1>1, <1>7
<1>10. QED BY <1>1, <1>7, <1>8, <1>9, ProceedKeeps

LEMMA ReportKeeps ==
  ASSUME IInv, NEW h \in Handlers, NEW r \in Rules, NEW due \in BOOLEAN, Report(h, r, due)
  PROVE  IInv'
<1> DEFINE u == OwnerOf[r]
           n == NewJob("report", u, r)
           row == [user[u] EXCEPT !.used = @ + 1]
           j == [n EXCEPT !.rolled = due, !.row = row, !.locks = ReportLocks(u),
                          !.writes[r] = rule[r]]
           exhausted == (Exhausted \ {u}) \cup {v \in {u} : UserExhausted(row)}
           billed == [Rolled(due) EXCEPT !.used = @ + 1]
           p == TenantPlan(j, billed, exhausted)
           new == IF u \in Members THEN p ELSE j
<1>0. "report" \in Kinds /\ u \in Users
  BY QuotaConstants DEF Kinds
<1>1. /\ LocksFree(h, WithTenant(u)) /\ (due => u \in Members)
      /\ Proceed(h, Listing(new)) /\ UNCHANGED <<rows, history>>
  BY DEF Report
<1> HIDE DEF u
<1>2. /\ n \in Job /\ n.kind = "report" /\ n.user = u /\ n.rule = r
  BY <1>0, NewJobFacts
<1>3. row \in UserRow /\ row.used = user[u].used + 1 /\ row.limit = user[u].limit
  BY <1>0 DEF IInv, TypeOK, UserRow
<1>4. /\ Rolled(due) \in TenantRow /\ Rolled(due).limit = tenant.limit
      /\ Rolled(due).used = IF due THEN 0 ELSE tenant.used
  BY RolledFacts DEF IInv
<1>5. /\ billed \in TenantRow /\ billed.limit = tenant.limit
      /\ billed.used = IF due THEN 1 ELSE tenant.used + 1
  BY <1>4 DEF TenantRow, IInv, TypeOK
<1>6. WithTenant(u) \in SUBSET Accounts /\ rule[r] \in RuleRow
  BY <1>0, LocksOf DEF IInv, TypeOK
<1> HIDE DEF n, row, exhausted, billed
<1>7. /\ j \in Job /\ j.kind = "report" /\ j.user = u /\ j.rule = r /\ j.row = row
      /\ j.locks = WithTenant(u) /\ j.rolled = due
  BY <1>2, <1>3, <1>6 DEF Job, ReportLocks
<1> HIDE DEF j
<1>8. p = TenantPlan(j, billed, exhausted)
  OBVIOUS
<1> HIDE DEF p
<1>9. /\ p \in Job /\ p.kind = j.kind /\ p.user = j.user /\ p.rule = j.rule /\ p.row = j.row
      /\ p.locks = j.locks /\ p.rolled = j.rolled /\ p.tenantRow.used = billed.used
      /\ p.tenantRow.limit = billed.limit
      /\ Consistent(p.tenantRow) /\ p.restore \subseteq RulesOf(Members)
  BY <1>5, <1>7, <1>8, TenantPlanFacts
<1>10. /\ new \in Job /\ new.kind = "report" /\ new.user = u /\ new.rule = r /\ new.row = row
       /\ new.locks = WithTenant(u) /\ new.rolled = due
       /\ u \in Members => new = p
  BY <1>7, <1>9
<1> HIDE DEF new
<1>11. LockedReport(new)
  BY <1>1, <1>3, <1>5, <1>9, <1>10 DEF LockedReport
<1>12. Owned(new) /\ Locked(new)
  BY <1>10, <1>11 DEF Owned, Locked, u
<1>13. LocksFree(h, new.locks)
  BY <1>1, <1>10
<1>14. QED BY <1>1, <1>10, <1>12, <1>13, ProceedKeeps

LEMMA BeginRuleKeeps ==
  ASSUME IInv, NEW h \in Handlers, NEW kind \in {"resume", "pause"}, NEW r \in Rules,
         BeginRule(h, kind, r)
  PROVE  IInv'
<1> DEFINE j == NewJob(kind, OwnerOf[r], r)
<1>1. OwnerOf[r] \in Users /\ kind \in Kinds
  BY QuotaConstants DEF Kinds
<1>2. job' = [job EXCEPT ![h] = j] /\ UNCHANGED <<rows, history>>
  BY DEF BeginRule
<1>3. /\ j \in Job /\ j.kind = kind /\ j.user = OwnerOf[r] /\ j.rule = r /\ j.locks = {}
      /\ j.stage = "read" /\ j.restore = {}
  BY <1>1, NewJobFacts
<1>a. j.tenantRow.blocked = FALSE /\ \A q \in Rules : j.writes[q] = None
  BY NewJobIsBlank
<1> HIDE DEF j
<1>4. Owned(j) /\ Blank(j)
  BY <1>3, <1>a DEF Owned, Blank
<1>5. QED BY <1>2, <1>3, <1>a, <1>4, ReadKeeps

\* A consistent row is out of quota just when it is blocked.
LEMMA BlockedIsExhausted ==
  ASSUME NEW row \in TenantRow, Consistent(row)
  PROVE  TenantExhausted(row) <=> row.blocked = TRUE
BY DEF Consistent, TenantExhausted, TenantRow

LEMMA SaveRuleKeeps ==
  ASSUME IInv, NEW h \in Handlers, NEW due \in BOOLEAN, SaveRule(h, due)
  PROVE  IInv'
<1> DEFINE old == job[h]
           member == old.user \in Members
           locks == {a \in {Tenant} : member}
           j == [old EXCEPT !.rolled = due, !.locks = locks]
           row == Rolled(due)
           p == TenantPlan(j, row, Exhausted)
           new == IF member THEN p ELSE j
<1>1. /\ h \in Busy /\ old.kind \in {"resume", "pause"} /\ old.stage = "read"
      /\ (due => member) /\ UNCHANGED <<rows, history>>
      /\ LocksFree(h, j.locks) /\ (member => ~TenantExhausted(row))
      /\ Proceed(h, Listing(new))
  BY DEF SaveRule
<1>2. old \in Job /\ Owned(old) /\ Blank(old)
  BY <1>1, JobTypes DEF IInv, Planned, PlannedJob
<1>3. /\ row \in TenantRow /\ Consistent(row) /\ row.limit = tenant.limit
      /\ row.used = IF due THEN 0 ELSE tenant.used
  BY RolledFacts DEF IInv
<1>4. locks \in SUBSET Accounts /\ (member => Tenant \in locks)
  BY DEF Accounts
<1> HIDE DEF old, row, locks
<1>5. /\ j \in Job /\ j.kind = old.kind /\ j.user = old.user /\ j.rule = old.rule
      /\ j.locks = locks /\ j.rolled = due /\ j.restore = {} /\ j.tenantRow.blocked = FALSE
  BY <1>1, <1>2, <1>4 DEF Job, Blank
<1> HIDE DEF j
<1>6. p = TenantPlan(j, row, Exhausted)
  OBVIOUS
<1> HIDE DEF p
<1>7. /\ p \in Job /\ p.kind = j.kind /\ p.user = j.user /\ p.rule = j.rule
      /\ p.locks = j.locks /\ p.rolled = j.rolled /\ p.tenantRow.used = row.used
      /\ p.tenantRow.limit = row.limit /\ p.tenantRow \in TenantRow
      /\ Consistent(p.tenantRow) /\ p.restore \subseteq RulesOf(Members)
  BY <1>3, <1>5, <1>6, TenantPlanFacts
<1>8. ASSUME member PROVE row.blocked = FALSE /\ p.tenantRow.blocked = FALSE
  <2>1. row.blocked = FALSE /\ ~(row.limit > 0 /\ row.used >= row.limit)
    BY <1>1, <1>3, <1>8 DEF TenantExhausted, TenantRow
  <2>2. ~(p.tenantRow.limit > 0 /\ p.tenantRow.used >= p.tenantRow.limit)
    BY <1>7, <2>1
  <2>3. p.tenantRow.blocked = FALSE
    BY <1>7, <2>2 DEF Consistent, TenantRow
  <2>4. QED BY <2>1, <2>3
<1>9. ASSUME member, ~due PROVE p.restore = {}
  BY <1>5, <1>6, <1>8, <1>9, PlainPlan
<1>10. LockedRule(new) /\ new \in Job /\ new.kind = old.kind /\ new.locks = j.locks
  <2>1. CASE member
    <3>1. new = p
      BY <2>1
    <3> HIDE DEF new
    <3>2. LockedRule(new)
      BY <1>3, <1>4, <1>5, <1>7, <1>8, <1>9, <2>1, <3>1 DEF LockedRule
    <3>3. QED BY <1>5, <1>7, <3>1, <3>2
  <2>2. CASE ~member
    <3>1. new = j /\ due = FALSE
      BY <1>1, <2>2
    <3> HIDE DEF new
    <3>2. LockedRule(new)
      BY <1>5, <2>2, <3>1 DEF LockedRule
    <3>3. QED BY <1>5, <3>1, <3>2
  <2>3. QED BY <2>1, <2>2
<1>11. new.user = old.user /\ new.rule = old.rule
  BY <1>5, <1>7
<1> HIDE DEF new
<1>12. Owned(new) /\ Locked(new)
  BY <1>1, <1>2, <1>10, <1>11 DEF Owned, Locked
<1>13. LocksFree(h, new.locks)
  BY <1>1, <1>10
<1>14. QED BY <1>1, <1>10, <1>12, <1>13, ProceedKeeps DEF Busy

LEMMA WriteRulesKeeps ==
  ASSUME IInv, NEW h \in Handlers, WriteRules(h)
  PROVE  IInv'
<1> DEFINE j == job[h]
<1>1. /\ h \in Busy /\ j.stage = "listed" /\ Proceed(h, Writing(j))
      /\ UNCHANGED <<rows, history>>
  BY DEF WriteRules
<1>2. j \in Job /\ Owned(j) /\ Locked(j)
  BY <1>1, JobTypes DEF IInv, Planned, PlannedJob
<1>3. LocksFree(h, j.locks)
  BY <1>1 DEF IInv, Alone, LocksFree
<1> HIDE DEF j
<1>4. QED BY <1>1, <1>2, <1>3, ProceedKeeps

-----------------------------------------------------------------------------
(* What becomes of a rule *)

\* A rule that a quota stopped follows the quotas while that one is used up.
LEMMA StoppedFollows ==
  ASSUME NEW r, NEW row, NEW out, NEW source \in {"user", "tenant"}, row = StoppedRow(source),
         source = "user" => OwnerOf[r] \in out,
         source = "tenant" => OwnerOf[r] \in Members /\ Tenant \in out
  PROVE  Follows(r, row, out)
BY RowTypes DEF Follows

\* The rules of a user who has quota left.
LEMMA UserRestored ==
  ASSUME TypeOK, NEW j \in Job, j.user \in Users, NEW r \in Rules,
         Follows(r, rule[r], Exhausted),
         j.restore \subseteq RulesOf({j.user}),
         r \notin Crossing(j.restore, "user", {j.user}, j.stopped),
         NEW next,
         next = Restore(rule, j.restore, IF Tenant \in j.stopped THEN Rules ELSE {}, "tenant"),
         NEW out, \A u \in Users \ {j.user} : (u \in out) = (u \in Exhausted),
         j.user \notin out, (Tenant \in out) = (Tenant \in Exhausted)
  PROVE  Follows(r, next[r], out)
<1>1. /\ rule \in [Rules -> RuleRow] /\ rule[r] \in RuleRow /\ OwnerOf[r] \in Users
      /\ "tenant" \in {"user", "tenant"}
  BY QuotaConstants DEF TypeOK
<1> DEFINE stopped == IF Tenant \in j.stopped THEN Rules ELSE {}
<1>2. /\ r \notin j.restore => next[r] = rule[r]
      /\ r \in j.restore /\ r \in stopped => next[r] = StoppedRow("tenant")
      /\ r \in j.restore /\ r \notin stopped => next[r].status = "active"
  BY <1>1, RestoreAt
<1>3. CASE r \in j.restore
  <2>1. OwnerOf[r] = j.user
    BY <1>3 DEF RulesOf
  <2>2. Tenant \in j.stopped <=> Tenant \in Exhausted /\ OwnerOf[r] \in Members
    BY <1>3 DEF Crossing
  <2>3. CASE Tenant \in j.stopped
    <3>1. next[r] = StoppedRow("tenant")
      BY <1>2, <1>3, <2>3
    <3>2. OwnerOf[r] \in Members /\ Tenant \in out
      BY <2>2, <2>3
    <3>3. QED BY <1>1, <3>1, <3>2, StoppedFollows
  <2>4. CASE Tenant \notin j.stopped
    <3>1. next[r].status = "active"
      BY <1>2, <1>3, <2>4
    <3>2. OwnerOf[r] \notin out /\ (OwnerOf[r] \in Members => Tenant \notin out)
      BY <2>1, <2>2, <2>4
    <3>3. QED BY <3>1, <3>2 DEF Follows
  <2>5. QED BY <2>3, <2>4
<1>4. CASE r \notin j.restore
  <2>1. next[r] = rule[r]
    BY <1>2, <1>4
  <2>2. CASE OwnerOf[r] = j.user
    <3>1. rule[r] # StoppedRow("user")
      BY <1>4, <2>2 DEF Crossing, StoppedBy, RulesOf
    <3>2. ~(rule[r].status = "quota_exhausted" /\ rule[r].source = "user")
      BY <1>1, <3>1, RowTypes
    <3>3. QED BY <2>1, <2>2, <3>2 DEF Follows
  <2>3. CASE OwnerOf[r] # j.user
    <3>1. (OwnerOf[r] \in out) = (OwnerOf[r] \in Exhausted)
      BY <1>1, <2>3
    <3>2. QED BY <2>1, <3>1 DEF Follows
  <2>4. QED BY <2>2, <2>3
<1>5. QED BY <1>3, <1>4

\* A user out of quota stops the rules that run.
LEMMA StopRules ==
  ASSUME NEW old \in [Rules -> RuleRow], NEW u \in Users, NEW r \in Rules, NEW before, NEW out,
         Follows(r, old[r], before), u \in out,
         \A v \in Users \ {u} : (v \in out) = (v \in before),
         (Tenant \in out) = (Tenant \in before)
  PROVE  Follows(r, Stop(old, {u}, "user")[r], out)
<1>1. /\ OwnerOf[r] \in {u} /\ old[r].status \notin {"paused", "quota_exhausted"}
           => Stop(old, {u}, "user")[r] = StoppedRow("user")
      /\ ~(OwnerOf[r] \in {u} /\ old[r].status \notin {"paused", "quota_exhausted"})
           => Stop(old, {u}, "user")[r] = old[r]
  BY StopAt
<1>2. OwnerOf[r] \in Users
  BY QuotaConstants
<1>3. CASE OwnerOf[r] = u /\ old[r].status \notin {"paused", "quota_exhausted"}
  <2>1. Stop(old, {u}, "user")[r] = StoppedRow("user") /\ OwnerOf[r] \in out
    BY <1>1, <1>3
  <2>2. QED BY <2>1, StoppedFollows
<1>4. CASE ~(OwnerOf[r] = u /\ old[r].status \notin {"paused", "quota_exhausted"})
  <2>1. Stop(old, {u}, "user")[r] = old[r]
    BY <1>1, <1>4
  <2>2. QED BY <1>2, <1>4, <2>1 DEF Follows
<1>5. QED BY <1>3, <1>4

\* The rules of the members of a tenant whose row is written.
LEMMA MemberRules ==
  ASSUME TypeOK, NEW j \in Job, NEW r \in Rules, Follows(r, rule[r], Exhausted),
         j.restore \subseteq RulesOf(Members),
         \/ j.restore = {} /\ (j.tenantRow.blocked \/ Tenant \notin Exhausted)
         \/ r \notin Crossing(j.restore, "tenant", Members, j.stopped),
         NEW out, \A u \in Users : (u \in out) = (u \in Exhausted),
         (Tenant \in out) = j.tenantRow.blocked
  PROVE  Follows(r, TenantRules(j)[r], out)
<1>1. /\ rule \in [Rules -> RuleRow] /\ rule[r] \in RuleRow /\ OwnerOf[r] \in Users
      /\ "tenant" \in {"user", "tenant"} /\ "user" \in {"user", "tenant"}
      /\ j.tenantRow.blocked \in BOOLEAN
  BY QuotaConstants DEF TypeOK, Job, TenantRow
<1> DEFINE mid == Restore(rule, j.restore, RulesOf(j.stopped), "user")
<1>2. /\ mid \in [Rules -> RuleRow]
      /\ r \notin j.restore => mid[r] = rule[r]
      /\ r \in j.restore /\ r \in RulesOf(j.stopped) => mid[r] = StoppedRow("user")
      /\ r \in j.restore /\ r \notin RulesOf(j.stopped) => mid[r].status = "active"
  BY <1>1, RestoreAt
<1>3. TenantRules(j) = IF j.tenantRow.blocked THEN Stop(mid, Members, "tenant") ELSE mid
  BY DEF TenantRules
<1> HIDE DEF mid
<1> DEFINE end == Stop(mid, Members, "tenant")
<1>4. /\ OwnerOf[r] \in Members /\ mid[r].status \notin {"paused", "quota_exhausted"}
           => end[r] = StoppedRow("tenant")
      /\ ~(OwnerOf[r] \in Members /\ mid[r].status \notin {"paused", "quota_exhausted"})
           => end[r] = mid[r]
  BY <1>1, <1>2, StopAt
<1> HIDE DEF end
<1>5. /\ mid[r].status = "quota_exhausted" =>
           \/ mid[r].source = "user" /\ OwnerOf[r] \in out
           \/ mid[r].source = "tenant" /\ OwnerOf[r] \in Members /\ Tenant \in out
      /\ mid[r].status = "active" => OwnerOf[r] \notin out
  <2>1. CASE r \in j.restore
    <3>1. r \notin Crossing(j.restore, "tenant", Members, j.stopped) /\ OwnerOf[r] \in Members
      BY <2>1 DEF RulesOf
    <3>2. (OwnerOf[r] \in j.stopped) <=> (OwnerOf[r] \in Exhausted)
      BY <2>1, <3>1 DEF Crossing
    <3>3. r \in RulesOf(j.stopped) <=> OwnerOf[r] \in out
      BY <1>1, <3>2 DEF RulesOf
    <3>4. CASE r \in RulesOf(j.stopped)
      <4>1. mid[r] = StoppedRow("user")
        BY <1>2, <2>1, <3>4
      <4>2. mid[r].status = "quota_exhausted" /\ mid[r].source = "user"
        BY <1>1, <4>1, RowTypes
      <4>3. QED BY <3>3, <3>4, <4>2
    <3>5. CASE r \notin RulesOf(j.stopped)
      <4>1. mid[r].status = "active"
        BY <1>2, <2>1, <3>5
      <4>2. QED BY <3>3, <3>5, <4>1
    <3>6. QED BY <3>4, <3>5
  <2>2. CASE r \notin j.restore
    <3>1. mid[r] = rule[r]
      BY <1>2, <2>2
    <3>2. ASSUME rule[r].status = "quota_exhausted", rule[r].source = "tenant",
                 OwnerOf[r] \in Members
          PROVE  Tenant \in out
      <4>1. rule[r] = StoppedRow("tenant")
        BY <1>1, <3>2, RowTypes
      <4>2. Tenant \in Exhausted
        BY <3>2 DEF Follows
      <4>3. r \in StoppedBy("tenant", Members)
        BY <3>2, <4>1 DEF StoppedBy, RulesOf
      <4>4. QED BY <2>2, <4>2, <4>3 DEF Crossing
    <3>3. (OwnerOf[r] \in out) = (OwnerOf[r] \in Exhausted)
      BY <1>1
    <3>4. QED BY <3>1, <3>2, <3>3 DEF Follows
  <2>3. QED BY <2>1, <2>2
<1>6. CASE j.tenantRow.blocked
  <2>1. TenantRules(j)[r] = end[r] /\ Tenant \in out
    BY <1>3, <1>6 DEF end
  <2>2. CASE OwnerOf[r] \in Members /\ mid[r].status \notin {"paused", "quota_exhausted"}
    BY <1>1, <1>4, <2>1, <2>2, StoppedFollows
  <2>3. CASE ~(OwnerOf[r] \in Members /\ mid[r].status \notin {"paused", "quota_exhausted"})
    <3>1. TenantRules(j)[r] = mid[r] /\ (mid[r].status = "active" => OwnerOf[r] \notin Members)
      BY <1>4, <2>1, <2>3
    <3>2. QED BY <1>5, <3>1 DEF Follows
  <2>4. QED BY <2>2, <2>3
<1>7. CASE ~j.tenantRow.blocked
  <2>1. TenantRules(j)[r] = mid[r] /\ Tenant \notin out
    BY <1>3, <1>7
  <2>2. QED BY <1>5, <2>1 DEF Follows
<1>8. QED BY <1>6, <1>7

LEMMA TenantRulesType ==
  ASSUME TypeOK, NEW j
  PROVE  TenantRules(j) \in [Rules -> RuleRow]
BY TenantAfterAgrees, TenantAfterType DEF TypeOK

\* A rule that is stopped by a list of statuses, and was not: a violation.
LEMMA MissedRule ==
  ASSUME TypeOK, NEW j, NEW S, NEW r \in Rules, OwnerOf[r] \in S, j.writes[r] = None,
         r \notin Missed(j, S), rule[r].status \notin {"paused", "quota_exhausted"}
  PROVE  rule[r].status = "protocol_violation"
<1>1. rule[r].status \in Status
  BY DEF TypeOK, RuleRow
<1>2. rule[r].status # "active"
  BY DEF Missed, RulesOf, Written
<1>3. QED BY <1>1, <1>2 DEF Status

\* What is not written is what would not have changed, but for violations.
LEMMA TenantUnwritten ==
  ASSUME TypeOK, NEW j, NEW r \in Rules, r \notin j.restore, j.writes[r] = None,
         j.tenantRow.blocked => r \notin Missed(j, Members)
  PROVE  TenantRules(j)[r] = rule[r] \/ rule[r].status = "protocol_violation"
<1>1. rule \in [Rules -> RuleRow] /\ "user" \in {"user", "tenant"} /\ "tenant" \in {"user", "tenant"}
  BY DEF TypeOK
<1> DEFINE mid == Restore(rule, j.restore, RulesOf(j.stopped), "user")
<1>2. mid \in [Rules -> RuleRow] /\ mid[r] = rule[r]
  BY <1>1, RestoreAt
<1>3. TenantRules(j) = IF j.tenantRow.blocked THEN Stop(mid, Members, "tenant") ELSE mid
  BY DEF TenantRules
<1> HIDE DEF mid
<1>4. CASE OwnerOf[r] \in Members /\ rule[r].status \notin {"paused", "quota_exhausted"}
  BY <1>2, <1>3, <1>4, MissedRule
<1>5. CASE ~(OwnerOf[r] \in Members /\ rule[r].status \notin {"paused", "quota_exhausted"})
  <2>1. Stop(mid, Members, "tenant")[r] = mid[r]
    BY <1>1, <1>2, <1>5, StopAt
  <2>2. QED BY <1>2, <1>3, <2>1
<1>6. QED BY <1>4, <1>5

LEMMA Unwritten ==
  ASSUME NEW j, j.stage = "written", Wrote(j), NEW r \in Rules, j.writes[r] = None
  PROVE  r \notin j.restore /\ r # j.rule
BY DEF Wrote

LEMMA CommittedAt ==
  ASSUME NEW j, j.stage = "written", Wrote(j), NEW r \in Rules
  PROVE  /\ j.writes[r] = None => Committed(j)[r] = rule[r]
         /\ j.writes[r] # None => Committed(j)[r] = RulesAfter(j)[r]
<1>1. RulesAfter(j) = After(rule, j)
  BY AfterAgrees
<1>2. QED BY <1>1 DEF Wrote, Committed

\* What is committed follows the quotas when what the request makes of the rules does.
LEMMA CommittedFollows ==
  ASSUME NEW j, j.stage = "written", Wrote(j), NEW r \in Rules, NEW out,
         Follows(r, RulesAfter(j)[r], out),
         j.writes[r] = None =>
           RulesAfter(j)[r] = rule[r] \/ rule[r].status = "protocol_violation"
  PROVE  Follows(r, Committed(j)[r], out)
<1>1. CASE j.writes[r] # None
  BY <1>1, CommittedAt
<1>2. CASE j.writes[r] = None /\ RulesAfter(j)[r] = rule[r]
  BY <1>2, CommittedAt
<1>3. CASE j.writes[r] = None /\ rule[r].status = "protocol_violation"
  BY <1>3, CommittedAt DEF Follows
<1>4. QED BY <1>1, <1>2, <1>3

-----------------------------------------------------------------------------
(* Requests that commit *)

LEMMA CrossingRules ==
  ASSUME NEW restore, restore \subseteq Rules, NEW source, NEW S, NEW stopped
  PROVE  Crossing(restore, source, S, stopped) \subseteq Rules
BY DEF Crossing, StoppedBy, RulesOf

LEMMA MissedRules ==
  ASSUME NEW j, NEW S
  PROVE  Missed(j, S) \subseteq Rules
BY DEF Missed, RulesOf

LEMMA TenantCrossingRules ==
  ASSUME NEW j, j.restore \subseteq Rules
  PROVE  TenantCrossing(j) \subseteq Rules
<1>1. Crossing(j.restore, "tenant", Members, j.stopped) \subseteq Rules
  BY CrossingRules
<1>2. Missed(j, Members) \subseteq Rules
  BY MissedRules
<1>3. QED BY <1>1, <1>2 DEF TenantCrossing

\* A request that commits has its locks and has written its rules.
LEMMA Committing ==
  ASSUME IInv, NEW h \in Busy, job[h].stage = "written"
  PROVE  /\ h \in Handlers /\ job[h] \in Job /\ Owned(job[h]) /\ Locked(job[h])
         /\ Wrote(job[h]) /\ Committed(job[h]) \in [Rules -> RuleRow]
<1>1. /\ h \in Handlers /\ job[h] \in Job /\ Owned(job[h]) /\ Locked(job[h]) /\ Wrote(job[h])
  BY JobTypes DEF IInv, Planned, PlannedJob
<1>2. job[h].writes \in [Rules -> RuleRow \cup {None}] /\ rule \in [Rules -> RuleRow]
  BY <1>1, JobFields DEF IInv, TypeOK
<1>3. Committed(job[h]) \in [Rules -> RuleRow]
  BY <1>2 DEF Committed
<1>4. QED BY <1>1, <1>3

\* Nobody else holds what it has locked or written.
LEMMA CommitEnds ==
  ASSUME IInv, NEW h \in Busy, job[h].stage = "written", job' = [job EXCEPT ![h] = None],
         rule' = Committed(job[h]),
         \A u \in Users : user'[u] # user[u] => u \in job[h].locks,
         tenant' # tenant => Tenant \in job[h].locks
  PROVE  /\ job' \in [Handlers -> Job \cup {None}] /\ Alone' /\ RowsAlone' /\ Planned'
         /\ rule' \in [Rules -> RuleRow]
<1>1. h \in Handlers /\ rule' \in [Rules -> RuleRow]
  BY Committing
<1>2. ASSUME NEW k \in Busy \ {h}
      PROVE  /\ \A u \in Users : u \in job[k].locks => user'[u] = user[u]
             /\ Tenant \in job[k].locks => tenant' = tenant
             /\ \A r \in Written(job[k]) : rule'[r] = rule[r]
  <2>1. job[h].locks \cap job[k].locks = {} /\ Written(job[h]) \cap Written(job[k]) = {}
    BY <1>2 DEF IInv, Alone, RowsAlone
  <2>2. ASSUME NEW r \in Written(job[k]) PROVE rule'[r] = rule[r]
    BY <2>1, <2>2 DEF Written, Committed
  <2>3. QED BY <2>1, <2>2
<1>3. QED BY <1>1, <1>2, EndKeeps

LEMMA CommitUserTypes ==
  ASSUME IInv, NEW h \in Handlers, CommitUser(h)
  PROVE  /\ h \in Busy /\ job[h] \in Job /\ job[h].user \in Users /\ job[h].stage = "written"
         /\ Wrote(job[h]) /\ job[h].kind \in {"user", "reset user"}
         /\ job[h].restore \subseteq RulesOf({job[h].user})
         /\ job[h].user \in job[h].locks /\ job[h].row \in UserRow
         /\ job[h].kind = "reset user" => job[h].row.used = 0
         /\ user' \in [Users -> UserRow] /\ user'[job[h].user] = job[h].row
         /\ \A v \in Users \ {job[h].user} : user'[v] = user[v]
         /\ tenant' = tenant /\ rule' = Committed(job[h])
<1> DEFINE j == job[h]
           u == j.user
<1>1. /\ h \in Busy /\ j.kind \in {"user", "reset user"} /\ j.stage = "written"
      /\ user' = [user EXCEPT ![u] = j.row] /\ tenant' = tenant /\ rule' = Committed(j)
  BY DEF CommitUser
<1>2. j \in Job /\ Owned(j) /\ Locked(j) /\ Wrote(j)
  BY <1>1, Committing
<1> HIDE DEF j
<1>3. /\ u \in Users /\ j.restore \subseteq RulesOf({u}) /\ j.row \in UserRow
      /\ u \in j.locks /\ (j.kind = "reset user" => j.row.used = 0)
  BY <1>1, <1>2, JobFields DEF Owned, Locked, LockedUser
<1>4. /\ user' \in [Users -> UserRow] /\ user'[u] = j.row
      /\ \A v \in Users \ {u} : user'[v] = user[v]
  BY <1>1, <1>3 DEF IInv, TypeOK
<1>5. QED BY <1>1, <1>2, <1>3, <1>4 DEF j

LEMMA CommitUserRules ==
  ASSUME IInv, NEW h \in Handlers, CommitUser(h)
  PROVE  crossed' \subseteq Rules /\ RulesFollow'
<1> DEFINE j == job[h]
           u == j.user
           stopped == IF Tenant \in j.stopped THEN Rules ELSE {}
<1>1. /\ h \in Busy /\ j \in Job /\ u \in Users /\ j.restore \subseteq RulesOf({u})
      /\ user'[u] = j.row /\ tenant' = tenant /\ j.stage = "written" /\ Wrote(j)
      /\ j.kind \in {"user", "reset user"} /\ rule' = Committed(j)
      /\ \A v \in Users \ {u} : user'[v] = user[v]
  BY CommitUserTypes
<1>2. crossed' = crossed \cup UserCrossing(j)
  BY DEF CommitUser
<1>3. TypeOK /\ rule \in [Rules -> RuleRow] /\ crossed \subseteq Rules
  BY DEF IInv, TypeOK
<1> HIDE DEF j
<1>4. crossed' \subseteq Rules /\ crossed \subseteq crossed'
  <2>1. j.restore \subseteq Rules
    BY <1>1 DEF RulesOf
  <2>2. /\ Crossing(j.restore, "user", {u}, j.stopped) \subseteq Rules
        /\ Missed(j, {u}) \subseteq Rules
    BY <2>1, CrossingRules, MissedRules
  <2>3. QED BY <1>2, <1>3, <2>2 DEF UserCrossing
<1>5. /\ \A v \in Users \ {u} : (v \in Exhausted') = (v \in Exhausted)
      /\ (Tenant \in Exhausted') = (Tenant \in Exhausted)
      /\ u \in Exhausted' <=> UserExhausted(j.row)
  <2>1. /\ u \in Users /\ user'[u] = j.row /\ tenant' = tenant
        /\ \A v \in Users \ {u} : user'[v] = user[v]
    BY <1>1
  <2>2. QED BY <2>1, ExhaustedAt, ExhaustedNext
<1>6. RulesAfter(j) = IF UserExhausted(j.row) THEN Stop(rule, {u}, "user")
                                              ELSE Restore(rule, j.restore, stopped, "tenant")
  BY <1>1 DEF RulesAfter, UserRules
<1>7. ASSUME NEW r \in Rules, r \notin crossed' PROVE Follows(r, rule'[r], Exhausted')
  <2>1. Follows(r, rule[r], Exhausted)
    BY <1>4, <1>7 DEF IInv, RulesFollow
  <2>2. /\ Follows(r, RulesAfter(j)[r], Exhausted')
        /\ j.writes[r] = None =>
             RulesAfter(j)[r] = rule[r] \/ rule[r].status = "protocol_violation"
    <3>1. CASE UserExhausted(j.row)
      <4>1. RulesAfter(j) = Stop(rule, {u}, "user") /\ u \in Exhausted' /\ r \notin Missed(j, {u})
        BY <1>2, <1>5, <1>6, <1>7, <3>1 DEF UserCrossing
      <4>2. Follows(r, RulesAfter(j)[r], Exhausted')
        BY <1>1, <1>3, <1>5, <2>1, <4>1, StopRules
      <4>3. \/ OwnerOf[r] \in {u} /\ rule[r].status \notin {"paused", "quota_exhausted"}
            \/ RulesAfter(j)[r] = rule[r]
        <5>1. "user" \in {"user", "tenant"}
          OBVIOUS
        <5>2. QED BY <1>3, <4>1, <5>1, StopAt
      <4>4. QED BY <1>3, <4>1, <4>2, <4>3, MissedRule
    <3>2. CASE ~UserExhausted(j.row)
      <4>1. /\ RulesAfter(j) = Restore(rule, j.restore, stopped, "tenant")
            /\ u \notin Exhausted' /\ r \notin Crossing(j.restore, "user", {u}, j.stopped)
        BY <1>2, <1>5, <1>6, <1>7, <3>2 DEF UserCrossing
      <4>2. Follows(r, RulesAfter(j)[r], Exhausted')
        BY <1>1, <1>3, <1>5, <2>1, <4>1, UserRestored
      <4>3. ASSUME j.writes[r] = None PROVE RulesAfter(j)[r] = rule[r]
        <5>1. r \notin j.restore /\ "tenant" \in {"user", "tenant"}
          BY <1>1, <4>3, Unwritten
        <5>2. QED BY <1>3, <4>1, <5>1, RestoreAt
      <4>4. QED BY <4>2, <4>3
    <3>3. QED BY <3>1, <3>2
  <2>3. QED BY <1>1, <2>2, CommittedFollows
<1>8. RulesFollow'
  BY <1>7 DEF RulesFollow
<1>9. QED BY <1>4, <1>8

LEMMA CommitUserUsage ==
  ASSUME IInv, NEW h \in Handlers, CommitUser(h)
  PROVE  overwritten' \subseteq Accounts /\ counted' \in [Accounts -> Nat] /\ UsageKept'
<1> DEFINE j == job[h]
           u == j.user
<1>1. /\ u \in Users /\ (j.kind = "reset user" => j.row.used = 0)
      /\ user'[u] = j.row /\ tenant' = tenant
      /\ \A v \in Users \ {u} : user'[v] = user[v]
  BY CommitUserTypes
<1>2. /\ j.kind \in {"user", "reset user"}
      /\ overwritten' = CASE j.kind = "reset user" -> overwritten \ {u}
                          [] j.kind = "user" /\ j.row.used # user[u].used -> overwritten \cup {u}
                          [] OTHER -> overwritten
      /\ counted' = IF j.kind = "reset user" \/ u \in overwritten'
                      THEN [counted EXCEPT ![u] = 0] ELSE counted
  BY DEF CommitUser
<1>3. /\ overwritten \subseteq Accounts /\ counted \in [Accounts -> Nat] /\ UsageKept
      /\ u \in Accounts /\ u # Tenant /\ Users \subseteq Accounts /\ Tenant \in Accounts
      /\ Tenant \notin Users
  BY <1>1, LocksOf, QuotaConstants DEF IInv, TypeOK, Accounts
<1> HIDE DEF j, u
<1>4. overwritten' \subseteq Accounts /\ overwritten \ {u} \subseteq overwritten'
  BY <1>2, <1>3
<1>5. /\ counted' \in [Accounts -> Nat]
      /\ \A a \in Accounts \ {u} : counted'[a] = counted[a]
      /\ j.kind = "reset user" => counted'[u] = 0
      /\ u \notin overwritten' /\ j.kind # "reset user" => counted'[u] = counted[u]
  BY <1>2, <1>3
<1>6. ASSUME u \notin overwritten' PROVE user'[u].used = counted'[u]
  <2>1. CASE j.kind = "reset user"
    BY <1>1, <1>5, <2>1
  <2>2. CASE j.kind = "user"
    <3>1. u \notin overwritten /\ j.row.used = user[u].used
      BY <1>2, <1>6, <2>2
    <3>2. QED BY <1>1, <1>3, <1>5, <1>6, <2>2, <3>1 DEF UsageKept
  <2>3. QED BY <1>2, <2>1, <2>2
<1>7. ASSUME NEW v \in Users, v \notin overwritten', v # u PROVE user'[v].used = counted'[v]
  BY <1>1, <1>3, <1>4, <1>5, <1>7 DEF UsageKept
<1>8. ASSUME Tenant \notin overwritten' PROVE tenant'.used = counted'[Tenant]
  BY <1>1, <1>3, <1>4, <1>5, <1>8 DEF UsageKept
<1>9. UsageKept'
  BY <1>6, <1>7, <1>8 DEF UsageKept
<1>10. QED BY <1>4, <1>5, <1>9

LEMMA CommitUserKeeps ==
  ASSUME IInv, NEW h \in Handlers, CommitUser(h)
  PROVE  IInv'
<1>1. job' = [job EXCEPT ![h] = None]
  BY DEF CommitUser
<1>2. /\ h \in Busy /\ job[h].user \in job[h].locks /\ tenant' = tenant
      /\ \A v \in Users \ {job[h].user} : user'[v] = user[v]
      /\ user' \in [Users -> UserRow] /\ job[h].stage = "written" /\ rule' = Committed(job[h])
  BY CommitUserTypes
<1>3. /\ \A v \in Users : user'[v] # user[v] => v \in job[h].locks
      /\ tenant' # tenant => Tenant \in job[h].locks
  BY <1>2
<1>4. /\ job' \in [Handlers -> Job \cup {None}] /\ Alone' /\ RowsAlone' /\ Planned'
      /\ rule' \in [Rules -> RuleRow]
  BY <1>1, <1>2, <1>3, CommitEnds
<1>5. /\ overwritten' \subseteq Accounts /\ counted' \in [Accounts -> Nat] /\ UsageKept'
      /\ crossed' \subseteq Rules /\ RulesFollow'
  BY CommitUserUsage, CommitUserRules
<1>6. TypeOK'
  BY <1>2, <1>4, <1>5 DEF TypeOK, IInv
<1>7. Consistent(tenant)'
  BY <1>2 DEF Consistent, IInv
<1>8. QED BY <1>4, <1>5, <1>6, <1>7 DEF IInv

LEMMA CommitTenantTypes ==
  ASSUME IInv, NEW h \in Handlers, CommitTenant(h)
  PROVE  /\ h \in Busy /\ job[h] \in Job /\ Tenant \in job[h].locks
         /\ job[h].stage = "written" /\ Wrote(job[h])
         /\ job[h].kind \in {"tenant", "reset tenant"}
         /\ job[h].restore \subseteq RulesOf(Members)
         /\ job[h].tenantRow \in TenantRow /\ Consistent(job[h].tenantRow)
         /\ job[h].kind = "reset tenant" => job[h].tenantRow.used = 0
         /\ tenant' = job[h].tenantRow /\ user' = user /\ rule' = Committed(job[h])
<1> DEFINE j == job[h]
<1>1. /\ h \in Busy /\ j.kind \in {"tenant", "reset tenant"} /\ j.stage = "written"
      /\ tenant' = j.tenantRow /\ user' = user /\ rule' = Committed(j)
  BY DEF CommitTenant
<1>2. j \in Job /\ Locked(j) /\ Wrote(j)
  BY <1>1, Committing
<1> HIDE DEF j
<1>3. /\ Tenant \in j.locks /\ j.restore \subseteq RulesOf(Members)
      /\ j.tenantRow \in TenantRow /\ Consistent(j.tenantRow)
      /\ j.kind = "reset tenant" => j.tenantRow.used = 0
  BY <1>1, <1>2, JobFields DEF Locked, LockedTenant
<1>4. QED BY <1>1, <1>2, <1>3 DEF j

LEMMA CommitTenantRules ==
  ASSUME IInv, NEW h \in Handlers, CommitTenant(h)
  PROVE  crossed' \subseteq Rules /\ RulesFollow'
<1> DEFINE j == job[h]
<1>1. /\ j \in Job /\ j.restore \subseteq RulesOf(Members)
      /\ j.stage = "written" /\ Wrote(j) /\ j.kind \in {"tenant", "reset tenant"}
      /\ j.tenantRow \in TenantRow /\ Consistent(j.tenantRow)
      /\ tenant' = j.tenantRow /\ user' = user /\ rule' = Committed(j)
  BY CommitTenantTypes
<1>2. crossed' = crossed \cup TenantCrossing(j)
  BY DEF CommitTenant
<1>3. TypeOK /\ crossed \subseteq Rules
  BY DEF IInv, TypeOK
<1> HIDE DEF j
<1>4. crossed' \subseteq Rules /\ crossed \subseteq crossed'
  BY <1>1, <1>2, <1>3, TenantCrossingRules, JobFields
<1>5. /\ \A v \in Users : (v \in Exhausted') = (v \in Exhausted)
      /\ Tenant \in Exhausted' <=> j.tenantRow.blocked = TRUE
  <2>1. TenantExhausted(j.tenantRow) <=> j.tenantRow.blocked = TRUE
    BY <1>1, BlockedIsExhausted
  <2>2. tenant' = j.tenantRow /\ user' = user
    BY <1>1
  <2>3. QED BY <2>1, <2>2, ExhaustedAt, ExhaustedNext
<1>6. j.tenantRow.blocked \in BOOLEAN
  BY <1>1 DEF TenantRow
<1>7. RulesAfter(j) = TenantRules(j)
  BY <1>1 DEF RulesAfter
<1>8. ASSUME NEW r \in Rules, r \notin crossed' PROVE Follows(r, rule'[r], Exhausted')
  <2>1. Follows(r, rule[r], Exhausted) /\ r \notin TenantCrossing(j)
    BY <1>2, <1>4, <1>8 DEF IInv, RulesFollow
  <2>2. \/ j.restore = {} /\ (j.tenantRow.blocked \/ Tenant \notin Exhausted)
        \/ r \notin Crossing(j.restore, "tenant", Members, j.stopped)
    BY <2>1 DEF TenantCrossing
  <2>3. (Tenant \in Exhausted') = j.tenantRow.blocked
    BY <1>5, <1>6
  <2>4. Follows(r, TenantRules(j)[r], Exhausted')
    BY <1>1, <1>3, <1>5, <2>1, <2>2, <2>3, MemberRules
  <2>5. j.tenantRow.blocked => r \notin Missed(j, Members)
    BY <2>1 DEF TenantCrossing
  <2>6. j.writes[r] = None =>
          TenantRules(j)[r] = rule[r] \/ rule[r].status = "protocol_violation"
    BY <1>1, <1>3, <2>5, Unwritten, TenantUnwritten
  <2>7. QED BY <1>1, <1>7, <2>4, <2>6, CommittedFollows
<1>9. RulesFollow'
  BY <1>8 DEF RulesFollow
<1>10. QED BY <1>4, <1>9

LEMMA CommitTenantUsage ==
  ASSUME IInv, NEW h \in Handlers, CommitTenant(h)
  PROVE  overwritten' \subseteq Accounts /\ counted' \in [Accounts -> Nat] /\ UsageKept'
<1> DEFINE j == job[h]
<1>1. /\ j.kind = "reset tenant" => j.tenantRow.used = 0
      /\ tenant' = j.tenantRow /\ user' = user
  BY CommitTenantTypes
<1>2. /\ j.kind \in {"tenant", "reset tenant"}
      /\ overwritten' =
           CASE j.kind = "reset tenant" -> overwritten \ {Tenant}
             [] j.kind = "tenant" /\ j.tenantRow.used # tenant.used -> overwritten \cup {Tenant}
             [] OTHER -> overwritten
      /\ counted' = IF j.kind = "reset tenant" \/ Tenant \in overwritten'
                      THEN [counted EXCEPT ![Tenant] = 0] ELSE counted
  BY DEF CommitTenant
<1>3. /\ overwritten \subseteq Accounts /\ counted \in [Accounts -> Nat] /\ UsageKept
      /\ Users \subseteq Accounts /\ Tenant \in Accounts /\ Tenant \notin Users
  BY QuotaConstants DEF IInv, TypeOK, Accounts
<1> HIDE DEF j
<1>4. overwritten' \subseteq Accounts /\ overwritten \ {Tenant} \subseteq overwritten'
  BY <1>2, <1>3
<1>5. /\ counted' \in [Accounts -> Nat]
      /\ \A a \in Accounts \ {Tenant} : counted'[a] = counted[a]
      /\ j.kind = "reset tenant" => counted'[Tenant] = 0
      /\ Tenant \notin overwritten' /\ j.kind # "reset tenant"
           => counted'[Tenant] = counted[Tenant]
  BY <1>2, <1>3
<1>6. ASSUME Tenant \notin overwritten' PROVE tenant'.used = counted'[Tenant]
  <2>1. CASE j.kind = "reset tenant"
    BY <1>1, <1>5, <2>1
  <2>2. CASE j.kind = "tenant"
    <3>1. Tenant \notin overwritten /\ j.tenantRow.used = tenant.used
      BY <1>2, <1>6, <2>2
    <3>2. QED BY <1>1, <1>3, <1>5, <1>6, <2>2, <3>1 DEF UsageKept
  <2>3. QED BY <1>2, <2>1, <2>2
<1>7. ASSUME NEW v \in Users, v \notin overwritten' PROVE user'[v].used = counted'[v]
  BY <1>1, <1>3, <1>4, <1>5, <1>7 DEF UsageKept
<1>8. UsageKept'
  BY <1>6, <1>7 DEF UsageKept
<1>9. QED BY <1>4, <1>5, <1>8

LEMMA CommitTenantKeeps ==
  ASSUME IInv, NEW h \in Handlers, CommitTenant(h)
  PROVE  IInv'
<1>1. job' = [job EXCEPT ![h] = None]
  BY DEF CommitTenant
<1>2. /\ h \in Busy /\ Tenant \in job[h].locks /\ user' = user
      /\ tenant' \in TenantRow /\ Consistent(tenant')
      /\ job[h].stage = "written" /\ rule' = Committed(job[h])
  BY CommitTenantTypes
<1>3. /\ \A v \in Users : user'[v] # user[v] => v \in job[h].locks
      /\ tenant' # tenant => Tenant \in job[h].locks
  BY <1>2
<1>4. /\ job' \in [Handlers -> Job \cup {None}] /\ Alone' /\ RowsAlone' /\ Planned'
      /\ rule' \in [Rules -> RuleRow]
  BY <1>1, <1>2, <1>3, CommitEnds
<1>5. /\ overwritten' \subseteq Accounts /\ counted' \in [Accounts -> Nat] /\ UsageKept'
      /\ crossed' \subseteq Rules /\ RulesFollow'
  BY CommitTenantUsage, CommitTenantRules
<1>6. TypeOK'
  BY <1>2, <1>4, <1>5 DEF TypeOK, IInv
<1>7. Consistent(tenant)'
  BY <1>2 DEF Consistent
<1>8. QED BY <1>4, <1>5, <1>6, <1>7 DEF IInv

LEMMA CommitReportTypes ==
  ASSUME IInv, NEW h \in Handlers, CommitReport(h)
  PROVE  /\ h \in Busy /\ job[h] \in Job /\ job[h].kind = "report"
         /\ LockedReport(job[h]) /\ job[h].user \in Users
         /\ job[h].stage = "written" /\ Wrote(job[h]) /\ rule' = Committed(job[h])
         /\ job[h].row \in UserRow /\ job[h].tenantRow \in TenantRow
         /\ user' \in [Users -> UserRow] /\ user'[job[h].user] = job[h].row
         /\ \A v \in Users \ {job[h].user} : user'[v] = user[v]
         /\ tenant' = IF job[h].user \in Members THEN job[h].tenantRow ELSE tenant
<1> DEFINE j == job[h]
           u == j.user
<1>1. /\ h \in Busy /\ j.kind = "report" /\ j.stage = "written" /\ rule' = Committed(j)
      /\ user' = [user EXCEPT ![u] = j.row]
      /\ tenant' = IF u \in Members THEN j.tenantRow ELSE tenant
  BY DEF CommitReport
<1>2. j \in Job /\ Owned(j) /\ Locked(j) /\ Wrote(j)
  BY <1>1, Committing
<1> HIDE DEF j
<1>3. /\ LockedReport(j) /\ u \in Users /\ j.row \in UserRow /\ j.tenantRow \in TenantRow
  BY <1>1, <1>2, QuotaConstants, JobFields DEF Owned, Locked
<1>4. /\ user' \in [Users -> UserRow] /\ user'[u] = j.row
      /\ \A v \in Users \ {u} : user'[v] = user[v]
  BY <1>1, <1>3 DEF IInv, TypeOK
<1>5. QED BY <1>1, <1>2, <1>3, <1>4 DEF j

\* A quota that was used up stays so when a byte is added.
LEMMA StaysExhausted ==
  ASSUME IInv, NEW j, j.row \in UserRow, j.user \in Users, LockedReport(j)
  PROVE  /\ UserExhausted(user[j.user]) => UserExhausted(j.row)
         /\ j.user \in Members /\ ~j.rolled /\ TenantExhausted(tenant)
              => j.tenantRow.blocked
<1>1. user[j.user] \in UserRow /\ tenant \in TenantRow /\ Consistent(tenant)
  BY DEF IInv, TypeOK
<1>2. /\ user[j.user].used \in Nat /\ user[j.user].limit \in Nat
      /\ tenant.used \in Nat /\ tenant.limit \in Nat
  BY <1>1 DEF UserRow, TenantRow
<1>3. ASSUME UserExhausted(user[j.user]) PROVE UserExhausted(j.row)
  <2>1. j.row.used = user[j.user].used + 1 /\ j.row.limit = user[j.user].limit
    BY DEF LockedReport
  <2>2. user[j.user].limit > 0 /\ user[j.user].used >= user[j.user].limit
    BY <1>3 DEF UserExhausted
  <2>3. j.row.limit > 0 /\ j.row.used >= j.row.limit
    BY <1>2, <2>1, <2>2
  <2>4. QED BY <2>3 DEF UserExhausted
<1>4. ASSUME j.user \in Members, ~j.rolled, TenantExhausted(tenant)
      PROVE  j.tenantRow.blocked
  <2>1. tenant.limit > 0 /\ tenant.used >= tenant.limit
    BY <1>1, <1>4 DEF TenantExhausted, Consistent
  <2>2. /\ j.tenantRow.limit = tenant.limit /\ Consistent(j.tenantRow)
        /\ j.tenantRow.used = tenant.used + 1
    BY <1>4 DEF LockedReport
  <2>3. QED BY <1>2, <2>1, <2>2 DEF Consistent
<1>5. QED BY <1>3, <1>4

LEMMA CommitReportRules ==
  ASSUME IInv, NEW h \in Handlers, CommitReport(h)
  PROVE  crossed' \subseteq Rules /\ RulesFollow'
<1> DEFINE j == job[h]
           u == j.user
           billed == u \in Members
           missed == IF UserExhausted(j.row) THEN Missed(j, {u}) ELSE {}
           crossing == IF billed /\ (j.tenantRow.blocked \/ j.restore # {} \/ j.rolled)
                         THEN TenantCrossing(j) ELSE {}
           old == IF billed THEN TenantRules(j) ELSE rule
           mid == {v \in Users : v \in Exhausted} \cup {a \in {Tenant} : TenantExhausted(tenant')}
<1>1. /\ j \in Job /\ LockedReport(j) /\ u \in Users /\ j.row \in UserRow
      /\ j.kind = "report" /\ j.stage = "written" /\ Wrote(j) /\ rule' = Committed(j)
      /\ j.tenantRow \in TenantRow /\ user'[u] = j.row
      /\ \A v \in Users \ {u} : user'[v] = user[v]
      /\ tenant' = IF billed THEN j.tenantRow ELSE tenant
  BY CommitReportTypes
<1>2. crossed' = crossed \cup missed \cup crossing
  BY DEF CommitReport
<1>a. RulesAfter(j) = IF UserExhausted(j.row) THEN Stop(old, {u}, "user") ELSE old
  BY <1>1 DEF RulesAfter, ReportedRules
<1>3. TypeOK /\ rule \in [Rules -> RuleRow] /\ crossed \subseteq Rules
  BY DEF IInv, TypeOK
<1> HIDE DEF j
<1>4. /\ j.rolled => billed
      /\ billed => j.restore \subseteq RulesOf(Members) /\ Consistent(j.tenantRow)
  BY <1>1 DEF LockedReport
<1>5. /\ crossed' \subseteq Rules /\ crossed \subseteq crossed'
      /\ missed \subseteq crossed' /\ crossing \subseteq crossed'
  <2>1. TenantCrossing(j) \subseteq Rules /\ Missed(j, {u}) \subseteq Rules
    BY <1>1, JobFields, TenantCrossingRules, MissedRules
  <2>2. QED BY <1>2, <1>3, <2>1
<1>6. old \in [Rules -> RuleRow]
  BY <1>3, TenantRulesType
<1>8. /\ \A v \in Users : (v \in mid) = (v \in Exhausted)
      /\ Tenant \in mid <=> TenantExhausted(tenant')
  BY QuotaConstants
<1> HIDE DEF mid
<1>9. /\ \A v \in Users \ {u} : (v \in Exhausted') = (v \in mid)
      /\ (Tenant \in Exhausted') = (Tenant \in mid)
      /\ u \in Exhausted' <=> UserExhausted(j.row)
      /\ u \in Exhausted <=> UserExhausted(user[u])
      /\ Tenant \in Exhausted <=> TenantExhausted(tenant)
  <2>a. /\ u \in Users /\ user'[u] = j.row
        /\ \A v \in Users \ {u} : user'[v] = user[v]
    BY <1>1
  <2>1. /\ u \in Exhausted' <=> UserExhausted(j.row)
        /\ u \in Exhausted <=> UserExhausted(user[u])
        /\ Tenant \in Exhausted <=> TenantExhausted(tenant)
        /\ Tenant \in Exhausted' <=> TenantExhausted(tenant')
    BY <2>a, ExhaustedAt, ExhaustedNext
  <2>2. ASSUME NEW v \in Users \ {u} PROVE v \in Exhausted' <=> v \in mid
    <3>1. user'[v] = user[v]
      BY <2>a
    <3>2. QED BY <1>8, <3>1, ExhaustedAt, ExhaustedNext
  <2>3. QED BY <1>8, <2>1, <2>2
<1>10. ASSUME NEW r \in Rules, r \notin crossed'
       PROVE  /\ Follows(r, old[r], mid)
              /\ j.writes[r] = None => old[r] = rule[r] \/ rule[r].status = "protocol_violation"
  <2>1. Follows(r, rule[r], Exhausted)
    BY <1>5, <1>10 DEF IInv, RulesFollow
  <2>2. CASE billed
    <3>1. \/ j.restore = {} /\ (j.tenantRow.blocked \/ Tenant \notin Exhausted)
          \/ r \notin Crossing(j.restore, "tenant", Members, j.stopped)
      <4>1. CASE j.tenantRow.blocked \/ j.restore # {} \/ j.rolled
        <5>1. r \notin TenantCrossing(j)
          BY <1>5, <1>10, <2>2, <4>1
        <5>2. QED BY <5>1 DEF TenantCrossing
      <4>2. CASE ~(j.tenantRow.blocked \/ j.restore # {} \/ j.rolled)
        <5>1. Tenant \notin Exhausted
          BY <1>1, <1>9, <2>2, <4>2, StaysExhausted
        <5>2. QED BY <4>2, <5>1
      <4>3. QED BY <4>1, <4>2
    <3>2. (Tenant \in mid) = j.tenantRow.blocked
      <4>1. tenant' = j.tenantRow /\ j.tenantRow.blocked \in BOOLEAN
        BY <1>1, <2>2 DEF TenantRow
      <4>2. TenantExhausted(j.tenantRow) <=> j.tenantRow.blocked = TRUE
        BY <1>1, <1>4, <2>2, BlockedIsExhausted
      <4>3. Tenant \in mid <=> j.tenantRow.blocked = TRUE
        BY <1>8, <4>1, <4>2
      <4>4. QED BY <4>1, <4>3
    <3>3. Follows(r, TenantRules(j)[r], mid)
      BY <1>1, <1>3, <1>4, <1>8, <2>1, <2>2, <3>1, <3>2, MemberRules
    <3>4. j.tenantRow.blocked => r \notin Missed(j, Members)
      BY <1>5, <1>10, <2>2 DEF TenantCrossing
    <3>5. j.writes[r] = None =>
            TenantRules(j)[r] = rule[r] \/ rule[r].status = "protocol_violation"
      BY <1>1, <1>3, <3>4, Unwritten, TenantUnwritten
    <3>6. QED BY <2>2, <3>3, <3>5
  <2>3. CASE ~billed
    <3>1. tenant' = tenant /\ old = rule
      BY <1>1, <2>3
    <3>2. OwnerOf[r] \in Users /\ (Tenant \in mid <=> Tenant \in Exhausted)
      BY <1>8, <1>9, <3>1, QuotaConstants
    <3>3. QED BY <1>8, <2>1, <3>1, <3>2 DEF Follows
  <2>4. QED BY <2>2, <2>3
<1> HIDE DEF old
<1>11. ASSUME NEW r \in Rules, r \notin crossed' PROVE Follows(r, rule'[r], Exhausted')
  <2>1. /\ Follows(r, old[r], mid)
        /\ j.writes[r] = None => old[r] = rule[r] \/ rule[r].status = "protocol_violation"
    BY <1>10, <1>11
  <2>2. CASE UserExhausted(j.row)
    <3>1. RulesAfter(j) = Stop(old, {u}, "user") /\ u \in Exhausted' /\ r \notin Missed(j, {u})
      BY <1>5, <1>9, <1>11, <1>a, <2>2
    <3>2. Follows(r, RulesAfter(j)[r], Exhausted')
      BY <1>1, <1>6, <1>9, <2>1, <3>1, StopRules
    <3>3. \/ OwnerOf[r] \in {u} /\ old[r].status \notin {"paused", "quota_exhausted"}
          \/ RulesAfter(j)[r] = old[r]
      <4>1. "user" \in {"user", "tenant"}
        OBVIOUS
      <4>2. QED BY <1>6, <3>1, <4>1, StopAt
    <3>4. j.writes[r] = None => RulesAfter(j)[r] = rule[r] \/ rule[r].status = "protocol_violation"
      BY <1>3, <2>1, <3>1, <3>3, MissedRule
    <3>5. QED BY <1>1, <3>2, <3>4, CommittedFollows
  <2>3. CASE ~UserExhausted(j.row)
    <3>1. RulesAfter(j) = old /\ u \notin Exhausted'
      BY <1>9, <1>a, <2>3
    <3>2. u \notin mid
      BY <1>1, <1>8, <1>9, <2>3, StaysExhausted
    <3>3. OwnerOf[r] \in Users
      BY QuotaConstants
    <3>4. (OwnerOf[r] \in Exhausted') = (OwnerOf[r] \in mid)
      BY <1>9, <3>1, <3>2, <3>3
    <3>5. Follows(r, RulesAfter(j)[r], Exhausted')
      BY <1>9, <2>1, <3>1, <3>4 DEF Follows
    <3>6. QED BY <1>1, <2>1, <3>1, <3>5, CommittedFollows
  <2>4. QED BY <2>2, <2>3
<1>12. RulesFollow'
  BY <1>11 DEF RulesFollow
<1>13. QED BY <1>5, <1>12

LEMMA CommitReportUsage ==
  ASSUME IInv, NEW h \in Handlers, CommitReport(h)
  PROVE  overwritten' \subseteq Accounts /\ counted' \in [Accounts -> Nat] /\ UsageKept'
<1> DEFINE j == job[h]
           u == j.user
           rolled == {a \in {Tenant} : j.rolled}
           before(a) == IF a \in rolled THEN 0 ELSE counted[a]
<1>1. /\ LockedReport(j) /\ u \in Users
      /\ user'[u] = j.row /\ \A v \in Users \ {u} : user'[v] = user[v]
      /\ tenant' = IF u \in Members THEN j.tenantRow ELSE tenant
  BY CommitReportTypes
<1>2. /\ overwritten' = overwritten \ rolled
      /\ counted' = [a \in Accounts |->
           IF a \in WithTenant(u) \ overwritten' THEN before(a) + 1 ELSE counted[a]]
  BY DEF CommitReport
<1>3. /\ overwritten \subseteq Accounts /\ counted \in [Accounts -> Nat] /\ UsageKept
      /\ Users \subseteq Accounts /\ Tenant \in Accounts /\ Tenant \notin Users
      /\ tenant.used \in Nat
  BY QuotaConstants DEF IInv, TypeOK, Accounts, TenantRow
<1> HIDE DEF j
<1>4. /\ u \in WithTenant(u) /\ (u \in Members <=> Tenant \in WithTenant(u))
      /\ \A v \in Users \ {u} : v \notin WithTenant(u)
  BY <1>1, <1>3, LocksOf DEF WithTenant
<1>5. /\ j.row.used = user[u].used + 1
      /\ ~j.rolled => rolled = {}
      /\ j.rolled => rolled = {Tenant} /\ u \in Members
      /\ u \in Members => j.tenantRow.used = IF j.rolled THEN 1 ELSE tenant.used + 1
  BY <1>1 DEF LockedReport
<1> HIDE DEF rolled
<1>6. counted' \in [Accounts -> Nat]
  <2>1. \A a \in Accounts : before(a) \in Nat /\ counted[a] \in Nat
    BY <1>3
  <2> HIDE DEF before
  <2>2. QED BY <1>2, <2>1
<1>7. rolled \subseteq {Tenant}
  BY <1>5
<1>8. ASSUME NEW v \in Users, v \notin overwritten' PROVE user'[v].used = counted'[v]
  <2>1. v \notin overwritten /\ v \in Accounts /\ v \notin rolled
    BY <1>2, <1>3, <1>7, <1>8
  <2>2. user[v].used = counted[v]
    BY <1>3, <1>8, <2>1 DEF UsageKept
  <2>3. CASE v = u
    <3>1. counted'[v] = counted[v] + 1
      BY <1>2, <1>4, <1>8, <2>1, <2>3
    <3>2. QED BY <1>1, <1>5, <2>2, <2>3, <3>1
  <2>4. CASE v # u
    <3>1. counted'[v] = counted[v]
      BY <1>2, <1>4, <1>8, <2>1, <2>4
    <3>2. QED BY <1>1, <1>8, <2>2, <2>4, <3>1
  <2>5. QED BY <2>3, <2>4
<1>9. ASSUME Tenant \notin overwritten' PROVE tenant'.used = counted'[Tenant]
  <2>1. CASE u \in Members
    <3>1. tenant' = j.tenantRow /\ counted'[Tenant] = before(Tenant) + 1
      BY <1>1, <1>2, <1>3, <1>4, <1>9, <2>1
    <3>2. CASE ~j.rolled
      <4>1. before(Tenant) = counted[Tenant] /\ Tenant \notin overwritten
        BY <1>2, <1>5, <1>9, <3>2
      <4>2. QED BY <1>3, <1>5, <2>1, <3>1, <3>2, <4>1 DEF UsageKept
    <3>3. CASE j.rolled
      <4>1. before(Tenant) = 0
        BY <1>5, <3>3
      <4>2. j.tenantRow.used = 1
        BY <1>5, <2>1, <3>3
      <4> HIDE DEF before
      <4>3. QED BY <3>1, <4>1, <4>2
    <3>4. QED BY <3>2, <3>3
  <2>2. CASE u \notin Members
    <3>1. tenant' = tenant /\ counted'[Tenant] = counted[Tenant] /\ rolled = {}
      BY <1>1, <1>2, <1>3, <1>4, <1>5, <2>2
    <3>2. QED BY <1>2, <1>3, <1>9, <3>1 DEF UsageKept
  <2>3. QED BY <2>1, <2>2
<1>10. UsageKept'
  BY <1>8, <1>9 DEF UsageKept
<1>11. QED BY <1>2, <1>3, <1>6, <1>10

LEMMA CommitReportKeeps ==
  ASSUME IInv, NEW h \in Handlers, CommitReport(h)
  PROVE  IInv'
<1> DEFINE u == job[h].user
<1>1. job' = [job EXCEPT ![h] = None]
  BY DEF CommitReport
<1>2. /\ h \in Busy /\ job[h] \in Job /\ LockedReport(job[h]) /\ u \in Users
      /\ job[h].stage = "written" /\ rule' = Committed(job[h])
      /\ job[h].tenantRow \in TenantRow /\ user' \in [Users -> UserRow]
      /\ \A v \in Users \ {u} : user'[v] = user[v]
      /\ tenant' = IF u \in Members THEN job[h].tenantRow ELSE tenant
  BY CommitReportTypes
<1>3. job[h].locks = WithTenant(u) /\ (u \in Members => Consistent(job[h].tenantRow))
  BY <1>2 DEF LockedReport
<1>4. u \in job[h].locks /\ (u \in Members => Tenant \in job[h].locks)
  BY <1>2, <1>3, LocksOf
<1>5. /\ \A v \in Users : user'[v] # user[v] => v \in job[h].locks
      /\ tenant' # tenant => Tenant \in job[h].locks
  BY <1>2, <1>4
<1>6. /\ job' \in [Handlers -> Job \cup {None}] /\ Alone' /\ RowsAlone' /\ Planned'
      /\ rule' \in [Rules -> RuleRow]
  BY <1>1, <1>2, <1>5, CommitEnds
<1>7. /\ overwritten' \subseteq Accounts /\ counted' \in [Accounts -> Nat] /\ UsageKept'
      /\ crossed' \subseteq Rules /\ RulesFollow'
  BY CommitReportUsage, CommitReportRules
<1>8. tenant' \in TenantRow /\ Consistent(tenant')
  BY <1>2, <1>3 DEF IInv, TypeOK
<1>9. TypeOK'
  BY <1>2, <1>6, <1>7, <1>8 DEF TypeOK
<1>10. Consistent(tenant)'
  BY <1>8 DEF Consistent
<1>11. QED BY <1>6, <1>7, <1>9, <1>10 DEF IInv

LEMMA CommitRuleTypes ==
  ASSUME IInv, NEW h \in Handlers, CommitRule(h)
  PROVE  /\ h \in Busy /\ job[h] \in Job /\ job[h].rule \in Rules
         /\ job[h].kind = "resume" \/ job[h].kind = "pause"
         /\ job[h].user = OwnerOf[job[h].rule] /\ job[h].user \in Users /\ user' = user
         /\ job[h].stage = "written" /\ Wrote(job[h]) /\ rule' = Committed(job[h])
         /\ LockedRule(job[h]) /\ job[h].tenantRow \in TenantRow
         /\ tenant' = IF job[h].user \in Members THEN job[h].tenantRow ELSE tenant
<1> DEFINE j == job[h]
<1>1. /\ h \in Busy /\ j.kind \in {"resume", "pause"} /\ j.stage = "written"
      /\ user' = user /\ rule' = Committed(j)
      /\ tenant' = IF j.user \in Members THEN j.tenantRow ELSE tenant
  BY DEF CommitRule
<1>2. j \in Job /\ Owned(j) /\ Locked(j) /\ Wrote(j)
  BY <1>1, Committing
<1> HIDE DEF j
<1>3. /\ j.rule \in Rules /\ j.user = OwnerOf[j.rule] /\ j.user \in Users
      /\ LockedRule(j) /\ j.tenantRow \in TenantRow
  BY <1>1, <1>2, QuotaConstants, JobFields DEF Owned, Locked
<1>4. QED BY <1>1, <1>2, <1>3 DEF j

\* A write of a rule leaves the tenant with quota.
LEMMA RuleHasQuota ==
  ASSUME IInv, NEW j, LockedRule(j), j.tenantRow \in TenantRow, j.user \in Members
  PROVE  ~TenantExhausted(j.tenantRow) /\ (~j.rolled => ~TenantExhausted(tenant))
<1>1. /\ j.tenantRow.blocked = FALSE /\ Consistent(j.tenantRow)
      /\ j.tenantRow.limit = tenant.limit
      /\ j.tenantRow.used = IF j.rolled THEN 0 ELSE tenant.used
  BY DEF LockedRule
<1>2. ~TenantExhausted(j.tenantRow)
  BY <1>1, BlockedIsExhausted
<1>3. ASSUME ~j.rolled PROVE ~TenantExhausted(tenant)
  <2>1. ~(j.tenantRow.limit > 0 /\ j.tenantRow.used >= j.tenantRow.limit)
    BY <1>1 DEF Consistent
  <2>2. ~(tenant.limit > 0 /\ tenant.used >= tenant.limit)
    BY <1>1, <1>3, <2>1
  <2>3. QED BY <2>2 DEF IInv, Consistent, TenantExhausted
<1>4. QED BY <1>2, <1>3

LEMMA CommitRuleRules ==
  ASSUME IInv, NEW h \in Handlers, CommitRule(h)
  PROVE  crossed' \subseteq Rules /\ RulesFollow'
<1> DEFINE j == job[h]
           r == j.rule
           member == j.user \in Members
           crossing == IF j.rolled THEN TenantCrossing(j) ELSE {}
           new == [status |-> IF j.kind = "resume" THEN "active" ELSE "paused", source |-> ""]
<1>1. /\ j \in Job /\ r \in Rules /\ j.user = OwnerOf[r] /\ j.user \in Users /\ user' = user
      /\ j.kind = "resume" \/ j.kind = "pause"
      /\ j.stage = "written" /\ Wrote(j) /\ rule' = Committed(j)
      /\ LockedRule(j) /\ j.tenantRow \in TenantRow
      /\ tenant' = IF member THEN j.tenantRow ELSE tenant
  BY CommitRuleTypes
<1>2. crossed' = ((crossed \cup crossing) \ {r}) \cup {q \in {r} : UserExhausted(user[j.user])}
  BY DEF CommitRule
<1>3. TypeOK /\ rule \in [Rules -> RuleRow] /\ crossed \subseteq Rules
  BY DEF IInv, TypeOK
<1>4. RulesAfter(j) = [TenantRules(j) EXCEPT ![r] = new]
  BY <1>1 DEF RulesAfter, SavedRules
<1> HIDE DEF j
<1>5. new.status \notin {"quota_exhausted"}
  OBVIOUS
<1> HIDE DEF new
<1>6. /\ j.restore \subseteq Rules /\ j.tenantRow.blocked = FALSE
      /\ ~j.rolled => j.restore = {}
      /\ j.rolled => member
      /\ member => j.restore \subseteq RulesOf(Members)
  BY <1>1, JobFields DEF LockedRule
<1>7. /\ \A u \in Users : (u \in Exhausted') = (u \in Exhausted)
      /\ Tenant \in Exhausted' <=> TenantExhausted(tenant')
      /\ Tenant \in Exhausted <=> TenantExhausted(tenant)
      /\ j.user \in Exhausted <=> UserExhausted(user[j.user])
  <2>1. user' = user /\ j.user \in Users
    BY <1>1
  <2>2. QED BY <2>1, ExhaustedAt, ExhaustedNext
<1>8. /\ member => Tenant \notin Exhausted'
      /\ member /\ ~j.rolled => Tenant \notin Exhausted
  BY <1>1, <1>7, RuleHasQuota
<1>9. TenantRules(j) \in [Rules -> RuleRow]
  BY <1>3, TenantRulesType
<1>10. ASSUME NEW q \in Rules, q # r, q \notin crossed'
       PROVE  Follows(q, rule'[q], Exhausted')
  <2>1. RulesAfter(j)[q] = TenantRules(j)[q]
    BY <1>4, <1>9, <1>10
  <2>2. Follows(q, rule[q], Exhausted) /\ q \notin crossing
    BY <1>2, <1>10 DEF IInv, RulesFollow
  <2>3. j.writes[q] = None => TenantRules(j)[q] = rule[q] \/ rule[q].status = "protocol_violation"
    BY <1>1, <1>3, <1>6, Unwritten, TenantUnwritten
  <2>4. Follows(q, TenantRules(j)[q], Exhausted')
    <3>1. CASE member
      <4>1. \/ j.restore = {} /\ (j.tenantRow.blocked \/ Tenant \notin Exhausted)
            \/ q \notin Crossing(j.restore, "tenant", Members, j.stopped)
        BY <1>6, <1>8, <2>2, <3>1 DEF TenantCrossing
      <4>2. (Tenant \in Exhausted') = j.tenantRow.blocked
        <5>1. (Tenant \in Exhausted') = FALSE
          BY <1>8, <3>1
        <5>2. QED BY <1>6, <5>1
      <4>3. QED BY <1>1, <1>3, <1>6, <1>7, <2>2, <3>1, <4>1, <4>2, MemberRules
    <3>2. CASE ~member
      <4>1. tenant' = tenant /\ j.restore = {}
        BY <1>1, <1>6, <3>2
      <4>2. /\ Tenant \in Exhausted' <=> Tenant \in Exhausted
            /\ OwnerOf[q] \in Exhausted' <=> OwnerOf[q] \in Exhausted
        BY <1>7, <4>1, QuotaConstants
      <4>3. TenantRules(j)[q] = rule[q]
        <5>1. "user" \in {"user", "tenant"}
          OBVIOUS
        <5>2. TenantRules(j) = Restore(rule, j.restore, RulesOf(j.stopped), "user")
          BY <1>6 DEF TenantRules
        <5>3. QED BY <1>3, <4>1, <5>1, <5>2, RestoreAt
      <4>4. QED BY <2>2, <4>2, <4>3 DEF Follows
    <3>3. QED BY <3>1, <3>2
  <2>5. QED BY <1>1, <2>1, <2>3, <2>4, CommittedFollows
<1>11. ASSUME r \notin crossed' PROVE Follows(r, rule'[r], Exhausted')
  <2>1. ~UserExhausted(user[j.user])
    BY <1>2, <1>11
  <2>2. OwnerOf[r] \notin Exhausted' /\ (OwnerOf[r] \in Members => Tenant \notin Exhausted')
    BY <1>1, <1>7, <1>8, <2>1
  <2>3. j.writes[r] # None
    BY <1>1, Unwritten
  <2>4. rule'[r] = RulesAfter(j)[r]
    BY <1>1, <2>3, CommittedAt
  <2>5. RulesAfter(j)[r] = new
    BY <1>1, <1>4, <1>9
  <2>6. rule'[r].status # "quota_exhausted"
    BY <1>5, <2>4, <2>5
  <2>7. QED BY <2>2, <2>6 DEF Follows
<1>12. RulesFollow'
  BY <1>10, <1>11 DEF RulesFollow
<1>13. crossed' \subseteq Rules
  <2>1. TenantCrossing(j) \subseteq Rules
    BY <1>6, TenantCrossingRules
  <2>2. QED BY <1>1, <1>2, <1>3, <2>1
<1>14. QED BY <1>12, <1>13

LEMMA CommitRuleUsage ==
  ASSUME IInv, NEW h \in Handlers, CommitRule(h)
  PROVE  overwritten' \subseteq Accounts /\ counted' \in [Accounts -> Nat] /\ UsageKept'
<1> DEFINE j == job[h]
           rolled == {a \in {Tenant} : j.rolled}
<1>1. /\ user' = user /\ tenant' = IF j.user \in Members THEN j.tenantRow ELSE tenant
      /\ LockedRule(j)
  BY CommitRuleTypes
<1>2. /\ counted' = [a \in Accounts |-> IF a \in rolled THEN 0 ELSE counted[a]]
      /\ overwritten' = overwritten \ rolled
  BY DEF CommitRule
<1>3. /\ overwritten \subseteq Accounts /\ counted \in [Accounts -> Nat] /\ UsageKept
      /\ Users \subseteq Accounts /\ Tenant \in Accounts /\ Tenant \notin Users
  BY QuotaConstants DEF IInv, TypeOK, Accounts
<1> HIDE DEF j
<1>4. rolled \subseteq {Tenant} /\ (Tenant \in rolled <=> j.rolled)
  OBVIOUS
<1> HIDE DEF rolled
<1>5. counted' \in [Accounts -> Nat]
  BY <1>2, <1>3
<1>6. ASSUME NEW v \in Users, v \notin overwritten' PROVE user'[v].used = counted'[v]
  <2>1. v \notin rolled /\ v \in Accounts
    BY <1>3, <1>4
  <2>2. v \notin overwritten /\ counted'[v] = counted[v]
    BY <1>2, <1>6, <2>1
  <2>3. QED BY <1>1, <1>3, <2>2 DEF UsageKept
<1>7. ASSUME Tenant \notin overwritten' PROVE tenant'.used = counted'[Tenant]
  <2>1. /\ j.rolled => tenant'.used = 0
        /\ ~j.rolled => tenant'.used = tenant.used
    BY <1>1 DEF LockedRule
  <2>2. CASE j.rolled
    BY <1>2, <1>3, <1>4, <2>1, <2>2
  <2>3. CASE ~j.rolled
    <3>1. Tenant \notin rolled
      BY <1>4, <2>3
    <3>2. Tenant \notin overwritten /\ counted'[Tenant] = counted[Tenant]
      BY <1>2, <1>3, <1>7, <3>1
    <3>3. QED BY <1>3, <2>1, <2>3, <3>2 DEF UsageKept
  <2>4. QED BY <2>2, <2>3
<1>8. UsageKept'
  BY <1>6, <1>7 DEF UsageKept
<1>9. QED BY <1>2, <1>3, <1>5, <1>8

LEMMA CommitRuleKeeps ==
  ASSUME IInv, NEW h \in Handlers, CommitRule(h)
  PROVE  IInv'
<1> DEFINE u == job[h].user
<1>1. job' = [job EXCEPT ![h] = None]
  BY DEF CommitRule
<1>2. /\ h \in Busy /\ user' = user /\ job[h].stage = "written" /\ rule' = Committed(job[h])
      /\ LockedRule(job[h]) /\ job[h].tenantRow \in TenantRow
      /\ tenant' = IF u \in Members THEN job[h].tenantRow ELSE tenant
  BY CommitRuleTypes
<1>3. u \in Members => Tenant \in job[h].locks /\ Consistent(job[h].tenantRow)
  BY <1>2 DEF LockedRule
<1>4. /\ \A v \in Users : user'[v] # user[v] => v \in job[h].locks
      /\ tenant' # tenant => Tenant \in job[h].locks
  BY <1>2, <1>3
<1>5. /\ job' \in [Handlers -> Job \cup {None}] /\ Alone' /\ RowsAlone' /\ Planned'
      /\ rule' \in [Rules -> RuleRow]
  BY <1>1, <1>2, <1>4, CommitEnds
<1>6. /\ overwritten' \subseteq Accounts /\ counted' \in [Accounts -> Nat] /\ UsageKept'
      /\ crossed' \subseteq Rules /\ RulesFollow'
  BY CommitRuleUsage, CommitRuleRules
<1>7. tenant' \in TenantRow /\ Consistent(tenant')
  BY <1>2, <1>3 DEF IInv, TypeOK
<1>8. TypeOK'
  BY <1>2, <1>5, <1>6, <1>7 DEF TypeOK, IInv
<1>9. Consistent(tenant)'
  BY <1>7 DEF Consistent
<1>10. QED BY <1>5, <1>6, <1>8, <1>9 DEF IInv

-----------------------------------------------------------------------------
(* The other steps *)

LEMMA ViolationKeeps ==
  ASSUME IInv, NEW r \in Rules, Violation(r)
  PROVE  IInv'
<1>1. /\ rule' = [rule EXCEPT ![r].status = "protocol_violation"]
      /\ \A k \in Busy : r \notin Written(job[k])
      /\ UNCHANGED <<user, tenant, job, counted, overwritten, crossed>>
  BY DEF Violation, history
<1>2. rule \in [Rules -> RuleRow]
  BY DEF IInv, TypeOK
<1> DEFINE new == [rule[r] EXCEPT !.status = "protocol_violation"]
<1>3. new \in RuleRow /\ new.status = "protocol_violation"
  BY <1>2 DEF RuleRow, Status
<1>4. rule' = [rule EXCEPT ![r] = new]
  BY <1>1
<1> HIDE DEF new
<1>5. /\ rule' \in [Rules -> RuleRow] /\ rule'[r].status = "protocol_violation"
      /\ \A q \in Rules \ {r} : rule'[q] = rule[q]
  BY <1>2, <1>3, <1>4
<1>6. TypeOK' /\ Consistent(tenant)' /\ UsageKept'
  BY <1>1, <1>5 DEF IInv, TypeOK, Consistent, UsageKept
<1>7. Busy' = Busy /\ Exhausted' = Exhausted
  BY <1>1 DEF Busy, Exhausted
<1>8. Alone' /\ RowsAlone'
  BY <1>1, <1>7 DEF IInv, Alone, RowsAlone, Written
<1>9. ASSUME NEW k \in Busy PROVE (PlannedJob(job[k]) /\ Wrote(job[k]))'
  <2>1. \A q \in Written(job[k]) : rule'[q] = rule[q]
    BY <1>1, <1>5 DEF Written
  <2>2. QED BY <1>1, <1>5, <2>1, PlannedKept
<1>10. Planned'
  BY <1>7, <1>9 DEF Planned
<1>11. ASSUME NEW q \in Rules, q \notin crossed PROVE Follows(q, rule'[q], Exhausted)
  <2>1. CASE q = r
    BY <1>5, <2>1 DEF Follows
  <2>2. CASE q # r
    BY <1>5, <1>11, <2>2 DEF IInv, RulesFollow
  <2>3. QED BY <2>1, <2>2
<1>12. RulesFollow'
  BY <1>1, <1>7, <1>11 DEF RulesFollow
<1>13. QED BY <1>6, <1>8, <1>10, <1>12 DEF IInv

LEMMA SameRows ==
  ASSUME IInv, UNCHANGED <<rows, history>>
  PROVE  /\ Consistent(tenant)' /\ RulesFollow' /\ UsageKept'
         /\ job' \in [Handlers -> Job \cup {None}] => TypeOK'
<1>1. UNCHANGED <<user, tenant, rule, counted, overwritten, crossed>>
  BY DEF rows, history
<1>2. Exhausted' = Exhausted
  BY <1>1 DEF Exhausted
<1>3. QED BY <1>1, <1>2 DEF IInv, TypeOK, Consistent, RulesFollow, UsageKept

LEMMA AbortKeeps ==
  ASSUME IInv, NEW h \in Handlers, Abort(h)
  PROVE  IInv'
<1>1. job' = [job EXCEPT ![h] = None] /\ UNCHANGED <<rows, history>>
  BY DEF Abort
<1>2. user' = user /\ tenant' = tenant /\ rule' = rule /\ rule' \in [Rules -> RuleRow]
  BY <1>1 DEF rows, IInv, TypeOK
<1>3. job' \in [Handlers -> Job \cup {None}] /\ Alone' /\ RowsAlone' /\ Planned'
  BY <1>1, <1>2, EndKeeps
<1>4. QED BY <1>1, <1>3, SameRows DEF IInv

LEMMA StutterKeeps ==
  ASSUME IInv, UNCHANGED vars
  PROVE  IInv'
<1>1. /\ job' = job /\ UNCHANGED <<rows, history>> /\ user' = user /\ tenant' = tenant
      /\ rule' = rule /\ rule' \in [Rules -> RuleRow]
  BY DEF vars, rows, IInv, TypeOK
<1>2. Busy' = Busy /\ job' \in [Handlers -> Job \cup {None}]
  BY <1>1 DEF IInv, TypeOK, Busy
<1>3. Alone' /\ RowsAlone'
  BY <1>1, <1>2 DEF IInv, Alone, RowsAlone, Written
<1>4. ASSUME NEW k \in Busy PROVE (PlannedJob(job[k]) /\ Wrote(job[k]))'
  BY <1>1, PlannedKept
<1>5. Planned'
  BY <1>2, <1>4 DEF Planned
<1>6. QED BY <1>1, <1>2, <1>3, <1>5, SameRows DEF IInv

-----------------------------------------------------------------------------
(* The theorems *)

LEMMA InitIInv == Init => IInv
<1> SUFFICES ASSUME Init PROVE IInv
  OBVIOUS
<1>1. /\ user \in [Users -> UserRow] /\ \A u \in Users : user[u].used = 0
      /\ tenant \in TenantRow /\ tenant.used = 0 /\ tenant.blocked = FALSE
  <2>1. /\ user \in [Users -> [used : {0}, limit : UserLimits]]
        /\ tenant \in [used : {0}, limit : TenantLimits, blocked : {FALSE}]
    BY DEF Init
  <2>a. UserLimits \subseteq Nat /\ TenantLimits \subseteq Nat
    BY QuotaConstants
  <2>2. ASSUME NEW row \in [used : {0}, limit : UserLimits] PROVE row \in UserRow /\ row.used = 0
    <3>1. PICK n \in {0}, limit \in UserLimits : row = [used |-> n, limit |-> limit]
      OBVIOUS
    <3>2. n \in Nat /\ limit \in Nat
      BY <2>a
    <3>3. QED BY <3>1, <3>2 DEF UserRow
  <2>3. tenant \in TenantRow /\ tenant.used = 0 /\ tenant.blocked = FALSE
    <3>1. PICK n \in {0}, limit \in TenantLimits, b \in {FALSE} :
            tenant = [used |-> n, limit |-> limit, blocked |-> b]
      BY <2>1
    <3>2. n \in Nat /\ limit \in Nat /\ b \in BOOLEAN
      BY <2>a
    <3>3. QED BY <3>1, <3>2 DEF TenantRow
  <2>4. ASSUME NEW u \in Users PROVE user[u] \in UserRow /\ user[u].used = 0
    <3>1. user[u] \in [used : {0}, limit : UserLimits]
      BY <2>1
    <3>2. QED BY <2>2, <3>1
  <2>5. user \in [Users -> UserRow]
    BY <2>1, <2>4
  <2>6. QED BY <2>3, <2>4, <2>5
<1>2. /\ rule = [r \in Rules |-> [status |-> "active", source |-> ""]]
      /\ job = [h \in Handlers |-> None] /\ counted = [a \in Accounts |-> 0]
      /\ overwritten = {} /\ crossed = {}
  BY DEF Init
<1>3. rule \in [Rules -> RuleRow] /\ \A r \in Rules : rule[r].status = "active"
  BY <1>2 DEF RuleRow, Status
<1>4. TypeOK
  BY <1>1, <1>2, <1>3 DEF TypeOK
<1>5. tenant.limit \in Nat /\ \A u \in Users : user[u].limit \in Nat
  BY <1>1 DEF UserRow, TenantRow
<1>6. Consistent(tenant)
  BY <1>1, <1>5 DEF Consistent
<1>7. Busy = {}
  BY <1>2 DEF Busy
<1>8. Alone /\ RowsAlone /\ Planned
  BY <1>7 DEF Alone, RowsAlone, Planned
<1>9. ASSUME NEW u \in Users PROVE u \notin Exhausted
  <2>1. user[u].used = 0 /\ user[u].limit \in Nat
    BY <1>1, <1>5
  <2>2. ~UserExhausted(user[u])
    BY <2>1 DEF UserExhausted
  <2>3. QED BY <2>2, ExhaustedAt
<1>10. Tenant \notin Exhausted
  <2>1. ~TenantExhausted(tenant)
    BY <1>1, <1>5 DEF TenantExhausted
  <2>2. QED BY <2>1, ExhaustedAt
<1>11. RulesFollow
  BY <1>3, <1>9, <1>10, QuotaConstants DEF RulesFollow, Follows
<1>12. UsageKept
  BY <1>1, <1>2 DEF UsageKept, Accounts
<1>13. QED BY <1>4, <1>6, <1>8, <1>11, <1>12 DEF IInv

LEMMA NextIInv == IInv /\ [Next]_vars => IInv'
<1> SUFFICES ASSUME IInv, [Next]_vars PROVE IInv'
  OBVIOUS
<1>1. ASSUME NEW h \in Handlers, CommitUser(h) PROVE IInv'
  BY <1>1, CommitUserKeeps
<1>2. ASSUME NEW h \in Handlers, ReadTenant(h) PROVE IInv'
  BY <1>2, ReadTenantKeeps
<1>3. ASSUME NEW h \in Handlers, ResetTenant(h) PROVE IInv'
  BY <1>3, ResetTenantKeeps
<1>4. ASSUME NEW h \in Handlers, CommitTenant(h) PROVE IInv'
  BY <1>4, CommitTenantKeeps
<1>5. ASSUME NEW h \in Handlers, CommitReport(h) PROVE IInv'
  BY <1>5, CommitReportKeeps
<1>6. ASSUME NEW h \in Handlers, Abort(h) PROVE IInv'
  BY <1>6, AbortKeeps
<1>7. ASSUME NEW h \in Handlers, NEW u \in Users, ReadUser(h, u) PROVE IInv'
  BY <1>7, ReadUserKeeps
<1>8. ASSUME NEW h \in Handlers, NEW u \in Users, ResetUser(h, u) PROVE IInv'
  BY <1>8, ResetUserKeeps
<1>9. ASSUME NEW h \in Handlers, NEW r \in Rules, NEW due \in BOOLEAN, Report(h, r, due)
      PROVE  IInv'
  BY <1>9, ReportKeeps
<1>10. ASSUME NEW h \in Handlers, NEW limit \in UserLimits, SaveUser(h, limit) PROVE IInv'
  BY <1>10, SaveUserKeeps
<1>11. ASSUME NEW h \in Handlers, NEW limit \in TenantLimits, SaveTenant(h, limit) PROVE IInv'
  BY <1>11, SaveTenantKeeps
<1>12. ASSUME NEW h \in Handlers, NEW kind \in {"resume", "pause"}, NEW r \in Rules,
              BeginRule(h, kind, r)
       PROVE  IInv'
  BY <1>12, BeginRuleKeeps
<1>13. ASSUME NEW h \in Handlers, NEW due \in BOOLEAN, SaveRule(h, due) PROVE IInv'
  BY <1>13, SaveRuleKeeps
<1>14. ASSUME NEW h \in Handlers, WriteRules(h) PROVE IInv'
  BY <1>14, WriteRulesKeeps
<1>15. ASSUME NEW h \in Handlers, CommitRule(h) PROVE IInv'
  BY <1>15, CommitRuleKeeps
<1>16. ASSUME NEW r \in Rules, Violation(r) PROVE IInv'
  BY <1>16, ViolationKeeps
<1>17. CASE UNCHANGED vars
  BY <1>17, StutterKeeps
<1>18. CASE Next
  BY <1>1, <1>2, <1>3, <1>4, <1>5, <1>6, <1>7, <1>8, <1>9, <1>10, <1>11, <1>12, <1>13, <1>14,
     <1>15, <1>16, <1>18 DEF Next
<1>19. QED BY <1>17, <1>18

\* IInv holds after every step: what the requests under way have planned is what they
\* read under their locks, what they have written is what they would still write, and
\* the rules and the usage are as they say.
THEOREM Inductive == Spec => []IInv
<1>1. QED BY InitIInv, NextIInv, PTL DEF Spec

\* Every variable holds a value of its kind.
THEOREM TypeCorrect == Spec => []TypeOK
<1>1. IInv => TypeOK
  BY DEF IInv
<1>2. QED BY <1>1, Inductive, PTL

\* Whatever requests run at once (saves of profiles, resets, reports, rolls of a period,
\* writes of rules), each writing rules before it commits, and however they are aborted:
\* a rule that a quota stopped is stopped by one that is used up, an active rule has both
\* quotas, and the usage on record is what was accounted, but for what `crossed` and
\* `overwritten` name.
THEOREM QuotasAgreeAlways == Spec => []QuotasAgree
<1>1. ASSUME IInv PROVE QuotasAgree
  <2>1. StoppedHasReason
    BY <1>1 DEF IInv, RulesFollow, Follows, StoppedHasReason
  <2>2. ActiveHasQuota
    BY <1>1 DEF IInv, RulesFollow, Follows, ActiveHasQuota
  <2>3. QED BY <1>1, <2>1, <2>2 DEF IInv, QuotasAgree
<1>2. QED BY <1>1, Inductive, PTL

-----------------------------------------------------------------------------
(* Paused rules *)

Resumed(r) == rule[r].status = "paused" /\ rule'[r].status \notin {"paused", "protocol_violation"}

\* A paused rule is not among those a quota has stopped.
LEMMA PausedIsNotStopped ==
  ASSUME NEW r, rule[r].status = "paused", NEW source \in {"user", "tenant"}
  PROVE  rule[r] # StoppedRow(source)
BY RowTypes

LEMMA PausedInTenantRules ==
  ASSUME TypeOK, NEW j, NEW r \in Rules, rule[r].status = "paused", r \notin j.restore
  PROVE  TenantRules(j)[r] = rule[r]
<1>1. rule \in [Rules -> RuleRow] /\ "user" \in {"user", "tenant"} /\ "tenant" \in {"user", "tenant"}
  BY DEF TypeOK
<1> DEFINE mid == Restore(rule, j.restore, RulesOf(j.stopped), "user")
<1>2. mid \in [Rules -> RuleRow] /\ mid[r] = rule[r]
  BY <1>1, RestoreAt
<1>3. TenantRules(j) = IF j.tenantRow.blocked THEN Stop(mid, Members, "tenant") ELSE mid
  BY DEF TenantRules
<1> HIDE DEF mid
<1>4. Stop(mid, Members, "tenant")[r] = mid[r]
  BY <1>1, <1>2, StopAt
<1>5. QED BY <1>2, <1>3, <1>4

LEMMA PausedCrosses ==
  ASSUME NEW j, NEW r, rule[r].status = "paused", r \in j.restore
  PROVE  r \in TenantCrossing(j)
<1>1. rule[r] # StoppedRow("tenant")
  BY PausedIsNotStopped
<1>2. QED BY <1>1 DEF TenantCrossing, Crossing

\* Only what a request has written is changed when it commits.
LEMMA ResumedIsWritten ==
  ASSUME NEW j, j.stage = "written", Wrote(j), rule' = Committed(j), NEW r \in Rules, Resumed(r)
  PROVE  RulesAfter(j)[r] # rule[r] /\ rule'[r] = RulesAfter(j)[r]
<1>1. rule'[r] # rule[r]
  BY DEF Resumed
<1>2. QED BY <1>1, CommittedAt

LEMMA CommitUserPauses ==
  ASSUME IInv, NEW h \in Handlers, CommitUser(h), NEW r \in Rules, Resumed(r)
  PROVE  r \in crossed'
<1> DEFINE j == job[h]
           u == j.user
           stopped == IF Tenant \in j.stopped THEN Rules ELSE {}
<1>1. /\ j.stage = "written" /\ Wrote(j) /\ rule' = Committed(j)
      /\ j.kind \in {"user", "reset user"}
  BY CommitUserTypes
<1>2. crossed' = crossed \cup UserCrossing(j)
  BY DEF CommitUser
<1>3. /\ rule \in [Rules -> RuleRow] /\ "user" \in {"user", "tenant"}
      /\ "tenant" \in {"user", "tenant"} /\ rule[r].status = "paused"
  BY DEF IInv, TypeOK, Resumed
<1> HIDE DEF j
<1>4. RulesAfter(j)[r] # rule[r]
  BY <1>1, ResumedIsWritten
<1>5. RulesAfter(j) = IF UserExhausted(j.row) THEN Stop(rule, {u}, "user")
                                              ELSE Restore(rule, j.restore, stopped, "tenant")
  BY <1>1 DEF RulesAfter, UserRules
<1> HIDE DEF stopped
<1>6. Stop(rule, {u}, "user")[r] = rule[r]
  BY <1>3, StopAt
<1>7. ~UserExhausted(j.row) /\ Restore(rule, j.restore, stopped, "tenant")[r] # rule[r]
  BY <1>4, <1>5, <1>6
<1>8. r \in j.restore
  BY <1>3, <1>7, RestoreAt
<1>9. rule[r] # StoppedRow("user")
  BY <1>3, PausedIsNotStopped
<1>10. QED BY <1>2, <1>7, <1>8, <1>9 DEF Crossing, UserCrossing

LEMMA CommitTenantPauses ==
  ASSUME IInv, NEW h \in Handlers, CommitTenant(h), NEW r \in Rules, Resumed(r)
  PROVE  r \in crossed'
<1> DEFINE j == job[h]
<1>1. /\ j.stage = "written" /\ Wrote(j) /\ rule' = Committed(j)
      /\ j.kind \in {"tenant", "reset tenant"}
  BY CommitTenantTypes
<1>2. crossed' = crossed \cup TenantCrossing(j) /\ rule[r].status = "paused" /\ TypeOK
  BY DEF CommitTenant, Resumed, IInv
<1> HIDE DEF j
<1>3. RulesAfter(j)[r] # rule[r]
  BY <1>1, ResumedIsWritten
<1>4. TenantRules(j)[r] # rule[r]
  BY <1>1, <1>3 DEF RulesAfter
<1>5. r \in j.restore
  BY <1>2, <1>4, PausedInTenantRules
<1>6. QED BY <1>2, <1>5, PausedCrosses

LEMMA CommitReportPauses ==
  ASSUME IInv, NEW h \in Handlers, CommitReport(h), NEW r \in Rules, Resumed(r)
  PROVE  r \in crossed'
<1> DEFINE j == job[h]
           u == j.user
           billed == u \in Members
           missed == IF UserExhausted(j.row) THEN Missed(j, {u}) ELSE {}
           old == IF billed THEN TenantRules(j) ELSE rule
<1>1. /\ j.stage = "written" /\ Wrote(j) /\ rule' = Committed(j) /\ j.kind = "report"
  BY CommitReportTypes
<1>2. crossed' = crossed \cup missed
        \cup (IF billed /\ (j.tenantRow.blocked \/ j.restore # {} \/ j.rolled)
                THEN TenantCrossing(j) ELSE {})
  BY DEF CommitReport
<1>3. rule[r].status = "paused" /\ rule \in [Rules -> RuleRow] /\ TypeOK
  BY DEF Resumed, IInv, TypeOK
<1> HIDE DEF j, missed
<1>4. RulesAfter(j)[r] # rule[r]
  BY <1>1, ResumedIsWritten
<1>5. RulesAfter(j) = IF UserExhausted(j.row) THEN Stop(old, {u}, "user") ELSE old
  BY <1>1 DEF RulesAfter, ReportedRules
<1>6. old \in [Rules -> RuleRow]
  BY <1>3, TenantRulesType
<1>7. r \in j.restore /\ billed
  <2>1. ASSUME ~(r \in j.restore /\ billed) PROVE old[r] = rule[r]
    BY <1>3, <2>1, PausedInTenantRules
  <2> HIDE DEF old
  <2>2. ASSUME old[r] = rule[r] PROVE Stop(old, {u}, "user")[r] = rule[r]
    BY <1>3, <1>6, <2>2, StopAt
  <2>3. QED BY <1>4, <1>5, <2>1, <2>2
<1>8. r \in TenantCrossing(j)
  BY <1>3, <1>7, PausedCrosses
<1>9. QED BY <1>2, <1>7, <1>8

LEMMA CommitRulePauses ==
  ASSUME IInv, NEW h \in Handlers, CommitRule(h), NEW r \in Rules, Resumed(r)
  PROVE  \/ r \in crossed'
         \/ h \in Busy /\ job[h].kind = "resume" /\ job[h].rule = r /\ job'[h] = None
<1> DEFINE j == job[h]
           new == [status |-> IF j.kind = "resume" THEN "active" ELSE "paused", source |-> ""]
<1>1. /\ h \in Busy /\ j \in Job /\ j.rule \in Rules /\ j.stage = "written" /\ Wrote(j)
      /\ rule' = Committed(j) /\ (j.kind = "resume" \/ j.kind = "pause") /\ LockedRule(j)
  BY CommitRuleTypes
<1>2. /\ crossed' = ((crossed \cup (IF j.rolled THEN TenantCrossing(j) ELSE {})) \ {j.rule})
                      \cup {q \in {j.rule} : UserExhausted(user[j.user])}
      /\ job'[h] = None
  BY DEF CommitRule, IInv, TypeOK
<1>3. rule[r].status = "paused" /\ rule'[r].status # "paused" /\ TypeOK
  BY DEF Resumed, IInv
<1> HIDE DEF j
<1>4. RulesAfter(j)[r] # rule[r] /\ rule'[r] = RulesAfter(j)[r]
  BY <1>1, ResumedIsWritten
<1>5. RulesAfter(j) = [TenantRules(j) EXCEPT ![j.rule] = new]
  BY <1>1 DEF RulesAfter, SavedRules
<1>6. new.status = IF j.kind = "resume" THEN "active" ELSE "paused"
  OBVIOUS
<1> HIDE DEF new
<1>7. TenantRules(j) \in [Rules -> RuleRow]
  BY <1>3, TenantRulesType
<1>8. CASE r = j.rule
  <2>1. rule'[r] = new
    BY <1>1, <1>4, <1>5, <1>7, <1>8
  <2>2. j.kind = "resume"
    BY <1>3, <1>6, <2>1
  <2>3. QED BY <1>1, <1>2, <1>8, <2>2 DEF j
<1>9. CASE r # j.rule
  <2>1. TenantRules(j)[r] # rule[r]
    BY <1>4, <1>5, <1>7, <1>9
  <2>2. r \in j.restore
    BY <1>3, <2>1, PausedInTenantRules
  <2>3. j.rolled
    BY <1>1, <2>2 DEF LockedRule
  <2>4. r \in TenantCrossing(j)
    BY <1>3, <2>2, PausedCrosses
  <2>5. QED BY <1>2, <1>9, <2>3, <2>4
<1>10. QED BY <1>8, <1>9

LEMMA ViolationPauses ==
  ASSUME TypeOK, NEW q \in Rules, Violation(q), NEW r \in Rules
  PROVE  ~Resumed(r)
<1>1. rule' = [rule EXCEPT ![q].status = "protocol_violation"] /\ rule \in [Rules -> RuleRow]
  BY DEF Violation, TypeOK
<1>2. CASE r = q
  <2>1. rule'[r] = [rule[q] EXCEPT !.status = "protocol_violation"] /\ rule[q] \in RuleRow
    BY <1>1, <1>2
  <2>2. rule'[r].status = "protocol_violation"
    BY <2>1 DEF RuleRow
  <2>3. QED BY <2>2 DEF Resumed
<1>3. CASE r # q
  <2>1. rule'[r] = rule[r]
    BY <1>1, <1>3
  <2>2. QED BY <2>1 DEF Resumed
<1>4. QED BY <1>2, <1>3

LEMMA PauseStep ==
  ASSUME IInv, [Next]_vars, NEW r \in Rules, Resumed(r)
  PROVE  \/ r \in crossed'
         \/ \E h \in Busy : job[h].kind = "resume" /\ job[h].rule = r /\ job'[h] = None
<1>1. TypeOK
  BY DEF IInv
<1>2. rule' # rule
  BY DEF Resumed
<1>3. ASSUME NEW h \in Handlers, CommitUser(h) PROVE r \in crossed'
  BY <1>3, CommitUserPauses
<1>4. ASSUME NEW h \in Handlers, CommitTenant(h) PROVE r \in crossed'
  BY <1>4, CommitTenantPauses
<1>5. ASSUME NEW h \in Handlers, CommitReport(h) PROVE r \in crossed'
  BY <1>5, CommitReportPauses
<1>6. ASSUME NEW h \in Handlers, CommitRule(h)
      PROVE  \/ r \in crossed'
             \/ \E k \in Busy : job[k].kind = "resume" /\ job[k].rule = r /\ job'[k] = None
  BY <1>6, CommitRulePauses
<1>7. ASSUME NEW q \in Rules, Violation(q) PROVE FALSE
  BY <1>1, <1>7, ViolationPauses
<1>8. ASSUME NEW h \in Handlers, ReadTenant(h) \/ ResetTenant(h) \/ WriteRules(h) \/ Abort(h)
      PROVE  FALSE
  BY <1>2, <1>8 DEF ReadTenant, ResetTenant, WriteRules, Abort, rows
<1>9. ASSUME NEW h \in Handlers, NEW u \in Users, ReadUser(h, u) \/ ResetUser(h, u) PROVE FALSE
  BY <1>2, <1>9 DEF ReadUser, ResetUser, rows
<1>10. ASSUME NEW h \in Handlers, NEW q \in Rules, NEW due \in BOOLEAN, Report(h, q, due)
       PROVE  FALSE
  BY <1>2, <1>10 DEF Report, rows
<1>11. ASSUME NEW h \in Handlers, NEW limit \in UserLimits, SaveUser(h, limit) PROVE FALSE
  BY <1>2, <1>11 DEF SaveUser, rows
<1>12. ASSUME NEW h \in Handlers, NEW limit \in TenantLimits, SaveTenant(h, limit) PROVE FALSE
  BY <1>2, <1>12 DEF SaveTenant, rows
<1>13. ASSUME NEW h \in Handlers, NEW kind \in {"resume", "pause"}, NEW q \in Rules,
              BeginRule(h, kind, q)
       PROVE  FALSE
  BY <1>2, <1>13 DEF BeginRule, rows
<1>14. ASSUME NEW h \in Handlers, NEW due \in BOOLEAN, SaveRule(h, due) PROVE FALSE
  BY <1>2, <1>14 DEF SaveRule, rows
<1>15. Next
  BY <1>2 DEF vars, rows
<1>16. QED BY <1>3, <1>4, <1>5, <1>6, <1>7, <1>8, <1>9, <1>10, <1>11, <1>12, <1>13, <1>14, <1>15
           DEF Next

\* A paused rule stays paused through every reset, report, change of a limit and roll of
\* a period, unless a resumption of that rule commits, a violation is reported, or the
\* rules to restore had been chosen before the pause.
THEOREM PauseIsHeld == Spec => PauseHolds
<1>1. ASSUME IInv, [Next]_vars
      PROVE  \A r \in Rules :
               rule[r].status = "paused" /\ rule'[r].status \notin {"paused", "protocol_violation"} =>
                 \/ r \in crossed'
                 \/ \E h \in Busy : job[h].kind = "resume" /\ job[h].rule = r /\ job'[h] = None
  BY <1>1, PauseStep DEF Resumed
<1>2. QED BY <1>1, Inductive, PTL DEF Spec, PauseHolds
=============================================================================
