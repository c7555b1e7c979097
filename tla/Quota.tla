-------------------------------- MODULE Quota --------------------------------
(***************************************************************************)
(* The traffic quotas of a tenant and of its users, and the status they    *)
(* give to forwarding rules: accounting of reports, resets, periods,       *)
(* changes of limits, writes of rules, violation reports.                  *)
(*                                                                         *)
(* A handler is one request, split at what it reads without a lock: the    *)
(* row a profile save writes back is read before its transaction, and the  *)
(* rules to restore, with the other quota, before they are written.  It    *)
(* writes rules before it commits: a row it has written is locked until    *)
(* then, and others see what is committed (READ COMMITTED), so an update   *)
(* of the rules of some status passes by a rule that gets it later.        *)
(***************************************************************************)
EXTENDS Naturals

CONSTANTS
  Users, Members,   \* users, and those of them who belong to the tenant
  Rules, OwnerOf,   \* rules and the user each belongs to
  UserLimits, TenantLimits,  \* FlowLimitBytes, TrafficLimitBytes; 0 is no limit
  MaxBytes,         \* bound: usage of a user or of the tenant that can still grow
  Handlers,         \* bound: requests in progress at once
  None

Tenant == "tenant"
Accounts == Users \cup {Tenant}
ASSUME QuotaConstants ==
  /\ Members \subseteq Users /\ OwnerOf \in [Rules -> Users]
  /\ UserLimits \subseteq Nat /\ TenantLimits \subseteq Nat /\ MaxBytes \in [Accounts -> Nat]
  /\ None \notin Users /\ Tenant \notin Users

Status == {"active", "paused", "quota_exhausted", "protocol_violation"}
RuleRow == [status : Status, source : {"", "user", "tenant"}]
UserRow == [used : Nat, limit : Nat]
TenantRow == [used : Nat, limit : Nat, blocked : BOOLEAN]

(***************************************************************************)
(*   user, tenant, rule   the rows; "paused" is also "disabled"            *)
(*   job        requests in progress: kind, whose row they write and what  *)
(*              (row, tenantRow), the accounts they have locked, the rules *)
(*              they restore, who was out of quota when they looked (users *)
(*              or the tenant), and the rules they have written so far     *)
(*   counted    bytes accounted since the last reset, unless overwritten;  *)
(*              history, read by properties only, like the next two        *)
(*   overwritten  users (or the tenant) whose usage a profile save put     *)
(*              back to what it was when the save had read it              *)
(*   crossed    rules whose status was decided from a quota, or for a      *)
(*              set of rules, that had changed when it was committed       *)
(***************************************************************************)
VARIABLES user, tenant, rule, job, counted, overwritten, crossed

rows == <<user, tenant, rule>>
history == <<counted, overwritten, crossed>>
vars == <<rows, job, history>>

\* A job has read what it reads without locks, then locked its accounts and listed
\* the rules to restore, then written every rule it writes.  A job has rolled when it
\* begins a new period of the tenant.
Job == [kind : {"user", "reset user", "tenant", "reset tenant", "report", "resume", "pause"},
        stage : {"read", "listed", "written"}, rolled : BOOLEAN,
        user : Users \cup {None}, rule : Rules \cup {None}, row : UserRow,
        tenantRow : TenantRow, locks : SUBSET Accounts, restore : SUBSET Rules,
        stopped : SUBSET Accounts, writes : [Rules -> RuleRow \cup {None}]]
ASSUME NoneIsNoRecord == None \notin Job \cup RuleRow

\* Every variable holds a value of its kind.
TypeOK ==
  /\ user \in [Users -> UserRow] /\ tenant \in TenantRow
  /\ rule \in [Rules -> RuleRow]
  /\ job \in [Handlers -> Job \cup {None}]
  /\ counted \in [Accounts -> Nat]
  /\ overwritten \subseteq Accounts /\ crossed \subseteq Rules

Init ==
  /\ user \in [Users -> [used : {0}, limit : UserLimits]]
  /\ tenant \in [used : {0}, limit : TenantLimits, blocked : {FALSE}]
  /\ rule = [r \in Rules |-> [status |-> "active", source |-> ""]]
  /\ job = [h \in Handlers |-> None]
  /\ counted = [a \in Accounts |-> 0]
  /\ overwritten = {} /\ crossed = {}

-----------------------------------------------------------------------------
(* Rules and quotas *)

UserExhausted(row) == row.limit > 0 /\ row.used >= row.limit
TenantExhausted(row) ==
  row.blocked \/ (row.limit > 0 /\ row.used >= row.limit)
Exhausted == {u \in Users : UserExhausted(user[u])} \cup
             {a \in {Tenant} : TenantExhausted(tenant)}

Busy == {h \in Handlers : job[h] # None}
LocksFree(h, accounts) == \A k \in Busy \ {h} : job[k].locks \cap accounts = {}
WithTenant(u) == {u} \cup {a \in {Tenant} : u \in Members}
RulesOf(S) == {r \in Rules : OwnerOf[r] \in S}

NoTenantRow == [used |-> 0, limit |-> 0, blocked |-> FALSE]
NewJob(kind, u, r) ==
  [kind |-> kind, stage |-> "read", rolled |-> FALSE, user |-> u, rule |-> r,
   row |-> [used |-> 0, limit |-> 0], tenantRow |-> NoTenantRow, locks |-> {},
   restore |-> {}, stopped |-> {}, writes |-> [q \in Rules |-> None]]

Written(j) == {r \in Rules : j.writes[r] # None}
RulesFree(h, j) == \A k \in Busy \ {h} : Written(job[k]) \cap Written(j) = {}

StoppedRow(source) == [status |-> "quota_exhausted", source |-> source]
StoppedBy(source, S) == {r \in RulesOf(S) : rule[r] = StoppedRow(source)}

\* Mutant: paused rules are stopped too.
StopAll(old, S, source) ==
  [r \in Rules |-> IF OwnerOf[r] \in S /\ old[r].status # "quota_exhausted"
                     THEN StoppedRow(source) ELSE old[r]]
\* exhaustUserQuota and exhaustTenantQuotaTx: an update of the rules that have a
\* status to stop when it is made.
Stop(old, S, source) ==
  [r \in Rules |->
     IF OwnerOf[r] \in S /\ old[r].status \notin {"paused", "quota_exhausted"}
       THEN StoppedRow(source) ELSE old[r]]

\* Mutant: the other quota is not looked at.
RestoreAll(old, restore, out, source) ==
  [r \in Rules |-> IF r \in restore THEN [status |-> "active", source |-> ""] ELSE old[r]]
\* Rules of restore are written by their number, whatever they have become; a rule
\* whose other quota is out goes over to that quota.
Restore(old, restore, out, source) ==
  [r \in Rules |-> CASE r \in restore /\ r \in out -> StoppedRow(source)
                     [] r \in restore /\ r \notin out -> [status |-> "active", source |-> ""]
                     [] OTHER -> old[r]]

\* Whose quota decides, beside the one named, what a rule is restored to.
OthersOf(restore, source) ==
  IF source = "tenant" THEN {OwnerOf[r] : r \in restore}
  ELSE {a \in {Tenant} : \E r \in restore : OwnerOf[r] \in Members}

-----------------------------------------------------------------------------
(* What a job makes of the rules. *)

UserRules(j) ==
  IF UserExhausted(j.row)
    THEN Stop(rule, {j.user}, "user")
    ELSE Restore(rule, j.restore, IF Tenant \in j.stopped THEN Rules ELSE {}, "tenant")

\* For a save of the tenant, a reset, a report and a roll of its period.
TenantRules(j) ==
  LET restored == Restore(rule, j.restore, RulesOf(j.stopped), "user") IN
  IF j.tenantRow.blocked THEN Stop(restored, Members, "tenant") ELSE restored

\* The tenant's rules first, then those of a user now out of quota.
ReportedRules(j) ==
  LET ofTenant == IF j.user \in Members THEN TenantRules(j) ELSE rule IN
  IF UserExhausted(j.row) THEN Stop(ofTenant, {j.user}, "user") ELSE ofTenant

SavedRules(j) ==
  [TenantRules(j) EXCEPT ![j.rule] =
     [status |-> IF j.kind = "resume" THEN "active" ELSE "paused", source |-> ""]]

RulesAfter(j) ==
  CASE j.kind \in {"user", "reset user"} -> UserRules(j)
    [] j.kind \in {"tenant", "reset tenant"} -> TenantRules(j)
    [] j.kind = "report" -> ReportedRules(j)
    [] j.kind \in {"resume", "pause"} -> SavedRules(j)

\* Every rule restored, saved or billed is written, of the others those that change.
Writing(j) ==
  LET after == RulesAfter(j) IN
  [j EXCEPT !.stage = "written",
            !.writes = [r \in Rules |->
              IF r \in j.restore \cup {j.rule} \/ after[r] # rule[r] THEN after[r] ELSE None]]

\* The rules to restore are listed before they are written; what is stopped is
\* written without a list.
Listing(j) ==
  IF j.restore = {} THEN Writing(j) ELSE [j EXCEPT !.stage = "listed"]

\* A job whose transaction begins, or goes on, holds the rules it has written.
Proceed(h, j) == RulesFree(h, j) /\ job' = [job EXCEPT ![h] = j]

\* The rules listed are written, when nobody else holds them.
WriteRules(h) ==
  /\ h \in Busy /\ job[h].stage = "listed"
  /\ Proceed(h, Writing(job[h]))
  /\ UNCHANGED <<rows, history>>

\* What is committed.
Committed(j) == [r \in Rules |-> IF j.writes[r] # None THEN j.writes[r] ELSE rule[r]]

\* Rules a restoration gets wrong because something came between.
Crossing(restore, source, S, stopped) ==
  {r \in restore : rule[r] # StoppedRow(source)} \cup
  (StoppedBy(source, S) \ restore) \cup
  {r \in restore : LET other == IF source = "user" THEN Tenant ELSE OwnerOf[r] IN
                   (other \in stopped) # (other \in Exhausted /\ OwnerOf[r] \in Members)}

\* Rules that have become active since they were to be stopped.
Missed(j, S) == {r \in RulesOf(S) \ Written(j) : rule[r].status = "active"}

UserCrossing(j) ==
  IF UserExhausted(j.row) THEN Missed(j, {j.user})
  ELSE Crossing(j.restore, "user", {j.user}, j.stopped)
TenantCrossing(j) ==
  (IF j.tenantRow.blocked THEN Missed(j, Members) ELSE {}) \cup
  (IF j.tenantRow.blocked /\ j.restore = {} THEN {}
   ELSE Crossing(j.restore, "tenant", Members, j.stopped))

-----------------------------------------------------------------------------
(* A user's row: updateUser, resetUserTraffic *)

\* The row is read before the transaction.
ReadUser(h, u) ==
  /\ job[h] = None
  /\ job' = [job EXCEPT ![h] = [NewJob("user", u, None) EXCEPT !.row = user[u]]]
  /\ UNCHANGED <<rows, history>>

\* reconcileUserQuotaTx, as far as it reads.
UserPlan(j, row) ==
  LET restore == IF UserExhausted(row) THEN {} ELSE StoppedBy("user", {j.user}) IN
  [j EXCEPT !.row = row, !.restore = restore,
            !.stopped = OthersOf(restore, "user") \cap Exhausted]

\* The capacity check locks the tenant, the save of every column the user.
SaveUser(h, limit) ==
  LET j == job[h] IN
  /\ h \in Busy /\ j.kind = "user" /\ j.stage = "read"
  /\ LocksFree(h, WithTenant(j.user))
  /\ Proceed(h, Listing(
       [UserPlan(j, [j.row EXCEPT !.limit = limit]) EXCEPT !.locks = WithTenant(j.user)]))
  /\ UNCHANGED <<rows, history>>

\* Mutant: what was used beyond the limit stays on the account.
AfterResetCredit(row) == [row EXCEPT !.used = @ - row.limit]
AfterReset(row) == [row EXCEPT !.used = 0]

\* A reset writes used_bytes alone; it does not lock the tenant.
ResetUser(h, u) ==
  /\ job[h] = None /\ LocksFree(h, {u})
  /\ Proceed(h, Listing(
       [UserPlan(NewJob("reset user", u, None), AfterReset(user[u])) EXCEPT !.locks = {u}]))
  /\ UNCHANGED <<rows, history>>

CommitUser(h) ==
  LET j == job[h]
      u == j.user
  IN
  /\ h \in Busy /\ j.kind \in {"user", "reset user"} /\ j.stage = "written"
  /\ user' = [user EXCEPT ![u] = j.row]
  /\ rule' = Committed(j)
  /\ crossed' = crossed \cup UserCrossing(j)
  /\ overwritten' = CASE j.kind = "reset user" -> overwritten \ {u}
                      [] j.kind = "user" /\ j.row.used # user[u].used -> overwritten \cup {u}
                      [] OTHER -> overwritten
  /\ counted' = IF j.kind = "reset user" \/ u \in overwritten'
                  THEN [counted EXCEPT ![u] = 0] ELSE counted
  /\ job' = [job EXCEPT ![h] = None]
  /\ UNCHANGED tenant

-----------------------------------------------------------------------------
(* The tenant's row: updateTenant, resetTenantTraffic, the roll of a period *)

\* resetTenantTrafficTx: by hand, or when a period is found to be over (due).
Rolled(due) == IF due THEN [tenant EXCEPT !.used = 0, !.blocked = FALSE] ELSE tenant

\* reconcileTenantQuotaTx, as far as it reads: a tenant out of quota is blocked,
\* and one that was blocked, or is reset, has rules to restore.
TenantPlan(j, row, exhausted) ==
  LET blocked == row.limit > 0 /\ row.used >= row.limit
      restore == IF j.rolled \/ (row.blocked /\ ~blocked)
                   THEN StoppedBy("tenant", Members) ELSE {}
  IN
  [j EXCEPT !.tenantRow = [row EXCEPT !.blocked = blocked], !.restore = restore,
            !.stopped = OthersOf(restore, "tenant") \cap exhausted]

ReadTenant(h) ==
  /\ job[h] = None
  /\ job' = [job EXCEPT ![h] = [NewJob("tenant", None, None) EXCEPT !.tenantRow = tenant]]
  /\ UNCHANGED <<rows, history>>
SaveTenant(h, limit) ==
  LET j == job[h] IN
  /\ h \in Busy /\ j.kind = "tenant" /\ j.stage = "read"
  /\ LocksFree(h, {Tenant})
  /\ Proceed(h, Listing(
       [TenantPlan(j, [j.tenantRow EXCEPT !.limit = limit], Exhausted)
          EXCEPT !.locks = {Tenant}]))
  /\ UNCHANGED <<rows, history>>

\* A reset by hand; a period found to be over by whoever reads the tenant.
ResetTenant(h) ==
  LET j == [NewJob("reset tenant", None, None) EXCEPT !.rolled = TRUE, !.locks = {Tenant}] IN
  /\ job[h] = None /\ LocksFree(h, {Tenant})
  /\ Proceed(h, Listing(TenantPlan(j, Rolled(TRUE), Exhausted)))
  /\ UNCHANGED <<rows, history>>

CommitTenant(h) ==
  LET j == job[h] IN
  /\ h \in Busy /\ j.kind \in {"tenant", "reset tenant"} /\ j.stage = "written"
  /\ tenant' = j.tenantRow
  /\ rule' = Committed(j)
  /\ crossed' = crossed \cup TenantCrossing(j)
  /\ overwritten' =
       CASE j.kind = "reset tenant" -> overwritten \ {Tenant}
         [] j.kind = "tenant" /\ j.tenantRow.used # tenant.used -> overwritten \cup {Tenant}
         [] OTHER -> overwritten
  /\ counted' = IF j.kind = "reset tenant" \/ Tenant \in overwritten'
                  THEN [counted EXCEPT ![Tenant] = 0] ELSE counted
  /\ job' = [job EXCEPT ![h] = None]
  /\ UNCHANGED user

-----------------------------------------------------------------------------
(* Accounting of a report: accountAgentTrafficTx *)

ReportLocks(u) == WithTenant(u)

\* The bytes of the rule are written, the user's row and then the tenant's are locked
\* and read, the tenant's period is rolled if it is over, and one byte is added.
Report(h, r, due) ==
  LET u == OwnerOf[r]
      used(a) == IF a = Tenant THEN Rolled(due).used ELSE user[a].used
      row == [user[u] EXCEPT !.used = @ + 1]
      begun == [NewJob("report", u, r) EXCEPT
                  !.rolled = due, !.row = row, !.locks = ReportLocks(u), !.writes[r] = rule[r]]
      exhausted == (Exhausted \ {u}) \cup {v \in {u} : UserExhausted(row)}
  IN
  /\ job[h] = None /\ LocksFree(h, WithTenant(u))
  /\ due => u \in Members
  /\ \A a \in WithTenant(u) : used(a) < MaxBytes[a]
  /\ Proceed(h, Listing(
       IF u \in Members
         THEN TenantPlan(begun, [Rolled(due) EXCEPT !.used = @ + 1], exhausted)
         ELSE begun))
  /\ UNCHANGED <<rows, history>>

CommitReport(h) ==
  LET j == job[h]
      billed == j.user \in Members
      rolled == {a \in {Tenant} : j.rolled}
      before(a) == IF a \in rolled THEN 0 ELSE counted[a]
  IN
  /\ h \in Busy /\ j.kind = "report" /\ j.stage = "written"
  /\ user' = [user EXCEPT ![j.user] = j.row]
  /\ tenant' = IF billed THEN j.tenantRow ELSE tenant
  /\ rule' = Committed(j)
  /\ crossed' = crossed
       \cup (IF UserExhausted(j.row) THEN Missed(j, {j.user}) ELSE {})
       \cup (IF billed /\ (j.tenantRow.blocked \/ j.restore # {} \/ j.rolled)
               THEN TenantCrossing(j) ELSE {})
  /\ overwritten' = overwritten \ rolled
  /\ counted' = [a \in Accounts |->
       IF a \in WithTenant(j.user) \ overwritten' THEN before(a) + 1 ELSE counted[a]]
  /\ job' = [job EXCEPT ![h] = None]

-----------------------------------------------------------------------------
(* Writes of rules *)

\* updateForwardRule reads the user without a lock and asks for quota left.
BeginRule(h, kind, r) ==
  /\ job[h] = None /\ ~UserExhausted(user[OwnerOf[r]])
  /\ job' = [job EXCEPT ![h] = NewJob(kind, OwnerOf[r], r)]
  /\ UNCHANGED <<rows, history>>

\* Then it locks the tenant, rolls its period if it is over, asks the same of it, and
\* saves the row.
SaveRule(h, due) ==
  LET begun == [job[h] EXCEPT !.rolled = due, !.locks = {a \in {Tenant} : job[h].user \in Members}]
  IN
  /\ h \in Busy /\ job[h].kind \in {"resume", "pause"} /\ job[h].stage = "read"
  /\ due => job[h].user \in Members
  /\ LocksFree(h, begun.locks)
  /\ job[h].user \in Members => ~TenantExhausted(Rolled(due))
  /\ Proceed(h, Listing(
       IF job[h].user \in Members THEN TenantPlan(begun, Rolled(due), Exhausted) ELSE begun))
  /\ UNCHANGED <<rows, history>>

CommitRule(h) ==
  LET j == job[h]
      rolled == {a \in {Tenant} : j.rolled}
  IN
  /\ h \in Busy /\ j.kind \in {"resume", "pause"} /\ j.stage = "written"
  /\ tenant' = IF j.user \in Members THEN j.tenantRow ELSE tenant
  /\ rule' = Committed(j)
  /\ crossed' = ((crossed \cup (IF j.rolled THEN TenantCrossing(j) ELSE {})) \ {j.rule})
                  \cup {r \in {j.rule} : UserExhausted(user[j.user])}
  /\ counted' = [a \in Accounts |-> IF a \in rolled THEN 0 ELSE counted[a]]
  /\ overwritten' = overwritten \ rolled
  /\ job' = [job EXCEPT ![h] = None]
  /\ UNCHANGED user

\* agentViolation: whatever the status of the rule is by now.
Violation(r) ==
  /\ \A q \in Rules : rule[q].status # "protocol_violation"   \* bound: one at a time
  /\ \A k \in Busy : r \notin Written(job[k])
  /\ rule' = [rule EXCEPT ![r].status = "protocol_violation"]
  /\ UNCHANGED <<user, tenant, job, history>>

\* A failure of the database, a deadlock's victim, a refused request.
Abort(h) ==
  /\ h \in Busy
  /\ job' = [job EXCEPT ![h] = None]
  /\ UNCHANGED <<rows, history>>

Next ==
  \/ \E h \in Handlers :
       \/ CommitUser(h) \/ ReadTenant(h) \/ ResetTenant(h) \/ CommitTenant(h)
       \/ WriteRules(h) \/ CommitReport(h) \/ CommitRule(h) \/ Abort(h)
       \/ \E u \in Users : ReadUser(h, u) \/ ResetUser(h, u)
       \/ \E r \in Rules, due \in BOOLEAN : Report(h, r, due)
       \/ \E limit \in UserLimits : SaveUser(h, limit)
       \/ \E limit \in TenantLimits : SaveTenant(h, limit)
       \/ \E kind \in {"resume", "pause"}, r \in Rules : BeginRule(h, kind, r)
       \/ \E due \in BOOLEAN : SaveRule(h, due)
  \/ \E r \in Rules : Violation(r)

Spec == Init /\ [][Next]_vars

-----------------------------------------------------------------------------
(* Properties *)

\* A rule stopped by a quota is stopped by one that is used up: a reset or a higher
\* limit leaves no rule behind, in whatever order the two quotas ran out and came back.
StoppedHasReason ==
  \A r \in Rules \ crossed :
    rule[r].status = "quota_exhausted" =>
      \/ rule[r].source = "user" /\ OwnerOf[r] \in Exhausted
      \/ rule[r].source = "tenant" /\ OwnerOf[r] \in Members /\ Tenant \in Exhausted

\* An active rule has both quotas: neither reset lets it pass the other one.
ActiveHasQuota ==
  \A r \in Rules \ crossed :
    rule[r].status = "active" =>
      /\ OwnerOf[r] \notin Exhausted
      /\ OwnerOf[r] \in Members => Tenant \notin Exhausted

\* The usage on record is what was accounted since the last reset, unless a profile
\* save that had read the row earlier put it back.
UsageKept ==
  /\ \A u \in Users \ overwritten : user[u].used = counted[u]
  /\ Tenant \notin overwritten => tenant.used = counted[Tenant]

\* After every step, whatever jobs are under way: the statuses of the rules follow
\* the quotas, and the quotas follow the traffic.
QuotasAgree == StoppedHasReason /\ ActiveHasQuota /\ UsageKept

\* A paused rule stays paused whatever happens to the quotas: only a write of the
\* rule resumes it (or a restoration that crossed its pause, or a late violation).
PauseHolds ==
  [][\A r \in Rules :
       rule[r].status = "paused" /\ rule'[r].status \notin {"paused", "protocol_violation"} =>
         \/ r \in crossed'
         \/ \E h \in Busy : job[h].kind = "resume" /\ job[h].rule = r /\ job'[h] = None]_vars
=============================================================================
