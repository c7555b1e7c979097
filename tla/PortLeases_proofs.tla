-------------------------- MODULE PortLeases_proofs --------------------------
(***************************************************************************)
(* Proofs about PortLeases, for any tunnels, groups, ports, transports,    *)
(* limits and requests, and any finite set of rules.                       *)
(***************************************************************************)
EXTENDS PortLeases, FiniteSetTheorems, TLAPS

(***************************************************************************)
(* A job writes the rows of its kind: a new rule is nobody else's, the     *)
(* rule of an update was there, and is unless it was deleted meanwhile.    *)
(***************************************************************************)
Writes(h, r) == job[h].rows[r] # None
Shaped ==
  /\ \A r \in Rules : Exists(r) => r \in born
  /\ \A h \in Busy :
       /\ job[h].kind = "create" =>
            \A r \in Rules : Writes(h, r) =>
              r \notin born /\ \A k \in Busy \ {h} : ~Writes(k, r)
       /\ job[h].kind = "update" =>
            /\ job[h].rule \in born /\ job[h].prev \in Tunnels
            /\ Exists(job[h].rule) \/ job[h].rule \in overlapped
            /\ \A r \in Rules : Writes(h, r) => r = job[h].rule
       /\ job[h].kind = "delete" => job[h].rule \in Rules /\ ~InTransaction(h)

(***************************************************************************)
(* The leases of a job are those of its rows, for the entry group each row *)
(* had when it was prepared, which is locked.                              *)
(***************************************************************************)
JobLeases(h, r) == {l \in job[h].leases : l.rule = r}
LeasesAt(r, row, g) ==
  IF row.enabled
    THEN {[rule |-> r, group |-> g, transport |-> t, port |-> row.port] : t \in row.transports}
    ELSE {}
Leased ==
  \A h \in Busy :
    /\ \A l \in job[h].leases : Writes(h, l.rule)
    /\ \A r \in Rules : Writes(h, r) =>
         \E g \in job[h].groups : JobLeases(h, r) = LeasesAt(r, job[h].rows[r], g)

(***************************************************************************)
(* The rules there are, are within the limits of the grants; a job has the *)
(* grants of its rows locked, alone, and what it sees is within them, too. *)
(***************************************************************************)
Committed(t) == {s \in Rules : Exists(s) /\ rule[s].tunnel = t}
Seen(h, t) ==
  {s \in Rules : \/ Writes(h, s) /\ job[h].rows[s].tunnel = t
                 \/ ~Writes(h, s) /\ Exists(s) /\ rule[s].tunnel = t}
Within(limit, S) == S = {} \/ (limit # None /\ (limit = 0 \/ Cardinality(S) <= limit))
Respected == \A t \in Tunnels : Within(grant[t], Committed(t))
Granted ==
  /\ \A h, k \in Busy : h # k => job[h].grants \cap job[k].grants = {}
  /\ \A h \in Busy :
       /\ \A r \in Rules : Writes(h, r) => job[h].rows[r].tunnel \in job[h].grants
       /\ \A t \in job[h].grants : Within(grant[t], Seen(h, t))

(***************************************************************************)
(* Two rows, committed or about to be, ask for one port only if they       *)
(* strayed, or if one of them is behind another group than it has leases   *)
(* for, so that its commit will tell.                                      *)
(***************************************************************************)
Clash(groups, a, b) ==
  /\ a.enabled /\ b.enabled
  /\ groups[a.tunnel] = groups[b.tunnel]
  /\ a.port = b.port
  /\ a.transports \cap b.transports # {}
Moved(h, r) == \E l \in JobLeases(h, r) : l.group # entry[job[h].rows[r].tunnel]
Separate ==
  \A h \in Busy, r, s \in Rules : Writes(h, r) /\ r # s =>
    /\ Writes(h, s) /\ Clash(entry, job[h].rows[r], job[h].rows[s]) => {r, s} \in strayed
    /\ ~Writes(h, s) /\ Exists(s) /\ Clash(entry, job[h].rows[r], rule[s]) =>
         {r, s} \in strayed \/ Moved(h, r)
    /\ \A k \in Busy \ {h} :
         Writes(k, s) /\ Clash(entry, job[h].rows[r], job[k].rows[s]) =>
           {r, s} \in strayed \/ Moved(h, r) \/ Moved(k, s)

(***************************************************************************)
(* A rule that has not strayed has the leases it listens on, and leases    *)
(* without a rule are left by updates that overlapped its deletion.        *)
(***************************************************************************)
Fitting ==
  /\ \A r \in Rules : Exists(r) /\ {r} \notin strayed =>
       LeasesOf(r) = LeasesAt(r, rule[r], entry[rule[r].tunnel])
  /\ \A l \in leases : Exists(l.rule) \/ l.rule \in overlapped

IInv ==
  /\ TypeOK /\ Shaped /\ Leased
  /\ Respected /\ Granted
  /\ PortsExclusive /\ Separate
  /\ Fitting

-----------------------------------------------------------------------------
(* Jobs *)

LEMMA JobTypes ==
  ASSUME TypeOK
  PROVE  \A h \in Busy : h \in Handlers /\ job[h] \in Job
BY DEF TypeOK, Busy

\* A new request has no rows and holds nothing.
LEMMA NewJobTypes ==
  ASSUME NEW kind \in {"create", "update", "delete"}, NEW r \in Rules \cup {None},
         NEW prev \in Tunnels \cup {None}
  PROVE  /\ NewJob(kind, r, prev) \in Job
         /\ NewJob(kind, r, prev).kind = kind /\ NewJob(kind, r, prev).rule = r
         /\ NewJob(kind, r, prev).prev = prev /\ NewJob(kind, r, prev).rows = NoRows
         /\ NewJob(kind, r, prev).leases = {} /\ NewJob(kind, r, prev).groups = {}
         /\ NewJob(kind, r, prev).grants = {}
BY DEF NewJob, Job, NoRows

\* What a transaction sees are rows.
LEMMA ViewTypes ==
  ASSUME TypeOK, NEW h \in Busy
  PROVE  /\ View(h) \in [Rules -> Row \cup {None}]
         /\ \A r \in Rules : View(h)[r] = IF Writes(h, r) THEN job[h].rows[r] ELSE rule[r]
         /\ \A r \in Rules : Writes(h, r) => job[h].rows[r] \in Row
<1>1. job[h] \in Job /\ job[h].rows \in [Rules -> Row \cup {None}]
  BY JobTypes DEF Job
<1>2. rule \in [Rules -> Row \cup {None}]
  BY DEF TypeOK
<1>3. QED BY <1>1, <1>2 DEF View, Writes

\* In every step but Prepare a request stays as it is, but for what a deletion
\* remembers, or it is new and has no rows.
Stays(k) ==
  /\ k \in Busy
  /\ job'[k].kind = job[k].kind /\ job'[k].rule = job[k].rule
  /\ job'[k].prev = job[k].prev /\ job'[k].rows = job[k].rows
  /\ job'[k].leases = job[k].leases
  /\ job'[k].groups = job[k].groups /\ job'[k].grants = job[k].grants
Fresh(k) ==
  /\ job'[k].rows = NoRows /\ job'[k].leases = {}
  /\ job'[k].groups = {} /\ job'[k].grants = {}
Quiet ==
  /\ job' \in [Handlers -> Job \cup {None}]
  /\ \A k \in Busy' : Stays(k) \/ Fresh(k)

LEMMA QuietWrites ==
  ASSUME TypeOK, Quiet, NEW k \in Busy', NEW r \in Rules, Writes(k, r)'
  PROVE  Stays(k) /\ Writes(k, r) /\ JobLeases(k, r)' = JobLeases(k, r)
BY DEF Quiet, Stays, Fresh, Writes, NoRows, JobLeases

LEMMA BeginsQuiet ==
  ASSUME TypeOK, NEW h \in Handlers, job[h] = None, NEW j \in Job,
         j.rows = NoRows, j.leases = {}, j.groups = {}, j.grants = {},
         job' = [job EXCEPT ![h] = j]
  PROVE  /\ Quiet /\ Busy' = Busy \cup {h} /\ job'[h] = j
         /\ \A k \in Busy : Stays(k) /\ k # h
<1>1. /\ job' \in [Handlers -> Job \cup {None}] /\ job'[h] = j /\ j # None
      /\ \A k \in Handlers \ {h} : job'[k] = job[k]
  BY NoneIsNoValue DEF TypeOK
<1>2. Busy' = Busy \cup {h} /\ \A k \in Busy : k # h /\ job'[k] = job[k]
  BY <1>1 DEF Busy
<1>3. QED BY <1>1, <1>2 DEF Quiet, Stays, Fresh

LEMMA EndsQuiet ==
  ASSUME TypeOK, NEW h \in Handlers, job' = [job EXCEPT ![h] = None]
  PROVE  Quiet /\ Busy' = Busy \ {h} /\ \A k \in Busy' : Stays(k)
<1>1. /\ job' \in [Handlers -> Job \cup {None}] /\ job'[h] = None
      /\ \A k \in Handlers \ {h} : job'[k] = job[k]
  BY DEF TypeOK
<1>2. Busy' = Busy \ {h} /\ \A k \in Busy' : k \in Busy /\ job'[k] = job[k]
  BY <1>1 DEF Busy
<1>3. QED BY <1>1, <1>2 DEF Quiet, Stays

LEMMA UnchangedQuiet ==
  ASSUME TypeOK, UNCHANGED job
  PROVE  Quiet /\ Busy' = Busy /\ \A k \in Busy' : Stays(k)
BY DEF Quiet, Stays, TypeOK, Busy

\* A commit ends its request; deletions of its rules remember it.
LEMMA CommitQuiet ==
  ASSUME TypeOK, NEW h \in Handlers, Commit(h)
  PROVE  Quiet /\ Busy' = Busy \ {h} /\ \A k \in Busy' : Stays(k)
<1> DEFINE touched == UNION {Deleting(r) : r \in {r \in Rules : job[h].rows[r] # None}}
<1>1. job' = [k \in Handlers |-> IF k = h THEN None
                ELSE IF k \in touched THEN [job[k] EXCEPT !.spares = TRUE] ELSE job[k]]
  BY DEF Commit
<1>2. touched \subseteq Busy
  BY DEF Deleting
<1> HIDE DEF touched
<1>3. job'[h] = None
  BY <1>1
<1>4. ASSUME NEW k \in Handlers \ {h}
      PROVE  /\ job'[k] \in Job \cup {None} /\ (job'[k] = None <=> job[k] = None)
             /\ job[k] # None => Stays(k)
  <2>1. CASE k \in touched
    <3>1. job[k] \in Job /\ k \in Busy /\ job[k] # None
      BY <2>1, <1>2, JobTypes DEF Busy
    <3>2. job'[k] = [job[k] EXCEPT !.spares = TRUE]
      BY <2>1, <1>1
    <3>3. job'[k] \in Job
      BY <3>1, <3>2 DEF Job
    <3>4. Stays(k)
      BY <3>1, <3>2 DEF Stays, Job
    <3>5. QED BY <3>1, <3>3, <3>4, NoneIsNoValue
  <2>2. CASE k \notin touched
    <3>1. job'[k] = job[k]
      BY <2>2, <1>1
    <3>2. QED BY <3>1 DEF TypeOK, Stays, Busy
  <2>3. QED BY <2>1, <2>2
<1>5. job' \in [Handlers -> Job \cup {None}]
  BY <1>1, <1>3, <1>4
<1>6. Busy' = Busy \ {h}
  BY <1>3, <1>4 DEF Busy
<1>7. QED BY <1>4, <1>5, <1>6 DEF Quiet, Busy

\* One more row is written.
LEMMA PrepareJobs ==
  ASSUME TypeOK, NEW h \in Handlers, NEW r \in Rules, NEW row \in Row, Prepare(h, r, row),
         job[h].kind = "update" => job[h].prev \in Tunnels
  PROVE  /\ job' \in [Handlers -> Job \cup {None}] /\ Busy' = Busy
         /\ \A k \in Handlers \ {h} : job'[k] = job[k]
         /\ job'[h].kind = job[h].kind /\ job'[h].rule = job[h].rule
         /\ job'[h].prev = job[h].prev
         /\ job'[h].rows = [job[h].rows EXCEPT ![r] = row]
         /\ job'[h].leases = job[h].leases \cup NeededLeases(r, row)
         /\ job[h].groups \cup {entry[row.tunnel]} \subseteq job'[h].groups
         /\ job'[h].grants = job[h].grants \cup {row.tunnel}
<1> DEFINE groups == {entry[row.tunnel]} \cup
                  (IF job[h].kind = "update" THEN {entry[job[h].prev]} ELSE {})
           u == job[h]
           rows == [u.rows EXCEPT ![r] = row]
           ls == u.leases \cup NeededLeases(r, row)
           gs == u.groups \cup groups
           ts == u.grants \cup {row.tunnel}
           v == [u EXCEPT !.rows = rows, !.leases = ls, !.groups = gs, !.grants = ts]
<1>1. h \in Busy /\ u \in Job
  BY JobTypes DEF Prepare
<1>2. job' = [job EXCEPT ![h].rows[r] = row, ![h].leases = @ \cup NeededLeases(r, row),
                         ![h].groups = @ \cup groups, ![h].grants = @ \cup {row.tunnel}]
  BY DEF Prepare, LockedGrants
<1>3. /\ row.tunnel \in Tunnels /\ row.port \in Ports
      /\ row.transports \subseteq Transports
  BY DEF Row, Transports
<1>4. /\ u.rows \in [Rules -> Row \cup {None}] /\ u.leases \subseteq Lease
      /\ u.groups \subseteq Groups /\ u.grants \subseteq Tunnels
  BY <1>1 DEF Job
<1>5. entry \in [Tunnels -> Groups]
  BY DEF TypeOK
<1>6. NeededLeases(r, row) \subseteq Lease
  BY <1>3, <1>5 DEF NeededLeases, Lease
<1>7. groups \subseteq Groups
  BY <1>3, <1>5
<1>8. rows \in [Rules -> Row \cup {None}] /\ ls \subseteq Lease /\ gs \subseteq Groups
      /\ ts \subseteq Tunnels
  BY <1>3, <1>4, <1>6, <1>7
<1>9. job' = [job EXCEPT ![h] = v]
  BY <1>1, <1>2 DEF TypeOK, Job
<1>10. entry[row.tunnel] \in groups
  OBVIOUS
<1> HIDE DEF rows, ls, gs, ts
<1>11. v \in Job
  BY <1>1, <1>8 DEF Job
<1>12. /\ v.kind = u.kind /\ v.rule = u.rule /\ v.prev = u.prev /\ v.rows = rows
       /\ v.leases = ls /\ v.groups = gs /\ v.grants = ts
  BY <1>1 DEF Job
<1> HIDE DEF v, groups
<1>13. /\ job' \in [Handlers -> Job \cup {None}] /\ job'[h] = v
       /\ \A k \in Handlers \ {h} : job'[k] = job[k]
  BY <1>9, <1>11 DEF TypeOK
<1>14. Busy' = Busy
  BY <1>1, <1>11, <1>13, NoneIsNoValue DEF Busy
<1>15. QED BY <1>10, <1>12, <1>13, <1>14 DEF rows, ls, gs, ts

-----------------------------------------------------------------------------
(* Rows of the handlers *)

\* Histories of strayed rules are sets of rules, and have who was there.
LEMMA StrayFacts ==
  ASSUME TypeOK, NEW S \in SUBSET Rules
  PROVE  /\ Stray(S) \subseteq SUBSET Rules
         /\ \A r \in S : {r} \in Stray(S)
         /\ \A r \in S, s \in Present : {r, s} \in Stray(S) /\ {s, r} \in Stray(S)
<1>1. Present \subseteq Rules
  BY DEF Present
<1>2. \A r \in S : {r} \in Stray(S)
  <2>1. \A r \in S : {r, r} = {r}
    OBVIOUS
  <2>2. QED BY <2>1 DEF Stray
<1>3. \A r \in S, s \in Present : {r, s} \in Stray(S) /\ {s, r} \in Stray(S)
  <2>1. \A r, s : {r, s} = {s, r}
    OBVIOUS
  <2>2. QED BY <2>1 DEF Stray
<1>4. ASSUME NEW x \in Stray(S) PROVE x \in SUBSET Rules
  <2>1. PICK r \in S, s \in S \cup Present : x = {r, s}
    BY DEF Stray
  <2>2. r \in Rules /\ s \in Rules
    BY <1>1
  <2>3. QED BY <2>1, <2>2
<1>5. QED BY <1>2, <1>3, <1>4

\* A rule that is there, or is about to be, is present.
LEMMA PresentFacts ==
  /\ \A r \in Rules : Exists(r) => r \in Present
  /\ \A r \in Rules, h \in Busy : Writes(h, r) => r \in Present
BY DEF Present, Writes

(***************************************************************************)
(* What a commit brings: the rows it wrote replace the committed ones.     *)
(***************************************************************************)
Written(h) == {r \in Rules : Writes(h, r)}
MovedRules(h) == {r \in Written(h) : Moved(h, r)}
LEMMA CommitFacts ==
  ASSUME TypeOK, Leased, NEW h \in Handlers, Commit(h)
  PROVE  /\ h \in Busy /\ ~(job[h].rows = NoRows)
         /\ rule' \in [Rules -> Row \cup {None}]
         /\ \A r \in Rules : rule'[r] = IF Writes(h, r) THEN job[h].rows[r] ELSE rule[r]
         /\ leases' = {l \in leases : l.rule \notin Written(h)} \cup job[h].leases
         /\ leases' \subseteq Lease /\ born' = born \cup Written(h)
         /\ strayed' \subseteq SUBSET Rules
         /\ \A x \in strayed : (\A r \in Written(h) : x # {r}) => x \in strayed'
         /\ \A r \in MovedRules(h) : {r} \in strayed'
         /\ \A r \in MovedRules(h), s \in Present : {r, s} \in strayed' /\ {s, r} \in strayed'
         /\ UNCHANGED <<entry, grant, overlapped>>
<1> DEFINE S == {l.rule : l \in {l \in job[h].leases : l.group # entry[job[h].rows[l.rule].tunnel]}}
<1>1. h \in Busy /\ job[h] \in Job /\ job[h].leases \subseteq Lease /\ ~(job[h].rows = NoRows)
  BY JobTypes DEF Commit, Job, InTransaction
<1>2. /\ rule' = View(h)
      /\ leases' = {l \in leases : l.rule \notin Written(h)} \cup job[h].leases
      /\ born' = born \cup Written(h)
      /\ strayed' = {x \in strayed : \A r \in Written(h) : x # {r}} \cup Stray(S)
      /\ UNCHANGED <<entry, grant, overlapped>>
  BY DEF Commit, Written, Writes
<1>3. S \in SUBSET Rules
  BY <1>1 DEF Lease
<1>4. MovedRules(h) \subseteq S
  BY DEF MovedRules, Moved, JobLeases
<1> HIDE DEF S
<1>5. /\ Stray(S) \subseteq SUBSET Rules
      /\ \A r \in MovedRules(h) : {r} \in Stray(S)
      /\ \A r \in MovedRules(h), s \in Present : {r, s} \in Stray(S) /\ {s, r} \in Stray(S)
  BY <1>3, <1>4, StrayFacts
<1>6. leases' \subseteq Lease /\ strayed' \subseteq SUBSET Rules
  BY <1>1, <1>2, <1>5 DEF TypeOK
<1>7. QED BY <1>1, <1>2, <1>5, <1>6, ViewTypes

(***************************************************************************)
(* Leases taken for a row.                                                 *)
(***************************************************************************)
LEMMA LeasesAtFacts ==
  ASSUME NEW r \in Rules, NEW row \in Row, NEW g \in Groups
  PROVE  /\ NeededLeases(r, row) = LeasesAt(r, row, entry[row.tunnel])
         /\ \A l \in LeasesAt(r, row, g) : l.rule = r /\ l.group = g
         /\ row.enabled => LeasesAt(r, row, g) # {}
<1>1. row.transports # {}
  BY RuleConstants DEF Row
<1>2. NeededLeases(r, row) = LeasesAt(r, row, entry[row.tunnel])
  BY DEF NeededLeases, LeasesAt
<1>3. \A l \in LeasesAt(r, row, g) : l.rule = r /\ l.group = g
  BY DEF LeasesAt
<1>4. ASSUME row.enabled PROVE LeasesAt(r, row, g) # {}
  <2>1. PICK t \in row.transports : TRUE
    BY <1>1
  <2>2. [rule |-> r, group |-> g, transport |-> t, port |-> row.port] \in LeasesAt(r, row, g)
    BY <1>4, <2>1 DEF LeasesAt
  <2>3. QED BY <2>2
<1>5. QED BY <1>2, <1>3, <1>4

-----------------------------------------------------------------------------
(* Types *)

LEMMA InitType == Init => TypeOK
BY RuleConstants DEF Init, TypeOK, NoRows

LEMMA NextType == TypeOK /\ Shaped /\ Leased /\ [Next]_vars => TypeOK'
<1> SUFFICES ASSUME TypeOK, Shaped, Leased, [Next]_vars PROVE TypeOK'
  OBVIOUS
<1> USE DEF TypeOK
<1>1. ASSUME NEW h \in Handlers, BeginCreate(h) PROVE TypeOK'
  BY <1>1, NewJobTypes, BeginsQuiet DEF BeginCreate, Quiet
<1>2. ASSUME NEW h \in Handlers, NEW r \in Rules, BeginUpdate(h, r) PROVE TypeOK'
  <2>1. rule[r].tunnel \in Tunnels
    BY <1>2 DEF BeginUpdate, Exists, Row
  <2>2. QED BY <1>2, <2>1, NewJobTypes, BeginsQuiet DEF BeginUpdate, Quiet
<1>3. ASSUME NEW h \in Handlers, NEW r \in Rules, NEW row \in Row, Prepare(h, r, row)
      PROVE  TypeOK'
  <2>1. job[h].kind = "update" => job[h].prev \in Tunnels
    BY <1>3 DEF Prepare, Shaped
  <2>2. job' \in [Handlers -> Job \cup {None}]
    BY <1>3, <2>1, PrepareJobs
  <2>3. QED BY <1>3, <2>2 DEF Prepare
<1>4. ASSUME NEW h \in Handlers, Commit(h) PROVE TypeOK'
  <2>1. job' \in [Handlers -> Job \cup {None}]
    BY <1>4, CommitQuiet DEF Quiet
  <2>2. Written(h) \subseteq Rules
    BY DEF Written
  <2>3. QED BY <1>4, <2>1, <2>2, CommitFacts
<1>5. ASSUME NEW h \in Handlers, Rollback(h) PROVE TypeOK'
  BY <1>5, EndsQuiet DEF Rollback, Quiet
<1>6. ASSUME NEW h \in Handlers, NEW r \in Rules, DeleteLeases(h, r) PROVE TypeOK'
  <2>1. PICK waits \in {FALSE} \cup {InTransaction(k) : k \in Updating(r)} :
          job' = [job EXCEPT ![h] = [NewJob("delete", r, None) EXCEPT !.waits = waits]]
    BY <1>6 DEF DeleteLeases
  <2>2. waits \in BOOLEAN
    BY <2>1 DEF InTransaction
  <2>3. [NewJob("delete", r, None) EXCEPT !.waits = waits] \in Job
    BY <2>2, NewJobTypes DEF Job
  <2>4. QED BY <1>6, <2>1, <2>3 DEF DeleteLeases
<1>7. ASSUME NEW h \in Handlers, DeleteRule(h) PROVE TypeOK'
  <2>1. job[h].rule \in Rules
    BY <1>7 DEF DeleteRule, Shaped
  <2>2. job' \in [Handlers -> Job \cup {None}]
    BY <1>7, EndsQuiet DEF DeleteRule, Quiet
  <2>3. /\ rule' \in [Rules -> Row \cup {None}] /\ leases' \subseteq Lease
        /\ overlapped' \subseteq Rules
    BY <1>7, <2>1 DEF DeleteRule
  <2>4. QED BY <1>7, <2>2, <2>3 DEF DeleteRule
<1>8. ASSUME NEW t \in Tunnels, NEW g \in Groups, MoveTunnel(t, g) PROVE TypeOK'
  <2>1. PICK S \in SUBSET Rules : strayed' = strayed \cup Stray(S)
    BY <1>8 DEF MoveTunnel
  <2>2. strayed' \subseteq SUBSET Rules
    BY <2>1, StrayFacts
  <2>3. QED BY <1>8, <2>2 DEF MoveTunnel
<1>9. ASSUME NEW r \in Rules, ReportViolation(r) PROVE TypeOK'
  <2>1. rule' \in [Rules -> Row \cup {None}]
    BY <1>9 DEF ReportViolation, Exists, Row
  <2>2. strayed' \subseteq SUBSET Rules
    BY <1>9, StrayFacts DEF ReportViolation
  <2>3. QED BY <1>9, <2>1, <2>2 DEF ReportViolation
<1>10. ASSUME NEW t \in Tunnels, DeleteGrant(t) PROVE TypeOK'
  BY <1>10 DEF DeleteGrant
<1>11. ASSUME NEW t \in Tunnels, NEW limit \in GrantLimits, SetGrant(t, limit) PROVE TypeOK'
  BY <1>11 DEF SetGrant
<1>12. ASSUME UNCHANGED vars PROVE TypeOK'
  BY <1>12 DEF vars
<1>13. QED
  BY <1>1, <1>2, <1>3, <1>4, <1>5, <1>6, <1>7, <1>8, <1>9, <1>10, <1>11, <1>12 DEF Next

-----------------------------------------------------------------------------
(* What requests write *)

\* Requests that go on keep their shape while rules disappear only with a note.
LEMMA QuietShaped ==
  ASSUME TypeOK, Shaped, Quiet, born' = born, overlapped \subseteq overlapped',
         \A r \in Rules : rule'[r] # None => Exists(r),
         \A k \in Busy' : k \in Busy /\ Stays(k),
         \A k \in Busy' : LET r == job[k].rule IN
           job[k].kind = "update" /\ Exists(r) => rule'[r] # None \/ r \in overlapped'
  PROVE  Shaped'
<1>1. \A r \in Rules : Exists(r)' => r \in born'
  BY DEF Shaped, Exists
<1>2. ASSUME NEW h \in Busy', job'[h].kind = "create", NEW r \in Rules, Writes(h, r)'
      PROVE  r \notin born' /\ \A k \in Busy' \ {h} : ~Writes(k, r)'
  BY <1>2, QuietWrites DEF Shaped, Stays
<1>3. ASSUME NEW h \in Busy', job'[h].kind = "update"
      PROVE  /\ job'[h].rule \in born' /\ job'[h].prev \in Tunnels
             /\ rule'[job'[h].rule] # None \/ job'[h].rule \in overlapped'
             /\ \A r \in Rules : Writes(h, r)' => r = job'[h].rule
  BY <1>3, QuietWrites DEF Shaped, Stays, Exists
<1>4. ASSUME NEW h \in Busy', job'[h].kind = "delete"
      PROVE  job'[h].rule \in Rules /\ job'[h].rows = NoRows
  BY <1>4 DEF Shaped, Stays, InTransaction
<1>5. QED BY <1>1, <1>2, <1>3, <1>4 DEF Shaped, Exists, InTransaction

\* A new request has the shape of its kind.
LEMMA BeginsShaped ==
  ASSUME TypeOK, Shaped, NEW h \in Handlers, Quiet, Busy' = Busy \cup {h},
         \A k \in Busy : Stays(k) /\ k # h, UNCHANGED <<rule, born, overlapped>>,
         job'[h].rows = NoRows,
         job'[h].kind = "update" =>
           Exists(job'[h].rule) /\ job'[h].rule \in Rules /\ job'[h].prev \in Tunnels,
         job'[h].kind = "delete" => job'[h].rule \in Rules
  PROVE  Shaped'
<1>1. \A r \in Rules : Exists(r)' => r \in born'
  BY DEF Shaped, Exists
<1>2. \A r \in Rules : ~Writes(h, r)'
  BY DEF Writes, NoRows
<1>3. ASSUME NEW k \in Busy', job'[k].kind = "create", NEW r \in Rules, Writes(k, r)'
      PROVE  r \notin born' /\ \A m \in Busy' \ {k} : ~Writes(m, r)'
  BY <1>2, <1>3, QuietWrites DEF Shaped, Stays
<1>4. ASSUME NEW k \in Busy', job'[k].kind = "update"
      PROVE  /\ job'[k].rule \in born' /\ job'[k].prev \in Tunnels
             /\ rule'[job'[k].rule] # None \/ job'[k].rule \in overlapped'
             /\ \A r \in Rules : Writes(k, r)' => r = job'[k].rule
  <2>1. CASE k = h
    BY <1>2, <1>4, <2>1 DEF Shaped, Exists
  <2>2. CASE k # h
    BY <1>4, <2>2, QuietWrites DEF Shaped, Stays, Exists
  <2>3. QED BY <2>1, <2>2
<1>5. ASSUME NEW k \in Busy', job'[k].kind = "delete"
      PROVE  job'[k].rule \in Rules /\ job'[k].rows = NoRows
  BY <1>5 DEF Shaped, Stays, InTransaction
<1>6. QED BY <1>1, <1>3, <1>4, <1>5 DEF Shaped, Exists, InTransaction

LEMMA PrepareShaped ==
  ASSUME TypeOK, Shaped, NEW h \in Handlers, NEW r \in Rules, NEW row \in Row,
         Prepare(h, r, row)
  PROVE  Shaped'
<1>1. /\ h \in Busy
      /\ job[h].kind = "update" => job[h].prev \in Tunnels
      /\ \/ job[h].kind = "create" /\ r \notin born /\ \A k \in Busy : ~Writes(k, r)
         \/ job[h].kind = "update" /\ job[h].rule = r
      /\ UNCHANGED <<rule, born, overlapped>>
  BY DEF Prepare, Shaped, Writes
<1>2. /\ Busy' = Busy /\ \A k \in Handlers \ {h} : job'[k] = job[k]
      /\ job'[h].kind = job[h].kind /\ job'[h].rule = job[h].rule
      /\ job'[h].prev = job[h].prev /\ job'[h].rows = [job[h].rows EXCEPT ![r] = row]
  BY <1>1, PrepareJobs
<1>3. job[h].rows \in [Rules -> Row \cup {None}]
  BY <1>1, JobTypes DEF Job
<1>4. \A k \in Busy : k \in Handlers
  BY JobTypes
<1>5. \A k \in Busy, s \in Rules : Writes(k, s)' => Writes(k, s) \/ (k = h /\ s = r)
  BY <1>2, <1>3, <1>4 DEF Writes
<1>6. ASSUME NEW k \in Busy', job'[k].kind = "create", NEW s \in Rules, Writes(k, s)'
      PROVE  s \notin born' /\ \A m \in Busy' \ {k} : ~Writes(m, s)'
  <2>1. job[k].kind = "create" /\ k \in Busy
    BY <1>2, <1>4, <1>6
  <2>2. CASE s = r
    <3>1. ASSUME job[h].kind = "update" PROVE ~Writes(k, r) /\ k # h
      BY <3>1, <1>1, <2>1 DEF Shaped
    <3>2. k = h /\ r \notin born /\ \A m \in Busy : ~Writes(m, r)
      BY <1>1, <1>5, <1>6, <2>1, <2>2, <3>1
    <3>3. QED BY <1>1, <1>2, <1>5, <2>2, <3>2
  <2>3. CASE s # r
    BY <1>1, <1>2, <1>5, <1>6, <2>1, <2>3 DEF Shaped
  <2>4. QED BY <2>2, <2>3
<1>7. ASSUME NEW k \in Busy', job'[k].kind = "update"
      PROVE  /\ job'[k].rule \in born' /\ job'[k].prev \in Tunnels
             /\ rule'[job'[k].rule] # None \/ job'[k].rule \in overlapped'
             /\ \A s \in Rules : Writes(k, s)' => s = job'[k].rule
  <2>1. /\ k \in Busy /\ job[k].kind = "update" /\ job'[k].rule = job[k].rule
        /\ job'[k].prev = job[k].prev
    BY <1>2, <1>4, <1>7
  <2>2. QED BY <1>1, <1>2, <1>5, <2>1 DEF Shaped, Exists
<1>8. ASSUME NEW k \in Busy', job'[k].kind = "delete"
      PROVE  job'[k].rule \in Rules /\ job'[k].rows = NoRows
  BY <1>1, <1>2, <1>4, <1>8 DEF Shaped, InTransaction
<1>9. QED BY <1>1, <1>6, <1>7, <1>8 DEF Shaped, Exists, InTransaction

LEMMA CommitShaped ==
  ASSUME TypeOK, Shaped, Leased, NEW h \in Handlers, Commit(h)
  PROVE  Shaped'
<1>1. /\ h \in Busy /\ born' = born \cup Written(h) /\ overlapped' = overlapped
      /\ rule \in [Rules -> Row \cup {None}]
      /\ \A r \in Rules : rule'[r] = IF Writes(h, r) THEN job[h].rows[r] ELSE rule[r]
  BY CommitFacts DEF TypeOK
<1>2. Quiet /\ Busy' = Busy \ {h} /\ \A k \in Busy' : Stays(k)
  BY CommitQuiet
<1>3. \A r \in Rules : Exists(r)' => r \in born'
  BY <1>1 DEF Shaped, Exists, Written
<1>4. ASSUME NEW k \in Busy', job'[k].kind = "create", NEW r \in Rules, Writes(k, r)'
      PROVE  r \notin born' /\ \A m \in Busy' \ {k} : ~Writes(m, r)'
  <2>1. Writes(k, r) /\ job[k].kind = "create" /\ k \in Busy /\ k # h
    BY <1>2, <1>4, QuietWrites DEF Stays
  <2>2. r \notin born /\ \A m \in Busy \ {k} : ~Writes(m, r)
    BY <2>1 DEF Shaped
  <2>3. QED BY <1>1, <1>2, <2>1, <2>2, QuietWrites DEF Written
<1>5. ASSUME NEW k \in Busy', job'[k].kind = "update"
      PROVE  /\ job'[k].rule \in born' /\ job'[k].prev \in Tunnels
             /\ rule'[job'[k].rule] # None \/ job'[k].rule \in overlapped'
             /\ \A r \in Rules : Writes(k, r)' => r = job'[k].rule
  <2>1. k \in Busy /\ job[k].kind = "update" /\ job'[k].rule = job[k].rule
        /\ job'[k].prev = job[k].prev
    BY <1>2, <1>5 DEF Stays
  <2>2. \A r \in Rules : Writes(k, r)' => Writes(k, r)
    BY <1>2, QuietWrites
  <2>3. job[k].rule \in Rules
    BY <2>1 DEF Shaped, TypeOK
  <2>4. Exists(job[k].rule) => rule'[job[k].rule] # None
    BY <1>1, <2>3 DEF Exists, Writes
  <2>5. QED BY <1>1, <2>1, <2>2, <2>4 DEF Shaped
<1>6. ASSUME NEW k \in Busy', job'[k].kind = "delete"
      PROVE  job'[k].rule \in Rules /\ job'[k].rows = NoRows
  BY <1>2, <1>6 DEF Shaped, Stays, InTransaction
<1>7. QED BY <1>3, <1>4, <1>5, <1>6 DEF Shaped, Exists, InTransaction

LEMMA DeleteShaped ==
  ASSUME TypeOK, Shaped, NEW h \in Handlers, DeleteRule(h)
  PROVE  Shaped'
<1> DEFINE r == job[h].rule
<1>1. /\ h \in Busy /\ r \in Rules /\ rule' = [rule EXCEPT ![r] = None]
      /\ overlapped' = IF Updating(r) # {} \/ job[h].spares
                         THEN overlapped \cup {r} ELSE overlapped
      /\ born' = born
  BY DEF DeleteRule, Shaped
<1>2. Quiet /\ Busy' = Busy \ {h} /\ \A k \in Busy' : Stays(k)
  BY EndsQuiet DEF DeleteRule
<1>3. \A s \in Rules : rule'[s] = IF s = r THEN None ELSE rule[s]
  BY <1>1 DEF TypeOK
<1>4. ASSUME NEW k \in Busy', job[k].kind = "update", Exists(job[k].rule)
      PROVE  rule'[job[k].rule] # None \/ job[k].rule \in overlapped'
  <2>1. k \in Busy /\ job[k].rule \in Rules
    BY <1>2, <1>4 DEF Shaped, TypeOK
  <2>2. job[k].rule = r => k \in Updating(r)
    BY <1>4, <2>1 DEF Updating
  <2>3. QED BY <1>1, <1>3, <1>4, <2>1, <2>2 DEF Exists
<1>5. QED BY <1>1, <1>2, <1>3, <1>4, QuietShaped DEF Exists

LEMMA NextShaped == TypeOK /\ Shaped /\ Leased /\ [Next]_vars => Shaped'
<1> SUFFICES ASSUME TypeOK, Shaped, Leased, [Next]_vars PROVE Shaped'
  OBVIOUS
<1>1. ASSUME NEW h \in Handlers, BeginCreate(h) PROVE Shaped'
  <2> DEFINE j == NewJob("create", None, None)
  <2>1. j \in Job /\ j.kind = "create" /\ j.rows = NoRows /\ j.leases = {} /\ j.groups = {}
        /\ j.grants = {}
    BY NewJobTypes
  <2>2. job[h] = None /\ job' = [job EXCEPT ![h] = j] /\ UNCHANGED <<rule, born, overlapped>>
    BY <1>1 DEF BeginCreate
  <2> HIDE DEF j
  <2>3. QED BY <2>1, <2>2, BeginsQuiet, BeginsShaped
<1>2. ASSUME NEW h \in Handlers, NEW r \in Rules, BeginUpdate(h, r) PROVE Shaped'
  <2>1. rule[r].tunnel \in Tunnels /\ Exists(r)
    BY <1>2 DEF BeginUpdate, Exists, Row, TypeOK
  <2> DEFINE j == NewJob("update", r, rule[r].tunnel)
  <2>2. j \in Job /\ j.kind = "update" /\ j.rule = r /\ j.prev \in Tunnels /\ j.rows = NoRows
        /\ j.leases = {} /\ j.groups = {} /\ j.grants = {}
    BY <2>1, NewJobTypes
  <2>3. job[h] = None /\ job' = [job EXCEPT ![h] = j] /\ UNCHANGED <<rule, born, overlapped>>
    BY <1>2 DEF BeginUpdate
  <2> HIDE DEF j
  <2>4. QED BY <2>1, <2>2, <2>3, BeginsQuiet, BeginsShaped
<1>3. ASSUME NEW h \in Handlers, NEW r \in Rules, NEW row \in Row, Prepare(h, r, row)
      PROVE  Shaped'
  BY <1>3, PrepareShaped
<1>4. ASSUME NEW h \in Handlers, Commit(h) PROVE Shaped'
  BY <1>4, CommitShaped
<1>5. ASSUME NEW h \in Handlers, Rollback(h) PROVE Shaped'
  BY <1>5, EndsQuiet, QuietShaped DEF Rollback, Exists
<1>6. ASSUME NEW h \in Handlers, NEW r \in Rules, DeleteLeases(h, r) PROVE Shaped'
  <2>1. PICK waits \in {FALSE} \cup {InTransaction(k) : k \in Updating(r)} :
          job' = [job EXCEPT ![h] = [NewJob("delete", r, None) EXCEPT !.waits = waits]]
    BY <1>6 DEF DeleteLeases
  <2> DEFINE j == [NewJob("delete", r, None) EXCEPT !.waits = waits]
  <2>2. waits \in BOOLEAN
    BY <2>1 DEF InTransaction
  <2>3. /\ j \in Job /\ j.kind = "delete" /\ j.rule = r /\ j.rows = NoRows /\ j.leases = {}
        /\ j.groups = {} /\ j.grants = {}
    BY <2>2, NewJobTypes DEF Job
  <2> HIDE DEF j
  <2>4. job[h] = None /\ job' = [job EXCEPT ![h] = j] /\ UNCHANGED <<rule, born, overlapped>>
    BY <1>6, <2>1 DEF DeleteLeases, j
  <2>5. QED BY <2>3, <2>4, BeginsQuiet, BeginsShaped
<1>7. ASSUME NEW h \in Handlers, DeleteRule(h) PROVE Shaped'
  BY <1>7, DeleteShaped
<1>8. ASSUME UNCHANGED <<rule, born, job, overlapped>> PROVE Shaped'
  BY <1>8, UnchangedQuiet, QuietShaped DEF Exists
<1>9. ASSUME NEW r \in Rules, ReportViolation(r) PROVE Shaped'
  <2>1. \A s \in Rules : rule'[s] # None <=> Exists(s)
    BY <1>9, NoneIsNoValue DEF ReportViolation, Exists, TypeOK, Row
  <2>2. UNCHANGED <<born, job, overlapped>>
    BY <1>9 DEF ReportViolation
  <2>3. \A k \in Busy : job[k].kind = "update" => job[k].rule \in Rules
    BY DEF Shaped, TypeOK
  <2>4. QED BY <2>1, <2>2, <2>3, UnchangedQuiet, QuietShaped DEF Exists
<1>10. QED
  BY <1>1, <1>2, <1>3, <1>4, <1>5, <1>6, <1>7, <1>8, <1>9
  DEF Next, MoveTunnel, SetGrant, DeleteGrant, vars

-----------------------------------------------------------------------------
(* Leases of requests *)

\* Only Prepare gives a row to a request.
LEMMA QuietOrPrepare ==
  ASSUME TypeOK, [Next]_vars,
         ~\E h \in Handlers, r \in Rules, row \in Row : Prepare(h, r, row)
  PROVE  Quiet
<1>1. ASSUME NEW h \in Handlers, BeginCreate(h) PROVE Quiet
  <2> DEFINE j == NewJob("create", None, None)
  <2>1. j \in Job /\ j.rows = NoRows /\ j.leases = {} /\ j.groups = {} /\ j.grants = {}
    BY NewJobTypes
  <2>2. job[h] = None /\ job' = [job EXCEPT ![h] = j]
    BY <1>1 DEF BeginCreate
  <2> HIDE DEF j
  <2>3. QED BY <2>1, <2>2, BeginsQuiet
<1>2. ASSUME NEW h \in Handlers, NEW r \in Rules, BeginUpdate(h, r) PROVE Quiet
  <2> DEFINE j == NewJob("update", r, rule[r].tunnel)
  <2>1. rule[r].tunnel \in Tunnels
    BY <1>2 DEF BeginUpdate, Exists, Row, TypeOK
  <2>2. j \in Job /\ j.rows = NoRows /\ j.leases = {} /\ j.groups = {} /\ j.grants = {}
    BY <2>1, NewJobTypes
  <2>3. job[h] = None /\ job' = [job EXCEPT ![h] = j]
    BY <1>2 DEF BeginUpdate
  <2> HIDE DEF j
  <2>4. QED BY <2>2, <2>3, BeginsQuiet
<1>3. ASSUME NEW h \in Handlers, NEW r \in Rules, DeleteLeases(h, r) PROVE Quiet
  <2>1. PICK waits \in {FALSE} \cup {InTransaction(k) : k \in Updating(r)} :
          job' = [job EXCEPT ![h] = [NewJob("delete", r, None) EXCEPT !.waits = waits]]
    BY <1>3 DEF DeleteLeases
  <2> DEFINE j == [NewJob("delete", r, None) EXCEPT !.waits = waits]
  <2>2. waits \in BOOLEAN
    BY <2>1 DEF InTransaction
  <2>3. j \in Job /\ j.rows = NoRows /\ j.leases = {} /\ j.groups = {} /\ j.grants = {}
    BY <2>2, NewJobTypes DEF Job
  <2> HIDE DEF j
  <2>4. job[h] = None /\ job' = [job EXCEPT ![h] = j]
    BY <1>3, <2>1 DEF DeleteLeases, j
  <2>5. QED BY <2>3, <2>4, BeginsQuiet
<1>4. ASSUME NEW h \in Handlers, Commit(h) PROVE Quiet
  BY <1>4, CommitQuiet
<1>5. ASSUME NEW h \in Handlers, Rollback(h) \/ DeleteRule(h) PROVE Quiet
  BY <1>5, EndsQuiet DEF Rollback, DeleteRule
<1>6. ASSUME UNCHANGED job PROVE Quiet
  BY <1>6, UnchangedQuiet
<1>7. QED
  BY <1>1, <1>2, <1>3, <1>4, <1>5, <1>6
  DEF Next, MoveTunnel, ReportViolation, SetGrant, DeleteGrant, vars

LEMMA PrepareLeased ==
  ASSUME TypeOK, Shaped, Leased, NEW h \in Handlers, NEW r \in Rules, NEW row \in Row,
         Prepare(h, r, row)
  PROVE  /\ Leased'
         /\ \A k \in Busy, s \in Rules : Writes(k, s) =>
              /\ Writes(k, s)' /\ job'[k].rows[s] = job[k].rows[s]
              /\ JobLeases(k, s)' = JobLeases(k, s) /\ ~(k = h /\ s = r)
         /\ \A k \in Busy, s \in Rules :
              Writes(k, s)' => Writes(k, s) \/ (k = h /\ s = r /\ job'[k].rows[s] = row)
         /\ Writes(h, r)' /\ job'[h].rows[r] = row /\ ~Writes(h, r)
<1>1. /\ h \in Busy /\ ~Writes(h, r)
      /\ job[h].kind = "update" => job[h].prev \in Tunnels
  BY DEF Prepare, Shaped, Writes
<1>2. /\ job' \in [Handlers -> Job \cup {None}] /\ Busy' = Busy
      /\ \A k \in Handlers \ {h} : job'[k] = job[k]
      /\ job'[h].rows = [job[h].rows EXCEPT ![r] = row]
      /\ job'[h].leases = job[h].leases \cup NeededLeases(r, row)
      /\ job[h].groups \cup {entry[row.tunnel]} \subseteq job'[h].groups
  BY <1>1, PrepareJobs
<1>3. /\ job[h].rows \in [Rules -> Row \cup {None}] /\ row # None
      /\ \A k \in Busy : k \in Handlers
  BY <1>1, JobTypes, NoneIsNoValue DEF Job
<1>4. entry[row.tunnel] \in Groups
  BY DEF TypeOK, Row
<1>5. /\ NeededLeases(r, row) = LeasesAt(r, row, entry[row.tunnel])
      /\ \A l \in NeededLeases(r, row) : l.rule = r
  BY <1>4, LeasesAtFacts
<1>6. Writes(h, r)' /\ job'[h].rows[r] = row
      /\ \A s \in Rules \ {r} : job'[h].rows[s] = job[h].rows[s]
  BY <1>2, <1>3 DEF Writes
<1>7. \A s \in Rules \ {r} : JobLeases(h, s)' = JobLeases(h, s)
  BY <1>2, <1>5 DEF JobLeases
<1>8. JobLeases(h, r)' = NeededLeases(r, row)
  <2>1. \A l \in job[h].leases : l.rule # r
    BY <1>1 DEF Leased
  <2>2. QED BY <1>2, <1>5, <2>1 DEF JobLeases
<1>9. \A k \in Busy, s \in Rules : Writes(k, s) =>
        /\ Writes(k, s)' /\ job'[k].rows[s] = job[k].rows[s]
        /\ JobLeases(k, s)' = JobLeases(k, s) /\ ~(k = h /\ s = r)
  BY <1>1, <1>2, <1>3, <1>6, <1>7 DEF Writes, JobLeases
<1>10. \A k \in Busy, s \in Rules :
         Writes(k, s)' => Writes(k, s) \/ (k = h /\ s = r /\ job'[k].rows[s] = row)
  BY <1>2, <1>3, <1>6 DEF Writes
<1>11. ASSUME NEW k \in Busy', NEW l \in job'[k].leases PROVE Writes(k, l.rule)'
  <2>1. CASE l \in job[k].leases
    <3>1. k \in Busy /\ Writes(k, l.rule)
      BY <1>2, <2>1 DEF Leased
    <3>2. l.rule \in Rules
      BY <2>1, <3>1, JobTypes DEF Job, Lease
    <3>3. QED BY <1>9, <3>1, <3>2
  <2>2. CASE l \notin job[k].leases
    <3>1. k = h /\ l.rule = r
      BY <1>2, <1>3, <1>5, <1>11, <2>2
    <3>2. QED BY <1>6, <3>1
  <2>3. QED BY <2>1, <2>2
<1>12. ASSUME NEW k \in Busy', NEW s \in Rules, Writes(k, s)'
       PROVE  \E g \in job'[k].groups : JobLeases(k, s)' = LeasesAt(s, job'[k].rows[s], g)
  <2>1. CASE k = h /\ s = r
    BY <1>2, <1>5, <1>6, <1>8, <2>1
  <2>2. CASE ~(k = h /\ s = r)
    <3>1. k \in Busy /\ Writes(k, s)
      BY <1>2, <1>10, <1>12, <2>2
    <3>2. PICK g \in job[k].groups : JobLeases(k, s) = LeasesAt(s, job[k].rows[s], g)
      BY <3>1 DEF Leased
    <3>3. g \in job'[k].groups
      BY <1>2, <1>3, <3>1
    <3>4. QED BY <1>9, <3>1, <3>2, <3>3
  <2>3. QED BY <2>1, <2>2
<1>13. QED BY <1>1, <1>6, <1>9, <1>10, <1>11, <1>12 DEF Leased

LEMMA QuietLeased == ASSUME TypeOK, Leased, Quiet PROVE Leased'
<1>1. ASSUME NEW k \in Busy', NEW l \in job'[k].leases PROVE Writes(k, l.rule)'
  <2>1. Stays(k)
    BY <1>1 DEF Quiet, Fresh
  <2>2. QED BY <1>1, <2>1 DEF Stays, Leased, Writes
<1>2. ASSUME NEW k \in Busy', NEW s \in Rules, Writes(k, s)'
      PROVE  \E g \in job'[k].groups : JobLeases(k, s)' = LeasesAt(s, job'[k].rows[s], g)
  <2>1. Stays(k) /\ Writes(k, s) /\ JobLeases(k, s)' = JobLeases(k, s)
    BY <1>2, QuietWrites
  <2>2. QED BY <2>1 DEF Stays, Leased
<1>3. QED BY <1>1, <1>2 DEF Leased

LEMMA NextLeased == TypeOK /\ Shaped /\ Leased /\ [Next]_vars => Leased'
BY PrepareLeased, QuietOrPrepare, QuietLeased

-----------------------------------------------------------------------------
(* Grants *)

\* Rules are counted one by one.
LEMMA CountOn ==
  ASSUME TypeOK
  PROVE  /\ \A t \in Tunnels : CountRules(rule, {t}, None) = Cardinality(Committed(t))
         /\ \A h \in Busy, t \in Tunnels, r \in Rules :
              CountRules(View(h), {t}, r) = Cardinality(Seen(h, t) \ {r})
         /\ \A t \in Tunnels : IsFiniteSet(Committed(t)) /\ Cardinality(Committed(t)) \in Nat
         /\ \A h \in Busy, t \in Tunnels, r \in Rules :
              IsFiniteSet(Seen(h, t) \ {r}) /\ Cardinality(Seen(h, t) \ {r}) \in Nat
<1>1. ASSUME NEW t \in Tunnels
      PROVE  /\ CountRules(rule, {t}, None) = Cardinality(Committed(t))
             /\ Committed(t) \subseteq Rules
  <2>1. {s \in Rules \ {None} : rule[s] # None /\ rule[s].tunnel \in {t}} = Committed(t)
    BY NoneIsNoValue DEF Committed, Exists
  <2>2. QED BY <2>1 DEF CountRules, Committed
<1>2. ASSUME NEW h \in Busy, NEW t \in Tunnels, NEW r \in Rules
      PROVE  /\ CountRules(View(h), {t}, r) = Cardinality(Seen(h, t) \ {r})
             /\ Seen(h, t) \ {r} \subseteq Rules
  <2>1. \A s \in Rules : View(h)[s] = IF Writes(h, s) THEN job[h].rows[s] ELSE rule[s]
    BY ViewTypes
  <2>2. {s \in Rules \ {r} : View(h)[s] # None /\ View(h)[s].tunnel \in {t}}
          = Seen(h, t) \ {r}
    BY <2>1 DEF Seen, Exists, Writes
  <2>3. QED BY <2>2 DEF CountRules, Seen
<1>3. \A S \in SUBSET Rules : IsFiniteSet(S) /\ Cardinality(S) \in Nat
  BY RuleConstants, FS_Subset, FS_CardinalityType
<1>4. QED BY <1>1, <1>2, <1>3

\* Fewer rules are within a limit that more are within.
LEMMA WithinLess ==
  ASSUME NEW T \in SUBSET Rules, NEW S \in SUBSET T, NEW limit \in Nat \cup {None},
         Within(limit, T)
  PROVE  Within(limit, S)
<1>1. /\ IsFiniteSet(T) /\ Cardinality(S) <= Cardinality(T)
      /\ Cardinality(S) \in Nat /\ Cardinality(T) \in Nat
  BY RuleConstants, FS_Subset, FS_CardinalityType
<1>2. T = {} => S = {}
  OBVIOUS
<1>3. QED BY <1>1, <1>2, NoneIsNoValue DEF Within

LEMMA GrantTypes ==
  ASSUME TypeOK
  PROVE  /\ \A t \in Tunnels : grant[t] \in Nat \cup {None}
         /\ \A t \in Tunnels : Committed(t) \in SUBSET Rules
         /\ \A h \in Busy : \A t : Seen(h, t) \in SUBSET Rules
         /\ \A h \in Busy : job[h].grants \subseteq Tunnels
         /\ \A h \in Busy, r \in Rules : Writes(h, r) => job[h].rows[r] \in Row
BY RuleConstants, JobTypes, ViewTypes DEF TypeOK, Committed, Seen, Job

\* Fewer rules, and nobody's grant touched.
LEMMA QuietGranted ==
  ASSUME TypeOK, Respected, Granted, Quiet, grant' = grant,
         \A t \in Tunnels : Committed(t)' \subseteq Committed(t)
  PROVE  Respected' /\ Granted'
<1>1. Respected'
  BY GrantTypes, WithinLess DEF Respected
<1>2. ASSUME NEW h \in Busy', NEW k \in Busy', h # k
      PROVE  job'[h].grants \cap job'[k].grants = {}
  BY <1>2 DEF Granted, Quiet, Stays, Fresh
<1>3. ASSUME NEW h \in Busy', NEW r \in Rules, Writes(h, r)'
      PROVE  job'[h].rows[r].tunnel \in job'[h].grants
  BY <1>3, QuietWrites DEF Granted, Stays
<1>4. ASSUME NEW h \in Busy', NEW t \in job'[h].grants PROVE Within(grant'[t], Seen(h, t)')
  <2>1. Stays(h) /\ t \in job[h].grants /\ t \in Tunnels
    BY <1>4, GrantTypes DEF Quiet, Fresh, Stays
  <2>2. Seen(h, t)' \subseteq Seen(h, t)
    BY <2>1 DEF Stays, Seen, Writes, Committed, Exists
  <2>3. Within(grant[t], Seen(h, t)) /\ h \in Busy
    BY <2>1 DEF Granted, Stays
  <2>4. QED BY <2>1, <2>2, <2>3, GrantTypes, WithinLess
<1>5. QED BY <1>1, <1>2, <1>3, <1>4 DEF Granted

\* A row that passed the check is the one more that the grant allows.
LEMMA PrepareGranted ==
  ASSUME TypeOK, Shaped, Leased, Respected, Granted,
         NEW h \in Handlers, NEW r \in Rules, NEW row \in Row, Prepare(h, r, row)
  PROVE  Respected' /\ Granted'
<1>0. job[h].kind = "update" => job[h].prev \in Tunnels
  BY DEF Prepare, Shaped
<1>1. /\ h \in Busy
      /\ \A k \in Busy \ {h} : job[k].grants \cap {row.tunnel} = {}
      /\ grant[row.tunnel] # None /\ UNCHANGED <<grant, rule>>
      /\ Below(CountRules(View(h), {row.tunnel}, r), grant[row.tunnel])
  BY DEF Prepare, LocksFree
<1>2. /\ Busy' = Busy /\ \A k \in Handlers \ {h} : job'[k] = job[k]
      /\ job'[h].grants = job[h].grants \cup {row.tunnel}
  BY <1>0, PrepareJobs
<1>3. /\ \A k \in Busy, s \in Rules : Writes(k, s) =>
           Writes(k, s)' /\ job'[k].rows[s] = job[k].rows[s]
      /\ \A k \in Busy, s \in Rules :
           Writes(k, s)' => Writes(k, s) \/ (k = h /\ s = r /\ job'[k].rows[s] = row)
      /\ Writes(h, r)' /\ job'[h].rows[r] = row
  BY PrepareLeased
<1>4. Respected'
  BY <1>1 DEF Respected, Committed, Exists
<1>5. \A k \in Busy : k \in Handlers
  BY JobTypes
<1>6. ASSUME NEW i \in Busy', NEW k \in Busy', i # k
      PROVE  job'[i].grants \cap job'[k].grants = {}
  <2>1. job[i].grants \cap job[k].grants = {}
    BY <1>2, <1>6 DEF Granted
  <2>2. QED BY <1>1, <1>2, <1>5, <1>6, <2>1
<1>7. ASSUME NEW k \in Busy', NEW s \in Rules, Writes(k, s)'
      PROVE  job'[k].rows[s].tunnel \in job'[k].grants
  <2>1. CASE k = h /\ s = r
    BY <1>2, <1>3, <2>1
  <2>2. CASE ~(k = h /\ s = r)
    <3>1. Writes(k, s) /\ job'[k].rows[s] = job[k].rows[s] /\ k \in Busy
      BY <1>2, <1>3, <1>7, <2>2
    <3>2. QED BY <1>2, <1>5, <3>1 DEF Granted
  <2>3. QED BY <2>1, <2>2
<1>8. ASSUME NEW t \in Tunnels PROVE Seen(h, t)' \subseteq Seen(h, t) \cup {r}
  BY <1>1, <1>3 DEF Seen, Exists
<1>9. ASSUME NEW t \in Tunnels, t # row.tunnel PROVE Seen(h, t)' \subseteq Seen(h, t)
  BY <1>1, <1>3, <1>9 DEF Seen, Exists
<1>10. Within(grant'[row.tunnel], Seen(h, row.tunnel)')
  <2> DEFINE t == row.tunnel
             S == Seen(h, t) \ {r}
  <2>1. t \in Tunnels
    BY DEF Row
  <2>2. /\ IsFiniteSet(S) /\ Cardinality(S) \in Nat
        /\ Below(Cardinality(S), grant[t]) /\ grant[t] \in Nat
    BY <1>1, <2>1, CountOn, GrantTypes
  <2>3. Seen(h, t)' \subseteq S \cup {r}
    BY <1>8, <2>1
  <2>4. /\ IsFiniteSet(S \cup {r}) /\ r \notin S
        /\ Cardinality(S \cup {r}) = Cardinality(S) + 1
    BY <2>2, FS_AddElement
  <2>5. Cardinality(Seen(h, t)') <= Cardinality(S) + 1 /\ Cardinality(Seen(h, t)') \in Nat
    BY <2>3, <2>4, FS_Subset, FS_CardinalityType
  <2> HIDE DEF S, t
  <2>6. QED BY <1>1, <2>2, <2>5 DEF Within, Below, t
<1>11. ASSUME NEW k \in Busy', NEW t \in job'[k].grants
       PROVE  Within(grant'[t], Seen(k, t)')
  <2>1. CASE k = h /\ t = row.tunnel
    BY <1>10, <2>1
  <2>2. CASE k = h /\ t # row.tunnel
    <3>1. t \in job[h].grants /\ t \in Tunnels
      BY <1>1, <1>2, <1>11, <2>2, GrantTypes
    <3>2. Within(grant[t], Seen(h, t))
      BY <1>1, <3>1 DEF Granted
    <3>3. QED BY <1>1, <1>9, <2>2, <3>1, <3>2, GrantTypes, WithinLess
  <2>3. CASE k # h
    <3>1. k \in Busy /\ job'[k] = job[k] /\ t \in job[k].grants
      BY <1>2, <1>5, <1>11, <2>3
    <3>2. Seen(k, t)' = Seen(k, t)
      BY <1>1, <3>1 DEF Seen, Writes, Exists
    <3>3. QED BY <1>1, <3>1, <3>2 DEF Granted
  <2>4. QED BY <2>1, <2>2, <2>3
<1>12. QED BY <1>4, <1>6, <1>7, <1>11 DEF Granted

\* What is committed is what the request saw, and what it had locked nobody
\* else saw change.
LEMMA CommitGranted ==
  ASSUME TypeOK, Leased, Respected, Granted, NEW h \in Handlers, Commit(h)
  PROVE  Respected' /\ Granted'
<1>1. /\ h \in Busy /\ grant' = grant
      /\ \A r \in Rules : rule'[r] = IF Writes(h, r) THEN job[h].rows[r] ELSE rule[r]
  BY CommitFacts
<1>2. Quiet /\ Busy' = Busy \ {h} /\ \A k \in Busy' : Stays(k)
  BY CommitQuiet
<1>3. ASSUME NEW t \in Tunnels PROVE Committed(t)' \subseteq Seen(h, t)
  BY <1>1 DEF Committed, Seen, Exists
<1>4. ASSUME NEW t \in Tunnels, t \notin job[h].grants PROVE Committed(t)' \subseteq Committed(t)
  BY <1>1, <1>4 DEF Committed, Exists, Granted
<1>5. ASSUME NEW t \in Tunnels PROVE Within(grant'[t], Committed(t)')
  <2>1. CASE t \in job[h].grants
    BY <1>1, <1>3, <2>1, GrantTypes, WithinLess DEF Granted
  <2>2. CASE t \notin job[h].grants
    BY <1>1, <1>4, <2>2, GrantTypes, WithinLess DEF Respected
  <2>3. QED BY <2>1, <2>2
<1>6. ASSUME NEW i \in Busy', NEW k \in Busy', i # k
      PROVE  job'[i].grants \cap job'[k].grants = {}
  BY <1>2, <1>6 DEF Granted, Stays
<1>7. ASSUME NEW k \in Busy', NEW s \in Rules, Writes(k, s)'
      PROVE  job'[k].rows[s].tunnel \in job'[k].grants
  BY <1>2, <1>7, QuietWrites DEF Granted, Stays
<1>8. ASSUME NEW k \in Busy', NEW t \in job'[k].grants PROVE Within(grant'[t], Seen(k, t)')
  <2>1. k \in Busy /\ k # h /\ Stays(k) /\ t \in job[k].grants /\ t \in Tunnels
    BY <1>2, <1>8, GrantTypes DEF Stays
  <2>2. t \notin job[h].grants
    BY <1>1, <2>1 DEF Granted
  <2>3. \A s \in Rules : Writes(k, s)' <=> Writes(k, s)
    BY <2>1 DEF Stays, Writes
  <2>4. Seen(k, t)' \subseteq Seen(k, t)
    <3>1. ASSUME NEW s \in Seen(k, t)' PROVE s \in Seen(k, t)
      <4>1. CASE Writes(k, s)
        BY <2>1, <2>3, <3>1, <4>1 DEF Seen, Stays
      <4>2. CASE ~Writes(k, s)
        <5>1. s \in Committed(t)'
          BY <2>3, <3>1, <4>2 DEF Seen, Committed
        <5>2. QED BY <1>4, <2>1, <2>2, <4>2, <5>1 DEF Seen, Committed
      <4>3. QED BY <4>1, <4>2
    <3>2. QED BY <3>1
  <2>5. QED BY <1>1, <2>1, <2>4, GrantTypes, WithinLess DEF Granted
<1>9. QED BY <1>5, <1>6, <1>7, <1>8 DEF Respected, Granted

\* A grant is written while nobody has it locked.
LEMMA LimitGranted ==
  ASSUME TypeOK, Respected, Granted, NEW t \in Tunnels, UNCHANGED <<rule, job>>,
         \A k \in Busy : t \notin job[k].grants,
         \A u \in Tunnels \ {t} : grant'[u] = grant[u],
         Within(grant'[t], Committed(t))
  PROVE  Respected' /\ Granted'
<1>1. \A u \in Tunnels : Committed(u)' = Committed(u)
  BY DEF Committed, Exists
<1>2. \A k \in Busy, u \in Tunnels : Seen(k, u)' = Seen(k, u)
  BY DEF Seen, Writes, Exists
<1>3. Busy' = Busy /\ \A k \in Busy, r \in Rules : Writes(k, r)' = Writes(k, r)
  BY DEF Busy, Writes
<1>4. Respected'
  BY <1>1 DEF Respected
<1>5. ASSUME NEW k \in Busy, NEW u \in job[k].grants PROVE Within(grant'[u], Seen(k, u)')
  BY <1>2, GrantTypes DEF Granted
<1>6. QED BY <1>3, <1>4, <1>5 DEF Granted

LEMMA NextGranted ==
  TypeOK /\ Shaped /\ Leased /\ Respected /\ Granted /\ [Next]_vars => Respected' /\ Granted'
<1> SUFFICES ASSUME TypeOK, Shaped, Leased, Respected, Granted, [Next]_vars
             PROVE  Respected' /\ Granted'
  OBVIOUS
<1>1. ASSUME NEW h \in Handlers, NEW r \in Rules, NEW row \in Row, Prepare(h, r, row)
      PROVE  Respected' /\ Granted'
  BY <1>1, PrepareGranted
<1>2. ASSUME NEW h \in Handlers, Commit(h) PROVE Respected' /\ Granted'
  BY <1>2, CommitGranted
<1>3. ASSUME NEW t \in Tunnels, NEW limit \in GrantLimits, SetGrant(t, limit)
      PROVE  Respected' /\ Granted'
  <2>1. /\ UNCHANGED <<rule, job>> /\ \A k \in Busy : t \notin job[k].grants
        /\ grant' = [grant EXCEPT ![t] = limit]
        /\ grant[t] # None => limit = 0 \/ Cardinality(Committed(t)) <= limit
    BY <1>3, CountOn DEF SetGrant
  <2>2. Within(grant'[t], Committed(t))
    BY <2>1, RuleConstants, NoneIsNoValue DEF Within, Respected, TypeOK
  <2>3. \A u \in Tunnels \ {t} : grant'[u] = grant[u]
    BY <2>1 DEF TypeOK
  <2>4. QED BY <2>1, <2>2, <2>3, LimitGranted
<1>4. ASSUME NEW t \in Tunnels, DeleteGrant(t) PROVE Respected' /\ Granted'
  <2>1. /\ UNCHANGED <<rule, job>> /\ \A k \in Busy : t \notin job[k].grants
        /\ grant' = [grant EXCEPT ![t] = None]
        /\ Cardinality(Committed(t)) = 0 /\ IsFiniteSet(Committed(t))
    BY <1>4, CountOn DEF DeleteGrant
  <2>2. Within(grant'[t], Committed(t))
    BY <2>1, FS_EmptySet DEF Within
  <2>3. \A u \in Tunnels \ {t} : grant'[u] = grant[u]
    BY <2>1 DEF TypeOK
  <2>4. QED BY <2>1, <2>2, <2>3, LimitGranted
<1>5. ASSUME Quiet, grant' = grant, rule' = rule PROVE Respected' /\ Granted'
  BY <1>5, QuietGranted DEF Committed, Exists
<1>6. ASSUME NEW h \in Handlers, DeleteRule(h) PROVE Respected' /\ Granted'
  <2>1. Quiet /\ grant' = grant
    BY <1>6, EndsQuiet DEF DeleteRule
  <2>2. \A t \in Tunnels : Committed(t)' \subseteq Committed(t)
    BY <1>6 DEF DeleteRule, Committed, Exists, TypeOK
  <2>3. QED BY <2>1, <2>2, QuietGranted
<1>7. ASSUME NEW r \in Rules, ReportViolation(r) PROVE Respected' /\ Granted'
  <2>1. Quiet /\ grant' = grant
    BY <1>7, UnchangedQuiet DEF ReportViolation
  <2>2. /\ rule[r] \in Row /\ rule' = [rule EXCEPT ![r] = [rule[r] EXCEPT !.enabled = TRUE]]
    BY <1>7 DEF ReportViolation, Exists, TypeOK
  <2>3. \A s \in Rules : rule'[s] # None => rule[s] # None /\ rule'[s].tunnel = rule[s].tunnel
    BY <2>2, NoneIsNoValue DEF TypeOK, Row
  <2>4. \A t \in Tunnels : Committed(t)' \subseteq Committed(t)
    BY <2>3 DEF Committed, Exists
  <2>5. QED BY <2>1, <2>4, QuietGranted
<1>8. CASE \E h \in Handlers, r \in Rules, row \in Row : Prepare(h, r, row)
  BY <1>1, <1>8
<1>9. CASE ~\E h \in Handlers, r \in Rules, row \in Row : Prepare(h, r, row)
  <2>1. Quiet
    BY <1>9, QuietOrPrepare
  <2>2. QED
    BY <1>2, <1>3, <1>4, <1>5, <1>6, <1>7, <1>9, <2>1
    DEF Next, BeginCreate, BeginUpdate, DeleteLeases, Rollback, MoveTunnel, vars
<1>10. QED BY <1>8, <1>9

-----------------------------------------------------------------------------
(* Ports *)

\* Who asks for a port behind a group its request has not locked, has leases for
\* another one.
LEMMA MovedOrLocked ==
  ASSUME TypeOK, Leased, NEW k \in Busy, NEW r \in Rules, Writes(k, r),
         job[k].rows[r].enabled, entry[job[k].rows[r].tunnel] \notin job[k].groups
  PROVE  Moved(k, r)
<1>1. job[k].rows[r] \in Row /\ job[k].groups \subseteq Groups
  BY GrantTypes, JobTypes DEF Job
<1>2. PICK g \in job[k].groups : JobLeases(k, r) = LeasesAt(r, job[k].rows[r], g)
  BY DEF Leased
<1>3. /\ \A l \in JobLeases(k, r) : l.group = g
      /\ JobLeases(k, r) # {}
  BY <1>1, <1>2, LeasesAtFacts
<1>4. QED BY <1>2, <1>3 DEF Moved

LEMMA ClashSymmetric ==
  ASSUME NEW groups, NEW a, NEW b, Clash(groups, a, b)
  PROVE  Clash(groups, b, a)
BY DEF Clash

\* What passed the check clashes with nothing the request sees, and with a row
\* of another request only if that was moved.
LEMMA PrepareFits ==
  ASSUME TypeOK, Leased, NEW h \in Handlers, NEW r \in Rules, NEW row \in Row,
         Prepare(h, r, row)
  PROVE  /\ \A s \in Rules \ {r} : Writes(h, s) =>
              ~Clash(entry, row, job[h].rows[s]) /\ ~Clash(entry, job[h].rows[s], row)
         /\ \A s \in Rules \ {r} : ~Writes(h, s) /\ Exists(s) =>
              ~Clash(entry, row, rule[s]) /\ ~Clash(entry, rule[s], row)
         /\ \A k \in Busy \ {h}, s \in Rules \ {r} :
              Writes(k, s) /\ (\/ Clash(entry, row, job[k].rows[s])
                               \/ Clash(entry, job[k].rows[s], row)) => Moved(k, s)
<1>1. h \in Busy /\ ~PortInUse(h, r, row)
  BY DEF Prepare
<1>2. \A s \in Rules : View(h)[s] = IF Writes(h, s) THEN job[h].rows[s] ELSE rule[s]
  BY <1>1, ViewTypes
<1>3. \A s \in Rules \ {r} : View(h)[s] # None =>
        ~Clash(entry, row, View(h)[s]) /\ ~Clash(entry, View(h)[s], row)
  BY <1>1 DEF PortInUse, Clash
<1>4. \A s \in Rules \ {r} : Writes(h, s) =>
        ~Clash(entry, row, job[h].rows[s]) /\ ~Clash(entry, job[h].rows[s], row)
  BY <1>2, <1>3 DEF Writes
<1>5. \A s \in Rules \ {r} : ~Writes(h, s) /\ Exists(s) =>
        ~Clash(entry, row, rule[s]) /\ ~Clash(entry, rule[s], row)
  BY <1>2, <1>3 DEF Exists
<1>6. ASSUME NEW k \in Busy \ {h}, NEW s \in Rules \ {r}, Writes(k, s),
             \/ Clash(entry, row, job[k].rows[s]) \/ Clash(entry, job[k].rows[s], row)
      PROVE  Moved(k, s)
  <2>1. job[k].rows[s].enabled /\ entry[job[k].rows[s].tunnel] = entry[row.tunnel]
    BY <1>6 DEF Clash
  <2>2. entry[row.tunnel] \notin job[k].groups
    BY DEF Prepare, LocksFree
  <2>3. QED BY <1>6, <2>1, <2>2, MovedOrLocked
<1>7. QED BY <1>4, <1>5, <1>6

LEMMA PrepareSeparate ==
  ASSUME TypeOK, Shaped, Leased, PortsExclusive, Separate,
         NEW h \in Handlers, NEW r \in Rules, NEW row \in Row, Prepare(h, r, row)
  PROVE  PortsExclusive' /\ Separate'
<1>1. h \in Busy /\ UNCHANGED <<entry, rule, strayed>>
  BY DEF Prepare
<1>2. Busy' = Busy
  <2>1. job[h].kind = "update" => job[h].prev \in Tunnels
    BY <1>1 DEF Shaped
  <2>2. QED BY <2>1, PrepareJobs
<1>3. PortsExclusive'
  BY <1>1 DEF PortsExclusive, Conflict, Exists
<1>4. /\ \A k \in Busy, s \in Rules : Writes(k, s) =>
           /\ Writes(k, s)' /\ job'[k].rows[s] = job[k].rows[s]
           /\ JobLeases(k, s)' = JobLeases(k, s) /\ ~(k = h /\ s = r)
      /\ \A k \in Busy, s \in Rules :
           Writes(k, s)' => Writes(k, s) \/ (k = h /\ s = r /\ job'[k].rows[s] = row)
  BY PrepareLeased
<1>5. \A k \in Busy, s \in Rules : Writes(k, s) /\ Moved(k, s) => Moved(k, s)'
  BY <1>1, <1>4 DEF Moved
<1>6. ASSUME NEW k \in Busy', NEW x \in Rules, NEW y \in Rules, Writes(k, x)', x # y,
             Writes(k, y)', Clash(entry', job'[k].rows[x], job'[k].rows[y])
      PROVE  {x, y} \in strayed'
  <2>1. CASE Writes(k, x) /\ Writes(k, y)
    BY <1>1, <1>2, <1>4, <1>6, <2>1 DEF Separate
  <2>2. CASE k = h /\ x = r /\ Writes(k, y)
    BY <1>1, <1>4, <1>6, <2>2, PrepareFits
  <2>3. CASE k = h /\ y = r /\ Writes(k, x)
    BY <1>1, <1>4, <1>6, <2>3, PrepareFits
  <2>4. QED BY <1>2, <1>4, <1>6, <2>1, <2>2, <2>3
<1>7. ASSUME NEW k \in Busy', NEW x \in Rules, NEW y \in Rules, Writes(k, x)', x # y,
             ~Writes(k, y)', Exists(y)', Clash(entry', job'[k].rows[x], rule'[y])
      PROVE  {x, y} \in strayed' \/ Moved(k, x)'
  <2>1. ~Writes(k, y) /\ Exists(y)
    BY <1>1, <1>2, <1>4, <1>7 DEF Exists
  <2>2. CASE Writes(k, x)
    BY <1>1, <1>2, <1>4, <1>5, <1>7, <2>1, <2>2 DEF Separate
  <2>3. CASE k = h /\ x = r
    BY <1>1, <1>4, <1>7, <2>1, <2>3, PrepareFits
  <2>4. QED BY <1>2, <1>4, <1>7, <2>2, <2>3
<1>8. ASSUME NEW k \in Busy', NEW m \in Busy' \ {k}, NEW x \in Rules, NEW y \in Rules,
             Writes(k, x)', x # y, Writes(m, y)',
             Clash(entry', job'[k].rows[x], job'[m].rows[y])
      PROVE  {x, y} \in strayed' \/ Moved(k, x)' \/ Moved(m, y)'
  <2>1. CASE Writes(k, x) /\ Writes(m, y)
    BY <1>1, <1>2, <1>4, <1>5, <1>8, <2>1 DEF Separate
  <2>2. CASE k = h /\ x = r /\ Writes(m, y)
    BY <1>1, <1>2, <1>4, <1>5, <1>8, <2>2, PrepareFits
  <2>3. CASE m = h /\ y = r /\ Writes(k, x)
    BY <1>1, <1>2, <1>4, <1>5, <1>8, <2>3, PrepareFits
  <2>4. QED BY <1>2, <1>4, <1>8, <2>1, <2>2, <2>3
<1>9. QED BY <1>3, <1>6, <1>7, <1>8 DEF Separate

\* Nothing new asks for a port.
LEMMA QuietSeparate ==
  ASSUME TypeOK, PortsExclusive, Separate, Quiet, entry' = entry, strayed' = strayed,
         \A r \in Rules : rule'[r] # None => rule'[r] = rule[r]
  PROVE  PortsExclusive' /\ Separate'
<1>1. PortsExclusive'
  BY DEF PortsExclusive, Conflict, Exists
<1>2. \A k \in Busy', x \in Rules : Writes(k, x)' =>
        /\ k \in Busy /\ Writes(k, x) /\ job'[k].rows = job[k].rows
        /\ \A y \in Rules : Writes(k, y)' <=> Writes(k, y)
  BY QuietWrites DEF Stays, Writes
<1>3. \A k \in Busy', x \in Rules : Writes(k, x)' /\ Moved(k, x) => Moved(k, x)'
  BY QuietWrites DEF Stays, Moved
<1>4. QED BY <1>1, <1>2, <1>3 DEF Separate, Exists

LEMMA CommitSeparate ==
  ASSUME TypeOK, Leased, PortsExclusive, Separate, NEW h \in Handlers, Commit(h)
  PROVE  PortsExclusive' /\ Separate'
<1>1. /\ h \in Busy /\ entry' = entry
      /\ \A r \in Rules : rule'[r] = IF Writes(h, r) THEN job[h].rows[r] ELSE rule[r]
  BY CommitFacts
<1>2. Quiet /\ Busy' = Busy \ {h}
  BY CommitQuiet
<1>3. ASSUME NEW r \in Rules, NEW s \in Rules, r # s, {r, s} \in strayed
      PROVE  {r, s} \in strayed'
  <2>1. \A q \in Written(h) : {r, s} # {q}
    BY <1>3
  <2>2. QED BY <1>3, <2>1, CommitFacts
<1>4. ASSUME NEW r \in Rules, NEW s \in Present, Writes(h, r), Moved(h, r)
      PROVE  {r, s} \in strayed' /\ {s, r} \in strayed'
  BY <1>4, CommitFacts DEF MovedRules, Written
<1>5. ASSUME NEW r \in Rules, NEW s \in Rules, r # s, Exists(r)', Exists(s)',
             Clash(entry', rule'[r], rule'[s])
      PROVE  {r, s} \in strayed'
  <2>1. CASE Writes(h, r) /\ Writes(h, s)
    BY <1>1, <1>3, <1>5, <2>1 DEF Separate
  <2>2. CASE Writes(h, r) /\ ~Writes(h, s)
    <3>1. Exists(s) /\ Clash(entry, job[h].rows[r], rule[s])
      BY <1>1, <1>5, <2>2 DEF Exists
    <3>2. {r, s} \in strayed \/ Moved(h, r)
      BY <1>1, <1>5, <2>2, <3>1 DEF Separate
    <3>3. QED BY <1>3, <1>4, <1>5, <2>2, <3>1, <3>2, PresentFacts
  <2>3. CASE ~Writes(h, r) /\ Writes(h, s)
    <3>1. Exists(r) /\ Clash(entry, job[h].rows[s], rule[r])
      BY <1>1, <1>5, <2>3, ClashSymmetric DEF Exists
    <3>2. {s, r} \in strayed \/ Moved(h, s)
      BY <1>1, <1>5, <2>3, <3>1 DEF Separate
    <3>3. {s, r} = {r, s}
      OBVIOUS
    <3>4. QED BY <1>3, <1>4, <1>5, <2>3, <3>1, <3>2, <3>3, PresentFacts
  <2>4. CASE ~Writes(h, r) /\ ~Writes(h, s)
    <3>1. Conflict(r, s)
      BY <1>1, <1>5, <2>4 DEF Conflict, Clash, Exists
    <3>2. QED BY <1>3, <1>5, <3>1 DEF PortsExclusive
  <2>5. QED BY <2>1, <2>2, <2>3, <2>4
<1>6. PortsExclusive'
  BY <1>5 DEF PortsExclusive, Conflict, Clash, Exists
<1>7. \A k \in Busy', x \in Rules : Writes(k, x)' =>
        /\ k \in Busy /\ k # h /\ Writes(k, x) /\ job'[k].rows = job[k].rows
        /\ \A y \in Rules : Writes(k, y)' <=> Writes(k, y)
        /\ Moved(k, x) => Moved(k, x)'
  BY <1>1, <1>2, QuietWrites DEF Stays, Writes, Moved
<1>8. ASSUME NEW k \in Busy', NEW x \in Rules, NEW y \in Rules, Writes(k, x)', x # y,
             Writes(k, y)', Clash(entry', job'[k].rows[x], job'[k].rows[y])
      PROVE  {x, y} \in strayed'
  BY <1>1, <1>3, <1>7, <1>8 DEF Separate
<1>9. ASSUME NEW k \in Busy', NEW x \in Rules, NEW y \in Rules, Writes(k, x)', x # y,
             ~Writes(k, y)', Exists(y)', Clash(entry', job'[k].rows[x], rule'[y])
      PROVE  {x, y} \in strayed' \/ Moved(k, x)'
  <2>1. k \in Busy /\ k # h /\ Writes(k, x) /\ ~Writes(k, y) /\ job'[k].rows = job[k].rows
        /\ (Moved(k, x) => Moved(k, x)')
    BY <1>7, <1>9
  <2>2. CASE Writes(h, y)
    <3>1. Clash(entry, job[k].rows[x], job[h].rows[y])
      BY <1>1, <1>9, <2>1, <2>2
    <3>2. {x, y} \in strayed \/ Moved(k, x) \/ Moved(h, y)
      BY <1>1, <1>9, <2>1, <2>2, <3>1 DEF Separate
    <3>3. x \in Present
      BY <2>1, PresentFacts
    <3>4. QED BY <1>3, <1>4, <1>9, <2>1, <2>2, <3>2, <3>3
  <2>3. CASE ~Writes(h, y)
    <3>1. Exists(y) /\ Clash(entry, job[k].rows[x], rule[y])
      BY <1>1, <1>9, <2>1, <2>3 DEF Exists
    <3>2. {x, y} \in strayed \/ Moved(k, x)
      BY <1>9, <2>1, <3>1 DEF Separate
    <3>3. QED BY <1>3, <1>9, <2>1, <3>2
  <2>4. QED BY <2>2, <2>3
<1>10. ASSUME NEW k \in Busy', NEW m \in Busy' \ {k}, NEW x \in Rules, NEW y \in Rules,
              Writes(k, x)', x # y, Writes(m, y)',
              Clash(entry', job'[k].rows[x], job'[m].rows[y])
       PROVE  {x, y} \in strayed' \/ Moved(k, x)' \/ Moved(m, y)'
  BY <1>1, <1>3, <1>7, <1>10 DEF Separate
<1>11. QED BY <1>6, <1>8, <1>9, <1>10 DEF Separate

\* A tunnel that changes its entry group strays the rules on it, with everyone
\* who is there.
LEMMA MoveFacts ==
  ASSUME TypeOK, NEW t \in Tunnels, NEW g \in Groups, MoveTunnel(t, g)
  PROVE  \E S \in SUBSET Rules :
           /\ strayed \subseteq strayed' /\ \A r \in S : {r} \in strayed'
           /\ \A r \in S, s \in Present : {r, s} \in strayed' /\ {s, r} \in strayed'
           /\ \A r \in Rules \ S : Exists(r) =>
                rule[r].tunnel # t /\ entry'[rule[r].tunnel] = entry[rule[r].tunnel]
           /\ \A r \in Rules \ S, h \in Busy : Writes(h, r) =>
                entry'[job[h].rows[r].tunnel] = entry[job[h].rows[r].tunnel]
<1> DEFINE S == {r \in Rules : \/ Exists(r) /\ rule[r].tunnel = t
                               \/ \E h \in Busy : job[h].rows[r] # None /\ job[h].rows[r].tunnel = t}
<1>1. strayed' = strayed \cup Stray(S) /\ entry' = [entry EXCEPT ![t] = g]
  BY DEF MoveTunnel
<1>2. \A u \in Tunnels \ {t} : entry'[u] = entry[u]
  BY <1>1 DEF TypeOK
<1>3. ASSUME NEW r \in Rules \ S, Exists(r)
      PROVE  rule[r].tunnel # t /\ entry'[rule[r].tunnel] = entry[rule[r].tunnel]
  BY <1>2, <1>3 DEF TypeOK, Exists, Row
<1>4. ASSUME NEW r \in Rules \ S, NEW h \in Busy, Writes(h, r)
      PROVE  entry'[job[h].rows[r].tunnel] = entry[job[h].rows[r].tunnel]
  <2>1. job[h].rows[r].tunnel # t
    BY <1>4 DEF Writes
  <2>2. job[h].rows[r] \in Row
    BY <1>4, GrantTypes
  <2>3. QED BY <1>2, <2>1, <2>2 DEF Row
<1>5. S \in SUBSET Rules
  OBVIOUS
<1> HIDE DEF S
<1>6. /\ \A r \in S : {r} \in Stray(S)
      /\ \A r \in S, s \in Present : {r, s} \in Stray(S) /\ {s, r} \in Stray(S)
  BY <1>5, StrayFacts
<1>7. QED BY <1>1, <1>3, <1>4, <1>5, <1>6

LEMMA MoveSeparate ==
  ASSUME TypeOK, PortsExclusive, Separate,
         NEW t \in Tunnels, NEW g \in Groups, MoveTunnel(t, g)
  PROVE  PortsExclusive' /\ Separate'
<1>1. PICK S \in SUBSET Rules :
        /\ strayed \subseteq strayed'
        /\ \A r \in S, s \in Present : {r, s} \in strayed' /\ {s, r} \in strayed'
        /\ \A r \in Rules \ S : Exists(r) => entry'[rule[r].tunnel] = entry[rule[r].tunnel]
        /\ \A r \in Rules \ S, h \in Busy : Writes(h, r) =>
             entry'[job[h].rows[r].tunnel] = entry[job[h].rows[r].tunnel]
  BY MoveFacts
<1>2. /\ UNCHANGED <<rule, job>> /\ Busy' = Busy
      /\ \A k \in Busy, r \in Rules : Writes(k, r)' = Writes(k, r)
      /\ \A r \in Rules : Exists(r)' = Exists(r)
  BY DEF MoveTunnel, Busy, Writes, Exists
<1>3. \A k \in Busy, r \in Rules \ S : Writes(k, r) /\ Moved(k, r) => Moved(k, r)'
  BY <1>1, <1>2 DEF Moved, JobLeases
<1>4. ASSUME NEW r \in Rules, NEW s \in Rules, r # s, Exists(r), Exists(s),
             Clash(entry', rule[r], rule[s])
      PROVE  {r, s} \in strayed'
  <2>1. CASE r \in S \/ s \in S
    BY <1>1, <1>4, <2>1, PresentFacts
  <2>2. CASE r \notin S /\ s \notin S
    <3>1. Conflict(r, s)
      BY <1>1, <1>4, <2>2 DEF Clash, Conflict
    <3>2. QED BY <1>1, <1>4, <3>1 DEF PortsExclusive
  <2>3. QED BY <2>1, <2>2
<1>5. PortsExclusive'
  BY <1>2, <1>4 DEF PortsExclusive, Conflict, Clash
<1>6. ASSUME NEW k \in Busy', NEW x \in Rules, NEW y \in Rules, Writes(k, x)', x # y,
             Writes(k, y)', Clash(entry', job'[k].rows[x], job'[k].rows[y])
      PROVE  {x, y} \in strayed'
  <2>1. k \in Busy /\ Writes(k, x) /\ Writes(k, y)
        /\ Clash(entry', job[k].rows[x], job[k].rows[y])
    BY <1>2, <1>6
  <2>2. CASE x \in S \/ y \in S
    BY <1>1, <2>1, <2>2, PresentFacts
  <2>3. CASE x \notin S /\ y \notin S
    <3>1. Clash(entry, job[k].rows[x], job[k].rows[y])
      BY <1>1, <2>1, <2>3 DEF Clash
    <3>2. QED BY <1>1, <1>6, <2>1, <3>1 DEF Separate
  <2>4. QED BY <2>2, <2>3
<1>7. ASSUME NEW k \in Busy', NEW x \in Rules, NEW y \in Rules, Writes(k, x)', x # y,
             ~Writes(k, y)', Exists(y)', Clash(entry', job'[k].rows[x], rule'[y])
      PROVE  {x, y} \in strayed' \/ Moved(k, x)'
  <2>1. k \in Busy /\ Writes(k, x) /\ ~Writes(k, y) /\ Exists(y)
        /\ Clash(entry', job[k].rows[x], rule[y])
    BY <1>2, <1>7
  <2>2. CASE x \in S \/ y \in S
    BY <1>1, <2>1, <2>2, PresentFacts
  <2>3. CASE x \notin S /\ y \notin S
    <3>1. Clash(entry, job[k].rows[x], rule[y])
      BY <1>1, <2>1, <2>3 DEF Clash
    <3>2. QED BY <1>1, <1>3, <1>7, <2>1, <2>3, <3>1 DEF Separate
  <2>4. QED BY <2>2, <2>3
<1>8. ASSUME NEW k \in Busy', NEW m \in Busy' \ {k}, NEW x \in Rules, NEW y \in Rules,
             Writes(k, x)', x # y, Writes(m, y)',
             Clash(entry', job'[k].rows[x], job'[m].rows[y])
      PROVE  {x, y} \in strayed' \/ Moved(k, x)' \/ Moved(m, y)'
  <2>1. k \in Busy /\ m \in Busy /\ k # m /\ Writes(k, x) /\ Writes(m, y)
        /\ Clash(entry', job[k].rows[x], job[m].rows[y])
    BY <1>2, <1>8
  <2>2. CASE x \in S \/ y \in S
    BY <1>1, <2>1, <2>2, PresentFacts
  <2>3. CASE x \notin S /\ y \notin S
    <3>1. Clash(entry, job[k].rows[x], job[m].rows[y])
      BY <1>1, <2>1, <2>3 DEF Clash
    <3>2. QED BY <1>1, <1>3, <1>8, <2>1, <2>3, <3>1 DEF Separate
  <2>4. QED BY <2>2, <2>3
<1>9. QED BY <1>5, <1>6, <1>7, <1>8 DEF Separate

\* A violation of a disabled rule strays it with everyone who is there.
LEMMA ReportSeparate ==
  ASSUME TypeOK, PortsExclusive, Separate, NEW q \in Rules, ReportViolation(q)
  PROVE  PortsExclusive' /\ Separate'
<1>1. /\ UNCHANGED <<entry, job>> /\ Exists(q) /\ strayed \subseteq strayed'
      /\ \A s \in Present : {q, s} \in strayed' /\ {s, q} \in strayed'
  BY StrayFacts DEF ReportViolation
<1>2. \A r \in Rules \ {q} : rule'[r] = rule[r]
  BY DEF ReportViolation, TypeOK
<1>3. /\ Busy' = Busy
      /\ \A k \in Busy, r \in Rules :
           Writes(k, r)' = Writes(k, r) /\ Moved(k, r)' = Moved(k, r)
  BY <1>1 DEF Busy, Writes, Moved, JobLeases
<1>4. ASSUME NEW r \in Rules, NEW s \in Rules, r # s, Conflict(r, s)' PROVE {r, s} \in strayed'
  <2>1. CASE r = q \/ s = q
    <3>1. r \in Present /\ s \in Present
      BY <1>1, <1>2, <1>4, <2>1, PresentFacts DEF Conflict, Exists
    <3>2. QED BY <1>1, <2>1, <3>1
  <2>2. CASE r # q /\ s # q
    <3>1. Conflict(r, s)
      BY <1>1, <1>2, <1>4, <2>2 DEF Conflict, Exists
    <3>2. QED BY <1>1, <1>4, <3>1 DEF PortsExclusive
  <2>3. QED BY <2>1, <2>2
<1>5. PortsExclusive'
  BY <1>4 DEF PortsExclusive
<1>6. ASSUME NEW k \in Busy', NEW x \in Rules, NEW y \in Rules, Writes(k, x)', x # y,
             ~Writes(k, y)', Exists(y)', Clash(entry', job'[k].rows[x], rule'[y])
      PROVE  {x, y} \in strayed' \/ Moved(k, x)'
  <2>1. k \in Busy /\ Writes(k, x) /\ ~Writes(k, y)
    BY <1>3, <1>6
  <2>2. CASE y = q
    BY <1>1, <2>1, <2>2, PresentFacts
  <2>3. CASE y # q
    BY <1>1, <1>2, <1>3, <1>6, <2>1, <2>3 DEF Separate, Exists
  <2>4. QED BY <2>2, <2>3
<1>7. ASSUME NEW k \in Busy', NEW x \in Rules, NEW y \in Rules, Writes(k, x)', x # y,
             Writes(k, y)', Clash(entry', job'[k].rows[x], job'[k].rows[y])
      PROVE  {x, y} \in strayed'
  BY <1>1, <1>3, <1>7 DEF Separate
<1>8. ASSUME NEW k \in Busy', NEW m \in Busy' \ {k}, NEW x \in Rules, NEW y \in Rules,
             Writes(k, x)', x # y, Writes(m, y)',
             Clash(entry', job'[k].rows[x], job'[m].rows[y])
      PROVE  {x, y} \in strayed' \/ Moved(k, x)' \/ Moved(m, y)'
  <2>1. /\ k \in Busy /\ m \in Busy \ {k} /\ Writes(k, x) /\ Writes(m, y)
        /\ Clash(entry, job[k].rows[x], job[m].rows[y])
    BY <1>1, <1>3, <1>8
  <2>2. {x, y} \in strayed \/ Moved(k, x) \/ Moved(m, y)
    BY <1>8, <2>1 DEF Separate
  <2>3. QED BY <1>1, <1>3, <2>1, <2>2
<1>9. QED BY <1>5, <1>6, <1>7, <1>8 DEF Separate

LEMMA NextSeparate ==
  TypeOK /\ Shaped /\ Leased /\ PortsExclusive /\ Separate /\ [Next]_vars
    => PortsExclusive' /\ Separate'
<1> SUFFICES ASSUME TypeOK, Shaped, Leased, PortsExclusive, Separate, [Next]_vars
             PROVE  PortsExclusive' /\ Separate'
  OBVIOUS
<1>1. ASSUME NEW h \in Handlers, Commit(h) PROVE PortsExclusive' /\ Separate'
  BY <1>1, CommitSeparate
<1>2. ASSUME NEW h \in Handlers, DeleteRule(h) PROVE PortsExclusive' /\ Separate'
  <2>1. Quiet /\ UNCHANGED <<entry, strayed>>
    BY <1>2, EndsQuiet DEF DeleteRule
  <2>2. \A r \in Rules : rule'[r] # None => rule'[r] = rule[r]
    BY <1>2 DEF DeleteRule, TypeOK
  <2>3. QED BY <2>1, <2>2, QuietSeparate
<1>3. ASSUME Quiet, UNCHANGED <<entry, rule, strayed>> PROVE PortsExclusive' /\ Separate'
  BY <1>3, QuietSeparate
<1>4. CASE \E h \in Handlers, r \in Rules, row \in Row : Prepare(h, r, row)
  BY <1>4, PrepareSeparate
<1>5. CASE \E t \in Tunnels, g \in Groups : MoveTunnel(t, g)
  BY <1>5, MoveSeparate
<1>6. CASE \E r \in Rules : ReportViolation(r)
  BY <1>6, ReportSeparate
<1>7. CASE ~\E h \in Handlers, r \in Rules, row \in Row : Prepare(h, r, row)
  <2>1. Quiet
    BY <1>7, QuietOrPrepare
  <2>2. QED
    BY <1>1, <1>2, <1>3, <1>5, <1>6, <1>7, <2>1
    DEF Next, BeginCreate, BeginUpdate, DeleteLeases, Rollback, SetGrant, DeleteGrant, vars
<1>8. QED BY <1>4, <1>7

-----------------------------------------------------------------------------
(* Leases of rules *)

LEMMA CommitFitting ==
  ASSUME TypeOK, Leased, Fitting, NEW h \in Handlers, Commit(h)
  PROVE  Fitting'
<1>1. /\ h \in Busy /\ UNCHANGED <<entry, overlapped>>
      /\ \A r \in Rules : rule'[r] = IF Writes(h, r) THEN job[h].rows[r] ELSE rule[r]
      /\ leases' = {l \in leases : l.rule \notin Written(h)} \cup job[h].leases
  BY CommitFacts
<1>2. \A l \in job[h].leases : l.rule \in Written(h) /\ Writes(h, l.rule)
  BY <1>1, JobTypes DEF Leased, Written, Job, Lease
<1>3. ASSUME NEW r \in Rules, Exists(r)', {r} \notin strayed'
      PROVE  LeasesOf(r)' = LeasesAt(r, rule'[r], entry'[rule'[r].tunnel])
  <2>1. CASE Writes(h, r)
    <3>1. LeasesOf(r)' = JobLeases(h, r)
      BY <1>1, <2>1 DEF LeasesOf, JobLeases, Written
    <3>2. PICK g \in job[h].groups : JobLeases(h, r) = LeasesAt(r, job[h].rows[r], g)
      BY <1>1, <2>1 DEF Leased
    <3>3. ~Moved(h, r)
      BY <1>3, <2>1, CommitFacts DEF MovedRules, Written
    <3>4. job[h].rows[r] \in Row /\ job[h].groups \subseteq Groups
      BY <1>1, <2>1, GrantTypes, JobTypes DEF Job
    <3>5. job[h].rows[r].enabled => g = entry[job[h].rows[r].tunnel]
      BY <3>2, <3>3, <3>4, LeasesAtFacts DEF Moved
    <3>6. LeasesAt(r, job[h].rows[r], g)
            = LeasesAt(r, job[h].rows[r], entry[job[h].rows[r].tunnel])
      BY <3>5 DEF LeasesAt
    <3>7. QED BY <1>1, <2>1, <3>1, <3>2, <3>6
  <2>2. CASE ~Writes(h, r)
    <3>1. LeasesOf(r)' = LeasesOf(r)
      BY <1>1, <1>2, <2>2 DEF LeasesOf, Written
    <3>2. \A q \in Written(h) : {r} # {q}
      BY <2>2 DEF Written
    <3>3. {r} \notin strayed
      BY <1>3, <3>2, CommitFacts
    <3>4. QED BY <1>1, <1>3, <2>2, <3>1, <3>3 DEF Fitting, Exists
  <2>3. QED BY <2>1, <2>2
<1>4. ASSUME NEW l \in leases' PROVE rule'[l.rule] # None \/ l.rule \in overlapped'
  <2>1. CASE l \in job[h].leases
    BY <1>1, <1>2, <2>1 DEF Written, Writes
  <2>2. CASE l \in leases /\ l.rule \notin Written(h)
    BY <1>1, <2>2 DEF Fitting, Exists, TypeOK, Lease, Written
  <2>3. QED BY <1>1, <1>4, <2>1, <2>2
<1>5. QED BY <1>3, <1>4 DEF Fitting, Exists

LEMMA NextFitting == TypeOK /\ Shaped /\ Leased /\ Fitting /\ [Next]_vars => Fitting'
<1> SUFFICES ASSUME TypeOK, Shaped, Leased, Fitting, [Next]_vars PROVE Fitting'
  OBVIOUS
<1>1. ASSUME NEW h \in Handlers, Commit(h) PROVE Fitting'
  BY <1>1, CommitFitting
<1>2. ASSUME NEW h \in Handlers, DeleteRule(h) PROVE Fitting'
  <2> DEFINE r == job[h].rule
  <2>1. /\ r \in Rules /\ rule' = [rule EXCEPT ![r] = None] /\ UNCHANGED <<entry, strayed>>
        /\ leases' = IF job[h].spares THEN leases ELSE leases \ LeasesOf(r)
        /\ overlapped' = IF Updating(r) # {} \/ job[h].spares
                           THEN overlapped \cup {r} ELSE overlapped
    BY <1>2 DEF DeleteRule, Shaped
  <2>2. \A s \in Rules : rule'[s] = IF s = r THEN None ELSE rule[s]
    BY <2>1 DEF TypeOK
  <2> HIDE DEF r
  <2>3. \A s \in Rules \ {r} : LeasesOf(s)' = LeasesOf(s)
    BY <2>1 DEF LeasesOf
  <2>4. ASSUME NEW s \in Rules, Exists(s)', {s} \notin strayed'
        PROVE  LeasesOf(s)' = LeasesAt(s, rule'[s], entry'[rule'[s].tunnel])
    BY <2>1, <2>2, <2>3, <2>4 DEF Fitting, Exists
  <2>5. ASSUME NEW l \in leases' PROVE rule'[l.rule] # None \/ l.rule \in overlapped'
    <3>1. l \in leases /\ l.rule \in Rules /\ (l.rule = r => job[h].spares)
      BY <2>1, <2>5 DEF LeasesOf, TypeOK, Lease
    <3>2. QED BY <2>1, <2>2, <3>1 DEF Fitting, Exists
  <2>6. QED BY <2>4, <2>5 DEF Fitting, Exists
<1>3. ASSUME NEW t \in Tunnels, NEW g \in Groups, MoveTunnel(t, g) PROVE Fitting'
  <2>1. PICK S \in SUBSET Rules :
          /\ strayed \subseteq strayed' /\ \A r \in S : {r} \in strayed'
          /\ \A r \in Rules \ S : Exists(r) => entry'[rule[r].tunnel] = entry[rule[r].tunnel]
    BY <1>3, MoveFacts
  <2>2. UNCHANGED <<rule, leases, overlapped>>
    BY <1>3 DEF MoveTunnel
  <2>3. QED BY <2>1, <2>2 DEF Fitting, Exists, LeasesOf
<1>4. ASSUME NEW q \in Rules, ReportViolation(q) PROVE Fitting'
  <2>1. /\ UNCHANGED <<entry, leases, overlapped>> /\ {q} \in strayed'
        /\ strayed \subseteq strayed'
    BY <1>4, StrayFacts DEF ReportViolation
  <2>2. /\ \A r \in Rules \ {q} : rule'[r] = rule[r]
        /\ rule'[q] # None
    BY <1>4, NoneIsNoValue DEF ReportViolation, TypeOK, Exists, Row
  <2>3. \A l \in leases : l.rule \in Rules
    BY DEF TypeOK, Lease
  <2>4. QED BY <2>1, <2>2, <2>3 DEF Fitting, Exists, LeasesOf
<1>5. ASSUME UNCHANGED <<entry, rule, leases, strayed, overlapped>> PROVE Fitting'
  BY <1>5 DEF Fitting, Exists, LeasesOf
<1>6. ASSUME NEW h \in Handlers, NEW r \in Rules, NEW row \in Row, Prepare(h, r, row)
      PROVE  Fitting'
  BY <1>5, <1>6 DEF Prepare
<1>7. ASSUME NEW h \in Handlers, NEW r \in Rules, BeginUpdate(h, r) \/ DeleteLeases(h, r)
      PROVE  Fitting'
  BY <1>5, <1>7 DEF BeginUpdate, DeleteLeases
<1>8. ASSUME NEW h \in Handlers, BeginCreate(h) \/ Rollback(h) PROVE Fitting'
  BY <1>5, <1>8 DEF BeginCreate, Rollback
<1>9. ASSUME NEW t \in Tunnels, NEW limit \in GrantLimits, SetGrant(t, limit)
      PROVE  Fitting'
  BY <1>5, <1>9 DEF SetGrant
<1>10. ASSUME NEW t \in Tunnels, DeleteGrant(t) PROVE Fitting'
  BY <1>5, <1>10 DEF DeleteGrant
<1>11. ASSUME UNCHANGED vars PROVE Fitting'
  BY <1>5, <1>11 DEF vars
<1>12. QED
  BY <1>1, <1>2, <1>3, <1>4, <1>6, <1>7, <1>8, <1>9, <1>10, <1>11 DEF Next

-----------------------------------------------------------------------------
(* What the handlers promise *)

(***************************************************************************)
(* IInv is an inductive invariant of the specification.                    *)
(***************************************************************************)
THEOREM Inductive == Spec => []IInv
<1>1. Init => IInv
  <2> SUFFICES ASSUME Init PROVE IInv
    OBVIOUS
  <2>1. TypeOK
    BY InitType
  <2>2. Busy = {} /\ \A r \in Rules : ~Exists(r)
    BY DEF Init, Busy, Exists, NoRows
  <2>3. \A t \in Tunnels : Committed(t) = {}
    BY <2>2 DEF Committed
  <2>4. Respected
    BY <2>3 DEF Respected, Within
  <2>5. Shaped /\ Leased /\ Granted /\ PortsExclusive /\ Separate
    BY <2>2 DEF Shaped, Leased, Granted, PortsExclusive, Conflict, Separate
  <2>6. Fitting
    BY <2>2 DEF Fitting, Init
  <2>7. QED BY <2>1, <2>4, <2>5, <2>6 DEF IInv
<1>2. IInv /\ [Next]_vars => IInv'
  BY NextType, NextShaped, NextLeased, NextGranted, NextSeparate, NextFitting DEF IInv
<1>3. QED BY <1>1, <1>2, PTL DEF Spec

(***************************************************************************)
(* Whichever creations, batches, updates and deletions overlap, two rules  *)
(* that run on one node do not ask for one port, unless both were there    *)
(* when updateTunnel or agentViolation changed one of them unasked.        *)
(***************************************************************************)
THEOREM PortsAreExclusive == Spec => []PortsExclusive
BY Inductive, PTL DEF IInv

(***************************************************************************)
(* Every variable has its type; the leases of a rule are those of what it  *)
(* listens on, and none is left without its rule, unless an update         *)
(* overlapped its deletion.                                                *)
(***************************************************************************)
THEOREM LeasesFit == Spec => []LeasesFitRules
<1>1. IInv => LeasesFitRules
  <2> SUFFICES ASSUME IInv PROVE LeasesFitRules
    OBVIOUS
  <2>1. ASSUME NEW r \in Rules, Exists(r), {r} \notin strayed
        PROVE  {<<l.group, l.transport, l.port>> : l \in LeasesOf(r)} =
                 IF rule[r].enabled
                   THEN {entry[rule[r].tunnel]} \X rule[r].transports \X {rule[r].port}
                   ELSE {}
    <3> DEFINE g == entry[rule[r].tunnel]
               row == rule[r]
    <3>1. LeasesOf(r) = LeasesAt(r, row, g)
      BY <2>1 DEF IInv, Fitting
    <3>2. CASE row.enabled
      <4>1. LeasesAt(r, row, g) =
              {[rule |-> r, group |-> g, transport |-> t, port |-> row.port] : t \in row.transports}
        BY <3>2 DEF LeasesAt
      <4> HIDE DEF g, row
      <4>2. {<<l.group, l.transport, l.port>> : l \in LeasesAt(r, row, g)}
              = {<<g, t, row.port>> : t \in row.transports}
        <5> DEFINE L(t) == [rule |-> r, group |-> g, transport |-> t, port |-> row.port]
        <5>1. \A t : <<L(t).group, L(t).transport, L(t).port>> = <<g, t, row.port>>
          OBVIOUS
        <5>2. LeasesAt(r, row, g) = {L(t) : t \in row.transports}
          BY <4>1
        <5> HIDE DEF L
        <5>3. QED BY <5>1, <5>2
      <4>3. {<<g, t, row.port>> : t \in row.transports} = {g} \X row.transports \X {row.port}
        OBVIOUS
      <4>4. QED BY <3>1, <3>2, <4>2, <4>3 DEF g, row
    <3>3. CASE ~row.enabled
      BY <3>1, <3>3 DEF LeasesAt
    <3>4. QED BY <3>2, <3>3
  <2>2. QED BY <2>1 DEF IInv, Fitting, LeasesFitRules
<1>2. QED BY <1>1, Inductive, PTL

(***************************************************************************)
(* There are no more rules on a tunnel than its grant allows, and none     *)
(* without one, however many requests check and write at once.             *)
(***************************************************************************)
THEOREM GrantsAreRespected == Spec => []GrantsRespected
<1>1. IInv => GrantsRespected
  <2> SUFFICES ASSUME IInv, NEW t \in Tunnels, Cardinality(Committed(t)) > 0
               PROVE  grant[t] # None /\ (grant[t] = 0 \/ Cardinality(Committed(t)) <= grant[t])
    BY CountOn DEF GrantsRespected, IInv
  <2>1. Committed(t) # {}
    BY FS_EmptySet
  <2>2. QED BY <2>1 DEF IInv, Respected, Within
<1>2. QED BY <1>1, Inductive, PTL

(***************************************************************************)
(* A deleted rule does not come back, unless an update that had read it    *)
(* overlapped its deletion.                                                *)
(***************************************************************************)
THEOREM DeletedForGood == Spec => DeletedStaysDeleted
<1>1. IInv /\ [Next]_vars =>
        \A r \in born : ~Exists(r) /\ rule'[r] # None => r \in overlapped
  <2> SUFFICES ASSUME IInv, [Next]_vars, NEW r \in born, ~Exists(r), rule'[r] # None
               PROVE  r \in overlapped
    OBVIOUS
  <2>1. r \in Rules /\ TypeOK /\ Shaped /\ Leased /\ rule'[r] # rule[r]
    BY DEF IInv, TypeOK, Exists
  <2>2. PICK h \in Handlers : Commit(h)
    <3>1. ~\E h \in Handlers : DeleteRule(h)
      BY <2>1 DEF DeleteRule, TypeOK, Exists
    <3>2. ASSUME NEW s \in Rules, ReportViolation(s) PROVE FALSE
      <4>1. r # s /\ rule' = [rule EXCEPT ![s] = [rule[s] EXCEPT !.enabled = TRUE]]
        BY <3>2 DEF ReportViolation, Exists, TypeOK
      <4>2. rule'[r] = rule[r]
        BY <2>1, <4>1 DEF TypeOK
      <4>3. QED BY <2>1, <4>2
    <3>3. ASSUME NEW h \in Handlers, NEW s \in Rules, NEW row \in Row, Prepare(h, s, row)
          PROVE  rule' = rule
      BY <3>3 DEF Prepare
    <3>4. ASSUME NEW h \in Handlers, NEW s \in Rules, BeginUpdate(h, s) \/ DeleteLeases(h, s)
          PROVE  rule' = rule
      BY <3>4 DEF BeginUpdate, DeleteLeases
    <3>5. ASSUME NEW h \in Handlers, BeginCreate(h) \/ Rollback(h) PROVE rule' = rule
      BY <3>5 DEF BeginCreate, Rollback
    <3>6. ASSUME NEW t \in Tunnels, NEW g \in Groups, MoveTunnel(t, g) PROVE rule' = rule
      BY <3>6 DEF MoveTunnel
    <3>7. ASSUME NEW t \in Tunnels, NEW limit \in GrantLimits, SetGrant(t, limit)
          PROVE  rule' = rule
      BY <3>7 DEF SetGrant
    <3>8. ASSUME NEW t \in Tunnels, DeleteGrant(t) PROVE rule' = rule
      BY <3>8 DEF DeleteGrant
    <3>9. ASSUME UNCHANGED vars PROVE rule' = rule
      BY <3>9 DEF vars
    <3>10. QED
      BY <2>1, <3>1, <3>2, <3>3, <3>4, <3>5, <3>6, <3>7, <3>8, <3>9 DEF Next
  <2>3. h \in Busy /\ Writes(h, r) /\ InTransaction(h)
    BY <2>1, <2>2, CommitFacts DEF InTransaction
  <2>4. job[h].kind \in {"create", "update", "delete"}
    BY <2>1, <2>3, JobTypes DEF Job
  <2>5. QED BY <2>1, <2>3, <2>4 DEF Shaped
<1>2. QED BY <1>1, Inductive, PTL DEF Spec, DeletedStaysDeleted
=============================================================================
