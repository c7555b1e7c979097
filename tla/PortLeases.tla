----------------------------- MODULE PortLeases -----------------------------
(***************************************************************************)
(* Forwarding rules and the ports they hold: creation (single, batch,      *)
(* preview), update and deletion of rules, the port leases that go with    *)
(* them, the tunnel grants that limit them, tunnels that change their      *)
(* entry group, and violation reports.                                     *)
(*                                                                         *)
(* A handler is one request.  Its transaction is split where a lock it     *)
(* does not hold lets others in: an update reads the rule before its       *)
(* transaction, a transaction checks (Prepare) before it commits, a        *)
(* deletion removes leases before the rule.  Rows are those of one user    *)
(* who needs a grant for every tunnel.                                     *)
(***************************************************************************)
EXTENDS Naturals, FiniteSets

CONSTANTS
  Rules,         \* identities of rules; they are not used again
  Tunnels, Groups,
  FirstGroup,    \* the entry group each tunnel starts with
  Ports,
  Protocols,     \* sets of transports a rule may ask for
  GrantLimits,   \* rules a grant may allow; 0 is no limit
  UserLimit,     \* ForwardLimit of the user; 0 is no limit
  Handlers,      \* bound: requests in progress at once
  MaxMoved,      \* bound: tunnels away from their first group
  None

Transports == UNION Protocols
ASSUME RuleConstants ==
  /\ FirstGroup \in [Tunnels -> Groups]
  /\ Protocols \subseteq (SUBSET {"tcp", "udp"}) \ {{}}
  /\ GrantLimits \subseteq Nat /\ UserLimit \in Nat /\ MaxMoved \in Nat
  /\ IsFiniteSet(Rules)

Row == [tunnel : Tunnels, port : Ports, transports : Protocols, enabled : BOOLEAN]
Lease == [rule : Rules, group : Groups, transport : Transports, port : Ports]

(***************************************************************************)
(*   entry     the entry group of each tunnel                              *)
(*   grant     the user's grant for each tunnel: its limit, or None        *)
(*   rule      rows of rules; enabled is any status but "disabled"         *)
(*   leases    rows of port_leases                                         *)
(*   born      rules created so far                                        *)
(*   job       requests in progress: rows and leases are written by the    *)
(*             commit, groups and grants are rows locked until then; for a *)
(*             deletion, waits says that it waits for an update that has   *)
(*             replaced the leases, spares that the rule got leases since  *)
(*             the deletion looked for them                                *)
(*   strayed   {r}: rule r was moved with its tunnel, or enabled, without  *)
(*             a look at its leases; {r, s}: that happened to r while s    *)
(*             was there; history, read by properties only                 *)
(*   overlapped  rules deleted while an update of them was in progress;    *)
(*             history, read by properties only                            *)
(***************************************************************************)
VARIABLES entry, grant, rule, leases, born, job, strayed, overlapped

vars == <<entry, grant, rule, leases, born, job, strayed, overlapped>>

NoRows == [r \in Rules |-> None]
Job == [kind : {"create", "update", "delete"}, rule : Rules \cup {None},
        prev : Tunnels \cup {None}, rows : [Rules -> Row \cup {None}],
        leases : SUBSET Lease, groups : SUBSET Groups, grants : SUBSET Tunnels,
        waits : BOOLEAN, spares : BOOLEAN]
ASSUME NoneIsNoValue == None \notin Row \cup Job \cup Rules \cup Nat \cup Tunnels

NewJob(kind, r, prev) ==
  [kind |-> kind, rule |-> r, prev |-> prev, rows |-> NoRows, leases |-> {},
   groups |-> {}, grants |-> {}, waits |-> FALSE, spares |-> FALSE]

Busy == {h \in Handlers : job[h] # None}
Exists(r) == rule[r] # None
LeasesOf(r) == {l \in leases : l.rule = r}
Updating(r) == {h \in Busy : job[h].kind = "update" /\ job[h].rule = r}
InTransaction(h) == job[h].rows # NoRows
Deleting(r) == {h \in Busy : job[h].kind = "delete" /\ job[h].rule = r}
Present == {r \in Rules : Exists(r) \/ \E h \in Busy : job[h].rows[r] # None}
Stray(S) == {{r, s} : r \in S, s \in S \cup Present}

\* Every variable holds a value of its kind.
TypeOK ==
  /\ entry \in [Tunnels -> Groups]
  /\ grant \in [Tunnels -> GrantLimits \cup {None}]
  /\ rule \in [Rules -> Row \cup {None}]
  /\ leases \subseteq Lease
  /\ born \subseteq Rules
  /\ job \in [Handlers -> Job \cup {None}]
  /\ strayed \subseteq SUBSET Rules /\ overlapped \subseteq Rules

Init ==
  /\ entry = FirstGroup
  /\ grant = [t \in Tunnels |-> None]
  /\ rule = NoRows /\ leases = {} /\ born = {}
  /\ job = [h \in Handlers |-> None]
  /\ strayed = {} /\ overlapped = {}

-----------------------------------------------------------------------------
(* Checks of prepareForwardRuleTx *)

\* What a transaction sees: what is committed, and its own rows.
View(h) == [r \in Rules |-> IF job[h].rows[r] # None THEN job[h].rows[r] ELSE rule[r]]

\* Rules on the tunnels of T, without the one being written.
CountRules(rows, T, r) ==
  Cardinality({s \in Rules \ {r} : rows[s] # None /\ rows[s].tunnel \in T})
Below(n, limit) == limit = 0 \/ n < limit

\* Mutant: only leases are looked at, not the rules behind the tunnels.
PortLeasedOnly(h, r, row) ==
  \E l \in leases \cup job[h].leases :
    /\ l.rule # r /\ l.group = entry[row.tunnel]
    /\ l.port = row.port /\ l.transport \in row.transports
\* A port is in use if it is leased, or if a rule behind the entry group has it.
PortInUse(h, r, row) ==
  \/ \E l \in leases \cup job[h].leases :
       /\ l.rule # r /\ l.group = entry[row.tunnel]
       /\ l.port = row.port /\ l.transport \in row.transports
  \/ \E s \in Rules \ {r} :
       LET other == View(h)[s] IN
       /\ other # None /\ other.enabled
       /\ entry[other.tunnel] = entry[row.tunnel]
       /\ other.port = row.port
       /\ other.transports \cap row.transports # {}

\* Mutant: leases are taken for every transport but the first.
NeededLeasesForOne(r, row) ==
  IF row.enabled
    THEN {[rule |-> r, group |-> entry[row.tunnel], transport |-> t, port |-> row.port] :
            t \in {CHOOSE t \in row.transports : TRUE}}
    ELSE {}
NeededLeases(r, row) ==
  IF row.enabled
    THEN {[rule |-> r, group |-> entry[row.tunnel], transport |-> t, port |-> row.port] :
            t \in row.transports}
    ELSE {}

LocksFree(h, groups, grants) ==
  \A k \in Busy \ {h} : job[k].groups \cap groups = {} /\ job[k].grants \cap grants = {}

\* Mutant: the grant's row is read without locking it.
LocksGroupsOnly(row) == {}
LockedGrants(row) == {row.tunnel}

-----------------------------------------------------------------------------
(* Writing rules *)

BeginCreate(h) ==
  /\ job[h] = None
  /\ job' = [job EXCEPT ![h] = NewJob("create", None, None)]
  /\ UNCHANGED <<entry, grant, rule, leases, born, strayed, overlapped>>

\* Mutant: nobody asks whether the rule is there.
BeginUpdateAny(h, r) ==
  /\ job[h] = None /\ r \in born
  /\ \E t \in Tunnels :
       /\ Exists(r) => rule[r].tunnel = t
       /\ job' = [job EXCEPT ![h] = NewJob("update", r, t)]
  /\ UNCHANGED <<entry, grant, rule, leases, born, strayed, overlapped>>
\* The row is read before the transaction.
BeginUpdate(h, r) ==
  /\ job[h] = None /\ Exists(r)
  /\ job' = [job EXCEPT ![h] = NewJob("update", r, rule[r].tunnel)]
  /\ UNCHANGED <<entry, grant, rule, leases, born, strayed, overlapped>>

\* One row is locked for, checked and written in the transaction; a batch does
\* this for one rule after the other.  A port that was not asked for is any
\* port that passes the checks.
Prepare(h, r, row) ==
  LET groups == {entry[row.tunnel]} \cup
                  (IF job[h].kind = "update" THEN {entry[job[h].prev]} ELSE {})
  IN
  /\ h \in Busy /\ job[h].rows[r] = None
  /\ \/ job[h].kind = "create" /\ r \notin born /\ \A k \in Busy : job[k].rows[r] = None
     \/ job[h].kind = "update" /\ job[h].rule = r
  /\ LocksFree(h, groups, {row.tunnel})
  /\ grant[row.tunnel] # None
  /\ Below(CountRules(View(h), {row.tunnel}, r), grant[row.tunnel])
  /\ ~PortInUse(h, r, row)
  /\ Below(CountRules(View(h), Tunnels, r), UserLimit)
  /\ job' = [job EXCEPT ![h].rows[r] = row,
                        ![h].leases = @ \cup NeededLeases(r, row),
                        ![h].groups = @ \cup groups,
                        ![h].grants = @ \cup LockedGrants(row)]
  /\ UNCHANGED <<entry, grant, rule, leases, born, strayed, overlapped>>

\* The unique index refuses a lease somebody else holds, and a deletion that has
\* removed the rule's leases makes an update of it wait.
CanInsert(h) ==
  \A l \in job[h].leases, k \in leases :
    job[h].rows[k.rule] = None =>
      <<l.group, l.transport, l.port>> # <<k.group, k.transport, k.port>>
HeldByDeletion(r) ==
  \E k \in Deleting(r) : ~job[k].waits /\ ~job[k].spares /\ LeasesOf(r) # {}

Commit(h) ==
  LET written == {r \in Rules : job[h].rows[r] # None} IN
  /\ h \in Busy /\ InTransaction(h)
  /\ CanInsert(h) /\ \A r \in written : ~HeldByDeletion(r)
  /\ rule' = View(h)
  /\ leases' = {l \in leases : l.rule \notin written} \cup job[h].leases
  /\ born' = born \cup written
  /\ job' = [k \in Handlers |->
               IF k = h THEN None
               ELSE IF k \in UNION {Deleting(r) : r \in written}
                 THEN [job[k] EXCEPT !.spares = TRUE]
                 ELSE job[k]]
  /\ strayed' = {x \in strayed : \A r \in written : x # {r}} \cup
       Stray({l.rule : l \in {l \in job[h].leases :
                                 l.group # entry[job[h].rows[l.rule].tunnel]}})
  /\ UNCHANGED <<entry, grant, overlapped>>

\* A row that is refused, a failure, a deadlock's victim, the end of a preview.
Rollback(h) ==
  /\ h \in Busy
  /\ job' = [job EXCEPT ![h] = None]
  /\ UNCHANGED <<entry, grant, rule, leases, born, strayed, overlapped>>

\* Deleting the leases waits for an update that has replaced them already.
DeleteLeases(h, r) ==
  /\ job[h] = None /\ Exists(r)
  /\ \E waits \in {FALSE} \cup {InTransaction(k) : k \in Updating(r)} :
       job' = [job EXCEPT ![h] = [NewJob("delete", r, None) EXCEPT !.waits = waits]]
  /\ UNCHANGED <<entry, grant, rule, leases, born, strayed, overlapped>>

DeleteRule(h) ==
  LET r == job[h].rule IN
  /\ h \in Busy /\ job[h].kind = "delete"
  /\ job[h].waits => \A k \in Updating(r) : ~InTransaction(k)
  /\ rule' = [rule EXCEPT ![r] = None]
  /\ leases' = IF job[h].spares THEN leases ELSE leases \ LeasesOf(r)
  /\ overlapped' = IF Updating(r) # {} \/ job[h].spares
                     THEN overlapped \cup {r} ELSE overlapped
  /\ job' = [job EXCEPT ![h] = None]
  /\ UNCHANGED <<entry, grant, born, strayed>>

-----------------------------------------------------------------------------
(* What is written around them *)

\* updateTunnel does not look at rules or leases.
MoveTunnel(t, g) ==
  /\ entry[t] # g
  /\ entry' = [entry EXCEPT ![t] = g]
  /\ Cardinality({u \in Tunnels : entry'[u] # FirstGroup[u]}) <= MaxMoved
  /\ strayed' = strayed \cup Stray({r \in Rules :
       \/ Exists(r) /\ rule[r].tunnel = t
       \/ \E h \in Busy : job[h].rows[r] # None /\ job[h].rows[r].tunnel = t})
  /\ UNCHANGED <<grant, rule, leases, born, job, overlapped>>

\* A violation a node reports after the rule was disabled sets its status to
\* "protocol_violation", which is a status that runs.
ReportViolation(r) ==
  /\ Exists(r) /\ ~rule[r].enabled
  /\ rule' = [rule EXCEPT ![r].enabled = TRUE]
  /\ strayed' = strayed \cup Stray({r})
  /\ UNCHANGED <<entry, grant, leases, born, job, overlapped>>

\* Grants are written under their own lock; a new limit covers the rules there are.
SetGrant(t, limit) ==
  /\ \A k \in Busy : t \notin job[k].grants
  /\ grant[t] # None => limit = 0 \/ CountRules(rule, {t}, None) <= limit
  /\ grant' = [grant EXCEPT ![t] = limit]
  /\ UNCHANGED <<entry, rule, leases, born, job, strayed, overlapped>>
DeleteGrant(t) ==
  /\ grant[t] # None
  /\ \A k \in Busy : t \notin job[k].grants
  /\ CountRules(rule, {t}, None) = 0
  /\ grant' = [grant EXCEPT ![t] = None]
  /\ UNCHANGED <<entry, rule, leases, born, job, strayed, overlapped>>

Next ==
  \/ \E h \in Handlers :
       \/ BeginCreate(h) \/ Commit(h) \/ Rollback(h) \/ DeleteRule(h)
       \/ \E r \in Rules : BeginUpdate(h, r) \/ DeleteLeases(h, r)
       \/ \E r \in Rules, row \in Row : Prepare(h, r, row)
  \/ \E t \in Tunnels, g \in Groups : MoveTunnel(t, g)
  \/ \E r \in Rules : ReportViolation(r)
  \/ \E t \in Tunnels : DeleteGrant(t) \/ \E limit \in GrantLimits : SetGrant(t, limit)

Spec == Init /\ [][Next]_vars

-----------------------------------------------------------------------------
(* Properties *)

Conflict(r, s) ==
  /\ Exists(r) /\ Exists(s) /\ rule[r].enabled /\ rule[s].enabled
  /\ entry[rule[r].tunnel] = entry[rule[s].tunnel]
  /\ rule[r].port = rule[s].port
  /\ rule[r].transports \cap rule[s].transports # {}

\* Two rules that run on one node never ask for one port, whichever writes overlap,
\* unless both were there when the entry group of a tunnel changed or a violation
\* enabled one of them.
PortsExclusive ==
  \A r, s \in Rules : r # s /\ Conflict(r, s) => {r, s} \in strayed

\* A rule holds leases for what it listens on, and nothing else holds any: a port is
\* not lost with its rule unless an update overlapped the deletion.
LeasesFitRules ==
  /\ TypeOK
  /\ \A r \in Rules :
       Exists(r) /\ {r} \notin strayed =>
         {<<l.group, l.transport, l.port>> : l \in LeasesOf(r)} =
           IF rule[r].enabled
             THEN {entry[rule[r].tunnel]} \X rule[r].transports \X {rule[r].port}
             ELSE {}
  /\ \A l \in leases : Exists(l.rule) \/ l.rule \in overlapped

\* There are no more rules on a tunnel than its grant allows, and none without one,
\* while rules and grants are written at once.
GrantsRespected ==
  \A t \in Tunnels :
    LET n == CountRules(rule, {t}, None) IN
    n > 0 => grant[t] # None /\ (grant[t] = 0 \/ n <= grant[t])

\* A deleted rule does not come back, unless an update had read it before (saving a
\* row that is gone inserts it).
DeletedStaysDeleted ==
  [][\A r \in born : ~Exists(r) /\ rule'[r] # None => r \in overlapped]_vars
=============================================================================
