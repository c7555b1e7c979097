----------------------------- MODULE ConfigSync -----------------------------
(***************************************************************************)
(* Distribution of one node's configuration: the administrators' writes in *)
(* the API, the config, ack and heartbeat endpoints, and the agent's       *)
(* Syncer with the runtime it drives.                                      *)
(*                                                                         *)
(* A configuration is a function from items (the tables the config handler *)
(* reads one after the other: tunnels, rules with their accounts and       *)
(* grants, policies, limits, probes) to the number of the write that made  *)
(* the item what it is.  Writes are numbered by the UnixNano they carry,   *)
(* so one number stands for a write, its revision and its content.  The    *)
(* nonce is a hash of the token and the revision: it is the revision here. *)
(*                                                                         *)
(* One tick of the clock is one period of the agent's 30 s config ticker.  *)
(***************************************************************************)
EXTENDS Integers, FiniteSets

CONSTANTS
  NumItems,     \* items, in the order the config handler reads them
  Concurrency,  \* administrator requests in flight at once
  LeaseTicks,   \* length of a configuration lease (agentConfigLease)
  MaxLag,       \* ticks that may pass between two lease decisions
  Skews,        \* possible offsets of the agent's clock from the API's
  NoConfig,     \* no listener at all; no rendered file
  MaxRevision,  \* bound: revisions handed out
  MaxNodeSaves, \* bound: node rows saved by updateNode / requestNodeUninstall
  MaxLate,      \* bound: acks in flight after the agent gave up on them
  MaxClock,     \* bound: ticks
  MaxRestarts   \* bound: agent restarts

Items == 1 .. NumItems
Contents == [Items -> Nat]

ASSUME NumItemsAssumption == NumItems \in Nat \ {0}
ASSUME LeaseAssumption == LeaseTicks \in Nat \ {0} /\ MaxLag \in Nat
ASSUME SkewsAssumption == Skews \subseteq Int
ASSUME NoConfigAssumption == NoConfig \notin Contents

(***************************************************************************)
(* The API.                                                                *)
(*   revision      the last UnixNano handed out                            *)
(*   writing       writes that have their revision and are not committed   *)
(*   item          number of the last write committed to each item         *)
(*   stamped       items whose row carries that number (revision or        *)
(*                 updated_at); deletions, grants and account rows do not  *)
(*   node          the columns of the node's row used here                 *)
(*   nodeSaves     node rows read by updateNode and not yet saved          *)
(*   saved         how many there have been                                *)
(***************************************************************************)
VARIABLES revision, writing, item, stamped, node, nodeSaves, saved

(***************************************************************************)
(* The agent.                                                              *)
(*   pc            where SyncOnce is                                       *)
(*   cfg           the config answer, while it is read and once received   *)
(*   syncer        the fields of Syncer                                    *)
(*   runtime       the content the listeners run, or NoConfig              *)
(*   rendered      the content of rendered-gost.json, or NoConfig          *)
(***************************************************************************)
VARIABLES pc, cfg, syncer, runtime, rendered

(***************************************************************************)
(* The environment: late acks, the clock, the ticks since the last lease   *)
(* decision, the agent's clock offset, the restarts so far.                *)
(***************************************************************************)
VARIABLES late, clock, lag, skew, restarts

(***************************************************************************)
(* History, read by properties only.                                       *)
(*   published     the highest revision committed so far                   *)
(*   raced         items whose last write was numbered in a way that an    *)
(*                 already served configuration may hide                   *)
(*   everApplied   revisions the agent has applied                         *)
(***************************************************************************)
VARIABLES published, raced, everApplied

writeVars == <<revision, writing, item, stamped, nodeSaves, saved>>
apiVars == <<writeVars, node>>
agentVars == <<pc, cfg, syncer, runtime, rendered>>
envVars == <<late, clock, lag, skew, restarts>>
history == <<published, raced, everApplied>>
vars == <<apiVars, agentVars, envVars, history>>

Statuses == {"", "applied", "rejected", "rolled_back", "lease_expired"}
Ack == [revision : Nat, status : Statuses]
Later(a, b) == IF a >= b THEN a ELSE b
AgentNow == clock + skew

-----------------------------------------------------------------------------
NodeRow == [desired : Nat, ackRevision : Nat, ackStatus : Statuses,
            applied : Nat, lastGood : Nat]

Write == [item : Items, revision : Nat, stamp : BOOLEAN]
NodeSave == [row : NodeRow, ready : BOOLEAN]
Answer == [revision : Nat, content : Contents, next : 1 .. NumItems + 1,
           validUntil : Int]
SyncerFields ==
  [appliedRevision : Nat, hasSynced : BOOLEAN, leaseValidUntil : Int,
   failClosed : BOOLEAN, configRevision : Nat, configStatus : Statuses,
   ackPending : BOOLEAN, appliedConfig : Contents]
Listening == Contents \cup {NoConfig}

ApiTypeOK ==
  /\ revision \in Nat /\ saved \in Nat
  /\ writing \subseteq Write
  /\ item \in Contents
  /\ stamped \subseteq Items
  /\ node \in NodeRow
  /\ nodeSaves \subseteq NodeSave
AgentTypeOK ==
  /\ pc \in {"idle", "fetch", "ackApplied", "ackRejected", "ackLease"}
  /\ cfg \in Answer
  /\ syncer \in SyncerFields
  /\ runtime \in Listening /\ rendered \in Listening
EnvTypeOK ==
  /\ late \subseteq Ack
  /\ clock \in Nat /\ lag \in 0 .. MaxLag /\ skew \in Skews /\ restarts \in Nat
  /\ published \in Nat /\ raced \subseteq Items /\ everApplied \subseteq Nat

\* Every variable holds a value of its kind.
TypeOK == ApiTypeOK /\ AgentTypeOK /\ EnvTypeOK

NoContent == [i \in Items |-> 0]
IdleConfig ==
  [revision |-> 0, content |-> NoContent, next |-> 1, validUntil |-> 0]
NewSyncer ==
  [appliedRevision |-> 0, hasSynced |-> FALSE, leaseValidUntil |-> 0,
   failClosed |-> FALSE, configRevision |-> 0, configStatus |-> "",
   ackPending |-> FALSE, appliedConfig |-> NoContent]

\* A registered node with every item still as it was first created.
Init ==
  /\ revision = 1 /\ writing = {}
  /\ item = [i \in Items |-> 1] /\ stamped = Items
  /\ node = [desired |-> 1, ackRevision |-> 0, ackStatus |-> "",
             applied |-> 0, lastGood |-> 0]
  /\ nodeSaves = {} /\ saved = 0
  /\ pc = "idle" /\ cfg = IdleConfig /\ syncer = NewSyncer
  /\ runtime = NoConfig /\ rendered = NoConfig
  /\ late = {} /\ clock = 0 /\ lag = 0 /\ skew \in Skews /\ restarts = 0
  /\ published = 1 /\ raced = {} /\ everApplied = {}

-----------------------------------------------------------------------------
(* Administrators' writes *)

\* A write handler takes its revision from the wall clock before the
\* transaction it belongs to starts.
BeginWrite(i, stamp) ==
  /\ revision < MaxRevision
  /\ Cardinality(writing) < Concurrency
  /\ revision' = revision + 1
  /\ writing' = writing \cup
       {[item |-> i, revision |-> revision + 1, stamp |-> stamp]}
  /\ UNCHANGED <<item, stamped, nodeSaves, saved, node>>
  /\ UNCHANGED <<agentVars, envVars, history>>

\* Mutant: a handler that forgets to bump the nodes.
NoBump(r) == node

\* desiredRevisionExpr: the node's desired revision is raised, never lowered.
Bump(r) == [node EXCEPT !.desired = Later(@, r)]

\* The transaction commits: the row changes and the nodes of the touched
\* tunnel's groups are bumped, atomically.
CommitWrite(w) ==
  /\ w \in writing
  /\ writing' = writing \ {w}
  /\ item' = [item EXCEPT ![w.item] = w.revision]
  /\ stamped' = IF w.stamp THEN stamped \cup {w.item} ELSE stamped \ {w.item}
  /\ node' = Bump(w.revision)
  /\ published' = Later(published, w.revision)
  /\ raced' = IF w.revision <= published THEN raced \cup {w.item}
                                         ELSE raced \ {w.item}
  /\ UNCHANGED <<revision, nodeSaves, saved, everApplied>>
  /\ UNCHANGED <<agentVars, envVars>>

\* The transaction fails and rolls back; its revision is never used.
AbortWrite(w) ==
  /\ w \in writing
  /\ writing' = writing \ {w}
  /\ UNCHANGED <<revision, item, stamped, nodeSaves, saved, node>>
  /\ UNCHANGED <<agentVars, envVars, history>>

\* updateNode reads the whole row of the node ...
BeginNodeSave ==
  /\ saved < MaxNodeSaves
  /\ saved' = saved + 1
  /\ nodeSaves' = nodeSaves \cup {[row |-> node, ready |-> FALSE]}
  /\ UNCHANGED <<revision, writing, item, stamped, node>>
  /\ UNCHANGED <<agentVars, envVars, history>>

\* ... puts the time of day into the desired revision of its copy ...
StampNodeSave(s) ==
  /\ s \in nodeSaves /\ ~s.ready
  /\ revision < MaxRevision
  /\ revision' = revision + 1
  /\ nodeSaves' = (nodeSaves \ {s}) \cup
       {[row |-> [s.row EXCEPT !.desired = revision + 1], ready |-> TRUE]}
  /\ UNCHANGED <<writing, item, stamped, saved, node>>
  /\ UNCHANGED <<agentVars, envVars, history>>

\* ... and saves every column of it, without looking at what the row has
\* become meanwhile.
CommitNodeSave(s) ==
  /\ s \in nodeSaves /\ s.ready
  /\ nodeSaves' = nodeSaves \ {s}
  /\ node' = s.row
  /\ published' = Later(published, s.row.desired)
  /\ raced' = raced \cup {i \in Items : item[i] > s.row.desired}
  /\ UNCHANGED <<revision, writing, item, stamped, saved, everApplied>>
  /\ UNCHANGED <<agentVars, envVars>>

-----------------------------------------------------------------------------
(* The config endpoint *)

\* SyncOnce asks for the configuration; agentAuth reads the node's row before
\* the handler reads anything else.
SyncStart ==
  /\ pc = "idle"
  /\ pc' = "fetch"
  /\ cfg' = [revision |-> node.desired, content |-> NoContent, next |-> 1,
             validUntil |-> clock + LeaseTicks]
  /\ UNCHANGED <<syncer, runtime, rendered>>
  /\ UNCHANGED <<apiVars, envVars, history>>

ServedRevision(i) ==
  IF i \in stamped THEN Later(cfg.revision, item[i]) ELSE cfg.revision

\* The handler reads the tables one query at a time, with no transaction
\* around them; a row's own stamp raises the revision of the answer.
ReadItem(i) ==
  /\ pc = "fetch" /\ cfg.next = i
  /\ cfg' = [cfg EXCEPT !.content[i] = item[i], !.next = i + 1,
                        !.revision = ServedRevision(i)]
  /\ raced' = raced \cup {j \in 1 .. i - 1 : /\ cfg.content[j] # item[j]
                                             /\ item[j] <= ServedRevision(i)}
  /\ UNCHANGED <<pc, syncer, runtime, rendered, published, everApplied>>
  /\ UNCHANGED <<apiVars, envVars>>

-----------------------------------------------------------------------------
(* The ack and heartbeat endpoints *)

\* Mutant: every ack counts as an application.
RecordAckAsApplied(m) ==
  node' = IF node.ackRevision > m.revision THEN node
          ELSE [node EXCEPT
                  !.ackRevision = m.revision, !.ackStatus = m.status,
                  !.applied = m.revision, !.lastGood = m.revision]

\* agentConfigAck: an ack older than the one on record changes nothing.
RecordAck(m) ==
  node' = IF node.ackRevision > m.revision THEN node
          ELSE [node EXCEPT
                  !.ackRevision = m.revision, !.ackStatus = m.status,
                  !.applied = IF m.status = "applied" THEN m.revision ELSE @,
                  !.lastGood = IF m.status = "applied" THEN m.revision ELSE @]

\* The four ends of an ack request; ok is what the agent sees of it.
SendAck(m, ok) ==
  \/ ok /\ RecordAck(m) /\ UNCHANGED late
  \/ ~ok /\ RecordAck(m) /\ UNCHANGED late              \* the answer is lost
  \/ ~ok /\ UNCHANGED <<node, late>>                    \* the request is lost
  \/ ~ok /\ Cardinality(late) < MaxLate                 \* the API is slow
         /\ late' = late \cup {m} /\ UNCHANGED node

\* The API gets round to an ack whose sender has given up on it.
RecordLateAck(m) ==
  /\ m \in late
  /\ late' = late \ {m}
  /\ RecordAck(m)
  /\ UNCHANGED <<clock, lag, skew, restarts>>
  /\ UNCHANGED <<writeVars, agentVars, history>>

\* The heartbeat goes through: the applied revision is raised, never lowered.
Heartbeat ==
  /\ pc = "idle"
  /\ node' = [node EXCEPT !.applied = Later(@, syncer.appliedRevision)]
  /\ UNCHANGED <<writeVars, agentVars, envVars, history>>

-----------------------------------------------------------------------------
(* The agent: SyncOnce after the config request *)

\* Mutants: only the lease of an acknowledged application is enforced; the
\* lease ends one instant early.
LeaseExpiredIfApplied ==
  /\ syncer.hasSynced /\ ~syncer.failClosed /\ syncer.configStatus = "applied"
  /\ AgentNow > syncer.leaseValidUntil
LeaseExpiredEarly == syncer.hasSynced /\ ~syncer.failClosed
                     /\ AgentNow >= syncer.leaseValidUntil

LeaseExpired == syncer.hasSynced /\ ~syncer.failClosed
                /\ AgentNow > syncer.leaseValidUntil

\* failClosedIfLeaseExpired: the runtime is given an empty configuration.
EnforceLease ==
  /\ lag' = 0
  /\ IF LeaseExpired
       THEN /\ syncer' = [syncer EXCEPT !.failClosed = TRUE,
                                        !.configStatus = "lease_expired"]
            /\ runtime' = NoConfig
            /\ pc' = "ackLease"
       ELSE /\ pc' = "idle"
            /\ UNCHANGED <<syncer, runtime>>

\* The request fails: no network, an API error, or a disabled node's 403.
GetFails ==
  /\ pc = "fetch"
  /\ EnforceLease
  /\ UNCHANGED <<cfg, rendered, late, clock, skew, restarts>>
  /\ UNCHANGED <<apiVars, history>>

Received == pc = "fetch" /\ cfg.next = NumItems + 1
AnswerExpired == cfg.validUntil <= AgentNow

\* Mutant: a runtime that failed closed is not started again.
IsCurrentWhenClosed ==
  /\ syncer.hasSynced
  /\ syncer.appliedRevision = cfg.revision
  /\ syncer.configRevision = cfg.revision

\* refreshCurrentLease: the answer is the configuration already running.
IsCurrent ==
  /\ syncer.hasSynced /\ ~syncer.failClosed
  /\ syncer.appliedRevision = cfg.revision
  /\ syncer.configRevision = cfg.revision

RefreshLease ==
  /\ Received /\ ~AnswerExpired /\ IsCurrent
  /\ syncer' = [syncer EXCEPT !.leaseValidUntil = cfg.validUntil]
  /\ pc' = IF syncer.ackPending THEN "ackApplied" ELSE "idle"
  /\ lag' = 0
  /\ UNCHANGED <<cfg, runtime, rendered, late, clock, skew, restarts>>
  /\ UNCHANGED <<apiVars, history>>

ApplyConfig ==
  /\ Received /\ ~AnswerExpired /\ ~IsCurrent
  /\ rendered' = cfg.content
  /\ runtime' = cfg.content
  /\ syncer' = [appliedRevision |-> cfg.revision, hasSynced |-> TRUE,
                leaseValidUntil |-> cfg.validUntil, failClosed |-> FALSE,
                configRevision |-> cfg.revision, configStatus |-> "applied",
                ackPending |-> TRUE, appliedConfig |-> cfg.content]
  /\ everApplied' = everApplied \cup {cfg.revision}
  /\ pc' = "ackApplied"
  /\ lag' = 0
  /\ UNCHANGED <<cfg, late, clock, skew, restarts, published, raced>>
  /\ UNCHANGED apiVars

\* Mutant: the configuration is recorded before it is known to be running.
RejectRecorded ==
  /\ syncer' = [syncer EXCEPT
                  !.configRevision = cfg.revision, !.ackPending = FALSE,
                  !.appliedConfig = cfg.content,
                  !.configStatus =
                    IF syncer.hasSynced THEN "rolled_back" ELSE "rejected"]
  /\ pc' = "ackRejected"
  /\ UNCHANGED <<cfg, runtime>>
  /\ UNCHANGED <<apiVars, envVars, history>>

\* rejectConfig, up to its ack.
Reject ==
  /\ syncer' = [syncer EXCEPT
                  !.configRevision = cfg.revision, !.ackPending = FALSE,
                  !.configStatus =
                    IF syncer.hasSynced THEN "rolled_back" ELSE "rejected"]
  /\ pc' = "ackRejected"
  /\ UNCHANGED <<cfg, runtime>>
  /\ UNCHANGED <<apiVars, envVars, history>>

RejectExpired == Received /\ AnswerExpired /\ Reject /\ UNCHANGED rendered

\* Render fails before the runtime is touched.
RenderFails ==
  Received /\ ~AnswerExpired /\ ~IsCurrent /\ Reject /\ UNCHANGED rendered

\* A listener fails to start: the runtime keeps what it ran, and the file is
\* put back (restoreRenderedConfig), which may fail as well.
Previous == IF syncer.hasSynced THEN syncer.appliedConfig ELSE NoConfig
ApplyFails ==
  /\ Received /\ ~AnswerExpired /\ ~IsCurrent
  /\ Reject
  /\ rendered' \in {Previous, cfg.content}

AckApplied(ok) ==
  /\ pc = "ackApplied"
  /\ SendAck([revision |-> cfg.revision, status |-> "applied"], ok)
  /\ syncer' = [syncer EXCEPT !.ackPending =
                  @ /\ ~(ok /\ syncer.configRevision = cfg.revision)]
  /\ pc' = "idle"
  /\ UNCHANGED <<cfg, runtime, rendered, clock, lag, skew, restarts>>
  /\ UNCHANGED <<writeVars, history>>

StatusAck ==
  [revision |-> syncer.configRevision, status |-> syncer.configStatus]

\* The rejection is acked, then the lease of what still runs is checked.
AckRejected(ok) ==
  /\ pc = "ackRejected"
  /\ SendAck(StatusAck, ok)
  /\ EnforceLease
  /\ UNCHANGED <<cfg, rendered, clock, skew, restarts>>
  /\ UNCHANGED <<writeVars, history>>

AckLease(ok) ==
  /\ pc = "ackLease"
  /\ SendAck(StatusAck, ok)
  /\ pc' = "idle"
  /\ UNCHANGED <<cfg, syncer, runtime, rendered, clock, lag, skew, restarts>>
  /\ UNCHANGED <<writeVars, history>>

-----------------------------------------------------------------------------
(* Restarts and time *)

\* The process ends and starts again: only the rendered file survives, the
\* one just written for an answer not yet applied included, and a status ack
\* it was sending may still arrive.
Restart ==
  /\ restarts < MaxRestarts
  /\ restarts' = restarts + 1
  /\ pc' = "idle" /\ cfg' = IdleConfig /\ syncer' = NewSyncer
  /\ runtime' = NoConfig
  /\ lag' = 0
  /\ \/ UNCHANGED late
     \/ /\ pc \in {"ackApplied", "ackRejected", "ackLease"}
        /\ Cardinality(late) < MaxLate
        /\ late' = late \cup {StatusAck}
  /\ \/ UNCHANGED rendered
     \/ Received /\ ~AnswerExpired /\ ~IsCurrent /\ rendered' = cfg.content
  /\ UNCHANGED <<clock, skew>>
  /\ UNCHANGED <<apiVars, history>>

Tick ==
  /\ clock < MaxClock /\ lag < MaxLag
  /\ clock' = clock + 1 /\ lag' = lag + 1
  /\ UNCHANGED <<late, skew, restarts>>
  /\ UNCHANGED <<apiVars, agentVars, history>>

Next ==
  \/ \E i \in Items, stamp \in BOOLEAN : BeginWrite(i, stamp)
  \/ \E w \in writing : CommitWrite(w) \/ AbortWrite(w)
  \/ BeginNodeSave
  \/ \E s \in nodeSaves : StampNodeSave(s) \/ CommitNodeSave(s)
  \/ SyncStart
  \/ \E i \in Items : ReadItem(i)
  \/ \E m \in late : RecordLateAck(m)
  \/ Heartbeat
  \/ GetFails
  \/ RefreshLease
  \/ ApplyConfig
  \/ RejectExpired
  \/ RenderFails
  \/ ApplyFails
  \/ \E ok \in BOOLEAN : AckApplied(ok) \/ AckRejected(ok) \/ AckLease(ok)
  \/ Restart
  \/ Tick

Spec == Init /\ [][Next]_vars

-----------------------------------------------------------------------------
(* What the protocol promises *)

(***************************************************************************)
(* A node that cannot confirm its configuration stops: once the lease has  *)
(* run out, listeners survive only until the next decision of the agent,   *)
(* and no lease reaches further than the API granted.  This is the promise *)
(* that a revoked rule does not run forever on an unreachable node.        *)
(***************************************************************************)
LeaseBound ==
  runtime # NoConfig =>
    /\ AgentNow <= syncer.leaseValidUntil + lag
    /\ syncer.leaseValidUntil <= clock + LeaseTicks

(***************************************************************************)
(* The listeners run exactly the configuration the agent records and       *)
(* reports as applied: a rejected configuration leaves no trace in them,   *)
(* and they are shut exactly when nothing was applied or the lease is gone.*)
(***************************************************************************)
RuntimeIsApplied ==
  runtime = IF syncer.hasSynced /\ ~syncer.failClosed
              THEN syncer.appliedConfig ELSE NoConfig

(***************************************************************************)
(* An update the node does not run yet is announced to it: the desired     *)
(* revision is one the agent has not applied, so the next answer is not    *)
(* taken for the running configuration.  It can fail only for the writes   *)
(* in raced: those whose number was already overtaken when they committed, *)
(* those a config read missed while taking a higher number from a row it   *)
(* read later, and those above a desired revision a node save put back.    *)
(***************************************************************************)
AnnouncedUpdate ==
  syncer.hasSynced =>
    \A i \in Items \ raced :
      syncer.appliedConfig[i] # item[i] => node.desired > syncer.appliedRevision

(***************************************************************************)
(* What the panel shows as applied or last good was applied by the agent,  *)
(* whatever happened to acks, heartbeats and node saves on the way.        *)
(***************************************************************************)
ReportedIsReal ==
  {node.applied, node.lastGood} \subseteq everApplied \cup {0}

(***************************************************************************)
(* A failed replacement keeps the previous version running: listeners are  *)
(* taken away only by an expired lease or the end of the process.          *)
(***************************************************************************)
PreviousKept ==
  [][runtime # NoConfig /\ runtime' = NoConfig =>
       AgentNow > syncer.leaseValidUntil \/ restarts' # restarts]_vars

(***************************************************************************)
(* Through all of this the node holds a leased copy: see LeasedCopy.  The  *)
(* offer is an answer received and not yet acted upon; what it says of     *)
(* revisions, acks and files is not part of the promise.                   *)
(***************************************************************************)
Offer == IF Received THEN [content |-> cfg.content, until |-> cfg.validUntil]
                     ELSE NoConfig
Copy == INSTANCE LeasedCopy WITH
  Lease <- LeaseTicks, Grace <- MaxLag, Nothing <- NoConfig, offer <- Offer,
  held <- runtime, until <- syncer.leaseValidUntil, lives <- restarts
HoldsLeasedCopy == Copy!Spec

(***************************************************************************)
(* Fairness: the agent's tickers keep it syncing and reporting,            *)
(* transactions finish, and from time to time a request gets through and   *)
(* the listeners start.  The administrators, the clock and crashes owe     *)
(* nothing.                                                                *)
(***************************************************************************)
Fairness ==
  /\ WF_vars(SyncStart \/ RejectExpired \/ AckRejected(TRUE) \/ AckLease(TRUE))
  /\ \A i \in Items : SF_vars(ReadItem(i))
  /\ SF_vars(RefreshLease) /\ SF_vars(ApplyConfig)
  /\ SF_vars(AckApplied(TRUE)) /\ SF_vars(Heartbeat)
  /\ WF_vars(\E w \in writing : CommitWrite(w) \/ AbortWrite(w))
FairSpec == Spec /\ Fairness

(***************************************************************************)
(* An expired answer that carries the running revision is rejected under   *)
(* it: the status says rolled back, and no later answer of that revision   *)
(* is applied or acknowledged, for refreshCurrentLease takes it for the    *)
(* running configuration and nothing is pending.                           *)
(***************************************************************************)
RejectedWhileRunning ==
  /\ syncer.configStatus = "rolled_back"
  /\ syncer.configRevision = syncer.appliedRevision

(***************************************************************************)
(* Once the administrators are quiet, the node ends up running the last    *)
(* write of every item that was not raced, and the panel knows what it     *)
(* runs.  The panel also has its application acknowledged, unless the      *)
(* last thing the agent rejected was the configuration it runs.            *)
(***************************************************************************)
Converges ==
  <>[](/\ runtime # NoConfig
       /\ \A i \in Items \ raced : runtime[i] = item[i]
       /\ node.applied = syncer.appliedRevision
       /\ node.ackStatus = "applied" \/ RejectedWhileRunning)
=============================================================================
