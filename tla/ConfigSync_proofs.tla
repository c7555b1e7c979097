-------------------------- MODULE ConfigSync_proofs --------------------------
(***************************************************************************)
(* Proofs about ConfigSync, for every number of items, every length of the *)
(* lease and every bound.                                                  *)
(***************************************************************************)
EXTENDS ConfigSync, TLAPS

(***************************************************************************)
(* Type correctness.                                                       *)
(***************************************************************************)

\* An acknowledgement leaves a well-formed row.
LEMMA RecordAckType ==
  ASSUME node \in NodeRow, NEW m \in Ack, RecordAck(m)
  PROVE  node' \in NodeRow
BY DEF RecordAck, NodeRow, Ack, Statuses

\* Whatever becomes of an ack request, the row and the late acks stay
\* well-formed.
LEMMA SendAckType ==
  ASSUME node \in NodeRow, late \subseteq Ack,
         NEW m \in Ack, NEW ok \in BOOLEAN, SendAck(m, ok)
  PROVE  node' \in NodeRow /\ late' \subseteq Ack
<1>1. CASE RecordAck(m) /\ UNCHANGED late
  BY <1>1, RecordAckType
<1>2. CASE UNCHANGED <<node, late>>
  BY <1>2
<1>3. CASE late' = late \cup {m} /\ UNCHANGED node
  BY <1>3
<1> QED
  BY <1>1, <1>2, <1>3 DEF SendAck

\* A lease check leaves the agent's state well-formed.
LEMMA EnforceLeaseType ==
  ASSUME syncer \in SyncerFields, runtime \in Listening, EnforceLease
  PROVE  /\ syncer' \in SyncerFields /\ runtime' \in Listening
         /\ pc' \in {"idle", "ackLease"} /\ lag' = 0
BY DEF EnforceLease, SyncerFields, Listening, Statuses

LEMMA StatusAckType ==
  ASSUME syncer \in SyncerFields PROVE StatusAck \in Ack
BY DEF SyncerFields, StatusAck, Ack

LEMMA StartTypes ==
  /\ NoContent \in Contents /\ IdleConfig \in Answer
  /\ NewSyncer \in SyncerFields
BY NumItemsAssumption
DEF NoContent, Contents, IdleConfig, Answer, NewSyncer, SyncerFields, Statuses

LEMMA NodeSaveType ==
  ASSUME NEW r \in NodeRow, NEW b \in BOOLEAN
  PROVE  [row |-> r, ready |-> b] \in NodeSave
BY DEF NodeSave

LEMMA InitType == Init => TypeOK
<1> SUFFICES ASSUME Init PROVE TypeOK
  OBVIOUS
<1>1. ApiTypeOK
  BY DEF Init, ApiTypeOK, Contents, NodeRow, Statuses
<1>2. AgentTypeOK
  BY StartTypes DEF Init, AgentTypeOK, Listening
<1>3. EnvTypeOK
  <2>1. 0 \in 0 .. MaxLag
    BY LeaseAssumption
  <2> QED
    BY <2>1 DEF Init, EnvTypeOK
<1> QED
  BY <1>1, <1>2, <1>3 DEF TypeOK

LEMMA ApiTypeStep == TypeOK /\ [Next]_vars => ApiTypeOK'
<1> SUFFICES ASSUME TypeOK, [Next]_vars PROVE ApiTypeOK'
  OBVIOUS
<1> USE DEF ApiTypeOK
<1>1. ApiTypeOK /\ syncer \in SyncerFields /\ late \subseteq Ack /\ cfg \in Answer
  BY DEF TypeOK, AgentTypeOK, EnvTypeOK
<1>2. ASSUME NEW i \in Items, NEW stamp \in BOOLEAN, BeginWrite(i, stamp)
      PROVE  ApiTypeOK'
  BY <1>1, <1>2 DEF BeginWrite, Write
<1>3. ASSUME NEW w \in writing, CommitWrite(w) PROVE ApiTypeOK'
  <2>1. w \in Write
    BY <1>1
  <2>2. item' \in Contents /\ stamped' \subseteq Items
    BY <1>1, <1>3, <2>1 DEF CommitWrite, Write, Contents
  <2>3. node' \in NodeRow
    BY <1>1, <1>3, <2>1 DEF CommitWrite, Write, Bump, Later, NodeRow
  <2> QED
    BY <1>1, <1>3, <2>2, <2>3 DEF CommitWrite
<1>4. ASSUME NEW w \in writing, AbortWrite(w) PROVE ApiTypeOK'
  BY <1>1, <1>4 DEF AbortWrite
<1>5. CASE BeginNodeSave
  <2>1. nodeSaves' \subseteq NodeSave
    BY <1>1, <1>5, NodeSaveType, Zenon DEF BeginNodeSave
  <2> QED
    BY <1>1, <1>5, <2>1 DEF BeginNodeSave
<1>6. ASSUME NEW s \in nodeSaves, StampNodeSave(s) PROVE ApiTypeOK'
  <2>1. [s.row EXCEPT !.desired = revision + 1] \in NodeRow
    BY <1>1 DEF NodeSave, NodeRow
  <2>2. nodeSaves' \subseteq NodeSave
    BY <1>1, <1>6, <2>1, NodeSaveType, Zenon DEF StampNodeSave
  <2> QED
    BY <1>1, <1>6, <2>2 DEF StampNodeSave
<1>7. ASSUME NEW s \in nodeSaves, CommitNodeSave(s) PROVE ApiTypeOK'
  BY <1>1, <1>7 DEF CommitNodeSave, NodeSave
<1>8. CASE Heartbeat
  BY <1>1, <1>8 DEF Heartbeat, writeVars, NodeRow, Later, SyncerFields
<1>9. ASSUME NEW m \in late, RecordLateAck(m) PROVE ApiTypeOK'
  BY <1>1, <1>9, RecordAckType DEF RecordLateAck, writeVars
<1>10. ASSUME NEW ok \in BOOLEAN, AckApplied(ok) PROVE ApiTypeOK'
  <2>1. [revision |-> cfg.revision, status |-> "applied"] \in Ack
    BY <1>1 DEF Answer, Ack, Statuses
  <2> QED
    BY <1>1, <1>10, <2>1, SendAckType DEF AckApplied, writeVars
<1>11. ASSUME NEW ok \in BOOLEAN, AckRejected(ok) \/ AckLease(ok)
       PROVE  ApiTypeOK'
  BY <1>1, <1>11, StatusAckType, SendAckType
  DEF AckRejected, AckLease, writeVars
<1>12. CASE UNCHANGED apiVars
  BY <1>1, <1>12 DEF apiVars, writeVars
<1> QED
  BY <1>2, <1>3, <1>4, <1>5, <1>6, <1>7, <1>8, <1>9, <1>10, <1>11, <1>12
  DEF Next, SyncStart, ReadItem, GetFails, RefreshLease, ApplyConfig,
      RejectExpired, RenderFails, ApplyFails, Reject, Restart, Tick, vars

\* Reading one item keeps the answer well-formed.
LEMMA ReadItemType ==
  ASSUME TypeOK, NEW i \in Items, ReadItem(i)
  PROVE  ServedRevision(i) \in Nat /\ cfg' \in Answer
<1>1. item[i] \in Nat /\ cfg \in Answer
  BY DEF TypeOK, ApiTypeOK, AgentTypeOK, Contents
<1>2. ServedRevision(i) \in Nat
  BY <1>1 DEF ServedRevision, Later, Answer
<1>3. i + 1 \in 1 .. NumItems + 1
  BY NumItemsAssumption DEF Items
<1> QED
  BY <1>1, <1>2, <1>3 DEF ReadItem, Answer, Contents

LEMMA AgentTypeStep == TypeOK /\ [Next]_vars => AgentTypeOK'
<1> SUFFICES ASSUME TypeOK, [Next]_vars PROVE AgentTypeOK'
  OBVIOUS
<1> USE DEF AgentTypeOK
<1>1. AgentTypeOK /\ node.desired \in Nat /\ clock \in Nat /\ skew \in Int
  BY SkewsAssumption DEF TypeOK, ApiTypeOK, EnvTypeOK, NodeRow
<1>2. CASE SyncStart
  <2>1. cfg' \in Answer
    BY <1>1, <1>2, StartTypes, NumItemsAssumption, LeaseAssumption
    DEF SyncStart, Answer
  <2> QED
    BY <1>1, <1>2, <2>1 DEF SyncStart
<1>3. ASSUME NEW i \in Items, ReadItem(i) PROVE AgentTypeOK'
  BY <1>1, <1>3, ReadItemType DEF ReadItem
<1>4. CASE GetFails
  BY <1>1, <1>4, EnforceLeaseType DEF GetFails
<1>5. CASE RefreshLease
  BY <1>1, <1>5 DEF RefreshLease, Answer, SyncerFields
<1>6. CASE ApplyConfig
  BY <1>1, <1>6 DEF ApplyConfig, Answer, SyncerFields, Statuses, Listening
<1>7. CASE RejectExpired \/ RenderFails \/ ApplyFails
  <2>1. syncer' \in SyncerFields
    BY <1>1, <1>7
    DEF RejectExpired, RenderFails, ApplyFails, Reject, Answer, SyncerFields,
        Statuses
  <2>2. rendered' \in Listening
    BY <1>1, <1>7
    DEF RejectExpired, RenderFails, ApplyFails, Previous, Answer,
        SyncerFields, Listening
  <2> QED
    BY <1>1, <1>7, <2>1, <2>2 DEF RejectExpired, RenderFails, ApplyFails, Reject
<1>8. ASSUME NEW ok \in BOOLEAN, AckApplied(ok) PROVE AgentTypeOK'
  <2>1. syncer' \in SyncerFields
    BY <1>1, <1>8 DEF AckApplied, SyncerFields
  <2> QED
    BY <1>1, <1>8, <2>1 DEF AckApplied
<1>9. ASSUME NEW ok \in BOOLEAN, AckRejected(ok) PROVE AgentTypeOK'
  BY <1>1, <1>9, EnforceLeaseType DEF AckRejected
<1>10. ASSUME NEW ok \in BOOLEAN, AckLease(ok) PROVE AgentTypeOK'
  BY <1>1, <1>10 DEF AckLease
<1>11. CASE Restart
  BY <1>1, <1>11, StartTypes DEF Restart, Listening, Answer
<1>12. CASE UNCHANGED agentVars
  BY <1>1, <1>12 DEF agentVars
<1> QED
  BY <1>2, <1>3, <1>4, <1>5, <1>6, <1>7, <1>8, <1>9, <1>10, <1>11, <1>12
  DEF Next, BeginWrite, CommitWrite, AbortWrite, BeginNodeSave, StampNodeSave,
      CommitNodeSave, RecordLateAck, Heartbeat, Tick, vars

LEMMA EnvTypeStep == TypeOK /\ [Next]_vars => EnvTypeOK'
<1> SUFFICES ASSUME TypeOK, [Next]_vars PROVE EnvTypeOK'
  OBVIOUS
<1> USE DEF EnvTypeOK
<1>1. /\ EnvTypeOK /\ node \in NodeRow /\ syncer \in SyncerFields
      /\ cfg \in Answer /\ 0 \in 0 .. MaxLag
  BY LeaseAssumption DEF TypeOK, ApiTypeOK, AgentTypeOK
<1>2. ASSUME NEW w \in writing, CommitWrite(w) PROVE EnvTypeOK'
  <2>1. w \in Write
    BY DEF TypeOK, ApiTypeOK
  <2> QED
    BY <1>1, <1>2, <2>1 DEF CommitWrite, envVars, Write, Later
<1>3. ASSUME NEW s \in nodeSaves, CommitNodeSave(s) PROVE EnvTypeOK'
  <2>1. s.row.desired \in Nat
    BY DEF TypeOK, ApiTypeOK, NodeSave, NodeRow
  <2> QED
    BY <1>1, <1>3, <2>1 DEF CommitNodeSave, envVars, Later
<1>4. ASSUME NEW i \in Items, ReadItem(i) PROVE EnvTypeOK'
  <2>1. raced' \subseteq Items
    BY <1>1, <1>4, NumItemsAssumption DEF ReadItem, Items
  <2> QED
    BY <1>1, <1>4, <2>1 DEF ReadItem, envVars
<1>5. ASSUME NEW m \in late, RecordLateAck(m) PROVE EnvTypeOK'
  BY <1>1, <1>5 DEF RecordLateAck, history
<1>6. CASE GetFails
  BY <1>1, <1>6 DEF GetFails, EnforceLease, history
<1>7. CASE RefreshLease
  BY <1>1, <1>7 DEF RefreshLease, history
<1>8. CASE ApplyConfig
  BY <1>1, <1>8 DEF ApplyConfig, Answer
<1>9. ASSUME NEW ok \in BOOLEAN, AckApplied(ok) PROVE EnvTypeOK'
  <2>1. [revision |-> cfg.revision, status |-> "applied"] \in Ack
    BY <1>1 DEF Answer, Ack, Statuses
  <2> QED
    BY <1>1, <1>9, <2>1, SendAckType DEF AckApplied, history
<1>10. ASSUME NEW ok \in BOOLEAN, AckRejected(ok) PROVE EnvTypeOK'
  BY <1>1, <1>10, StatusAckType, SendAckType
  DEF AckRejected, EnforceLease, history
<1>11. ASSUME NEW ok \in BOOLEAN, AckLease(ok) PROVE EnvTypeOK'
  BY <1>1, <1>11, StatusAckType, SendAckType DEF AckLease, history
<1>12. CASE Restart
  <2>1. late' \subseteq Ack
    BY <1>1, <1>12, StatusAckType DEF Restart
  <2> QED
    BY <1>1, <1>12, <2>1 DEF Restart, history
<1>13. CASE Tick
  BY <1>1, <1>13, LeaseAssumption DEF Tick, history
<1>14. CASE UNCHANGED <<envVars, history>>
  BY <1>1, <1>14 DEF envVars, history
<1> QED
  BY <1>2, <1>3, <1>4, <1>5, <1>6, <1>7, <1>8, <1>9, <1>10, <1>11, <1>12,
     <1>13, <1>14
  DEF Next, BeginWrite, AbortWrite, BeginNodeSave, StampNodeSave, SyncStart,
      Heartbeat, RejectExpired, RenderFails, ApplyFails, Reject, vars

(***************************************************************************)
(* Every reachable state of the distribution protocol is well-formed.      *)
(***************************************************************************)
THEOREM TypeCorrect == Spec => []TypeOK
BY InitType, ApiTypeStep, AgentTypeStep, EnvTypeStep, PTL DEF Spec, TypeOK

-----------------------------------------------------------------------------
(***************************************************************************)
(* The lease.  Whenever the runtime may be open, the agent's clock is past *)
(* the end of the lease by no more than the time since the last decision;  *)
(* no lease, granted or on its way, reaches beyond LeaseTicks from now.    *)
(***************************************************************************)
LeaseInv ==
  /\ RuntimeIsApplied
  /\ cfg.validUntil <= clock + LeaseTicks
  /\ syncer.leaseValidUntil <= clock + LeaseTicks
  /\ syncer.hasSynced /\ ~syncer.failClosed
       => AgentNow <= syncer.leaseValidUntil + lag

(***************************************************************************)
(* Reports.  What may still be reported as applied, by the row, by a copy  *)
(* of it, by an ack on its way or by the agent's own fields, was applied.  *)
(***************************************************************************)
Reported(row) == {row.applied, row.lastGood} \subseteq everApplied \cup {0}
ReportInv ==
  /\ Reported(node) /\ \A s \in nodeSaves : Reported(s.row)
  /\ \A m \in late : m.status = "applied" => m.revision \in everApplied
  /\ syncer.appliedRevision \in everApplied \cup {0}
  /\ syncer.hasSynced => syncer.appliedRevision \in everApplied
  /\ syncer.configStatus = "applied" => syncer.configRevision \in everApplied
  /\ pc = "ackApplied" => cfg.revision \in everApplied

(***************************************************************************)
(* Announcements.  No number in use is above the highest one committed; a  *)
(* write that was not raced is at most the desired revision; and what a    *)
(* configuration, being read or applied, does not contain is numbered      *)
(* above it.                                                               *)
(***************************************************************************)
Bounded ==
  /\ node.desired <= published /\ cfg.revision <= published
  /\ syncer.appliedRevision <= published
  /\ \A i \in Items : item[i] <= published
Desired == \A i \in Items \ raced : item[i] <= node.desired
ReadOrAbove ==
  pc = "fetch" =>
    \A j \in Items \ raced :
      j < cfg.next => cfg.content[j] = item[j] \/ item[j] > cfg.revision
AppliedOrAbove ==
  syncer.hasSynced =>
    \A i \in Items \ raced :
      syncer.appliedConfig[i] = item[i] \/ item[i] > syncer.appliedRevision
AnnounceInv == Bounded /\ Desired /\ ReadOrAbove /\ AppliedOrAbove

\* The numbers the proofs below do arithmetic with.
LEMMA NumberTypes ==
  ASSUME TypeOK
  PROVE  /\ clock \in Nat /\ lag \in Nat /\ skew \in Int /\ LeaseTicks \in Nat
         /\ AgentNow \in Int /\ cfg.validUntil \in Int /\ cfg.revision \in Nat
         /\ syncer.leaseValidUntil \in Int /\ syncer.appliedRevision \in Nat
         /\ node.desired \in Nat /\ node.applied \in Nat /\ published \in Nat
         /\ \A i \in Items : item[i] \in Nat
BY LeaseAssumption, SkewsAssumption
DEF TypeOK, ApiTypeOK, AgentTypeOK, EnvTypeOK, Answer, SyncerFields, NodeRow,
    Contents, AgentNow

\* A lease decision re-establishes the bound and keeps the runtime what the
\* agent records.
LEMMA EnforceLeaseInv ==
  ASSUME TypeOK, LeaseInv, EnforceLease, UNCHANGED <<clock, skew, cfg>>
  PROVE  LeaseInv'
<1>1. syncer \in SyncerFields
  BY DEF TypeOK, AgentTypeOK
<1>2. CASE LeaseExpired
  <2>1. /\ syncer'.failClosed = TRUE /\ runtime' = NoConfig
        /\ syncer'.leaseValidUntil = syncer.leaseValidUntil
    BY <1>1, <1>2 DEF EnforceLease, SyncerFields
  <2> QED
    BY <2>1 DEF LeaseInv, RuntimeIsApplied
<1>3. CASE ~LeaseExpired
  <2>1. syncer' = syncer /\ runtime' = runtime /\ lag' = 0
    BY <1>3 DEF EnforceLease
  <2>2. syncer.hasSynced /\ ~syncer.failClosed
          => AgentNow <= syncer.leaseValidUntil
    BY <1>3, NumberTypes DEF LeaseExpired
  <2>3. AgentNow' = AgentNow
    BY DEF AgentNow
  <2> QED
    BY <2>1, <2>2, <2>3, NumberTypes DEF LeaseInv, RuntimeIsApplied
<1> QED
  BY <1>2, <1>3

LEMMA LeaseInvInit == Init => LeaseInv
<1> SUFFICES ASSUME Init PROVE LeaseInv
  OBVIOUS
<1>1. /\ syncer.hasSynced = FALSE /\ syncer.leaseValidUntil = 0
      /\ cfg.validUntil = 0 /\ clock = 0 /\ runtime = NoConfig
  BY DEF Init, NewSyncer, IdleConfig
<1> QED
  BY <1>1, LeaseAssumption DEF LeaseInv, RuntimeIsApplied

LEMMA LeaseInvStep == TypeOK /\ LeaseInv /\ [Next]_vars => LeaseInv'
<1> SUFFICES ASSUME TypeOK, LeaseInv, [Next]_vars PROVE LeaseInv'
  OBVIOUS
<1>1. cfg \in Answer /\ syncer \in SyncerFields
  BY DEF TypeOK, AgentTypeOK
<1>2. CASE SyncStart
  <2>1. cfg'.validUntil = clock + LeaseTicks
    BY <1>2 DEF SyncStart
  <2> QED
    BY <1>2, <2>1, NumberTypes
    DEF SyncStart, LeaseInv, RuntimeIsApplied, AgentNow, envVars
<1>3. ASSUME NEW i \in Items, ReadItem(i) PROVE LeaseInv'
  <2>1. cfg'.validUntil = cfg.validUntil
    BY <1>1, <1>3 DEF ReadItem, Answer
  <2> QED
    BY <1>3, <2>1 DEF ReadItem, LeaseInv, RuntimeIsApplied, AgentNow, envVars
<1>4. CASE GetFails
  BY <1>4, EnforceLeaseInv DEF GetFails
<1>5. CASE RefreshLease
  <2>1. /\ syncer'.hasSynced = syncer.hasSynced
        /\ syncer'.failClosed = syncer.failClosed
        /\ syncer'.appliedConfig = syncer.appliedConfig
        /\ syncer'.leaseValidUntil = cfg.validUntil
    BY <1>1, <1>5 DEF RefreshLease, SyncerFields
  <2>2. AgentNow < cfg.validUntil
    BY <1>5, NumberTypes DEF RefreshLease, AnswerExpired
  <2> QED
    BY <1>5, <2>1, <2>2, NumberTypes
    DEF RefreshLease, LeaseInv, RuntimeIsApplied, AgentNow
<1>6. CASE ApplyConfig
  <2>1. AgentNow < cfg.validUntil
    BY <1>6, NumberTypes DEF ApplyConfig, AnswerExpired
  <2> QED
    BY <1>6, <2>1, NumberTypes
    DEF ApplyConfig, LeaseInv, RuntimeIsApplied, AgentNow
<1>7. CASE RejectExpired \/ RenderFails \/ ApplyFails
  <2>1. /\ syncer'.hasSynced = syncer.hasSynced
        /\ syncer'.failClosed = syncer.failClosed
        /\ syncer'.appliedConfig = syncer.appliedConfig
        /\ syncer'.leaseValidUntil = syncer.leaseValidUntil
        /\ UNCHANGED <<cfg, runtime, envVars>>
    BY <1>1, <1>7
    DEF RejectExpired, RenderFails, ApplyFails, Reject, SyncerFields
  <2> QED
    BY <2>1 DEF LeaseInv, RuntimeIsApplied, AgentNow, envVars
<1>8. ASSUME NEW ok \in BOOLEAN, AckApplied(ok) PROVE LeaseInv'
  <2>1. /\ syncer'.hasSynced = syncer.hasSynced
        /\ syncer'.failClosed = syncer.failClosed
        /\ syncer'.appliedConfig = syncer.appliedConfig
        /\ syncer'.leaseValidUntil = syncer.leaseValidUntil
    BY <1>1, <1>8 DEF AckApplied, SyncerFields
  <2> QED
    BY <1>8, <2>1 DEF AckApplied, LeaseInv, RuntimeIsApplied, AgentNow
<1>9. ASSUME NEW ok \in BOOLEAN, AckRejected(ok) PROVE LeaseInv'
  BY <1>9, EnforceLeaseInv DEF AckRejected
<1>10. CASE Restart
  <2>1. /\ syncer'.hasSynced = FALSE /\ syncer'.leaseValidUntil = 0
        /\ cfg'.validUntil = 0 /\ clock' = clock /\ runtime' = NoConfig
    BY <1>10 DEF Restart, NewSyncer, IdleConfig
  <2> QED
    BY <2>1, NumberTypes DEF LeaseInv, RuntimeIsApplied
<1>11. CASE Tick
  BY <1>11, NumberTypes
  DEF Tick, LeaseInv, RuntimeIsApplied, AgentNow, agentVars
<1>12. CASE UNCHANGED <<cfg, syncer, runtime, clock, lag, skew>>
  BY <1>12 DEF LeaseInv, RuntimeIsApplied, AgentNow
<1> QED
  BY <1>2, <1>3, <1>4, <1>5, <1>6, <1>7, <1>8, <1>9, <1>10, <1>11, <1>12
  DEF Next, BeginWrite, CommitWrite, AbortWrite, BeginNodeSave, StampNodeSave,
      CommitNodeSave, RecordLateAck, Heartbeat, AckLease, vars, agentVars, envVars

LEMMA LeaseInvCorrect == Spec => []LeaseInv
BY TypeCorrect, LeaseInvInit, LeaseInvStep, PTL DEF Spec

(***************************************************************************)
(* Listeners are open only under a lease: an agent that cannot confirm its *)
(* configuration shuts them at its first decision after the lease ends,    *)
(* whatever was lost, refused or delayed before.                           *)
(***************************************************************************)
THEOREM LeaseBounded == Spec => []LeaseBound
<1>1. LeaseInv => LeaseBound
  BY DEF LeaseInv, RuntimeIsApplied, LeaseBound
<1> QED
  BY <1>1, LeaseInvCorrect, PTL

(***************************************************************************)
(* The listeners always run exactly what the agent records as applied.     *)
(***************************************************************************)
THEOREM RuntimeCorrect == Spec => []RuntimeIsApplied
<1>1. LeaseInv => RuntimeIsApplied
  BY DEF LeaseInv
<1> QED
  BY <1>1, LeaseInvCorrect, PTL

\* A lease check shuts the listeners only past the end of the lease.
LEMMA EnforceLeaseKeeps ==
  ASSUME EnforceLease, runtime # NoConfig, runtime' = NoConfig
  PROVE  AgentNow > syncer.leaseValidUntil
BY DEF EnforceLease, LeaseExpired

(***************************************************************************)
(* No step but the end of a lease or of the process shuts the listeners: a *)
(* rejected, expired or unreachable configuration leaves the last one on.  *)
(***************************************************************************)
THEOREM PreviousIsKept == Spec => PreviousKept
<1>1. ASSUME TypeOK, [Next]_vars, runtime # NoConfig, runtime' = NoConfig
      PROVE  AgentNow > syncer.leaseValidUntil \/ restarts' # restarts
  <2>1. CASE GetFails \/ \E ok \in BOOLEAN : AckRejected(ok)
    BY <1>1, <2>1, EnforceLeaseKeeps DEF GetFails, AckRejected
  <2>2. CASE ApplyConfig
    <3>1. cfg.content \in Contents
      BY <1>1 DEF TypeOK, AgentTypeOK, Answer
    <3> QED
      BY <1>1, <2>2, <3>1, NoConfigAssumption DEF ApplyConfig
  <2>3. CASE Restart
    BY <1>1, <2>3 DEF Restart, TypeOK, EnvTypeOK
  <2>4. CASE UNCHANGED runtime
    BY <1>1, <2>4
  <2> QED
    BY <1>1, <2>1, <2>2, <2>3, <2>4
    DEF Next, BeginWrite, CommitWrite, AbortWrite, BeginNodeSave,
        StampNodeSave, CommitNodeSave, SyncStart, ReadItem, RecordLateAck,
        Heartbeat, RefreshLease, RejectExpired, RenderFails, ApplyFails,
        Reject, AckApplied, AckLease, Tick, vars, agentVars
<1>2. TypeOK /\ [Next]_vars =>
        [runtime # NoConfig /\ runtime' = NoConfig =>
           AgentNow > syncer.leaseValidUntil \/ restarts' # restarts]_vars
  BY <1>1
<1> QED
  BY <1>2, TypeCorrect, PTL DEF Spec, PreviousKept

-----------------------------------------------------------------------------
(***************************************************************************)
(* The leased copy.  Every step of the protocol is a step of LeasedCopy or *)
(* leaves the copy, its lease, the offer and the clocks alone.             *)
(***************************************************************************)

\* An answer is an offer from its last item to the decision about it.
LEMMA OfferNow ==
  /\ Received => Offer = [content |-> cfg.content, until |-> cfg.validUntil]
  /\ ~Received => Offer = NoConfig
BY DEF Offer

LEMMA ReceivedInFetch == pc # "fetch" => ~Received
BY DEF Received

\* An answer that is not expired is a good offer.
LEMMA GoodOffer ==
  ASSUME TypeOK, Received, ~AnswerExpired
  PROVE  /\ Copy!Good
         /\ Offer = [content |-> cfg.content, until |-> cfg.validUntil]
<1>1. cfg.content \in Contents /\ cfg.validUntil \in Int
  BY DEF TypeOK, AgentTypeOK, Answer
<1>2. cfg.validUntil > clock + skew
  BY NumberTypes DEF AnswerExpired, AgentNow
<1>3. Offer = [content |-> cfg.content, until |-> cfg.validUntil]
  BY OfferNow
<1> QED
  BY <1>1, <1>2, <1>3 DEF Copy!Good, Copy!Offers

\* A lease decision gives the copy up at the end of the lease, or refuses.
LEMMA EnforceLeaseCopy ==
  ASSUME TypeOK, EnforceLease, UNCHANGED <<clock, skew, restarts>>
  PROVE  Copy!Next
<1>1. Offer' = NoConfig
  BY DEF EnforceLease, Offer, Received
<1>2. CASE LeaseExpired
  <2>1. runtime' = NoConfig /\ syncer'.leaseValidUntil = syncer.leaseValidUntil
    BY <1>2 DEF EnforceLease, TypeOK, AgentTypeOK, SyncerFields
  <2>2. clock + skew > syncer.leaseValidUntil
    BY <1>2 DEF LeaseExpired, AgentNow
  <2> QED
    BY <1>1, <2>1, <2>2 DEF Copy!Next, Copy!Expire
<1>3. CASE ~LeaseExpired
  BY <1>1, <1>3 DEF EnforceLease, Copy!Next, Copy!Refuse
<1> QED
  BY <1>2, <1>3

LEMMA CopyInit == Init => Copy!Init
<1> SUFFICES ASSUME Init PROVE Copy!Init
  OBVIOUS
<1>1. Offer = NoConfig
  BY ReceivedInFetch, OfferNow DEF Init
<1> QED
  BY <1>1, SkewsAssumption DEF Init, NewSyncer, Copy!Init

LEMMA CopyStep == TypeOK /\ LeaseInv /\ [Next]_vars => [Copy!Next]_(Copy!vars)
<1> SUFFICES ASSUME TypeOK, LeaseInv, [Next]_vars
             PROVE  Copy!Next \/ UNCHANGED Copy!vars
  OBVIOUS
<1>1. cfg \in Answer /\ syncer \in SyncerFields
  BY DEF TypeOK, AgentTypeOK
<1>2. CASE SyncStart
  <2>1. Offer = NoConfig
    BY <1>2, ReceivedInFetch, OfferNow DEF SyncStart
  <2>2. cfg'.next # NumItems + 1
    BY <1>2, NumItemsAssumption DEF SyncStart
  <2>3. Offer' = NoConfig
    BY <2>2 DEF Offer, Received
  <2> QED
    BY <1>2, <2>1, <2>3 DEF SyncStart, Copy!vars, envVars
<1>3. ASSUME NEW i \in Items, ReadItem(i) PROVE Copy!Next \/ UNCHANGED Copy!vars
  <2>1. Offer = NoConfig
    BY <1>3, NumItemsAssumption DEF ReadItem, Items, Offer, Received
  <2>2. /\ cfg'.content \in Contents /\ cfg'.validUntil \in Int
        /\ cfg'.validUntil = cfg.validUntil
    BY <1>1, <1>3, ReadItemType DEF ReadItem, Answer
  <2>3. CASE Received'
    <3>1. Offer' = [content |-> cfg'.content, until |-> cfg'.validUntil]
      BY <2>3 DEF Offer
    <3>2. Offer' \in Copy!Offers /\ Offer'.until <= clock + LeaseTicks
      BY <2>2, <3>1 DEF Copy!Offers, LeaseInv
    <3> QED
      BY <1>3, <3>2 DEF ReadItem, Copy!Next, Copy!Grant, envVars
  <2>4. CASE ~Received'
    <3>1. Offer' = NoConfig
      BY <2>4 DEF Offer
    <3> QED
      BY <1>3, <2>1, <3>1 DEF ReadItem, Copy!vars, envVars
  <2> QED
    BY <2>3, <2>4
<1>4. CASE GetFails
  BY <1>4, EnforceLeaseCopy DEF GetFails
<1>5. CASE RefreshLease
  <2>1. Copy!Good /\ Offer = [content |-> cfg.content, until |-> cfg.validUntil]
    BY <1>5, GoodOffer DEF RefreshLease
  <2>2. runtime \in Contents
    BY <1>1, <1>5 DEF RefreshLease, IsCurrent, LeaseInv, RuntimeIsApplied, SyncerFields
  <2>3. syncer'.leaseValidUntil = cfg.validUntil
    BY <1>1, <1>5 DEF RefreshLease, SyncerFields
  <2>4. Offer' = NoConfig
    BY <1>5 DEF RefreshLease, Offer, Received
  <2> QED
    BY <1>5, <2>1, <2>2, <2>3, <2>4 DEF RefreshLease, Copy!Next, Copy!Renew
<1>6. CASE ApplyConfig
  <2>1. Copy!Good /\ Offer = [content |-> cfg.content, until |-> cfg.validUntil]
    BY <1>6, GoodOffer DEF ApplyConfig
  <2>2. Offer' = NoConfig
    BY <1>6 DEF ApplyConfig, Offer, Received
  <2> QED
    BY <1>6, <2>1, <2>2 DEF ApplyConfig, Copy!Next, Copy!Take
<1>7. CASE RejectExpired \/ RenderFails \/ ApplyFails
  <2>1. /\ syncer'.leaseValidUntil = syncer.leaseValidUntil
        /\ UNCHANGED <<runtime, envVars>> /\ pc' = "ackRejected"
    BY <1>1, <1>7
    DEF RejectExpired, RenderFails, ApplyFails, Reject, SyncerFields
  <2>2. Offer' = NoConfig
    BY <2>1 DEF Offer, Received
  <2> QED
    BY <2>1, <2>2 DEF Copy!Next, Copy!Refuse, envVars
<1>8. ASSUME NEW ok \in BOOLEAN, AckApplied(ok) \/ AckLease(ok)
      PROVE  UNCHANGED Copy!vars
  <2>1. syncer'.leaseValidUntil = syncer.leaseValidUntil
    BY <1>1, <1>8 DEF AckApplied, AckLease, SyncerFields
  <2>2. Offer = NoConfig /\ Offer' = NoConfig
    BY <1>8 DEF AckApplied, AckLease, Offer, Received
  <2> QED
    BY <1>8, <2>1, <2>2 DEF AckApplied, AckLease, Copy!vars
<1>9. ASSUME NEW ok \in BOOLEAN, AckRejected(ok) PROVE Copy!Next
  BY <1>9, EnforceLeaseCopy DEF AckRejected
<1>10. CASE Restart
  <2>1. Offer' = NoConfig
    BY <1>10 DEF Restart, Offer, Received
  <2> QED
    BY <1>10, <2>1 DEF Restart, NewSyncer, Copy!Next, Copy!Restart
<1>11. CASE Tick
  <2>1. Offer' = Offer
    BY <1>11 DEF Tick, agentVars, Offer, Received
  <2>2. runtime # NoConfig => clock + 1 + skew <= syncer.leaseValidUntil + MaxLag
    BY <1>11, NumberTypes, LeaseAssumption
    DEF Tick, LeaseInv, RuntimeIsApplied, AgentNow
  <2> QED
    BY <1>11, <2>1, <2>2 DEF Tick, agentVars, Copy!Next, Copy!Pass
<1>12. CASE UNCHANGED <<agentVars, clock, skew, restarts>>
  BY <1>12 DEF agentVars, Offer, Received, Copy!vars
<1> QED
  BY <1>2, <1>3, <1>4, <1>5, <1>6, <1>7, <1>8, <1>9, <1>10, <1>11, <1>12
  DEF Next, BeginWrite, CommitWrite, AbortWrite, BeginNodeSave, StampNodeSave,
      CommitNodeSave, RecordLateAck, Heartbeat, vars, envVars

(***************************************************************************)
(* The protocol implements the leased copy: what a node runs is one answer *)
(* of the API, whole, under a lease granted with that answer or a later    *)
(* one, given up at the lease's end, at the end of the process, or for     *)
(* another answer.                                                         *)
(***************************************************************************)
THEOREM CopyHeld == Spec => HoldsLeasedCopy
<1>1. TypeOK /\ LeaseInv /\ [Next]_vars => [Copy!Next]_(Copy!vars)
  BY CopyStep
<1> QED
  BY <1>1, CopyInit, TypeCorrect, LeaseInvCorrect, PTL
  DEF Spec, HoldsLeasedCopy, Copy!Spec

-----------------------------------------------------------------------------
\* Recording an ack whose application, if it reports one, took place.
LEMMA RecordAckReports ==
  ASSUME node \in NodeRow, Reported(node), NEW m \in Ack, RecordAck(m),
         m.status = "applied" => m.revision \in everApplied,
         UNCHANGED everApplied
  PROVE  Reported(node)'
BY DEF RecordAck, Reported, NodeRow, Ack

LEMMA SendAckReports ==
  ASSUME node \in NodeRow, Reported(node), NEW m \in Ack, NEW ok \in BOOLEAN,
         SendAck(m, ok), UNCHANGED everApplied,
         m.status = "applied" => m.revision \in everApplied
  PROVE  Reported(node)' /\ late' \subseteq late \cup {m}
<1>1. CASE RecordAck(m) /\ UNCHANGED late
  BY <1>1, RecordAckReports
<1>2. CASE UNCHANGED <<node, late>>
  BY <1>2 DEF Reported
<1>3. CASE late' = late \cup {m} /\ UNCHANGED node
  BY <1>3 DEF Reported
<1> QED
  BY <1>1, <1>2, <1>3 DEF SendAck

\* The status ack reports an application only after one.
LEMMA StatusAckReports ==
  ASSUME ReportInv, StatusAck.status = "applied"
  PROVE  StatusAck.revision \in everApplied
BY DEF ReportInv, StatusAck

LEMMA ReportInvInit == Init => ReportInv
<1> SUFFICES ASSUME Init PROVE ReportInv
  OBVIOUS
<1>1. /\ node.applied = 0 /\ node.lastGood = 0 /\ nodeSaves = {} /\ late = {}
      /\ pc = "idle"
  BY DEF Init
<1>2. /\ syncer.appliedRevision = 0 /\ syncer.hasSynced = FALSE
      /\ syncer.configStatus = ""
  BY DEF Init, NewSyncer
<1> QED
  BY <1>1, <1>2 DEF ReportInv, Reported

LEMMA ReportInvStep == TypeOK /\ ReportInv /\ [Next]_vars => ReportInv'
<1> SUFFICES ASSUME TypeOK, ReportInv, [Next]_vars PROVE ReportInv'
  OBVIOUS
<1>1. /\ cfg \in Answer /\ syncer \in SyncerFields /\ node \in NodeRow
      /\ nodeSaves \subseteq NodeSave /\ late \subseteq Ack
  BY DEF TypeOK, ApiTypeOK, AgentTypeOK, EnvTypeOK
<1>2. ASSUME NEW w \in writing, CommitWrite(w) PROVE ReportInv'
  <2>1. node'.applied = node.applied /\ node'.lastGood = node.lastGood
    BY <1>1, <1>2 DEF CommitWrite, Bump, NodeRow
  <2> QED
    BY <1>2, <2>1 DEF CommitWrite, ReportInv, Reported, agentVars, envVars
<1>3. CASE BeginNodeSave
  <2>1. \A s \in nodeSaves' : s \in nodeSaves \/ s.row = node
    BY <1>3 DEF BeginNodeSave
  <2> QED
    BY <1>3, <2>1
    DEF BeginNodeSave, ReportInv, Reported, agentVars, envVars, history
<1>4. ASSUME NEW s \in nodeSaves, StampNodeSave(s) PROVE ReportInv'
  <2>1. s.row \in NodeRow
    BY <1>1 DEF NodeSave
  <2>2. \A t \in nodeSaves' :
          \/ t \in nodeSaves
          \/ t.row.applied = s.row.applied /\ t.row.lastGood = s.row.lastGood
    BY <1>4, <2>1 DEF StampNodeSave, NodeRow
  <2> QED
    BY <1>4, <2>2
    DEF StampNodeSave, ReportInv, Reported, agentVars, envVars, history
<1>5. ASSUME NEW s \in nodeSaves, CommitNodeSave(s) PROVE ReportInv'
  BY <1>5 DEF CommitNodeSave, ReportInv, Reported, agentVars, envVars
<1>6. ASSUME NEW m \in late, RecordLateAck(m) PROVE ReportInv'
  BY <1>1, <1>6, RecordAckReports
  DEF RecordLateAck, ReportInv, writeVars, agentVars, history, Reported
<1>7. CASE Heartbeat
  <2>1. /\ node'.applied \in {node.applied, syncer.appliedRevision}
        /\ node'.lastGood = node.lastGood
    BY <1>1, <1>7 DEF Heartbeat, Later, NodeRow
  <2> QED
    BY <1>7, <2>1
    DEF Heartbeat, ReportInv, Reported, writeVars, agentVars, envVars, history
<1>8. ASSUME NEW i \in Items, ReadItem(i) PROVE ReportInv'
  BY <1>8 DEF ReadItem, ReportInv, Reported, apiVars, writeVars, envVars
<1>9. CASE GetFails \/ \E ok \in BOOLEAN : AckRejected(ok)
  <2>1. EnforceLease /\ UNCHANGED <<cfg, writeVars, history>>
    BY <1>9 DEF GetFails, AckRejected, apiVars
  <2>2. /\ syncer'.appliedRevision = syncer.appliedRevision
        /\ syncer'.hasSynced = syncer.hasSynced
        /\ syncer'.configRevision = syncer.configRevision
        /\ syncer'.configStatus \in {syncer.configStatus, "lease_expired"}
        /\ pc' # "ackApplied"
    BY <1>1, <2>1 DEF EnforceLease, SyncerFields
  <2>3. /\ Reported(node)'
        /\ \A m \in late' : m.status = "applied" => m.revision \in everApplied
    <3>1. CASE GetFails
      BY <3>1 DEF GetFails, apiVars, history, ReportInv, Reported
    <3>2. ASSUME NEW ok \in BOOLEAN, AckRejected(ok)
          PROVE  /\ Reported(node)' /\ late' \subseteq late \cup {StatusAck}
      BY <1>1, <3>2, StatusAckType, StatusAckReports, SendAckReports
      DEF AckRejected, history, ReportInv
    <3> QED
      BY <1>9, <3>1, <3>2, StatusAckReports DEF ReportInv
  <2> QED
    BY <2>1, <2>2, <2>3 DEF ReportInv, Reported, writeVars, history
<1>10. CASE RefreshLease
  <2>1. /\ syncer'.appliedRevision = syncer.appliedRevision
        /\ syncer'.hasSynced = syncer.hasSynced
        /\ syncer'.configRevision = syncer.configRevision
        /\ syncer'.configStatus = syncer.configStatus
    BY <1>1, <1>10 DEF RefreshLease, SyncerFields
  <2> QED
    BY <1>10, <2>1
    DEF RefreshLease, IsCurrent, ReportInv, Reported, apiVars, writeVars, history
<1>11. CASE ApplyConfig
  BY <1>11 DEF ApplyConfig, ReportInv, Reported, apiVars, writeVars
<1>12. CASE RejectExpired \/ RenderFails \/ ApplyFails
  <2>1. /\ syncer'.appliedRevision = syncer.appliedRevision
        /\ syncer'.hasSynced = syncer.hasSynced
        /\ syncer'.configStatus # "applied" /\ pc' # "ackApplied"
        /\ UNCHANGED <<apiVars, envVars, history>>
    BY <1>1, <1>12
    DEF RejectExpired, RenderFails, ApplyFails, Reject, SyncerFields
  <2> QED
    BY <2>1 DEF ReportInv, Reported, apiVars, writeVars, envVars, history
<1>13. ASSUME NEW ok \in BOOLEAN, AckApplied(ok) PROVE ReportInv'
  <2>1. /\ syncer'.appliedRevision = syncer.appliedRevision
        /\ syncer'.hasSynced = syncer.hasSynced
        /\ syncer'.configRevision = syncer.configRevision
        /\ syncer'.configStatus = syncer.configStatus
    BY <1>1, <1>13 DEF AckApplied, SyncerFields
  <2> DEFINE m == [revision |-> cfg.revision, status |-> "applied"]
  <2>2. m \in Ack /\ m.revision \in everApplied
    BY <1>1, <1>13 DEF AckApplied, ReportInv, Answer, Ack, Statuses
  <2>3. Reported(node)' /\ late' \subseteq late \cup {m}
    BY <1>1, <1>13, <2>2, SendAckReports DEF AckApplied, history, ReportInv
  <2> QED
    BY <1>13, <2>1, <2>2, <2>3
    DEF AckApplied, ReportInv, Reported, writeVars, history
<1>14. ASSUME NEW ok \in BOOLEAN, AckLease(ok) PROVE ReportInv'
  <2>1. Reported(node)' /\ late' \subseteq late \cup {StatusAck}
    BY <1>1, <1>14, StatusAckType, StatusAckReports, SendAckReports
    DEF AckLease, history, ReportInv
  <2> QED
    BY <1>14, <2>1, StatusAckReports
    DEF AckLease, ReportInv, Reported, writeVars, history
<1>15. CASE Restart
  <2>1. late' \subseteq late \cup {StatusAck}
    BY <1>15 DEF Restart
  <2>2. /\ syncer'.appliedRevision = 0 /\ syncer'.hasSynced = FALSE
        /\ syncer'.configStatus # "applied" /\ pc' = "idle"
        /\ UNCHANGED <<apiVars, history>>
    BY <1>15 DEF Restart, NewSyncer
  <2> QED
    BY <2>1, <2>2, StatusAckReports
    DEF ReportInv, Reported, apiVars, writeVars, history
<1>16. CASE UNCHANGED <<node, late, syncer, everApplied>>
            /\ nodeSaves' \subseteq nodeSaves
            /\ (pc' = "ackApplied" => UNCHANGED <<pc, cfg>>)
  BY <1>16 DEF ReportInv, Reported
<1> QED
  BY <1>2, <1>3, <1>4, <1>5, <1>6, <1>7, <1>8, <1>9, <1>10, <1>11, <1>12,
     <1>13, <1>14, <1>15, <1>16
  DEF Next, BeginWrite, AbortWrite, SyncStart, Tick, vars, apiVars, writeVars,
      agentVars, envVars, history

(***************************************************************************)
(* The panel never shows a revision as applied or last good that the agent *)
(* did not apply, however acks are lost, late or overtaken, and whatever   *)
(* copies of the row are saved in between.                                 *)
(***************************************************************************)
THEOREM ReportsAreReal == Spec => []ReportedIsReal
<1>1. ReportInv => ReportedIsReal
  BY DEF ReportInv, Reported, ReportedIsReal
<1> QED
  BY <1>1, TypeCorrect, ReportInvInit, ReportInvStep, PTL DEF Spec

-----------------------------------------------------------------------------
LEMMA AnnounceInvInit == Init => AnnounceInv
<1> SUFFICES ASSUME Init PROVE AnnounceInv
  OBVIOUS
<1>1. /\ node.desired = 1 /\ published = 1 /\ pc = "idle"
      /\ \A i \in Items : item[i] = 1
  BY DEF Init
<1>2. /\ cfg.revision = 0 /\ syncer.appliedRevision = 0
      /\ syncer.hasSynced = FALSE
  BY DEF Init, IdleConfig, NewSyncer
<1> QED
  BY <1>1, <1>2
  DEF AnnounceInv, Bounded, Desired, ReadOrAbove, AppliedOrAbove

\* A commit numbered above everything published is announced; any other one
\* is raced.
LEMMA CommitWriteAnnounces ==
  ASSUME TypeOK, AnnounceInv, NEW w \in writing, CommitWrite(w)
  PROVE  AnnounceInv'
<1>1. w.item \in Items /\ w.revision \in Nat /\ item \in Contents
  BY DEF TypeOK, ApiTypeOK, Write
<1>2. /\ node'.desired = Later(node.desired, w.revision)
      /\ published' = Later(published, w.revision)
      /\ UNCHANGED <<cfg, syncer, pc>>
  BY DEF CommitWrite, Bump, TypeOK, ApiTypeOK, NodeRow, agentVars
<1>3. \A i \in Items : item'[i] = IF i = w.item THEN w.revision ELSE item[i]
  BY <1>1 DEF CommitWrite, Contents
<1>4. Bounded'
  BY <1>1, <1>2, <1>3, NumberTypes DEF AnnounceInv, Bounded, Later
<1>5. \A i \in Items \ raced' :
        \/ i # w.item /\ i \notin raced
        \/ i = w.item /\ w.revision > published
  BY <1>1, NumberTypes DEF CommitWrite
<1>6. Desired'
  BY <1>1, <1>2, <1>3, <1>5, NumberTypes DEF AnnounceInv, Desired, Later
<1>7. ReadOrAbove'
  BY <1>1, <1>2, <1>3, <1>5, NumberTypes
  DEF AnnounceInv, Bounded, ReadOrAbove
<1>8. AppliedOrAbove'
  BY <1>1, <1>2, <1>3, <1>5, NumberTypes
  DEF AnnounceInv, Bounded, AppliedOrAbove
<1> QED
  BY <1>4, <1>6, <1>7, <1>8 DEF AnnounceInv

\* A node save may put the desired revision back; what that hides is raced.
LEMMA CommitNodeSaveAnnounces ==
  ASSUME TypeOK, AnnounceInv, NEW s \in nodeSaves, CommitNodeSave(s)
  PROVE  AnnounceInv'
<1>1. s.row.desired \in Nat
  BY DEF TypeOK, ApiTypeOK, NodeSave, NodeRow
<1>2. /\ node'.desired = s.row.desired
      /\ published' = Later(published, s.row.desired)
      /\ raced' = raced \cup {i \in Items : item[i] > s.row.desired}
      /\ UNCHANGED <<item, cfg, syncer, pc>>
  BY DEF CommitNodeSave, agentVars
<1>3. Bounded'
  BY <1>1, <1>2, NumberTypes DEF AnnounceInv, Bounded, Later
<1>4. Desired'
  BY <1>1, <1>2, NumberTypes DEF Desired
<1>5. ReadOrAbove' /\ AppliedOrAbove'
  BY <1>2 DEF AnnounceInv, ReadOrAbove, AppliedOrAbove
<1> QED
  BY <1>3, <1>4, <1>5 DEF AnnounceInv

\* Reading an item: the earlier items an answer now hides are raced.
LEMMA ReadItemAnnounces ==
  ASSUME TypeOK, AnnounceInv, NEW i \in Items, ReadItem(i)
  PROVE  AnnounceInv'
<1>1. /\ ServedRevision(i) \in Nat /\ NumItems \in Nat /\ i \in 1 .. NumItems
      /\ cfg.revision <= ServedRevision(i) /\ ServedRevision(i) <= published
  BY ReadItemType, NumberTypes, NumItemsAssumption
  DEF ServedRevision, Later, AnnounceInv, Bounded, Items
<1>2. /\ cfg'.revision = ServedRevision(i) /\ cfg'.next = i + 1
      /\ \A j \in Items :
           cfg'.content[j] = IF j = i THEN item[i] ELSE cfg.content[j]
      /\ cfg.next = i
  BY DEF ReadItem, TypeOK, AgentTypeOK, Answer, Contents
<1>3. UNCHANGED <<item, node, published, syncer, pc>> /\ raced \subseteq raced'
  BY DEF ReadItem, apiVars, writeVars
<1>4. Bounded' /\ Desired' /\ AppliedOrAbove'
  BY <1>1, <1>2, <1>3 DEF AnnounceInv, Bounded, Desired, AppliedOrAbove
<1>5. ReadOrAbove'
  <2> SUFFICES ASSUME NEW j \in Items \ raced', j < i + 1
               PROVE  \/ cfg'.content[j] = item[j]
                      \/ item[j] > ServedRevision(i)
    BY <1>2, <1>3 DEF ReadOrAbove
  <2>1. CASE j = i
    BY <1>2, <2>1
  <2>2. CASE j # i
    <3>1. j \in 1 .. i - 1
      BY <1>1, <2>2 DEF Items
    <3>2. ~(cfg.content[j] # item[j] /\ item[j] <= ServedRevision(i))
      BY <3>1 DEF ReadItem
    <3> QED
      BY <1>1, <1>2, <2>2, <3>2, NumberTypes
  <2> QED
    BY <2>1, <2>2
<1> QED
  BY <1>4, <1>5 DEF AnnounceInv

LEMMA AnnounceInvStep == TypeOK /\ AnnounceInv /\ [Next]_vars => AnnounceInv'
<1> SUFFICES ASSUME TypeOK, AnnounceInv, [Next]_vars PROVE AnnounceInv'
  OBVIOUS
<1> USE DEF AnnounceInv, Bounded, Desired, ReadOrAbove, AppliedOrAbove
<1>1. node \in NodeRow /\ cfg \in Answer /\ syncer \in SyncerFields
  BY DEF TypeOK, ApiTypeOK, AgentTypeOK
<1>2. CASE SyncStart
  <2>1. cfg'.revision = node.desired /\ cfg'.next = 1
    BY <1>2 DEF SyncStart
  <2>2. \A j \in Items : ~(j < 1)
    BY NumItemsAssumption DEF Items
  <2> QED
    BY <1>2, <2>1, <2>2 DEF SyncStart, apiVars, writeVars, history
<1>3. CASE ApplyConfig
  <2>1. \A j \in Items : j < NumItems + 1
    BY NumItemsAssumption DEF Items
  <2>2. \A j \in Items \ raced :
          cfg.content[j] = item[j] \/ item[j] > cfg.revision
    BY <1>3, <2>1 DEF ApplyConfig, Received
  <2> QED
    BY <1>3, <2>2 DEF ApplyConfig, apiVars, writeVars
<1>4. CASE Restart
  <2>1. /\ cfg'.revision = 0 /\ syncer'.appliedRevision = 0
        /\ syncer'.hasSynced = FALSE /\ pc' = "idle"
        /\ UNCHANGED <<apiVars, history>>
    BY <1>4 DEF Restart, IdleConfig, NewSyncer
  <2> QED
    BY <2>1, NumberTypes DEF apiVars, writeVars, history
<1>5. ASSUME /\ node'.desired = node.desired
             /\ syncer'.appliedRevision = syncer.appliedRevision
             /\ syncer'.hasSynced = syncer.hasSynced
             /\ syncer'.appliedConfig = syncer.appliedConfig
             /\ UNCHANGED <<cfg, item, published, raced>>
             /\ pc' = "fetch" => pc = "fetch"
      PROVE  AnnounceInv'
  BY <1>5
<1>6. ASSUME NEW m, RecordAck(m) \/ UNCHANGED node
      PROVE  node'.desired = node.desired
  BY <1>1, <1>6 DEF RecordAck, NodeRow
<1>7. ASSUME NEW m, NEW ok, SendAck(m, ok) PROVE node'.desired = node.desired
  BY <1>6, <1>7 DEF SendAck
<1>8. ASSUME EnforceLease
      PROVE  /\ syncer'.appliedRevision = syncer.appliedRevision
             /\ syncer'.hasSynced = syncer.hasSynced
             /\ syncer'.appliedConfig = syncer.appliedConfig
             /\ pc' # "fetch"
  BY <1>1, <1>8 DEF EnforceLease, SyncerFields
<1>9. CASE \E m \in late : RecordLateAck(m)
  BY <1>5, <1>6, <1>9 DEF RecordLateAck, writeVars, agentVars, history
<1>10. CASE Heartbeat
  BY <1>1, <1>5, <1>10
  DEF Heartbeat, NodeRow, writeVars, agentVars, history
<1>11. CASE GetFails
  BY <1>5, <1>8, <1>11 DEF GetFails, apiVars, writeVars, history
<1>12. CASE RefreshLease
  BY <1>1, <1>5, <1>12
  DEF RefreshLease, SyncerFields, apiVars, writeVars, history
<1>13. CASE RejectExpired \/ RenderFails \/ ApplyFails
  BY <1>1, <1>5, <1>13
  DEF RejectExpired, RenderFails, ApplyFails, Reject, SyncerFields, apiVars,
      writeVars, history
<1>14. CASE \E ok \in BOOLEAN : AckApplied(ok)
  BY <1>1, <1>5, <1>7, <1>14
  DEF AckApplied, SyncerFields, writeVars, history
<1>15. CASE \E ok \in BOOLEAN : AckRejected(ok) \/ AckLease(ok)
  BY <1>5, <1>7, <1>8, <1>15 DEF AckRejected, AckLease, writeVars, history
<1>16. CASE UNCHANGED <<node, syncer, cfg, item, published, raced, pc>>
  BY <1>5, <1>16
<1> QED
  BY <1>2, <1>3, <1>4, <1>9, <1>10, <1>11, <1>12, <1>13, <1>14, <1>15, <1>16,
     CommitWriteAnnounces, CommitNodeSaveAnnounces, ReadItemAnnounces
  DEF Next, BeginWrite, AbortWrite, BeginNodeSave, StampNodeSave, Tick, vars,
      apiVars, writeVars, agentVars, envVars, history

(***************************************************************************)
(* Every update the node lacks is announced to it, for any number of       *)
(* tables, concurrent administrators and node saves: the writes in raced   *)
(* are the only ones a node can be left without.                           *)
(***************************************************************************)
THEOREM UpdatesAreAnnounced == Spec => []AnnouncedUpdate
<1>1. TypeOK /\ AnnounceInv => AnnouncedUpdate
  BY NumberTypes DEF AnnounceInv, Desired, AppliedOrAbove, AnnouncedUpdate
<1> QED
  BY <1>1, TypeCorrect, AnnounceInvInit, AnnounceInvStep, PTL DEF Spec
=============================================================================
