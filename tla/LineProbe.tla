------------------------------ MODULE LineProbe ------------------------------
(***************************************************************************)
(* A probe of a line: the row the administrator edits, the worker of the   *)
(* agent that measures it, and the results that come back.  Every probe    *)
(* has a worker and a row of its own; the module follows one.              *)
(*                                                                         *)
(* A write takes its number (UnixNano) before its transaction; the number  *)
(* is the revision of the probe and stands for what the probe measures.    *)
(***************************************************************************)
EXTENDS Naturals

CONSTANTS
  Nodes,         \* nodes with the capability line_probe_v1
  Agents,        \* bound: those whose agent is at work
  MaxRevision,   \* bound: writes of the administrator
  Handlers,      \* bound: writes in progress at once
  Reports,       \* bound: results on their way at once
  MaxFaults,     \* bound: results or events lost, agents restarted or out of lease
  None

Revisions == 1..MaxRevision
ASSUME ProbeConstants ==
  Agents \subseteq Nodes /\ MaxRevision \in Nat /\ MaxFaults \in Nat /\ None \notin Nodes \cup Nat

Row == [node : Nodes, enabled : BOOLEAN, revision : Revisions,
        status : {"pending", "up", "down"}, of : 0..MaxRevision]
Write == [kind : {"update", "delete"}, row : Row, new : Row \cup {None}, number : Revisions]
Report == [node : Nodes, revision : Revisions, stage : {"sent", "read", "event"},
           status : {"pending", "up", "down"}, previous : {"pending", "up", "down"}]
ASSUME NoneIsNoRecord == None \notin Row \cup Write \cup Report

(***************************************************************************)
(*   row       the row of line_probes; of is the revision its status was   *)
(*             measured for (0: none), a history field                     *)
(*   number    the last number a write took                                *)
(*   desired   DesiredRevision of each node                                *)
(*   writes    updates and deletions that have read the row                *)
(*   reading   the revision a request for the configuration has read of    *)
(*             its node                                                    *)
(*   applied   the revision an agent applied (0: it applies the next)      *)
(*   worker    the revision of the probe an agent's worker measures        *)
(*   result    the revision of the result the agent's status shows         *)
(*   check     the check in progress in an agent; live unless its worker   *)
(*             was cancelled                                               *)
(*   reports   results sent, read by agentProbeResult with the row they    *)
(*             belong to, or stored with an event to be written            *)
(*   event     the status of the last event (pending: none)                *)
(*   faults    faults so far                                               *)
(*   crossed   a write was carried out after another one that it had not   *)
(*             seen                                                        *)
(*   blurred   a status was stored over one its handler had not read, or   *)
(*             put back by a write that had read an older one              *)
(*   unwritten the last event there was to write was lost; the last three  *)
(*             are history, read by properties only                        *)
(***************************************************************************)
VARIABLES row, number, desired, writes, reading, applied, worker, result, check,
          reports, event, faults, crossed, blurred, unwritten

agent == <<reading, applied, worker, result, check>>
history == <<crossed, blurred, unwritten>>
vars == <<row, number, desired, writes, agent, reports, event, faults, history>>

Init ==
  /\ row = None /\ number = 0
  /\ desired = [n \in Nodes |-> 0]
  /\ writes = [h \in Handlers |-> None]
  /\ reading = [n \in Agents |-> None] /\ applied = [n \in Agents |-> 0]
  /\ worker = [n \in Agents |-> None] /\ result = [n \in Agents |-> None]
  /\ check = [n \in Agents |-> None]
  /\ reports = [r \in Reports |-> None]
  /\ event = "pending" /\ faults = 0
  /\ crossed = FALSE /\ blurred = FALSE /\ unwritten = FALSE

FirstFree(slots) == CHOOSE s \in DOMAIN slots : slots[s] = None
HasFree(slots) == \E s \in DOMAIN slots : slots[s] = None
Larger(a, b) == IF a > b THEN a ELSE b

-----------------------------------------------------------------------------
(* The administrator. *)

\* bumpNodeRevisionWithDB raises the revision of the nodes, never lowers it.
Bump(nodes, revision) ==
  desired' = [n \in Nodes |-> IF n \in nodes THEN Larger(desired[n], revision)
                                             ELSE desired[n]]

\* createLineProbe: the row and the revision of its node in one transaction.
CreateLineProbe ==
  /\ number = 0 /\ MaxRevision > 0
  /\ number' = 1
  /\ \E n \in Nodes, enabled \in BOOLEAN :
       /\ row' = [node |-> n, enabled |-> enabled, revision |-> 1,
                  status |-> "pending", of |-> 0]
       /\ Bump({n}, 1)
  /\ UNCHANGED <<writes, agent, reports, event, faults, history>>

\* Mutants: an update leaves no status; it starts over with "pending".
WithPayloadBlank(old, n, enabled, revision) ==
  [old EXCEPT !.node = n, !.enabled = enabled, !.revision = revision, !.status = ""]
WithPayloadReset(old, n, enabled, revision) ==
  [old EXCEPT !.node = n, !.enabled = enabled, !.revision = revision, !.status = "pending"]

\* The row an update will save: the one it read, status included, with the
\* payload and the number.
WithPayload(old, n, enabled, revision) ==
  [old EXCEPT !.node = n, !.enabled = enabled, !.revision = revision]

\* updateLineProbe and deleteLineProbe read the row and take a number.
Begin(kind, new) ==
  /\ row # None /\ number < MaxRevision /\ HasFree(writes)
  /\ number' = number + 1
  /\ writes' = [writes EXCEPT ![FirstFree(writes)] =
                 [kind |-> kind, row |-> row, new |-> new, number |-> number + 1]]
  /\ UNCHANGED <<row, desired, agent, reports, event, faults, history>>

BeginUpdate ==
  \E n \in Nodes, enabled \in BOOLEAN :
    row # None /\ Begin("update", WithPayload(row, n, enabled, number + 1))
BeginDelete == Begin("delete", None)

\* What a write compares with the row to know what it has not seen.
Unseen(w) == row = None \/ row.revision # w.row.revision

\* Mutant: only the node that gets the probe is told.
ConcernedNew(w) == {IF w.new = None THEN w.row.node ELSE w.new.node}

\* The node the probe had when the row was read, and the node it has now.
Concerned(w) == {w.row.node} \cup (IF w.new = None THEN {} ELSE {w.new.node})

\* The transaction: the row is saved or deleted, and the nodes get a new
\* revision.
CommitWrite(h) ==
  /\ writes[h] # None
  /\ LET w == writes[h] IN
     /\ row' = w.new
     /\ Bump(Concerned(w), w.number)
     /\ crossed' = (crossed \/ Unseen(w))
     /\ blurred' = (blurred \/ row = None \/ row.status # w.row.status)
  /\ writes' = [writes EXCEPT ![h] = None]
  /\ UNCHANGED <<number, agent, reports, event, faults, unwritten>>

-----------------------------------------------------------------------------
(* The agent: configuration, worker, checks. *)

\* The probe a node is given: its own, if enabled; None otherwise.
ProbeOf(n) ==
  IF row # None /\ row.node = n /\ row.enabled THEN row.revision ELSE None

\* agentAuth reads the node.
BeginFetch(n) ==
  /\ reading[n] = None
  /\ reading' = [reading EXCEPT ![n] = desired[n]]
  /\ UNCHANGED <<row, number, desired, writes, applied, worker, result, check,
                 reports, event, faults, history>>

\* The revision of an answer covers the probe in it.
ServedRevision(n) ==
  IF ProbeOf(n) = None THEN reading[n] ELSE Larger(reading[n], ProbeOf(n))

\* Manager.Apply: a worker for another probe, or for none, is cancelled and
\* its result forgotten.
Work(n, probe) ==
  IF probe = worker[n] THEN UNCHANGED <<worker, result, check>>
  ELSE /\ worker' = [worker EXCEPT ![n] = probe]
       /\ result' = [result EXCEPT ![n] = None]
       /\ check' = [check EXCEPT ![n] = IF @ = None THEN None ELSE [@ EXCEPT !.live = FALSE]]

\* The probes are read last; a revision that is applied only renews the lease.
Fetch(n) ==
  /\ reading[n] # None
  /\ LET revision == ServedRevision(n) IN
     IF revision = applied[n] THEN UNCHANGED <<applied, worker, result, check>>
     ELSE applied' = [applied EXCEPT ![n] = revision] /\ Work(n, ProbeOf(n))
  /\ reading' = [reading EXCEPT ![n] = None]
  /\ UNCHANGED <<row, number, desired, writes, reports, event, faults, history>>

\* The agent restarts, or its lease ends and it applies no probes until the
\* next configuration.
Interrupt(n) ==
  /\ faults < MaxFaults /\ applied[n] # 0
  /\ faults' = faults + 1
  /\ applied' = [applied EXCEPT ![n] = 0]
  /\ Work(n, None)
  /\ UNCHANGED <<row, number, desired, writes, reading, reports, event, history>>

BeginCheck(n) ==
  /\ worker[n] # None /\ check[n] = None
  /\ check' = [check EXCEPT ![n] = [revision |-> worker[n], live |-> TRUE]]
  /\ UNCHANGED <<row, number, desired, writes, reading, applied, worker, result,
                 reports, event, faults, history>>

\* Mutant: the manager keeps the result of any worker of the probe.
CurrentAny(c) == TRUE

\* The check is that of the worker the manager has now.
Current(c) == c.live

\* The result is kept and reported; that of a cancelled worker is dropped.
EndCheck(n) ==
  /\ check[n] # None
  /\ IF Current(check[n])
     THEN /\ HasFree(reports)
          /\ result' = [result EXCEPT ![n] = check[n].revision]
          /\ reports' = [reports EXCEPT ![FirstFree(reports)] =
               [node |-> n, revision |-> check[n].revision, stage |-> "sent",
                status |-> "pending", previous |-> "pending"]]
     ELSE UNCHANGED <<result, reports>>
  /\ check' = [check EXCEPT ![n] = None]
  /\ UNCHANGED <<row, number, desired, writes, reading, applied, worker,
                 event, faults, history>>

-----------------------------------------------------------------------------
(* agentProbeResult. *)

\* How many other events there are to write decides whether their order shows.
Blurs(r) == \E s \in Reports \ {r} : reports[s] # None /\ reports[s].stage = "event"

\* The request is lost, or the API stops or an insertion fails while it is served:
\* the transaction is one, and the event, whose error agentEvent ignores, is another.
Lose(r) ==
  /\ reports[r] # None /\ faults < MaxFaults
  /\ faults' = faults + 1
  /\ reports' = [reports EXCEPT ![r] = None]
  /\ IF reports[r].stage = "event"
       THEN unwritten' = TRUE /\ blurred' = (blurred \/ Blurs(r))
       ELSE UNCHANGED <<unwritten, blurred>>
  /\ UNCHANGED <<row, number, desired, writes, agent, event, crossed>>

\* The row is that of the reporting node and has the revision that was measured.
Belongs(report) ==
  row # None /\ row.node = report.node /\ row.revision = report.revision

\* What the check found is left open until here.
ReadProbe(r) ==
  /\ reports[r] # None /\ reports[r].stage = "sent"
  /\ \E status \in {"up", "down"} :
       reports' = [reports EXCEPT ![r] = IF ~Belongs(@) THEN None
         ELSE [@ EXCEPT !.stage = "read", !.status = status, !.previous = row.status]]
  /\ UNCHANGED <<row, number, desired, writes, agent, event, faults, history>>

\* Mutant: the update looks for the row only.
StillMeasuredAny(report) == row # None

\* The conditional update finds the row with the revision that was measured.
StillMeasured(report) == row # None /\ row.revision = report.revision

\* The status is stored; there will be an event if it is not the status read.
StoreResult(r) ==
  /\ reports[r] # None /\ reports[r].stage = "read"
  /\ IF StillMeasured(reports[r])
     THEN /\ row' = [row EXCEPT !.status = reports[r].status, !.of = reports[r].revision]
          /\ blurred' = (blurred \/ row.status # reports[r].previous)
          /\ reports' = [reports EXCEPT ![r] =
               IF @.status = @.previous THEN None ELSE [@ EXCEPT !.stage = "event"]]
     ELSE /\ reports' = [reports EXCEPT ![r] = None]
          /\ UNCHANGED <<row, blurred>>
  /\ UNCHANGED <<number, desired, writes, agent, event, faults, crossed, unwritten>>

\* Events are written outside the transaction.
WriteEvent(r) ==
  /\ reports[r] # None /\ reports[r].stage = "event"
  /\ event' = reports[r].status
  /\ reports' = [reports EXCEPT ![r] = None]
  /\ blurred' = (blurred \/ Blurs(r)) /\ unwritten' = FALSE
  /\ UNCHANGED <<row, number, desired, writes, agent, faults, crossed>>

-----------------------------------------------------------------------------
Agent(n) == BeginFetch(n) \/ Fetch(n) \/ BeginCheck(n) \/ EndCheck(n)
Handle(r) == ReadProbe(r) \/ StoreResult(r) \/ WriteEvent(r)

Next ==
  \/ CreateLineProbe \/ BeginUpdate \/ BeginDelete
  \/ \E h \in Handlers : CommitWrite(h)
  \/ \E n \in Agents : Agent(n) \/ Interrupt(n)
  \/ \E r \in Reports : Handle(r) \/ Lose(r)

\* Handlers end; agents fetch their configuration and check again and again.
Spec ==
  /\ Init /\ [][Next]_vars
  /\ \A h \in Handlers : WF_vars(CommitWrite(h))
  /\ \A r \in Reports : WF_vars(Handle(r))
  /\ \A n \in Agents : /\ WF_vars(BeginFetch(n) \/ Fetch(n))
                       /\ WF_vars(BeginCheck(n) \/ EndCheck(n))

-----------------------------------------------------------------------------
(* Properties. *)

\* Every variable has its type, and a number is taken before it is used.
TypeOK ==
  /\ row \in Row \cup {None} /\ number \in 0..MaxRevision
  /\ desired \in [Nodes -> 0..number]
  /\ writes \in [Handlers -> Write \cup {None}]
  /\ reading \in [Agents -> 0..MaxRevision \cup {None}]
  /\ applied \in [Agents -> 0..number]
  /\ worker \in [Agents -> Revisions \cup {None}]
  /\ result \in [Agents -> Revisions \cup {None}]
  /\ check \in [Agents -> [revision : Revisions, live : BOOLEAN] \cup {None}]
  /\ reports \in [Reports -> Report \cup {None}]
  /\ event \in {"pending", "up", "down"} /\ faults \in 0..MaxFaults
  /\ {crossed, blurred, unwritten} \subseteq BOOLEAN

\* What an agent shows of a probe was measured by the worker it has: a check
\* that ends after its worker was replaced or cancelled leaves no result.
ResultsAreCurrent ==
  \A n \in Agents : result[n] # None => result[n] = worker[n]

\* README.md 102: "the late result of an old worker does not overwrite the
\* status of a new target".  Once there is a status for the revision of the
\* row, only a result for that revision or another write changes it.
LateResultsDropped ==
  [][row # None /\ row' # None /\ row.of = row.revision /\ row'.revision = row.revision
       => row'.of = row.of]_vars

\* README.md 102: events follow the transitions of the status.  When no
\* event is about to be written the last one tells the status, unless a
\* handler stored a status over one that it had not read, a write put an older
\* one back, or the last event there was to write got lost.
EventsTellStatus ==
  (/\ row # None /\ ~blurred /\ ~unwritten
   /\ \A r \in Reports : reports[r] # None => reports[r].stage # "event")
    => event = row.status

\* When the administrator is done, every agent comes to measure the probe it
\* should, or none, and the status comes to be that of the probe as it is now;
\* unless two writes crossed.  Results that are lost, restarts and configurations
\* read half before and half after a write do not prevent it.
ProbeSettles ==
  <>[](crossed \/ /\ \A n \in Agents : worker[n] = ProbeOf(n)
                  /\ row # None /\ row.enabled /\ row.node \in Agents
                       => row.of = row.revision)
=============================================================================
