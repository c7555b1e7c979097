------------------------- MODULE NodeLifecycle_proofs -------------------------
(***************************************************************************)
(* Proofs about NodeLifecycle, for any machines, tokens and handlers.      *)
(***************************************************************************)
EXTENDS NodeLifecycle, FiniteSetTheorems, TLAPS

(***************************************************************************)
(* What a job is for: a registration has a token and no node yet, any      *)
(* other job has a node, and an update a status or none.  A machine that   *)
(* is installed has its install token.                                     *)
(***************************************************************************)
Aims(job) ==
  /\ job.kind = "register" => job.to \in Tokens
  /\ job.kind # "register" => job.node \in Nodes
  /\ job.kind = "update" => job.to \in Statuses \cup {None}
  /\ (job.kind \in Saving) = (job.row # None)
JobsTyped ==
  /\ jobs \in [Slots -> Job \cup {None}]
  /\ \A s \in Slots : Busy(s) => Aims(jobs[s])
Installed(mach) == mach.proc # "none" \/ mach.wait # None => mach.env \in Tokens
MachinesTyped ==
  /\ machine \in [Machines -> Machine]
  /\ \A m \in Machines : Installed(machine[m])
NodesTyped ==
  /\ token \in [Tokens -> {"none", "valid", "used", "gone"}]
  /\ rows \in [Nodes -> Row \cup {None}]
  /\ from \in [Nodes -> Tokens \cup {None}]
  /\ listing \in [Nodes -> {"uninstall_legacy", "uninstall_timeout", None}]
  /\ edits \in 0..MaxEdits
HistoryTyped ==
  /\ calledOff \subseteq Nodes /\ overtaken \subseteq Nodes
  /\ removed \in [Nodes -> {"no", "done", "force"}]
Typed == JobsTyped /\ MachinesTyped /\ NodesTyped /\ HistoryTyped

LEMMA Constants ==
  /\ MaxNodes \in Nat /\ MaxEdits \in Nat
  /\ Statuses \subseteq {"online", "disabled", "maintenance"}
  /\ None \notin Nodes /\ None \notin Machines /\ None \notin Slots /\ None \notin Tokens
  /\ None \notin STRING /\ None \notin Row /\ None \notin Job
BY NodeConstants, NoneIsNoRecord DEF Nodes

LEMMA TypedInit == Init => Typed
<1> SUFFICES ASSUME Init PROVE Typed
  OBVIOUS
<1>1. CleanMachine \in Machine /\ edits \in 0..MaxEdits /\ CleanMachine.proc = "none"
  BY Constants DEF Init, CleanMachine, Machine
<1>2. Installed(CleanMachine)
  BY DEF Installed, CleanMachine
<1>3. JobsTyped
  BY DEF Init, JobsTyped, Busy
<1>4. MachinesTyped
  BY <1>1, <1>2 DEF Init, MachinesTyped
<1>5. NodesTyped /\ HistoryTyped
  BY <1>1 DEF Init, NodesTyped, HistoryTyped
<1> QED
  BY <1>3, <1>4, <1>5 DEF Typed

-----------------------------------------------------------------------------
(* Jobs. *)

\* A job takes a slot that is free; with aims of its own all jobs have theirs.
LEMMA OpenTyped ==
  ASSUME Typed, NEW kind \in {"register", "touch", "refresh", "answer", "done"} \cup Saving,
         NEW n \in Nodes \cup {None}, NEW to \in Tokens \cup Statuses \cup {None},
         NEW final \in BOOLEAN, Open(kind, n, to, final),
         kind = "register" => to \in Tokens,
         kind # "register" => n \in Nodes,
         kind = "update" => to \in Statuses \cup {None},
         kind \in Saving => rows[n] # None
  PROVE  JobsTyped' /\ Free \in Slots /\ ~Busy(Free)
<1> DEFINE job == [kind |-> kind, node |-> n, to |-> to, final |-> final,
                   row |-> IF kind \in Saving THEN rows[n] ELSE None]
<1>1. Free \in Slots /\ ~Busy(Free)
  BY DEF Open, Free
<1>2. kind \in Saving => n \in Nodes /\ rows[n] \in Row
  BY DEF Saving, Typed, NodesTyped
<1>3. job \in Job
  BY <1>2 DEF Job
<1>4. Aims(job)
  BY <1>2, Constants DEF Aims
<1>5. jobs' = [jobs EXCEPT ![Free] = job]
  BY DEF Open
<1>6. jobs' \in [Slots -> Job \cup {None}]
  BY <1>1, <1>3, <1>5 DEF Typed, JobsTyped
<1>7. ASSUME NEW s \in Slots, Busy(s)' PROVE Aims(jobs'[s])
  BY <1>1, <1>4, <1>5, <1>7 DEF Typed, JobsTyped, Busy
<1> QED
  BY <1>1, <1>6, <1>7 DEF JobsTyped

LEMMA CloseTyped ==
  ASSUME Typed, NEW s \in Slots, Close(s)
  PROVE  JobsTyped'
BY DEF Typed, JobsTyped, Close, Busy

\* A heartbeat's job goes on to its next update.
LEMMA GoesOnTyped ==
  ASSUME Typed, NEW s \in Slots, Busy(s), jobs[s].kind \in {"touch", "refresh"},
         NEW kind \in {"refresh", "answer"}, jobs' = [jobs EXCEPT ![s].kind = kind]
  PROVE  JobsTyped'
<1> DEFINE job == [jobs[s] EXCEPT !.kind = kind]
<1>1. jobs[s] \in Job /\ Aims(jobs[s])
  BY DEF Typed, JobsTyped, Busy
<1>2. job \in Job /\ job.kind = kind /\ job.node = jobs[s].node /\ job.row = jobs[s].row
  BY <1>1 DEF Job
<1>3. Aims(job)
  BY <1>1, <1>2 DEF Aims, Saving
<1>4. jobs' = [jobs EXCEPT ![s] = job]
  OBVIOUS
<1> QED
  BY <1>2, <1>3, <1>4 DEF Typed, JobsTyped, Busy

LEMMA OlderType ==
  ASSUME NEW row \in Row \cup {None}
  PROVE  Older(row) \in Row \cup {None} /\ (Older(row) = None) = (row = None)
BY Constants DEF Older, Row

LEMMA JobsStep == Typed /\ [Next]_vars => JobsTyped'
<1> SUFFICES ASSUME Typed, [Next]_vars PROVE JobsTyped'
  OBVIOUS
<1>1. CASE UNCHANGED jobs
  BY <1>1 DEF Typed, JobsTyped, Busy
<1>2. ASSUME NEW s \in Slots, Close(s) PROVE JobsTyped'
  BY <1>2, CloseTyped
<1>3. ASSUME NEW m \in Machines, Register(m) PROVE JobsTyped'
  <2>1. machine[m].env \in Tokens /\ machine[m].final \in BOOLEAN
    BY <1>3 DEF Register, Typed, MachinesTyped, Machine, Installed
  <2> QED
    BY <1>3, <2>1, OpenTyped DEF Register, Saving
<1>4. ASSUME NEW m \in Machines, NEW kind \in {"touch", "accepted", "failed"},
             Auth(m), Call(m, kind)
      PROVE  JobsTyped'
  <2>1. machine[m].creds \in Nodes /\ rows[machine[m].creds] # None
    BY <1>4 DEF Auth, Typed, MachinesTyped, Machine
  <2> QED
    BY <1>4, <2>1, OpenTyped DEF Call, Saving
<1>5. ASSUME NEW m \in Machines, SendReceipt(m) PROVE JobsTyped'
  BY <1>1, <1>4, <1>5 DEF SendReceipt, KnownCommand
<1>6. ASSUME NEW m \in Machines, SendDone(m) PROVE JobsTyped'
  <2>1. CASE KnownCommand(m) /\ machine[m].final
    <3>1. machine[m].creds \in Nodes
      BY <2>1 DEF KnownCommand, Auth, Typed, MachinesTyped, Machine
    <3> QED
      BY <1>6, <2>1, <3>1, OpenTyped DEF SendDone, Saving
  <2> QED
    BY <1>1, <1>6, <2>1 DEF SendDone
<1>7. ASSUME NEW n \in Nodes, BeginUpdate(n) \/ BeginUninstall(n) PROVE JobsTyped'
  BY <1>7, OpenTyped DEF BeginUpdate, BeginUninstall, Edit, Saving
<1>8. ASSUME NEW s \in Slots, Touch(s) \/ Refresh(s) PROVE JobsTyped'
  BY <1>8, GoesOnTyped DEF Touch, Refresh
<1>9. ASSUME NEW n \in Nodes, BecomesOverdue(n) PROVE JobsTyped'
  <2>1. ASSUME NEW s \in Slots, Busy(s)
        PROVE  [jobs[s] EXCEPT !.row = Older(@)] \in Job /\ Aims([jobs[s] EXCEPT !.row = Older(@)])
    <3>1. jobs[s] \in Job /\ Aims(jobs[s]) /\ jobs[s].row \in Row \cup {None}
      BY <2>1 DEF Typed, JobsTyped, Busy, Job
    <3> DEFINE job == [jobs[s] EXCEPT !.row = Older(@)]
    <3>2. /\ job \in Job /\ job.kind = jobs[s].kind /\ job.node = jobs[s].node
          /\ job.to = jobs[s].to /\ job.row = Older(jobs[s].row)
      BY <3>1, OlderType DEF Job
    <3> QED
      BY <3>1, <3>2, OlderType DEF Aims
  <2>2. ASSUME NEW s \in Slots
        PROVE  jobs'[s] \in {jobs[s], [jobs[s] EXCEPT !.row = Older(@)]} /\ (~Busy(s) => jobs'[s] = jobs[s])
    BY <1>9 DEF BecomesOverdue
  <2>3. jobs' = [s \in Slots |-> jobs'[s]]
    BY <1>9 DEF BecomesOverdue
  <2> QED
    BY <2>1, <2>2, <2>3 DEF Typed, JobsTyped, Busy
<1>10. ASSUME NEW m \in Machines, AgentStep(m) PROVE JobsTyped'
  BY <1>1, <1>3, <1>4, <1>5, <1>6, <1>10
  DEF AgentStep, Install, Heartbeat, Wipe, GiveUp, Stop
<1>11. ASSUME NEW s \in Slots, Handle(s) PROVE JobsTyped'
  BY <1>2, <1>8, <1>11
  DEF Handle, CommitRegister, Answer, SaveReceipt, DeleteDone, SaveUpdate, SaveUninstall
<1>12. ASSUME NEW n \in Nodes, NodeStep(n) PROVE JobsTyped'
  BY <1>1, <1>7, <1>9, <1>12 DEF NodeStep, ForceDelete, MarkOffline, ListOverdue, FindOverdue, MarkOverdue
<1> QED
  BY <1>1, <1>10, <1>11, <1>12 DEF Next, TokenStep, CreateInstallToken, DropInstallToken, vars

-----------------------------------------------------------------------------
(* Machines, rows and the rest. *)

\* A change of one machine.
LEMMA OneMachine ==
  ASSUME Typed, NEW m \in Machines, NEW new \in Machine, Installed(new),
         machine' = [machine EXCEPT ![m] = new]
  PROVE  MachinesTyped'
BY DEF Typed, MachinesTyped

\* An answer, which changes only machines that waited for it.
LEMMA AnsweredTyped ==
  ASSUME Typed, NEW s \in Slots,
         NEW proc \in {"none", "new", "up", "acking", "cleaning", "wiping"},
         Answered(s, proc)
  PROVE  MachinesTyped'
<1>1. ASSUME NEW m \in Machines PROVE machine'[m] \in Machine /\ Installed(machine'[m])
  <2>1. machine[m] \in Machine /\ Installed(machine[m])
    BY DEF Typed, MachinesTyped
  <2> DEFINE next == [machine[m] EXCEPT !.wait = None, !.proc = proc]
  <2>2. next \in Machine /\ next.env = machine[m].env
    BY <2>1 DEF Machine
  <2>3. machine'[m] = IF machine[m].wait = s THEN next ELSE machine[m]
    BY DEF Answered
  <2> QED
    BY <2>1, <2>2, <2>3, Constants DEF Installed
<1>2. machine' = [m \in Machines |-> machine'[m]]
  BY DEF Answered
<1> QED
  BY <1>1, <1>2 DEF MachinesTyped

\* A call to the API, by a machine that has its token.
LEMMA WaitsTyped ==
  ASSUME Typed, NEW m \in Machines, machine[m].proc # "none", Free \in Slots,
         machine' = [machine EXCEPT ![m].wait = Free]
  PROVE  MachinesTyped'
<1> DEFINE next == [machine[m] EXCEPT !.wait = Free]
<1>1. machine[m] \in Machine /\ machine[m].env \in Tokens
  BY DEF Typed, MachinesTyped, Installed
<1>2. next \in Machine /\ next.env = machine[m].env
  BY <1>1 DEF Machine
<1> QED
  BY <1>1, <1>2, OneMachine DEF Installed

\* A process goes on or ends, and waits for nothing more than it did.
LEMMA ProcTyped ==
  ASSUME Typed, NEW m \in Machines, machine[m].proc # "none" \/ machine[m].wait # None,
         NEW proc \in {"none", "new", "up", "acking", "cleaning", "wiping"},
         NEW wait \in {None, machine[m].wait},
         machine' = [machine EXCEPT ![m].wait = wait, ![m].proc = proc]
  PROVE  MachinesTyped'
<1> DEFINE next == [machine[m] EXCEPT !.wait = wait, !.proc = proc]
<1>1. machine[m] \in Machine /\ machine[m].env \in Tokens
  BY DEF Typed, MachinesTyped, Installed
<1>2. next \in Machine /\ next.env = machine[m].env
  BY <1>1 DEF Machine
<1>3. machine' = [machine EXCEPT ![m] = next]
  BY DEF Typed, MachinesTyped
<1> QED
  BY <1>1, <1>2, <1>3, OneMachine DEF Installed

LEMMA UninstallCommandType ==
  ASSUME NEW row \in Row PROVE UninstallCommand(row) \in 0..MaxEdits
BY Constants DEF UninstallCommand, Row

LEMMA MachinesStep == Typed /\ [Next]_vars => MachinesTyped'
<1> SUFFICES ASSUME Typed, [Next]_vars PROVE MachinesTyped'
  OBVIOUS
<1>1. CASE UNCHANGED machine
  BY <1>1 DEF Typed, MachinesTyped
<1>2. \A kind, n, to, final : Open(kind, n, to, final) => Free \in Slots
  BY DEF Open, Free
<1>3. ASSUME NEW m \in Machines, NEW t \in Tokens, Install(m, t) PROVE MachinesTyped'
  <2>1. PICK final \in BOOLEAN :
          machine' = [machine EXCEPT ![m] =
            [CleanMachine EXCEPT !.proc = "new", !.env = t, !.final = final]]
    BY <1>3 DEF Install
  <2> DEFINE next == [CleanMachine EXCEPT !.proc = "new", !.env = t, !.final = final]
  <2>2. CleanMachine \in Machine
    BY Constants DEF CleanMachine, Machine
  <2>3. next \in Machine /\ next.env = t
    BY <2>2 DEF Machine
  <2> QED
    BY <2>1, <2>3, OneMachine DEF Installed
<1>4. ASSUME NEW m \in Machines, Register(m) \/ Heartbeat(m) PROVE MachinesTyped'
  BY <1>2, <1>4, WaitsTyped DEF Register, Heartbeat, Call
<1>5. ASSUME NEW m \in Machines, SendReceipt(m) PROVE MachinesTyped'
  <2>1. CASE KnownCommand(m)
    BY <1>2, <1>5, <2>1, WaitsTyped DEF SendReceipt, Call
  <2>2. CASE ~KnownCommand(m)
    <3>1. machine' = [machine EXCEPT ![m].wait = machine[m].wait, ![m].proc = "up"]
      BY <1>5, <2>2 DEF SendReceipt, Typed, MachinesTyped, Machine
    <3> QED
      BY <1>5, <3>1, ProcTyped DEF SendReceipt
  <2> QED
    BY <2>1, <2>2
<1>6. ASSUME NEW m \in Machines, SendDone(m) PROVE MachinesTyped'
  <2>1. machine' = [machine EXCEPT ![m].wait = machine[m].wait, ![m].proc = "wiping"]
    BY <1>6 DEF SendDone, Typed, MachinesTyped, Machine
  <2> QED
    BY <1>6, <2>1, ProcTyped DEF SendDone
<1>7. ASSUME NEW m \in Machines, Wipe(m) PROVE MachinesTyped'
  <2>1. CleanMachine \in Machine /\ Installed(CleanMachine)
    BY Constants DEF CleanMachine, Machine, Installed
  <2> QED
    BY <1>7, <2>1, OneMachine DEF Wipe
<1>8. ASSUME NEW m \in Machines, GiveUp(m) PROVE MachinesTyped'
  <2>1. machine[m] \in Machine
    BY DEF Typed, MachinesTyped
  <2> DEFINE proc == IF machine[m].proc = "acking" THEN "up" ELSE machine[m].proc
  <2>2. proc \in {"none", "new", "up", "acking", "cleaning", "wiping"}
    BY <2>1 DEF Machine
  <2>3. machine' = [machine EXCEPT ![m].wait = None, ![m].proc = proc]
    BY <1>8, <2>1 DEF GiveUp, Typed, MachinesTyped, Machine
  <2> QED
    BY <1>8, <2>2, <2>3, ProcTyped DEF GiveUp
<1>9. ASSUME NEW m \in Machines, Stop(m) PROVE MachinesTyped'
  BY <1>9, ProcTyped DEF Stop
<1>10. ASSUME NEW s \in Slots, CommitRegister(s) PROVE MachinesTyped'
  <2> DEFINE t == jobs[s].to
             n == Cardinality({o \in Nodes : from[o] # None}) + 1
  <2>1. CASE TakesToken(t)
    <3>1. ASSUME NEW m \in Machines PROVE machine'[m] \in Machine /\ Installed(machine'[m])
      <4>1. machine[m] \in Machine /\ Installed(machine[m]) /\ n \in Nodes
        BY <1>10, <2>1 DEF Typed, MachinesTyped, CommitRegister
      <4> DEFINE next == [machine[m] EXCEPT !.wait = None, !.creds = n, !.proc = "up"]
      <4>2. next \in Machine /\ next.env = machine[m].env
        BY <4>1 DEF Machine
      <4>3. machine'[m] = IF machine[m].wait # s THEN machine[m] ELSE next
        BY <1>10, <2>1 DEF CommitRegister
      <4> QED
        BY <4>1, <4>2, <4>3, Constants DEF Installed
    <3>2. machine' = [m \in Machines |-> machine'[m]]
      BY <1>10, <2>1 DEF CommitRegister
    <3> QED
      BY <3>1, <3>2 DEF MachinesTyped
  <2>2. CASE ~TakesToken(t)
    BY <1>10, <2>2, AnsweredTyped DEF CommitRegister
  <2> QED
    BY <2>1, <2>2
<1>11. ASSUME NEW s \in Slots, Answer(s) PROVE MachinesTyped'
  <2> DEFINE row == rows[jobs[s].node]
             cmd == IF row = None THEN 0 ELSE UninstallCommand(row)
  <2>1. cmd \in 0..MaxEdits
    <3>1. jobs[s].node \in Nodes
      BY <1>11 DEF Answer, Typed, JobsTyped, Aims
    <3> QED
      BY <3>1, UninstallCommandType, Constants DEF Typed, NodesTyped
  <2>2. ASSUME NEW m \in Machines PROVE machine'[m] \in Machine /\ Installed(machine'[m])
    <3>1. machine[m] \in Machine /\ Installed(machine[m])
      BY DEF Typed, MachinesTyped
    <3> DEFINE idle == [machine[m] EXCEPT !.wait = None]
               told == [machine[m] EXCEPT !.wait = None, !.marker = cmd, !.proc = "acking"]
    <3>2. /\ idle \in Machine /\ idle.env = machine[m].env
          /\ told \in Machine /\ told.env = machine[m].env
      BY <2>1, <3>1 DEF Machine
    <3>3. machine'[m] = IF machine[m].wait # s THEN machine[m]
                        ELSE IF cmd = 0 THEN idle ELSE told
      BY <1>11 DEF Answer
    <3> QED
      BY <3>1, <3>2, <3>3, Constants DEF Installed
  <2>3. machine' = [m \in Machines |-> machine'[m]]
    BY <1>11 DEF Answer
  <2> QED
    BY <2>2, <2>3 DEF MachinesTyped
<1>12. ASSUME NEW s \in Slots, SaveReceipt(s) PROVE MachinesTyped'
  BY <1>12, AnsweredTyped DEF SaveReceipt
<1>13. ASSUME NEW m \in Machines, AgentStep(m) PROVE MachinesTyped'
  BY <1>3, <1>4, <1>5, <1>6, <1>7, <1>8, <1>9, <1>13 DEF AgentStep
<1>14. ASSUME NEW s \in Slots, Handle(s) PROVE MachinesTyped'
  BY <1>1, <1>10, <1>11, <1>12, <1>14
  DEF Handle, Touch, Refresh, DeleteDone, SaveUpdate, SaveUninstall
<1>15. ASSUME NEW n \in Nodes, NodeStep(n) PROVE UNCHANGED machine
  BY <1>15 DEF NodeStep, BeginUpdate, BeginUninstall, Edit, ForceDelete, MarkOffline,
     ListOverdue, FindOverdue, MarkOverdue, BecomesOverdue
<1> QED
  BY <1>1, <1>13, <1>14, <1>15 DEF Next, TokenStep, CreateInstallToken, DropInstallToken, vars

\* What the actions make of a row is a row.
LEMMA RowsOfActions ==
  ASSUME NEW row \in Row
  PROVE  /\ \A status \in {"online", "offline", "disabled", "maintenance"} \cup UninstallStatus :
              [row EXCEPT !.status = status] \in Row
         /\ \A since \in BOOLEAN : [row EXCEPT !.since = since] \in Row
         /\ \A cmd \in 0..MaxEdits :
              [row EXCEPT !.status = "uninstalling", !.cmd = cmd,
                          !.requested = "recent", !.since = FALSE] \in Row
         /\ AcceptedStatus(row) \in UninstallStatus
<1>1. \A status \in {"online", "offline", "disabled", "maintenance"} \cup UninstallStatus :
        [row EXCEPT !.status = status] \in Row
  BY DEF Row
<1>2. \A since \in BOOLEAN : [row EXCEPT !.since = since] \in Row
  BY DEF Row
<1>3. \A cmd \in 0..MaxEdits :
        [row EXCEPT !.status = "uninstalling", !.cmd = cmd,
                    !.requested = "recent", !.since = FALSE] \in Row
  BY DEF Row, UninstallStatus
<1>4. AcceptedStatus(row) \in UninstallStatus
  BY DEF AcceptedStatus, UninstallStatus
<1> QED
  BY <1>1, <1>2, <1>3, <1>4

RowsTyped == rows \in [Nodes -> Row \cup {None}]

LEMMA RowsStep == Typed /\ [Next]_vars => RowsTyped'
<1> SUFFICES ASSUME Typed, [Next]_vars PROVE RowsTyped'
  OBVIOUS
<1>1. CASE UNCHANGED rows
  BY <1>1 DEF Typed, NodesTyped, RowsTyped
<1>2. ASSUME NEW n \in Nodes, NEW row \in Row \cup {None}, rows' = [rows EXCEPT ![n] = row]
      PROVE  RowsTyped'
  BY <1>2 DEF Typed, NodesTyped, RowsTyped
<1>3. ASSUME NEW s \in Slots, Busy(s)
      PROVE  /\ jobs[s] \in Job /\ Aims(jobs[s])
             /\ jobs[s].kind # "register" => jobs[s].node \in Nodes
             /\ jobs[s].kind \in Saving => jobs[s].row \in Row
             /\ jobs[s].final \in BOOLEAN
  <2>1. jobs[s] \in Job /\ Aims(jobs[s])
    BY <1>3 DEF Typed, JobsTyped, Busy
  <2> QED
    BY <2>1 DEF Job, Aims
<1>4. ASSUME NEW s \in Slots, CommitRegister(s) PROVE RowsTyped'
  <2> DEFINE n == Cardinality({o \in Nodes : from[o] # None}) + 1
  <2>1. CASE TakesToken(jobs[s].to)
    <3>1. n \in Nodes /\ rows' = [rows EXCEPT ![n] = NewRow(jobs[s].final)]
      BY <1>4, <2>1 DEF CommitRegister
    <3>2. jobs[s].final \in BOOLEAN
      BY <1>3, <1>4 DEF CommitRegister
    <3>3. NewRow(jobs[s].final) \in Row
      BY <3>2, Constants DEF NewRow, Row
    <3> QED
      BY <1>2, <3>1, <3>3
  <2>2. CASE ~TakesToken(jobs[s].to)
    BY <1>1, <1>4, <2>2 DEF CommitRegister, api
  <2> QED
    BY <2>1, <2>2
<1>5. ASSUME NEW s \in Slots, Touch(s) PROVE RowsTyped'
  <2> DEFINE n == jobs[s].node
             since == rows[n].requested # "never"
  <2>1. n \in Nodes
    BY <1>3, <1>5 DEF Touch
  <2>2. CASE rows[n] = None
    BY <1>1, <1>5, <2>2 DEF Touch
  <2>3. CASE rows[n] # None
    <3>1. rows[n] \in Row /\ since \in BOOLEAN
      BY <2>1, <2>3 DEF Typed, NodesTyped
    <3>2. [rows[n] EXCEPT !.since = since] \in Row
      BY <3>1, RowsOfActions
    <3>3. rows' = [rows EXCEPT ![n] = [rows[n] EXCEPT !.since = since]]
      BY <1>5, <2>3 DEF Touch
    <3> HIDE DEF since
    <3> QED
      BY <1>2, <2>1, <3>2, <3>3
  <2> QED
    BY <2>2, <2>3
<1>6. ASSUME NEW s \in Slots, Refresh(s) PROVE RowsTyped'
  <2>1. jobs[s].node \in Nodes /\ rows' = [rows EXCEPT ![jobs[s].node] = BackOnline(@)]
    BY <1>3, <1>6 DEF Refresh
  <2>2. \A row \in Row \cup {None} : BackOnline(row) \in Row \cup {None}
    BY RowsOfActions DEF BackOnline
  <2> QED
    BY <1>2, <2>1, <2>2 DEF Typed, NodesTyped
<1>7. ASSUME NEW s \in Slots, SaveReceipt(s) PROVE RowsTyped'
  <2> DEFINE status == IF jobs[s].kind = "failed" THEN "uninstall_failed"
                       ELSE AcceptedStatus(jobs[s].row)
  <2>1. jobs[s].node \in Nodes /\ jobs[s].row \in Row
    BY <1>3, <1>7 DEF SaveReceipt, Saving
  <2>2. status \in UninstallStatus
    BY <2>1, RowsOfActions DEF UninstallStatus
  <2>3. [jobs[s].row EXCEPT !.status = status] \in Row
    BY <2>1, <2>2, RowsOfActions
  <2>4. rows' = [rows EXCEPT ![jobs[s].node] = [jobs[s].row EXCEPT !.status = status]]
    BY <1>7 DEF SaveReceipt
  <2> QED
    BY <1>2, <2>1, <2>3, <2>4
<1>8. ASSUME NEW s \in Slots, DeleteDone(s) PROVE RowsTyped'
  BY <1>2, <1>3, <1>8 DEF DeleteDone, Remove
<1>9. ASSUME NEW s \in Slots, SaveUpdate(s) PROVE RowsTyped'
  <2> DEFINE new == IF jobs[s].to = None THEN jobs[s].row
                    ELSE [jobs[s].row EXCEPT !.status = jobs[s].to]
  <2>1. /\ jobs[s].node \in Nodes /\ jobs[s].row \in Row
        /\ jobs[s].to \in Statuses \cup {None}
    BY <1>3, <1>9 DEF SaveUpdate, Saving, Aims
  <2>2. new \in Row
    BY <2>1, Constants, RowsOfActions
  <2>3. rows' = [rows EXCEPT ![jobs[s].node] = new]
    BY <1>9 DEF SaveUpdate
  <2> QED
    BY <1>2, <2>1, <2>2, <2>3
<1>10. ASSUME NEW s \in Slots, SaveUninstall(s) PROVE RowsTyped'
  <2> DEFINE cmd == IF jobs[s].row.cmd = 0 THEN edits ELSE jobs[s].row.cmd
             new == [jobs[s].row EXCEPT !.status = "uninstalling", !.cmd = cmd,
                                        !.requested = "recent", !.since = FALSE]
  <2>1. jobs[s].node \in Nodes /\ jobs[s].row \in Row
    BY <1>3, <1>10 DEF SaveUninstall, Saving
  <2>2. cmd \in 0..MaxEdits
    BY <2>1 DEF Row, Typed, NodesTyped
  <2>3. new \in Row
    BY <2>1, <2>2, RowsOfActions
  <2>4. rows' = [rows EXCEPT ![jobs[s].node] = new]
    BY <1>10, <2>1 DEF SaveUninstall, Row
  <2> QED
    BY <1>2, <2>1, <2>3, <2>4
<1>11. ASSUME NEW n \in Nodes, ForceDelete(n) PROVE RowsTyped'
  BY <1>2, <1>11 DEF ForceDelete, Remove
<1>12. ASSUME NEW n \in Nodes,
              NEW status \in {"online", "offline", "disabled", "maintenance"} \cup UninstallStatus,
              rows[n] # None, rows' = [rows EXCEPT ![n].status = status]
       PROVE  RowsTyped'
  <2>1. [rows[n] EXCEPT !.status = status] \in Row
    BY <1>12, RowsOfActions DEF Typed, NodesTyped
  <2> QED
    BY <1>2, <1>12, <2>1
<1>13. ASSUME NEW n \in Nodes, MarkOffline(n) \/ MarkOverdue(n) PROVE RowsTyped'
  <2>1. listing[n] # None => listing[n] \in UninstallStatus
    BY DEF Typed, NodesTyped, UninstallStatus
  <2> QED
    BY <1>1, <1>12, <1>13, <2>1 DEF MarkOffline, MarkOverdue
<1>14. ASSUME NEW n \in Nodes, BecomesOverdue(n) PROVE RowsTyped'
  BY <1>2, <1>14, OlderType DEF BecomesOverdue, Typed, NodesTyped
<1>15. ASSUME NEW m \in Machines, AgentStep(m) PROVE UNCHANGED rows
  BY <1>15 DEF AgentStep, Install, Register, Heartbeat, SendReceipt, SendDone, Wipe,
     GiveUp, Stop, api
<1>16. ASSUME NEW s \in Slots, Handle(s) PROVE RowsTyped'
  BY <1>1, <1>4, <1>5, <1>6, <1>7, <1>8, <1>9, <1>10, <1>16 DEF Handle, Answer, api
<1>17. ASSUME NEW n \in Nodes, NodeStep(n) PROVE RowsTyped'
  BY <1>1, <1>11, <1>13, <1>14, <1>17
  DEF NodeStep, BeginUpdate, BeginUninstall, Edit, ListOverdue, FindOverdue, api
<1> QED
  BY <1>1, <1>15, <1>16, <1>17 DEF Next, TokenStep, CreateInstallToken, DropInstallToken, vars

LEMMA NodesStep == Typed /\ [Next]_vars => NodesTyped'
<1> SUFFICES ASSUME Typed, [Next]_vars PROVE NodesTyped'
  OBVIOUS
<1>1. RowsTyped'
  BY RowsStep
<1>2. CASE UNCHANGED <<token, from, listing, edits>>
  BY <1>1, <1>2 DEF Typed, NodesTyped, RowsTyped
<1>3. ASSUME NEW t \in Tokens, TokenStep(t) PROVE NodesTyped'
  BY <1>1, <1>3 DEF TokenStep, CreateInstallToken, DropInstallToken, Typed, NodesTyped, RowsTyped
<1>4. ASSUME NEW s \in Slots, CommitRegister(s) PROVE NodesTyped'
  <2>1. jobs[s].to \in Tokens
    BY <1>4 DEF CommitRegister, Typed, JobsTyped, Aims
  <2> QED
    BY <1>1, <1>2, <1>4, <2>1 DEF CommitRegister, api, Typed, NodesTyped, RowsTyped
<1>5. ASSUME NEW n \in Nodes, BeginUpdate(n) \/ BeginUninstall(n) PROVE NodesTyped'
  <2>1. edits < MaxEdits /\ edits' = edits + 1 /\ UNCHANGED <<token, from, listing>>
    BY <1>5 DEF BeginUpdate, BeginUninstall, Edit, api
  <2>2. edits' \in 0..MaxEdits
    BY <2>1, Constants DEF Typed, NodesTyped
  <2> QED
    BY <1>1, <2>1, <2>2 DEF Typed, NodesTyped, RowsTyped
<1>6. ASSUME NEW n \in Nodes, ListOverdue(n) PROVE NodesTyped'
  BY <1>1, <1>6 DEF ListOverdue, FindOverdue, MarkOverdue, api, Typed, NodesTyped, RowsTyped
<1>7. ASSUME NEW m \in Machines, AgentStep(m) PROVE NodesTyped'
  BY <1>2, <1>7 DEF AgentStep, Install, Register, Heartbeat, SendReceipt, SendDone, Wipe,
     GiveUp, Stop, api
<1>8. ASSUME NEW s \in Slots, Handle(s) PROVE NodesTyped'
  BY <1>2, <1>4, <1>8
  DEF Handle, Touch, Refresh, Answer, SaveReceipt, DeleteDone, SaveUpdate, SaveUninstall, api
<1>9. ASSUME NEW n \in Nodes, NodeStep(n) PROVE NodesTyped'
  BY <1>2, <1>5, <1>6, <1>9 DEF NodeStep, ForceDelete, MarkOffline, BecomesOverdue
<1> QED
  BY <1>2, <1>3, <1>7, <1>8, <1>9 DEF Next, vars

LEMMA HistoryStep == Typed /\ [Next]_vars => HistoryTyped'
<1> SUFFICES ASSUME Typed, [Next]_vars PROVE HistoryTyped'
  OBVIOUS
<1>1. CASE UNCHANGED history
  BY <1>1 DEF history, Typed, HistoryTyped
<1>2. ASSUME NEW n \in Nodes, NEW how \in {"done", "force"}, Remove(n, how), UNCHANGED calledOff
      PROVE  HistoryTyped'
  BY <1>2 DEF Remove, Typed, HistoryTyped
<1>3. ASSUME NEW s \in Slots, DeleteDone(s) \/ SaveUpdate(s) \/ SaveUninstall(s)
      PROVE  HistoryTyped'
  <2>1. jobs[s].node \in Nodes
    BY <1>3 DEF DeleteDone, SaveUpdate, SaveUninstall, Typed, JobsTyped, Aims
  <2>2. CASE DeleteDone(s)
    BY <1>2, <2>1, <2>2 DEF DeleteDone
  <2>3. CASE SaveUpdate(s) \/ SaveUninstall(s)
    BY <2>1, <2>3 DEF SaveUpdate, SaveUninstall, Typed, HistoryTyped
  <2> QED
    BY <1>3, <2>2, <2>3
<1>4. ASSUME NEW n \in Nodes, ForceDelete(n) PROVE HistoryTyped'
  BY <1>2, <1>4 DEF ForceDelete
<1>5. ASSUME NEW m \in Machines, AgentStep(m) PROVE HistoryTyped'
  BY <1>1, <1>5 DEF AgentStep, Install, Register, Heartbeat, SendReceipt, SendDone, Wipe,
     GiveUp, Stop
<1>6. ASSUME NEW s \in Slots, Handle(s) PROVE HistoryTyped'
  BY <1>1, <1>3, <1>6 DEF Handle, CommitRegister, Touch, Refresh, Answer, SaveReceipt
<1>7. ASSUME NEW n \in Nodes, NodeStep(n) PROVE HistoryTyped'
  BY <1>1, <1>4, <1>7 DEF NodeStep, BeginUpdate, BeginUninstall, Edit, MarkOffline,
     ListOverdue, FindOverdue, MarkOverdue, BecomesOverdue
<1> QED
  BY <1>1, <1>5, <1>6, <1>7
  DEF Next, TokenStep, CreateInstallToken, DropInstallToken, vars, history

LEMMA TypedCorrect == Spec => []Typed
<1>1. Typed /\ [Next]_vars => Typed'
  BY JobsStep, MachinesStep, NodesStep, HistoryStep DEF Typed
<1> QED
  BY <1>1, TypedInit, PTL DEF Spec

(***************************************************************************)
(* Every variable has its type; the jobs that save a row hold one.         *)
(***************************************************************************)
THEOREM TypeCorrect == Spec => []TypeOK
<1>1. Typed => TypeOK
  BY DEF Typed, JobsTyped, MachinesTyped, NodesTyped, HistoryTyped, Aims, TypeOK
<1> QED
  BY <1>1, TypedCorrect, PTL

-----------------------------------------------------------------------------
(***************************************************************************)
(* One node per token.  A token a node was registered with is used, and no *)
(* step makes a used token valid again; so the token that is taken has no  *)
(* node yet.                                                               *)
(***************************************************************************)
TokensAreUsed == \A n \in Nodes : from[n] # None => token[from[n]] = "used"
TokenInv == OneNodePerToken /\ TokensAreUsed

\* Only registrations and the administrator's tokens change a token.
LEMMA TokenSteps ==
  ASSUME [Next]_vars
  PROVE  \/ UNCHANGED <<token, from>>
         \/ \E t \in Tokens : TokenStep(t)
         \/ \E s \in Slots : CommitRegister(s) /\ TakesToken(jobs[s].to)
<1>1. ASSUME NEW m \in Machines, AgentStep(m) PROVE UNCHANGED <<token, from>>
  BY <1>1 DEF AgentStep, Install, Register, Heartbeat, SendReceipt, SendDone, Wipe,
     GiveUp, Stop, api
<1>2. ASSUME NEW s \in Slots, Handle(s)
      PROVE  (CommitRegister(s) /\ TakesToken(jobs[s].to)) \/ UNCHANGED <<token, from>>
  BY <1>2 DEF Handle, CommitRegister, Touch, Refresh, Answer, SaveReceipt, DeleteDone,
     SaveUpdate, SaveUninstall, api
<1>3. ASSUME NEW n \in Nodes, NodeStep(n) PROVE UNCHANGED <<token, from>>
  BY <1>3 DEF NodeStep, BeginUpdate, BeginUninstall, Edit, ForceDelete, MarkOffline,
     ListOverdue, FindOverdue, MarkOverdue, BecomesOverdue, api
<1> QED
  BY <1>1, <1>2, <1>3 DEF Next, vars

\* What a registration that takes its token does.
LEMMA Taking ==
  ASSUME Typed, NEW s \in Slots, CommitRegister(s), TakesToken(jobs[s].to)
  PROVE  \E n \in Nodes, t \in Tokens :
           /\ n = Cardinality({o \in Nodes : from[o] # None}) + 1
           /\ t = jobs[s].to /\ token[t] = "valid"
           /\ token' = [token EXCEPT ![t] = "used"]
           /\ from' = [from EXCEPT ![n] = t]
           /\ rows' = [rows EXCEPT ![n] = NewRow(jobs[s].final)]
           /\ UNCHANGED <<listing, edits, history>> /\ Close(s)
<1>1. jobs[s].to \in Tokens
  BY DEF CommitRegister, Typed, JobsTyped, Aims
<1> QED
  BY <1>1 DEF CommitRegister, TakesToken

LEMMA TokenStepKeeps == Typed /\ TokenInv /\ [Next]_vars => TokenInv'
<1> SUFFICES ASSUME Typed, TokenInv, [Next]_vars PROVE TokenInv'
  OBVIOUS
<1> USE DEF TokenInv, OneNodePerToken, TokensAreUsed
<1>1. CASE UNCHANGED <<token, from>>
  BY <1>1
<1>2. ASSUME NEW t \in Tokens, TokenStep(t) PROVE TokenInv'
  BY <1>2 DEF TokenStep, CreateInstallToken, DropInstallToken, Typed, NodesTyped
<1>3. ASSUME NEW s \in Slots, CommitRegister(s), TakesToken(jobs[s].to) PROVE TokenInv'
  <2>1. PICK n \in Nodes, t \in Tokens :
          /\ token[t] = "valid" /\ token' = [token EXCEPT ![t] = "used"]
          /\ from' = [from EXCEPT ![n] = t]
    BY <1>3, Taking
  <2>2. \A o \in Nodes : from'[o] = IF o = n THEN t ELSE from[o]
    BY <2>1 DEF Typed, NodesTyped
  <2>3. \A u \in Tokens : token'[u] = IF u = t THEN "used" ELSE token[u]
    BY <2>1 DEF Typed, NodesTyped
  <2>4. \A o \in Nodes : from[o] # None => from[o] \in Tokens /\ from[o] # t
    BY <2>1 DEF Typed, NodesTyped
  <2> QED
    BY <2>1, <2>2, <2>3, <2>4
<1> QED
  BY <1>1, <1>2, <1>3, TokenSteps

(***************************************************************************)
(* A token registers one node, however many machines present it and        *)
(* however often an agent that lost the answer tries again.                *)
(***************************************************************************)
THEOREM OneNodeEach == Spec => []OneNodePerToken
<1>1. Init => TokenInv
  BY DEF Init, TokenInv, OneNodePerToken, TokensAreUsed
<1>2. TokenInv => OneNodePerToken
  BY DEF TokenInv
<1> QED
  BY <1>1, <1>2, TokenStepKeeps, TypedCorrect, PTL DEF Spec

-----------------------------------------------------------------------------
(***************************************************************************)
(* Removal.  Nodes are registered in their order, so that a registration   *)
(* takes a number no node had.  A job is for a node that was registered.   *)
(* Unless a handler held the row of a node when it was removed, no job     *)
(* will save it.                                                           *)
(***************************************************************************)
Born(n) == from[n] # None
InOrder == \E k \in 0..MaxNodes : \A n \in Nodes : Born(n) <=> n <= k
KnownNodes ==
  /\ \A n \in Nodes : rows[n] # None \/ removed[n] # "no" => Born(n)
  /\ \A s \in Slots : Busy(s) /\ jobs[s].kind # "register" => Born(jobs[s].node)
WillSave(s, n) == Busy(s) /\ jobs[s].kind \in Saving /\ jobs[s].node = n
StaysAway ==
  \A n \in Nodes : removed[n] # "no" /\ n \notin overtaken =>
    rows[n] = None /\ \A s \in Slots : ~WillSave(s, n)
RemovalInv == InOrder /\ KnownNodes /\ StaysAway

\* Where a job comes from: it was there, with the same node, or its handler
\* has read the row of the node in this step.
LEMMA NewJobs ==
  ASSUME Typed, [Next]_vars, NEW s \in Slots, Busy(s)', jobs'[s].kind # "register"
  PROVE  \/ /\ Busy(s) /\ jobs[s].kind # "register" /\ jobs'[s].node = jobs[s].node
            /\ jobs'[s].kind \in Saving => jobs[s].kind \in Saving
         \/ /\ jobs'[s].node \in Nodes /\ rows[jobs'[s].node] # None
            /\ UNCHANGED <<api, history>>
<1> DEFINE Was == /\ Busy(s) /\ jobs[s].kind # "register" /\ jobs'[s].node = jobs[s].node
                  /\ jobs'[s].kind \in Saving => jobs[s].kind \in Saving
           Read == /\ jobs'[s].node \in Nodes /\ rows[jobs'[s].node] # None
                   /\ UNCHANGED <<api, history>>
<1>1. CASE UNCHANGED jobs
  BY <1>1 DEF Busy
<1>2. ASSUME NEW r \in Slots, Close(r) PROVE Was
  BY <1>2 DEF Close, Busy, Typed, JobsTyped
<1>3. ASSUME NEW kind, NEW n, NEW to, NEW final, Open(kind, n, to, final)
      PROVE  Was \/ (jobs'[s].kind = kind /\ jobs'[s].node = n)
  BY <1>3 DEF Open, Free, Busy, Typed, JobsTyped
<1>4. ASSUME NEW m \in Machines, Register(m) PROVE Was
  BY <1>3, <1>4 DEF Register
<1>5. ASSUME NEW m \in Machines, NEW kind, Auth(m),
             Open(kind, machine[m].creds, None, FALSE), UNCHANGED <<api, history>>
      PROVE  Was \/ Read
  <2>1. machine[m].creds \in Nodes /\ rows[machine[m].creds] # None
    BY <1>5 DEF Auth, Typed, MachinesTyped, Machine
  <2> QED
    BY <1>3, <1>5, <2>1
<1>6. ASSUME NEW m \in Machines, Heartbeat(m) \/ SendReceipt(m) \/ SendDone(m) PROVE Was \/ Read
  BY <1>1, <1>5, <1>6 DEF Heartbeat, SendReceipt, SendDone, KnownCommand, Call
<1>7. ASSUME NEW n \in Nodes, BeginUpdate(n) \/ BeginUninstall(n) PROVE Was \/ Read
  BY <1>3, <1>7 DEF BeginUpdate, BeginUninstall, Edit
<1>8. ASSUME NEW r \in Slots, Touch(r) \/ Refresh(r) PROVE Was
  <2>1. PICK kind \in {"refresh", "answer"} : jobs' = [jobs EXCEPT ![r].kind = kind]
    BY <1>8 DEF Touch, Refresh
  <2>2. Busy(r) /\ jobs[r] \in Job /\ jobs[r].kind \in {"touch", "refresh"}
    BY <1>8 DEF Touch, Refresh, Busy, Typed, JobsTyped
  <2>3. [jobs[r] EXCEPT !.kind = kind].node = jobs[r].node
        /\ [jobs[r] EXCEPT !.kind = kind].kind = kind
    BY <2>2 DEF Job
  <2>4. jobs'[s] = IF s = r THEN [jobs[r] EXCEPT !.kind = kind] ELSE jobs[s]
    BY <2>1 DEF Typed, JobsTyped
  <2> QED
    BY <2>2, <2>3, <2>4 DEF Busy, Saving
<1>9. ASSUME NEW n \in Nodes, BecomesOverdue(n) PROVE Was
  <2>1. jobs'[s] = IF Busy(s) /\ jobs[s].node = n
                   THEN [jobs[s] EXCEPT !.row = Older(@)] ELSE jobs[s]
    BY <1>9 DEF BecomesOverdue
  <2>2. Busy(s) => jobs[s] \in Job
    BY DEF Busy, Typed, JobsTyped
  <2>3. Busy(s) => /\ [jobs[s] EXCEPT !.row = Older(@)].kind = jobs[s].kind
                   /\ [jobs[s] EXCEPT !.row = Older(@)].node = jobs[s].node
    BY <2>2 DEF Job
  <2> QED
    BY <2>1, <2>3 DEF Busy
<1>10. ASSUME NEW m \in Machines, AgentStep(m) PROVE Was \/ Read
  BY <1>1, <1>4, <1>6, <1>10 DEF AgentStep, Install, Wipe, GiveUp, Stop
<1>11. ASSUME NEW r \in Slots, Handle(r) PROVE Was
  BY <1>2, <1>8, <1>11
  DEF Handle, CommitRegister, Answer, SaveReceipt, DeleteDone, SaveUpdate, SaveUninstall
<1>12. ASSUME NEW n \in Nodes, NodeStep(n) PROVE Was \/ Read
  BY <1>1, <1>7, <1>9, <1>12
  DEF NodeStep, ForceDelete, MarkOffline, ListOverdue, FindOverdue, MarkOverdue
<1> QED
  BY <1>1, <1>10, <1>11, <1>12 DEF Next, TokenStep, CreateInstallToken, DropInstallToken, vars

(***************************************************************************)
(* What a step does to rows: one is deleted, one is created, one is saved  *)
(* by a handler that read it, or there are no new ones.                    *)
(***************************************************************************)
Removes(n) ==
  /\ \E how \in {"done", "force"} : Remove(n, how)
  /\ UNCHANGED from
  /\ rows[n] # None \/ \E s \in Slots : Busy(s) /\ jobs[s].kind = "done" /\ jobs[s].node = n
Registers(s) == CommitRegister(s) /\ TakesToken(jobs[s].to)
Saves(s, n) ==
  /\ WillSave(s, n) /\ \E row : rows' = [rows EXCEPT ![n] = row]
  /\ UNCHANGED <<from, removed, overtaken>>
AddsNone ==
  /\ UNCHANGED <<from, removed, overtaken>>
  /\ \A n \in Nodes : rows[n] = None => rows'[n] = None

LEMMA RowSteps ==
  ASSUME Typed, [Next]_vars
  PROVE  \/ \E n \in Nodes : Removes(n)
         \/ \E s \in Slots : Registers(s)
         \/ \E s \in Slots, n \in Nodes : Saves(s, n)
         \/ AddsNone
<1>1. ASSUME UNCHANGED <<rows, from, removed, overtaken>> PROVE AddsNone
  BY <1>1 DEF AddsNone
<1>2. ASSUME NEW s \in Slots, Busy(s), jobs[s].kind # "register" PROVE jobs[s].node \in Nodes
  BY <1>2 DEF Typed, JobsTyped, Aims
<1>3. ASSUME NEW s \in Slots, SaveReceipt(s) \/ SaveUpdate(s) \/ SaveUninstall(s)
      PROVE  \E n \in Nodes : Saves(s, n)
  <2>1. WillSave(s, jobs[s].node) /\ jobs[s].node \in Nodes
    BY <1>2, <1>3 DEF SaveReceipt, SaveUpdate, SaveUninstall, WillSave, Saving
  <2>2. /\ \E row : rows' = [rows EXCEPT ![jobs[s].node] = row]
        /\ UNCHANGED <<from, removed, overtaken>>
    BY <1>3 DEF SaveReceipt, SaveUpdate, SaveUninstall, history
  <2> QED
    BY <2>1, <2>2 DEF Saves
<1>4. ASSUME NEW s \in Slots, Touch(s) \/ Refresh(s) PROVE AddsNone
  BY <1>2, <1>4 DEF AddsNone, Touch, Refresh, BackOnline, history, Typed, NodesTyped
<1>5. ASSUME NEW n \in Nodes, MarkOffline(n) \/ MarkOverdue(n) \/ BecomesOverdue(n) PROVE AddsNone
  BY <1>5 DEF AddsNone, MarkOffline, MarkOverdue, BecomesOverdue, Older, history, Typed, NodesTyped
<1>6. ASSUME NEW s \in Slots, DeleteDone(s) PROVE \E n \in Nodes : Removes(n)
  BY <1>2, <1>6 DEF DeleteDone, Removes
<1>7. ASSUME NEW n \in Nodes, ForceDelete(n) PROVE Removes(n)
  BY <1>7 DEF ForceDelete, Removes
<1>8. ASSUME NEW m \in Machines, AgentStep(m) PROVE UNCHANGED <<rows, from, removed, overtaken>>
  BY <1>8 DEF AgentStep, Install, Register, Heartbeat, SendReceipt, SendDone, Wipe,
     GiveUp, Stop, api, history
<1>9. ASSUME NEW s \in Slots, Handle(s)
      PROVE  \/ DeleteDone(s) \/ Registers(s) \/ AddsNone
             \/ \E n \in Nodes : Saves(s, n)
  <2>1. CASE (CommitRegister(s) /\ ~TakesToken(jobs[s].to)) \/ Answer(s)
    <3>1. UNCHANGED <<rows, from, removed, overtaken>>
      BY <2>1 DEF CommitRegister, Answer, api, history
    <3> QED
      BY <1>1, <3>1, SMTT(30)
  <2> QED
    BY <1>3, <1>4, <1>9, <2>1 DEF Handle, Registers
<1>10. ASSUME NEW n \in Nodes, NodeStep(n) PROVE ForceDelete(n) \/ AddsNone
  <2>1. CASE BeginUpdate(n) \/ BeginUninstall(n) \/ FindOverdue(n)
    <3>1. UNCHANGED <<rows, from, removed, overtaken>>
      BY <2>1 DEF BeginUpdate, BeginUninstall, Edit, FindOverdue, api, history
    <3> QED
      BY <1>1, <3>1
  <2> QED
    BY <1>5, <1>10, <2>1 DEF NodeStep, ListOverdue
<1> QED
  BY <1>1, <1>6, <1>7, <1>8, <1>9, <1>10
  DEF Next, TokenStep, CreateInstallToken, DropInstallToken, vars, history

\* A registration that takes its token creates a node that was never there.
LEMMA Unborn ==
  ASSUME Typed, RemovalInv, NEW s \in Slots, Registers(s)
  PROVE  \E n \in Nodes, t \in Tokens :
           /\ n = Cardinality({o \in Nodes : from[o] # None}) + 1
           /\ ~Born(n) /\ rows[n] = None /\ removed[n] = "no"
           /\ \A o \in Nodes : Born(o) <=> o <= n - 1
           /\ from' = [from EXCEPT ![n] = t]
           /\ rows' = [rows EXCEPT ![n] = NewRow(jobs[s].final)]
           /\ UNCHANGED history
<1>1. PICK n \in Nodes, t \in Tokens :
        /\ n = Cardinality({o \in Nodes : from[o] # None}) + 1
        /\ from' = [from EXCEPT ![n] = t]
        /\ rows' = [rows EXCEPT ![n] = NewRow(jobs[s].final)]
        /\ UNCHANGED history
  BY Taking DEF Registers
<1>2. PICK k \in 0..MaxNodes : \A o \in Nodes : Born(o) <=> o <= k
  BY DEF RemovalInv, InOrder
<1>3. {o \in Nodes : from[o] # None} = 1..k
  BY <1>2, Constants DEF Born, Nodes
<1>4. Cardinality(1..k) = k
  <2>1. k \in Int /\ 1 \in Int /\ k >= 0
    BY <1>2, Constants
  <2> QED
    BY <2>1, FS_Interval
<1>5. n = k + 1 /\ k = n - 1
  <2>1. n = k + 1
    BY <1>1, <1>3, <1>4
  <2> QED
    BY <2>1, <1>2, Constants
<1>6. ~Born(n)
  BY <1>2, <1>5, Constants DEF Nodes
<1>7. rows[n] = None /\ removed[n] = "no"
  BY <1>6 DEF RemovalInv, KnownNodes
<1> QED
  BY <1>1, <1>2, <1>5, <1>6, <1>7

\* A node that was registered stays registered, and the order is kept.
LEMMA BornStep ==
  ASSUME Typed, RemovalInv, [Next]_vars
  PROVE  InOrder' /\ \A n \in Nodes : Born(n) => Born(n)'
<1>1. CASE UNCHANGED from
  BY <1>1 DEF RemovalInv, InOrder, Born
<1>2. ASSUME NEW s \in Slots, Registers(s)
      PROVE  InOrder' /\ \A n \in Nodes : Born(n) => Born(n)'
  <2>1. PICK n \in Nodes, t \in Tokens :
          /\ \A o \in Nodes : Born(o) <=> o <= n - 1
          /\ from' = [from EXCEPT ![n] = t]
    BY <1>2, Unborn
  <2>2. \A o \in Nodes : Born(o)' <=> (o = n \/ Born(o))
    BY <2>1, Constants DEF Born, Typed, NodesTyped
  <2>3. \A o \in Nodes : Born(o)' <=> o <= n
    BY <2>1, <2>2, Constants DEF Nodes
  <2>4. n \in 0..MaxNodes
    BY Constants DEF Nodes
  <2> QED
    BY <2>2, <2>3, <2>4 DEF InOrder
<1> QED
  BY <1>1, <1>2, RowSteps DEF Removes, Saves, AddsNone

LEMMA KnownStep ==
  ASSUME Typed, RemovalInv, [Next]_vars
  PROVE  KnownNodes'
<1> USE DEF RemovalInv, KnownNodes
<1>1. ASSUME NEW s \in Slots, Busy(s)', jobs'[s].kind # "register"
      PROVE  from'[jobs'[s].node] # None
  <2>1. jobs'[s].node \in Nodes /\ Born(jobs'[s].node)
    <3>1. CASE Busy(s) /\ jobs[s].kind # "register" /\ jobs'[s].node = jobs[s].node
      <4>1. jobs[s].node \in Nodes
        BY <3>1 DEF Typed, JobsTyped, Aims
      <4> QED
        BY <3>1, <4>1
    <3>2. CASE jobs'[s].node \in Nodes /\ rows[jobs'[s].node] # None
      BY <3>2
    <3> QED
      BY <1>1, <3>1, <3>2, NewJobs
  <2> QED
    BY <2>1, BornStep DEF Born
<1>2. ASSUME NEW n \in Nodes, rows'[n] # None \/ removed'[n] # "no" PROVE Born(n)'
  <2>1. ASSUME NEW o \in Nodes, Removes(o) PROVE Born(n)
    <3>1. Born(o)
      BY <2>1 DEF Removes
    <3>2. n # o => rows'[n] = rows[n] /\ removed'[n] = removed[n]
      BY <2>1 DEF Removes, Remove, Typed, NodesTyped, HistoryTyped
    <3> QED
      BY <1>2, <3>1, <3>2
  <2>2. ASSUME NEW s \in Slots, Registers(s) PROVE Born(n)'
    <3>1. PICK o \in Nodes, t \in Tokens :
            /\ from' = [from EXCEPT ![o] = t]
            /\ rows' = [rows EXCEPT ![o] = NewRow(jobs[s].final)]
            /\ UNCHANGED history
      BY <2>2, Unborn
    <3>2. n # o => Born(n)
      BY <1>2, <3>1 DEF history, Typed, NodesTyped
    <3>3. Born(o)'
      BY <3>1, Constants DEF Born, Typed, NodesTyped
    <3> QED
      BY <3>2, <3>3, BornStep
  <2>3. ASSUME NEW s \in Slots, NEW o \in Nodes, Saves(s, o) PROVE Born(n)
    <3>1. Born(o)
      BY <2>3 DEF Saves, WillSave, Saving
    <3> QED
      BY <1>2, <2>3, <3>1 DEF Saves, Typed, NodesTyped
  <2>4. ASSUME AddsNone PROVE Born(n)
    BY <1>2, <2>4 DEF AddsNone
  <2>5. Born(n) \/ Born(n)'
    BY <2>1, <2>2, <2>3, <2>4, RowSteps
  <2> QED
    BY <2>5, BornStep
<1> QED
  BY <1>1, <1>2 DEF Born

LEMMA StaysAwayStep ==
  ASSUME Typed, RemovalInv, [Next]_vars
  PROVE  StaysAway'
<1> SUFFICES ASSUME NEW n \in Nodes, removed'[n] # "no", n \notin overtaken'
             PROVE  rows'[n] = None /\ \A s \in Slots : ~WillSave(s, n)'
  BY DEF StaysAway
<1> DEFINE Away == rows[n] = None /\ \A s \in Slots : ~WillSave(s, n)
           Gone == rows'[n] = None /\ \A s \in Slots : ~WillSave(s, n)
<1>1. ASSUME \A s \in Slots : ~WillSave(s, n), rows'[n] = None
      PROVE  \A s \in Slots : ~WillSave(s, n)'
  <2> SUFFICES ASSUME NEW s \in Slots, WillSave(s, n)' PROVE FALSE
    OBVIOUS
  <2>1. Busy(s)' /\ jobs'[s].kind # "register" /\ jobs'[s].kind \in Saving /\ jobs'[s].node = n
    BY DEF WillSave, Saving
  <2> QED
    BY <1>1, <2>1, NewJobs DEF WillSave, api
<1>2. removed[n] # "no" /\ n \notin overtaken => Away
  BY DEF RemovalInv, StaysAway
<1>3. ASSUME NEW o \in Nodes, Removes(o) PROVE Gone
  <2>1. CASE o = n
    <3>1. rows'[n] = None
      BY <1>3, <2>1 DEF Removes, Remove, Typed, NodesTyped
    <3>2. ~\E s \in Slots, k \in Saving : Holds(s, k, n)
      BY <1>3, <2>1 DEF Removes, Remove
    <3> QED
      BY <3>1, <3>2 DEF Holds, WillSave
  <2>2. CASE o # n
    <3>1. removed'[n] = removed[n] /\ rows'[n] = rows[n] /\ n \notin overtaken
      BY <1>3, <2>2 DEF Removes, Remove, Typed, NodesTyped, HistoryTyped
    <3> QED
      BY <1>2, <3>1
  <2> QED
    BY <2>1, <2>2
<1>4. ASSUME NEW s \in Slots, Registers(s) PROVE Gone
  <2>1. PICK o \in Nodes :
          /\ removed[o] = "no" /\ rows' = [rows EXCEPT ![o] = NewRow(jobs[s].final)]
          /\ UNCHANGED history
    BY <1>4, Unborn
  <2> QED
    BY <1>2, <2>1 DEF history, Typed, NodesTyped
<1>5. ASSUME NEW s \in Slots, NEW o \in Nodes, Saves(s, o) PROVE Gone
  <2>1. Away
    BY <1>2, <1>5 DEF Saves
  <2>2. o # n
    BY <1>5, <2>1 DEF Saves
  <2> QED
    BY <1>5, <2>1, <2>2 DEF Saves, Typed, NodesTyped
<1>6. ASSUME AddsNone PROVE Gone
  BY <1>2, <1>6 DEF AddsNone
<1>7. Gone
  BY <1>3, <1>4, <1>5, <1>6, RowSteps
<1> QED
  BY <1>1, <1>7

LEMMA RemovalInit == Init => RemovalInv
<1> SUFFICES ASSUME Init PROVE RemovalInv
  OBVIOUS
<1>1. 0 \in 0..MaxNodes /\ \A n \in Nodes : Born(n) <=> n <= 0
  BY Constants DEF Init, Born, Nodes
<1>2. KnownNodes /\ StaysAway
  BY DEF Init, KnownNodes, StaysAway, Busy
<1> QED
  BY <1>1, <1>2 DEF RemovalInv, InOrder

LEMMA RemovalCorrect == Spec => []RemovalInv
<1>1. Typed /\ RemovalInv /\ [Next]_vars => RemovalInv'
  BY BornStep, KnownStep, StaysAwayStep DEF RemovalInv
<1> QED
  BY <1>1, RemovalInit, TypedCorrect, PTL DEF Spec

(***************************************************************************)
(* The row of a removed node does not come back: no heartbeat, receipt,    *)
(* list of nodes or registration creates it again, unless a handler held   *)
(* it to save it when it was removed.                                      *)
(***************************************************************************)
THEOREM RemovedForGood == Spec => []RemovedStaysRemoved
<1>1. RemovalInv => RemovedStaysRemoved
  BY DEF RemovalInv, StaysAway, RemovedStaysRemoved
<1> QED
  BY <1>1, RemovalCorrect, PTL

-----------------------------------------------------------------------------
(***************************************************************************)
(* Machines.  A machine waits for a job of its own that fits what it does; *)
(* a machine has no credentials before it is registered, nobody else has   *)
(* them, and it acknowledges a command only with a marker.                 *)
(***************************************************************************)
Beat == {"touch", "refresh", "answer"}
Suits(mach) ==
  /\ Busy(mach.wait)
  /\ LET job == jobs[mach.wait] IN
     \/ mach.proc = "new" /\ job.kind = "register"
     \/ mach.proc = "up" /\ job.kind \in Beat /\ job.node = mach.creds
     \/ mach.proc = "acking" /\ job.kind \in {"accepted", "failed"} /\ job.node = mach.creds
Waiting ==
  /\ \A m \in Machines : machine[m].wait # None => Suits(machine[m])
  /\ \A m, o \in Machines : m # o /\ machine[m].wait # None => machine[m].wait # machine[o].wait
Stages ==
  \A m \in Machines :
    /\ machine[m].proc \in {"none", "new"} => machine[m].creds = None /\ machine[m].marker = 0
    /\ machine[m].proc = "acking" => machine[m].marker # 0
Owners ==
  /\ \A m \in Machines : machine[m].creds # None => Born(machine[m].creds)
  /\ \A m, o \in Machines :
       machine[m].creds # None /\ machine[m].creds = machine[o].creds => m = o
MachineInv == Waiting /\ Stages /\ Owners

(* What a step does to a machine: nothing, it starts over, it calls, its   *)
(* call ends and it may go on to another stage, it gets a command or a     *)
(* node.                                                                   *)
StartsOver(m) ==
  /\ machine'[m].proc \in {"none", "new"}
  /\ machine'[m].creds = None /\ machine'[m].marker = 0 /\ machine'[m].wait = None
Calls(m) ==
  /\ machine[m].wait = None /\ Free \in Slots /\ ~Busy(Free)
  /\ machine'[m] = [machine[m] EXCEPT !.wait = Free]
  /\ Suits(machine[m])' /\ \A o \in Machines \ {m} : machine'[o] = machine[o]
GoesOn(m) ==
  /\ machine'[m].wait = None
  /\ machine'[m].creds = machine[m].creds /\ machine'[m].marker = machine[m].marker
  /\ machine'[m].proc # "acking"
  /\ machine[m].proc \in {"none", "new", "wiping"} => machine'[m].proc = machine[m].proc
  /\ machine[m].proc \notin {"none", "new"} => machine'[m].proc \notin {"none", "new"}
GetsCommand(m) ==
  /\ machine[m].proc = "up" /\ machine'[m].proc = "acking" /\ machine'[m].wait = None
  /\ machine'[m].creds = machine[m].creds
  /\ machine[m].creds \in Nodes /\ rows[machine[m].creds] # None
  /\ machine'[m].marker = UninstallCommand(rows[machine[m].creds]) /\ machine'[m].marker # 0
GetsNode(m) ==
  /\ machine[m].proc = "new" /\ machine'[m].proc = "up" /\ machine'[m].wait = None
  /\ machine'[m].marker = machine[m].marker
  /\ machine[m].wait \in Slots /\ Registers(machine[m].wait)
  /\ machine'[m].creds = Cardinality({n \in Nodes : from[n] # None}) + 1

LEMMA NextMachine ==
  ASSUME Typed, NEW m \in Machines
  PROVE  /\ machine[m] \in Machine
         /\ \A wait \in Slots \cup {None} : LET new == [machine[m] EXCEPT !.wait = wait] IN
              /\ new.wait = wait /\ new.proc = machine[m].proc
              /\ new.creds = machine[m].creds /\ new.marker = machine[m].marker
         /\ \A proc, wait : LET new == [machine[m] EXCEPT !.wait = wait, !.proc = proc] IN
              /\ new.wait = wait /\ new.proc = proc
              /\ new.creds = machine[m].creds /\ new.marker = machine[m].marker
         /\ \A cmd : LET new == [machine[m] EXCEPT !.wait = None, !.marker = cmd, !.proc = "acking"] IN
              /\ new.wait = None /\ new.proc = "acking"
              /\ new.creds = machine[m].creds /\ new.marker = cmd
         /\ \A n : LET new == [machine[m] EXCEPT !.wait = None, !.creds = n, !.proc = "up"] IN
              /\ new.wait = None /\ new.proc = "up"
              /\ new.creds = n /\ new.marker = machine[m].marker
<1>1. machine[m] \in Machine
  BY DEF Typed, MachinesTyped
<1> QED
  BY <1>1 DEF Machine

\* The agents' own steps.
LEMMA AgentMachine ==
  ASSUME Typed, MachineInv, NEW m \in Machines, AgentStep(m)
  PROVE  /\ StartsOver(m) \/ Calls(m) \/ GoesOn(m)
         /\ \A o \in Machines \ {m} : machine'[o] = machine[o]
<1> USE DEF MachineInv
<1>1. \A o \in Machines \ {m} : machine'[o] = machine[o]
  BY DEF AgentStep, Install, Register, Heartbeat, SendReceipt, SendDone, Wipe, GiveUp, Stop,
     Call, Typed, MachinesTyped
<1> SUFFICES StartsOver(m) \/ Calls(m) \/ GoesOn(m)
  BY <1>1
<1>2. ASSUME NEW kind,
             \E to \in Tokens \cup {None}, final \in BOOLEAN :
               Open(kind, machine[m].creds, to, final),
             machine' = [machine EXCEPT ![m].wait = Free], machine[m].wait = None,
             \/ machine[m].proc = "new" /\ kind = "register"
             \/ machine[m].proc = "up" /\ kind \in Beat /\ Auth(m)
             \/ machine[m].proc = "acking" /\ kind \in {"accepted", "failed"} /\ Auth(m)
      PROVE  Calls(m)
  <2>0. PICK to \in Tokens \cup {None}, final \in BOOLEAN :
          Open(kind, machine[m].creds, to, final)
    BY <1>2
  <2> DEFINE job == [kind |-> kind, node |-> machine[m].creds, to |-> to, final |-> final,
                     row |-> IF kind \in Saving THEN rows[machine[m].creds] ELSE None]
             new == [machine[m] EXCEPT !.wait = Free]
  <2>1. Free \in Slots /\ ~Busy(Free)
    BY <2>0 DEF Open, Free
  <2>2. jobs'[Free] = job
    BY <2>0, <2>1 DEF Open, Typed, JobsTyped
  <2>3. machine'[m] = new
    BY <1>2 DEF Typed, MachinesTyped
  <2>4. /\ new.wait = Free /\ new.proc = machine[m].proc /\ new.creds = machine[m].creds
    BY <2>1, NextMachine
  <2>5. machine[m].creds \in Nodes \cup {None}
    BY NextMachine DEF Machine
  <2>6. kind \in Saving => rows[machine[m].creds] \in Row
    BY <1>2, <2>5 DEF Auth, Saving, Beat, Typed, NodesTyped
  <2>7. kind \in {"register", "touch", "refresh", "answer", "done"} \cup Saving
    BY <1>2 DEF Beat, Saving
  <2>8. job \in Job
    BY <1>2, <2>5, <2>6, <2>7 DEF Job
  <2>9. jobs'[Free] # None
    BY <2>2, <2>8, Constants
  <2>10. job.kind = kind /\ job.node = machine[m].creds
    OBVIOUS
  <2> HIDE DEF new, job
  <2>11. Suits(machine[m])'
    BY <1>2, <2>2, <2>3, <2>4, <2>9, <2>10 DEF Suits, Busy
  <2> QED
    BY <1>1, <1>2, <2>1, <2>3, <2>11 DEF Calls, new
<1>3. CASE Register(m)
  <2>1. machine[m].env \in Tokens /\ machine[m].final \in BOOLEAN /\ machine[m].creds = None
    BY <1>3 DEF Register, Typed, MachinesTyped, Machine, Installed, Stages
  <2>2. Open("register", None, machine[m].env, machine[m].final)
    BY <1>3 DEF Register
  <2>3. \E to \in Tokens \cup {None}, final \in BOOLEAN :
          Open("register", machine[m].creds, to, final)
    BY <2>1, <2>2
  <2> QED
    BY <1>2, <1>3, <2>3 DEF Register
<1>10. ASSUME NEW kind, Call(m, kind)
       PROVE  \E to \in Tokens \cup {None}, final \in BOOLEAN :
                Open(kind, machine[m].creds, to, final)
  BY <1>10, Zenon DEF Call
<1>11. CASE Heartbeat(m)
  <2>1. Call(m, "touch") /\ machine[m].proc = "up" /\ machine[m].wait = None /\ Auth(m)
    BY <1>11 DEF Heartbeat
  <2>2. machine' = [machine EXCEPT ![m].wait = Free]
    BY <2>1 DEF Call
  <2> QED
    BY <1>2, <1>10, <2>1, <2>2 DEF Beat
<1>12. CASE SendReceipt(m) /\ KnownCommand(m)
  <2>1. PICK kind \in {"accepted", "failed"} : Call(m, kind)
    BY <1>12 DEF SendReceipt
  <2>2. machine[m].proc = "acking" /\ machine[m].wait = None /\ Auth(m)
    BY <1>12 DEF SendReceipt, KnownCommand
  <2>3. machine' = [machine EXCEPT ![m].wait = Free]
    BY <2>1 DEF Call
  <2> QED
    BY <1>2, <1>10, <2>1, <2>2, <2>3
<1>4. CASE Wipe(m) \/ \E t \in Tokens : Install(m, t)
  <2>1. /\ CleanMachine \in Machine /\ CleanMachine.proc = "none" /\ CleanMachine.creds = None
        /\ CleanMachine.marker = 0 /\ CleanMachine.wait = None
    BY Constants DEF CleanMachine, Machine
  <2>2. CASE Wipe(m)
    <3>1. machine'[m] = CleanMachine
      BY <2>2 DEF Wipe, Typed, MachinesTyped
    <3> QED
      BY <2>1, <3>1 DEF StartsOver
  <2>3. ASSUME NEW t \in Tokens, Install(m, t) PROVE StartsOver(m)
    <3>1. PICK final \in BOOLEAN :
            machine'[m] = [CleanMachine EXCEPT !.proc = "new", !.env = t, !.final = final]
      BY <2>3 DEF Install, Typed, MachinesTyped
    <3> DEFINE new == [CleanMachine EXCEPT !.proc = "new", !.env = t, !.final = final]
    <3>2. /\ new.proc = "new" /\ new.creds = CleanMachine.creds
          /\ new.marker = CleanMachine.marker /\ new.wait = CleanMachine.wait
      BY <2>1 DEF Machine
    <3> HIDE DEF new
    <3> QED
      BY <2>1, <3>1, <3>2 DEF StartsOver, new
  <2> QED
    BY <1>4, <2>2, <2>3
<1>5. ASSUME NEW proc \in {"none", "new", "up", "acking", "cleaning", "wiping"},
             machine'[m] = [machine[m] EXCEPT !.wait = None, !.proc = proc]
      PROVE  /\ machine'[m].wait = None /\ machine'[m].proc = proc
             /\ machine'[m].creds = machine[m].creds /\ machine'[m].marker = machine[m].marker
  BY <1>5, NextMachine
<1>6. CASE (SendReceipt(m) /\ ~KnownCommand(m)) \/ SendDone(m)
  <2>1. machine[m].wait = None
    BY <1>6 DEF SendReceipt, SendDone, Waiting, Suits
  <2>2. PICK proc \in {"up", "wiping"} :
          /\ machine' = [machine EXCEPT ![m].proc = proc]
          /\ machine[m].proc \in {"acking", "cleaning"}
    BY <1>6 DEF SendReceipt, SendDone
  <2>3. machine'[m] = [machine[m] EXCEPT !.wait = None, !.proc = proc]
    BY <2>1, <2>2 DEF Typed, MachinesTyped, Machine
  <2> QED
    BY <1>5, <2>2, <2>3 DEF GoesOn
<1>8. CASE GiveUp(m)
  <2> DEFINE proc == IF machine[m].proc = "acking" THEN "up" ELSE machine[m].proc
  <2>1. machine'[m] = [machine[m] EXCEPT !.wait = None, !.proc = proc]
    BY <1>8 DEF GiveUp, Typed, MachinesTyped, Machine
  <2>2. machine[m].proc \in {"new", "up", "acking"}
    BY <1>8 DEF GiveUp, Waiting, Suits
  <2>3. proc \in {"new", "up"} /\ (machine[m].proc = "new" <=> proc = "new")
    BY <2>2
  <2> HIDE DEF proc
  <2> QED
    BY <1>5, <2>1, <2>2, <2>3 DEF GoesOn
<1>9. CASE Stop(m)
  <2>1. PICK proc \in {"up", "cleaning"} :
          machine'[m] = [machine[m] EXCEPT !.wait = None, !.proc = proc]
    <3> DEFINE proc == IF machine[m].marker # 0 THEN "cleaning" ELSE "up"
    <3>1. machine'[m] = [machine[m] EXCEPT !.wait = None, !.proc = proc]
      BY <1>9 DEF Stop, Typed, MachinesTyped, Machine
    <3> QED
      BY <3>1
  <2>2. machine[m].proc \in {"up", "acking"}
    BY <1>9 DEF Stop
  <2> QED
    BY <1>5, <2>1, <2>2 DEF GoesOn
<1> QED
  BY <1>3, <1>4, <1>6, <1>8, <1>9, <1>11, <1>12 DEF AgentStep

\* The end of a call.
LEMMA HandlerMachine ==
  ASSUME Typed, MachineInv, NEW s \in Slots, Handle(s), NEW m \in Machines
  PROVE  /\ machine'[m] = machine[m] \/ GoesOn(m) \/ GetsCommand(m) \/ GetsNode(m)
         /\ machine[m].wait = s /\ (CommitRegister(s) \/ Answer(s) \/ SaveReceipt(s)) =>
              machine'[m].wait = None
<1> USE DEF MachineInv
<1>1. machine[m].wait = s =>
        \/ machine[m].proc = "new" /\ jobs[s].kind = "register"
        \/ machine[m].proc = "up" /\ jobs[s].kind \in Beat /\ jobs[s].node = machine[m].creds
        \/ /\ machine[m].proc = "acking" /\ jobs[s].kind \in {"accepted", "failed"}
           /\ jobs[s].node = machine[m].creds
  BY Constants DEF Waiting, Suits
<1>2. ASSUME NEW proc \in {"none", "new", "up", "acking", "cleaning", "wiping"},
             machine'[m] = [machine[m] EXCEPT !.wait = None, !.proc = proc],
             proc # "acking",
             machine[m].proc \in {"none", "new", "wiping"} => proc = machine[m].proc,
             machine[m].proc \notin {"none", "new"} => proc \notin {"none", "new"}
      PROVE  GoesOn(m) /\ machine'[m].wait = None
  BY <1>2, NextMachine DEF GoesOn
<1>3. ASSUME NEW proc \in {"new", "up", "cleaning"}, Answered(s, proc),
             machine[m].wait = s => machine[m].proc # "none" /\ machine[m].proc # "wiping"
                                    /\ (machine[m].proc = "new" <=> proc = "new")
      PROVE  /\ machine'[m] = machine[m] \/ GoesOn(m)
             /\ machine[m].wait = s => machine'[m].wait = None
  <2>1. machine'[m] = IF machine[m].wait = s
                      THEN [machine[m] EXCEPT !.wait = None, !.proc = proc] ELSE machine[m]
    BY <1>3 DEF Answered
  <2> QED
    BY <1>2, <1>3, <2>1
<1>4. CASE CommitRegister(s) /\ ~TakesToken(jobs[s].to)
  <2>1. Answered(s, "new") /\ jobs[s].kind = "register"
    BY <1>4 DEF CommitRegister
  <2>2. machine[m].wait = s => machine[m].proc = "new"
    BY <1>1, <2>1 DEF Beat
  <2> QED
    BY <1>3, <2>1, <2>2
<1>5. CASE CommitRegister(s) /\ TakesToken(jobs[s].to)
  <2> DEFINE n == Cardinality({o \in Nodes : from[o] # None}) + 1
             new == [machine[m] EXCEPT !.wait = None, !.creds = n, !.proc = "up"]
  <2>1. machine'[m] = IF machine[m].wait # s THEN machine[m] ELSE new
    BY <1>5 DEF CommitRegister
  <2>2. /\ new.wait = None /\ new.proc = "up" /\ new.creds = n /\ new.marker = machine[m].marker
    BY NextMachine
  <2>3. machine[m].wait = s => machine[m].proc = "new"
    BY <1>1, <1>5 DEF CommitRegister, Beat
  <2> HIDE DEF new
  <2> QED
    BY <1>5, <2>1, <2>2, <2>3 DEF GetsNode, Registers
<1>6. CASE Answer(s)
  <2> DEFINE n == jobs[s].node
             cmd == IF rows[n] = None THEN 0 ELSE UninstallCommand(rows[n])
             idle == [machine[m] EXCEPT !.wait = None]
             told == [machine[m] EXCEPT !.wait = None, !.marker = cmd, !.proc = "acking"]
  <2>1. machine'[m] = IF machine[m].wait # s THEN machine[m]
                      ELSE IF cmd = 0 THEN idle ELSE told
    BY <1>6 DEF Answer
  <2>2. /\ idle.wait = None /\ idle.proc = machine[m].proc
        /\ idle.creds = machine[m].creds /\ idle.marker = machine[m].marker
    BY NextMachine
  <2>3. /\ told.wait = None /\ told.proc = "acking"
        /\ told.creds = machine[m].creds /\ told.marker = cmd
    BY NextMachine
  <2>4. machine[m].wait = s => machine[m].proc = "up" /\ machine[m].creds = n
    BY <1>1, <1>6 DEF Answer
  <2>5. n \in Nodes
    BY <1>6 DEF Answer, Typed, JobsTyped, Aims
  <2> HIDE DEF idle, told
  <2>6. CASE machine[m].wait # s
    BY <2>1, <2>6
  <2>7. CASE machine[m].wait = s /\ cmd = 0
    BY <2>1, <2>2, <2>4, <2>7 DEF GoesOn
  <2>8. CASE machine[m].wait = s /\ cmd # 0
    BY <2>1, <2>3, <2>4, <2>5, <2>8 DEF GetsCommand
  <2> QED
    BY <2>6, <2>7, <2>8
<1>7. CASE SaveReceipt(s)
  <2>1. PICK proc \in {"up", "cleaning"} : Answered(s, proc)
    BY <1>7 DEF SaveReceipt
  <2>2. machine[m].wait = s => machine[m].proc = "acking"
    BY <1>1, <1>7 DEF SaveReceipt, Beat
  <2> QED
    BY <1>3, <2>1, <2>2
<1>8. CASE Touch(s) \/ Refresh(s) \/ DeleteDone(s) \/ SaveUpdate(s) \/ SaveUninstall(s)
  <2>1. machine' = machine /\ ~CommitRegister(s) /\ ~Answer(s) /\ ~SaveReceipt(s)
    BY <1>8 DEF Touch, Refresh, DeleteDone, SaveUpdate, SaveUninstall, CommitRegister, Answer, SaveReceipt
  <2> QED
    BY <2>1, SMTT(30)
<1> QED
  BY <1>4, <1>5, <1>6, <1>7, <1>8 DEF Handle

LEMMA MachineSteps ==
  ASSUME Typed, MachineInv, [Next]_vars, NEW m \in Machines
  PROVE  \/ machine'[m] = machine[m]
         \/ StartsOver(m) \/ Calls(m) \/ GoesOn(m) \/ GetsCommand(m) \/ GetsNode(m)
<1>1. ASSUME NEW n \in Nodes, NodeStep(n) PROVE UNCHANGED machine
  BY <1>1 DEF NodeStep, BeginUpdate, BeginUninstall, Edit, ForceDelete, MarkOffline,
     ListOverdue, FindOverdue, MarkOverdue, BecomesOverdue
<1>2. ASSUME NEW t \in Tokens, TokenStep(t) PROVE UNCHANGED machine
  BY <1>2 DEF TokenStep, CreateInstallToken, DropInstallToken
<1>3. CASE \E o \in Machines : AgentStep(o)
  BY <1>3, AgentMachine
<1>4. CASE \E s \in Slots : Handle(s)
  BY <1>4, HandlerMachine
<1> QED
  BY <1>1, <1>2, <1>3, <1>4 DEF Next, vars

\* A job that somebody waits for stays until it answers.
LEMMA JobStays ==
  ASSUME Typed, MachineInv, [Next]_vars, NEW s \in Slots, Busy(s)
  PROVE  \/ /\ jobs'[s] # None /\ jobs'[s].node = jobs[s].node
            /\ jobs'[s].kind = jobs[s].kind \/ {jobs[s].kind, jobs'[s].kind} \subseteq Beat
         \/ jobs[s].kind \in {"done", "update", "request"}
         \/ \A m \in Machines : machine[m].wait = s => machine'[m].wait = None
<1> DEFINE Stays == /\ jobs'[s] # None /\ jobs'[s].node = jobs[s].node
                    /\ jobs'[s].kind = jobs[s].kind \/ {jobs[s].kind, jobs'[s].kind} \subseteq Beat
<1>1. ASSUME jobs'[s] = jobs[s] PROVE Stays
  BY <1>1 DEF Busy
<1>2. ASSUME NEW kind, NEW n, NEW to, NEW final, Open(kind, n, to, final) PROVE Stays
  <2>1. Free \in Slots /\ ~Busy(Free)
    BY <1>2 DEF Open, Free
  <2>2. jobs'[s] = jobs[s]
    BY <1>2, <2>1 DEF Open, Typed, JobsTyped
  <2> QED
    BY <1>1, <2>2
<1>3. ASSUME NEW r \in Slots \ {s}, Close(r) PROVE Stays
  BY <1>1, <1>3, SMTT(30) DEF Close, Typed, JobsTyped
<1>4. ASSUME NEW m \in Machines, AgentStep(m) PROVE Stays
  BY <1>1, <1>2, <1>4 DEF AgentStep, Install, Register, Heartbeat, SendReceipt, SendDone, Wipe,
     GiveUp, Stop, Call
<1>5. ASSUME NEW r \in Slots \ {s}, Handle(r) PROVE Stays
  <2>1. CASE Close(r)
    BY <1>3, <2>1
  <2>2. CASE Touch(r) \/ Refresh(r)
    BY <1>1, <2>2 DEF Touch, Refresh, Typed, JobsTyped
  <2> QED
    BY <1>5, <2>1, <2>2
    DEF Handle, CommitRegister, Answer, SaveReceipt, DeleteDone, SaveUpdate, SaveUninstall
<1>6. CASE Handle(s)
  <2>1. CASE Touch(s) \/ Refresh(s)
    <3>1. jobs[s] \in Job /\ jobs[s].kind \in Beat
      BY <2>1 DEF Touch, Refresh, Busy, Typed, JobsTyped, Beat
    <3>2. PICK kind \in Beat : jobs'[s] = [jobs[s] EXCEPT !.kind = kind]
      BY <2>1 DEF Touch, Refresh, Typed, JobsTyped, Beat
    <3>3. /\ [jobs[s] EXCEPT !.kind = kind] \in Job
          /\ [jobs[s] EXCEPT !.kind = kind].node = jobs[s].node
          /\ [jobs[s] EXCEPT !.kind = kind].kind = kind
      BY <3>1 DEF Job, Beat
    <3> QED
      BY <3>1, <3>2, <3>3, Constants
  <2>2. CASE DeleteDone(s) \/ SaveUpdate(s) \/ SaveUninstall(s)
    BY <2>2 DEF DeleteDone, SaveUpdate, SaveUninstall
  <2>3. CASE CommitRegister(s) \/ Answer(s) \/ SaveReceipt(s)
    BY <1>6, <2>3, HandlerMachine
  <2> QED
    BY <1>6, <2>1, <2>2, <2>3 DEF Handle
<1>7. ASSUME NEW n \in Nodes, NodeStep(n) PROVE Stays
  <2>1. CASE BecomesOverdue(n)
    <3>1. jobs'[s] = jobs[s] \/ jobs'[s] = [jobs[s] EXCEPT !.row = Older(@)]
      BY <2>1 DEF BecomesOverdue
    <3>2. jobs[s] \in Job
      BY DEF Busy, Typed, JobsTyped
    <3>3. Older(jobs[s].row) \in Row \cup {None}
      BY <3>2, OlderType DEF Job
    <3>4. /\ [jobs[s] EXCEPT !.row = Older(@)] \in Job
          /\ [jobs[s] EXCEPT !.row = Older(@)].node = jobs[s].node
          /\ [jobs[s] EXCEPT !.row = Older(@)].kind = jobs[s].kind
      BY <3>2, <3>3 DEF Job
    <3> QED
      BY <1>1, <3>1, <3>4, Constants
  <2>2. CASE BeginUpdate(n) \/ BeginUninstall(n)
    BY <1>2, <2>2 DEF BeginUpdate, BeginUninstall, Edit
  <2> QED
    BY <1>1, <1>7, <2>1, <2>2
    DEF NodeStep, ForceDelete, MarkOffline, ListOverdue, FindOverdue, MarkOverdue
<1>8. ASSUME NEW t \in Tokens, TokenStep(t) PROVE Stays
  BY <1>1, <1>8 DEF TokenStep, CreateInstallToken, DropInstallToken
<1> QED
  BY <1>1, <1>4, <1>5, <1>6, <1>7, <1>8 DEF Next, vars

LEMMA WaitingStep ==
  ASSUME Typed, MachineInv, [Next]_vars
  PROVE  Waiting'
<1> USE DEF MachineInv
<1>1. ASSUME NEW m \in Machines PROVE Calls(m) \/ machine'[m] = machine[m] \/ machine'[m].wait = None
  BY <1>1, MachineSteps DEF StartsOver, GoesOn, GetsCommand, GetsNode
<1>2. ASSUME NEW m \in Machines, Calls(m)
      PROVE  machine'[m].wait = Free /\ ~Busy(Free) /\ Suits(machine[m])'
  BY <1>2, NextMachine DEF Calls
<1>3. ASSUME NEW m \in Machines, machine[m].wait # None
      PROVE  machine[m].wait \in Slots /\ Busy(machine[m].wait)
  BY <1>3, NextMachine DEF Machine, Waiting, Suits
<1>4. ASSUME NEW m \in Machines, machine'[m] = machine[m], machine'[m].wait # None
      PROVE  Suits(machine[m])'
  <2> DEFINE s == machine[m].wait
  <2>1. /\ s \in Slots /\ Busy(s)
        /\ \/ machine[m].proc = "new" /\ jobs[s].kind = "register"
           \/ machine[m].proc = "up" /\ jobs[s].kind \in Beat /\ jobs[s].node = machine[m].creds
           \/ /\ machine[m].proc = "acking" /\ jobs[s].kind \in {"accepted", "failed"}
              /\ jobs[s].node = machine[m].creds
    BY <1>3, <1>4 DEF Waiting, Suits
  <2> HIDE DEF s
  <2>2. /\ jobs'[s] # None /\ jobs'[s].node = jobs[s].node
        /\ jobs'[s].kind = jobs[s].kind \/ {jobs[s].kind, jobs'[s].kind} \subseteq Beat
    BY <1>4, <2>1, JobStays DEF Beat, s
  <2>3. /\ jobs'[s] # None
        /\ \/ machine'[m].proc = "new" /\ jobs'[s].kind = "register"
           \/ machine'[m].proc = "up" /\ jobs'[s].kind \in Beat /\ jobs'[s].node = machine'[m].creds
           \/ /\ machine'[m].proc = "acking" /\ jobs'[s].kind \in {"accepted", "failed"}
              /\ jobs'[s].node = machine'[m].creds
    BY <1>4, <2>1, <2>2 DEF Beat
  <2>4. machine'[m].wait = s
    BY <1>4 DEF s
  <2> QED
    BY <2>3, <2>4 DEF Suits, Busy
<1>5. ASSUME NEW m \in Machines, machine'[m].wait # None PROVE Suits(machine[m])'
  BY <1>1, <1>2, <1>4, <1>5
<1>6. ASSUME NEW m \in Machines, NEW o \in Machines, m # o, machine'[m].wait # None
      PROVE  machine'[m].wait # machine'[o].wait
  <2>1. CASE Calls(m)
    <3>1. machine'[o] = machine[o]
      BY <1>6, <2>1 DEF Calls
    <3> QED
      BY <1>2, <1>3, <1>6, <2>1, <3>1
  <2>2. CASE Calls(o)
    <3>1. machine'[m] = machine[m]
      BY <1>6, <2>2 DEF Calls
    <3> QED
      BY <1>2, <1>3, <1>6, <2>2, <3>1
  <2>3. CASE ~Calls(m) /\ ~Calls(o)
    BY <1>1, <1>6, <2>3 DEF Waiting
  <2> QED
    BY <2>1, <2>2, <2>3
<1> QED
  BY <1>5, <1>6 DEF Waiting

LEMMA StagesStep ==
  ASSUME Typed, MachineInv, [Next]_vars
  PROVE  Stages'
<1> SUFFICES ASSUME NEW m \in Machines
             PROVE  /\ machine'[m].proc \in {"none", "new"} =>
                         machine'[m].creds = None /\ machine'[m].marker = 0
                    /\ machine'[m].proc = "acking" => machine'[m].marker # 0
  BY DEF Stages
<1>1. /\ machine[m].proc \in {"none", "new"} => machine[m].creds = None /\ machine[m].marker = 0
      /\ machine[m].proc = "acking" => machine[m].marker # 0
  BY DEF MachineInv, Stages
<1>2. CASE Calls(m)
  <2>1. /\ machine'[m].proc = machine[m].proc /\ machine'[m].creds = machine[m].creds
        /\ machine'[m].marker = machine[m].marker
    BY <1>2, NextMachine DEF Calls
  <2> QED
    BY <1>1, <2>1
<1> QED
  BY <1>1, <1>2, MachineSteps DEF StartsOver, GoesOn, GetsCommand, GetsNode

\* The credentials of a machine change when it gets a node, or are given up.
LEMMA CredsSteps ==
  ASSUME Typed, MachineInv, [Next]_vars, NEW m \in Machines
  PROVE  \/ machine'[m].creds = machine[m].creds \/ machine'[m].creds = None
         \/ GetsNode(m)
<1>1. Calls(m) => machine'[m].creds = machine[m].creds
  BY NextMachine DEF Calls
<1> QED
  BY <1>1, MachineSteps DEF StartsOver, GoesOn, GetsCommand

\* The node a machine gets was never there, and nobody else gets one.
LEMMA NewNode ==
  ASSUME Typed, RemovalInv, MachineInv, NEW m \in Machines, GetsNode(m)
  PROVE  /\ machine'[m].creds \in Nodes /\ ~Born(machine'[m].creds)
         /\ from'[machine'[m].creds] # None
         /\ removed[machine'[m].creds] = "no" /\ UNCHANGED history
         /\ \A o \in Machines \ {m} : ~GetsNode(o)
<1> DEFINE s == machine[m].wait
<1>1. PICK n \in Nodes, t \in Tokens :
        /\ n = Cardinality({o \in Nodes : from[o] # None}) + 1
        /\ ~Born(n) /\ removed[n] = "no"
        /\ from' = [from EXCEPT ![n] = t]
        /\ UNCHANGED history
  BY Unborn DEF GetsNode
<1>2. machine'[m].creds = n
  BY <1>1 DEF GetsNode
<1>3. from'[n] # None
  BY <1>1, Constants DEF Typed, NodesTyped
<1>4. ASSUME NEW o \in Machines \ {m}, GetsNode(o) PROVE FALSE
  <2> DEFINE r == machine[o].wait
  <2>1. /\ s \in Slots /\ Busy(s) /\ jobs' = [jobs EXCEPT ![s] = None]
        /\ r \in Slots /\ Busy(r) /\ jobs' = [jobs EXCEPT ![r] = None]
    BY <1>4 DEF GetsNode, Registers, CommitRegister, Close
  <2>2. s # r
    BY <2>1, Constants DEF MachineInv, Waiting
  <2> QED
    BY <2>1, <2>2, SMTT(30) DEF Busy, Typed, JobsTyped
<1> QED
  BY <1>1, <1>2, <1>3, <1>4

LEMMA OwnersStep ==
  ASSUME Typed, RemovalInv, MachineInv, [Next]_vars
  PROVE  Owners'
<1>1. ASSUME NEW m \in Machines, machine[m].creds # None
      PROVE  machine[m].creds \in Nodes /\ Born(machine[m].creds)
  BY <1>1, NextMachine DEF Machine, MachineInv, Owners
<1>2. ASSUME NEW m \in Machines, machine'[m].creds # None PROVE from'[machine'[m].creds] # None
  <2>1. CASE GetsNode(m)
    BY <2>1, NewNode
  <2>2. CASE machine'[m].creds = machine[m].creds
    BY <1>1, <1>2, <2>2, BornStep DEF Born
  <2> QED
    BY <1>2, <2>1, <2>2, CredsSteps
<1>3. ASSUME NEW m \in Machines, NEW o \in Machines,
             machine'[m].creds # None, machine'[m].creds = machine'[o].creds, m # o
      PROVE  FALSE
  <2>1. ASSUME NEW a \in Machines, NEW b \in Machines, a # b, GetsNode(a),
               machine'[b].creds = machine'[a].creds
        PROVE  FALSE
    <3>1. ~GetsNode(b) /\ machine'[a].creds \in Nodes /\ ~Born(machine'[a].creds)
      BY <2>1, NewNode
    <3>2. machine'[b].creds = machine[b].creds
      BY <2>1, <3>1, CredsSteps, Constants
    <3> QED
      BY <1>1, <2>1, <3>1, <3>2, Constants
  <2>2. CASE GetsNode(m) \/ GetsNode(o)
    BY <1>3, <2>1, <2>2
  <2>3. CASE ~GetsNode(m) /\ ~GetsNode(o)
    BY <1>3, <2>3, CredsSteps DEF MachineInv, Owners
  <2> QED
    BY <2>2, <2>3
<1> QED
  BY <1>2, <1>3 DEF Owners, Born

-----------------------------------------------------------------------------
(***************************************************************************)
(* Final receipts.  A node leaves once a final receipt of it is under way. *)
(***************************************************************************)
Leaves(n) ==
  removed[n] = "done" \/ \E s \in Slots : Busy(s) /\ jobs[s].kind = "done" /\ jobs[s].node = n
LeavingIsLate ==
  \A n \in Nodes : Leaves(n) =>
    \A m \in Machines : machine[m].creds = n => machine[m].proc = "wiping"

\* Only the cleanup of the node's own machine makes it leave.
LEMMA LeavesSteps ==
  ASSUME Typed, [Next]_vars, NEW n \in Nodes, Leaves(n)', ~Leaves(n)
  PROVE  \E m \in Machines : machine[m].creds = n /\ machine'[m].proc = "wiping"
<1> DEFINE Goal == \E m \in Machines : machine[m].creds = n /\ machine'[m].proc = "wiping"
<1>1. ASSUME UNCHANGED removed,
             \A s \in Slots : Busy(s)' =>
               \/ Busy(s) /\ jobs'[s].kind = jobs[s].kind /\ jobs'[s].node = jobs[s].node
               \/ jobs'[s].kind # "done"
      PROVE  FALSE
  BY <1>1 DEF Leaves
<1>2. ASSUME UNCHANGED <<removed, jobs>> PROVE FALSE
  BY <1>1, <1>2 DEF Busy
<1>3. ASSUME NEW kind, NEW o, NEW to, NEW final, Open(kind, o, to, final),
             kind # "done", UNCHANGED removed
      PROVE  FALSE
  <2>1. ASSUME NEW s \in Slots, Busy(s)' PROVE jobs'[s] = jobs[s] \/ jobs'[s].kind # "done"
    BY <1>3 DEF Open, Free, Busy, Typed, JobsTyped
  <2> QED
    BY <1>1, <1>3, <2>1 DEF Busy
<1>4. ASSUME NEW r \in Slots, Close(r), UNCHANGED removed PROVE FALSE
  <2>1. ASSUME NEW s \in Slots, Busy(s)' PROVE jobs'[s] = jobs[s]
    BY <1>4, <2>1 DEF Close, Busy, Typed, JobsTyped
  <2> QED
    BY <1>1, <1>4, <2>1 DEF Busy
<1>5. ASSUME NEW m \in Machines, SendDone(m) PROVE Goal
  <2>1. machine'[m].proc = "wiping"
    BY <1>5 DEF SendDone, Typed, MachinesTyped, Machine
  <2>2. CASE machine[m].creds = n
    BY <2>1, <2>2
  <2>3. CASE machine[m].creds # n
    <3>1. CASE UNCHANGED jobs
      BY <1>2, <1>5, <3>1 DEF SendDone, history
    <3>2. CASE Open("done", machine[m].creds, None, FALSE)
      <4>1. ASSUME NEW s \in Slots, Busy(s)'
            PROVE  jobs'[s] = jobs[s] \/ jobs'[s].node # n
        <5>1. CASE s = Free
          <6>1. jobs'[s].node = machine[m].creds
            BY <3>2, <5>1 DEF Open, Typed, JobsTyped
          <6> QED
            BY <2>3, <6>1
        <5>2. CASE s # Free
          BY <3>2, <5>2 DEF Open, Typed, JobsTyped
        <5> QED
          BY <5>1, <5>2
      <4>2. UNCHANGED removed
        BY <1>5 DEF SendDone, history
      <4> QED
        BY <4>1, <4>2 DEF Leaves, Busy
    <3> QED
      BY <1>5, <3>1, <3>2 DEF SendDone
  <2> QED
    BY <2>2, <2>3
<1>6. ASSUME NEW m \in Machines, AgentStep(m) PROVE Goal
  <2>1. CASE Register(m) \/ Heartbeat(m) \/ SendReceipt(m)
    BY <1>2, <1>3, <2>1 DEF Register, Heartbeat, SendReceipt, Call, history
  <2> QED
    BY <1>2, <1>5, <1>6, <2>1 DEF AgentStep, Install, Wipe, GiveUp, Stop, history
<1>7. ASSUME NEW r \in Slots, DeleteDone(r) PROVE FALSE
  <2>1. jobs[r].node # n
    BY <1>7 DEF DeleteDone, Leaves
  <2>2. removed'[n] = removed[n]
    BY <1>7, <2>1 DEF DeleteDone, Remove, Typed, HistoryTyped
  <2>3. ASSUME NEW s \in Slots, Busy(s)' PROVE jobs'[s] = jobs[s]
    BY <1>7, <2>3 DEF DeleteDone, Close, Busy, Typed, JobsTyped
  <2> QED
    BY <2>2, <2>3 DEF Leaves, Busy
<1>8. ASSUME NEW r \in Slots, Touch(r) \/ Refresh(r) PROVE FALSE
  <2>1. PICK kind \in {"refresh", "answer"} : jobs' = [jobs EXCEPT ![r].kind = kind]
    BY <1>8 DEF Touch, Refresh
  <2>2. Busy(r) /\ jobs[r] \in Job
    BY <1>8 DEF Touch, Refresh, Busy, Typed, JobsTyped
  <2>3. [jobs[r] EXCEPT !.kind = kind].kind = kind
    BY <2>2 DEF Job
  <2>4. ASSUME NEW s \in Slots, Busy(s)' PROVE jobs'[s] = jobs[s] \/ jobs'[s].kind # "done"
    BY <2>1, <2>3, <2>4, SMTT(30) DEF Typed, JobsTyped
  <2> QED
    BY <1>1, <1>8, <2>4 DEF Touch, Refresh, history, Busy
<1>9. ASSUME NEW r \in Slots, Handle(r) PROVE FALSE
  BY <1>4, <1>7, <1>8, <1>9
  DEF Handle, CommitRegister, Answer, SaveReceipt, SaveUpdate, SaveUninstall, history
<1>10. ASSUME NEW o \in Nodes, ForceDelete(o) PROVE FALSE
  <2>1. removed'[n] \in {removed[n], "force"} /\ UNCHANGED jobs
    BY <1>10 DEF ForceDelete, Remove, Typed, HistoryTyped
  <2> QED
    BY <2>1 DEF Leaves, Busy
<1>11. ASSUME NEW o \in Nodes, BecomesOverdue(o) PROVE FALSE
  <2>1. ASSUME NEW s \in Slots, Busy(s)'
        PROVE  Busy(s) /\ jobs'[s].kind = jobs[s].kind /\ jobs'[s].node = jobs[s].node
    <3>1. jobs'[s] = IF Busy(s) /\ jobs[s].node = o
                     THEN [jobs[s] EXCEPT !.row = Older(@)] ELSE jobs[s]
      BY <1>11 DEF BecomesOverdue
    <3>2. Busy(s)
      BY <2>1, <3>1 DEF Busy
    <3>3. jobs[s] \in Job
      BY <3>2 DEF Busy, Typed, JobsTyped
    <3>4. /\ [jobs[s] EXCEPT !.row = Older(@)].kind = jobs[s].kind
          /\ [jobs[s] EXCEPT !.row = Older(@)].node = jobs[s].node
      BY <3>3 DEF Job
    <3> QED
      BY <3>1, <3>2, <3>4
  <2>2. UNCHANGED removed
    BY <1>11 DEF BecomesOverdue, history
  <2> QED
    BY <2>1, <2>2 DEF Leaves
<1>12. ASSUME NEW o \in Nodes, NodeStep(o) PROVE FALSE
  <2>1. CASE BeginUpdate(o) \/ BeginUninstall(o)
    <3>1. PICK kind \in {"update", "request"}, status \in Statuses \cup {None} :
            Edit(o, kind, status)
      BY <2>1 DEF BeginUpdate, BeginUninstall
    <3> QED
      BY <1>3, <3>1 DEF Edit, history
  <2>2. CASE MarkOffline(o) \/ ListOverdue(o)
    BY <1>2, <2>2 DEF MarkOffline, ListOverdue, FindOverdue, MarkOverdue, history
  <2> QED
    BY <1>10, <1>11, <1>12, <2>1, <2>2 DEF NodeStep
<1> QED
  BY <1>2, <1>6, <1>9, <1>12 DEF Next, TokenStep, CreateInstallToken, DropInstallToken, vars, history
(* Once a node leaves, its machine only finishes the cleanup, and no other *)
(* machine gets its credentials.                                           *)
LEMMA LeavingStep ==
  ASSUME Typed, RemovalInv, MachineInv, LeavingIsLate, [Next]_vars
  PROVE  LeavingIsLate'
<1> SUFFICES ASSUME NEW n \in Nodes, Leaves(n)', NEW m \in Machines, machine'[m].creds = n
             PROVE  machine'[m].proc = "wiping"
  BY DEF LeavingIsLate
<1>1. CASE GetsNode(m)
  <2>1. ~Born(n) /\ removed'[n] = "no"
    BY <1>1, NewNode DEF history
  <2>2. PICK s \in Slots : Busy(s)' /\ jobs'[s].kind = "done" /\ jobs'[s].node = n
    BY <2>1 DEF Leaves
  <2>3. Born(n)
    BY <2>2, NewJobs DEF RemovalInv, KnownNodes
  <2> QED
    BY <2>1, <2>3
<1>2. CASE ~GetsNode(m)
  <2>1. machine[m].creds = n
    BY <1>2, CredsSteps, Constants
  <2>2. CASE Leaves(n)
    <3>1. machine[m].proc = "wiping"
      BY <2>1, <2>2 DEF LeavingIsLate
    <3>2. Calls(m) => machine'[m].proc = machine[m].proc
      BY NextMachine DEF Calls
    <3> QED
      BY <1>2, <3>1, <3>2, MachineSteps, Constants DEF StartsOver, GoesOn, GetsCommand
  <2>3. CASE ~Leaves(n)
    <3>1. PICK o \in Machines : machine[o].creds = n /\ machine'[o].proc = "wiping"
      BY <2>3, LeavesSteps
    <3>2. o = m
      BY <2>1, <3>1, Constants DEF MachineInv, Owners
    <3> QED
      BY <3>1, <3>2
  <2> QED
    BY <2>2, <2>3
<1> QED
  BY <1>1, <1>2

LEMMA MachineCorrect == Spec => []MachineInv
<1>1. Init => MachineInv
  BY DEF Init, CleanMachine, MachineInv, Waiting, Stages, Owners
<1>2. Typed /\ RemovalInv /\ MachineInv /\ [Next]_vars => MachineInv'
  BY WaitingStep, StagesStep, OwnersStep DEF MachineInv
<1> QED
  BY <1>1, <1>2, RemovalCorrect, TypedCorrect, PTL DEF Spec

(***************************************************************************)
(* A node removed by a final receipt has no machine left that runs with    *)
(* its credentials: the machine is past the receipt, or was cleaned.       *)
(***************************************************************************)
THEOREM DoneIsClean == Spec => []DoneMeansClean
<1>1. Init => LeavingIsLate
  BY DEF Init, LeavingIsLate, Leaves, Busy
<1>2. LeavingIsLate => DoneMeansClean
  BY DEF LeavingIsLate, Leaves, DoneMeansClean
<1>3. Typed /\ RemovalInv /\ MachineInv /\ LeavingIsLate /\ [Next]_vars => LeavingIsLate'
  BY LeavingStep
<1> QED
  BY <1>1, <1>2, <1>3, RemovalCorrect, MachineCorrect, TypedCorrect, PTL DEF Spec

-----------------------------------------------------------------------------
(***************************************************************************)
(* An uninstallation that was taken back.  A machine knows of the command  *)
(* when it has the marker.  It has one as long as a receipt of its node is *)
(* being saved.  When the administrator took the uninstallation back and   *)
(* the machine does not know of it, neither the row nor an update that is  *)
(* about to be saved brings it back.                                       *)
(***************************************************************************)
Asked(n) == rows[n] # None /\ rows[n].status = "uninstalling"
Receipt(s, n) == Busy(s) /\ jobs[s].kind \in {"accepted", "failed"} /\ jobs[s].node = n
Restores(s, n) ==
  /\ Busy(s) /\ jobs[s].kind = "update" /\ jobs[s].node = n
  /\ jobs[s].row.status = "uninstalling"
Known ==
  \A s \in Slots, m \in Machines : Receipt(s, machine[m].creds) => machine[m].marker # 0
TakenBack ==
  \A n \in calledOff :
    /\ Born(n)
    /\ \A m \in Machines : machine[m].creds = n =>
         machine[m].marker = 0 /\ ~Asked(n) /\ \A s \in Slots : ~Restores(s, n)
CancelInv == Known /\ TakenBack

\* A machine that keeps its node keeps its marker, or gets the command of the row.
LEMMA MarkerSteps ==
  ASSUME Typed, MachineInv, [Next]_vars, NEW m \in Machines,
         ~GetsNode(m), machine'[m].creds # None
  PROVE  /\ machine'[m].creds = machine[m].creds
         /\ \/ machine'[m].marker = machine[m].marker
            \/ machine'[m].marker # 0 /\ machine[m].creds \in Nodes /\ Asked(machine[m].creds)
<1>1. Calls(m) => machine'[m].creds = machine[m].creds /\ machine'[m].marker = machine[m].marker
  BY NextMachine DEF Calls
<1>2. GetsCommand(m) => /\ machine'[m].creds = machine[m].creds
                        /\ machine'[m].marker # 0 /\ machine[m].creds \in Nodes
                        /\ Asked(machine[m].creds)
  BY DEF GetsCommand, UninstallCommand, Asked
<1> QED
  BY <1>1, <1>2, MachineSteps DEF StartsOver, GoesOn

\* A receipt is sent by a machine that has the marker.
LEMMA ReceiptSteps ==
  ASSUME Typed, MachineInv, [Next]_vars, NEW s \in Slots, NEW n \in Nodes, Receipt(s, n)'
  PROVE  \/ Receipt(s, n)
         \/ \E m \in Machines : machine[m].creds = n /\ machine[m].marker # 0
<1> DEFINE Sent == \E m \in Machines : machine[m].creds = n /\ machine[m].marker # 0
           Goal == Receipt(s, n) \/ Sent
<1>1. ASSUME jobs'[s] = jobs[s] PROVE Goal
  BY <1>1 DEF Receipt, Busy
<1>2. ASSUME NEW kind, NEW o, NEW to, NEW final, Open(kind, o, to, final),
             kind \notin {"accepted", "failed"} \/ (o = n => Sent)
      PROVE  Goal
  <2>1. Free \in Slots /\ ~Busy(Free)
    BY <1>2 DEF Open, Free
  <2>2. CASE s = Free
    <3>1. jobs'[s].kind = kind /\ jobs'[s].node = o
      BY <1>2, <2>1, <2>2 DEF Open, Typed, JobsTyped
    <3> QED
      BY <1>2, <3>1 DEF Receipt
  <2>3. CASE s # Free
    BY <1>1, <1>2, <2>1, <2>3 DEF Open, Typed, JobsTyped
  <2> QED
    BY <2>2, <2>3
<1>3. ASSUME NEW r \in Slots, Close(r) PROVE Goal
  BY <1>1, <1>3 DEF Close, Busy, Receipt, Typed, JobsTyped
<1>4. ASSUME NEW m \in Machines, AgentStep(m) PROVE Goal
  <2>1. CASE SendReceipt(m)
    <3>1. machine[m].marker # 0
      BY <2>1 DEF SendReceipt, MachineInv, Stages
    <3>2. CASE UNCHANGED jobs
      BY <1>1, <3>2
    <3>3. ASSUME NEW kind, Call(m, kind) PROVE Goal
      BY <1>2, <3>1, <3>3 DEF Call
    <3> QED
      BY <2>1, <3>2, <3>3 DEF SendReceipt
  <2>2. CASE Register(m) \/ Heartbeat(m) \/ SendDone(m)
    BY <1>1, <1>2, <2>2 DEF Register, Heartbeat, SendDone, Call
  <2> QED
    BY <1>1, <1>4, <2>1, <2>2 DEF AgentStep, Install, Wipe, GiveUp, Stop
<1>5. ASSUME NEW r \in Slots, Touch(r) \/ Refresh(r) PROVE Goal
  <2>1. PICK kind \in {"refresh", "answer"} : jobs' = [jobs EXCEPT ![r].kind = kind]
    BY <1>5 DEF Touch, Refresh
  <2>2. Busy(r) /\ jobs[r] \in Job
    BY <1>5 DEF Touch, Refresh, Busy, Typed, JobsTyped
  <2>3. [jobs[r] EXCEPT !.kind = kind].kind = kind
    BY <2>2 DEF Job
  <2>4. jobs'[s] = jobs[s] \/ jobs'[s].kind = kind
    BY <2>1, <2>3, SMTT(30) DEF Typed, JobsTyped
  <2> QED
    BY <1>1, <2>4 DEF Receipt
<1>6. ASSUME NEW r \in Slots, Handle(r) PROVE Goal
  BY <1>3, <1>5, <1>6
  DEF Handle, CommitRegister, Answer, SaveReceipt, DeleteDone, SaveUpdate, SaveUninstall
<1>7. ASSUME NEW o \in Nodes, NodeStep(o) PROVE Goal
  <2>1. CASE BeginUpdate(o) \/ BeginUninstall(o)
    <3>1. PICK kind \in {"update", "request"}, status \in Statuses \cup {None} :
            Edit(o, kind, status)
      BY <2>1 DEF BeginUpdate, BeginUninstall
    <3> QED
      BY <1>2, <3>1 DEF Edit
  <2>2. CASE BecomesOverdue(o)
    <3>1. jobs'[s] = IF Busy(s) /\ jobs[s].node = o
                     THEN [jobs[s] EXCEPT !.row = Older(@)] ELSE jobs[s]
      BY <2>2 DEF BecomesOverdue
    <3>2. Busy(s) /\ jobs[s] \in Job
      BY <3>1 DEF Receipt, Busy, Typed, JobsTyped
    <3>3. /\ [jobs[s] EXCEPT !.row = Older(@)].kind = jobs[s].kind
          /\ [jobs[s] EXCEPT !.row = Older(@)].node = jobs[s].node
      BY <3>2 DEF Job
    <3> QED
      BY <3>1, <3>2, <3>3 DEF Receipt
  <2>3. CASE ForceDelete(o) \/ MarkOffline(o) \/ ListOverdue(o)
    BY <1>1, <2>3 DEF ForceDelete, MarkOffline, ListOverdue, FindOverdue, MarkOverdue
  <2> QED
    BY <1>7, <2>1, <2>2, <2>3 DEF NodeStep
<1>8. UNCHANGED jobs => Goal
  BY <1>1
<1> QED
  BY <1>4, <1>6, <1>7, <1>8 DEF Next, TokenStep, CreateInstallToken, DropInstallToken, vars

\* An update that restores the uninstallation has read it from the row.
LEMMA RestoreSteps ==
  ASSUME Typed, [Next]_vars, NEW s \in Slots, NEW n \in Nodes, Restores(s, n)'
  PROVE  Restores(s, n) \/ Asked(n)
<1> DEFINE Goal == Restores(s, n) \/ Asked(n)
<1>1. ASSUME jobs'[s] = jobs[s] PROVE Goal
  BY <1>1 DEF Restores, Busy
<1>2. ASSUME NEW kind, NEW o, NEW to, NEW final, Open(kind, o, to, final),
             kind = "update" => rows[o] # None
      PROVE  Goal
  <2>1. Free \in Slots /\ ~Busy(Free)
    BY <1>2 DEF Open, Free
  <2>2. CASE s = Free
    <3>1. /\ jobs'[s].kind = kind /\ jobs'[s].node = o
          /\ jobs'[s].row = IF kind \in Saving THEN rows[o] ELSE None
      BY <1>2, <2>1, <2>2 DEF Open, Typed, JobsTyped
    <3> QED
      BY <1>2, <3>1 DEF Restores, Asked, Saving
  <2>3. CASE s # Free
    BY <1>1, <1>2, <2>1, <2>3 DEF Open, Typed, JobsTyped
  <2> QED
    BY <2>2, <2>3
<1>3. ASSUME NEW r \in Slots, Close(r) PROVE Goal
  BY <1>1, <1>3 DEF Close, Busy, Restores, Typed, JobsTyped
<1>4. ASSUME NEW m \in Machines, AgentStep(m) PROVE Goal
  <2>1. CASE Register(m) \/ Heartbeat(m) \/ SendDone(m) \/ SendReceipt(m)
    BY <1>1, <1>2, <2>1 DEF Register, Heartbeat, SendDone, SendReceipt, Call
  <2> QED
    BY <1>1, <1>4, <2>1 DEF AgentStep, Install, Wipe, GiveUp, Stop
<1>5. ASSUME NEW r \in Slots, Touch(r) \/ Refresh(r) PROVE Goal
  <2>1. PICK kind \in {"refresh", "answer"} : jobs' = [jobs EXCEPT ![r].kind = kind]
    BY <1>5 DEF Touch, Refresh
  <2>2. Busy(r) /\ jobs[r] \in Job
    BY <1>5 DEF Touch, Refresh, Busy, Typed, JobsTyped
  <2>3. [jobs[r] EXCEPT !.kind = kind].kind = kind
    BY <2>2 DEF Job
  <2>4. jobs'[s] = jobs[s] \/ jobs'[s].kind = kind
    BY <2>1, <2>3, SMTT(30) DEF Typed, JobsTyped
  <2> QED
    BY <1>1, <2>4 DEF Restores
<1>6. ASSUME NEW r \in Slots, Handle(r) PROVE Goal
  BY <1>3, <1>5, <1>6
  DEF Handle, CommitRegister, Answer, SaveReceipt, DeleteDone, SaveUpdate, SaveUninstall
<1>7. ASSUME NEW o \in Nodes, NodeStep(o) PROVE Goal
  <2>1. CASE BeginUpdate(o) \/ BeginUninstall(o)
    <3>1. PICK kind \in {"update", "request"}, status \in Statuses \cup {None} :
            Edit(o, kind, status)
      BY <2>1 DEF BeginUpdate, BeginUninstall
    <3> QED
      BY <1>2, <3>1 DEF Edit
  <2>2. CASE BecomesOverdue(o)
    <3>1. jobs'[s] = IF Busy(s) /\ jobs[s].node = o
                     THEN [jobs[s] EXCEPT !.row = Older(@)] ELSE jobs[s]
      BY <2>2 DEF BecomesOverdue
    <3>2. CASE jobs'[s] = jobs[s]
      BY <1>1, <3>2
    <3>3. CASE Busy(s) /\ jobs'[s] = [jobs[s] EXCEPT !.row = Older(@)]
      <4>1. jobs[s] \in Job
        BY <3>3 DEF Busy, Typed, JobsTyped
      <4>2. /\ jobs'[s].kind = jobs[s].kind /\ jobs'[s].node = jobs[s].node
            /\ jobs'[s].row = Older(jobs[s].row)
        BY <3>3, <4>1 DEF Job
      <4>3. jobs[s].row \in Row
        BY <3>3, <4>1, <4>2 DEF Restores, Job, Typed, JobsTyped, Aims, Saving
      <4>4. Older(jobs[s].row).status = jobs[s].row.status
        BY <4>3 DEF Older, Row
      <4> QED
        BY <3>3, <4>2, <4>4 DEF Restores
    <3> QED
      BY <3>1, <3>2, <3>3
  <2>3. CASE ForceDelete(o) \/ MarkOffline(o) \/ ListOverdue(o)
    BY <1>1, <2>3 DEF ForceDelete, MarkOffline, ListOverdue, FindOverdue, MarkOverdue
  <2> QED
    BY <1>7, <2>1, <2>2, <2>3 DEF NodeStep
<1>8. UNCHANGED jobs => Goal
  BY <1>1
<1> QED
  BY <1>4, <1>6, <1>7, <1>8 DEF Next, TokenStep, CreateInstallToken, DropInstallToken, vars

\* A row of which the uninstallation was taken back is under uninstallation
\* again only by a receipt or by an update that restores it.
LEMMA AskedSteps ==
  ASSUME Typed, [Next]_vars, NEW n \in Nodes, Asked(n)', n \in calledOff'
  PROVE  Asked(n) \/ \E s \in Slots : Receipt(s, n) \/ Restores(s, n)
<1> DEFINE Goal == Asked(n) \/ \E s \in Slots : Receipt(s, n) \/ Restores(s, n)
<1>1. ASSUME rows'[n] = rows[n] PROVE Goal
  BY <1>1 DEF Asked
<1>2. ASSUME NEW o \in Nodes, NEW row \in Row \cup {None}, rows' = [rows EXCEPT ![o] = row],
             o = n /\ row # None /\ row.status = "uninstalling" => Goal
      PROVE  Goal
  BY <1>1, <1>2 DEF Asked, Typed, NodesTyped
<1>3. ASSUME NEW s \in Slots, Busy(s)
      PROVE  /\ jobs[s] \in Job /\ Aims(jobs[s])
             /\ jobs[s].kind # "register" => jobs[s].node \in Nodes
             /\ jobs[s].kind \in Saving => jobs[s].row \in Row
             /\ jobs[s].final \in BOOLEAN
  <2>1. jobs[s] \in Job /\ Aims(jobs[s])
    BY <1>3 DEF Typed, JobsTyped, Busy
  <2> QED
    BY <2>1 DEF Job, Aims
<1>4. ASSUME NEW s \in Slots, CommitRegister(s) PROVE Goal
  <2>1. CASE UNCHANGED rows
    BY <1>1, <2>1
  <2>2. CASE \E o \in Nodes : rows' = [rows EXCEPT ![o] = NewRow(jobs[s].final)]
    BY <2>2, <1>1 DEF NewRow, Asked, Typed, NodesTyped
  <2> QED
    BY <1>4, <2>1, <2>2 DEF CommitRegister, api
<1>5. ASSUME NEW s \in Slots, Touch(s) PROVE Goal
  <2> DEFINE o == jobs[s].node
             since == rows[o].requested # "never"
  <2>1. o \in Nodes /\ since \in BOOLEAN
    BY <1>3, <1>5 DEF Touch
  <2>2. CASE UNCHANGED rows
    BY <1>1, <2>2
  <2>3. CASE rows[o] # None /\ rows' = [rows EXCEPT ![o].since = since]
    <3>1. rows[o] \in Row
      BY <2>1, <2>3 DEF Typed, NodesTyped
    <3>2. [rows[o] EXCEPT !.since = since].status = rows[o].status
      BY <3>1 DEF Row
    <3>3. rows' = [rows EXCEPT ![o] = [rows[o] EXCEPT !.since = since]]
      BY <2>3
    <3> QED
      BY <1>1, <2>1, <2>3, <3>2, <3>3 DEF Asked, Typed, NodesTyped
  <2> QED
    BY <1>5, <2>2, <2>3 DEF Touch
<1>6. ASSUME NEW s \in Slots, Refresh(s) PROVE Goal
  <2> DEFINE o == jobs[s].node
  <2>1. o \in Nodes
    BY <1>3, <1>6 DEF Refresh
  <2>2. rows' = [rows EXCEPT ![o] = BackOnline(rows[o])]
    BY <1>6 DEF Refresh
  <2>3. rows[o] \in Row => BackOnline(rows[o]).status \in {rows[o].status, "online"}
    BY DEF BackOnline, Row
  <2>4. rows[o] = None => BackOnline(rows[o]) = None
    BY DEF BackOnline
  <2>5. rows'[n] = rows[n] \/ (n = o /\ rows'[n] = BackOnline(rows[n]))
    BY <2>1, <2>2 DEF Typed, NodesTyped
  <2> QED
    BY <1>1, <2>3, <2>4, <2>5 DEF Asked, Typed, NodesTyped
<1>7. ASSUME NEW s \in Slots, SaveReceipt(s) PROVE Goal
  <2>1. jobs[s].node # n => rows'[n] = rows[n]
    BY <1>7 DEF SaveReceipt, Typed, NodesTyped
  <2>2. jobs[s].node = n => Receipt(s, n)
    BY <1>7 DEF SaveReceipt, Receipt
  <2> QED
    BY <1>1, <2>1, <2>2
<1>8. ASSUME NEW s \in Slots, SaveUpdate(s) PROVE Goal
  <2>1. jobs[s].node # n => rows'[n] = rows[n]
    BY <1>8 DEF SaveUpdate, Typed, NodesTyped
  <2>2. ASSUME jobs[s].node = n PROVE Restores(s, n)
    <3>1. /\ Busy(s) /\ jobs[s].kind = "update" /\ jobs[s].row \in Row
          /\ jobs[s].to \in Statuses \cup {None}
      BY <1>3, <1>8 DEF SaveUpdate, Saving, Aims
    <3>2. rows'[n] = IF jobs[s].to = None THEN jobs[s].row
                     ELSE [jobs[s].row EXCEPT !.status = jobs[s].to]
      BY <1>8, <2>2 DEF SaveUpdate, Typed, NodesTyped
    <3>3. jobs[s].to # None => [jobs[s].row EXCEPT !.status = jobs[s].to].status # "uninstalling"
      BY <3>1, Constants DEF Row
    <3> QED
      BY <2>2, <3>1, <3>2, <3>3 DEF Asked, Restores
  <2> QED
    BY <1>1, <2>1, <2>2
<1>9. ASSUME NEW s \in Slots, SaveUninstall(s) PROVE Goal
  BY <1>1, <1>9 DEF SaveUninstall, Typed, NodesTyped
<1>10. ASSUME NEW o \in Nodes, NEW how, Remove(o, how) PROVE Goal
  BY <1>1, <1>10 DEF Remove, Asked, Typed, NodesTyped
<1>11. ASSUME NEW s \in Slots, Handle(s) PROVE Goal
  <2>1. DeleteDone(s) => Goal
    BY <1>3, <1>10 DEF DeleteDone
  <2>2. Answer(s) => Goal
    BY <1>1 DEF Answer, api
  <2> QED
    BY <1>4, <1>5, <1>6, <1>7, <1>8, <1>9, <1>11, <2>1, <2>2 DEF Handle
<1>12. ASSUME NEW o \in Nodes, NodeStep(o) PROVE Goal
  <2>1. CASE MarkOffline(o)
    <3>1. rows[o] \in Row
      BY <2>1 DEF MarkOffline, Typed, NodesTyped
    <3>2. [rows[o] EXCEPT !.status = "offline"].status = "offline"
      BY <3>1 DEF Row
    <3> QED
      BY <1>1, <2>1, <3>2 DEF MarkOffline, Asked, Typed, NodesTyped
  <2>2. CASE MarkOverdue(o)
    <3>1. CASE UNCHANGED rows
      BY <1>1, <3>1
    <3>2. CASE rows' # rows
      <4>1. Asked(o)
        BY <2>2, <3>2 DEF MarkOverdue, Asked
      <4>2. o # n => rows'[n] = rows[n]
        BY <2>2 DEF MarkOverdue, Typed, NodesTyped
      <4> QED
        BY <1>1, <4>1, <4>2
    <3> QED
      BY <3>1, <3>2
  <2>3. CASE BecomesOverdue(o)
    <3>1. rows[n] \in Row => Older(rows[n]).status = rows[n].status
      BY DEF Older, Row
    <3>2. rows[n] = None => Older(rows[n]) = None
      BY DEF Older
    <3>3. rows'[n] = rows[n] \/ rows'[n] = Older(rows[n])
      BY <2>3 DEF BecomesOverdue, Typed, NodesTyped
    <3> QED
      BY <1>1, <3>1, <3>2, <3>3 DEF Asked, Typed, NodesTyped
  <2>4. CASE ForceDelete(o)
    BY <1>10, <2>4 DEF ForceDelete
  <2>5. CASE BeginUpdate(o) \/ BeginUninstall(o) \/ FindOverdue(o)
    BY <1>1, <2>5 DEF BeginUpdate, BeginUninstall, Edit, FindOverdue, api
  <2> QED
    BY <1>12, <2>1, <2>2, <2>3, <2>4, <2>5 DEF NodeStep, ListOverdue
<1>13. ASSUME NEW m \in Machines, AgentStep(m) PROVE Goal
  BY <1>1, <1>13 DEF AgentStep, Install, Register, Heartbeat, SendReceipt, SendDone, Wipe,
     GiveUp, Stop, api
<1>14. UNCHANGED rows => Goal
  BY <1>1
<1> QED
  BY <1>11, <1>12, <1>13, <1>14 DEF Next, TokenStep, CreateInstallToken, DropInstallToken, vars

LEMMA MarkersKnown ==
  ASSUME Typed, RemovalInv, MachineInv, CancelInv, [Next]_vars
  PROVE  Known'
<1> SUFFICES ASSUME NEW s \in Slots, NEW m \in Machines, Receipt(s, machine[m].creds)'
             PROVE  machine'[m].marker # 0
  BY DEF Known
<1>0. jobs'[s].node \in Nodes /\ machine'[m].creds = jobs'[s].node
  BY JobsStep DEF Receipt, JobsTyped, Aims
<1>1. PICK n \in Nodes : machine'[m].creds = n /\ Receipt(s, n)'
  BY <1>0 DEF Receipt
<1>2. Born(n)
  BY <1>1, NewJobs DEF Receipt, RemovalInv, KnownNodes
<1>3. ~GetsNode(m)
  BY <1>1, <1>2, NewNode
<1>4. /\ machine[m].creds = n
      /\ machine'[m].marker = machine[m].marker \/ machine'[m].marker # 0
  BY <1>1, <1>3, MarkerSteps, Constants
<1>5. machine[m].marker # 0
  <2>1. CASE Receipt(s, n)
    BY <1>4, <2>1 DEF CancelInv, Known
  <2>2. CASE \E o \in Machines : machine[o].creds = n /\ machine[o].marker # 0
    BY <1>1, <1>4, <2>2, Constants DEF MachineInv, Owners
  <2> QED
    BY <1>1, <2>1, <2>2, ReceiptSteps
<1> QED
  BY <1>4, <1>5

\* The administrator takes an uninstallation back.
CallsOff(s, n) ==
  /\ SaveUpdate(s) /\ jobs[s].node = n /\ jobs[s].to # None /\ Unnoticed(s, n)

LEMMA CalledOffSteps ==
  ASSUME Typed, [Next]_vars, NEW n \in Nodes, n \in calledOff', n \notin calledOff
  PROVE  \E s \in Slots : CallsOff(s, n)
<1>1. ASSUME NEW m \in Machines, AgentStep(m) PROVE UNCHANGED calledOff
  BY <1>1 DEF AgentStep, Install, Register, Heartbeat, SendReceipt, SendDone, Wipe,
     GiveUp, Stop, history
<1>2. ASSUME NEW s \in Slots, Handle(s), ~CallsOff(s, n) PROVE calledOff' \subseteq calledOff
  BY <1>2 DEF CallsOff, Handle, CommitRegister, Touch, Refresh, Answer, SaveReceipt,
     DeleteDone, SaveUpdate, SaveUninstall, history
<1>3. ASSUME NEW o \in Nodes, NodeStep(o) PROVE UNCHANGED calledOff
  BY <1>3 DEF NodeStep, BeginUpdate, BeginUninstall, Edit, ForceDelete, MarkOffline,
     ListOverdue, FindOverdue, MarkOverdue, BecomesOverdue, history
<1> QED
  BY <1>1, <1>2, <1>3 DEF Next, TokenStep, CreateInstallToken, DropInstallToken, vars, history

LEMMA TakenBackStep ==
  ASSUME Typed, RemovalInv, MachineInv, CancelInv, [Next]_vars
  PROVE  TakenBack'
<1> SUFFICES ASSUME NEW n \in calledOff'
             PROVE  /\ Born(n)'
                    /\ \A m \in Machines : machine'[m].creds = n =>
                         machine'[m].marker = 0 /\ ~Asked(n)' /\ \A s \in Slots : ~Restores(s, n)'
  BY DEF TakenBack, Born
<1>1. n \in Nodes
  BY HistoryStep DEF HistoryTyped
<1>2. CASE n \in calledOff
  <2>1. Born(n) /\ Born(n)'
    BY <1>1, <1>2, BornStep DEF CancelInv, TakenBack
  <2>2. ASSUME NEW m \in Machines, machine'[m].creds = n
        PROVE  machine'[m].marker = 0 /\ ~Asked(n)' /\ \A s \in Slots : ~Restores(s, n)'
    <3>1. ~GetsNode(m)
      BY <2>1, <2>2, NewNode
    <3>2. /\ machine[m].creds = n
          /\ machine'[m].marker = machine[m].marker \/ Asked(n)
      BY <1>1, <2>2, <3>1, MarkerSteps, Constants
    <3>3. machine[m].marker = 0 /\ ~Asked(n) /\ \A s \in Slots : ~Restores(s, n)
      BY <1>2, <3>2 DEF CancelInv, TakenBack
    <3>4. \A s \in Slots : ~Receipt(s, n)
      BY <3>2, <3>3 DEF CancelInv, Known
    <3>5. \A s \in Slots : ~Restores(s, n)'
      BY <1>1, <3>3, RestoreSteps
    <3>6. ~Asked(n)'
      BY <1>1, <3>3, <3>4, AskedSteps
    <3> QED
      BY <3>2, <3>3, <3>5, <3>6
  <2> QED
    BY <2>1, <2>2
<1>3. CASE n \notin calledOff
  <2>1. PICK s \in Slots : CallsOff(s, n)
    BY <1>1, <1>3, CalledOffSteps
  <2>2. /\ Busy(s) /\ jobs[s].kind = "update" /\ jobs[s].node = n /\ jobs[s].row \in Row
        /\ jobs[s].to \in Statuses
    BY <2>1 DEF CallsOff, SaveUpdate, Typed, JobsTyped, Aims, Job, Saving, Busy
  <2>3. Born(n)'
    BY <1>1, <2>2, BornStep DEF RemovalInv, KnownNodes
  <2>4. ~Asked(n)'
    <3>1. rows'[n] = [jobs[s].row EXCEPT !.status = jobs[s].to]
      BY <1>1, <2>1 DEF CallsOff, SaveUpdate, Typed, NodesTyped
    <3> QED
      BY <2>2, <3>1, Constants DEF Asked, Row
  <2>5. ASSUME NEW r \in Slots, Restores(r, n)' PROVE FALSE
    <3>1. r # s /\ jobs'[r] = jobs[r]
      BY <2>1, <2>5 DEF CallsOff, SaveUpdate, Close, Restores, Busy, Typed, JobsTyped
    <3> QED
      BY <2>1, <2>5, <3>1 DEF CallsOff, Unnoticed, Restores, Busy, Saving
  <2>6. \A m \in Machines : machine'[m].creds = n => machine'[m].marker = 0
    BY <2>1 DEF CallsOff, SaveUpdate, Unnoticed
  <2> QED
    BY <2>3, <2>4, <2>5, <2>6
<1> QED
  BY <1>2, <1>3

(***************************************************************************)
(* An uninstallation that the administrator takes back before any          *)
(* heartbeat was answered with it never reaches the machine.               *)
(***************************************************************************)
THEOREM TakenBackHolds == Spec => []CancelHolds
<1>1. Init => CancelInv
  BY DEF Init, CancelInv, Known, TakenBack, Receipt, Busy
<1>2. Typed /\ RemovalInv /\ MachineInv /\ CancelInv /\ [Next]_vars => CancelInv'
  BY MarkersKnown, TakenBackStep DEF CancelInv
<1>3. CancelInv => CancelHolds
  BY DEF CancelInv, TakenBack, CancelHolds
<1> QED
  BY <1>1, <1>2, <1>3, TypedCorrect, RemovalCorrect, MachineCorrect, PTL DEF Spec
=============================================================================
