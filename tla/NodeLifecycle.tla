---------------------------- MODULE NodeLifecycle ----------------------------
(***************************************************************************)
(* A node from its install token to its removal: registration, heartbeats, *)
(* the uninstall command and its receipts, the marker file that makes the  *)
(* service clean the machine when it stops, and the administrator's edits. *)
(*                                                                         *)
(* A handler of the API is a job: it reads the row of the node first       *)
(* (agentAuth or First) and writes later, Save writing the whole row it    *)
(* read.  A machine waits for the answer of one job, or gives up (15 s)    *)
(* while the job goes on.                                                  *)
(***************************************************************************)
EXTENDS Naturals, FiniteSets

CONSTANTS
  Machines,
  Tokens,      \* install tokens
  MaxNodes,    \* bound: node rows created
  MaxEdits,    \* bound: requests of the administrator that save a node
  Slots,       \* bound: handlers in progress at once
  Statuses,    \* statuses the administrator sets
  None

Nodes == 1..MaxNodes
ASSUME NodeConstants ==
  /\ MaxNodes \in Nat /\ MaxEdits \in Nat
  /\ Statuses \subseteq {"online", "disabled", "maintenance"}
  /\ None \notin Nat \cup Machines \cup Slots \cup Tokens \cup STRING

UninstallStatus ==
  {"uninstalling", "uninstall_legacy", "uninstall_timeout", "uninstall_failed"}
Row == [status : {"online", "offline", "disabled", "maintenance"} \cup UninstallStatus,
        cmd : 0..MaxEdits, requested : {"never", "recent", "old"},
        since : BOOLEAN, final : BOOLEAN]

(***************************************************************************)
(*   token     state of each install token                                 *)
(*   rows      rows of nodes; cmd is UninstallCommandID (0: none);         *)
(*             requested is UninstallRequestedAt (old: more than 5 min);   *)
(*             since says that LastSeenAt is not before the request, how   *)
(*             long ago it was is left open; final is the capability to    *)
(*             send a final receipt, which old agents lack                 *)
(*   from      the install token it was registered with                    *)
(*   machine   proc: "none", "new" (installed, no credentials), "up",      *)
(*             "acking" (marker written), "cleaning" (stopped, cleanup     *)
(*             under way), "wiping" (receipt sent); creds: the node whose  *)
(*             token it holds; marker: the command in uninstall-requested; *)
(*             env: the install token; final: the agent sends a final      *)
(*             receipt; wait: the job it waits for                         *)
(*   jobs      handlers in progress                                        *)
(*   listing   the status listNodes is about to give an overdue node       *)
(*   edits     requests of the administrator so far                        *)
(*   calledOff nodes whose uninstallation the administrator took back      *)
(*             while neither the machine nor a handler knew of it          *)
(*   removed   nodes whose row was deleted, and by which receipt or force  *)
(*   overtaken nodes deleted while a handler held their row to save it;    *)
(*             the last three are history, read by properties only         *)
(***************************************************************************)
VARIABLES token, rows, from, machine, jobs, listing, edits,
          calledOff, removed, overtaken

api == <<token, rows, from>>
history == <<calledOff, removed, overtaken>>
vars == <<token, rows, from, machine, jobs, listing, edits,
          calledOff, removed, overtaken>>

\* The jobs that save the whole row they read.
Saving == {"accepted", "failed", "update", "request"}
Job == [kind : {"register", "touch", "refresh", "answer", "done"} \cup Saving,
        node : Nodes \cup {None}, row : Row \cup {None},
        to : Tokens \cup Statuses \cup {None}, final : BOOLEAN]
ASSUME NoneIsNoRecord == None \notin Row \cup Job

Machine == [proc : {"none", "new", "up", "acking", "cleaning", "wiping"},
            creds : Nodes \cup {None}, marker : 0..MaxEdits,
            env : Tokens \cup {None}, final : BOOLEAN, wait : Slots \cup {None}]
CleanMachine == [proc |-> "none", creds |-> None, marker |-> 0, env |-> None,
                 final |-> FALSE, wait |-> None]

Init ==
  /\ token = [t \in Tokens |-> "none"]
  /\ rows = [n \in Nodes |-> None]
  /\ from = [n \in Nodes |-> None]
  /\ machine = [m \in Machines |-> CleanMachine]
  /\ jobs = [s \in Slots |-> None]
  /\ listing = [n \in Nodes |-> None]
  /\ edits = 0
  /\ calledOff = {} /\ removed = [n \in Nodes |-> "no"] /\ overtaken = {}

-----------------------------------------------------------------------------
(* Jobs and the machine that waits for one. *)

Busy(s) == jobs[s] # None
Holds(s, kind, n) == Busy(s) /\ jobs[s].kind = kind /\ jobs[s].node = n

\* Slots are alike: a job takes the first that is free.  It keeps the row its
\* handler read if it will save it.
Free == CHOOSE s \in Slots : ~Busy(s)
Open(kind, n, to, final) ==
  /\ \E s \in Slots : ~Busy(s)
  /\ jobs' = [jobs EXCEPT ![Free] = [kind |-> kind, node |-> n, to |-> to, final |-> final,
                                     row |-> IF kind \in Saving THEN rows[n] ELSE None]]

Close(s) == jobs' = [jobs EXCEPT ![s] = None]

\* agentAuth: the token of a node that exists and is not disabled.
Auth(m) ==
  /\ machine[m].creds # None
  /\ rows[machine[m].creds] # None
  /\ rows[machine[m].creds].status # "disabled"

\* The agent calls the API: it waits for the job that handles the call.
Call(m, kind) ==
  /\ Open(kind, machine[m].creds, None, FALSE)
  /\ machine' = [machine EXCEPT ![m].wait = Free]

\* The end of job s reaches the machine that still waits for it as `proc`.
Answered(s, proc) ==
  machine' = [m \in Machines |->
    IF machine[m].wait = s THEN [machine[m] EXCEPT !.wait = None, !.proc = proc]
                           ELSE machine[m]]

\* A row is deleted by `how`; handlers that will save it are remembered.
Remove(n, how) ==
  /\ rows' = [rows EXCEPT ![n] = None]
  /\ removed' = [removed EXCEPT ![n] = how]
  /\ overtaken' = IF \E s \in Slots, k \in Saving : Holds(s, k, n)
                  THEN overtaken \cup {n} ELSE overtaken

-----------------------------------------------------------------------------
(* Install tokens and registration. *)

CreateInstallToken(t) ==
  /\ token[t] = "none"
  /\ token' = [token EXCEPT ![t] = "valid"]
  /\ UNCHANGED <<rows, from, machine, jobs, listing, edits, history>>

\* deleteInstallToken, or the token expires.
DropInstallToken(t) ==
  /\ token[t] = "valid"
  /\ token' = [token EXCEPT ![t] = "gone"]
  /\ UNCHANGED <<rows, from, machine, jobs, listing, edits, history>>

\* The install script is run, again when the machine could not register.
Install(m, t) ==
  /\ machine[m].proc \in {"none", "new"} /\ token[t] = "valid"
  /\ machine[m].env # t \/ machine[m].proc = "none"
  /\ \E final \in BOOLEAN :
       machine' = [machine EXCEPT ![m] =
         [CleanMachine EXCEPT !.proc = "new", !.env = t, !.final = final]]
  /\ UNCHANGED <<api, jobs, listing, edits, history>>

\* agentRegister reads the token; one that is used or expired is refused and
\* the agent starts over.
Register(m) ==
  /\ machine[m].proc = "new" /\ machine[m].wait = None
  /\ token[machine[m].env] = "valid"
  /\ Open("register", None, machine[m].env, machine[m].final)
  /\ machine' = [machine EXCEPT ![m].wait = Free]
  /\ UNCHANGED <<api, listing, edits, history>>

NewRow(final) == [status |-> "online", cmd |-> 0, requested |-> "never",
              since |-> FALSE, final |-> final]

\* Mutant: the number of rows the update affected is not looked at.
TakesTokenUnchecked(t) == TRUE

\* The conditional update of used_at affects one row.
TakesToken(t) == token[t] = "valid"

\* The transaction takes the token and creates the node.  Its credentials
\* reach the machine that still waits; otherwise nobody has them.
CommitRegister(s) ==
  /\ Busy(s) /\ jobs[s].kind = "register"
  /\ LET t == jobs[s].to
         born == {n \in Nodes : from[n] # None}
         n == Cardinality(born) + 1
     IN IF TakesToken(t)
        THEN /\ n \in Nodes
             /\ token' = [token EXCEPT ![t] = "used"]
             /\ rows' = [rows EXCEPT ![n] = NewRow(jobs[s].final)]
             /\ from' = [from EXCEPT ![n] = t]
             /\ machine' = [m \in Machines |-> IF machine[m].wait # s THEN machine[m]
                  ELSE [machine[m] EXCEPT !.wait = None, !.creds = n, !.proc = "up"]]
        ELSE Answered(s, "new") /\ UNCHANGED api
  /\ Close(s)
  /\ UNCHANGED <<listing, edits, history>>

-----------------------------------------------------------------------------
(* Heartbeats. *)

Heartbeat(m) ==
  /\ machine[m].proc = "up" /\ machine[m].wait = None
  /\ Auth(m)
  /\ Call(m, "touch")
  /\ UNCHANGED <<api, listing, edits, history>>

\* The first update of agentHeartbeat; no row is no error.
Touch(s) ==
  /\ Busy(s) /\ jobs[s].kind = "touch"
  /\ LET n == jobs[s].node IN
       rows' = IF rows[n] = None THEN rows
               ELSE [rows EXCEPT ![n].since = rows[n].requested # "never"]
  /\ jobs' = [jobs EXCEPT ![s].kind = "refresh"]
  /\ UNCHANGED <<token, from, machine, listing, edits, history>>

\* Mutant: the heartbeat saves the node.
BackOnlineUpsert(row) ==
  IF row = None THEN NewRow(TRUE)
  ELSE IF row.status \in {"disabled", "maintenance"} \cup UninstallStatus
       THEN row ELSE [row EXCEPT !.status = "online"]

\* The row after the second update: statuses the administrator or an
\* uninstallation gave are kept.
BackOnline(row) ==
  IF row = None \/ row.status \in {"disabled", "maintenance"} \cup UninstallStatus
  THEN row ELSE [row EXCEPT !.status = "online"]

Refresh(s) ==
  /\ Busy(s) /\ jobs[s].kind = "refresh"
  /\ rows' = [rows EXCEPT ![jobs[s].node] = BackOnline(@)]
  /\ jobs' = [jobs EXCEPT ![s].kind = "answer"]
  /\ UNCHANGED <<token, from, machine, listing, edits, history>>

\* Mutant: the command is given as long as the row has one.
UninstallCommandKept(row) == row.cmd

\* The command a heartbeat is answered with; 0 is none.
UninstallCommand(row) ==
  IF row.status = "uninstalling" /\ row.requested # "never" THEN row.cmd ELSE 0

\* The row is read again.  The agent that waits writes the marker before it
\* acknowledges the command.
Answer(s) ==
  /\ Busy(s) /\ jobs[s].kind = "answer"
  /\ LET n == jobs[s].node
         cmd == IF rows[n] = None THEN 0 ELSE UninstallCommand(rows[n])
     IN machine' = [m \in Machines |->
          IF machine[m].wait # s THEN machine[m]
          ELSE IF cmd = 0 THEN [machine[m] EXCEPT !.wait = None]
          ELSE [machine[m] EXCEPT !.wait = None, !.marker = cmd, !.proc = "acking"]]
  /\ Close(s)
  /\ UNCHANGED <<api, listing, edits, history>>

-----------------------------------------------------------------------------
(* Receipts of the uninstall command. *)

\* agentCommandAck knows the command from the row agentAuth read.
KnownCommand(m) == Auth(m) /\ rows[machine[m].creds].cmd = machine[m].marker

\* Agents that only confirm the command may report a failure as well.
SendReceipt(m) ==
  /\ machine[m].proc = "acking" /\ machine[m].wait = None
  /\ IF KnownCommand(m)
     THEN \E kind \in {"accepted"} \cup (IF ~machine[m].final THEN {"failed"} ELSE {}) :
            Call(m, kind)
     ELSE /\ machine' = [machine EXCEPT ![m].proc = "up"]
          /\ UNCHANGED jobs
  /\ UNCHANGED <<api, listing, edits, history>>

\* Mutant: the status of the receipt becomes that of the node.
AcceptedStatusRaw(row) == "accepted"

\* The status an accepted receipt leaves.
AcceptedStatus(row) == IF row.final THEN "uninstalling" ELSE "uninstall_legacy"

\* Mutant: every receipt that is no failure removes the node.
SaveReceiptAsDone(s) ==
  /\ Busy(s) /\ jobs[s].kind \in {"accepted", "failed"}
  /\ IF jobs[s].kind = "accepted" THEN Remove(jobs[s].node, "done") /\ Answered(s, "up")
     ELSE UNCHANGED <<rows, removed, overtaken>> /\ Answered(s, "up")
  /\ Close(s)
  /\ UNCHANGED <<token, from, listing, edits, calledOff>>

\* The receipt is saved with the row agentAuth read; the agent then exits
\* and the service's ExecStopPost finds the marker.
SaveReceipt(s) ==
  /\ Busy(s) /\ jobs[s].kind \in {"accepted", "failed"}
  /\ LET n == jobs[s].node
         status == IF jobs[s].kind = "failed" THEN "uninstall_failed"
                   ELSE AcceptedStatus(jobs[s].row)
     IN /\ rows' = [rows EXCEPT ![n] = [jobs[s].row EXCEPT !.status = status]]
        /\ Answered(s, IF jobs[s].kind = "failed" THEN "up" ELSE "cleaning")
  /\ Close(s)
  /\ UNCHANGED <<token, from, listing, edits, history>>

\* The cleanup script sends the final receipt once, and goes on whatever
\* becomes of it.
SendDone(m) ==
  /\ machine[m].proc = "cleaning"
  /\ IF KnownCommand(m) /\ machine[m].final
     THEN Open("done", machine[m].creds, None, FALSE)
     ELSE UNCHANGED jobs
  /\ machine' = [machine EXCEPT ![m].proc = "wiping"]
  /\ UNCHANGED <<api, listing, edits, history>>

DeleteDone(s) ==
  /\ Busy(s) /\ jobs[s].kind = "done"
  /\ Remove(jobs[s].node, "done")
  /\ Close(s)
  /\ UNCHANGED <<token, from, machine, listing, edits, calledOff>>

\* The data directory is removed, credentials and marker with it.
Wipe(m) ==
  /\ machine[m].proc = "wiping"
  /\ machine' = [machine EXCEPT ![m] = CleanMachine]
  /\ UNCHANGED <<api, jobs, listing, edits, history>>

-----------------------------------------------------------------------------
(* Timeouts of the agent, and its end. *)

\* The call fails: the agent keeps its marker and goes on without an answer.
GiveUp(m) ==
  /\ machine[m].wait # None
  /\ machine' = [machine EXCEPT ![m].wait = None,
                   ![m].proc = IF @ = "acking" THEN "up" ELSE @]
  /\ UNCHANGED <<api, jobs, listing, edits, history>>

\* The service stops or the agent crashes: ExecStopPost cleans the machine
\* if there is a marker, otherwise the agent is started again.
Stop(m) ==
  /\ machine[m].proc \in {"up", "acking"}
  /\ machine[m].marker # 0 \/ machine[m].wait # None
  /\ machine' = [machine EXCEPT ![m].wait = None,
                   ![m].proc = IF machine[m].marker # 0 THEN "cleaning" ELSE "up"]
  /\ UNCHANGED <<api, jobs, listing, edits, history>>

-----------------------------------------------------------------------------
(* The administrator. *)

\* updateNode and requestNodeUninstall read the row; "request" has no status.
Edit(n, kind, status) ==
  /\ edits < MaxEdits /\ rows[n] # None
  /\ Open(kind, n, status, FALSE)
  /\ edits' = edits + 1
  /\ UNCHANGED <<api, machine, listing, history>>

BeginUpdate(n) == \E status \in Statuses \cup {None} : Edit(n, "update", status)
BeginUninstall(n) == Edit(n, "request", None)

\* Nobody but the row knows of the uninstallation.
Unnoticed(s, n) ==
  /\ \A m \in Machines : machine[m].creds = n => machine[m].marker = 0
  /\ \A r \in Slots \ {s} : Busy(r) /\ jobs[r].node = n /\ jobs[r].kind \in Saving
       => jobs[r].row.status # "uninstalling" /\ jobs[r].kind # "request"

\* updateNode saves the row it read with the status, if one was given.
SaveUpdate(s) ==
  /\ Busy(s) /\ jobs[s].kind = "update"
  /\ LET n == jobs[s].node
         row == jobs[s].row
         new == IF jobs[s].to = None THEN row ELSE [row EXCEPT !.status = jobs[s].to]
     IN /\ rows' = [rows EXCEPT ![n] = new]
        /\ calledOff' = IF jobs[s].to # None /\ Unnoticed(s, n)
                        THEN calledOff \cup {n} ELSE calledOff
  /\ Close(s)
  /\ UNCHANGED <<token, from, machine, listing, edits, removed, overtaken>>

\* A command that the row has is given again.
SaveUninstall(s) ==
  /\ Busy(s) /\ jobs[s].kind = "request"
  /\ LET n == jobs[s].node IN
     /\ rows' = [rows EXCEPT ![n] = [jobs[s].row EXCEPT !.status = "uninstalling",
            !.cmd = IF @ = 0 THEN edits ELSE @, !.requested = "recent", !.since = FALSE]]
     /\ calledOff' = calledOff \ {n}
  /\ Close(s)
  /\ UNCHANGED <<token, from, machine, listing, edits, removed, overtaken>>

\* requestNodeUninstall with force: only the row goes.
ForceDelete(n) ==
  /\ rows[n] # None
  /\ Remove(n, "force")
  /\ UNCHANGED <<token, from, machine, jobs, listing, edits, calledOff>>

\* markStaleNodesOffline, first update: 90 seconds without a heartbeat.
MarkOffline(n) ==
  /\ rows[n] # None /\ rows[n].status = "online"
  /\ rows' = [rows EXCEPT ![n].status = "offline"]
  /\ UNCHANGED <<token, from, machine, jobs, listing, edits, history>>

\* Mutant: only nodes that reported since the request are looked for.
FindOverdueSeen(n) ==
  /\ listing[n] = None
  /\ rows[n] # None /\ rows[n].status = "uninstalling" /\ rows[n].requested = "old"
  /\ rows[n].since
  /\ listing' = [listing EXCEPT ![n] = "uninstall_timeout"]
  /\ UNCHANGED <<api, machine, jobs, edits, history>>

\* It finds a node whose uninstallation is overdue and decides on its status.
FindOverdue(n) ==
  /\ listing[n] = None
  /\ rows[n] # None /\ rows[n].status = "uninstalling" /\ rows[n].requested = "old"
  /\ listing' = [listing EXCEPT ![n] =
       IF ~rows[n].final /\ rows[n].since THEN "uninstall_legacy"
       ELSE "uninstall_timeout"]
  /\ UNCHANGED <<api, machine, jobs, edits, history>>

MarkOverdue(n) ==
  /\ listing[n] # None
  /\ rows' = IF rows[n] # None /\ rows[n].status = "uninstalling"
             THEN [rows EXCEPT ![n].status = listing[n]] ELSE rows
  /\ listing' = [listing EXCEPT ![n] = None]
  /\ UNCHANGED <<token, from, machine, jobs, edits, history>>

ListOverdue(n) == FindOverdue(n) \/ MarkOverdue(n)

-----------------------------------------------------------------------------
(* Time: 5 minutes since a request, in the row and in what handlers have    *)
(* read of it.                                                             *)

Older(row) ==
  IF row = None \/ row.requested = "never" THEN row
  ELSE [row EXCEPT !.requested = "old"]

BecomesOverdue(n) ==
  /\ rows' = [rows EXCEPT ![n] = Older(@)]
  /\ jobs' = [s \in Slots |-> IF Busy(s) /\ jobs[s].node = n
                              THEN [jobs[s] EXCEPT !.row = Older(@)] ELSE jobs[s]]
  /\ <<rows, jobs>>' # <<rows, jobs>>
  /\ UNCHANGED <<token, from, machine, listing, edits, history>>

AgentStep(m) ==
  \/ \E t \in Tokens : Install(m, t)
  \/ Register(m) \/ Heartbeat(m) \/ SendReceipt(m) \/ SendDone(m) \/ Wipe(m)
  \/ GiveUp(m) \/ Stop(m)

Handle(s) ==
  \/ CommitRegister(s) \/ Touch(s) \/ Refresh(s) \/ Answer(s)
  \/ SaveReceipt(s) \/ DeleteDone(s) \/ SaveUpdate(s) \/ SaveUninstall(s)

NodeStep(n) ==
  \/ BeginUpdate(n) \/ BeginUninstall(n) \/ ForceDelete(n)
  \/ MarkOffline(n) \/ ListOverdue(n)
  \/ BecomesOverdue(n)

TokenStep(t) == CreateInstallToken(t) \/ DropInstallToken(t)

Next ==
  \/ \E m \in Machines : AgentStep(m)
  \/ \E s \in Slots : Handle(s)
  \/ \E n \in Nodes : NodeStep(n)
  \/ \E t \in Tokens : TokenStep(t)

\* Minutes pass, and somebody looks at the list of nodes.
Spec ==
  /\ Init /\ [][Next]_vars
  /\ \A n \in Nodes : WF_vars(ListOverdue(n)) /\ WF_vars(BecomesOverdue(n))

-----------------------------------------------------------------------------
(* Properties. *)

\* Every variable has its type; the jobs that save a row hold one.
TypeOK ==
  /\ token \in [Tokens -> {"none", "valid", "used", "gone"}]
  /\ rows \in [Nodes -> Row \cup {None}]
  /\ from \in [Nodes -> Tokens \cup {None}]
  /\ machine \in [Machines -> Machine]
  /\ jobs \in [Slots -> Job \cup {None}]
  /\ \A s \in Slots : Busy(s) => (jobs[s].kind \in Saving) = (jobs[s].row # None)
  /\ listing \in [Nodes -> {"uninstall_legacy", "uninstall_timeout", None}]
  /\ edits \in 0..MaxEdits
  /\ calledOff \subseteq Nodes /\ overtaken \subseteq Nodes
  /\ removed \in [Nodes -> {"no", "done", "force"}]

\* agentRegister, "one-time install token": a token registers one node,
\* however many machines present it and however often an agent that lost
\* the answer tries again.
OneNodePerToken ==
  \A n, o \in Nodes : from[n] # None /\ from[n] = from[o] => n = o

\* An uninstallation that the administrator takes back (updateNode with a
\* status) before any heartbeat was answered with it never reaches the
\* machine.  One that is under way is not stopped: the marker stays.
CancelHolds ==
  \A n \in calledOff, m \in Machines : machine[m].creds = n => machine[m].marker = 0

\* A node removed by a final receipt has no machine left that runs with its
\* credentials: the machine is past the receipt, or was cleaned.
DoneMeansClean ==
  \A n \in Nodes, m \in Machines :
    removed[n] = "done" /\ machine[m].creds = n => machine[m].proc = "wiping"

\* The row of a removed node does not come back: no heartbeat, receipt or
\* list of nodes creates it again.  Exception: a handler that read the row
\* before the removal and saves it after (agentCommandAck, updateNode,
\* requestNodeUninstall).
RemovedStaysRemoved ==
  \A n \in Nodes : removed[n] # "no" /\ n \notin overtaken => rows[n] = None

\* README.md 138: no uninstallation is shown as under way for ever.
UninstallEnds ==
  \A n \in Nodes :
    (rows[n] # None /\ rows[n].status = "uninstalling")
      ~> (rows[n] = None \/ rows[n].status # "uninstalling")
=============================================================================
