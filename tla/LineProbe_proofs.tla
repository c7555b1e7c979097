--------------------------- MODULE LineProbe_proofs ---------------------------
(***************************************************************************)
(* Proofs about LineProbe, for any set of nodes and any number of writes   *)
(* and results under way.                                                  *)
(***************************************************************************)
EXTENDS LineProbe, TLAPS

USE DEF history

(***************************************************************************)
(* Numbers.  A number is used after it was taken; a write brings its own   *)
(* number into the row; the number of a write to come is neither in the    *)
(* row nor that of another write.                                          *)
(***************************************************************************)
Taken ==
  /\ row # None => row.revision <= number
  /\ \A n \in Agents : reading[n] # None => reading[n] <= number
  /\ \A h \in Handlers : writes[h] # None => writes[h].number <= number
OwnNumber ==
  \A h \in Handlers :
    writes[h] # None /\ writes[h].new # None => writes[h].new.revision = writes[h].number
Fresh ==
  /\ \A h \in Handlers : writes[h] # None /\ row # None => row.revision # writes[h].number
  /\ \A h, o \in Handlers :
       h # o /\ writes[h] # None /\ writes[o] # None => writes[h].number # writes[o].number
Numbers == TypeOK /\ Taken /\ OwnNumber /\ Fresh

LEMMA Constants ==
  /\ MaxRevision \in Nat /\ MaxFaults \in Nat /\ Agents \subseteq Nodes
  /\ None \notin Nat /\ None \notin Row /\ None \notin Write /\ None \notin Report
BY ProbeConstants, NoneIsNoRecord

LEMMA LargerType ==
  ASSUME NEW k \in Nat, NEW a \in 0..k, NEW b \in 0..k
  PROVE  Larger(a, b) \in 0..k
BY DEF Larger

\* A free slot, if there is one, is among the slots and free.
LEMMA FreeSlot ==
  ASSUME NEW slots, HasFree(slots)
  PROVE  FirstFree(slots) \in DOMAIN slots /\ slots[FirstFree(slots)] = None
BY DEF HasFree, FirstFree

\* The revision of an answer was taken.
LEMMA ServedTaken ==
  ASSUME TypeOK, Taken, NEW n \in Agents, reading[n] # None
  PROVE  /\ ServedRevision(n) \in 0..number
         /\ ProbeOf(n) \in Revisions \cup {None}
<1>1. number \in Nat /\ reading[n] \in 0..number
  BY Constants DEF TypeOK, Taken
<1>2. CASE ProbeOf(n) = None
  BY <1>1, <1>2 DEF ServedRevision
<1>3. CASE ProbeOf(n) # None
  <2>1. row # None /\ ProbeOf(n) = row.revision /\ row \in Row
    BY <1>3 DEF ProbeOf, TypeOK
  <2>2. row.revision \in Revisions /\ row.revision \in 0..number
    BY <2>1, <1>1, Constants DEF Row, Revisions, Taken
  <2> QED
    BY <1>1, <1>3, <2>1, <2>2, LargerType DEF ServedRevision
<1> QED
  BY <1>2, <1>3

\* Manager.Apply leaves a worker, a result and a check of their types.
LEMMA WorkType ==
  ASSUME TypeOK, NEW n \in Agents, NEW p \in Revisions \cup {None}, Work(n, p)
  PROVE  /\ worker' \in [Agents -> Revisions \cup {None}]
         /\ result' \in [Agents -> Revisions \cup {None}]
         /\ check' \in [Agents -> [revision : Revisions, live : BOOLEAN] \cup {None}]
<1>1. CASE p = worker[n]
  BY <1>1 DEF Work, TypeOK
<1>2. CASE p # worker[n]
  <2>1. check[n] # None => [check[n] EXCEPT !.live = FALSE] \in [revision : Revisions, live : BOOLEAN]
    BY DEF TypeOK
  <2> QED
    BY <1>2, <2>1 DEF Work, TypeOK
<1> QED
  BY <1>1, <1>2

LEMMA NumbersInit == Init => Numbers
<1> SUFFICES ASSUME Init PROVE Numbers
  OBVIOUS
<1>1. /\ row \in Row \cup {None} /\ number \in 0..MaxRevision
      /\ desired \in [Nodes -> 0..number] /\ applied \in [Agents -> 0..number]
      /\ faults \in 0..MaxFaults
  BY Constants DEF Init
<1>2. /\ writes \in [Handlers -> Write \cup {None}]
      /\ reading \in [Agents -> 0..MaxRevision \cup {None}]
      /\ worker \in [Agents -> Revisions \cup {None}]
      /\ result \in [Agents -> Revisions \cup {None}]
      /\ check \in [Agents -> [revision : Revisions, live : BOOLEAN] \cup {None}]
      /\ reports \in [Reports -> Report \cup {None}]
  BY DEF Init
<1>3. event \in {"pending", "up", "down"} /\ {crossed, blurred, unwritten} \subseteq BOOLEAN
  BY DEF Init
<1>4. Taken /\ OwnNumber /\ Fresh
  BY DEF Init, Taken, OwnNumber, Fresh
<1> QED
  BY <1>1, <1>2, <1>3, <1>4 DEF Numbers, TypeOK

-----------------------------------------------------------------------------
(* The administrator's steps. *)

LEMMA CreateNumbers == Numbers /\ CreateLineProbe => Numbers'
<1> SUFFICES ASSUME Numbers, CreateLineProbe PROVE Numbers'
  OBVIOUS
<1> USE DEF Numbers
<1>1. PICK n \in Nodes, enabled \in BOOLEAN :
        /\ row' = [node |-> n, enabled |-> enabled, revision |-> 1,
                   status |-> "pending", of |-> 0]
        /\ Bump({n}, 1)
  BY DEF CreateLineProbe
<1>2. number = 0 /\ number' = 1 /\ 1 \in 0..MaxRevision /\ 1 \in Revisions
  BY Constants DEF CreateLineProbe, Revisions
<1>3. row' \in Row
  BY <1>1, <1>2, Constants DEF Row
<1>4. desired' \in [Nodes -> 0..number']
  <2>1. \A m \in Nodes : desired[m] \in 0..1
    BY <1>2 DEF TypeOK
  <2>2. \A m \in Nodes : Larger(desired[m], 1) \in 0..1
    BY <2>1, LargerType, 1 \in Nat, 1 \in 0..1
  <2> QED
    BY <1>1, <1>2, <2>1, <2>2 DEF Bump
<1>5. applied' \in [Agents -> 0..number']
  BY <1>2 DEF CreateLineProbe, TypeOK, agent
<1>6. \A h \in Handlers : writes[h] = None
  <2> SUFFICES ASSUME NEW h \in Handlers, writes[h] # None PROVE FALSE
    OBVIOUS
  <2>1. writes[h] \in Write /\ writes[h].number <= 0
    BY <1>2 DEF TypeOK, Taken
  <2> QED
    BY <2>1, Constants DEF Write, Revisions
<1>7. TypeOK'
  BY <1>2, <1>3, <1>4, <1>5 DEF CreateLineProbe, TypeOK, agent
<1>8. Taken'
  <2>1. \A m \in Agents : reading[m] # None => reading[m] <= 1
    BY <1>2, Constants DEF Taken, TypeOK
  <2> QED
    BY <1>1, <1>2, <1>6, <2>1 DEF CreateLineProbe, Taken, agent
<1>9. OwnNumber' /\ Fresh'
  BY <1>6 DEF CreateLineProbe, OwnNumber, Fresh
<1> QED
  BY <1>7, <1>8, <1>9

\* An update or deletion takes a number that nothing has.
LEMMA BeginNumbers ==
  ASSUME Numbers, NEW kind \in {"update", "delete"}, NEW new \in Row \cup {None},
         new # None => new.revision = number + 1, Begin(kind, new)
  PROVE  Numbers'
<1> USE DEF Numbers
<1> DEFINE f == FirstFree(writes)
           w == [kind |-> kind, row |-> row, new |-> new, number |-> number + 1]
<1>1. DOMAIN writes = Handlers
  BY DEF TypeOK
<1>2. f \in Handlers /\ writes[f] = None
  BY <1>1, FreeSlot DEF Begin
<1>3. number \in Nat /\ number' = number + 1 /\ number + 1 \in Revisions
  BY Constants DEF Begin, TypeOK, Revisions
<1>4. w \in Write
  BY <1>3 DEF Begin, TypeOK, Write
<1>5. writes' = [writes EXCEPT ![f] = w]
  BY DEF Begin
<1>6. \A h \in Handlers : writes'[h] = IF h = f THEN w ELSE writes[h]
  BY <1>1, <1>5
<1>7. /\ desired' \in [Nodes -> 0..number'] /\ applied' \in [Agents -> 0..number']
      /\ number' \in 0..MaxRevision
  BY <1>3, Constants DEF Begin, TypeOK, agent, Revisions
<1>8. TypeOK'
  BY <1>1, <1>4, <1>5, <1>7 DEF Begin, TypeOK, agent
<1>9. Taken'
  <2>1. row # None => row.revision \in Nat
    BY Constants DEF TypeOK, Row, Revisions
  <2>2. \A n \in Agents : reading[n] # None => reading[n] \in Nat
    BY Constants DEF TypeOK
  <2>3. \A h \in Handlers : writes[h] # None => writes[h].number \in Nat
    BY Constants DEF TypeOK, Write, Revisions
  <2> QED
    BY <1>3, <1>6, <2>1, <2>2, <2>3 DEF Begin, Taken, agent
<1>10. OwnNumber'
  BY <1>6 DEF OwnNumber
<1>11. Fresh'
  <2>1. row # None => row.revision # number + 1
    BY <1>3, Constants DEF Taken, TypeOK, Row, Revisions
  <2>2. \A h \in Handlers : writes[h] # None => writes[h].number # number + 1
    BY <1>3, Constants DEF Taken, TypeOK, Write, Revisions
  <2> QED
    BY <1>6, <2>1, <2>2 DEF Fresh, Begin
<1> QED
  BY <1>8, <1>9, <1>10, <1>11

LEMMA BeginSteps == Numbers /\ (BeginUpdate \/ BeginDelete) => Numbers'
<1>1. ASSUME Numbers, BeginDelete PROVE Numbers'
  BY <1>1, BeginNumbers DEF BeginDelete
<1>2. ASSUME Numbers, BeginUpdate PROVE Numbers'
  <2>1. PICK n \in Nodes, enabled \in BOOLEAN :
          row # None /\ Begin("update", WithPayload(row, n, enabled, number + 1))
    BY <1>2 DEF BeginUpdate
  <2> DEFINE new == WithPayload(row, n, enabled, number + 1)
  <2>2. row \in Row /\ number + 1 \in Revisions
    BY <1>2, <2>1, Constants DEF Numbers, TypeOK, Begin, Revisions
  <2>3. new \in Row /\ new.revision = number + 1
    BY <2>2 DEF WithPayload, Row
  <2> QED
    BY <1>2, <2>1, <2>3, BeginNumbers
<1> QED
  BY <1>1, <1>2

\* The number of a write that is carried out leaves the handlers for the row.
LEMMA CommitNumbers ==
  ASSUME Numbers, NEW h \in Handlers, CommitWrite(h)
  PROVE  Numbers'
<1> USE DEF Numbers
<1> DEFINE w == writes[h]
<1>1. w \in Write /\ w # None
  BY DEF CommitWrite, TypeOK
<1>2. w.new \in Row \cup {None} /\ w.number \in 0..number /\ number \in Nat
  BY <1>1, Constants DEF Write, Taken, TypeOK, Revisions
<1>3. row' = w.new /\ Bump(Concerned(w), w.number)
  BY DEF CommitWrite
<1>4. \A o \in Handlers : writes'[o] = IF o = h THEN None ELSE writes[o]
  BY DEF CommitWrite, TypeOK
<1>5. desired' \in [Nodes -> 0..number]
  <2>1. \A n \in Nodes : desired[n] \in 0..number
    BY DEF TypeOK
  <2>2. \A n \in Nodes : Larger(desired[n], w.number) \in 0..number
    BY <1>2, <2>1, LargerType
  <2> QED
    BY <1>3, <2>1, <2>2 DEF Bump
<1>6. {crossed', blurred', unwritten'} \subseteq BOOLEAN
  BY DEF CommitWrite, TypeOK
<1>7. TypeOK'
  BY <1>2, <1>3, <1>5, <1>6 DEF CommitWrite, TypeOK, agent
<1>8. w.new # None => w.new.revision = w.number
  BY <1>1 DEF OwnNumber
<1>9. Taken'
  BY <1>2, <1>3, <1>4, <1>8 DEF CommitWrite, Taken, agent
<1>10. OwnNumber'
  BY <1>4 DEF OwnNumber
<1>11. Fresh'
  BY <1>1, <1>3, <1>4, <1>8 DEF Fresh
<1> QED
  BY <1>7, <1>9, <1>10, <1>11

-----------------------------------------------------------------------------
(* The agent's steps, and those of a result. *)

\* These leave numbers, writes and the revision of the row alone.
LEMMA OthersKeep ==
  ASSUME Numbers, UNCHANGED <<number, writes>>, row = None => row' = None,
         row # None => row' # None /\ row'.revision = row.revision
  PROVE  /\ row' # None => row'.revision <= number'
         /\ \A h \in Handlers : writes'[h] # None => writes'[h].number <= number'
         /\ OwnNumber' /\ Fresh'
BY DEF Numbers, Taken, OwnNumber, Fresh

LEMMA FetchNumbers ==
  ASSUME Numbers, NEW n \in Agents,
         BeginFetch(n) \/ Fetch(n) \/ Interrupt(n) \/ BeginCheck(n) \/ EndCheck(n)
  PROVE  Numbers'
<1> USE DEF Numbers
<1>1. OwnNumber' /\ Fresh' /\ (row' # None => row'.revision <= number')
      /\ \A h \in Handlers : writes'[h] # None => writes'[h].number <= number'
  BY OthersKeep DEF BeginFetch, Fetch, Interrupt, BeginCheck, EndCheck
<1>2. CASE BeginFetch(n)
  <2>1. desired[n] \in 0..number /\ number \in 0..MaxRevision
    BY Constants DEF TypeOK
  <2>2. reading' \in [Agents -> 0..MaxRevision \cup {None}]
    BY <1>2, <2>1, Constants DEF BeginFetch, TypeOK
  <2>3. TypeOK'
    BY <1>2, <2>2 DEF BeginFetch, TypeOK
  <2>4. \A m \in Agents : reading'[m] # None => reading'[m] <= number'
    BY <1>2, <2>1 DEF BeginFetch, TypeOK, Taken
  <2> QED
    BY <1>1, <2>3, <2>4 DEF Taken
<1>3. CASE Fetch(n)
  <2>1. ServedRevision(n) \in 0..number /\ ProbeOf(n) \in Revisions \cup {None}
    BY <1>3, ServedTaken DEF Fetch
  <2>2. /\ worker' \in [Agents -> Revisions \cup {None}]
        /\ result' \in [Agents -> Revisions \cup {None}]
        /\ check' \in [Agents -> [revision : Revisions, live : BOOLEAN] \cup {None}]
        /\ applied' \in [Agents -> 0..number]
    <3>1. CASE ServedRevision(n) = applied[n]
      BY <1>3, <3>1 DEF Fetch, TypeOK
    <3>2. CASE ServedRevision(n) # applied[n]
      <4>1. Work(n, ProbeOf(n)) /\ applied' = [applied EXCEPT ![n] = ServedRevision(n)]
        BY <1>3, <3>2 DEF Fetch
      <4> QED
        BY <2>1, <4>1, WorkType DEF TypeOK
    <3> QED
      BY <3>1, <3>2
  <2>3. TypeOK'
    BY <1>3, <2>2 DEF Fetch, TypeOK
  <2>4. \A m \in Agents : reading'[m] # None => reading'[m] <= number'
    BY <1>3 DEF Fetch, TypeOK, Taken
  <2> QED
    BY <1>1, <2>3, <2>4 DEF Taken
<1>4. CASE Interrupt(n)
  <2>1. number \in Nat /\ faults' \in 0..MaxFaults
    BY <1>4, Constants DEF Interrupt, TypeOK
  <2>2. TypeOK'
    BY <1>4, <2>1, WorkType DEF Interrupt, TypeOK
  <2> QED
    BY <1>1, <1>4, <2>2 DEF Interrupt, Taken
<1>5. CASE BeginCheck(n)
  <2>1. worker[n] \in Revisions
    BY <1>5 DEF BeginCheck, TypeOK
  <2>2. TypeOK'
    BY <1>5, <2>1 DEF BeginCheck, TypeOK
  <2> QED
    BY <1>1, <1>5, <2>2 DEF BeginCheck, Taken
<1>6. CASE EndCheck(n)
  <2>1. check[n] \in [revision : Revisions, live : BOOLEAN]
    BY <1>6 DEF EndCheck, TypeOK
  <2>2. result' \in [Agents -> Revisions \cup {None}]
    BY <1>6, <2>1 DEF EndCheck, TypeOK
  <2>3. [node |-> n, revision |-> check[n].revision, stage |-> "sent",
         status |-> "pending", previous |-> "pending"] \in Report
    BY <2>1, Constants DEF Report
  <2>4. reports' \in [Reports -> Report \cup {None}]
    BY <1>6, <2>3 DEF EndCheck, TypeOK
  <2>5. TypeOK'
    BY <1>6, <2>2, <2>4 DEF EndCheck, TypeOK
  <2> QED
    BY <1>1, <1>6, <2>5 DEF EndCheck, Taken
<1> QED
  BY <1>2, <1>3, <1>4, <1>5, <1>6

LEMMA ReportNumbers ==
  ASSUME Numbers, NEW r \in Reports, Handle(r) \/ Lose(r)
  PROVE  Numbers'
<1> USE DEF Numbers
<1>1. reports[r] \in Report
  BY DEF Handle, ReadProbe, StoreResult, WriteEvent, Lose, TypeOK
<1>2. /\ row = None => row' = None
      /\ row # None => row' # None /\ row'.revision = row.revision
      /\ row' \in Row \cup {None}
  <2>1. CASE StoreResult(r) /\ StillMeasured(reports[r])
    <3>1. row \in Row /\ row' = [row EXCEPT !.status = reports[r].status, !.of = reports[r].revision]
      BY <2>1 DEF StoreResult, StillMeasured, TypeOK
    <3>2. reports[r].status \in {"pending", "up", "down"} /\ reports[r].revision \in 0..MaxRevision
      BY <1>1, Constants DEF Report, Revisions
    <3>3. row' \in Row /\ row'.revision = row.revision
      BY <3>1, <3>2 DEF Row
    <3> QED
      BY <2>1, <3>3, Constants DEF StillMeasured
  <2>2. CASE UNCHANGED row
    BY <2>2 DEF TypeOK
  <2> QED
    BY <2>1, <2>2 DEF Handle, ReadProbe, StoreResult, WriteEvent, Lose
<1>3. UNCHANGED <<number, writes, desired, agent>>
  BY DEF Handle, ReadProbe, StoreResult, WriteEvent, Lose
<1>4. reports' \in [Reports -> Report \cup {None}]
  <2>1. CASE ReadProbe(r)
    <3>1. PICK status \in {"up", "down"} :
            reports' = [reports EXCEPT ![r] = IF ~Belongs(@) THEN None
              ELSE [@ EXCEPT !.stage = "read", !.status = status, !.previous = row.status]]
      BY <2>1 DEF ReadProbe
    <3>2. Belongs(reports[r]) => row.status \in {"pending", "up", "down"}
      BY DEF Belongs, TypeOK, Row
    <3>3. Belongs(reports[r]) =>
            [reports[r] EXCEPT !.stage = "read", !.status = status, !.previous = row.status] \in Report
      BY <1>1, <3>2 DEF Report
    <3> QED
      BY <3>1, <3>3 DEF TypeOK
  <2>2. CASE StoreResult(r)
    <3>1. [reports[r] EXCEPT !.stage = "event"] \in Report
      BY <1>1 DEF Report
    <3> QED
      BY <2>2, <3>1 DEF StoreResult, TypeOK
  <2>3. CASE WriteEvent(r) \/ Lose(r)
    BY <2>3 DEF WriteEvent, Lose, TypeOK
  <2> QED
    BY <2>1, <2>2, <2>3 DEF Handle
<1>5. event' \in {"pending", "up", "down"} /\ faults' \in 0..MaxFaults
  BY <1>1, Constants DEF Handle, ReadProbe, StoreResult, WriteEvent, Lose, TypeOK, Report
<1>6. {crossed', blurred', unwritten'} \subseteq BOOLEAN
  BY DEF Handle, ReadProbe, StoreResult, WriteEvent, Lose, TypeOK
<1>7. TypeOK'
  BY <1>2, <1>3, <1>4, <1>5, <1>6 DEF TypeOK, agent
<1>8. Taken' /\ OwnNumber' /\ Fresh'
  BY <1>2, <1>3, OthersKeep DEF Taken, agent
<1> QED
  BY <1>7, <1>8

LEMMA NumbersStep == Numbers /\ [Next]_vars => Numbers'
<1>1. Numbers /\ UNCHANGED vars => Numbers'
  BY DEF Numbers, TypeOK, Taken, OwnNumber, Fresh, vars, agent
<1> QED
  BY <1>1, CreateNumbers, BeginSteps, CommitNumbers, FetchNumbers, ReportNumbers
  DEF Next, Agent

LEMMA NumbersCorrect == Spec => []Numbers
BY NumbersInit, NumbersStep, PTL DEF Spec

(***************************************************************************)
(* Every reachable state of a probe, its workers and results is            *)
(* well-formed, for any number of nodes, writes and results under way.     *)
(***************************************************************************)
THEOREM TypeCorrect == Spec => []TypeOK
<1>1. Numbers => TypeOK
  BY DEF Numbers
<1> QED
  BY <1>1, NumbersCorrect, PTL

-----------------------------------------------------------------------------
(***************************************************************************)
(* Workers.  A result, and a check that was not cancelled, are of the      *)
(* revision that the worker measures.                                      *)
(***************************************************************************)
Measured ==
  /\ ResultsAreCurrent
  /\ \A n \in Agents : check[n] # None /\ check[n].live => check[n].revision = worker[n]

\* A worker that is replaced leaves neither a result nor a live check.
LEMMA WorkMeasured ==
  ASSUME TypeOK, Measured, NEW n \in Agents, NEW p, Work(n, p)
  PROVE  Measured'
<1>1. CASE p = worker[n]
  BY <1>1 DEF Work, Measured, ResultsAreCurrent
<1>2. CASE p # worker[n]
  <2>1. \A m \in Agents : m # n =>
          worker'[m] = worker[m] /\ result'[m] = result[m] /\ check'[m] = check[m]
    BY <1>2 DEF Work, TypeOK
  <2>2. result'[n] = None
    BY <1>2 DEF Work, TypeOK
  <2>3. check'[n] # None => ~check'[n].live
    <3>1. check[n] # None => check[n] \in [revision : Revisions, live : BOOLEAN]
      BY DEF TypeOK
    <3>2. check'[n] = IF check[n] = None THEN None ELSE [check[n] EXCEPT !.live = FALSE]
      BY <1>2 DEF Work, TypeOK
    <3> QED
      BY <3>1, <3>2
  <2> QED
    BY <2>1, <2>2, <2>3 DEF Measured, ResultsAreCurrent
<1> QED
  BY <1>1, <1>2

LEMMA MeasuredStep == TypeOK /\ Measured /\ [Next]_vars => Measured'
<1> SUFFICES ASSUME TypeOK, Measured, [Next]_vars PROVE Measured'
  OBVIOUS
<1>1. CASE UNCHANGED <<worker, result, check>>
  BY <1>1 DEF Measured, ResultsAreCurrent
<1>2. ASSUME NEW n \in Agents, Fetch(n) PROVE Measured'
  BY <1>1, <1>2, WorkMeasured DEF Fetch
<1>3. ASSUME NEW n \in Agents, Interrupt(n) PROVE Measured'
  BY <1>3, WorkMeasured DEF Interrupt
<1>4. ASSUME NEW n \in Agents, BeginCheck(n) PROVE Measured'
  <2>1. /\ check'[n].revision = worker'[n]
        /\ \A m \in Agents : m # n => check'[m] = check[m]
    BY <1>4 DEF BeginCheck, TypeOK
  <2> QED
    BY <1>4, <2>1 DEF BeginCheck, Measured, ResultsAreCurrent
<1>5. ASSUME NEW n \in Agents, EndCheck(n) PROVE Measured'
  <2>1. /\ check'[n] = None
        /\ \A m \in Agents : m # n => check'[m] = check[m] /\ result'[m] = result[m]
    BY <1>5 DEF EndCheck, TypeOK
  <2>2. result'[n] \in {result[n], worker[n]}
    BY <1>5 DEF EndCheck, Current, Measured, TypeOK
  <2> QED
    BY <1>5, <2>1, <2>2 DEF EndCheck, Measured, ResultsAreCurrent
<1> QED
  BY <1>1, <1>2, <1>3, <1>4, <1>5
  DEF Next, Agent, Handle, CreateLineProbe, BeginUpdate, BeginDelete, Begin, CommitWrite,
      BeginFetch, ReadProbe, StoreResult, WriteEvent, Lose, agent, vars

(***************************************************************************)
(* What an agent shows of a probe was measured by the worker it has.       *)
(***************************************************************************)
THEOREM ResultsOfWorkers == Spec => []ResultsAreCurrent
<1>1. Init => Measured
  BY DEF Init, Measured, ResultsAreCurrent
<1>2. Measured => ResultsAreCurrent
  BY DEF Measured
<1> QED
  BY <1>1, <1>2, MeasuredStep, TypeCorrect, PTL DEF Spec

-----------------------------------------------------------------------------
(***************************************************************************)
(* Late results.  A write gives the row a number it did not have, so that  *)
(* a row that keeps its revision was touched by a result at most; and a    *)
(* result is stored for the revision it was measured for.                  *)
(***************************************************************************)
LEMMA LateResultsStep ==
  ASSUME Numbers, [Next]_vars, row # None, row' # None,
         row.of = row.revision, row'.revision = row.revision
  PROVE  row'.of = row.of
<1>1. CASE UNCHANGED row
  BY <1>1
<1>2. CASE CreateLineProbe
  <2>1. row.revision <= 0 /\ row \in Row
    BY <1>2 DEF CreateLineProbe, Numbers, Taken, TypeOK
  <2> QED
    BY <2>1, Constants DEF Row, Revisions
<1>3. ASSUME NEW h \in Handlers, CommitWrite(h) PROVE FALSE
  BY <1>3 DEF CommitWrite, Numbers, OwnNumber, Fresh
<1>4. ASSUME NEW r \in Reports, StoreResult(r), StillMeasured(reports[r])
      PROVE  row'.of = row.of
  <2>1. row \in Row /\ reports[r].revision = row.revision
    BY <1>4 DEF StillMeasured, Numbers, TypeOK
  <2>2. row' = [row EXCEPT !.status = reports[r].status, !.of = reports[r].revision]
    BY <1>4 DEF StoreResult
  <2>3. row'.of = reports[r].revision
    BY <2>1, <2>2 DEF Row
  <2> QED
    BY <2>1, <2>3
<1> QED
  BY <1>1, <1>2, <1>3, <1>4
  DEF Next, Agent, Handle, BeginUpdate, BeginDelete, Begin, BeginFetch, Fetch, Interrupt,
      BeginCheck, EndCheck, ReadProbe, StoreResult, WriteEvent, Lose, vars

(***************************************************************************)
(* The late result of an old worker does not overwrite the status of a new *)
(* target.                                                                 *)
(***************************************************************************)
THEOREM LateResultsAreDropped == Spec => LateResultsDropped
<1>1. Numbers /\ [Next]_vars =>
        [row # None /\ row' # None /\ row.of = row.revision /\ row'.revision = row.revision
           => row'.of = row.of]_vars
  BY LateResultsStep
<1> QED
  BY <1>1, NumbersCorrect, PTL DEF Spec, LateResultsDropped

-----------------------------------------------------------------------------
(***************************************************************************)
(* Events.  The event to be written, when there is one, has the status of  *)
(* the row; when there is none the last one has, unless it was lost.  Two  *)
(* of them are written in an order nobody knows: the first to go blurs the *)
(* probe.  A write keeps the status it has read, and before the first      *)
(* number there is nothing to report.                                      *)
(***************************************************************************)
ToWrite(r) == reports[r] # None /\ reports[r].stage = "event"
Told ==
  row # None /\ ~blurred =>
    /\ ~unwritten /\ (\A r \in Reports : ~ToWrite(r)) => event = row.status
    /\ \A r \in Reports :
         ToWrite(r) /\ (\A s \in Reports \ {r} : ~ToWrite(s)) => reports[r].status = row.status
KeptStatus ==
  \A h \in Handlers :
    writes[h] # None /\ writes[h].new # None => writes[h].new.status = writes[h].row.status
Untouched ==
  number = 0 =>
    /\ row = None /\ event = "pending"
    /\ \A n \in Agents : worker[n] = None /\ check[n] = None
    /\ \A r \in Reports : reports[r] = None
EventInv == Told /\ KeptStatus /\ Untouched

LEMMA KeptStatusStep == Numbers /\ KeptStatus /\ [Next]_vars => KeptStatus'
<1> SUFFICES ASSUME Numbers, KeptStatus, [Next]_vars PROVE KeptStatus'
  OBVIOUS
<1>1. CASE UNCHANGED writes
  BY <1>1 DEF KeptStatus
<1>2. ASSUME NEW kind, NEW new, Begin(kind, new), row # None,
             new # None => new.status = row.status
      PROVE  KeptStatus'
  <2> DEFINE f == FirstFree(writes)
             w == [kind |-> kind, row |-> row, new |-> new, number |-> number + 1]
  <2>1. \A h \in Handlers : writes'[h] = IF h = f THEN w ELSE writes[h]
    BY <1>2 DEF Begin, Numbers, TypeOK
  <2> QED
    BY <1>2, <2>1 DEF KeptStatus
<1>3. CASE BeginDelete
  BY <1>2, <1>3 DEF BeginDelete, Begin
<1>4. CASE BeginUpdate
  <2>1. PICK n \in Nodes, enabled \in BOOLEAN :
          row # None /\ Begin("update", WithPayload(row, n, enabled, number + 1))
    BY <1>4 DEF BeginUpdate
  <2>2. WithPayload(row, n, enabled, number + 1).status = row.status
    BY <2>1 DEF WithPayload, Numbers, TypeOK, Row
  <2> QED
    BY <1>2, <2>1, <2>2
<1>5. ASSUME NEW h \in Handlers, CommitWrite(h) PROVE KeptStatus'
  BY <1>5 DEF CommitWrite, KeptStatus, Numbers, TypeOK
<1> QED
  BY <1>1, <1>3, <1>4, <1>5
  DEF Next, Agent, Handle, CreateLineProbe, BeginFetch, Fetch, Interrupt, BeginCheck,
      EndCheck, ReadProbe, StoreResult, WriteEvent, Lose, vars

LEMMA UntouchedStep == Numbers /\ Untouched /\ [Next]_vars => Untouched'
<1> SUFFICES ASSUME Numbers, Untouched, [Next]_vars, number' = 0 PROVE Untouched'
  BY DEF Untouched
<1>1. number \in Nat
  BY Constants DEF Numbers, TypeOK
<1>2. ~CreateLineProbe /\ ~BeginUpdate /\ ~BeginDelete
  BY <1>1 DEF CreateLineProbe, BeginUpdate, BeginDelete, Begin
<1>3. number = 0
  BY <1>1, <1>2 DEF Next, Agent, Handle, CommitWrite, BeginFetch, Fetch, Interrupt,
     BeginCheck, EndCheck, ReadProbe, StoreResult, WriteEvent, Lose, vars
<1>4. /\ row = None /\ event = "pending"
      /\ \A n \in Agents : worker[n] = None /\ check[n] = None
      /\ \A r \in Reports : reports[r] = None
  BY <1>3 DEF Untouched
<1>5. ASSUME NEW h \in Handlers PROVE ~CommitWrite(h)
  <2>1. writes[h] # None => writes[h].number <= 0 /\ writes[h].number \in Revisions
    BY <1>3 DEF Numbers, Taken, TypeOK, Write
  <2> QED
    BY <2>1, Constants DEF CommitWrite, Revisions
<1>6. ASSUME NEW n \in Agents, Fetch(n) \/ Interrupt(n) PROVE Untouched'
  <2>1. ProbeOf(n) = None
    BY <1>4 DEF ProbeOf
  <2>2. UNCHANGED <<worker, check, row, event, reports>>
    BY <1>4, <1>6, <2>1 DEF Fetch, Interrupt, Work
  <2> QED
    BY <1>4, <2>2 DEF Untouched
<1>7. ASSUME NEW n \in Agents PROVE ~BeginCheck(n) /\ ~EndCheck(n)
  BY <1>4 DEF BeginCheck, EndCheck
<1>8. ASSUME NEW r \in Reports PROVE ~Handle(r) /\ ~Lose(r)
  BY <1>4 DEF Handle, ReadProbe, StoreResult, WriteEvent, Lose
<1>9. ASSUME UNCHANGED <<row, event, worker, check, reports>> PROVE Untouched'
  BY <1>4, <1>9 DEF Untouched
<1>10. ASSUME NEW n \in Agents, BeginFetch(n) PROVE Untouched'
  BY <1>9, <1>10 DEF BeginFetch
<1>11. CASE UNCHANGED vars
  BY <1>9, <1>11 DEF vars, agent
<1>12. CASE \E n \in Agents : Agent(n) \/ Interrupt(n)
  BY <1>6, <1>7, <1>10, <1>12 DEF Agent
<1> QED
  BY <1>2, <1>5, <1>8, <1>11, <1>12 DEF Next

LEMMA ToldStep == Numbers /\ EventInv /\ [Next]_vars => Told'
<1> SUFFICES ASSUME Numbers, EventInv, [Next]_vars, row' # None, ~blurred'
             PROVE  /\ ~unwritten' /\ (\A r \in Reports : ~ToWrite(r)') => event' = row'.status
                    /\ \A r \in Reports : ToWrite(r)' /\ (\A s \in Reports \ {r} : ~ToWrite(s)')
                         => reports'[r].status = row'.status
  BY DEF Told
<1> USE DEF EventInv
<1>1. CASE UNCHANGED <<row, event, reports, blurred, unwritten>>
  BY <1>1 DEF Told, ToWrite
<1>2. CASE CreateLineProbe
  <2>1. row'.status = "pending" /\ event' = "pending"
    BY <1>2 DEF CreateLineProbe, Untouched
  <2>2. \A r \in Reports : ~ToWrite(r)'
    BY <1>2 DEF CreateLineProbe, Untouched, ToWrite
  <2> QED
    BY <2>1, <2>2
<1>3. ASSUME NEW h \in Handlers, CommitWrite(h)
      PROVE  /\ row # None /\ ~blurred /\ row'.status = row.status
             /\ UNCHANGED <<event, reports, unwritten>>
  BY <1>3 DEF CommitWrite, KeptStatus
<1>4. ASSUME NEW r \in Reports, UNCHANGED <<row, event, blurred, unwritten>>,
             \A s \in Reports \ {r} : reports'[s] = reports[s],
             ~ToWrite(r), ~ToWrite(r)'
      PROVE  /\ ~unwritten' /\ (\A s \in Reports : ~ToWrite(s)') => event' = row'.status
             /\ \A s \in Reports : ToWrite(s)' /\ (\A o \in Reports \ {s} : ~ToWrite(o)')
                  => reports'[s].status = row'.status
  <2>1. \A s \in Reports : ToWrite(s)' = ToWrite(s)
    BY <1>4 DEF ToWrite
  <2>2. row # None /\ ~blurred
    BY <1>4
  <2>3. \A s \in Reports : ToWrite(s) => reports'[s] = reports[s]
    BY <1>4
  <2> QED
    BY <1>4, <2>1, <2>2, <2>3 DEF Told
<1>5. ASSUME NEW n \in Agents, EndCheck(n), Current(check[n]) PROVE
        \E r \in Reports : /\ ~ToWrite(r) /\ ~ToWrite(r)'
                           /\ \A s \in Reports \ {r} : reports'[s] = reports[s]
  <2> DEFINE f == FirstFree(reports)
  <2>1. f \in Reports /\ reports[f] = None
    BY <1>5, FreeSlot DEF EndCheck, Numbers, TypeOK
  <2>2. reports'[f].stage = "sent" /\ \A s \in Reports \ {f} : reports'[s] = reports[s]
    BY <1>5, <2>1 DEF EndCheck, Numbers, TypeOK
  <2> QED
    BY <2>1, <2>2 DEF ToWrite
<1>6. ASSUME NEW r \in Reports, ReadProbe(r) \/ (Lose(r) /\ ~ToWrite(r)) PROVE
        /\ ~ToWrite(r) /\ ~ToWrite(r)'
        /\ \A s \in Reports \ {r} : reports'[s] = reports[s]
  <2>1. reports[r] \in Report /\ ~ToWrite(r)
    BY <1>6 DEF ReadProbe, Lose, Numbers, TypeOK, ToWrite
  <2>2. CASE ReadProbe(r)
    <3>1. PICK status \in {"up", "down"} :
            reports' = [reports EXCEPT ![r] = IF ~Belongs(@) THEN None
              ELSE [@ EXCEPT !.stage = "read", !.status = status, !.previous = row.status]]
      BY <2>2 DEF ReadProbe
    <3>2. [reports[r] EXCEPT !.stage = "read", !.status = status, !.previous = row.status].stage = "read"
      BY <2>1 DEF Report
    <3> QED
      BY <2>1, <3>1, <3>2 DEF Numbers, TypeOK, ToWrite
  <2>3. CASE Lose(r) /\ ~ToWrite(r)
    BY <2>1, <2>3 DEF Lose, Numbers, TypeOK, ToWrite
  <2> QED
    BY <1>6, <2>2, <2>3
<1>7. ASSUME NEW r \in Reports, StoreResult(r), StillMeasured(reports[r])
      PROVE  /\ ~unwritten' /\ (\A s \in Reports : ~ToWrite(s)') => event' = row'.status
             /\ \A s \in Reports : ToWrite(s)' /\ (\A o \in Reports \ {s} : ~ToWrite(o)')
                  => reports'[s].status = row'.status
  <2>1. /\ row \in Row /\ reports[r] \in Report /\ ~ToWrite(r)
        /\ ~blurred /\ row # None /\ row.status = reports[r].previous
    BY <1>7, Constants DEF StoreResult, StillMeasured, Numbers, TypeOK, ToWrite
  <2>2. row'.status = reports[r].status /\ event' = event /\ unwritten' = unwritten
    BY <1>7, <2>1 DEF StoreResult, Row
  <2>3. \A s \in Reports \ {r} : reports'[s] = reports[s] /\ ToWrite(s)' = ToWrite(s)
    BY <1>7 DEF StoreResult, Numbers, TypeOK, ToWrite
  <2>4. CASE reports[r].status = reports[r].previous
    <3>1. reports'[r] = None
      BY <1>7, <2>4 DEF StoreResult, Numbers, TypeOK
    <3>2. row'.status = row.status /\ ~ToWrite(r)'
      BY <2>1, <2>2, <2>4, <3>1 DEF ToWrite
    <3> QED
      BY <2>1, <2>2, <2>3, <3>2 DEF Told
  <2>5. CASE reports[r].status # reports[r].previous
    <3>1. reports'[r] = [reports[r] EXCEPT !.stage = "event"]
      BY <1>7, <2>5 DEF StoreResult, Numbers, TypeOK
    <3>2. reports'[r] \in Report /\ reports'[r].status = row'.status /\ reports'[r].stage = "event"
      BY <2>1, <2>2, <3>1 DEF Report
    <3>3. ToWrite(r)'
      BY <3>2, Constants DEF ToWrite
    <3> QED
      BY <3>2, <3>3
  <2> QED
    BY <2>4, <2>5
<1>8. ASSUME NEW r \in Reports, StoreResult(r), ~StillMeasured(reports[r]) PROVE
        /\ ~ToWrite(r) /\ ~ToWrite(r)'
        /\ \A s \in Reports \ {r} : reports'[s] = reports[s]
  BY <1>8 DEF StoreResult, Numbers, TypeOK, ToWrite
<1>9. ASSUME NEW r \in Reports, WriteEvent(r) \/ (Lose(r) /\ ToWrite(r))
      PROVE  /\ ~unwritten' /\ (\A s \in Reports : ~ToWrite(s)') => event' = row'.status
             /\ \A s \in Reports : ~ToWrite(s)'
  <2>1. /\ ToWrite(r) /\ row' = row /\ ~blurred
        /\ \A s \in Reports \ {r} : ~ToWrite(s)
    BY <1>9 DEF WriteEvent, Lose, Blurs, ToWrite
  <2>2. unwritten' \/ event' = row'.status
    BY <1>9, <2>1 DEF WriteEvent, Lose, ToWrite, Told
  <2>3. \A s \in Reports : reports'[s] = IF s = r THEN None ELSE reports[s]
    BY <1>9 DEF WriteEvent, Lose, Numbers, TypeOK
  <2> QED
    BY <2>1, <2>2, <2>3 DEF ToWrite
<1>10. ASSUME NEW r \in Reports, StoreResult(r), ~StillMeasured(reports[r])
       PROVE  UNCHANGED <<row, event, blurred, unwritten>>
  BY <1>10 DEF StoreResult
<1>11. CASE \E h \in Handlers : CommitWrite(h)
  BY <1>3, <1>11 DEF Told, ToWrite
<1>12. CASE \E n \in Agents : EndCheck(n)
  <2>1. PICK n \in Agents : EndCheck(n)
    BY <1>12
  <2>2. UNCHANGED <<row, event, blurred, unwritten>>
    BY <2>1 DEF EndCheck
  <2>3. CASE Current(check[n])
    <3>1. PICK r \in Reports : /\ ~ToWrite(r) /\ ~ToWrite(r)'
                               /\ \A s \in Reports \ {r} : reports'[s] = reports[s]
      BY <1>5, <2>1, <2>3
    <3> QED
      BY <1>4, <2>2, <3>1
  <2>4. CASE ~Current(check[n])
    BY <1>1, <2>1, <2>2, <2>4 DEF EndCheck
  <2> QED
    BY <2>3, <2>4
<1>13. CASE \E r \in Reports : ReadProbe(r) \/ (Lose(r) /\ ~ToWrite(r))
  <2>1. PICK r \in Reports : ReadProbe(r) \/ (Lose(r) /\ ~ToWrite(r))
    BY <1>13
  <2>2. UNCHANGED <<row, event, blurred, unwritten>>
    BY <2>1 DEF ReadProbe, Lose, ToWrite
  <2> QED
    BY <1>4, <1>6, <2>1, <2>2
<1>14. CASE \E r \in Reports : StoreResult(r)
  <2>1. PICK r \in Reports : StoreResult(r)
    BY <1>14
  <2>2. CASE StillMeasured(reports[r])
    BY <1>7, <2>1, <2>2
  <2>3. CASE ~StillMeasured(reports[r])
    BY <1>4, <1>8, <1>10, <2>1, <2>3
  <2> QED
    BY <2>2, <2>3
<1>15. CASE \E r \in Reports : WriteEvent(r) \/ (Lose(r) /\ ToWrite(r))
  BY <1>9, <1>15
<1>16. CASE \E n \in Agents : BeginFetch(n) \/ Fetch(n) \/ Interrupt(n) \/ BeginCheck(n)
  BY <1>1, <1>16 DEF BeginFetch, Fetch, Interrupt, BeginCheck
<1>17. CASE BeginUpdate \/ BeginDelete \/ UNCHANGED vars
  BY <1>1, <1>17 DEF BeginUpdate, BeginDelete, Begin, vars
<1> QED
  BY <1>2, <1>11, <1>12, <1>13, <1>14, <1>15, <1>16, <1>17 DEF Next, Agent, Handle

LEMMA EventInvInit == Init => EventInv
<1> SUFFICES ASSUME Init PROVE EventInv
  OBVIOUS
<1>1. Told
  BY DEF Init, Told
<1>2. KeptStatus
  BY DEF Init, KeptStatus
<1>3. Untouched
  BY DEF Init, Untouched
<1> QED
  BY <1>1, <1>2, <1>3 DEF EventInv

LEMMA EventInvStep == Numbers /\ EventInv /\ [Next]_vars => EventInv'
BY KeptStatusStep, UntouchedStep, ToldStep DEF EventInv

(***************************************************************************)
(* When no event is about to be written the last one tells the status,     *)
(* unless a handler stored a status over one that it had not read, a write *)
(* put an older one back, or the last event there was to write was lost.   *)
(***************************************************************************)
THEOREM EventsTell == Spec => []EventsTellStatus
<1>1. EventInv => EventsTellStatus
  BY DEF EventInv, Told, ToWrite, EventsTellStatus
<1> QED
  BY <1>1, EventInvInit, EventInvStep, NumbersCorrect, PTL DEF Spec
=============================================================================
