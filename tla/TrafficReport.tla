---------------------------- MODULE TrafficReport ----------------------------
(***************************************************************************)
(* Metering: the agent's trafficBuffer, which collects the bytes of every  *)
(* rule and reports them in batches, and the API's traffic endpoint, which *)
(* accounts each report once.                                              *)
(*                                                                         *)
(* A chunk is a number of bytes one connection or session metered for one  *)
(* rule; every chunk has its own number, so that it can be followed from   *)
(* the connection to the account, and the same size.  The samples of the   *)
(* buffer and of a batch are the sets of chunks they add up.               *)
(***************************************************************************)
EXTENDS Integers, FiniteSets, Sequences

CONSTANTS
  Rules,        \* forwarding rules
  MaxSamples,   \* rules a buffer holds samples of (MaxTrafficSamples)
  MaxBytes,     \* chunks a buffer holds (MaxTrafficBytes)
  MaxFailures,  \* failures in a row before batches are dropped, and length
                \*   of the retry queue (MaxTrafficFailures)
  MaxChunks,    \* bound: chunks metered
  MaxFlights,   \* bound: flushes in progress at once
  MaxRestarts   \* bound: agent restarts

ASSUME LimitsAssumption ==
  /\ MaxSamples \in Nat /\ MaxBytes \in Nat /\ MaxFailures \in Nat \ {0}
  /\ MaxChunks \in Nat

(***************************************************************************)
(* The agent.                                                              *)
(*   metered       chunks metered so far                                   *)
(*   samples, pendingBytes, retryBatches, flushFailures, droppedBytes,     *)
(*   nextReportSeq the fields of trafficBuffer; nextReportSeq stands for   *)
(*                 the report ID, which holds the time and is not reused   *)
(*                 after a restart                                         *)
(*   flights       batches of flushes that wait for the API; served says   *)
(*                 that the API has accounted this request                 *)
(*   restarts      restarts so far                                         *)
(* The API.                                                                *)
(*   owned         rules whose tunnel enters at this node's group          *)
(*   late          requests the agent gave up on and the API may yet read  *)
(*   markers       report IDs on record (agent_traffic_reports)            *)
(*   counted       how often each chunk has been added to the accounts     *)
(* History, read by properties only.                                       *)
(*   done          chunks whose report the agent saw succeed               *)
(*   dropped       chunks the agent dropped and counted as dropped         *)
(*   lost          chunks that were in memory when the process ended       *)
(*   merged        chunks put back from a failed batch into the samples    *)
(***************************************************************************)
VARIABLES metered, samples, pendingBytes, retryBatches, flushFailures,
          droppedBytes, nextReportSeq, flights, restarts,
          owned, late, markers, counted,
          done, dropped, lost, merged

buffer == <<samples, pendingBytes, retryBatches, flushFailures, droppedBytes>>
api == <<owned, late, markers, counted>>
history == <<done, dropped, lost, merged>>
vars == <<metered, buffer, nextReportSeq, flights, restarts, api, history>>

Chunk == [n : 1 .. metered, rule : Rules]
Batch == [reportID : Nat, samples : SUBSET Chunk, bytes : Nat]
Flight == [batch : Batch, served : BOOLEAN]
RulesOf(chunks) == {c.rule : c \in chunks}
NumbersOf(chunks) == {c.n : c \in chunks}
OfRules(chunks, rules) == {c \in chunks : c.rule \in rules}
ElementsOf(seq) == {seq[i] : i \in DOMAIN seq}

\* Every variable holds a value of its kind.
TypeOK ==
  /\ metered \in Nat /\ nextReportSeq \in Nat /\ restarts \in Nat
  /\ samples \subseteq Chunk /\ pendingBytes \in Nat
  /\ retryBatches \in Seq(Batch)
  /\ flushFailures \in Nat /\ droppedBytes \in Nat
  /\ flights \subseteq Flight
  /\ owned \subseteq Rules
  /\ late \subseteq Batch /\ markers \subseteq Nat
  /\ counted \in [1 .. MaxChunks -> Nat]
  /\ done \subseteq Chunk /\ dropped \subseteq Chunk
  /\ lost \subseteq Chunk /\ merged \subseteq Chunk

Init ==
  /\ metered = 0
  /\ samples = {} /\ pendingBytes = 0 /\ retryBatches = <<>>
  /\ flushFailures = 0 /\ droppedBytes = 0 /\ nextReportSeq = 0
  /\ flights = {} /\ restarts = 0
  /\ owned = Rules /\ late = {} /\ markers = {}
  /\ counted = [n \in 1 .. MaxChunks |-> 0]
  /\ done = {} /\ dropped = {} /\ lost = {} /\ merged = {}

-----------------------------------------------------------------------------
(* The agent *)

\* Room for the samples of these rules, of that many bytes.
Fits(rules, bytes) ==
  /\ rules \subseteq RulesOf(samples)
       \/ Cardinality(RulesOf(samples) \cup rules) <= MaxSamples
  /\ pendingBytes + bytes <= MaxBytes

\* add: a connection has metered some bytes.
Add(r) ==
  LET c == [n |-> metered + 1, rule |-> r] IN
  /\ metered < MaxChunks
  /\ metered' = metered + 1
  /\ IF Fits({r}, 1)
       THEN /\ samples' = samples \cup {c}
            /\ pendingBytes' = pendingBytes + 1
            /\ UNCHANGED <<droppedBytes, dropped>>
       ELSE /\ droppedBytes' = droppedBytes + 1
            /\ dropped' = dropped \cup {c}
            /\ UNCHANGED <<samples, pendingBytes>>
  /\ UNCHANGED <<retryBatches, flushFailures, nextReportSeq, flights, restarts>>
  /\ UNCHANGED <<api, done, lost, merged>>

\* flush, up to the request: the first batch to retry, or else everything
\* collected so far under a new report ID.
TakeRetry ==
  /\ retryBatches # <<>>
  /\ flights' = flights \cup {[batch |-> Head(retryBatches), served |-> FALSE]}
  /\ retryBatches' = Tail(retryBatches)
  /\ UNCHANGED <<samples, pendingBytes, nextReportSeq>>
\* Mutant: the samples are not taken out of the buffer.
TakeSamplesCopied ==
  /\ retryBatches = <<>> /\ samples # {}
  /\ nextReportSeq' = nextReportSeq + 1
  /\ flights' = flights \cup
       {[batch |-> [reportID |-> nextReportSeq + 1, samples |-> samples,
                    bytes |-> pendingBytes],
         served |-> FALSE]}
  /\ pendingBytes' = 0
  /\ UNCHANGED <<samples, retryBatches>>
TakeSamples ==
  /\ retryBatches = <<>> /\ samples # {}
  /\ nextReportSeq' = nextReportSeq + 1
  /\ flights' = flights \cup
       {[batch |-> [reportID |-> nextReportSeq + 1, samples |-> samples,
                    bytes |-> pendingBytes],
         served |-> FALSE]}
  /\ samples' = {} /\ pendingBytes' = 0
  /\ UNCHANGED retryBatches

\* The ticker, an add that finds many rules in the buffer and Stop all flush,
\* each in a goroutine of its own.
BeginFlush ==
  /\ Cardinality(flights) < MaxFlights
  /\ TakeRetry \/ TakeSamples
  /\ UNCHANGED <<metered, flushFailures, droppedBytes, restarts, api, history>>

\* The answer arrives.
FlushSucceeds(f) ==
  /\ f \in flights /\ f.served
  /\ flights' = flights \ {f}
  /\ flushFailures' = 0
  /\ done' = done \cup f.batch.samples
  /\ UNCHANGED <<metered, samples, pendingBytes, retryBatches, droppedBytes>>
  /\ UNCHANGED <<nextReportSeq, restarts, api, dropped, lost, merged>>

\* The three things a failed flush does with its batch.
Drop(b) ==
  /\ droppedBytes' = droppedBytes + b.bytes
  /\ dropped' = dropped \cup b.samples
  /\ UNCHANGED <<samples, pendingBytes, retryBatches, merged>>
Requeue(b) ==
  /\ retryBatches' = <<b>> \o retryBatches
  /\ UNCHANGED <<samples, pendingBytes, droppedBytes, dropped, merged>>

\* The samples are added one after the other, in any order, and dropped when
\* they do not fit: the rules kept are as many as fit.
Kept(b) ==
  LET Feasible(rules) == Fits(rules, Cardinality(OfRules(b.samples, rules)))
  IN  {rules \in SUBSET RulesOf(b.samples) :
         /\ Feasible(rules)
         /\ \A r \in RulesOf(b.samples) \ rules : ~Feasible(rules \cup {r})}
\* Mutant: what is put back is not added to the pending bytes.
MergeBackUncharged(b) ==
  \E rules \in Kept(b) :
    LET kept == OfRules(b.samples, rules)
        rest == b.samples \ kept
    IN  /\ samples' = samples \cup kept
        /\ droppedBytes' = droppedBytes + Cardinality(rest)
        /\ dropped' = dropped \cup rest
        /\ merged' = merged \cup kept
        /\ UNCHANGED <<pendingBytes, retryBatches>>
MergeBack(b) ==
  \E rules \in Kept(b) :
    LET kept == OfRules(b.samples, rules)
        rest == b.samples \ kept
    IN  /\ samples' = samples \cup kept
        /\ pendingBytes' = pendingBytes + Cardinality(kept)
        /\ droppedBytes' = droppedBytes + Cardinality(rest)
        /\ dropped' = dropped \cup rest
        /\ merged' = merged \cup kept
        /\ UNCHANGED retryBatches

\* Mutant: failures are not counted.
FlushFailsUncounted(f) ==
  /\ f \in flights
  /\ flights' = flights \ {f}
  /\ IF flushFailures + 1 >= MaxFailures THEN Drop(f.batch)
     ELSE IF Len(retryBatches) < MaxFailures THEN Requeue(f.batch)
     ELSE MergeBack(f.batch)
  /\ late' = IF f.served THEN late ELSE late \cup {f.batch}
  /\ UNCHANGED <<metered, flushFailures, nextReportSeq, restarts, owned>>
  /\ UNCHANGED <<markers, counted, done, lost>>

\* The request or its answer is lost, too slow, or the API refuses it.
FlushFails(f) ==
  /\ f \in flights
  /\ flights' = flights \ {f}
  /\ flushFailures' = flushFailures + 1
  /\ IF flushFailures + 1 >= MaxFailures THEN Drop(f.batch)
     ELSE IF Len(retryBatches) < MaxFailures THEN Requeue(f.batch)
     ELSE MergeBack(f.batch)
  /\ late' = IF f.served THEN late ELSE late \cup {f.batch}
  /\ UNCHANGED <<metered, nextReportSeq, restarts, owned, markers, counted>>
  /\ UNCHANGED <<done, lost>>

InMemory ==
  samples \cup (UNION {b.samples : b \in ElementsOf(retryBatches)})
          \cup (UNION {f.batch.samples : f \in flights})

\* The process ends: nothing of the buffer is on disk.
Restart ==
  /\ restarts < MaxRestarts
  /\ restarts' = restarts + 1
  /\ lost' = lost \cup InMemory
  /\ late' = late \cup {f.batch : f \in {g \in flights : ~g.served}}
  /\ samples' = {} /\ pendingBytes' = 0 /\ retryBatches' = <<>>
  /\ flushFailures' = 0 /\ droppedBytes' = 0 /\ flights' = {}
  /\ UNCHANGED <<metered, nextReportSeq, owned, markers, counted>>
  /\ UNCHANGED <<done, dropped, merged>>

-----------------------------------------------------------------------------
(* The API *)

\* Mutant: the marker is written and not looked at.
AccountUnmarked(b) ==
  /\ RulesOf(b.samples) \subseteq owned
  /\ markers' = markers \cup {b.reportID}
  /\ counted' = [n \in DOMAIN counted |->
                    counted[n] + (IF n \in NumbersOf(b.samples) THEN 1 ELSE 0)]

\* agentTraffic: the marker of the report and the additions to the accounts
\* are one transaction; a report that names a rule of another node, or one
\* deleted meanwhile, is refused as a whole.
Account(b) ==
  IF b.reportID \in markers
    THEN UNCHANGED <<markers, counted>>
    ELSE /\ RulesOf(b.samples) \subseteq owned
         /\ markers' = markers \cup {b.reportID}
         /\ counted' = [n \in DOMAIN counted |->
                          counted[n] + (IF n \in NumbersOf(b.samples) THEN 1 ELSE 0)]

Serve(f) ==
  /\ f \in flights /\ ~f.served
  /\ Account(f.batch)
  /\ flights' = (flights \ {f}) \cup {[f EXCEPT !.served = TRUE]}
  /\ UNCHANGED <<metered, buffer, nextReportSeq, restarts, owned, late, history>>

ServeLate(b) ==
  /\ b \in late
  /\ Account(b)
  /\ late' = late \ {b}
  /\ UNCHANGED <<metered, buffer, nextReportSeq, flights, restarts, owned>>
  /\ UNCHANGED history

\* A rule is deleted, or its tunnel enters at another group from now on.
LoseRule(r) ==
  /\ r \in owned
  /\ owned' = owned \ {r}
  /\ UNCHANGED <<metered, buffer, nextReportSeq, flights, restarts>>
  /\ UNCHANGED <<late, markers, counted, history>>

Next ==
  \/ \E r \in Rules : Add(r) \/ LoseRule(r)
  \/ BeginFlush
  \/ \E f \in flights : FlushSucceeds(f) \/ FlushFails(f) \/ Serve(f)
  \/ \E b \in late : ServeLate(b)
  \/ Restart

Spec == Init /\ [][Next]_vars

-----------------------------------------------------------------------------
(* What metering promises *)

Places ==
  {samples, done, dropped, lost}
    \cup {b.samples : b \in ElementsOf(retryBatches)}
    \cup {f.batch.samples : f \in flights}

(***************************************************************************)
(* No chunk vanishes or multiplies inside the agent: each one metered is   *)
(* in the samples, in one batch waiting or under way, reported, counted as *)
(* dropped, or lost with the process, and in one of these only.            *)
(***************************************************************************)
Conserved ==
  /\ NumbersOf(UNION Places) = 1 .. metered
  /\ \A p, q \in Places : p # q => p \cap q = {}
  /\ Cardinality(flights) + Len(retryBatches)
       = Cardinality({f.batch.reportID : f \in flights}
                       \cup {b.reportID : b \in ElementsOf(retryBatches)})

(***************************************************************************)
(* The caps hold and the counters the agent exports are those of what it   *)
(* holds and dropped since its start, merged batches included; every       *)
(* variable has its type.                                                  *)
(***************************************************************************)
BufferBounded ==
  /\ TypeOK
  /\ Cardinality(RulesOf(samples)) <= MaxSamples
  /\ pendingBytes = Cardinality(samples) /\ pendingBytes <= MaxBytes
  /\ Len(retryBatches) <= MaxFailures
  /\ restarts = 0 => droppedBytes = Cardinality(dropped)
  /\ \A b \in ElementsOf(retryBatches) \cup {f.batch : f \in flights} :
       b.bytes = Cardinality(b.samples)

(***************************************************************************)
(* A report is accounted at most once however often it is sent and however *)
(* late it arrives, and what the agent takes for reported was accounted.   *)
(* Only a chunk merged back into the samples after a failed report, which  *)
(* gets a new report ID there, may be accounted again.                     *)
(***************************************************************************)
AccountedOnce ==
  /\ \A n \in 1 .. metered \ NumbersOf(merged) : counted[n] <= 1
  /\ \A n \in NumbersOf(done) : counted[n] >= 1

(***************************************************************************)
(* Fairness: the ticker flushes again and again, and the HTTP client's     *)
(* timeout ends every request.  The API owes nothing.                      *)
(***************************************************************************)
FairSpec ==
  /\ Spec
  /\ WF_vars(BeginFlush)
  /\ WF_vars(\E f \in flights : FlushSucceeds(f) \/ FlushFails(f))

(***************************************************************************)
(* Once nothing more is metered, whatever the API does, refusing a report  *)
(* for ever included, nothing stays in the buffer for ever: it is          *)
(* reported, or dropped and counted.  While metering goes on there is no   *)
(* such promise: flush resets the count of failures when any batch gets    *)
(* through, also while a refused one is under way, and so the refused one  *)
(* may go back to the head of the queue again and again.                   *)
(***************************************************************************)
MeteringPauses == <>[][\A r \in Rules : ~Add(r)]_vars
BufferEmpties == MeteringPauses => []<>(InMemory = {})
=============================================================================
