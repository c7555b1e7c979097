------------------------- MODULE TrafficReport_proofs -------------------------
(***************************************************************************)
(* Proofs about TrafficReport, for any rules, limits, flushes, restarts    *)
(* and number of chunks.                                                   *)
(***************************************************************************)
EXTENDS TrafficReport, FiniteSetTheorems, SequenceTheorems, TLAPS

(***************************************************************************)
(* A batch waits to be retried or is under way, in one place, and no other *)
(* has its report ID.                                                      *)
(***************************************************************************)
Retries == ElementsOf(retryBatches)
Batches == {f.batch : f \in flights} \cup Retries
OnePlace ==
  /\ \A f, g \in flights : f.batch.reportID = g.batch.reportID => f = g
  /\ \A i, j \in 1 .. Len(retryBatches) :
       retryBatches[i].reportID = retryBatches[j].reportID => i = j
  /\ \A f \in flights, b \in Retries : f.batch.reportID # b.reportID
  /\ \A b \in Batches : b.reportID \in 1 .. nextReportSeq

(***************************************************************************)
(* No chunk is in two places, and every chunk is in one.                   *)
(***************************************************************************)
Settled == done \cup dropped \cup lost
Apart ==
  /\ \A b, c \in Batches : b # c => b.samples \cap c.samples = {}
  /\ \A b \in Batches : b.samples \cap (samples \cup Settled) = {}
  /\ samples \cap Settled = {}
  /\ done \cap dropped = {} /\ done \cap lost = {} /\ dropped \cap lost = {}
Held(batches) == UNION {b.samples : b \in batches}
Everything == samples \cup Settled \cup Held(Batches)
Complete == NumbersOf(Everything) = 1 .. metered

(***************************************************************************)
(* The counters are those of the sets they count.                          *)
(***************************************************************************)
Bounded ==
  /\ metered <= MaxChunks
  /\ IsFiniteSet(flights) /\ IsFiniteSet(samples) /\ IsFiniteSet(dropped)
  /\ \A b \in Batches : IsFiniteSet(b.samples) /\ b.bytes = Cardinality(b.samples)
  /\ Cardinality(RulesOf(samples)) <= MaxSamples
  /\ pendingBytes = Cardinality(samples) /\ pendingBytes <= MaxBytes
  /\ Len(retryBatches) <= MaxFailures
  /\ restarts = 0 => droppedBytes = Cardinality(dropped)

(***************************************************************************)
(* Accounting.  A report is one batch, however often it is sent.  A chunk  *)
(* that was not merged is in one report at most, it is not counted while   *)
(* it is in the samples, and once it is counted its report is on record;   *)
(* the chunks of a report on record are counted.                           *)
(***************************************************************************)
Reports == Batches \cup late
OneReport ==
  /\ \A b, c \in Reports : b.reportID = c.reportID => b = c
  /\ \A b \in Reports : b.reportID \in 1 .. nextReportSeq
  /\ markers \subseteq 1 .. nextReportSeq
Single(n) == n \notin NumbersOf(merged)
In(n, b) == n \in NumbersOf(b.samples)
OnRecord ==
  /\ \A n \in 1 .. MaxChunks : n > metered => counted[n] = 0
  /\ \A n \in NumbersOf(samples) : Single(n) =>
       counted[n] = 0 /\ \A b \in Reports : ~In(n, b)
  /\ \A b, c \in Reports : \A n \in NumbersOf(b.samples) : Single(n) /\ In(n, c) => b = c
  /\ \A n \in 1 .. metered : Single(n) => counted[n] <= 1
  /\ \A b \in Reports : \A n \in NumbersOf(b.samples) :
       /\ b.reportID \in markers => counted[n] >= 1
       /\ Single(n) /\ counted[n] >= 1 => b.reportID \in markers
  /\ \A f \in flights : f.served => f.batch.reportID \in markers
  /\ \A n \in NumbersOf(done) : counted[n] >= 1

IInv == TypeOK /\ OnePlace /\ Apart /\ Complete /\ Bounded /\ OneReport /\ OnRecord

-----------------------------------------------------------------------------
(* Sequences and the sets of their elements *)

\* What waits in the retry queue is what its elements are.
LEMMA ElementsInSet ==
  ASSUME NEW S, NEW q \in Seq(S)
  PROVE  ElementsOf(q) \subseteq S
BY ElementOfSeq DEF ElementsOf

\* Taking the first batch off the queue takes that one element.
LEMMA ElementsHeadTail ==
  ASSUME NEW S, NEW q \in Seq(S), q # <<>>
  PROVE  /\ Head(q) \in S /\ Tail(q) \in Seq(S) /\ Len(Tail(q)) = Len(q) - 1
         /\ Head(q) = q[1] /\ 1 \in 1 .. Len(q)
         /\ \A i \in 1 .. Len(Tail(q)) : i + 1 \in 1 .. Len(q) /\ Tail(q)[i] = q[i + 1]
         /\ ElementsOf(q) = {Head(q)} \cup ElementsOf(Tail(q))
<1>1. /\ Head(q) \in S /\ Tail(q) \in Seq(S) /\ Len(Tail(q)) = Len(q) - 1
      /\ Head(q) = q[1] /\ Len(q) \in Nat /\ Len(q) # 0
      /\ \A i \in 1 .. Len(Tail(q)) : Tail(q)[i] = q[i + 1]
  BY HeadTailProperties, LenProperties, EmptySeq
<1>2. \A i \in 1 .. Len(q) : i = 1 \/ (i - 1 \in 1 .. Len(Tail(q)) /\ q[i] = Tail(q)[i - 1])
  BY <1>1
<1>3. DOMAIN q = 1 .. Len(q) /\ DOMAIN Tail(q) = 1 .. Len(Tail(q))
  BY <1>1, LenProperties
<1>4. 1 \in 1 .. Len(q) /\ \A i \in 1 .. Len(Tail(q)) : i + 1 \in 1 .. Len(q)
  BY <1>1
<1>5. ASSUME NEW i \in DOMAIN q PROVE q[i] \in {Head(q)} \cup ElementsOf(Tail(q))
  <2>1. CASE i = 1
    BY <2>1, <1>1
  <2>2. CASE i - 1 \in DOMAIN Tail(q) /\ q[i] = Tail(q)[i - 1]
    BY <2>2 DEF ElementsOf
  <2>3. QED BY <1>2, <1>3, <2>1, <2>2
<1>6. {Head(q)} \cup ElementsOf(Tail(q)) \subseteq ElementsOf(q)
  BY <1>1, <1>4, <1>3 DEF ElementsOf
<1>7. ElementsOf(q) \subseteq {Head(q)} \cup ElementsOf(Tail(q))
  BY <1>5 DEF ElementsOf
<1>8. QED BY <1>1, <1>4, <1>6, <1>7

\* Putting a batch in front of the queue adds that one element.
LEMMA ElementsCons ==
  ASSUME NEW S, NEW q \in Seq(S), NEW b \in S
  PROVE  /\ <<b>> \o q \in Seq(S) /\ Len(<<b>> \o q) = Len(q) + 1
         /\ \A i \in 1 .. Len(q) + 1 :
              (<<b>> \o q)[i] = IF i = 1 THEN b ELSE q[i - 1]
         /\ ElementsOf(<<b>> \o q) = {b} \cup ElementsOf(q)
<1> DEFINE p == <<b>> \o q
<1>1. /\ p \in Seq(S) /\ Len(p) = Len(q) + 1 /\ Len(q) \in Nat
      /\ \A i \in 1 .. Len(q) + 1 : p[i] = IF i = 1 THEN b ELSE q[i - 1]
  <2>1. <<b>> \in Seq(S) /\ Len(<<b>>) = 1 /\ <<b>>[1] = b
    OBVIOUS
  <2>2. Len(q) \in Nat
    BY LenProperties
  <2>3. p \in Seq(S) /\ Len(p) = Len(<<b>>) + Len(q)
    BY <2>1, ConcatProperties
  <2>4. \A i \in 1 .. Len(<<b>>) + Len(q) :
          p[i] = IF i <= Len(<<b>>) THEN <<b>>[i] ELSE q[i - Len(<<b>>)]
    BY <2>1, ConcatProperties
  <2>5. QED BY <2>1, <2>2, <2>3, <2>4
<1> HIDE DEF p
<1>2. DOMAIN p = 1 .. Len(q) + 1 /\ DOMAIN q = 1 .. Len(q)
  BY <1>1, LenProperties
<1>3. ElementsOf(p) \subseteq {b} \cup ElementsOf(q)
  BY <1>1, <1>2 DEF ElementsOf
<1>4. b \in ElementsOf(p)
  <2>1. 1 \in DOMAIN p /\ p[1] = b
    BY <1>1, <1>2
  <2>2. QED BY <2>1 DEF ElementsOf
<1>5. ASSUME NEW i \in DOMAIN q PROVE q[i] \in ElementsOf(p)
  <2>1. i + 1 \in DOMAIN p /\ p[i + 1] = q[i]
    BY <1>1, <1>2
  <2>2. QED BY <2>1 DEF ElementsOf
<1>6. ElementsOf(q) \subseteq ElementsOf(p)
  BY <1>5 DEF ElementsOf
<1>7. ElementsOf(p) = {b} \cup ElementsOf(q)
  BY <1>3, <1>4, <1>6
<1>8. QED BY <1>1, <1>7 DEF p

\* An empty queue holds nothing.
LEMMA ElementsEmpty == ElementsOf(<<>>) = {}
BY DEF ElementsOf

\* What was a chunk, a batch or a flight stays one while chunks are metered.
LEMMA TypesGrow ==
  ASSUME metered \in Nat, metered' \in Nat, metered <= metered'
  PROVE  /\ Chunk \subseteq Chunk' /\ Batch \subseteq Batch'
         /\ Flight \subseteq Flight' /\ Seq(Batch) \subseteq Seq(Batch')
<1>1. Chunk \subseteq Chunk'
  BY DEF Chunk
<1>2. Batch \subseteq Batch'
  BY <1>1 DEF Batch
<1>3. Flight \subseteq Flight'
  BY <1>2 DEF Flight
<1>4. QED BY <1>1, <1>2, <1>3
\* Rules and numbers of a union; the chunks of a set of batches.
LEMMA Unions ==
  /\ \A S, T : RulesOf(S \cup T) = RulesOf(S) \cup RulesOf(T)
  /\ \A S, T : NumbersOf(S \cup T) = NumbersOf(S) \cup NumbersOf(T)
  /\ \A B, b : Held(B \cup {b}) = Held(B) \cup b.samples
  /\ \A B, b : b \in B => Held(B) = Held(B \ {b}) \cup b.samples
  /\ Held({}) = {}
<1>1. \A S, T : RulesOf(S \cup T) = RulesOf(S) \cup RulesOf(T)
  BY DEF RulesOf
<1>2. \A S, T : NumbersOf(S \cup T) = NumbersOf(S) \cup NumbersOf(T)
  BY DEF NumbersOf
<1>3. ASSUME NEW B, NEW b PROVE Held(B \cup {b}) = Held(B) \cup b.samples
  BY DEF Held
<1>4. ASSUME NEW B, NEW b \in B PROVE Held(B) = Held(B \ {b}) \cup b.samples
  <2>1. B = (B \ {b}) \cup {b}
    OBVIOUS
  <2>2. QED BY <2>1, <1>3
<1>5. Held({}) = {}
  BY DEF Held
<1>6. QED BY <1>1, <1>2, <1>3, <1>4, <1>5

\* The batches under way and waiting, and every report, are batches.
LEMMA BatchTypes ==
  ASSUME TypeOK
  PROVE  /\ Batches \subseteq Batch /\ Reports \subseteq Batch
         /\ \A f \in flights : f.batch \in Batches
         /\ Retries \subseteq Batches
<1>1. Retries \subseteq Batch
  BY ElementsInSet DEF TypeOK, Retries
<1>2. \A f \in flights : f.batch \in Batch
  BY DEF TypeOK, Flight
<1>3. QED BY <1>1, <1>2 DEF Batches, Reports, TypeOK

\* The bytes of two disjoint sets of chunks add up.
LEMMA DisjointUnion ==
  ASSUME NEW S, IsFiniteSet(S), NEW T, IsFiniteSet(T), S \cap T = {}
  PROVE  /\ IsFiniteSet(S \cup T) /\ Cardinality(S) \in Nat /\ Cardinality(T) \in Nat
         /\ Cardinality(S \cup T) = Cardinality(S) + Cardinality(T)
<1>1. /\ IsFiniteSet(S \cup T)
      /\ Cardinality(S \cup T) = Cardinality(S) + Cardinality(T) - Cardinality(S \cap T)
  BY FS_Union
<1>2. Cardinality(S \cap T) = 0
  BY FS_EmptySet
<1>3. Cardinality(S) \in Nat /\ Cardinality(T) \in Nat
  BY FS_CardinalityType
<1>4. QED BY <1>1, <1>2, <1>3

-----------------------------------------------------------------------------
(* The invariant holds of every state, one action at a time *)

\* It holds in the initial states.
LEMMA InitInvariant == ASSUME Init PROVE IInv
<1> USE DEF Init
<1>1. Retries = {} /\ Batches = {} /\ Reports = {}
  BY ElementsEmpty DEF Retries, Batches, Reports
<1>2. TypeOK
  BY LimitsAssumption DEF TypeOK
<1>3. OnePlace
  BY <1>1 DEF OnePlace
<1>4. Apart
  BY <1>1 DEF Apart, Settled
<1>5. Complete
  <2>1. Everything = {}
    BY <1>1, Unions DEF Everything, Settled
  <2>2. QED BY <2>1 DEF Complete, NumbersOf
<1>6. Bounded
  <2>1. RulesOf(samples) = {} BY DEF RulesOf
  <2>2. QED BY <1>1, <2>1, FS_EmptySet, LimitsAssumption DEF Bounded
<1>7. OneReport
  BY <1>1 DEF OneReport
<1>8. OnRecord
  BY <1>1 DEF OnRecord, NumbersOf
<1>9. QED BY <1>2, <1>3, <1>4, <1>5, <1>6, <1>7, <1>8 DEF IInv

\* A step that moves no batch leaves each in its one place.
LEMMA NothingMoves ==
  ASSUME UNCHANGED <<flights, retryBatches>>
  PROVE  /\ Batches' = Batches /\ Retries' = Retries
         /\ OnePlace /\ nextReportSeq' = nextReportSeq => OnePlace'
BY DEF Batches, Retries, OnePlace

\* A connection meters bytes: the new chunk is nowhere else.
LEMMA AddInvariant ==
  ASSUME IInv, NEW r \in Rules, Add(r)
  PROVE  IInv'
<1> DEFINE c == [n |-> metered + 1, rule |-> r]
<1> USE DEF IInv
<1>0. /\ metered \in Nat /\ metered' = metered + 1 /\ metered < MaxChunks
      /\ UNCHANGED <<retryBatches, flushFailures, nextReportSeq, flights, restarts>>
      /\ UNCHANGED <<owned, late, markers, counted, done, lost, merged>>
      /\ \/ /\ Fits({r}, 1)
            /\ samples' = samples \cup {c} /\ pendingBytes' = pendingBytes + 1
            /\ UNCHANGED <<droppedBytes, dropped>>
         \/ /\ droppedBytes' = droppedBytes + 1 /\ dropped' = dropped \cup {c}
            /\ UNCHANGED <<samples, pendingBytes>>
  BY DEF Add, TypeOK, api
<1>1. /\ Chunk \subseteq Chunk' /\ Batch \subseteq Batch'
      /\ Flight \subseteq Flight' /\ Seq(Batch) \subseteq Seq(Batch')
  BY <1>0, TypesGrow
<1>2. c \in Chunk' /\ c.n = metered + 1 /\ c.rule = r
  BY <1>0 DEF Chunk
<1> HIDE DEF c
<1>3. TypeOK'
  <2>1. samples' \subseteq Chunk' /\ dropped' \subseteq Chunk'
    BY <1>0, <1>1, <1>2 DEF TypeOK
  <2>2. pendingBytes' \in Nat /\ droppedBytes' \in Nat
    BY <1>0 DEF TypeOK
  <2>3. /\ retryBatches' \in Seq(Batch') /\ flights' \subseteq Flight'
        /\ late' \subseteq Batch'
        /\ done' \subseteq Chunk' /\ lost' \subseteq Chunk' /\ merged' \subseteq Chunk'
    BY <1>0, <1>1 DEF TypeOK
  <2>4. QED BY <2>1, <2>2, <2>3, <1>0 DEF TypeOK
<1>4. Batches' = Batches /\ Retries' = Retries /\ OnePlace'
  BY <1>0, NothingMoves
<1>5. Reports' = Reports
  BY <1>0, <1>4 DEF Reports
<1>6. \A d \in Chunk : d.n <= metered /\ d # c
  BY <1>0, <1>2 DEF Chunk
<1>7. /\ samples \subseteq Chunk /\ Settled \subseteq Chunk
      /\ \A b \in Reports : b.samples \subseteq Chunk
  BY BatchTypes DEF TypeOK, Settled, Batch
<1>8. Apart'
  BY <1>0, <1>4, <1>5, <1>6, <1>7 DEF Apart, Settled, Reports
<1>9. Complete'
  <2>1. Everything' = Everything \cup {c}
    BY <1>0, <1>4 DEF Everything, Settled
  <2>2. NumbersOf({c}) = {metered + 1}
    BY <1>2 DEF NumbersOf
  <2>3. NumbersOf(Everything)' = (1 .. metered) \cup {metered + 1}
    <3>1. NumbersOf(Everything \cup {c}) = NumbersOf(Everything) \cup NumbersOf({c})
      BY Unions
    <3>2. NumbersOf(Everything)' = NumbersOf(Everything \cup {c})
      BY <2>1 DEF NumbersOf
    <3>3. NumbersOf(Everything) = 1 .. metered
      BY DEF Complete
    <3>4. QED BY <3>1, <3>2, <3>3, <2>2
  <2>4. (1 .. metered) \cup {metered + 1} = 1 .. metered'
    BY <1>0
  <2>5. QED BY <2>3, <2>4 DEF Complete
<1>10. Bounded'
  <2>0. metered' <= MaxChunks
    BY <1>0, LimitsAssumption
  <2>1. CASE /\ droppedBytes' = droppedBytes + 1 /\ dropped' = dropped \cup {c}
             /\ UNCHANGED <<samples, pendingBytes>>
    <3>1. IsFiniteSet(dropped') /\ Cardinality(dropped') = Cardinality(dropped) + 1
      BY <2>1, <1>6, <1>7, FS_AddElement DEF Bounded, Settled
    <3>2. restarts' = 0 => droppedBytes' = Cardinality(dropped')
      BY <3>1, <2>1, <1>0 DEF Bounded
    <3>3. QED BY <2>0, <2>1, <3>1, <3>2, <1>0, <1>4 DEF Bounded, RulesOf
  <2>2. CASE Fits({r}, 1) /\ samples' = samples \cup {c}
             /\ UNCHANGED <<droppedBytes, dropped>> /\ pendingBytes' = pendingBytes + 1
    <3>1. RulesOf(samples') = RulesOf(samples) \cup {r}
      BY <2>2, <1>2, Unions DEF RulesOf
    <3>2. Cardinality(RulesOf(samples')) <= MaxSamples
      <4>1. CASE {r} \subseteq RulesOf(samples)
        BY <4>1, <3>1 DEF Bounded
      <4>2. QED BY <4>1, <2>2, <3>1 DEF Fits
    <3>3. /\ IsFiniteSet(samples') /\ Cardinality(samples') = Cardinality(samples) + 1
      BY <2>2, <1>6, <1>7, FS_AddElement DEF Bounded
    <3>4. pendingBytes' <= MaxBytes
      BY <2>2 DEF Fits
    <3>5. pendingBytes' = Cardinality(samples')
      BY <2>2, <3>3 DEF Bounded
    <3>6. QED BY <2>0, <2>2, <3>2, <3>3, <3>4, <3>5, <1>0, <1>4 DEF Bounded
  <2>3. QED BY <2>1, <2>2, <1>0
<1>11. OneReport'
  BY <1>0, <1>5 DEF OneReport
<1>12. OnRecord'
  <2>1. NumbersOf(samples') \subseteq NumbersOf(samples) \cup {metered + 1}
    BY <1>0, <1>2 DEF NumbersOf
  <2>2. counted[metered + 1] = 0 /\ \A b \in Reports : ~In(metered + 1, b)
    BY <1>0, <1>6, <1>7, LimitsAssumption DEF OnRecord, In, NumbersOf
  <2>3. \A n \in 1 .. metered' : n \in 1 .. metered \/ n = metered + 1
    BY <1>0
  <2>4. \A n : Single(n)' <=> Single(n)
    BY <1>0 DEF Single
  <2>5. QED BY <2>1, <2>2, <2>3, <2>4, <1>0, <1>5, LimitsAssumption DEF OnRecord, In
<1>13. QED BY <1>3, <1>4, <1>8, <1>9, <1>10, <1>11, <1>12

\* Reports that stay on record as they were, or are given up, stay one each.
LEMMA ReportsKept ==
  ASSUME OneReport, Reports' \subseteq Reports, UNCHANGED <<markers, nextReportSeq>>
  PROVE  OneReport'
BY DEF OneReport

\* Nothing accounted, no chunk collected: what is on record stays right.
LEMMA RecordKept ==
  ASSUME OnRecord, Reports' \subseteq Reports, samples' \subseteq samples,
         UNCHANGED <<metered, counted, markers, merged>>,
         \A f \in flights' : f.served => f \in flights,
         \A n \in NumbersOf(done') : counted[n] >= 1
  PROVE  OnRecord'
<1>1. \A n : Single(n)' <=> Single(n)
  BY DEF Single
<1>2. NumbersOf(samples') \subseteq NumbersOf(samples)
  BY DEF NumbersOf
<1>3. /\ \A n \in 1 .. MaxChunks : n > metered' => counted'[n] = 0
      /\ \A n \in NumbersOf(samples') : Single(n)' =>
           counted'[n] = 0 /\ \A b \in Reports' : ~In(n, b)
      /\ \A n \in 1 .. metered' : Single(n)' => counted'[n] <= 1
      /\ \A f \in flights' : f.served => f.batch.reportID \in markers'
      /\ \A n \in NumbersOf(done') : counted'[n] >= 1
  BY <1>1, <1>2 DEF OnRecord
<1>4. \A b, c \in Reports' : \A n \in NumbersOf(b.samples) :
        Single(n)' /\ In(n, c) => b = c
  BY <1>1 DEF OnRecord
<1>5. \A b \in Reports' : \A n \in NumbersOf(b.samples) :
       /\ b.reportID \in markers' => counted'[n] >= 1
       /\ Single(n)' /\ counted'[n] >= 1 => b.reportID \in markers'
  BY <1>1 DEF OnRecord
<1>6. QED BY <1>3, <1>4, <1>5 DEF OnRecord, In

\* A flush takes the first batch that waits.
LEMMA TakeRetryInvariant ==
  ASSUME IInv, TakeRetry, UNCHANGED <<metered, flushFailures, droppedBytes>>,
         UNCHANGED <<restarts, api, history>>
  PROVE  IInv'
<1> DEFINE b == Head(retryBatches)
           f == [batch |-> b, served |-> FALSE]
<1> USE DEF IInv
<1>0. /\ retryBatches # <<>> /\ flights' = flights \cup {f}
      /\ retryBatches' = Tail(retryBatches)
      /\ UNCHANGED <<samples, pendingBytes, nextReportSeq, metered, flushFailures>>
      /\ UNCHANGED <<droppedBytes, restarts, owned, late, markers, counted>>
      /\ UNCHANGED <<done, dropped, lost, merged>>
  BY DEF TakeRetry, api, history
<1>1. retryBatches \in Seq(Batch) /\ Chunk' = Chunk /\ Batch' = Batch /\ Flight' = Flight
  BY <1>0 DEF TypeOK, Chunk, Batch, Flight
<1>2. /\ b \in Batch /\ retryBatches' \in Seq(Batch)
      /\ Len(retryBatches') = Len(retryBatches) - 1
      /\ Len(retryBatches) \in Nat /\ Len(retryBatches') \in Nat
      /\ b = retryBatches[1] /\ 1 \in 1 .. Len(retryBatches)
      /\ \A i \in 1 .. Len(retryBatches') :
           i + 1 \in 1 .. Len(retryBatches) /\ retryBatches'[i] = retryBatches[i + 1]
      /\ Retries = {b} \cup Retries'
  BY <1>0, <1>1, ElementsHeadTail, LenProperties DEF Retries
<1> HIDE DEF b
<1>3. f \in Flight /\ f.batch = b /\ f.served = FALSE
  BY <1>2 DEF Flight
<1> HIDE DEF f
<1>4. Batches' = Batches /\ Reports' = Reports
  <2>1. Batches' \subseteq Batches /\ Batches \subseteq Batches'
    BY <1>0, <1>2, <1>3 DEF Batches
  <2>2. QED BY <2>1, <1>0 DEF Reports
<1>5. TypeOK'
  BY <1>0, <1>1, <1>2, <1>3 DEF TypeOK
<1>6. OnePlace'
  <2>1. \A g \in flights : g.batch.reportID # b.reportID
    BY <1>2 DEF OnePlace
  <2>2. \A g, h \in flights' : g.batch.reportID = h.batch.reportID => g = h
    BY <2>1, <1>0, <1>3 DEF OnePlace
  <2>3. \A i, j \in 1 .. Len(retryBatches') :
          retryBatches'[i].reportID = retryBatches'[j].reportID => i = j
    BY <1>2 DEF OnePlace
  <2>4. \A c \in Retries' : c.reportID # b.reportID
    <3>1. \A i \in 1 .. Len(retryBatches') : retryBatches'[i].reportID # b.reportID
      BY <1>2 DEF OnePlace
    <3>2. DOMAIN retryBatches' = 1 .. Len(retryBatches')
      BY <1>2, LenProperties
    <3>3. QED BY <3>1, <3>2 DEF Retries, ElementsOf
  <2>5. \A g \in flights', c \in Retries' : g.batch.reportID # c.reportID
    BY <2>4, <1>0, <1>2, <1>3 DEF OnePlace
  <2>6. QED BY <2>2, <2>3, <2>5, <1>0, <1>4 DEF OnePlace
<1>7. Apart' /\ Complete'
  BY <1>0, <1>4 DEF Apart, Settled, Complete, Everything, Held, NumbersOf
<1>8. Bounded'
  <2>1. IsFiniteSet(flights')
    BY <1>0, FS_AddElement DEF Bounded
  <2>2. Len(retryBatches') <= MaxFailures
    BY <1>2, LimitsAssumption DEF Bounded
  <2>3. QED BY <2>1, <2>2, <1>0, <1>4 DEF Bounded, RulesOf
<1>9. OneReport'
  BY <1>0, <1>4, ReportsKept
<1>10. OnRecord'
  <2>1. \A g \in flights' : g.served => g \in flights
    BY <1>0, <1>3
  <2>2. \A n \in NumbersOf(done') : counted[n] >= 1
    BY <1>0 DEF OnRecord
  <2>3. QED BY <2>1, <2>2, <1>0, <1>4, RecordKept
<1>11. QED BY <1>5, <1>6, <1>7, <1>8, <1>9, <1>10

\* A flush takes the samples: they become a batch with a report ID of its own.
LEMMA TakeSamplesInvariant ==
  ASSUME IInv, TakeSamples, UNCHANGED <<metered, flushFailures, droppedBytes>>,
         UNCHANGED <<restarts, api, history>>
  PROVE  IInv'
<1> DEFINE b == [reportID |-> nextReportSeq + 1, samples |-> samples, bytes |-> pendingBytes]
           f == [batch |-> b, served |-> FALSE]
<1> USE DEF IInv
<1>0. /\ nextReportSeq \in Nat /\ nextReportSeq' = nextReportSeq + 1
      /\ flights' = flights \cup {f} /\ samples' = {} /\ pendingBytes' = 0
      /\ UNCHANGED <<retryBatches, metered, flushFailures>>
      /\ UNCHANGED <<droppedBytes, restarts, owned, late, markers, counted>>
      /\ UNCHANGED <<done, dropped, lost, merged>>
  BY DEF TakeSamples, api, history, TypeOK
<1>1. Chunk' = Chunk /\ Batch' = Batch /\ Flight' = Flight
  BY <1>0 DEF Chunk, Batch, Flight
<1>2. /\ b \in Batch /\ b.reportID = nextReportSeq + 1
      /\ b.samples = samples /\ b.bytes = pendingBytes
  BY <1>0 DEF Batch, TypeOK
<1> HIDE DEF b
<1>3. f \in Flight /\ f.batch = b /\ f.served = FALSE
  BY <1>2 DEF Flight
<1> HIDE DEF f
<1>4. Retries' = Retries /\ Batches' = Batches \cup {b} /\ Reports' = Reports \cup {b}
  <2>1. Retries' = Retries
    BY <1>0 DEF Retries
  <2>2. Batches' \subseteq Batches \cup {b} /\ Batches \cup {b} \subseteq Batches'
    BY <2>1, <1>0, <1>3 DEF Batches
  <2>3. QED BY <2>1, <2>2, <1>0 DEF Reports
<1>5. TypeOK'
  BY <1>0, <1>1, <1>2, <1>3 DEF TypeOK
<1>6. \A c \in Reports : c.reportID # b.reportID /\ c.reportID \in 1 .. nextReportSeq
  BY <1>0, <1>2 DEF OneReport
<1>7. b.reportID \notin markers
  BY <1>0, <1>2 DEF OneReport
<1>8. OnePlace'
  <2>1. \A g \in flights : g.batch.reportID # b.reportID
    BY <1>6, BatchTypes DEF Reports
  <2>2. \A c \in Retries : c.reportID # b.reportID
    BY <1>6, BatchTypes DEF Reports
  <2>3. \A c \in Batches' : c.reportID \in 1 .. nextReportSeq'
    BY <1>0, <1>2, <1>4 DEF OnePlace
  <2>4. \A g, h \in flights' : g.batch.reportID = h.batch.reportID => g = h
    BY <2>1, <1>0, <1>3 DEF OnePlace
  <2>5. \A g \in flights', c \in Retries' : g.batch.reportID # c.reportID
    BY <2>2, <1>0, <1>3, <1>4 DEF OnePlace
  <2>6. QED BY <2>3, <2>4, <2>5, <1>0 DEF OnePlace
<1>9. Apart'
  BY <1>0, <1>2, <1>4 DEF Apart, Settled
<1>10. Complete'
  <2>1. Held(Batches') = Held(Batches) \cup samples
    BY <1>2, <1>4, Unions
  <2>2. Everything' = Everything
    BY <2>1, <1>0 DEF Everything, Settled, Held
  <2>3. QED BY <2>2, <1>0 DEF Complete, NumbersOf
<1>11. Bounded'
  <2>1. IsFiniteSet(flights') /\ IsFiniteSet(samples') /\ Cardinality(samples') = 0
    BY <1>0, FS_AddElement, FS_EmptySet DEF Bounded
  <2>2. RulesOf(samples') = {}
    BY <1>0 DEF RulesOf
  <2>3. Cardinality(RulesOf(samples')) <= MaxSamples
    BY <2>2, FS_EmptySet, LimitsAssumption
  <2>4. \A c \in Batches' : IsFiniteSet(c.samples) /\ c.bytes = Cardinality(c.samples)
    BY <1>2, <1>4 DEF Bounded
  <2>5. QED BY <2>1, <2>3, <2>4, <1>0, LimitsAssumption DEF Bounded
<1>12. OneReport'
  <2>1. \A c, d \in Reports' : c.reportID = d.reportID => c = d
    BY <1>4, <1>6 DEF OneReport
  <2>2. /\ \A c \in Reports' : c.reportID \in 1 .. nextReportSeq'
        /\ markers' \subseteq 1 .. nextReportSeq'
    BY <1>0, <1>2, <1>4, <1>6 DEF OneReport
  <2>3. QED BY <2>1, <2>2 DEF OneReport
<1>13. OnRecord'
  <2>1. \A n : Single(n)' <=> Single(n)
    BY <1>0 DEF Single
  <2>2. NumbersOf(samples') = {}
    BY <1>0 DEF NumbersOf
  <2>3. \A n : In(n, b) <=> n \in NumbersOf(samples)
    BY <1>2 DEF In
  <2>4. \A n \in NumbersOf(samples) : Single(n) =>
          counted[n] = 0 /\ \A c \in Reports : n \notin NumbersOf(c.samples)
    BY DEF OnRecord, In
  <2>5. ASSUME NEW c \in Reports', NEW d \in Reports', NEW n \in NumbersOf(c.samples),
               Single(n), In(n, d)
        PROVE  c = d
    <3>1. CASE c \in Reports /\ d \in Reports
      BY <2>5, <3>1 DEF OnRecord
    <3>2. CASE c = b /\ d \in Reports
      BY <2>4, <2>5, <3>2, <1>2 DEF In
    <3>3. CASE c \in Reports /\ d = b
      BY <2>4, <2>5, <3>3, <1>2 DEF In
    <3>4. QED BY <3>1, <3>2, <3>3, <1>4
  <2>6. ASSUME NEW c \in Reports', NEW n \in NumbersOf(c.samples)
        PROVE  /\ c.reportID \in markers => counted[n] >= 1
               /\ Single(n) /\ counted[n] >= 1 => c.reportID \in markers
    <3>1. CASE c \in Reports
      BY <2>6, <3>1 DEF OnRecord
    <3>2. CASE c = b
      BY <2>4, <2>6, <3>2, <1>2, <1>7
    <3>3. QED BY <3>1, <3>2, <1>4
  <2>7. \A g \in flights' : g.served => g.batch.reportID \in markers'
    BY <1>0, <1>3 DEF OnRecord
  <2>8. /\ \A n \in 1 .. MaxChunks : n > metered' => counted'[n] = 0
        /\ \A n \in 1 .. metered' : Single(n)' => counted'[n] <= 1
        /\ \A n \in NumbersOf(done') : counted'[n] >= 1
    BY <2>1, <1>0 DEF OnRecord, NumbersOf
  <2>9. \A c, d \in Reports' : \A n \in NumbersOf(c.samples) :
          Single(n)' /\ In(n, d) => c = d
    BY <2>1, <2>5
  <2>10. \A c \in Reports' : \A n \in NumbersOf(c.samples) :
       /\ c.reportID \in markers' => counted'[n] >= 1
       /\ Single(n)' /\ counted'[n] >= 1 => c.reportID \in markers'
    BY <2>1, <2>6, <1>0
  <2>11. QED BY <2>2, <2>7, <2>8, <2>9, <2>10 DEF OnRecord, In
<1>14. QED BY <1>5, <1>8, <1>9, <1>10, <1>11, <1>12, <1>13

\* The batch of a flight that ends is nowhere else.
LEMMA FlightEnds ==
  ASSUME TypeOK, OnePlace, NEW f \in flights, flights' = flights \ {f},
         UNCHANGED <<retryBatches, nextReportSeq>>
  PROVE  /\ Batches' = Batches \ {f.batch} /\ Retries' = Retries
         /\ f.batch \in Batches /\ f.batch \in Batch /\ OnePlace'
<1>1. Retries' = Retries
  BY DEF Retries
<1>2. \A g \in flights' : g.batch # f.batch
  BY DEF OnePlace
<1>3. f.batch \notin Retries
  BY DEF OnePlace
<1>4. Batches' \subseteq Batches \ {f.batch} /\ Batches \ {f.batch} \subseteq Batches'
  BY <1>1, <1>2, <1>3 DEF Batches
<1>5. OnePlace'
  BY <1>1, <1>4 DEF OnePlace
<1>6. f.batch \in Batches /\ f.batch \in Batch
  BY BatchTypes
<1>7. QED BY <1>1, <1>4, <1>5, <1>6

\* The chunks of the batch that ends go to the settled ones, whichever: they
\* are apart from the rest, and nothing is gone.
LEMMA EverythingStays ==
  ASSUME NEW b \in Batches, Batches' = Batches \ {b}, metered' = metered, Complete,
         samples' \cup Settled' = samples \cup Settled \cup b.samples
  PROVE  Complete'
<1>1. Held(Batches) = Held(Batches') \cup b.samples
  BY Unions
<1>2. Everything' = Everything
  BY <1>1 DEF Everything, Held
<1>3. QED BY <1>2 DEF Complete, NumbersOf

\* The batches that stay keep their bytes, and fewer flights are finite.
LEMMA FewerBatches ==
  ASSUME Bounded, NEW f \in flights, flights' = flights \ {f}, Batches' \subseteq Batches
  PROVE  /\ IsFiniteSet(flights')
         /\ \A b \in Batches' : IsFiniteSet(b.samples) /\ b.bytes = Cardinality(b.samples)
BY FS_RemoveElement DEF Bounded

\* The answer arrives: the chunks of the batch are reported.
LEMMA FlushSucceedsInvariant ==
  ASSUME IInv, NEW f \in flights, FlushSucceeds(f)
  PROVE  IInv'
<1> USE DEF IInv
<1>0. /\ f.served /\ flights' = flights \ {f} /\ flushFailures' = 0
      /\ done' = done \cup f.batch.samples
      /\ UNCHANGED <<metered, samples, pendingBytes, retryBatches, droppedBytes>>
      /\ UNCHANGED <<nextReportSeq, restarts, owned, late, markers, counted>>
      /\ UNCHANGED <<dropped, lost, merged>>
  BY DEF FlushSucceeds, api
<1>1. Chunk' = Chunk /\ Batch' = Batch /\ Flight' = Flight
  BY <1>0 DEF Chunk, Batch, Flight
<1>2. /\ Batches' = Batches \ {f.batch} /\ Retries' = Retries
      /\ f.batch \in Batches /\ f.batch \in Batch /\ OnePlace'
  BY <1>0, FlightEnds
<1>3. TypeOK'
  <2>1. done' \subseteq Chunk'
    BY <1>0, <1>1, <1>2 DEF TypeOK, Batch
  <2>2. QED BY <2>1, <1>0, <1>1 DEF TypeOK
<1>4. Apart'
  BY <1>0, <1>2 DEF Apart, Settled
<1>5. Complete'
  BY <1>0, <1>2, EverythingStays DEF Settled
<1>6. Bounded'
  <2>1. /\ IsFiniteSet(flights')
        /\ \A b \in Batches' : IsFiniteSet(b.samples) /\ b.bytes = Cardinality(b.samples)
    BY <1>0, <1>2, FewerBatches
  <2>2. QED BY <2>1, <1>0 DEF Bounded, RulesOf
<1>7. Reports' \subseteq Reports
  BY <1>0, <1>2 DEF Reports
<1>8. OneReport'
  BY <1>0, <1>7, ReportsKept
<1>9. OnRecord'
  <2>1. \A n \in NumbersOf(f.batch.samples) : counted[n] >= 1
    BY <1>0, <1>2 DEF OnRecord, Reports
  <2>2. \A n \in NumbersOf(done') : counted[n] >= 1
    BY <2>1, <1>0, Unions DEF OnRecord
  <2>3. \A g \in flights' : g.served => g \in flights
    BY <1>0
  <2>4. QED BY <2>2, <2>3, <1>0, <1>7, RecordKept
<1>10. QED BY <1>2, <1>3, <1>4, <1>5, <1>6, <1>8, <1>9

\* What a failed flush leaves alone.
FailedFlush(f) ==
  /\ flights' = flights \ {f}
  /\ flushFailures' = flushFailures + 1
  /\ late' = IF f.served THEN late ELSE late \cup {f.batch}
  /\ UNCHANGED <<metered, nextReportSeq, restarts, owned, markers, counted>>
  /\ UNCHANGED <<done, lost>>

\* A flush fails once too often: its batch is dropped, and counted.
LEMMA DropInvariant ==
  ASSUME IInv, NEW f \in flights, FailedFlush(f), Drop(f.batch)
  PROVE  IInv'
<1> USE DEF IInv
<1>0. /\ flights' = flights \ {f} /\ flushFailures' = flushFailures + 1
      /\ late' = IF f.served THEN late ELSE late \cup {f.batch}
      /\ UNCHANGED <<metered, nextReportSeq, restarts, owned, markers, counted>>
      /\ UNCHANGED <<done, lost, samples, pendingBytes, retryBatches, merged>>
      /\ droppedBytes' = droppedBytes + f.batch.bytes
      /\ dropped' = dropped \cup f.batch.samples
  BY DEF FailedFlush, Drop
<1>1. Chunk' = Chunk /\ Batch' = Batch /\ Flight' = Flight
  BY <1>0 DEF Chunk, Batch, Flight
<1>2. /\ Batches' = Batches \ {f.batch} /\ Retries' = Retries
      /\ f.batch \in Batches /\ f.batch \in Batch /\ OnePlace'
  BY <1>0, FlightEnds
<1>3. TypeOK'
  <2>1. dropped' \subseteq Chunk' /\ droppedBytes' \in Nat /\ flushFailures' \in Nat
    BY <1>0, <1>1, <1>2 DEF TypeOK, Batch
  <2>2. late' \subseteq Batch'
    BY <1>0, <1>1, <1>2 DEF TypeOK
  <2>3. QED BY <2>1, <2>2, <1>0, <1>1 DEF TypeOK
<1>4. Apart'
  BY <1>0, <1>2 DEF Apart, Settled
<1>5. Complete'
  BY <1>0, <1>2, EverythingStays DEF Settled
<1>6. Bounded'
  <2>1. /\ IsFiniteSet(flights')
        /\ \A b \in Batches' : IsFiniteSet(b.samples) /\ b.bytes = Cardinality(b.samples)
    BY <1>0, <1>2, FewerBatches
  <2>2. /\ IsFiniteSet(f.batch.samples) /\ f.batch.bytes = Cardinality(f.batch.samples)
        /\ IsFiniteSet(dropped) /\ dropped \cap f.batch.samples = {}
    BY <1>2 DEF Bounded, Apart, Settled
  <2>3. /\ IsFiniteSet(dropped')
        /\ Cardinality(dropped') = Cardinality(dropped) + f.batch.bytes
    BY <2>2, <1>0, DisjointUnion
  <2>4. restarts' = 0 => droppedBytes' = Cardinality(dropped')
    BY <2>3, <1>0 DEF Bounded
  <2>5. QED BY <2>1, <2>3, <2>4, <1>0 DEF Bounded, RulesOf
<1>7. Reports' \subseteq Reports
  BY <1>0, <1>2 DEF Reports
<1>8. OneReport'
  BY <1>0, <1>7, ReportsKept
<1>9. OnRecord'
  <2>1. /\ \A n \in NumbersOf(done') : counted[n] >= 1
        /\ \A g \in flights' : g.served => g \in flights
    BY <1>0 DEF OnRecord
  <2>2. QED BY <2>1, <1>0, <1>7, RecordKept
<1>10. QED BY <1>2, <1>3, <1>4, <1>5, <1>6, <1>8, <1>9

\* A flush fails and there is room in the retry queue: its batch goes first.
LEMMA RequeueInvariant ==
  ASSUME IInv, NEW f \in flights, FailedFlush(f), Requeue(f.batch),
         Len(retryBatches) < MaxFailures
  PROVE  IInv'
<1> DEFINE b == f.batch
<1> USE DEF IInv
<1>0. /\ flights' = flights \ {f} /\ flushFailures' = flushFailures + 1
      /\ late' = IF f.served THEN late ELSE late \cup {b}
      /\ UNCHANGED <<metered, nextReportSeq, restarts, owned, markers, counted>>
      /\ UNCHANGED <<done, lost, samples, pendingBytes, droppedBytes, dropped, merged>>
      /\ retryBatches' = <<b>> \o retryBatches
  BY DEF FailedFlush, Requeue
<1>1. Chunk' = Chunk /\ Batch' = Batch /\ Flight' = Flight
  BY <1>0 DEF Chunk, Batch, Flight
<1>2. /\ b \in Batches /\ b \in Batch /\ retryBatches \in Seq(Batch)
      /\ Len(retryBatches) \in Nat
  BY BatchTypes, LenProperties DEF TypeOK
<1>3. /\ retryBatches' \in Seq(Batch) /\ Len(retryBatches') = Len(retryBatches) + 1
      /\ \A i \in 1 .. Len(retryBatches') :
           retryBatches'[i] = IF i = 1 THEN b ELSE retryBatches[i - 1]
      /\ Retries' = {b} \cup Retries
  BY <1>0, <1>2, ElementsCons DEF Retries
<1>4. /\ \A g \in flights' : g.batch.reportID # b.reportID
      /\ \A c \in Retries : c.reportID # b.reportID
  BY <1>0 DEF OnePlace
<1>5. Batches' = Batches /\ Reports' = Reports
  <2>1. Batches' \subseteq Batches /\ Batches \subseteq Batches'
    BY <1>0, <1>2, <1>3 DEF Batches
  <2>2. QED BY <2>1, <1>0, <1>2 DEF Reports
<1>6. TypeOK'
  <2>1. flushFailures' \in Nat /\ late' \subseteq Batch'
    BY <1>0, <1>1, <1>2 DEF TypeOK
  <2>2. QED BY <2>1, <1>0, <1>1, <1>3 DEF TypeOK
<1>7. OnePlace'
  <2>1. \A i \in 1 .. Len(retryBatches) : retryBatches[i] \in Retries
    BY <1>2, LenProperties DEF Retries, ElementsOf
  <2>2. ASSUME NEW i \in 1 .. Len(retryBatches'), NEW j \in 1 .. Len(retryBatches'),
               retryBatches'[i].reportID = retryBatches'[j].reportID
        PROVE  i = j
    <3>1. CASE i = 1 /\ j = 1
      BY <3>1
    <3>2. CASE i = 1 /\ j # 1
      <4>1. j - 1 \in 1 .. Len(retryBatches)
        BY <3>2, <1>2, <1>3
      <4>2. QED BY <4>1, <2>1, <2>2, <3>2, <1>3, <1>4
    <3>3. CASE i # 1 /\ j = 1
      <4>1. i - 1 \in 1 .. Len(retryBatches)
        BY <3>3, <1>2, <1>3
      <4>2. QED BY <4>1, <2>1, <2>2, <3>3, <1>3, <1>4
    <3>4. CASE i # 1 /\ j # 1
      <4>1. i - 1 \in 1 .. Len(retryBatches) /\ j - 1 \in 1 .. Len(retryBatches)
        BY <3>4, <1>2, <1>3
      <4>2. i - 1 = j - 1
        BY <4>1, <2>2, <3>4, <1>3 DEF OnePlace
      <4>3. QED BY <4>2, <1>2, <1>3
    <3>5. QED BY <3>1, <3>2, <3>3, <3>4
  <2>3. \A g \in flights', c \in Retries' : g.batch.reportID # c.reportID
    BY <1>0, <1>3, <1>4 DEF OnePlace
  <2>4. \A g, h \in flights' : g.batch.reportID = h.batch.reportID => g = h
    BY <1>0 DEF OnePlace
  <2>5. QED BY <2>2, <2>3, <2>4, <1>0, <1>5 DEF OnePlace
<1>8. Apart' /\ Complete'
  BY <1>0, <1>5 DEF Apart, Settled, Complete, Everything, Held, NumbersOf
<1>9. Bounded'
  <2>1. IsFiniteSet(flights')
    BY <1>0, FS_RemoveElement DEF Bounded
  <2>2. Len(retryBatches') <= MaxFailures
    BY <1>2, <1>3, LimitsAssumption
  <2>3. QED BY <2>1, <2>2, <1>0, <1>5 DEF Bounded, RulesOf
<1>10. OneReport'
  BY <1>0, <1>5, ReportsKept
<1>11. OnRecord'
  <2>1. /\ \A n \in NumbersOf(done') : counted[n] >= 1
        /\ \A g \in flights' : g.served => g \in flights
    BY <1>0 DEF OnRecord
  <2>2. QED BY <2>1, <1>0, <1>5, RecordKept
<1>12. QED BY <1>6, <1>7, <1>8, <1>9, <1>10, <1>11

\* A flush fails and the retry queue is full: the samples are put back as far
\* as they fit, and may then be reported a second time.
LEMMA MergeBackInvariant ==
  ASSUME IInv, NEW f \in flights, FailedFlush(f), MergeBack(f.batch)
  PROVE  IInv'
<1> DEFINE b == f.batch
<1> USE DEF IInv
<1>a. PICK rules \in Kept(b) :
        LET kept == OfRules(b.samples, rules)
            rest == b.samples \ kept
        IN  /\ samples' = samples \cup kept
            /\ pendingBytes' = pendingBytes + Cardinality(kept)
            /\ droppedBytes' = droppedBytes + Cardinality(rest)
            /\ dropped' = dropped \cup rest
            /\ merged' = merged \cup kept
            /\ UNCHANGED retryBatches
  BY DEF MergeBack
<1>b. PICK kept : kept = OfRules(b.samples, rules)
  OBVIOUS
<1>c. PICK rest : rest = b.samples \ kept
  OBVIOUS
<1>0. /\ flights' = flights \ {f} /\ flushFailures' = flushFailures + 1
      /\ late' = IF f.served THEN late ELSE late \cup {b}
      /\ UNCHANGED <<metered, nextReportSeq, restarts, owned, markers, counted>>
      /\ UNCHANGED <<done, lost, retryBatches>>
      /\ samples' = samples \cup kept
      /\ pendingBytes' = pendingBytes + Cardinality(kept)
      /\ droppedBytes' = droppedBytes + Cardinality(rest)
      /\ dropped' = dropped \cup rest /\ merged' = merged \cup kept
  BY <1>a, <1>b, <1>c DEF FailedFlush
<1>1. Chunk' = Chunk /\ Batch' = Batch /\ Flight' = Flight
  BY <1>0 DEF Chunk, Batch, Flight
<1>2. /\ Batches' = Batches \ {b} /\ Retries' = Retries
      /\ b \in Batches /\ b \in Batch /\ OnePlace'
  BY <1>0, FlightEnds
<1>3. /\ Fits(rules, Cardinality(kept)) /\ rules \subseteq RulesOf(b.samples)
  BY <1>b DEF Kept
<1>4. /\ kept \subseteq b.samples /\ rest \subseteq b.samples
      /\ kept \cup rest = b.samples /\ kept \cap rest = {}
  BY <1>b, <1>c DEF OfRules
<1>5. RulesOf(kept) = rules
  BY <1>3, <1>b DEF RulesOf, OfRules
<1>6. /\ IsFiniteSet(b.samples) /\ IsFiniteSet(kept) /\ IsFiniteSet(rest)
      /\ Cardinality(kept) \in Nat /\ Cardinality(rest) \in Nat
  <2>1. IsFiniteSet(b.samples)
    BY <1>2 DEF Bounded
  <2>2. IsFiniteSet(kept) /\ IsFiniteSet(rest)
    BY <2>1, <1>4, FS_Subset
  <2>3. QED BY <2>1, <2>2, FS_CardinalityType
<1>7. b.samples \cap (samples \cup Settled) = {}
  BY <1>2 DEF Apart
<1>8. TypeOK'
  <2>1. /\ samples' \subseteq Chunk' /\ dropped' \subseteq Chunk' /\ merged' \subseteq Chunk'
    BY <1>0, <1>1, <1>2, <1>4 DEF TypeOK, Batch
  <2>2. pendingBytes' \in Nat /\ droppedBytes' \in Nat /\ flushFailures' \in Nat
    BY <1>0, <1>6 DEF TypeOK
  <2>3. late' \subseteq Batch'
    BY <1>0, <1>1, <1>2 DEF TypeOK
  <2>4. QED BY <2>1, <2>2, <2>3, <1>0, <1>1 DEF TypeOK
<1>9. Apart'
  <2>1. \A c \in Batches' : c.samples \cap b.samples = {}
    BY <1>2 DEF Apart
  <2>2. \A c \in Batches' : c.samples \cap (samples' \cup Settled') = {}
    BY <2>1, <1>0, <1>2, <1>4 DEF Apart, Settled
  <2>3. samples' \cap Settled' = {}
    BY <1>0, <1>4, <1>7 DEF Apart, Settled
  <2>4. /\ done' \cap dropped' = {} /\ done' \cap lost' = {} /\ dropped' \cap lost' = {}
    BY <1>0, <1>4, <1>7 DEF Apart, Settled
  <2>5. QED BY <2>2, <2>3, <2>4, <1>2 DEF Apart
<1>10. Complete'
  <2>1. samples' \cup Settled' = samples \cup Settled \cup b.samples
    BY <1>0, <1>4 DEF Settled
  <2>2. QED BY <2>1, <1>0, <1>2, EverythingStays
<1>11. Bounded'
  <2>1. /\ IsFiniteSet(flights')
        /\ \A c \in Batches' : IsFiniteSet(c.samples) /\ c.bytes = Cardinality(c.samples)
    BY <1>0, <1>2, FewerBatches
  <2>2. /\ IsFiniteSet(samples')
        /\ Cardinality(samples') = Cardinality(samples) + Cardinality(kept)
    <3>1. samples \cap kept = {} /\ IsFiniteSet(samples)
      BY <1>4, <1>7 DEF Bounded
    <3>2. QED BY <3>1, <1>0, <1>6, DisjointUnion
  <2>3. /\ IsFiniteSet(dropped')
        /\ Cardinality(dropped') = Cardinality(dropped) + Cardinality(rest)
    <3>1. dropped \cap rest = {} /\ IsFiniteSet(dropped)
      BY <1>4, <1>7 DEF Bounded, Settled
    <3>2. QED BY <3>1, <1>0, <1>6, DisjointUnion
  <2>4. RulesOf(samples') = RulesOf(samples) \cup rules
    BY <1>0, <1>5, Unions
  <2>5. Cardinality(RulesOf(samples')) <= MaxSamples
    <3>1. CASE rules \subseteq RulesOf(samples)
      <4>1. RulesOf(samples') = RulesOf(samples)
        BY <3>1, <2>4
      <4>2. QED BY <4>1 DEF Bounded
    <3>2. CASE Cardinality(RulesOf(samples) \cup rules) <= MaxSamples
      BY <3>2, <2>4
    <3>3. QED BY <3>1, <3>2, <1>3 DEF Fits
  <2>6. pendingBytes' = Cardinality(samples') /\ pendingBytes' <= MaxBytes
    BY <2>2, <1>0, <1>3 DEF Bounded, Fits
  <2>7. restarts' = 0 => droppedBytes' = Cardinality(dropped')
    BY <2>3, <1>0 DEF Bounded
  <2>8. QED BY <2>1, <2>2, <2>3, <2>5, <2>6, <2>7, <1>0 DEF Bounded
<1>12. Reports' \subseteq Reports
  BY <1>0, <1>2 DEF Reports
<1>13. OneReport'
  BY <1>0, <1>12, ReportsKept
<1>14. OnRecord'
  <2>1. \A n : Single(n)' => Single(n) /\ n \notin NumbersOf(kept)
    BY <1>0, Unions DEF Single
  <2>2. NumbersOf(samples') = NumbersOf(samples) \cup NumbersOf(kept)
    BY <1>0, Unions
  <2>3. /\ \A n \in 1 .. MaxChunks : n > metered' => counted'[n] = 0
        /\ \A n \in 1 .. metered' : Single(n)' => counted'[n] <= 1
        /\ \A g \in flights' : g.served => g.batch.reportID \in markers'
        /\ \A n \in NumbersOf(done') : counted'[n] >= 1
    BY <2>1, <1>0 DEF OnRecord
  <2>4. \A n \in NumbersOf(samples') : Single(n)' =>
           counted'[n] = 0 /\ \A c \in Reports' : ~In(n, c)
    BY <2>1, <2>2, <1>0, <1>12 DEF OnRecord
  <2>5. \A c, d \in Reports' : \A n \in NumbersOf(c.samples) :
          Single(n)' /\ In(n, d) => c = d
    BY <2>1, <1>12 DEF OnRecord
  <2>6. \A c \in Reports' : \A n \in NumbersOf(c.samples) :
       /\ c.reportID \in markers' => counted'[n] >= 1
       /\ Single(n)' /\ counted'[n] >= 1 => c.reportID \in markers'
    BY <2>1, <1>0, <1>12 DEF OnRecord
  <2>7. QED BY <2>3, <2>4, <2>5, <2>6 DEF OnRecord, In
<1>15. QED BY <1>2, <1>8, <1>9, <1>10, <1>11, <1>13, <1>14

\* The request or its answer is lost: one of the three.
LEMMA FlushFailsInvariant ==
  ASSUME IInv, NEW f \in flights, FlushFails(f)
  PROVE  IInv'
<1>1. FailedFlush(f)
  BY DEF FlushFails, FailedFlush
<1>2. CASE Drop(f.batch)
  BY <1>1, <1>2, DropInvariant
<1>3. CASE Len(retryBatches) < MaxFailures /\ Requeue(f.batch)
  BY <1>1, <1>3, RequeueInvariant
<1>4. CASE MergeBack(f.batch)
  BY <1>1, <1>4, MergeBackInvariant
<1>5. QED BY <1>2, <1>3, <1>4 DEF FlushFails

\* The process ends: what was in memory is lost, and what was on its way is late.
LEMMA RestartInvariant ==
  ASSUME IInv, Restart
  PROVE  IInv'
<1> USE DEF IInv
<1>0. /\ restarts' = restarts + 1 /\ lost' = lost \cup InMemory
      /\ late' = late \cup {f.batch : f \in {g \in flights : ~g.served}}
      /\ samples' = {} /\ pendingBytes' = 0 /\ retryBatches' = <<>>
      /\ flushFailures' = 0 /\ droppedBytes' = 0 /\ flights' = {}
      /\ UNCHANGED <<metered, nextReportSeq, owned, markers, counted>>
      /\ UNCHANGED <<done, dropped, merged>>
  BY DEF Restart
<1>1. Chunk' = Chunk /\ Batch' = Batch /\ Flight' = Flight
  BY <1>0 DEF Chunk, Batch, Flight
<1>2. Retries' = {} /\ Batches' = {}
  BY <1>0, ElementsEmpty DEF Retries, Batches
<1>3. late' \subseteq Reports /\ Reports' \subseteq Reports
  <2>1. \A f \in flights : f.batch \in Reports
    BY DEF Reports, Batches
  <2>2. late' \subseteq Reports
    BY <2>1, <1>0 DEF Reports
  <2>3. QED BY <2>2, <1>2 DEF Reports
<1>4. InMemory = samples \cup Held(Batches)
  <2> DEFINE waiting == UNION {b.samples : b \in ElementsOf(retryBatches)}
             flying == UNION {f.batch.samples : f \in flights}
  <2>1. InMemory = samples \cup waiting \cup flying
    BY DEF InMemory
  <2>2. waiting = Held(Retries)
    BY DEF Held, Retries
  <2>3. flying = Held({f.batch : f \in flights})
    <3>1. {f.batch.samples : f \in flights} = {b.samples : b \in {f.batch : f \in flights}}
      OBVIOUS
    <3>2. QED BY <3>1 DEF Held
  <2> HIDE DEF waiting, flying
  <2>4. \A B, C : Held(B \cup C) = Held(B) \cup Held(C)
    BY DEF Held
  <2>5. QED BY <2>1, <2>2, <2>3, <2>4 DEF Batches
<1>5. Held(Batches) \subseteq Chunk
  BY BatchTypes DEF Held, Batch
<1>6. TypeOK'
  <2>1. late' \subseteq Batch'
    BY <1>1, <1>3, BatchTypes
  <2>2. lost' \subseteq Chunk'
    BY <1>0, <1>1, <1>4, <1>5 DEF TypeOK
  <2>3. retryBatches' \in Seq(Batch') /\ restarts' \in Nat
    BY <1>0 DEF TypeOK
  <2>4. QED BY <2>1, <2>2, <2>3, <1>0, <1>1 DEF TypeOK
<1>7. OnePlace'
  BY <1>0, <1>2 DEF OnePlace
<1>8. Apart'
  <2>1. (samples \cup Held(Batches)) \cap (done \cup dropped) = {}
    BY DEF Apart, Held, Settled
  <2>2. QED BY <2>1, <1>0, <1>2, <1>4 DEF Apart, Settled
<1>9. Complete'
  <2>1. Held(Batches') = {}
    BY <1>2, Unions
  <2>2. Everything' = Everything
    BY <2>1, <1>0, <1>4 DEF Everything, Settled
  <2>3. QED BY <2>2, <1>0 DEF Complete, NumbersOf
<1>10. Bounded'
  <2>1. RulesOf(samples') = {}
    BY <1>0 DEF RulesOf
  <2>2. Cardinality(RulesOf(samples')) <= MaxSamples
    BY <2>1, FS_EmptySet, LimitsAssumption
  <2>3. restarts' # 0
    BY <1>0 DEF TypeOK
  <2>4. Len(retryBatches') <= MaxFailures
    BY <1>0, LimitsAssumption
  <2>5. QED BY <2>2, <2>3, <2>4, <1>0, <1>2, FS_EmptySet, LimitsAssumption DEF Bounded
<1>11. OneReport'
  BY <1>0, <1>3, ReportsKept
<1>12. OnRecord'
  <2>1. \A n \in NumbersOf(done') : counted[n] >= 1
    BY <1>0 DEF OnRecord
  <2>2. QED BY <2>1, <1>0, <1>3, RecordKept
<1>13. QED BY <1>6, <1>7, <1>8, <1>9, <1>10, <1>11, <1>12

\* The API accounts a report, or finds its marker.
LEMMA AccountRecords ==
  ASSUME IInv, NEW b \in Reports, Account(b), Reports' \subseteq Reports,
         UNCHANGED <<metered, nextReportSeq, samples, done, merged>>,
         \A f \in flights' : f.served => f \in flights \/ f.batch = b
  PROVE  /\ markers' \subseteq Nat /\ counted' \in [1 .. MaxChunks -> Nat]
         /\ OneReport' /\ OnRecord'
<1> USE DEF IInv
<1>1. /\ counted \in [1 .. MaxChunks -> Nat] /\ markers \subseteq Nat
      /\ b.reportID \in Nat /\ nextReportSeq \in Nat
  BY BatchTypes DEF TypeOK, Batch
<1>2. b.reportID \in markers'
  BY DEF Account
<1>3. \A f \in flights' : f.served => f.batch.reportID \in markers'
  BY <1>2 DEF Account, OnRecord
<1>4. CASE b.reportID \in markers
  <2>1. UNCHANGED <<markers, counted>>
    BY <1>4 DEF Account
  <2>2. OneReport'
    BY <2>1, ReportsKept
  <2>3. \A n : Single(n)' <=> Single(n)
    BY DEF Single
  <2>4. /\ \A c, d \in Reports' : \A n \in NumbersOf(c.samples) :
              Single(n)' /\ In(n, d) => c = d
        /\ \A c \in Reports' : \A n \in NumbersOf(c.samples) :
              /\ c.reportID \in markers' => counted'[n] >= 1
              /\ Single(n)' /\ counted'[n] >= 1 => c.reportID \in markers'
    BY <2>1, <2>3 DEF OnRecord
  <2>5. /\ \A n \in 1 .. MaxChunks : n > metered' => counted'[n] = 0
        /\ \A n \in NumbersOf(samples') : Single(n)' =>
             counted'[n] = 0 /\ \A c \in Reports' : ~In(n, c)
        /\ \A n \in 1 .. metered' : Single(n)' => counted'[n] <= 1
        /\ \A n \in NumbersOf(done') : counted'[n] >= 1
    BY <2>1, <2>3 DEF OnRecord, NumbersOf
  <2>6. OnRecord'
    BY <2>4, <2>5, <1>3 DEF OnRecord, In
  <2>7. QED BY <1>1, <2>1, <2>2, <2>6
<1>5. CASE b.reportID \notin markers
  <2>1. /\ markers' = markers \cup {b.reportID}
        /\ counted' \in [1 .. MaxChunks -> Nat]
        /\ \A n \in 1 .. MaxChunks :
             counted'[n] = counted[n] + (IF n \in NumbersOf(b.samples) THEN 1 ELSE 0)
    BY <1>1, <1>5 DEF Account
  <2>2. OneReport'
    BY <2>1 DEF OneReport
  <2>3. \A n : Single(n)' <=> Single(n)
    BY DEF Single
  <2>4. \A c \in Reports : NumbersOf(c.samples) \subseteq 1 .. metered
    BY BatchTypes DEF Batch, Chunk, NumbersOf
  <2>5. 1 .. metered \subseteq 1 .. MaxChunks /\ metered \in Nat
    BY LimitsAssumption DEF Bounded, TypeOK
  <2>6. NumbersOf(samples') \subseteq 1 .. metered /\ NumbersOf(done') \subseteq 1 .. metered
    BY DEF TypeOK, Chunk, NumbersOf
  <2>7. \A n \in NumbersOf(b.samples) : Single(n) => counted[n] = 0
    BY <1>1, <1>5, <2>4, <2>5 DEF OnRecord
  <2>8. \A n \in 1 .. MaxChunks : n > metered' => counted'[n] = 0
    <3>1. \A n \in 1 .. MaxChunks : n > metered => n \notin NumbersOf(b.samples)
      BY <2>4, <2>5
    <3>2. QED BY <3>1, <2>1, <1>1 DEF OnRecord
  <2>9. \A n \in NumbersOf(samples') : Single(n)' =>
             counted'[n] = 0 /\ \A c \in Reports' : ~In(n, c)
    BY <2>1, <2>3, <2>5, <2>6, <1>1 DEF OnRecord, In
  <2>10. \A n \in 1 .. metered' : Single(n)' => counted'[n] <= 1
    BY <2>1, <2>3, <2>5, <2>7, <1>1 DEF OnRecord
  <2>11. \A n \in NumbersOf(done') : counted'[n] >= 1
    BY <2>1, <2>5, <2>6, <1>1 DEF OnRecord
  <2>12. \A c, d \in Reports' : \A n \in NumbersOf(c.samples) :
              Single(n)' /\ In(n, d) => c = d
    BY <2>3 DEF OnRecord
  <2>13. ASSUME NEW c \in Reports', NEW n \in NumbersOf(c.samples)
         PROVE  /\ c.reportID \in markers' => counted'[n] >= 1
                /\ Single(n) /\ counted'[n] >= 1 => c.reportID \in markers'
    <3>1. n \in 1 .. MaxChunks
      BY <2>4, <2>5, <2>13
    <3>2. c.reportID = b.reportID => c = b
      BY DEF OneReport
    <3>3. Single(n) /\ In(n, b) => c = b
      BY <2>13 DEF OnRecord
    <3>4. /\ c.reportID \in markers => counted[n] >= 1
          /\ Single(n) /\ counted[n] >= 1 => c.reportID \in markers
      BY <2>13 DEF OnRecord
    <3>5. QED BY <3>1, <3>2, <3>3, <3>4, <2>1, <2>13, <1>1, <1>2 DEF In
  <2>14. \A c \in Reports' : \A n \in NumbersOf(c.samples) :
              /\ c.reportID \in markers' => counted'[n] >= 1
              /\ Single(n)' /\ counted'[n] >= 1 => c.reportID \in markers'
    BY <2>3, <2>13
  <2>15. OnRecord'
    BY <2>8, <2>9, <2>10, <2>11, <2>12, <2>14, <1>3 DEF OnRecord, In
  <2>16. QED BY <1>1, <2>1, <2>2, <2>15
<1>6. QED BY <1>4, <1>5

\* A request arrives while the agent waits for it.
LEMMA ServeInvariant ==
  ASSUME IInv, NEW f \in flights, Serve(f)
  PROVE  IInv'
<1> DEFINE g == [f EXCEPT !.served = TRUE]
<1> USE DEF IInv
<1>0. /\ Account(f.batch) /\ flights' = (flights \ {f}) \cup {g}
      /\ UNCHANGED <<metered, samples, pendingBytes, retryBatches, flushFailures>>
      /\ UNCHANGED <<droppedBytes, nextReportSeq, restarts, owned, late>>
      /\ UNCHANGED <<done, dropped, lost, merged>>
  BY DEF Serve, buffer, history
<1>1. Chunk' = Chunk /\ Batch' = Batch /\ Flight' = Flight
  BY <1>0 DEF Chunk, Batch, Flight
<1>2. f \in Flight
  BY DEF TypeOK
<1>3. g \in Flight /\ g.batch = f.batch
  BY <1>2 DEF Flight
<1> HIDE DEF g
<1>4. f.batch \in Batches /\ f.batch \in Reports
  BY BatchTypes DEF Reports
<1>5. Retries' = Retries /\ Batches' = Batches /\ Reports' = Reports
  <2>1. Retries' = Retries
    BY <1>0 DEF Retries
  <2>2. Batches' \subseteq Batches /\ Batches \subseteq Batches'
    BY <2>1, <1>0, <1>3 DEF Batches
  <2>3. QED BY <2>1, <2>2, <1>0 DEF Reports
<1>6. \A h \in flights' : h.served => h \in flights \/ h.batch = f.batch
  BY <1>0, <1>3
<1>7. /\ markers' \subseteq Nat /\ counted' \in [1 .. MaxChunks -> Nat]
      /\ OneReport' /\ OnRecord'
  BY <1>0, <1>4, <1>5, <1>6, AccountRecords
<1>8. TypeOK'
  BY <1>0, <1>1, <1>3, <1>7 DEF TypeOK
<1>9. OnePlace'
  <2>1. \A h \in flights : h.batch.reportID = g.batch.reportID => h = f
    BY <1>3 DEF OnePlace
  <2>2. \A h, k \in flights' : h.batch.reportID = k.batch.reportID => h = k
    BY <2>1, <1>0, <1>3 DEF OnePlace
  <2>3. \A h \in flights', c \in Retries' : h.batch.reportID # c.reportID
    BY <1>0, <1>3, <1>5 DEF OnePlace
  <2>4. QED BY <2>2, <2>3, <1>0, <1>5 DEF OnePlace
<1>10. Apart' /\ Complete'
  BY <1>0, <1>5 DEF Apart, Settled, Complete, Everything, Held, NumbersOf
<1>11. Bounded'
  <2>1. IsFiniteSet(flights')
    BY <1>0, FS_RemoveElement, FS_AddElement DEF Bounded
  <2>2. QED BY <2>1, <1>0, <1>5 DEF Bounded, RulesOf
<1>12. QED BY <1>7, <1>8, <1>9, <1>10, <1>11

\* A request the agent gave up on arrives after all.
LEMMA ServeLateInvariant ==
  ASSUME IInv, NEW b \in late, ServeLate(b)
  PROVE  IInv'
<1> USE DEF IInv
<1>0. /\ Account(b) /\ late' = late \ {b}
      /\ UNCHANGED <<metered, samples, pendingBytes, retryBatches, flushFailures>>
      /\ UNCHANGED <<droppedBytes, nextReportSeq, flights, restarts, owned>>
      /\ UNCHANGED <<done, dropped, lost, merged>>
  BY DEF ServeLate, buffer, history
<1>1. Chunk' = Chunk /\ Batch' = Batch /\ Flight' = Flight
  BY <1>0 DEF Chunk, Batch, Flight
<1>2. Retries' = Retries /\ Batches' = Batches /\ OnePlace'
  BY <1>0, NothingMoves
<1>3. Reports' \subseteq Reports /\ b \in Reports
  BY <1>0, <1>2 DEF Reports
<1>4. /\ markers' \subseteq Nat /\ counted' \in [1 .. MaxChunks -> Nat]
      /\ OneReport' /\ OnRecord'
  BY <1>0, <1>3, AccountRecords
<1>5. TypeOK'
  BY <1>0, <1>1, <1>4 DEF TypeOK
<1>6. Apart' /\ Complete'
  BY <1>0, <1>2 DEF Apart, Settled, Complete, Everything, Held, NumbersOf
<1>7. Bounded'
  BY <1>0, <1>2 DEF Bounded, RulesOf
<1>8. QED BY <1>2, <1>4, <1>5, <1>6, <1>7

\* A step that changes nothing but what the node owns.
LEMMA OwnedOnly ==
  ASSUME IInv, owned' \subseteq owned,
         UNCHANGED <<metered, buffer, nextReportSeq, flights, restarts>>,
         UNCHANGED <<late, markers, counted, history>>
  PROVE  IInv'
<1> USE DEF IInv, buffer, history
<1>1. Chunk' = Chunk /\ Batch' = Batch /\ Flight' = Flight
  BY DEF Chunk, Batch, Flight
<1>2. Retries' = Retries /\ Batches' = Batches /\ Reports' = Reports /\ OnePlace'
  BY NothingMoves DEF Reports
<1>3. TypeOK'
  BY <1>1 DEF TypeOK
<1>4. Apart' /\ Complete'
  BY <1>2 DEF Apart, Settled, Complete, Everything, Held, NumbersOf
<1>5. Bounded' /\ OneReport'
  BY <1>2 DEF Bounded, RulesOf, OneReport
<1>6. OnRecord'
  <2>1. \A n \in NumbersOf(done') : counted[n] >= 1
    BY DEF OnRecord
  <2>2. QED BY <2>1, <1>2, RecordKept
<1>7. QED BY <1>2, <1>3, <1>4, <1>5, <1>6

(***************************************************************************)
(* IInv is an inductive invariant of the specification.                    *)
(***************************************************************************)
THEOREM Inductive == Spec => []IInv
<1>1. ASSUME IInv, [Next]_vars PROVE IInv'
  <2>1. ASSUME NEW r \in Rules, Add(r) PROVE IInv'
    BY <1>1, <2>1, AddInvariant
  <2>2. ASSUME NEW r \in Rules, LoseRule(r) PROVE IInv'
    BY <1>1, <2>2, OwnedOnly DEF LoseRule
  <2>3. CASE BeginFlush
    <3>1. /\ UNCHANGED <<metered, flushFailures, droppedBytes>>
          /\ UNCHANGED <<restarts, api, history>>
      BY <2>3 DEF BeginFlush
    <3>2. CASE TakeRetry
      BY <1>1, <3>1, <3>2, TakeRetryInvariant
    <3>3. CASE TakeSamples
      BY <1>1, <3>1, <3>3, TakeSamplesInvariant
    <3>4. QED BY <2>3, <3>2, <3>3 DEF BeginFlush
  <2>4. ASSUME NEW f \in flights, FlushSucceeds(f) PROVE IInv'
    BY <1>1, <2>4, FlushSucceedsInvariant
  <2>5. ASSUME NEW f \in flights, FlushFails(f) PROVE IInv'
    BY <1>1, <2>5, FlushFailsInvariant
  <2>6. ASSUME NEW f \in flights, Serve(f) PROVE IInv'
    BY <1>1, <2>6, ServeInvariant
  <2>7. ASSUME NEW b \in late, ServeLate(b) PROVE IInv'
    BY <1>1, <2>7, ServeLateInvariant
  <2>8. CASE Restart
    BY <1>1, <2>8, RestartInvariant
  <2>9. CASE UNCHANGED vars
    BY <1>1, <2>9, OwnedOnly DEF vars, api
  <2>10. QED
    BY <1>1, <2>1, <2>2, <2>3, <2>4, <2>5, <2>6, <2>7, <2>8, <2>9 DEF Next
<1>2. QED BY <1>1, InitInvariant, PTL DEF Spec

-----------------------------------------------------------------------------
(* What metering promises *)

\* There are as many report IDs as flights and waiting batches.
LEMMA OneIDEach ==
  ASSUME TypeOK, OnePlace, IsFiniteSet(flights)
  PROVE  Cardinality(flights) + Len(retryBatches)
           = Cardinality({f.batch.reportID : f \in flights}
                           \cup {b.reportID : b \in ElementsOf(retryBatches)})
<1> DEFINE sent == {f.batch.reportID : f \in flights}
           waiting == {b.reportID : b \in ElementsOf(retryBatches)}
           ofFlight == [f \in flights |-> f.batch.reportID]
           indices == 1 .. Len(retryBatches)
           ofIndex == [i \in indices |-> retryBatches[i].reportID]
<1>1. /\ retryBatches \in Seq(Batch) /\ Len(retryBatches) \in Nat
      /\ DOMAIN retryBatches = indices
  BY LenProperties DEF TypeOK
<1>2. ofFlight \in Surjection(flights, sent) /\ ofFlight \in Injection(flights, sent)
  <2>1. ofFlight \in [flights -> sent]
    OBVIOUS
  <2>2. \A x \in sent : \E f \in flights : ofFlight[f] = x
    OBVIOUS
  <2>3. \A f, g \in flights : ofFlight[f] = ofFlight[g] => f = g
    BY DEF OnePlace
  <2>4. QED BY <2>1, <2>2, <2>3 DEF Surjection, Injection, IsInjective
<1>3. ofIndex \in Surjection(indices, waiting) /\ ofIndex \in Injection(indices, waiting)
  <2>1. ofIndex \in [indices -> waiting]
    BY <1>1 DEF ElementsOf
  <2>2. \A x \in waiting : \E i \in indices : ofIndex[i] = x
    BY <1>1 DEF ElementsOf
  <2>3. \A i, j \in indices : ofIndex[i] = ofIndex[j] => i = j
    BY DEF OnePlace
  <2>4. QED BY <2>1, <2>2, <2>3 DEF Surjection, Injection, IsInjective
<1>4. IsFiniteSet(sent) /\ Cardinality(sent) = Cardinality(flights)
  BY <1>2, FS_Surjection
<1>5. IsFiniteSet(indices) /\ Cardinality(indices) = Len(retryBatches)
  BY <1>1, FS_Interval
<1>6. IsFiniteSet(waiting) /\ Cardinality(waiting) = Cardinality(indices)
  BY <1>3, <1>5, FS_Surjection
<1>7. sent \cap waiting = {}
  BY DEF OnePlace, Retries
<1>8. Cardinality(sent \cup waiting) = Cardinality(sent) + Cardinality(waiting)
  BY <1>4, <1>6, <1>7, DisjointUnion
<1>9. QED BY <1>4, <1>5, <1>6, <1>8

(***************************************************************************)
(* Whatever flushes overlap, fail or are cut off by a restart, each chunk  *)
(* the agent's trafficBuffer metered is in one place, and in one only.     *)
(***************************************************************************)
THEOREM NothingVanishes == Spec => []Conserved
<1>1. ASSUME IInv PROVE Conserved
  <2> USE <1>1 DEF IInv
  <2>1. ASSUME NEW p \in Places
        PROVE  \/ p \in {samples, done, dropped, lost}
               \/ \E b \in Batches : p = b.samples
    BY <2>1 DEF Places, Batches, Retries
  <2>2. \A b \in Batches : b.samples \in Places
    BY DEF Places, Batches, Retries
  <2>3. {samples, done, dropped, lost} \subseteq Places
    BY DEF Places
  <2>4. UNION Places = Everything
    <3>1. UNION Places \subseteq Everything
      BY <2>1 DEF Everything, Settled, Held
    <3>2. Held(Batches) \subseteq UNION Places
      BY <2>2 DEF Held
    <3>3. samples \cup Settled \subseteq UNION Places
      BY <2>3 DEF Settled
    <3>4. QED BY <3>1, <3>2, <3>3 DEF Everything
  <2>5. ASSUME NEW p \in Places, NEW q \in Places, p # q PROVE p \cap q = {}
    <3>1. CASE p \in {samples, done, dropped, lost} /\ q \in {samples, done, dropped, lost}
      BY <2>5, <3>1 DEF Apart, Settled
    <3>2. ASSUME NEW b \in Batches, p = b.samples PROVE p \cap q = {}
      <4>1. CASE q \in {samples, done, dropped, lost}
        BY <3>2, <4>1 DEF Apart, Settled
      <4>2. ASSUME NEW c \in Batches, q = c.samples PROVE p \cap q = {}
        BY <2>5, <3>2, <4>2 DEF Apart
      <4>3. QED BY <2>1, <4>1, <4>2
    <3>3. ASSUME NEW c \in Batches, q = c.samples, p \in {samples, done, dropped, lost}
          PROVE  p \cap q = {}
      BY <3>3 DEF Apart, Settled
    <3>4. QED BY <2>1, <3>1, <3>2, <3>3
  <2>6. Cardinality(flights) + Len(retryBatches)
          = Cardinality({f.batch.reportID : f \in flights}
                          \cup {b.reportID : b \in ElementsOf(retryBatches)})
    BY OneIDEach DEF Bounded
  <2>7. NumbersOf(UNION Places) = 1 .. metered
    BY <2>4 DEF Complete
  <2>8. QED BY <2>5, <2>6, <2>7 DEF Conserved
<1>2. QED BY <1>1, Inductive, PTL

(***************************************************************************)
(* The caps of the agent's buffer and of its retry queue hold, batches put *)
(* back included, and its counters are those of what it holds and dropped. *)
(***************************************************************************)
THEOREM BufferIsBounded == Spec => []BufferBounded
<1>1. ASSUME IInv PROVE BufferBounded
  <2> USE <1>1 DEF IInv
  <2>1. ElementsOf(retryBatches) \cup {f.batch : f \in flights} = Batches
    BY DEF Batches, Retries
  <2>2. QED BY <2>1 DEF BufferBounded, Bounded
<1>2. QED BY <1>1, Inductive, PTL

(***************************************************************************)
(* The API accounts a report at most once, and what the agent takes for    *)
(* reported is accounted: a chunk may be accounted again only after the    *)
(* agent put it back into its samples and reported it under a new ID.      *)
(***************************************************************************)
THEOREM CountedOnce == Spec => []AccountedOnce
<1>1. ASSUME IInv PROVE AccountedOnce
  BY <1>1 DEF IInv, OnRecord, Single, AccountedOnce
<1>2. QED BY <1>1, Inductive, PTL
=============================================================================
