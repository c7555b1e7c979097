---------------------------- MODULE DpiFlow_proofs ----------------------------
(***************************************************************************)
(* Proofs about DpiFlow, for any policies, table sizes, numbers of packets *)
(* and connections, and any number of restarts and late requests.          *)
(***************************************************************************)
EXTENDS DpiFlow, FiniteSetTheorems, SequenceTheorems, TLAPS

(***************************************************************************)
(* The packets: a connection that may be inspected has a packet left to    *)
(* inspect, a flow that is not final one to process; a packet that waits   *)
(* has a decision of the policy, and a verdict that stays is there.        *)
(***************************************************************************)
ConnCounted(conn) ==
  /\ conn.waiting \in Builtins \cup {None}
  /\ conn.latched => conn.waiting = None /\ conn.verdict # None
  /\ ~conn.latched /\ conn.waiting = None => conn.packets < InspectPackets
FlowCounted(flow) == ~flow.final => flow.packets < setup.maxPackets
Counted(id) ==
  /\ conns[id] # None => ConnCounted(conns[id])
  /\ table.flow[id] # None => FlowCounted(table.flow[id])

(***************************************************************************)
(* An ID the sidecar did not know from another agent process is that of    *)
(* one connection w: it has the ID, its flow is made of its packets only,  *)
(* as are the requests yet to come.  An ID not given yet is unknown.       *)
(***************************************************************************)
Owns(w, id) ==
  /\ conns[id] # None => conns[id].who = w
  /\ conns[id] # None /\ conns[id].verdict # None => conns[id].verdict.of \subseteq {w}
  /\ table.flow[id] # None => table.flow[id].of \subseteq {w}
  /\ \A r \in late : r.kind = "classify" /\ r.id = id => r.who = w
Fresh(id) ==
  /\ conns[id] = None /\ table.flow[id] = None
  /\ \A r \in late : r.kind = "classify" => r.id # id
Owned(id) ==
  id \notin leftover => (id > sequence => Fresh(id)) /\ \E w \in Conns : Owns(w, id)

(***************************************************************************)
(* The counts of packets on both sides: a flow with packets of a           *)
(* connection has as many as the agent had answers for, until there is a   *)
(* verdict, or the connection is disturbed, as by a late request.          *)
(***************************************************************************)
InStepWith(conn, flow) ==
  \/ ~setup.asks \/ conn.latched \/ conn.disturbed \/ conn.who \notin flow.of \/ flow.final
  \/ flow.packets >= conn.packets
  \/ conn.waiting # None /\ flow.packets + 1 >= conn.packets
InStep(id) ==
  /\ conns[id] # None => conns[id].who <= opened
  /\ conns[id] # None /\ table.flow[id] # None => InStepWith(conns[id], table.flow[id])
  /\ \A r \in late : r.kind = "classify" /\ r.id = id =>
       /\ r.who <= opened
       /\ conns[id] # None /\ conns[id].who = r.who => conns[id].disturbed

(***************************************************************************)
(* VerdictsAreDue, of one connection.                                      *)
(***************************************************************************)
ConnDue(conn) ==
  /\ setup.asks /\ setup.maxPackets <= InspectPackets /\ conn.latched /\ ~conn.disturbed
       => conn.verdict.final
  /\ conn.verdict # None /\ conn.verdict.doubt /\ "block" \notin {setup.unknown, setup.low}
       => conn.verdict.action # "block"
Due(id) == conns[id] # None => ConnDue(conns[id])

(***************************************************************************)
(* The table of the sidecar: its list has the flows there are, each once,  *)
(* from the longest unused, within the limit; to forget flows thins it.    *)
(***************************************************************************)
Table == [flow : [Conns -> Flow \cup {None}], lru : Seq(Conns)]
Members(s) == {s[i] : i \in 1 .. Len(s)}
Distinct(s) == \A i, j \in 1 .. Len(s) : i < j => s[i] # s[j]
Lists(t, size) ==
  Members(t.lru) = Remembered(t) /\ Len(t.lru) <= size /\ Distinct(t.lru)
Aged(t) ==
  \A i, j \in 1 .. Len(t.lru) : i < j => t.flow[t.lru[i]].age >= t.flow[t.lru[j]].age
Thinned(u, s) ==
  \A i, j \in 1 .. Len(u) : i < j =>
    \E k, l \in 1 .. Len(s) : k < l /\ u[i] = s[k] /\ u[j] = s[l]
Listed == table \in Table /\ Lists(table, setup.maxFlows) /\ Aged(table)

Each(id) == Counted(id) /\ Owned(id) /\ InStep(id) /\ Due(id)

IInv == TypeOK /\ (\A id \in Conns : Each(id)) /\ Listed

-----------------------------------------------------------------------------
\* The sizes, one by one.
LEMMA Sizes ==
  /\ InspectPackets \in Nat \ {0} /\ TTL \in Nat \ {0} /\ QueueSize \in Nat \ {0}
  /\ MaxConns \in Nat /\ MaxFaults \in Nat
BY DpiConstants

\* A setup is one of a policy and of options of the sidecar.
LEMMA SetupIs ==
  ASSUME setup \in Setups
  PROVE  /\ setup.maxFlows \in Nat \ {0} /\ setup.unknown \in Actions
         /\ setup.low \in Actions \cup {"keep"}
         /\ setup.asks \in BOOLEAN
         /\ setup.maxPackets \in Nat /\ setup.maxPackets >= 1
BY DpiConstants DEF Setup

-----------------------------------------------------------------------------
(* The list of the sidecar *)

\* The list without the element of an ID keeps the others in their order.
LEMMA WithoutOne ==
  ASSUME NEW s \in Seq(Conns), NEW m \in 1 .. Len(s),
         Distinct(s),
         NEW u, u = Without(s, s[m])
  PROVE  /\ u \in Seq(Conns) /\ Len(u) = Len(s) - 1
         /\ \A i \in 1 .. Len(u) : i < m => u[i] = s[i]
         /\ \A i \in 1 .. Len(u) : i >= m => u[i] = s[i + 1]
<1> DEFINE n == CHOOSE n \in 1 .. Len(s) : s[n] = s[m]
           a == SubSeq(s, 1, m - 1)
           b == SubSeq(s, m + 1, Len(s))
<1>1. Len(s) \in Nat /\ m \in Nat /\ \A i \in 1 .. Len(s) : s[i] \in Conns
  BY LenProperties, ElementOfSeq
<1>2. n \in 1 .. Len(s) /\ s[n] = s[m]
  OBVIOUS
<1>3. n = m
  <2> HIDE DEF n
  <2> QED BY <1>1, <1>2 DEF Distinct
<1>4. u = a \o b
  <2> HIDE DEF n
  <2>1. u = SubSeq(s, 1, n - 1) \o SubSeq(s, n + 1, Len(s))
    BY DEF Without, n
  <2> QED BY <2>1, <1>3
<1>5. /\ a \in Seq(Conns) /\ Len(a) = m - 1
      /\ \A i \in 1 .. m - 1 : a[i] = s[i]
  <2>1. /\ SubSeq(s, 1, m - 1) \in Seq(Conns)
        /\ Len(SubSeq(s, 1, m - 1)) = IF 1 <= m - 1 THEN m - 1 - 1 + 1 ELSE 0
        /\ \A i \in 1 .. m - 1 - 1 + 1 : SubSeq(s, 1, m - 1)[i] = s[1 + i - 1]
    <3>1. 1 \in Int /\ m - 1 \in Int /\ \A i \in 1 .. m - 1 : s[i] \in Conns
      BY <1>1
    <3> QED BY <3>1, SubSeqProperties
  <2> QED BY <2>1, <1>1
<1>6. /\ b \in Seq(Conns) /\ Len(b) = Len(s) - m
      /\ \A i \in 1 .. Len(s) - m : b[i] = s[m + i]
  <2>1. /\ b \in Seq(Conns)
        /\ Len(b) = IF m + 1 <= Len(s) THEN Len(s) - (m + 1) + 1 ELSE 0
        /\ \A i \in 1 .. Len(s) - (m + 1) + 1 : b[i] = s[m + 1 + i - 1]
    <3>1. m + 1 \in Int /\ Len(s) \in Int /\ \A i \in m + 1 .. Len(s) : s[i] \in Conns
      BY <1>1
    <3> QED BY <3>1, SubSeqProperties
  <2> QED BY <2>1, <1>1
<1> HIDE DEF a, b
<1>7. /\ u \in Seq(Conns) /\ Len(u) = Len(a) + Len(b)
      /\ \A i \in 1 .. Len(a) + Len(b) : u[i] = IF i <= Len(a) THEN a[i] ELSE b[i - Len(a)]
  <2>1. a \in Seq(Conns) /\ b \in Seq(Conns)
    BY <1>5, <1>6
  <2>2. /\ a \o b \in Seq(Conns) /\ Len(a \o b) = Len(a) + Len(b)
        /\ \A i \in 1 .. Len(a) + Len(b) :
             (a \o b)[i] = IF i <= Len(a) THEN a[i] ELSE b[i - Len(a)]
    BY <2>1, ConcatProperties
  <2> QED BY <1>4, <2>2
<1>8. ASSUME NEW i \in 1 .. Len(u) PROVE (i < m => u[i] = s[i]) /\ (i >= m => u[i] = s[i + 1])
  <2>1. CASE i < m
    <3>1. i \in 1 .. m - 1 /\ i <= Len(a) /\ i \in 1 .. Len(a) + Len(b)
      BY <2>1, <1>1, <1>5, <1>6, <1>7
    <3>2. u[i] = a[i]
      BY <3>1, <1>7
    <3> QED BY <3>1, <3>2, <2>1, <1>1, <1>5
  <2>2. CASE i >= m
    <3>1. i - (m - 1) \in 1 .. Len(s) - m /\ ~(i <= Len(a)) /\ i \in 1 .. Len(a) + Len(b)
      BY <2>2, <1>1, <1>5, <1>6, <1>7
    <3>2. u[i] = b[i - (m - 1)]
      BY <3>1, <1>7, <1>5
    <3>3. b[i - (m - 1)] = s[m + (i - (m - 1))] /\ m + (i - (m - 1)) = i + 1
      BY <3>1, <1>6, <1>1
    <3> QED BY <3>2, <3>3, <2>2, <1>1
  <2> QED BY <2>1, <2>2, <1>1
<1> QED BY <1>1, <1>5, <1>6, <1>7, <1>8

\* The members of a list without one.
LEMMA WithoutMembers ==
  ASSUME NEW s \in Seq(Conns), NEW m \in 1 .. Len(s),
         Distinct(s),
         NEW u, u = Without(s, s[m])
  PROVE  /\ Members(u) = Members(s) \ {s[m]}
         /\ Thinned(u, s)
<1>1. /\ u \in Seq(Conns) /\ Len(u) = Len(s) - 1
      /\ \A i \in 1 .. Len(u) : i < m => u[i] = s[i]
      /\ \A i \in 1 .. Len(u) : i >= m => u[i] = s[i + 1]
  BY WithoutOne
<1>2. Len(s) \in Nat /\ m \in Nat
  BY LenProperties
<1>3. ASSUME NEW i \in 1 .. Len(u)
      PROVE  \E k \in 1 .. Len(s) : k # m /\ u[i] = s[k]
  <2>1. CASE i < m
    <3>1. i \in 1 .. Len(s) /\ i # m /\ u[i] = s[i]
      BY <2>1, <1>1, <1>2
    <3> QED BY <3>1
  <2>2. CASE i >= m
    <3>1. i + 1 \in 1 .. Len(s) /\ i + 1 # m /\ u[i] = s[i + 1]
      BY <2>2, <1>1, <1>2
    <3> QED BY <3>1
  <2> QED BY <2>1, <2>2, <1>2
<1>4. ASSUME NEW k \in 1 .. Len(s), k # m
      PROVE  \E i \in 1 .. Len(u) : u[i] = s[k]
  <2>1. CASE k < m
    BY <2>1, <1>1, <1>2
  <2>2. CASE k > m
    <3>1. k - 1 \in 1 .. Len(u) /\ k - 1 >= m /\ u[k - 1] = s[k - 1 + 1] /\ k - 1 + 1 = k
      BY <2>2, <1>1, <1>2
    <3> QED BY <3>1
  <2> QED BY <2>1, <2>2, <1>2, <1>4
<1>5. \A k \in 1 .. Len(s) : k # m => s[k] # s[m]
  BY <1>2 DEF Distinct
<1>6. ASSUME NEW i \in 1 .. Len(u), NEW j \in 1 .. Len(u), i < j
      PROVE  \E k, l \in 1 .. Len(s) : k < l /\ u[i] = s[k] /\ u[j] = s[l]
  <2>1. CASE j < m
    <3>1. i \in 1 .. Len(s) /\ j \in 1 .. Len(s) /\ i < m
      BY <2>1, <1>6, <1>1, <1>2
    <3>2. u[i] = s[i] /\ u[j] = s[j]
      BY <2>1, <3>1, <1>1
    <3> QED BY <3>1, <3>2, <1>6
  <2>2. CASE i < m /\ j >= m
    <3>1. i \in 1 .. Len(s) /\ j + 1 \in 1 .. Len(s) /\ i < j + 1
      BY <2>2, <1>6, <1>1, <1>2
    <3> QED BY <3>1, <2>2, <1>1
  <2>3. CASE i >= m
    <3>1. i + 1 \in 1 .. Len(s) /\ j + 1 \in 1 .. Len(s) /\ i + 1 < j + 1 /\ j >= m
      BY <2>3, <1>6, <1>1, <1>2
    <3> QED BY <3>1, <2>3, <1>1
  <2> QED BY <2>1, <2>2, <2>3, <1>2, <1>6
<1>7. \A i \in 1 .. Len(u) : u[i] \in {s[k] : k \in 1 .. Len(s)} \ {s[m]}
  BY <1>3, <1>5
<1>8. \A k \in 1 .. Len(s) : s[k] # s[m] => \E i \in 1 .. Len(u) : u[i] = s[k]
  BY <1>4
<1>9. Thinned(u, s)
  BY <1>6 DEF Thinned
<1>10. Members(u) = Members(s) \ {s[m]}
  <2>1. Members(u) \subseteq Members(s) \ {s[m]}
    BY <1>7 DEF Members
  <2>2. Members(s) \ {s[m]} \subseteq Members(u)
    BY <1>8 DEF Members
  <2> QED BY <2>1, <2>2
<1> QED BY <1>9, <1>10

\* What is left of a list without doubles, by age, is such a list.
LEMMA ThinnedKeeps ==
  ASSUME NEW t, NEW p, Thinned(p.lru, t.lru),
         \A i \in 1 .. Len(p.lru) : p.flow[p.lru[i]] = t.flow[p.lru[i]]
  PROVE  /\ Distinct(t.lru) => Distinct(p.lru)
         /\ Aged(t) => Aged(p)
<1>1. ASSUME NEW i \in 1 .. Len(p.lru), NEW j \in 1 .. Len(p.lru), i < j
      PROVE  \E k, l \in 1 .. Len(t.lru) : k < l /\ p.lru[i] = t.lru[k] /\ p.lru[j] = t.lru[l]
  BY <1>1 DEF Thinned
<1>2. Distinct(t.lru) => Distinct(p.lru)
  BY <1>1 DEF Distinct
<1>3. ASSUME Aged(t), NEW i \in 1 .. Len(p.lru), NEW j \in 1 .. Len(p.lru), i < j
      PROVE  p.flow[p.lru[i]].age >= p.flow[p.lru[j]].age
  <2>1. PICK k \in 1 .. Len(t.lru), l \in 1 .. Len(t.lru) :
          k < l /\ p.lru[i] = t.lru[k] /\ p.lru[j] = t.lru[l]
    BY <1>1, <1>3
  <2>2. t.flow[t.lru[k]].age >= t.flow[t.lru[l]].age
    BY <2>1, <1>3 DEF Aged
  <2>3. p.flow[p.lru[i]] = t.flow[t.lru[k]] /\ p.flow[p.lru[j]] = t.flow[t.lru[l]]
    BY <2>1
  <2> QED BY <2>2, <2>3
<1>4. Aged(t) => Aged(p)
  BY <1>3 DEF Aged
<1> QED BY <1>2, <1>4

\* removeFlowLocked leaves a sound table, without the flow.
LEMMA RemoveKeeps ==
  ASSUME NEW size \in Nat, NEW t \in Table, Lists(t, size), NEW id \in Conns,
         NEW p, p = RemoveFlow(t, id)
  PROVE  /\ p \in Table /\ Lists(p, size) /\ (Aged(t) => Aged(p))
         /\ p.flow[id] = None /\ \A x \in Conns : x # id => p.flow[x] = t.flow[x]
         /\ t.flow[id] # None => Len(p.lru) = Len(t.lru) - 1
<1>1. t.flow \in [Conns -> Flow \cup {None}] /\ t.lru \in Seq(Conns) /\ Len(t.lru) \in Nat
  BY LenProperties DEF Table
<1>2. CASE t.flow[id] = None
  BY <1>2 DEF RemoveFlow
<1>3. CASE t.flow[id] # None
  <2>1. id \in Members(t.lru)
    BY <1>3 DEF Lists, Remembered
  <2>2. PICK m \in 1 .. Len(t.lru) : t.lru[m] = id
    BY <2>1 DEF Members
  <2>3. p = [flow |-> [t.flow EXCEPT ![id] = None], lru |-> Without(t.lru, id)]
    BY <1>3 DEF RemoveFlow
  <2> DEFINE u == p.lru
  <2>4. u = Without(t.lru, t.lru[m])
    BY <2>2, <2>3
  <2>5. Distinct(t.lru)
    BY DEF Lists
  <2>6. u \in Seq(Conns) /\ Len(u) = Len(t.lru) - 1
    <3> HIDE DEF u
    <3> QED BY <1>1, <2>4, <2>5, WithoutOne
  <2>7. /\ Members(u) = Members(t.lru) \ {id}
        /\ Thinned(u, t.lru)
    <3>1. /\ Members(u) = Members(t.lru) \ {t.lru[m]}
          /\ Thinned(u, t.lru)
      <4> HIDE DEF u
      <4> QED BY <1>1, <2>4, <2>5, WithoutMembers
    <3> QED BY <3>1, <2>2
  <2>8. p.flow = [t.flow EXCEPT ![id] = None] /\ p = [flow |-> p.flow, lru |-> p.lru]
    BY <2>3
  <2>9. /\ p.flow[id] = None /\ \A x \in Conns : x # id => p.flow[x] = t.flow[x]
        /\ p.flow \in [Conns -> Flow \cup {None}]
    BY <2>8, <1>1
  <2>10. p \in Table
    BY <2>6, <2>8, <2>9 DEF Table
  <2>11. Remembered(p) = Remembered(t) \ {id}
    BY <2>9 DEF Remembered
  <2>12. Members(p.lru) = Remembered(p)
    BY <2>7, <2>11 DEF Lists
  <2>13. \A i \in 1 .. Len(p.lru) : p.flow[p.lru[i]] = t.flow[p.lru[i]]
    <3>1. \A i \in 1 .. Len(p.lru) : p.lru[i] \in Remembered(p)
      BY <2>12 DEF Members
    <3> QED BY <3>1, <2>9 DEF Remembered
  <2>14. Len(p.lru) <= size
    BY <2>6, <1>1 DEF Lists
  <2>15. /\ Distinct(p.lru)
         /\ Aged(t) => Aged(p)
    <3>1. Thinned(p.lru, t.lru)
      BY <2>7
    <3> QED BY <3>1, <2>5, <2>13, ThinnedKeeps
  <2>16. Lists(p, size)
    BY <2>12, <2>14, <2>15 DEF Lists
  <2> QED BY <2>6, <2>9, <2>10, <2>15, <2>16, <1>3
<1> QED BY <1>2, <1>3

\* Places of a list that are closed towards the front have a last one.
LEMMA LastPlace ==
  ASSUME NEW n \in Nat, NEW gone \in SUBSET (1 .. n), gone # {},
         \A k \in gone : \A i \in 1 .. k : i \in gone
  PROVE  \E m \in gone : m + 1 \notin gone
<1> SUFFICES ASSUME \A m \in gone : m + 1 \in gone PROVE FALSE
  OBVIOUS
<1> DEFINE rest == gone \ {1}
           f == [k \in gone |-> k + 1]
<1>1. 1 \in gone /\ \A k \in gone : k \in Nat /\ k >= 1
  <2>1. PICK k \in gone : TRUE
    OBVIOUS
  <2>2. 1 \in 1 .. k
    BY <2>1
  <2> QED BY <2>1, <2>2
<1>2. IsFiniteSet(gone)
  <2>1. 1 \in Int /\ n \in Int
    OBVIOUS
  <2>2. IsFiniteSet(1 .. n)
    BY <2>1, FS_Interval
  <2> QED BY <2>2, FS_Subset
<1>3. IsFiniteSet(rest) /\ Cardinality(rest) = Cardinality(gone) - 1
  BY <1>1, <1>2, FS_RemoveElement
<1>4. Cardinality(gone) \in Nat
  BY <1>2, FS_CardinalityType
<1>5. Cardinality(rest) < Cardinality(gone)
  <2> HIDE DEF rest
  <2> QED BY <1>3, <1>4
<1>6. f \in [gone -> rest]
  BY <1>1
<1>7. \A x, y \in gone : x # y => f[x] # f[y]
  BY <1>1
<1> HIDE DEF f, rest
<1>8. \E x, y \in gone : x # y /\ f[x] = f[y]
  BY <1>2, <1>3, <1>5, <1>6, FS_PigeonHole
<1> QED BY <1>7, <1>8

\* The list without its first places.
LEMMA SuffixThins ==
  ASSUME NEW s \in Seq(Conns), NEW m \in 0 .. Len(s), NEW u, u = SubSeq(s, 1 + m, Len(s))
  PROVE  /\ u \in Seq(Conns) /\ Len(u) = Len(s) - m /\ Thinned(u, s)
         /\ \A i \in 1 .. Len(u) : u[i] = s[m + i]
<1>1. Len(s) \in Nat /\ m \in Nat /\ \A i \in 1 .. Len(s) : s[i] \in Conns
  BY LenProperties, ElementOfSeq
<1>2. /\ u \in Seq(Conns)
      /\ Len(u) = IF 1 + m <= Len(s) THEN Len(s) - (1 + m) + 1 ELSE 0
      /\ \A i \in 1 .. Len(s) - (1 + m) + 1 : u[i] = s[1 + m + i - 1]
  <2>1. 1 + m \in Int /\ Len(s) \in Int /\ \A i \in 1 + m .. Len(s) : s[i] \in Conns
    BY <1>1
  <2> QED BY <2>1, SubSeqProperties
<1>3. Len(u) = Len(s) - m /\ \A i \in 1 .. Len(u) : u[i] = s[m + i]
  BY <1>1, <1>2
<1>4. ASSUME NEW i \in 1 .. Len(u), NEW j \in 1 .. Len(u), i < j
      PROVE  \E k, l \in 1 .. Len(s) : k < l /\ u[i] = s[k] /\ u[j] = s[l]
  <2>1. m + i \in 1 .. Len(s) /\ m + j \in 1 .. Len(s) /\ m + i < m + j
    BY <1>1, <1>3, <1>4
  <2> QED BY <2>1, <1>3
<1>5. Thinned(u, s)
  BY <1>4 DEF Thinned
<1> QED BY <1>2, <1>3, <1>5

\* expireLocked leaves a sound table with some of the flows as they were.
LEMMA ExpireKeeps ==
  ASSUME NEW size \in Nat, NEW t \in Table, Lists(t, size), Aged(t), NEW p, p = Expire(t)
  PROVE  /\ p \in Table /\ Lists(p, size) /\ Aged(p)
         /\ \A x \in Conns : p.flow[x] \in {None, t.flow[x]}
<1> DEFINE s == t.lru
           gone == {n \in 1 .. Len(s) : \A i \in 1 .. n : Expired(t, s[i])}
           m == IF gone = {} THEN 0 ELSE CHOOSE n \in gone : n + 1 \notin gone
           ids == {s[n] : n \in gone}
           u == p.lru
<1>1. t.flow \in [Conns -> Flow \cup {None}] /\ s \in Seq(Conns) /\ Len(s) \in Nat
  BY LenProperties DEF Table
<1>2. /\ p.lru = SubSeq(s, 1 + m, Len(s))
      /\ p.flow = [x \in Conns |-> IF x \in ids THEN None ELSE t.flow[x]]
      /\ p = [flow |-> p.flow, lru |-> p.lru]
  BY DEF Expire
<1>3. gone \in SUBSET (1 .. Len(s)) /\ \A k \in gone : \A i \in 1 .. k : i \in gone
  <2>1. ASSUME NEW k \in gone, NEW i \in 1 .. k PROVE i \in gone
    <3>1. i \in 1 .. Len(s) /\ \A h \in 1 .. i : h \in 1 .. k
      BY <1>1
    <3> QED BY <3>1
  <2> QED BY <2>1
<1>4. m \in 0 .. Len(s) /\ gone = 1 .. m
  <2>1. CASE gone = {}
    <3>1. m = 0
      BY <2>1
    <3> HIDE DEF m, gone, s
    <3> QED BY <2>1, <3>1, <1>1
  <2>2. CASE gone # {}
    <3>1. \E n \in gone : n + 1 \notin gone
      <4> HIDE DEF gone, s
      <4> QED BY <2>2, <1>1, <1>3, LastPlace
    <3>2. m \in gone /\ m + 1 \notin gone
      <4> HIDE DEF gone, s
      <4> QED BY <3>1, <2>2
    <3> HIDE DEF m, gone, s
    <3>3. m \in 1 .. Len(s) /\ 1 .. m \subseteq gone
      BY <3>2, <1>3
    <3>4. ASSUME NEW k \in gone, k > m PROVE FALSE
      <4>1. m + 1 \in 1 .. k
        BY <3>4, <3>3, <1>1, <1>3
      <4> QED BY <4>1, <3>2, <1>3
    <3>5. gone \subseteq 1 .. m
      BY <3>3, <3>4, <1>1, <1>3
    <3>6. gone = 1 .. m
      BY <3>3, <3>5
    <3>7. m \in 0 .. Len(s)
      BY <3>3, <1>1
    <3> QED BY <3>6, <3>7
  <2> QED BY <2>1, <2>2
<1>5. ids = {s[n] : n \in 1 .. m}
  BY <1>4
<1> HIDE DEF m, gone
<1>6. /\ u \in Seq(Conns) /\ Len(u) = Len(s) - m /\ Thinned(u, s)
      /\ \A i \in 1 .. Len(u) : u[i] = s[m + i]
  <2>1. u = SubSeq(s, 1 + m, Len(s))
    BY <1>2
  <2> HIDE DEF u, s
  <2> QED BY <2>1, <1>1, <1>4, SuffixThins
<1>7. \A x \in Conns : p.flow[x] \in {None, t.flow[x]} /\ (x \notin ids => p.flow[x] = t.flow[x])
  <2> HIDE DEF ids
  <2> QED BY <1>2
<1>8. p.flow \in [Conns -> Flow \cup {None}]
  <2> HIDE DEF ids
  <2> QED BY <1>1, <1>2
<1>9. p \in Table
  BY <1>2, <1>6, <1>8 DEF Table
<1>10. Distinct(s) /\ Members(s) = Remembered(t) /\ Len(s) <= size
  BY DEF Lists
<1>11. Members(u) = Members(s) \ ids
  <2> HIDE DEF u, s
  <2>1. ASSUME NEW i \in 1 .. Len(u) PROVE u[i] \in Members(s) /\ u[i] \notin ids
    <3>1. m + i \in 1 .. Len(s) /\ \A n \in 1 .. m : n \in 1 .. Len(s) /\ n < m + i
      BY <1>1, <1>4, <1>6
    <3>2. \A n \in 1 .. m : s[n] # s[m + i]
      BY <3>1, <1>10 DEF Distinct
    <3> QED BY <3>1, <3>2, <1>5, <1>6 DEF Members
  <2>2. ASSUME NEW k \in 1 .. Len(s), s[k] \notin ids PROVE s[k] \in Members(u)
    <3>1. k \notin 1 .. m
      BY <2>2, <1>5
    <3>2. k - m \in 1 .. Len(u) /\ m + (k - m) = k
      BY <3>1, <1>1, <1>4, <1>6
    <3> QED BY <3>2, <1>6 DEF Members
  <2>3. Members(u) \subseteq Members(s) \ ids
    BY <2>1 DEF Members
  <2>4. Members(s) \ ids \subseteq Members(u)
    BY <2>2 DEF Members
  <2> QED BY <2>3, <2>4
<1>12. Remembered(p) = Remembered(t) \ ids
  <2> HIDE DEF ids
  <2> QED BY <1>2 DEF Remembered
<1>13. Members(p.lru) = Remembered(p)
  BY <1>10, <1>11, <1>12
<1>14. \A i \in 1 .. Len(p.lru) : p.flow[p.lru[i]] = t.flow[p.lru[i]]
  <2>1. \A i \in 1 .. Len(u) : u[i] \in Members(u) /\ u[i] \in Conns
    BY <1>6, ElementOfSeq DEF Members
  <2> QED BY <2>1, <1>7, <1>11
<1>15. Distinct(p.lru) /\ Aged(p)
  <2>1. Thinned(p.lru, t.lru)
    BY <1>6
  <2> QED BY <2>1, <1>10, <1>14, ThinnedKeeps
<1>16. Len(p.lru) <= size
  BY <1>1, <1>4, <1>6, <1>10
<1> QED BY <1>7, <1>9, <1>13, <1>15, <1>16 DEF Lists

\* A flow put at the back of a list that has it not.
LEMMA AppendMembers ==
  ASSUME NEW s \in Seq(Conns), NEW id \in Conns, id \notin Members(s), Distinct(s),
         NEW u, u = Append(s, id)
  PROVE  /\ u \in Seq(Conns) /\ Len(u) = Len(s) + 1 /\ Distinct(u)
         /\ \A x : x \in Members(u) <=> x \in Members(s) \/ x = id
         /\ \A i \in 1 .. Len(s) : u[i] = s[i]
         /\ u[Len(s) + 1] = id
<1>1. /\ u \in Seq(Conns) /\ Len(u) = Len(s) + 1 /\ Len(s) \in Nat
      /\ \A i \in 1 .. Len(s) : u[i] = s[i]
      /\ u[Len(s) + 1] = id
  BY AppendProperties, LenProperties
<1>2. \A i \in 1 .. Len(u) : i \in 1 .. Len(s) \/ i = Len(s) + 1
  BY <1>1
<1>3. \A i \in 1 .. Len(s) : i \in 1 .. Len(u) /\ s[i] # id
  BY <1>1 DEF Members
<1>4. Len(s) + 1 \in 1 .. Len(u)
  BY <1>1
<1>5. Members(u) \subseteq Members(s) \cup {id}
  BY <1>1, <1>2 DEF Members
<1>6. Members(s) \cup {id} \subseteq Members(u)
  BY <1>1, <1>3, <1>4 DEF Members
<1>7. ASSUME NEW i \in 1 .. Len(u), NEW j \in 1 .. Len(u), i < j PROVE u[i] # u[j]
  <2>1. i \in 1 .. Len(s)
    BY <1>7, <1>1
  <2>2. CASE j \in 1 .. Len(s)
    BY <2>1, <2>2, <1>1, <1>7 DEF Distinct
  <2>3. CASE j = Len(s) + 1
    BY <2>1, <2>3, <1>1, <1>3
  <2> QED BY <2>2, <2>3, <1>2
<1>8. Distinct(u)
  BY <1>7 DEF Distinct
<1> QED BY <1>1, <1>5, <1>6, <1>8

\* The table p has the flow old of an ID at the back; the rest of it is r, which
\* has of the flows of t but that one some.
FoundAtBack(p, r, t, id, old) ==
  /\ Lists(r, setup.maxFlows - 1) /\ Aged(r) /\ r.flow[id] = None
  /\ \A x \in Conns : r.flow[x] \in {None, t.flow[x]}
  /\ p.lru = Append(r.lru, id) /\ p = [flow |-> p.flow, lru |-> p.lru]
  /\ p.flow = [r.flow EXCEPT ![id] = old]

\* Classify finds the flow of an ID, or begins one, and has it at the back of the
\* list; the rest of the table, r, is sound and has room for it.
LEMMA LookupIs ==
  ASSUME setup.maxFlows \in Nat \ {0}, NEW t \in Table, Lists(t, setup.maxFlows), Aged(t),
         NEW id \in Conns, NEW p, p = Lookup(t, id),
         NEW old, old = IF t.flow[id] = None THEN NewFlow ELSE t.flow[id]
  PROVE  \E r \in Table : FoundAtBack(p, r, t, id, old)
<1> DEFINE size == setup.maxFlows
<1>1. t.flow \in [Conns -> Flow \cup {None}] /\ Len(t.lru) \in Nat /\ t.lru \in Seq(Conns)
  BY LenProperties DEF Table
<1>2. CASE t.flow[id] # None
  <2> DEFINE r == RemoveFlow(t, id)
  <2>1. /\ r \in Table /\ Lists(r, size) /\ Aged(r) /\ r.flow[id] = None
        /\ \A x \in Conns : x # id => r.flow[x] = t.flow[x]
        /\ Len(r.lru) = Len(t.lru) - 1
    <3> HIDE DEF r
    <3> QED BY <1>2, RemoveKeeps DEF r
  <2>2. Lists(r, size - 1)
    <3> HIDE DEF r
    <3> QED BY <2>1, <1>1 DEF Lists
  <2>3. r.flow = [t.flow EXCEPT ![id] = None] /\ r.lru = Without(t.lru, id)
    BY <1>2 DEF RemoveFlow
  <2>4. [r.flow EXCEPT ![id] = t.flow[id]] = t.flow
    <3> HIDE DEF r
    <3> QED BY <2>3, <1>1
  <2>5. p = [t EXCEPT !.lru = Append(Without(t.lru, id), id)]
    BY <1>2 DEF Lookup, Touch
  <2>6. p.lru = Append(r.lru, id) /\ p.flow = t.flow /\ p = [flow |-> p.flow, lru |-> p.lru]
    <3> HIDE DEF r
    <3> QED BY <2>3, <2>5 DEF Table
  <2> HIDE DEF r
  <2>7. \A x \in Conns : r.flow[x] \in {None, t.flow[x]}
    BY <2>1
  <2>8. old = t.flow[id]
    BY <1>2
  <2>9. FoundAtBack(p, r, t, id, old)
    BY <2>1, <2>2, <2>4, <2>6, <2>7, <2>8 DEF FoundAtBack
  <2> QED BY <2>1, <2>9
<1>3. CASE t.flow[id] = None
  <2> DEFINE r == EnsureCapacity(t)
  <2>1. /\ r \in Table /\ Lists(r, size - 1) /\ Aged(r) /\ r.flow[id] = None
        /\ \A x \in Conns : r.flow[x] \in {None, t.flow[x]}
    <3>1. CASE Len(t.lru) < size
      <4>1. r = t
        BY <3>1 DEF EnsureCapacity
      <4> HIDE DEF r
      <4>2. Lists(r, size - 1)
        BY <4>1, <3>1, <1>1 DEF Lists
      <4> QED BY <4>1, <4>2, <1>3
    <3>2. CASE ~(Len(t.lru) < size)
      <4> DEFINE h == Head(t.lru)
      <4>1. r = RemoveFlow(t, h)
        BY <3>2 DEF EnsureCapacity
      <4>2. 1 \in 1 .. Len(t.lru) /\ t.lru # <<>>
        BY <3>2, <1>1
      <4>3. h = t.lru[1] /\ h \in Conns
        BY <4>2, <1>1, HeadTailProperties
      <4>4. h \in Members(t.lru)
        BY <4>2, <4>3 DEF Members
      <4>5. t.flow[h] # None
        BY <4>4 DEF Lists, Remembered
      <4> HIDE DEF h, r
      <4>6. /\ r \in Table /\ Lists(r, size) /\ Aged(r) /\ r.flow[h] = None
            /\ \A x \in Conns : x # h => r.flow[x] = t.flow[x]
            /\ Len(r.lru) = Len(t.lru) - 1
        BY <4>1, <4>3, <4>5, RemoveKeeps
      <4>7. Lists(r, size - 1)
        BY <4>6, <1>1 DEF Lists
      <4>8. \A x \in Conns : r.flow[x] \in {None, t.flow[x]}
        BY <4>6
      <4> QED BY <4>6, <4>7, <4>8, <1>3
    <3> QED BY <3>1, <3>2
  <2>2. p = [flow |-> [r.flow EXCEPT ![id] = NewFlow], lru |-> Append(r.lru, id)]
    BY <1>3 DEF Lookup
  <2>3. /\ p.flow = [r.flow EXCEPT ![id] = NewFlow] /\ p.lru = Append(r.lru, id)
        /\ p = [flow |-> p.flow, lru |-> p.lru]
    <3> HIDE DEF r
    <3> QED BY <2>2
  <2> HIDE DEF r
  <2>4. old = NewFlow
    BY <1>3
  <2>5. FoundAtBack(p, r, t, id, old)
    BY <2>1, <2>3, <2>4 DEF FoundAtBack
  <2> QED BY <2>1, <2>5
<1> QED BY <1>2, <1>3

\* A flow that is new or used is the youngest: at the back of a sound list it
\* leaves the list sound.
LEMMA BackKeeps ==
  ASSUME NEW size \in Nat \ {0}, NEW r \in Table, Lists(r, size - 1), Aged(r),
         NEW id \in Conns, r.flow[id] = None, NEW fl \in Flow, fl.age = 0,
         NEW p, p = [flow |-> [r.flow EXCEPT ![id] = fl], lru |-> Append(r.lru, id)]
  PROVE  p \in Table /\ Lists(p, size) /\ Aged(p)
<1>1. /\ r.flow \in [Conns -> Flow \cup {None}] /\ Len(r.lru) \in Nat /\ r.lru \in Seq(Conns)
      /\ Members(r.lru) = Remembered(r) /\ Distinct(r.lru)
  BY LenProperties DEF Table, Lists
<1>2. id \notin Members(r.lru) /\ Members(r.lru) \subseteq Conns
  BY <1>1 DEF Remembered
<1>3. p.flow = [r.flow EXCEPT ![id] = fl] /\ p.lru = Append(r.lru, id)
  OBVIOUS
<1>4. /\ p.lru \in Seq(Conns) /\ Len(p.lru) = Len(r.lru) + 1 /\ Distinct(p.lru)
      /\ Members(p.lru) = Members(r.lru) \cup {id}
      /\ \A i \in 1 .. Len(r.lru) : p.lru[i] = r.lru[i]
      /\ p.lru[Len(r.lru) + 1] = id
  <2> DEFINE q == r.lru
             u == p.lru
  <2>1. q \in Seq(Conns) /\ id \notin Members(q) /\ Distinct(q) /\ u = Append(q, id)
        /\ Len(q) \in Nat
    BY <1>1, <1>2, <1>3
  <2> HIDE DEF q, u
  <2>2. u \in Seq(Conns) /\ Len(u) = Len(q) + 1 /\ Distinct(u)
    BY <2>1, AppendMembers
  <2>3. \A x : x \in Members(u) <=> x \in Members(q) \/ x = id
    BY <2>1, AppendMembers
  <2>4. \A i \in 1 .. Len(q) : u[i] = q[i]
    BY <2>1, AppendMembers
  <2>5. u[Len(q) + 1] = id
    BY <2>1, AppendMembers
  <2> QED BY <2>2, <2>3, <2>4, <2>5 DEF q, u
<1>5. p.flow[id] = fl /\ \A x \in Conns : x # id => p.flow[x] = r.flow[x]
  BY <1>3, <1>1
<1>6. p \in Table
  <2>1. p.flow \in [Conns -> Flow \cup {None}]
    BY <1>3, <1>1
  <2> QED BY <2>1, <1>4 DEF Table
<1>7. Members(p.lru) = Remembered(p)
  <2>1. fl # None
    BY NoneIsNoRecord
  <2>2. Remembered(p) = Remembered(r) \cup {id}
    BY <2>1, <1>5 DEF Remembered
  <2> QED BY <2>2, <1>1, <1>4
<1>8. Len(p.lru) <= size
  BY <1>1, <1>4 DEF Lists
<1>9. Lists(p, size)
  BY <1>4, <1>7, <1>8 DEF Lists
<1>10. \A i \in 1 .. Len(r.lru) : r.lru[i] \in Conns /\ r.lru[i] # id /\ r.flow[r.lru[i]] \in Flow
  BY <1>1, <1>2 DEF Members, Remembered
<1>11. ASSUME NEW i \in 1 .. Len(p.lru), NEW j \in 1 .. Len(p.lru), i < j
       PROVE  p.flow[p.lru[i]].age >= p.flow[p.lru[j]].age
  <2>1. i \in 1 .. Len(r.lru) /\ (j \in 1 .. Len(r.lru) \/ j = Len(r.lru) + 1)
    BY <1>1, <1>4, <1>11
  <2>2. p.flow[p.lru[i]] = r.flow[r.lru[i]] /\ r.flow[r.lru[i]] \in Flow
    BY <2>1, <1>4, <1>5, <1>10
  <2>3. CASE j \in 1 .. Len(r.lru)
    <3>1. p.flow[p.lru[j]] = r.flow[r.lru[j]]
      BY <2>3, <1>4, <1>5, <1>10
    <3> QED BY <2>1, <2>2, <2>3, <3>1, <1>11 DEF Aged
  <2>4. CASE j = Len(r.lru) + 1
    <3>1. p.flow[p.lru[j]].age = 0
      BY <2>4, <1>4, <1>5
    <3>2. r.flow[r.lru[i]].age \in 0 .. TTL
      BY <2>2 DEF Flow
    <3>3. r.flow[r.lru[i]].age >= 0
      <4> DEFINE a == r.flow[r.lru[i]].age
      <4> HIDE DEF a
      <4> QED BY <3>2, Sizes DEF a
    <3> QED BY <2>2, <3>1, <3>3
  <2> QED BY <2>1, <2>3, <2>4
<1>12. Aged(p)
  BY <1>11 DEF Aged
<1> QED BY <1>6, <1>9, <1>12

\* A packet makes of the flow of its ID, or of a new one, a flow that is used now.
LEMMA ProcessIs ==
  ASSUME setup \in Setups, NEW flow \in Flow, FlowCounted(flow), NEW who \in Conns,
         NEW stable \in BOOLEAN, NEW found \in Findings,
         NEW fl, fl = Process(flow, who, stable, found)
  PROVE  /\ fl \in Flow /\ FlowCounted(fl) /\ fl.age = 0 /\ fl.of \subseteq flow.of \cup {who}
         /\ flow.of \subseteq fl.of
         /\ flow.final => fl.final
         /\ ~fl.final => fl.packets = flow.packets + 1 /\ ~flow.final /\ fl.packets < setup.maxPackets
<1>1. /\ flow.packets \in Nat /\ flow.final \in BOOLEAN /\ flow.found \in Findings
      /\ flow.age \in 0 .. TTL /\ flow.of \subseteq Conns
  BY DEF Flow
<1>2. CASE flow.final
  <2>1. fl = [flow EXCEPT !.age = 0]
    BY <1>2 DEF Process
  <2>2. /\ fl.packets = flow.packets /\ fl.final = flow.final /\ fl.of = flow.of
        /\ fl.age = 0 /\ fl \in Flow
    BY <2>1, Sizes DEF Flow
  <2> QED BY <1>2, <2>2 DEF FlowCounted
<1>3. CASE ~flow.final
  <2> DEFINE n == flow.packets + 1
             final == stable \/ GivesUp(n)
  <2>1. fl = [packets |-> n, final |-> final, found |-> IF final THEN found ELSE "unsure",
              age |-> 0, of |-> flow.of \cup {who}]
    BY <1>3 DEF Process
  <2>2. n \in Nat
    BY <1>1, <1>3, Sizes DEF FlowCounted
  <2>3. final \in BOOLEAN /\ (~final => n < setup.maxPackets)
    BY <2>2, SetupIs DEF GivesUp
  <2>4. (IF final THEN found ELSE "unsure") \in Findings
    BY DEF Findings
  <2>5. 0 \in 0 .. TTL
    BY Sizes
  <2> HIDE DEF final
  <2>6. /\ fl.packets = n /\ fl.final = final /\ fl.age = 0 /\ fl.of = flow.of \cup {who}
    BY <2>1
  <2>7. fl \in Flow
    BY <2>1, <2>2, <2>3, <2>4, <2>5, <1>1 DEF Flow
  <2> QED BY <1>3, <2>3, <2>6, <2>7 DEF FlowCounted
<1> QED BY <1>2, <1>3

\* A flow begins without packets.
LEMMA NewFlowIs ==
  ASSUME setup \in Setups
  PROVE  NewFlow \in Flow /\ FlowCounted(NewFlow) /\ NewFlow.of = {} /\ ~NewFlow.final
<1>1. 0 \in Nat /\ 0 \in 0 .. TTL /\ "unsure" \in Findings /\ 0 < setup.maxPackets
  BY Sizes, SetupIs DEF Findings
<1> QED BY <1>1 DEF NewFlow, Flow, FlowCounted

\* Classify leaves a sound table: the flow of the ID, or a new one, with the
\* packet, and of the other flows some.
LEMMA ClassifiedIs ==
  ASSUME setup \in Setups, Listed, NEW id \in Conns, NEW who \in Conns,
         \A x \in Conns : table.flow[x] # None => FlowCounted(table.flow[x]),
         NEW stable \in BOOLEAN, NEW found \in Findings,
         NEW p, p = Classified(id, who, stable, found)
  PROVE  /\ p \in Table /\ Lists(p, setup.maxFlows) /\ Aged(p)
         /\ \A x \in Conns : x # id => p.flow[x] \in {None, table.flow[x]}
         /\ Expire(table).flow[id] \in {None, table.flow[id]}
         /\ Expire(table).flow[id] = None => p.flow[id] = Process(NewFlow, who, stable, found)
         /\ Expire(table).flow[id] # None =>
              p.flow[id] = Process(table.flow[id], who, stable, found)
<1> DEFINE size == setup.maxFlows
           e == Expire(table)
           l == Lookup(e, id)
           old == IF e.flow[id] = None THEN NewFlow ELSE e.flow[id]
           fl == Process(old, who, stable, found)
<1>1. size \in Nat \ {0} /\ size \in Nat
  BY SetupIs
<1>2. /\ e \in Table /\ Lists(e, size) /\ Aged(e)
      /\ \A x \in Conns : e.flow[x] \in {None, table.flow[x]}
  <2>1. table \in Table /\ Lists(table, size) /\ Aged(table)
    BY DEF Listed
  <2> HIDE DEF size, e
  <2> QED BY <1>1, <2>1, ExpireKeeps DEF e
<1>3. \E r \in Table : FoundAtBack(l, r, e, id, old)
  <2>1. l = Lookup(e, id) /\ old = IF e.flow[id] = None THEN NewFlow ELSE e.flow[id]
    OBVIOUS
  <2>2. setup.maxFlows \in Nat \ {0} /\ e \in Table /\ Lists(e, setup.maxFlows) /\ Aged(e)
    BY <1>1, <1>2
  <2> HIDE DEF e, l, old, size
  <2> QED BY <2>1, <2>2, LookupIs
<1>4. p = [l EXCEPT !.flow[id] = Process(@, who, stable, found)]
  BY DEF Classified
<1>5. old \in Flow /\ FlowCounted(old)
  <2>1. CASE e.flow[id] = None
    <3>1. old = NewFlow
      BY <2>1
    <3> QED BY <3>1, NewFlowIs
  <2>2. CASE e.flow[id] # None
    <3>1. old = e.flow[id] /\ e.flow[id] = table.flow[id]
      BY <2>2, <1>2
    <3>2. table.flow[id] \in Flow \cup {None}
      BY DEF Listed, Table
    <3> HIDE DEF old, e
    <3> QED BY <2>2, <3>1, <3>2
  <2> QED BY <2>1, <2>2
<1>6. fl \in Flow /\ fl.age = 0
  <2> HIDE DEF old, fl
  <2> QED BY <1>5, ProcessIs DEF fl
<1>7. PICK r \in Table :
           /\ Lists(r, size - 1) /\ Aged(r) /\ r.flow[id] = None
           /\ \A x \in Conns : r.flow[x] \in {None, e.flow[x]}
           /\ l.lru = Append(r.lru, id) /\ l = [flow |-> l.flow, lru |-> l.lru]
           /\ l.flow = [r.flow EXCEPT ![id] = old]
  <2>1. \E r \in Table : FoundAtBack(l, r, e, id, old)
    BY <1>3
  <2> HIDE DEF l, e, old
  <2> QED BY <2>1 DEF FoundAtBack
<1>8. p = [flow |-> [r.flow EXCEPT ![id] = fl], lru |-> Append(r.lru, id)]
  <2>1. r.flow \in [Conns -> Flow \cup {None}]
    BY DEF Table
  <2>2. l.flow[id] = old
    <3> HIDE DEF l, old
    <3> QED BY <1>7, <2>1
  <2>3. p = [flow |-> [l.flow EXCEPT ![id] = fl], lru |-> l.lru]
    <3>1. p = [l EXCEPT !.flow = [l.flow EXCEPT ![id] = Process(l.flow[id], who, stable, found)]]
      <4> HIDE DEF l
      <4> QED BY <1>4
    <3>2. p = [l EXCEPT !.flow = [l.flow EXCEPT ![id] = fl]]
      <4> HIDE DEF l, old
      <4> QED BY <3>1, <2>2
    <3> HIDE DEF l, fl
    <3> QED BY <3>2, <1>7
  <2>4. [l.flow EXCEPT ![id] = fl] = [r.flow EXCEPT ![id] = fl]
    <3> HIDE DEF l, fl, old
    <3> QED BY <1>7, <2>1
  <2> HIDE DEF l, fl
  <2> QED BY <1>7, <2>3, <2>4
<1>9. p \in Table /\ Lists(p, size) /\ Aged(p)
  <2> HIDE DEF l, fl, old, e, size
  <2>1. size \in Nat \ {0} /\ Lists(r, size - 1) /\ Aged(r) /\ r.flow[id] = None
        /\ fl \in Flow /\ fl.age = 0
    BY <1>1, <1>6, <1>7
  <2> QED BY <2>1, <1>8, BackKeeps
<1>10. p.flow[id] = fl /\ \A x \in Conns : x # id => p.flow[x] = r.flow[x]
  <2> HIDE DEF fl, l, old, e, size
  <2>1. r.flow \in [Conns -> Flow \cup {None}]
    BY DEF Table
  <2> QED BY <1>8, <2>1
<1>11. \A x \in Conns : x # id => p.flow[x] \in {None, table.flow[x]}
  <2> HIDE DEF fl, l, old, e, size
  <2> QED BY <1>2, <1>7, <1>10
<1>12. /\ e.flow[id] = None => p.flow[id] = Process(NewFlow, who, stable, found)
       /\ e.flow[id] # None => p.flow[id] = Process(table.flow[id], who, stable, found)
  <2> HIDE DEF e, l
  <2> QED BY <1>2, <1>10
<1>13. e.flow[id] \in {None, table.flow[id]}
  <2> HIDE DEF e
  <2> QED BY <1>2
<1> HIDE DEF l, old, fl
<1> QED BY <1>9, <1>11, <1>12, <1>13

-----------------------------------------------------------------------------
(* Steps of which one ID notices nothing *)

\* The flow f is the flow g, or gone; its age may differ.
Kin(f, g) ==
  f = None \/ (f # None /\ g # None /\ f.of = g.of /\ f.final = g.final /\ f.packets = g.packets)

\* What is true of an ID stays true when its connection, and its flow if it is
\* not forgotten, stay, and no request to classify is added to the late ones.
LEMMA Untouched ==
  ASSUME NEW id \in Conns, Each(id), opened \in Nat, sequence \in Nat,
         conns'[id] = conns[id], Kin(table'.flow[id], table.flow[id]),
         setup' = setup, leftover' = leftover,
         opened' \in Nat, opened' >= opened, sequence' \in Nat, sequence' >= sequence,
         conns[id] # None => conns[id].who \in Nat,
         \A r \in late : r.who \in Nat,
         \A r \in late' : r.kind = "classify" /\ r.id = id => r \in late
  PROVE  Each(id)'
<1>1. Counted(id)'
  BY DEF Each, Counted, ConnCounted, FlowCounted, Builtins, Kin
<1>2. Owned(id)'
  <2> SUFFICES ASSUME id \notin leftover
               PROVE  ((id > sequence => Fresh(id)) /\ \E w \in Conns : Owns(w, id))'
    BY DEF Owned
  <2>1. (id > sequence => Fresh(id)) /\ \E w \in Conns : Owns(w, id)
    BY DEF Each, Owned
  <2>2. id \in Nat
    BY Sizes DEF Conns
  <2>3. (id > sequence => Fresh(id))'
    BY <2>1, <2>2 DEF Fresh, Kin
  <2>4. \E w \in Conns : Owns(w, id)'
    BY <2>1 DEF Owns, Kin
  <2> QED BY <2>3, <2>4
<1>3. InStep(id)'
  <2>1. (conns[id] # None => conns[id].who <= opened)'
    BY DEF Each, InStep
  <2>2. (conns[id] # None /\ table.flow[id] # None => InStepWith(conns[id], table.flow[id]))'
    BY DEF Each, InStep, InStepWith, Kin
  <2>3. ASSUME NEW r \in late', r.kind = "classify", r.id = id
        PROVE  r.who <= opened' /\ (conns'[id] # None /\ conns'[id].who = r.who => conns'[id].disturbed)
    BY <2>3 DEF Each, InStep
  <2> QED BY <2>1, <2>2, <2>3 DEF InStep
<1>4. Due(id)'
  BY DEF Each, Due, ConnDue
<1> QED BY <1>1, <1>2, <1>3, <1>4 DEF Each

\* The same of every ID, when only flows change.
LEMMA FlowsStep ==
  ASSUME IInv, table' \in Table, Lists(table, setup.maxFlows)', Aged(table)',
         \A id \in Conns : Kin(table'.flow[id], table.flow[id]),
         UNCHANGED <<setup, opened, sequence, conns, leftover>>,
         closing' \in Seq(Conns), Len(closing') <= QueueSize, faults' \in 0 .. MaxFaults,
         late' \subseteq Request, \A r \in late' : r.kind = "classify" => r \in late
  PROVE  IInv'
<1>1. TypeOK'
  BY DEF IInv, TypeOK, Table
<1>2. Listed'
  BY DEF Listed
<1>3. opened \in Nat /\ sequence \in Nat
  BY Sizes DEF IInv, TypeOK
<1>4. \A r \in late : r.who \in Nat
  BY Sizes DEF IInv, TypeOK, Request, Conns
<1>5. ASSUME NEW id \in Conns PROVE Each(id)'
  <2>1. Each(id) /\ (conns[id] # None => conns[id].who \in Nat)
    BY Sizes DEF IInv, TypeOK, Conn, Conns
  <2> QED BY <2>1, <1>3, <1>4, Untouched
<1> QED BY <1>1, <1>2, <1>5 DEF IInv

\* What the invariant says of the table and of each of its flows.
LEMMA TableIs ==
  ASSUME IInv
  PROVE  /\ setup \in Setups /\ setup.maxFlows \in Nat \ {0} /\ setup.maxFlows \in Nat
         /\ table \in Table /\ Lists(table, setup.maxFlows) /\ Aged(table)
         /\ \A id \in Conns : table.flow[id] \in Flow \cup {None}
         /\ \A id \in Conns : table.flow[id] # None =>
              FlowCounted(table.flow[id]) /\ table.flow[id] \in Flow
<1>1. setup \in Setups /\ table.flow \in [Conns -> Flow \cup {None}]
  BY DEF IInv, TypeOK
<1>2. table \in Table /\ Lists(table, setup.maxFlows) /\ Aged(table)
  BY DEF IInv, Listed
<1>3. \A id \in Conns : table.flow[id] # None => FlowCounted(table.flow[id])
  BY DEF IInv, Each, Counted
<1> QED BY <1>1, <1>2, <1>3, SetupIs

\* What the agent keeps while the sidecar is on its own.
LEMMA AgentIs ==
  ASSUME IInv
  PROVE  /\ closing \in Seq(Conns) /\ Len(closing) <= QueueSize /\ faults \in 0 .. MaxFaults
         /\ late \subseteq Request /\ opened \in Nat /\ sequence \in Nat
         /\ opened <= MaxConns /\ sequence <= opened
BY Sizes DEF IInv, TypeOK

\* A removed flow is gone, the others are as they were.
LEMMA RemoveStep ==
  ASSUME IInv, NEW id \in Conns, table' = RemoveFlow(table, id), setup' = setup
  PROVE  /\ table' \in Table /\ Lists(table, setup.maxFlows)' /\ Aged(table)'
         /\ \A x \in Conns : Kin(table'.flow[x], table.flow[x])
<1>1. /\ table' \in Table /\ Lists(table', setup.maxFlows) /\ Aged(table')
      /\ table'.flow[id] = None /\ \A x \in Conns : x # id => table'.flow[x] = table.flow[x]
  BY TableIs, RemoveKeeps
<1>2. Lists(table, setup.maxFlows)' /\ Aged(table)'
  BY <1>1 DEF Lists, Aged, Remembered
<1>3. \A x \in Conns : Kin(table'.flow[x], table.flow[x])
  BY <1>1 DEF Kin
<1> QED BY <1>1, <1>2, <1>3

\* Some flows are gone.
LEMMA ExpireStep ==
  ASSUME IInv, table' = Expire(table), setup' = setup
  PROVE  /\ table' \in Table /\ Lists(table, setup.maxFlows)' /\ Aged(table)'
         /\ \A x \in Conns : Kin(table'.flow[x], table.flow[x])
<1>1. /\ table' \in Table /\ Lists(table', setup.maxFlows) /\ Aged(table')
      /\ \A x \in Conns : table'.flow[x] \in {None, table.flow[x]}
  BY TableIs, ExpireKeeps
<1>2. Lists(table, setup.maxFlows)' /\ Aged(table)'
  BY <1>1 DEF Lists, Aged, Remembered
<1>3. \A x \in Conns : Kin(table'.flow[x], table.flow[x])
  BY <1>1 DEF Kin
<1> QED BY <1>1, <1>2, <1>3

\* The queue of closed flows gives its first element.
LEMMA CloseFlowStep ==
  ASSUME IInv, CloseFlow
  PROVE  IInv'
<1> USE DEF CloseFlow
<1>1. closing' \in Seq(Conns) /\ Len(closing') <= QueueSize /\ Head(closing) \in Conns
  <2>1. closing \in Seq(Conns) /\ closing # <<>> /\ Len(closing) <= QueueSize
    BY AgentIs
  <2>2. Tail(closing) \in Seq(Conns) /\ Len(Tail(closing)) = Len(closing) - 1 /\ Head(closing) \in Conns
    BY <2>1, HeadTailProperties
  <2> QED BY <2>1, <2>2, LenProperties, Sizes
<1>2. CASE table' = RemoveFlow(table, Head(closing)) /\ UNCHANGED <<setup, late, faults>>
  BY <1>1, <1>2, RemoveStep, AgentIs, FlowsStep
<1>3. ASSUME faults < MaxFaults, faults' = faults + 1, UNCHANGED table,
             late' = late \cup {[kind |-> "close", id |-> Head(closing), who |-> 1]},
             UNCHANGED setup
      PROVE  IInv'
  <2>1. table' \in Table /\ Lists(table, setup.maxFlows)' /\ Aged(table)'
    BY <1>3, TableIs DEF Lists, Aged, Remembered
  <2>2. \A id \in Conns : Kin(table'.flow[id], table.flow[id])
    BY <1>3 DEF Kin
  <2>3. 1 \in Conns
    BY <1>1, Sizes DEF Conns
  <2>4. late' \subseteq Request /\ \A r \in late' : r.kind = "classify" => r \in late
    BY <1>1, <1>3, <2>3, AgentIs DEF Request
  <2>5. faults' \in 0 .. MaxFaults
    BY <1>3, AgentIs, Sizes
  <2> QED BY <1>1, <1>3, <2>1, <2>2, <2>4, <2>5, FlowsStep
<1>4. UNCHANGED setup
  OBVIOUS
<1> QED BY <1>2, <1>3, <1>4

\* Time passes: the flows are as old as before, relative to each other.
LEMMA TickStep ==
  ASSUME IInv, Tick
  PROVE  IInv'
<1> USE DEF Tick
<1>1. table.flow \in [Conns -> Flow \cup {None}] /\ table \in Table
  BY TableIs DEF Table
<1>2. table' = [table EXCEPT !.flow = [id \in Conns |-> Older(table.flow[id])]]
  OBVIOUS
<1>3. /\ table'.flow = [id \in Conns |-> Older(table.flow[id])] /\ table'.lru = table.lru
      /\ table' = [flow |-> table'.flow, lru |-> table.lru]
  <2> QED BY <1>1, <1>2 DEF Table
<1>4. ASSUME NEW f \in Flow
      PROVE  /\ Older(f) \in Flow /\ Kin(Older(f), f) /\ Older(f) # None
             /\ Older(f).age \in Nat /\ f.age \in Nat /\ f.age <= TTL
             /\ Older(f).age = IF f.age = TTL THEN TTL ELSE f.age + 1
  <2>1. f # None /\ f.age \in 0 .. TTL
    BY NoneIsNoRecord DEF Flow
  <2>2. CASE f.age = TTL
    BY <2>1, <2>2, Sizes DEF Kin, Older
  <2>3. CASE f.age # TTL
    <3>1. f.age + 1 \in 0 .. TTL
      BY <2>1, <2>3, Sizes
    <3>2. Older(f) = [f EXCEPT !.age = f.age + 1]
      BY <2>1, <2>3 DEF Older
    <3>3. Older(f) \in Flow /\ Older(f).age = f.age + 1
      BY <3>1, <3>2 DEF Flow
    <3>4. /\ Older(f).of = f.of /\ Older(f).final = f.final /\ Older(f).packets = f.packets
      BY <3>2 DEF Flow
    <3> QED BY <2>1, <2>3, <3>1, <3>3, <3>4, NoneIsNoRecord, Sizes DEF Kin
  <2> QED BY <2>2, <2>3
<1>5. Older(None) = None
  BY DEF Older
<1>6. ASSUME NEW id \in Conns
      PROVE  /\ table'.flow[id] \in Flow \cup {None} /\ Kin(table'.flow[id], table.flow[id])
             /\ table'.flow[id] = None <=> table.flow[id] = None
  <2>1. table'.flow[id] = Older(table.flow[id])
    BY <1>3
  <2> QED BY <2>1, <1>1, <1>4, <1>5 DEF Kin
<1>7. table' \in Table
  <2>1. table'.flow \in [Conns -> Flow \cup {None}]
    BY <1>3, <1>6
  <2> QED BY <2>1, <1>1, <1>3 DEF Table
<1>8. Lists(table, setup.maxFlows)'
  <2>1. Remembered(table') = Remembered(table)
    BY <1>6 DEF Remembered
  <2>2. Members(table'.lru) = Remembered(table') /\ Len(table'.lru) <= setup.maxFlows
        /\ Distinct(table'.lru)
    BY <2>1, <1>3, TableIs DEF Lists
  <2> QED BY <2>2 DEF Lists, Members, Distinct, Remembered
<1>9. Aged(table)'
  <2>1. ASSUME NEW i \in 1 .. Len(table.lru), NEW j \in 1 .. Len(table.lru), i < j
        PROVE  table'.flow[table.lru[i]].age >= table'.flow[table.lru[j]].age
    <3> DEFINE f == table.flow[table.lru[i]]
               g == table.flow[table.lru[j]]
    <3>1. f.age >= g.age
      BY <2>1, TableIs DEF Aged
    <3>2. /\ table.lru[i] \in Conns /\ table.lru[j] \in Conns
          /\ f # None /\ g # None
      BY TableIs DEF Lists, Members, Remembered
    <3>3. f \in Flow /\ g \in Flow
      BY <3>2, TableIs
    <3>4. table'.flow[table.lru[i]] = Older(f) /\ table'.flow[table.lru[j]] = Older(g)
      BY <3>2, <1>3
    <3> HIDE DEF f, g
    <3>5. /\ Older(f).age = IF f.age = TTL THEN TTL ELSE f.age + 1
          /\ Older(g).age = IF g.age = TTL THEN TTL ELSE g.age + 1
          /\ f.age \in Nat /\ g.age \in Nat /\ f.age <= TTL /\ g.age <= TTL
      BY <3>3, <1>4
    <3>6. Older(f).age >= Older(g).age
      BY <3>1, <3>5, Sizes
    <3> QED BY <3>4, <3>6
  <2> QED BY <2>1, <1>3 DEF Aged
<1> QED BY <1>6, <1>7, <1>8, <1>9, AgentIs, FlowsStep

\* The sidecar forgets flows that are old, or all of them.
LEMMA CleanupStep ==
  ASSUME IInv, Cleanup
  PROVE  IInv'
BY ExpireStep, AgentIs, FlowsStep DEF Cleanup

\* A sidecar that restarts has an empty table, which is sound.
LEMMA EmptyIs ==
  ASSUME NEW size \in Nat
  PROVE  EmptyTable \in Table /\ Lists(EmptyTable, size) /\ Aged(EmptyTable)
<1>1. EmptyTable.lru = <<>> /\ Len(<<>>) = 0 /\ <<>> \in Seq(Conns) /\ 1 .. 0 = {}
  BY EmptySeq DEF EmptyTable
<1>2. EmptyTable.flow = [id \in Conns |-> None]
  BY DEF EmptyTable
<1>3. Remembered(EmptyTable) = {}
  BY <1>2 DEF Remembered
<1>4. Members(EmptyTable.lru) = {} /\ Distinct(EmptyTable.lru) /\ Aged(EmptyTable)
  BY <1>1 DEF Members, Distinct, Aged
<1>5. EmptyTable \in Table
  BY <1>1, <1>2 DEF EmptyTable, Table
<1> QED BY <1>1, <1>3, <1>4, <1>5 DEF Lists

LEMMA SidecarRestartStep ==
  ASSUME IInv, SidecarRestart
  PROVE  IInv'
<1> USE DEF SidecarRestart
<1>1. table' \in Table /\ Lists(table', setup.maxFlows) /\ Aged(table')
  BY TableIs, EmptyIs
<1>2. Lists(table, setup.maxFlows)' /\ Aged(table)'
  BY <1>1 DEF Lists, Aged, Remembered
<1>3. \A id \in Conns : Kin(table'.flow[id], table.flow[id])
  BY DEF EmptyTable, Kin
<1>4. faults' \in 0 .. MaxFaults
  BY AgentIs, Sizes
<1> QED BY <1>1, <1>2, <1>3, <1>4, AgentIs, FlowsStep

-----------------------------------------------------------------------------
(* Steps of one connection *)

\* The end of inspect keeps the connection, without a packet that waits, or it is gone.
LEMMA ConcludedIs ==
  ASSUME NEW conn \in Conn, NEW verdict \in Verdict, NEW c, c = Concluded(conn, verdict)
  PROVE  /\ c \in Conn \cup {None}
         /\ c # None =>
              /\ c.who = conn.who /\ c.packets = conn.packets /\ c.disturbed = conn.disturbed
              /\ c.waiting = None /\ c.verdict \in {None, verdict} /\ c.latched \in BOOLEAN
              /\ c.latched => c.verdict = verdict
              /\ c.latched /\ ~verdict.final => conn.packets >= InspectPackets
              /\ ~c.latched => conn.packets < InspectPackets /\ ~verdict.final
<1> DEFINE stays == verdict.final \/ Inspected(conn.packets)
           kept == IF stays \/ verdict.action = "block" THEN verdict ELSE None
           done == [conn EXCEPT !.waiting = None, !.latched = stays, !.verdict = kept]
<1>1. conn.packets \in Nat /\ verdict.final \in BOOLEAN
  BY Sizes DEF Conn, Verdict
<1>2. stays \in BOOLEAN /\ (stays /\ ~verdict.final => conn.packets >= InspectPackets)
      /\ (~stays => conn.packets < InspectPackets /\ ~verdict.final)
  BY <1>1, Sizes DEF Inspected
<1>3. kept \in {None, verdict} /\ (stays => kept = verdict)
  OBVIOUS
<1>4. c = IF stays /\ conn.closed THEN None ELSE done
  BY DEF Concluded
<1> HIDE DEF stays, kept
<1>5. done = [conn EXCEPT !.waiting = None, !.latched = stays, !.verdict = kept]
  OBVIOUS
<1>6. /\ done \in Conn /\ done.who = conn.who /\ done.packets = conn.packets
      /\ done.disturbed = conn.disturbed /\ done.waiting = None
      /\ done.verdict = kept /\ done.latched = stays
  BY <1>2, <1>3 DEF Conn
<1> HIDE DEF done
<1> QED BY <1>2, <1>3, <1>4, <1>6

\* A connection with an ID the sidecar did not know before owns it.
LEMMA OwnerIs ==
  ASSUME IInv, NEW id \in Conns, conns[id] # None, id \notin leftover
  PROVE  id <= sequence /\ Owns(conns[id].who, id)
<1>1. Owned(id) /\ id \in Nat /\ sequence \in Nat
  BY AgentIs, Sizes DEF IInv, Each, Conns
<1>2. PICK w \in Conns : Owns(w, id)
  BY <1>1 DEF Owned
<1>3. conns[id].who = w
  BY <1>2 DEF Owns
<1> QED BY <1>1, <1>2, <1>3 DEF Owned, Fresh

\* What a step must leave of a connection, and of the flow of its ID.
LEMMA ConnStep ==
  ASSUME IInv, NEW id \in Conns, conns[id] # None, NEW c \in Conn \cup {None},
         conns' = [conns EXCEPT ![id] = c],
         c # None =>
           /\ c.who = conns[id].who /\ (conns[id].disturbed => c.disturbed)
           /\ ConnCounted(c) /\ ConnDue(c)
           /\ c.verdict # None /\ id \notin leftover => c.verdict.of \subseteq {c.who},
         table' \in Table, Lists(table, setup.maxFlows)', Aged(table)',
         \A x \in Conns : x # id => Kin(table'.flow[x], table.flow[x]),
         table'.flow[id] # None =>
           /\ FlowCounted(table'.flow[id])
           /\ id \notin leftover => table'.flow[id].of \subseteq {conns[id].who}
           /\ c # None => InStepWith(c, table'.flow[id]),
         late' \subseteq Request,
         \A r \in late' : r.kind = "classify" =>
           r \in late \/ (r.id = id /\ r.who = conns[id].who /\ (c # None => c.disturbed)),
         closing' \in Seq(Conns), Len(closing') <= QueueSize, faults' \in 0 .. MaxFaults,
         UNCHANGED <<setup, opened, sequence, leftover>>
  PROVE  IInv'
<1>1. conns \in [Conns -> Conn \cup {None}]
  BY DEF IInv, TypeOK
<1>2. /\ conns'[id] = c /\ conns' \in [Conns -> Conn \cup {None}]
      /\ \A x \in Conns : x # id => conns'[x] = conns[x]
  BY <1>1
<1>3. TypeOK'
  BY <1>2 DEF IInv, TypeOK, Table
<1>4. Listed'
  BY DEF Listed
<1>5. \A r \in late : r.who \in Nat
  BY Sizes DEF IInv, TypeOK, Request, Conns
<1>6. ASSUME NEW x \in Conns, x # id PROVE Each(x)'
  <2>1. Each(x) /\ (conns[x] # None => conns[x].who \in Nat)
    BY Sizes DEF IInv, TypeOK, Conn, Conns
  <2>2. Kin(table'.flow[x], table.flow[x]) /\ conns'[x] = conns[x]
    BY <1>2, <1>6
  <2>3. \A r \in late' : r.kind = "classify" /\ r.id = x => r \in late
    BY <1>6
  <2> QED BY <2>1, <2>2, <2>3, <1>5, AgentIs, Untouched
<1>7. Each(id)'
  <2>1. Each(id) /\ conns[id] \in Conn
    BY <1>1 DEF IInv
  <2>2. Counted(id)'
    BY <1>2 DEF Counted, ConnCounted, Builtins, FlowCounted
  <2>3. Owned(id)'
    <3> SUFFICES ASSUME id \notin leftover
                 PROVE  ((id > sequence => Fresh(id)) /\ \E w \in Conns : Owns(w, id))'
      BY DEF Owned
    <3>1. PICK w \in Conns : w = conns[id].who /\ id <= sequence /\ Owns(w, id)
      BY <2>1, OwnerIs DEF Conn
    <3>2. \A r \in late' : r.kind = "classify" /\ r.id = id => r.who = w
      BY <3>1 DEF Owns
    <3>3. Owns(w, id)'
      <4>1. conns'[id] # None => conns'[id].who = w
        BY <1>2, <3>1
      <4>2. conns'[id] # None /\ conns'[id].verdict # None => conns'[id].verdict.of \subseteq {w}
        BY <1>2, <3>1
      <4>3. table'.flow[id] # None => table'.flow[id].of \subseteq {w}
        BY <3>1
      <4> QED BY <3>2, <4>1, <4>2, <4>3 DEF Owns
    <3>4. id \in Nat /\ sequence \in Nat
      BY AgentIs, Sizes DEF Conns
    <3> QED BY <3>1, <3>3, <3>4
  <2>4. InStep(id)'
    <3>1. (conns[id] # None => conns[id].who <= opened)'
      BY <1>2, <2>1 DEF Each, InStep
    <3>2. (conns[id] # None /\ table.flow[id] # None => InStepWith(conns[id], table.flow[id]))'
      BY <1>2 DEF InStepWith
    <3>3. ASSUME NEW r \in late', r.kind = "classify", r.id = id
          PROVE  r.who <= opened' /\ (conns'[id] # None /\ conns'[id].who = r.who => conns'[id].disturbed)
      <4>1. CASE r \in late
        BY <3>3, <4>1, <1>2, <2>1 DEF Each, InStep
      <4>2. CASE r.who = conns[id].who /\ (c # None => c.disturbed)
        BY <3>3, <4>2, <1>2, <2>1 DEF Each, InStep
      <4> QED BY <3>3, <4>1, <4>2
    <3> QED BY <3>1, <3>2, <3>3 DEF InStep
  <2>5. Due(id)'
    BY <1>2 DEF Due, ConnDue
  <2> QED BY <2>2, <2>3, <2>4, <2>5 DEF Each
<1> QED BY <1>3, <1>4, <1>6, <1>7 DEF IInv

\* What the invariant says of a connection.
LEMMA ConnIs ==
  ASSUME IInv, NEW id \in Conns, conns[id] # None
  PROVE  /\ conns[id] \in Conn /\ ConnCounted(conns[id]) /\ ConnDue(conns[id])
         /\ conns[id].packets \in Nat /\ conns[id].who \in Conns
         /\ conns[id].verdict # None /\ id \notin leftover
              => conns[id].verdict.of \subseteq {conns[id].who}
         /\ table.flow[id] # None =>
              /\ table.flow[id].packets \in Nat /\ InStepWith(conns[id], table.flow[id])
              /\ id \notin leftover => table.flow[id].of \subseteq {conns[id].who}
<1>1. conns[id] \in Conn /\ Each(id)
  BY DEF IInv, TypeOK
<1>2. conns[id].packets \in Nat /\ conns[id].who \in Conns
  BY <1>1, Sizes DEF Conn
<1>3. ConnCounted(conns[id]) /\ ConnDue(conns[id])
  BY <1>1 DEF Each, Counted, Due
<1>4. conns[id].verdict # None /\ id \notin leftover
        => conns[id].verdict.of \subseteq {conns[id].who}
  BY OwnerIs DEF Owns
<1>5. ASSUME table.flow[id] # None
      PROVE  /\ table.flow[id].packets \in Nat /\ InStepWith(conns[id], table.flow[id])
             /\ id \notin leftover => table.flow[id].of \subseteq {conns[id].who}
  <2>1. table.flow[id] \in Flow
    BY <1>5, TableIs
  <2>2. table.flow[id].packets \in Nat
    BY <2>1, Sizes DEF Flow
  <2>3. id \notin leftover => table.flow[id].of \subseteq {conns[id].who}
    BY <1>5, OwnerIs DEF Owns
  <2> QED BY <1>1, <1>5, <2>2, <2>3 DEF Each, InStep
<1> QED BY <1>1, <1>2, <1>3, <1>4, <1>5

\* The table while the agent is on its own.
LEMMA TableStays ==
  ASSUME IInv, UNCHANGED <<setup, table>>
  PROVE  /\ table' \in Table /\ Lists(table, setup.maxFlows)' /\ Aged(table)'
         /\ \A x \in Conns : Kin(table'.flow[x], table.flow[x])
<1>1. table' \in Table /\ Lists(table, setup.maxFlows)' /\ Aged(table)'
  BY TableIs DEF Lists, Aged, Remembered
<1> QED BY <1>1 DEF Kin

\* A connection that changes while the table stays.
LEMMA AgentStep ==
  ASSUME IInv, NEW id \in Conns, conns[id] # None, NEW c \in Conn \cup {None},
         conns' = [conns EXCEPT ![id] = c],
         c # None =>
           /\ c.who = conns[id].who /\ (conns[id].disturbed => c.disturbed)
           /\ ConnCounted(c) /\ ConnDue(c)
           /\ c.verdict # None /\ id \notin leftover => c.verdict.of \subseteq {c.who}
           /\ table.flow[id] # None => InStepWith(c, table.flow[id]),
         late' \subseteq Request,
         \A r \in late' : r.kind = "classify" =>
           r \in late \/ (r.id = id /\ r.who = conns[id].who /\ (c # None => c.disturbed)),
         closing' \in Seq(Conns), Len(closing') <= QueueSize, faults' \in 0 .. MaxFaults,
         UNCHANGED <<setup, opened, sequence, table, leftover>>
  PROVE  IInv'
<1>1. /\ table' \in Table /\ Lists(table, setup.maxFlows)' /\ Aged(table)'
      /\ \A x \in Conns : Kin(table'.flow[x], table.flow[x])
  BY TableStays
<1>2. table'.flow[id] # None =>
           /\ FlowCounted(table'.flow[id])
           /\ id \notin leftover => table'.flow[id].of \subseteq {conns[id].who}
           /\ c # None => InStepWith(c, table'.flow[id])
  BY TableIs, ConnIs
<1> QED BY <1>1, <1>2, ConnStep

\* A packet is inspected: it waits for the sidecar, or has its verdict.
LEMMA InspectStep ==
  ASSUME IInv, NEW id \in Conns, Inspect(id)
  PROVE  IInv'
<1> DEFINE old == conns[id]
           conn == [old EXCEPT !.packets = @ + 1]
<1>1. old # None /\ ~old.latched /\ old.waiting = None
  BY DEF Inspect
<1>2. /\ old \in Conn /\ ConnDue(old) /\ old.packets \in Nat /\ old.packets < InspectPackets
      /\ old.verdict # None /\ id \notin leftover => old.verdict.of \subseteq {old.who}
      /\ table.flow[id] # None => table.flow[id].packets \in Nat /\ InStepWith(old, table.flow[id])
  BY <1>1, ConnIs DEF ConnCounted
<1>3. /\ UNCHANGED <<setup, opened, sequence, closing, table, late, faults, leftover>>
      /\ \/ \E builtin \in Builtins : conns' = [conns EXCEPT ![id] = [conn EXCEPT !.waiting = builtin]]
         \/ \E action \in Actions : conns' = [conns EXCEPT ![id] = Concluded(conn,
              [action |-> action, final |-> TRUE, doubt |-> FALSE, of |-> {}])]
         \/ ~setup.asks /\ conns' = [conns EXCEPT ![id] = Concluded(conn, Unanswered(setup.unknown))]
  BY DEF Inspect
<1>4. /\ conn \in Conn /\ conn.packets = old.packets + 1 /\ conn.who = old.who
      /\ conn.latched = old.latched /\ conn.disturbed = old.disturbed /\ conn.verdict = old.verdict
  <2>1. old.packets + 1 \in 0 .. InspectPackets
    BY <1>2, Sizes
  <2> HIDE DEF old
  <2> QED BY <2>1, <1>2 DEF Conn
<1>5. /\ closing' \in Seq(Conns) /\ Len(closing') <= QueueSize /\ faults' \in 0 .. MaxFaults
      /\ late' \subseteq Request
  BY <1>3, AgentIs
<1> HIDE DEF conn
<1>6. ASSUME NEW builtin \in Builtins, conns' = [conns EXCEPT ![id] = [conn EXCEPT !.waiting = builtin]]
      PROVE  IInv'
  <2> DEFINE c == [conn EXCEPT !.waiting = builtin]
  <2>1. builtin \in Actions /\ builtin # None
    BY SetupIs, TableIs, NoneIsNoRecord DEF Builtins, Actions
  <2>2. /\ c \in Conn /\ c.packets = conn.packets /\ c.who = conn.who /\ c.waiting = builtin
        /\ c.latched = conn.latched /\ c.disturbed = conn.disturbed /\ c.verdict = conn.verdict
    BY <1>4, <2>1 DEF Conn
  <2>3. conns' = [conns EXCEPT ![id] = c]
    BY <1>6
  <2> HIDE DEF c, old
  <2>4. ConnCounted(c)
    BY <2>1, <2>2, <1>1, <1>4 DEF ConnCounted
  <2>5. ConnDue(c)
    BY <2>2, <1>1, <1>2, <1>4 DEF ConnDue
  <2>6. c.verdict # None /\ id \notin leftover => c.verdict.of \subseteq {c.who}
    BY <2>2, <1>2, <1>4
  <2>7. table.flow[id] # None => InStepWith(c, table.flow[id])
    BY <2>1, <2>2, <1>1, <1>2, <1>4 DEF InStepWith
  <2> QED BY <2>2, <2>3, <2>4, <2>5, <2>6, <2>7, <1>1, <1>3, <1>4, <1>5, AgentStep DEF old
<1>7. ASSUME NEW v \in Verdict, v.final \/ ~setup.asks, v.of = {},
             v.doubt /\ "block" \notin {setup.unknown, setup.low} => v.action # "block",
             conns' = [conns EXCEPT ![id] = Concluded(conn, v)]
      PROVE  IInv'
  <2> DEFINE c == Concluded(conn, v)
  <2>1. v.final \in BOOLEAN /\ v.doubt \in BOOLEAN
    BY DEF Verdict
  <2>2. conns' = [conns EXCEPT ![id] = c] /\ c = Concluded(conn, v)
    BY <1>7
  <2> HIDE DEF c, old
  <2>3. /\ c \in Conn \cup {None}
        /\ c # None =>
              /\ c.who = conn.who /\ c.packets = conn.packets /\ c.disturbed = conn.disturbed
              /\ c.waiting = None /\ c.verdict \in {None, v} /\ c.latched \in BOOLEAN
              /\ c.latched => c.verdict = v
              /\ c.latched /\ ~v.final => conn.packets >= InspectPackets
              /\ ~c.latched => conn.packets < InspectPackets /\ ~v.final
    BY <1>4, <2>2, ConcludedIs
  <2>4. v # None
    BY NoneIsNoRecord
  <2>5. c # None => ConnCounted(c)
    BY <2>1, <2>3, <2>4 DEF ConnCounted
  <2>6. c # None => ConnDue(c)
    BY <1>7, <2>3 DEF ConnDue
  <2>7. c # None => (c.verdict # None => c.verdict.of \subseteq {c.who})
    BY <1>7, <2>3
  <2>8. c # None => (table.flow[id] # None => InStepWith(c, table.flow[id]))
    BY <1>7, <2>3 DEF InStepWith
  <2> QED BY <2>2, <2>3, <2>5, <2>6, <2>7, <2>8, <1>1, <1>3, <1>4, <1>5, AgentStep DEF old
<1>8. ASSUME NEW action \in Actions, conns' = [conns EXCEPT ![id] = Concluded(conn,
               [action |-> action, final |-> TRUE, doubt |-> FALSE, of |-> {}])]
      PROVE  IInv'
  <2> DEFINE v == [action |-> action, final |-> TRUE, doubt |-> FALSE, of |-> {}]
  <2>1. v \in Verdict /\ v.final = TRUE /\ v.doubt = FALSE /\ v.of = {}
    BY DEF Verdict
  <2>2. conns' = [conns EXCEPT ![id] = Concluded(conn, v)]
    BY <1>8
  <2> HIDE DEF v
  <2> QED BY <2>1, <2>2, <1>7
<1>9. ASSUME ~setup.asks, conns' = [conns EXCEPT ![id] = Concluded(conn, Unanswered(setup.unknown))]
      PROVE  IInv'
  <2> DEFINE v == Unanswered(setup.unknown)
  <2>1. v \in Verdict /\ v.of = {} /\ v.action = setup.unknown
    BY TableIs, SetupIs DEF Unanswered, Verdict
  <2>2. conns' = [conns EXCEPT ![id] = Concluded(conn, v)]
    BY <1>9
  <2> HIDE DEF v
  <2> QED BY <2>1, <2>2, <1>7, <1>9
<1> QED BY <1>3, <1>6, <1>8, <1>9

\* A packet has no answer in time: the connection is disturbed.
LEMMA TimeoutStep ==
  ASSUME IInv, NEW id \in Conns, Timeout(id)
  PROVE  IInv'
<1> DEFINE old == conns[id]
           conn == [old EXCEPT !.disturbed = TRUE]
           v == Unanswered(old.waiting)
           c == Concluded(conn, v)
           req == [kind |-> "classify", id |-> id, who |-> old.who]
<1>1. old # None /\ old.waiting # None /\ faults < MaxFaults /\ faults' = faults + 1
  BY DEF Timeout, Waiting
<1>2. /\ UNCHANGED <<setup, opened, sequence, closing, table, leftover>>
      /\ conns' = [conns EXCEPT ![id] = c] /\ late' = late \cup {req}
  BY DEF Timeout
<1>3. old \in Conn /\ ConnCounted(old) /\ old.who \in Conns
  BY <1>1, ConnIs
<1>4. conn \in Conn /\ conn.who = old.who /\ conn.packets = old.packets /\ conn.disturbed
  <2> HIDE DEF old
  <2> QED BY <1>3 DEF Conn
<1>5. old.waiting \in Builtins /\ old.waiting \in Actions
  BY <1>1, <1>3, TableIs, SetupIs DEF ConnCounted, Builtins, Actions
<1>6. v \in Verdict /\ v.final = FALSE /\ v.action = old.waiting /\ v.of = {}
  BY <1>5 DEF Unanswered, Verdict
<1>7. c = Concluded(conn, v)
  OBVIOUS
<1>8. late' \subseteq Request /\ \A r \in late' : r.kind = "classify" =>
        r \in late \/ (r.id = id /\ r.who = old.who)
  BY <1>2, <1>3, AgentIs DEF Request
<1> HIDE DEF c, v, old, conn, req
<1>9. /\ c \in Conn \cup {None}
      /\ c # None =>
           /\ c.who = conn.who /\ c.packets = conn.packets /\ c.disturbed = conn.disturbed
           /\ c.waiting = None /\ c.verdict \in {None, v} /\ c.latched \in BOOLEAN
           /\ c.latched => c.verdict = v
           /\ c.latched /\ ~v.final => conn.packets >= InspectPackets
           /\ ~c.latched => conn.packets < InspectPackets /\ ~v.final
  <2>1. conn \in Conn /\ v \in Verdict
    BY <1>4, <1>6
  <2> QED BY <2>1, <1>7, ConcludedIs
<1>10. c # None => ConnCounted(c)
  <2>1. v # None
    BY <1>6, NoneIsNoRecord
  <2> QED BY <2>1, <1>9 DEF ConnCounted
<1>11. c # None => ConnDue(c)
  <2>1. "block" \notin {setup.unknown, setup.low} => v.action # "block"
    BY <1>5, <1>6 DEF Builtins
  <2> QED BY <2>1, <1>4, <1>9 DEF ConnDue
<1>12. c # None => (c.verdict # None => c.verdict.of \subseteq {c.who})
  BY <1>6, <1>9
<1>13. c # None => c.disturbed /\ (table.flow[id] # None => InStepWith(c, table.flow[id]))
  BY <1>4, <1>9 DEF InStepWith
<1>14. closing' \in Seq(Conns) /\ Len(closing') <= QueueSize /\ faults' \in 0 .. MaxFaults
  BY <1>1, <1>2, AgentIs, Sizes
<1> QED BY <1>1, <1>2, <1>4, <1>8, <1>9, <1>10, <1>11, <1>12, <1>13, <1>14, AgentStep DEF old

\* A connection is closed: it is gone, or has a packet under way.
LEMMA CloseStep ==
  ASSUME IInv, NEW id \in Conns, Close(id)
  PROVE  IInv'
<1> DEFINE old == conns[id]
           shut == [old EXCEPT !.closed = TRUE, !.verdict = None]
           c == IF old.latched THEN None ELSE shut
<1>1. /\ old # None /\ old.waiting = None
      /\ UNCHANGED <<setup, opened, sequence, table, late, faults, leftover>>
      /\ conns' = [conns EXCEPT ![id] = c]
      /\ closing' = IF Len(closing) < QueueSize THEN Append(closing, id) ELSE closing
  BY DEF Close
<1>2. /\ old \in Conn /\ ConnCounted(old) /\ ConnDue(old)
      /\ table.flow[id] # None => InStepWith(old, table.flow[id])
  BY <1>1, ConnIs
<1>3. /\ shut \in Conn /\ shut.who = old.who /\ shut.packets = old.packets
      /\ shut.disturbed = old.disturbed /\ shut.latched = old.latched
      /\ shut.waiting = old.waiting /\ shut.verdict = None
  <2> HIDE DEF old
  <2> QED BY <1>2 DEF Conn
<1>4. closing' \in Seq(Conns) /\ Len(closing') <= QueueSize
  <2>1. closing \in Seq(Conns) /\ Len(closing) <= QueueSize
    BY AgentIs
  <2>2. Append(closing, id) \in Seq(Conns) /\ Len(Append(closing, id)) = Len(closing) + 1
        /\ Len(closing) \in Nat
    BY <2>1, AppendProperties, LenProperties
  <2> QED BY <2>1, <2>2, <1>1, Sizes
<1>5. c \in Conn \cup {None} /\ (c # None => c = shut /\ ~old.latched)
  <2> HIDE DEF old, shut
  <2> QED BY <1>3
<1> HIDE DEF c, shut, old
<1>6. c # None => ConnCounted(c) /\ ConnDue(c)
  BY <1>1, <1>2, <1>3, <1>5 DEF ConnCounted, ConnDue
<1>7. c # None => (table.flow[id] # None => InStepWith(c, table.flow[id]))
  BY <1>1, <1>2, <1>3, <1>5 DEF InStepWith
<1>8. c # None => c.who = old.who /\ (old.disturbed => c.disturbed) /\ c.verdict = None
  BY <1>3, <1>5
<1>9. late' \subseteq Request /\ faults' \in 0 .. MaxFaults /\ late' = late
  BY <1>1, AgentIs
<1> QED BY <1>1, <1>4, <1>5, <1>6, <1>7, <1>8, <1>9, AgentStep DEF old

\* An answer of the sidecar makes a verdict that passes in doubt, as the policy
\* has it, and is of the connections the flow is of.
LEMMA AnswerIs ==
  ASSUME setup \in Setups, NEW builtin \in Builtins, NEW flow \in Flow,
         NEW found \in Findings, NEW confident \in BOOLEAN,
         NEW v, v = Answer(builtin, flow, found, confident)
  PROVE  /\ v \in Verdict /\ v.of \subseteq flow.of /\ (v.final <=> flow.final)
         /\ v.doubt /\ "block" \notin {setup.unknown, setup.low} => v.action # "block"
<1> DEFINE pending == Pending(flow, confident)
           action == IF pending THEN "pass" ELSE Decide(builtin, found)
           doubt == found = "unsure" \/ ~(flow.final \/ confident)
           of == IF pending THEN {} ELSE flow.of
<1>1. v = [action |-> action, final |-> flow.final, doubt |-> doubt, of |-> of]
  BY DEF Answer
<1>2. builtin \in Actions /\ setup.low \in Actions \cup {"keep"} /\ setup.unknown \in Actions
  BY SetupIs DEF Builtins, Actions
<1>3. Decide(builtin, found) \in Actions
  BY <1>2 DEF Decide, Actions
<1>4. action \in Actions
  BY <1>3 DEF Actions
<1>5. flow.final \in BOOLEAN /\ flow.of \subseteq Conns
  BY DEF Flow
<1>6. of \subseteq flow.of /\ doubt \in BOOLEAN
  OBVIOUS
<1>7. doubt /\ "block" \notin {setup.unknown, setup.low} => action # "block"
  <2> SUFFICES ASSUME doubt, setup.unknown # "block", setup.low # "block", ~pending
               PROVE  action # "block"
    OBVIOUS
  <2>1. found = "unsure"
    BY DEF Pending
  <2>2. builtin # "block"
    BY DEF Builtins
  <2> QED BY <2>1, <2>2 DEF Decide
<1> HIDE DEF action, doubt, of, pending
<1>8. v.action = action /\ v.final = flow.final /\ v.doubt = doubt /\ v.of = of
  BY <1>1
<1>9. v \in Verdict
  BY <1>1, <1>4, <1>5, <1>6 DEF Verdict
<1> QED BY <1>6, <1>7, <1>8, <1>9

\* The sidecar has classified a packet: the other IDs notice no more than that
\* flows are forgotten, and the flow of the ID was one of its own, or is new.
LEMMA ClassifiedStep ==
  ASSUME IInv, NEW id \in Conns, NEW who \in Conns, NEW stable \in BOOLEAN,
         NEW found \in Findings, table' = Classified(id, who, stable, found), setup' = setup,
         NEW known, known = Expire(table).flow[id]
  PROVE  /\ table' \in Table /\ Lists(table, setup.maxFlows)' /\ Aged(table)'
         /\ \A x \in Conns : x # id => Kin(table'.flow[x], table.flow[x])
         /\ table'.flow[id] \in Flow /\ FlowCounted(table'.flow[id])
         /\ known # None =>
              /\ known = table.flow[id] /\ table.flow[id] # None
              /\ table'.flow[id].of \subseteq known.of \cup {who}
              /\ known.of \subseteq table'.flow[id].of
              /\ ~table'.flow[id].final =>
                   ~known.final /\ table'.flow[id].packets = known.packets + 1
         /\ known = None =>
              /\ table'.flow[id].of \subseteq {who}
              /\ ~table'.flow[id].final => table'.flow[id].packets = 1
<1> DEFINE p == table'
<1>1. /\ p \in Table /\ Lists(p, setup.maxFlows) /\ Aged(p)
      /\ \A x \in Conns : x # id => p.flow[x] \in {None, table.flow[x]}
      /\ known \in {None, table.flow[id]}
      /\ known = None => p.flow[id] = Process(NewFlow, who, stable, found)
      /\ known # None => p.flow[id] = Process(table.flow[id], who, stable, found)
  <2>1. setup \in Setups /\ Listed /\ \A x \in Conns : table.flow[x] # None => FlowCounted(table.flow[x])
    BY TableIs DEF Listed
  <2> QED BY <2>1, ClassifiedIs
<1>2. Lists(table, setup.maxFlows)' /\ Aged(table)'
  BY <1>1 DEF Lists, Aged, Remembered
<1>3. \A x \in Conns : x # id => Kin(table'.flow[x], table.flow[x])
  BY <1>1 DEF Kin
<1> DEFINE fl == p.flow[id]
<1>4. ASSUME known = None
      PROVE  /\ fl \in Flow /\ FlowCounted(fl) /\ fl.of \subseteq {who}
             /\ ~fl.final => fl.packets = 1
  <2>1. fl = Process(NewFlow, who, stable, found)
    BY <1>1, <1>4
  <2>2. NewFlow \in Flow /\ FlowCounted(NewFlow) /\ NewFlow.of = {} /\ NewFlow.packets = 0
    BY TableIs, NewFlowIs DEF NewFlow
  <2> HIDE DEF fl
  <2>3. /\ fl \in Flow /\ FlowCounted(fl) /\ fl.of \subseteq NewFlow.of \cup {who}
        /\ ~fl.final => fl.packets = NewFlow.packets + 1
    BY <2>1, <2>2, TableIs, ProcessIs
  <2> QED BY <2>2, <2>3
<1>5. ASSUME known # None
      PROVE  /\ fl \in Flow /\ FlowCounted(fl) /\ known = table.flow[id]
             /\ fl.of \subseteq known.of \cup {who} /\ known.of \subseteq fl.of
             /\ ~fl.final => ~known.final /\ fl.packets = known.packets + 1
  <2>1. fl = Process(known, who, stable, found) /\ known = table.flow[id]
    BY <1>1, <1>5
  <2>2. known \in Flow /\ FlowCounted(known)
    BY <2>1, <1>5, TableIs
  <2> HIDE DEF fl
  <2> QED BY <2>1, <2>2, TableIs, ProcessIs
<1> QED BY <1>1, <1>2, <1>3, <1>4, <1>5

\* A packet has its answer.
LEMMA ClassifyStep ==
  ASSUME IInv, NEW id \in Conns, Classify(id)
  PROVE  IInv'
<1> DEFINE old == conns[id]
           known == Expire(table).flow[id]
           fl == table'.flow[id]
           conn == [old EXCEPT !.disturbed = @ \/
                     (old.packets > 1 /\ (known = None \/ old.who \notin known.of))]
<1>1. PICK stable \in BOOLEAN, confident \in BOOLEAN, found \in Findings :
        /\ table' = Classified(id, conn.who, stable, found)
        /\ conns' = [conns EXCEPT ![id] =
             Concluded(conn, Answer(conn.waiting, fl, IF fl.final THEN fl.found ELSE found, confident))]
  <2> DEFINE after(stable, found) == Classified(id, conn.who, stable, found)
  <2>1. \E stable, confident \in BOOLEAN, found \in Findings :
          /\ table' = after(stable, found)
          /\ conns' = [conns EXCEPT ![id] =
               Concluded(conn, Answer(conn.waiting, after(stable, found).flow[id],
                 IF after(stable, found).flow[id].final THEN after(stable, found).flow[id].found
                 ELSE found, confident))]
    BY DEF Classify
  <2> HIDE DEF after, conn
  <2>2. PICK stable \in BOOLEAN, confident \in BOOLEAN, found \in Findings :
          /\ table' = after(stable, found)
          /\ conns' = [conns EXCEPT ![id] =
               Concluded(conn, Answer(conn.waiting, after(stable, found).flow[id],
                 IF after(stable, found).flow[id].final THEN after(stable, found).flow[id].found
                 ELSE found, confident))]
    BY <2>1
  <2>3. fl = after(stable, found).flow[id]
    BY <2>2
  <2>4. /\ table' = Classified(id, conn.who, stable, found)
        /\ conns' = [conns EXCEPT ![id] =
             Concluded(conn, Answer(conn.waiting, fl, IF fl.final THEN fl.found ELSE found, confident))]
    BY <2>2, <2>3 DEF after
  <2> QED BY <2>4
<1>2. /\ old # None /\ old.waiting # None
      /\ UNCHANGED <<setup, opened, sequence, closing, late, faults, leftover>>
  BY DEF Classify, Waiting
<1>3. /\ old \in Conn /\ ConnCounted(old) /\ old.packets \in Nat /\ old.who \in Conns
      /\ table.flow[id] # None =>
           /\ table.flow[id].packets \in Nat /\ InStepWith(old, table.flow[id])
           /\ id \notin leftover => table.flow[id].of \subseteq {old.who}
  BY <1>2, ConnIs
<1>4. old.waiting \in Builtins /\ ~old.latched
  BY <1>2, <1>3 DEF ConnCounted
<1>5. /\ conn \in Conn /\ conn.who = old.who /\ conn.packets = old.packets
      /\ conn.waiting = old.waiting
      /\ old.disturbed => conn.disturbed
      /\ old.packets > 1 /\ (known = None \/ old.who \notin known.of) => conn.disturbed
  <2> DEFINE d == old.disturbed \/ (old.packets > 1 /\ (known = None \/ old.who \notin known.of))
  <2>1. d \in BOOLEAN /\ conn = [old EXCEPT !.disturbed = d]
    BY <1>3 DEF Conn
  <2>2. /\ old.disturbed => d
        /\ old.packets > 1 /\ (known = None \/ old.who \notin known.of) => d
    OBVIOUS
  <2> HIDE DEF d, old, known, conn
  <2>3. conn \in Conn /\ conn.who = old.who /\ conn.packets = old.packets
        /\ conn.waiting = old.waiting /\ conn.disturbed = d
    BY <1>3, <2>1 DEF Conn
  <2> QED BY <2>2, <2>3
<1> HIDE DEF old, conn
<1>6. /\ table' \in Table /\ Lists(table, setup.maxFlows)' /\ Aged(table)'
      /\ \A x \in Conns : x # id => Kin(table'.flow[x], table.flow[x])
      /\ fl \in Flow /\ FlowCounted(fl)
      /\ known # None =>
           /\ known = table.flow[id] /\ table.flow[id] # None
           /\ fl.of \subseteq known.of \cup {old.who} /\ known.of \subseteq fl.of
           /\ ~fl.final => ~known.final /\ fl.packets = known.packets + 1
      /\ known = None =>
           /\ fl.of \subseteq {old.who}
           /\ ~fl.final => fl.packets = 1
  <2>1. table' = Classified(id, old.who, stable, found) /\ setup' = setup
    BY <1>1, <1>2, <1>5
  <2>2. known = Expire(table).flow[id]
    OBVIOUS
  <2> HIDE DEF known
  <2> QED BY <2>1, <2>2, <1>3, ClassifiedStep
<1> HIDE DEF known
<1> DEFINE v == Answer(old.waiting, fl, IF fl.final THEN fl.found ELSE found, confident)
           c == Concluded(conn, v)
<1>7. conns' = [conns EXCEPT ![id] = c]
  BY <1>1, <1>5
<1>8. /\ v \in Verdict /\ v.of \subseteq fl.of /\ (v.final <=> fl.final)
      /\ v.doubt /\ "block" \notin {setup.unknown, setup.low} => v.action # "block"
  <2> DEFINE said == IF fl.final THEN fl.found ELSE found
  <2>1. said \in Findings
    BY <1>6 DEF Flow
  <2>2. v = Answer(old.waiting, fl, said, confident)
    OBVIOUS
  <2> HIDE DEF said, v, fl
  <2> QED BY <2>1, <2>2, <1>4, <1>6, TableIs, AnswerIs
<1>9. c = Concluded(conn, v)
  OBVIOUS
<1> HIDE DEF c, v
<1>10. /\ c \in Conn \cup {None}
       /\ c # None =>
            /\ c.who = conn.who /\ c.packets = conn.packets /\ c.disturbed = conn.disturbed
            /\ c.waiting = None /\ c.verdict \in {None, v} /\ c.latched \in BOOLEAN
            /\ c.latched => c.verdict = v
            /\ c.latched /\ ~v.final => conn.packets >= InspectPackets
            /\ ~c.latched => conn.packets < InspectPackets /\ ~v.final
  BY <1>5, <1>8, <1>9, ConcludedIs
<1>11. ~setup.asks \/ conn.disturbed \/ fl.final \/ fl.packets >= old.packets
  <2> SUFFICES ASSUME setup.asks, ~conn.disturbed, ~fl.final PROVE fl.packets >= old.packets
    OBVIOUS
  <2>1. CASE old.packets > 1
    <3>1. known # None /\ old.who \in known.of /\ ~old.disturbed
      BY <2>1, <1>5
    <3>2. known = table.flow[id] /\ ~known.final /\ fl.packets = known.packets + 1
      BY <3>1, <1>6
    <3>3. known.packets \in Nat /\ InStepWith(old, known)
      BY <3>1, <3>2, <1>3, <1>6
    <3> QED BY <3>1, <3>2, <3>3, <1>3, <1>4 DEF InStepWith
  <2>2. CASE ~(old.packets > 1)
    <3>1. CASE known = None
      <4>1. fl.packets = 1
        BY <3>1, <1>6
      <4> QED BY <4>1, <2>2, <1>3
    <3>2. CASE known # None
      <4>1. fl.packets = known.packets + 1 /\ known.packets \in Nat
        BY <3>2, <1>3, <1>6
      <4> QED BY <4>1, <2>2, <1>3
    <3> QED BY <3>1, <3>2
  <2> QED BY <2>1, <2>2
<1>12. c # None => ConnCounted(c)
  <2>1. v # None
    BY <1>8, NoneIsNoRecord
  <2> QED BY <2>1, <1>10 DEF ConnCounted
<1>13. c # None => ConnDue(c)
  <2>1. ASSUME c # None, c.latched, ~c.disturbed,
               setup.asks, setup.maxPackets <= InspectPackets
        PROVE  c.verdict.final
    <3> SUFFICES ASSUME ~fl.final PROVE FALSE
      BY <2>1, <1>8, <1>10
    <3>1. old.packets >= InspectPackets /\ fl.packets >= old.packets
      BY <2>1, <1>5, <1>8, <1>10, <1>11
    <3>2. fl.packets < setup.maxPackets /\ fl.packets \in Nat
      BY <1>6, Sizes DEF FlowCounted, Flow
    <3>3. setup.maxPackets \in Nat
      BY TableIs, SetupIs
    <3> QED BY <2>1, <3>1, <3>2, <3>3, <1>3, Sizes
  <2>2. c # None => (c.verdict # None /\ c.verdict.doubt /\ "block" \notin {setup.unknown, setup.low}
                       => c.verdict.action # "block")
    BY <1>8, <1>10
  <2> QED BY <2>1, <2>2 DEF ConnDue
<1>14. id \notin leftover => fl.of \subseteq {old.who}
  BY <1>3, <1>6
<1>15. c # None => (c.verdict # None /\ id \notin leftover => c.verdict.of \subseteq {c.who})
  BY <1>5, <1>8, <1>10, <1>14
<1>16. c # None => InStepWith(c, fl)
  BY <1>5, <1>10, <1>11 DEF InStepWith
<1>17. c # None => c.who = old.who /\ (old.disturbed => c.disturbed)
  BY <1>5, <1>10
<1>18. /\ closing' \in Seq(Conns) /\ Len(closing') <= QueueSize /\ faults' \in 0 .. MaxFaults
       /\ late' \subseteq Request /\ late' = late
  BY <1>2, AgentIs
<1> QED BY <1>2, <1>6, <1>7, <1>10, <1>12, <1>13, <1>14, <1>15, <1>16, <1>17, <1>18, ConnStep DEF old

\* A request that is late is carried out, or is not.
LEMMA LateStep ==
  ASSUME IInv, NEW r \in late, Late(r)
  PROVE  IInv'
<1> DEFINE id == r.id
           fl == table'.flow[id]
<1>1. /\ late' = late \ {r}
      /\ UNCHANGED <<setup, opened, sequence, conns, closing, faults, leftover>>
  BY DEF Late
<1>2. id \in Conns /\ r.who \in Conns
  BY AgentIs DEF Request
<1>3. /\ closing' \in Seq(Conns) /\ Len(closing') <= QueueSize /\ faults' \in 0 .. MaxFaults
      /\ late' \subseteq Request /\ \A q \in late' : q.kind = "classify" => q \in late
  BY <1>1, AgentIs
<1>4. CASE UNCHANGED table
  BY <1>1, <1>3, <1>4, TableStays, FlowsStep
<1>5. CASE r.kind = "close" /\ table' = RemoveFlow(table, id)
  BY <1>1, <1>2, <1>3, <1>5, RemoveStep, FlowsStep
<1>6. ASSUME r.kind = "classify", NEW stable \in BOOLEAN, NEW found \in Findings,
             table' = Classified(id, r.who, stable, found)
      PROVE  IInv'
  <2> DEFINE known == Expire(table).flow[id]
  <2>1. /\ table' \in Table /\ Lists(table, setup.maxFlows)' /\ Aged(table)'
        /\ \A x \in Conns : x # id => Kin(table'.flow[x], table.flow[x])
        /\ fl \in Flow /\ FlowCounted(fl)
        /\ known # None =>
             /\ known = table.flow[id] /\ table.flow[id] # None
             /\ fl.of \subseteq known.of \cup {r.who} /\ known.of \subseteq fl.of
             /\ ~fl.final => ~known.final /\ fl.packets = known.packets + 1
        /\ known = None =>
             /\ fl.of \subseteq {r.who}
             /\ ~fl.final => fl.packets = 1
    <3>1. known = Expire(table).flow[id] /\ table' = Classified(id, r.who, stable, found)
      BY <1>6
    <3> HIDE DEF known, id
    <3> QED BY <3>1, <1>1, <1>2, ClassifiedStep DEF fl
  <2> HIDE DEF known
  <2>2. TypeOK'
    BY <2>1, <1>1, <1>3 DEF IInv, TypeOK, Table
  <2>3. Listed'
    BY <2>1 DEF Listed
  <2>4. ASSUME NEW x \in Conns, x # id PROVE Each(x)'
    <3>1. Each(x) /\ (conns[x] # None => conns[x].who \in Nat)
      BY Sizes DEF IInv, TypeOK, Conn, Conns
    <3>2. \A q \in late : q.who \in Nat
      BY Sizes DEF IInv, TypeOK, Request, Conns
    <3> QED BY <3>1, <3>2, <2>1, <2>4, <1>1, <1>3, AgentIs, Untouched
  <2>5. Each(id)'
    <3>1. Each(id) /\ conns'[id] = conns[id]
      BY <1>1, <1>2 DEF IInv
    <3>2. Counted(id)'
      BY <3>1, <2>1, <1>1 DEF Each, Counted, ConnCounted, FlowCounted, Builtins
    <3>3. Due(id)'
      BY <3>1, <1>1 DEF Each, Due, ConnDue
    <3>4. Owned(id)'
      <4> SUFFICES ASSUME id \notin leftover
                   PROVE  ((id > sequence => Fresh(id)) /\ \E w \in Conns : Owns(w, id))'
        BY <1>1 DEF Owned
      <4>1. PICK w \in Conns : Owns(w, id)
        BY <3>1 DEF Each, Owned
      <4>2. ~(id > sequence)
        BY <3>1, <1>6 DEF Each, Owned, Fresh
      <4>3. r.who = w
        BY <4>1, <1>6 DEF Owns
      <4>4. fl.of \subseteq {w}
        BY <4>1, <4>3, <2>1 DEF Owns
      <4>5. Owns(w, id)'
        BY <4>1, <4>4, <1>1, <1>3 DEF Owns
      <4> QED BY <4>2, <4>5, <1>1
    <3>5. InStep(id)'
      <4>1. (conns[id] # None => conns[id].who <= opened)'
        BY <3>1, <1>1 DEF Each, InStep
      <4>2. ASSUME conns[id] # None PROVE InStepWith(conns[id], fl)
        <5>1. CASE conns[id].who = r.who
          BY <4>2, <5>1, <3>1, <1>6 DEF Each, InStep, InStepWith
        <5>2. CASE conns[id].who # r.who /\ known = None
          BY <5>2, <2>1 DEF InStepWith
        <5>3. CASE conns[id].who # r.who /\ known # None
          <6>1. /\ InStepWith(conns[id], known) /\ known.packets \in Nat
                /\ conns[id].packets \in Nat
            BY <4>2, <5>3, <2>1, <1>2, ConnIs
          <6> QED BY <6>1, <5>3, <2>1 DEF InStepWith
        <5> QED BY <5>1, <5>2, <5>3
      <4>3. (conns[id] # None /\ table.flow[id] # None => InStepWith(conns[id], table.flow[id]))'
        BY <4>2, <3>1, <1>1 DEF InStepWith
      <4>4. ASSUME NEW q \in late', q.kind = "classify", q.id = id
            PROVE  q.who <= opened' /\ (conns'[id] # None /\ conns'[id].who = q.who => conns'[id].disturbed)
        BY <4>4, <3>1, <1>1, <1>3 DEF Each, InStep
      <4> QED BY <4>1, <4>3, <4>4, <1>1 DEF InStep
    <3> QED BY <3>2, <3>3, <3>4, <3>5, <1>1 DEF Each
  <2>6. \A x \in Conns : Each(x)'
    BY <2>4, <2>5
  <2> QED BY <2>2, <2>3, <2>6 DEF IInv
<1> QED BY <1>4, <1>5, <1>6 DEF Late

-----------------------------------------------------------------------------
(* Steps of the agent process *)

\* A new connection gets an ID that the sidecar does not know, or knew from
\* another process.
LEMMA OpenStep ==
  ASSUME IInv, Open
  PROVE  IInv'
<1>0. opened \in Nat /\ sequence \in Nat /\ sequence <= opened /\ opened < MaxConns
  BY AgentIs DEF Open
<1> PICK id \in Conns : id = sequence + 1
  BY <1>0, Sizes DEF Conns
<1> DEFINE c == [who |-> opened + 1, packets |-> 0, waiting |-> None, verdict |-> None,
                 latched |-> FALSE, disturbed |-> FALSE, closed |-> FALSE]
<1>1. /\ opened < MaxConns /\ opened' = opened + 1 /\ sequence' = id
      /\ conns' = [conns EXCEPT ![id] = c]
      /\ UNCHANGED <<setup, closing, table, late, faults, leftover>>
  <2>1. NextId(sequence) = id /\ id > sequence
    BY <1>0 DEF NextId
  <2> QED BY <2>1 DEF Open
<1>2. opened \in Nat /\ sequence \in Nat /\ sequence <= opened
  BY <1>0
<1>3. opened + 1 \in Conns /\ id > sequence
  BY <1>1, <1>2, Sizes DEF Conns
<1>4. c \in Conn /\ c # None
  <2>1. 0 \in 0 .. InspectPackets
    BY Sizes
  <2>2. c \in Conn
    BY <2>1, <1>3 DEF Conn
  <2> HIDE DEF c
  <2> QED BY <2>2, NoneIsNoRecord
<1>5. /\ c.who = opened + 1 /\ c.packets = 0 /\ c.waiting = None /\ c.verdict = None
      /\ ~c.latched /\ ~c.disturbed
  OBVIOUS
<1> HIDE DEF c
<1>6. conns \in [Conns -> Conn \cup {None}]
  BY DEF IInv, TypeOK
<1>7. /\ conns'[id] = c /\ conns' \in [Conns -> Conn \cup {None}]
      /\ \A x \in Conns : x # id => conns'[x] = conns[x]
  <2> QED BY <1>1, <1>3, <1>4, <1>6
<1>8. TypeOK'
  <2>1. opened' \in 0 .. MaxConns /\ sequence' \in 0 .. opened'
    BY <1>1, <1>2, Sizes
  <2> QED BY <2>1, <1>1, <1>7 DEF IInv, TypeOK
<1>9. Listed'
  BY <1>1, TableStays DEF Listed
<1>10. ASSUME NEW x \in Conns, x # id PROVE Each(x)'
  <2>1. Each(x) /\ (conns[x] # None => conns[x].who \in Nat)
    BY Sizes DEF IInv, TypeOK, Conn, Conns
  <2>2. \A q \in late : q.who \in Nat
    BY Sizes DEF IInv, TypeOK, Request, Conns
  <2>3. Kin(table'.flow[x], table.flow[x]) /\ conns'[x] = conns[x]
    BY <1>1, <1>7, <1>10 DEF Kin
  <2>4. opened' \in Nat /\ opened' >= opened /\ sequence' \in Nat /\ sequence' >= sequence
    BY <1>1, <1>2
  <2> QED BY <2>1, <2>2, <2>3, <2>4, <1>1, <1>2, Untouched
<1>11. Each(id)'
  <2>1. Each(id)
    BY <1>3 DEF IInv
  <2>2. Counted(id)'
    BY <1>1, <1>5, <1>7, <2>1, Sizes DEF Each, Counted, ConnCounted, FlowCounted
  <2>3. Due(id)'
    BY <1>5, <1>7 DEF Due, ConnDue
  <2>4. Owned(id)'
    <3> SUFFICES ASSUME id \notin leftover
                 PROVE  ((id > sequence => Fresh(id)) /\ \E w \in Conns : Owns(w, id))'
      BY <1>1 DEF Owned
    <3>1. Fresh(id)
      BY <2>1, <1>3 DEF Each, Owned
    <3>2. PICK w \in Conns : w = opened + 1
      BY <1>3
    <3>3. Owns(w, id)'
      BY <3>1, <3>2, <1>1, <1>5, <1>7 DEF Owns, Fresh
    <3>4. ~(id > sequence')
      BY <1>1, <1>2
    <3> QED BY <3>3, <3>4
  <2>5. InStep(id)'
    <3>1. (conns[id] # None => conns[id].who <= opened)'
      BY <1>1, <1>2, <1>5, <1>7
    <3>2. (conns[id] # None /\ table.flow[id] # None => InStepWith(conns[id], table.flow[id]))'
      <4>1. table.flow[id] # None => table.flow[id].packets \in Nat
        BY <1>3, TableIs, Sizes DEF Flow
      <4> QED BY <4>1, <1>1, <1>5, <1>7 DEF InStepWith
    <3>3. ASSUME NEW q \in late', q.kind = "classify", q.id = id
          PROVE  q.who <= opened' /\ (conns'[id] # None /\ conns'[id].who = q.who => conns'[id].disturbed)
      <4>1. q.who <= opened /\ q.who \in Nat
        <5>1. q.who <= opened
          BY <3>3, <1>1, <2>1 DEF Each, InStep
        <5>2. q.who \in Nat
          BY <3>3, <1>1, Sizes DEF IInv, TypeOK, Request, Conns
        <5> QED BY <5>1, <5>2
      <4>2. conns'[id].who = opened + 1
        BY <1>5, <1>7
      <4> QED BY <4>1, <4>2, <1>1, <1>2
    <3> QED BY <3>1, <3>2, <3>3 DEF InStep
  <2> QED BY <2>2, <2>3, <2>4, <2>5 DEF Each
<1> QED BY <1>8, <1>9, <1>10, <1>11 DEF IInv

\* The agent starts again: what the sidecar knows, and may yet be asked, is left over.
LEMMA AgentRestartStep ==
  ASSUME IInv, AgentRestart
  PROVE  IInv'
<1> DEFINE lost == {[kind |-> "classify", id |-> id, who |-> conns[id].who] :
                      id \in {c \in Conns : Waiting(c)}}
<1>1. /\ faults < MaxFaults /\ faults' = faults + 1
      /\ late' = late \cup lost /\ sequence' = 0 /\ closing' = <<>>
      /\ leftover' = leftover \cup Remembered(table) \cup {r.id : r \in late'}
      /\ conns' = [id \in Conns |-> None] /\ UNCHANGED <<setup, opened, table>>
  BY DEF AgentRestart
<1>2. ASSUME NEW r \in lost
      PROVE  r \in Request /\ r.who <= opened
  <2>1. PICK id \in Conns : Waiting(id) /\ r = [kind |-> "classify", id |-> id, who |-> conns[id].who]
    OBVIOUS
  <2>2. conns[id] # None /\ conns[id].who \in Conns /\ conns[id].who <= opened
    BY <2>1, ConnIs DEF Waiting, IInv, Each, InStep
  <2> QED BY <2>1, <2>2 DEF Request
<1> HIDE DEF lost
<1>3. late' \subseteq Request
  BY <1>1, <1>2, AgentIs
<1>4. \A r \in late' : r.id \in leftover' /\ r.id \in Conns
  BY <1>1, <1>3 DEF Request
<1>5. leftover' \subseteq Conns
  <2>1. leftover \subseteq Conns
    BY DEF IInv, TypeOK
  <2> QED BY <2>1, <1>1, <1>4 DEF Remembered
<1>6. TypeOK'
  <2>1. closing' \in Seq(Conns) /\ Len(closing') <= QueueSize
    BY <1>1, EmptySeq, Sizes
  <2>2. faults' \in 0 .. MaxFaults /\ sequence' \in 0 .. opened' /\ opened' \in 0 .. MaxConns
    BY <1>1, AgentIs, Sizes
  <2>3. conns' \in [Conns -> Conn \cup {None}]
    BY <1>1
  <2> QED BY <2>1, <2>2, <2>3, <1>1, <1>3, <1>5 DEF IInv, TypeOK
<1>7. Listed'
  BY <1>1, TableStays DEF Listed
<1>8. ASSUME NEW id \in Conns PROVE Each(id)'
  <2>1. Each(id) /\ conns'[id] = None
    BY <1>1 DEF IInv
  <2>2. Counted(id)' /\ Due(id)'
    BY <2>1, <1>1 DEF Each, Counted, FlowCounted, Due
  <2>3. Owned(id)'
    <3> SUFFICES ASSUME id \notin leftover'
                 PROVE  ((id > sequence => Fresh(id)) /\ \E w \in Conns : Owns(w, id))'
      BY DEF Owned
    <3>1. table'.flow[id] = None /\ \A r \in late' : r.id # id
      BY <1>1, <1>4 DEF Remembered
    <3>2. Fresh(id)' /\ Owns(id, id)'
      BY <3>1, <2>1 DEF Fresh, Owns
    <3> QED BY <3>2
  <2>4. InStep(id)'
    <3>1. ASSUME NEW r \in late', r.kind = "classify", r.id = id PROVE r.who <= opened'
      BY <3>1, <2>1, <1>1, <1>2 DEF Each, InStep
    <3> QED BY <3>1, <2>1 DEF InStep
  <2> QED BY <2>2, <2>3, <2>4 DEF Each
<1> QED BY <1>6, <1>7, <1>8 DEF IInv

-----------------------------------------------------------------------------
\* The invariant holds at the beginning.
LEMMA InitIInv ==
  ASSUME Init
  PROVE  IInv
<1> USE DEF Init
<1>1. setup.maxFlows \in Nat \ {0} /\ setup.maxFlows \in Nat
  BY SetupIs
<1>2. Listed
  BY <1>1, EmptyIs DEF Listed
<1>3. table.flow = [id \in Conns |-> None] /\ None \in Flow \cup {None}
  BY DEF EmptyTable
<1>4. TypeOK
  <2>1. <<>> \in Seq(Conns) /\ Len(<<>>) = 0
    BY EmptySeq
  <2>2. 0 \in 0 .. MaxConns /\ 0 \in 0 .. 0 /\ 0 \in 0 .. MaxFaults /\ 0 <= QueueSize
    BY Sizes
  <2> QED BY <2>1, <2>2, <1>3 DEF TypeOK
<1>5. ASSUME NEW id \in Conns PROVE Each(id)
  <2>1. conns[id] = None /\ table.flow[id] = None
    BY <1>3
  <2> QED BY <2>1 DEF Each, Counted, Owned, Owns, Fresh, InStep, Due
<1> QED BY <1>2, <1>4, <1>5 DEF IInv

\* Every step of the agent, of the sidecar, and of what is late keeps the invariant.
LEMMA NextIInv ==
  ASSUME IInv, [Next]_vars
  PROVE  IInv'
<1>1. ASSUME Open PROVE IInv'
  BY <1>1, OpenStep
<1>2. ASSUME CloseFlow PROVE IInv'
  BY <1>2, CloseFlowStep
<1>3. ASSUME AgentRestart PROVE IInv'
  BY <1>3, AgentRestartStep
<1>4. ASSUME NEW id \in Conns, Inspect(id) PROVE IInv'
  BY <1>4, InspectStep
<1>5. ASSUME NEW id \in Conns, Classify(id) PROVE IInv'
  BY <1>5, ClassifyStep
<1>6. ASSUME NEW id \in Conns, Timeout(id) PROVE IInv'
  BY <1>6, TimeoutStep
<1>7. ASSUME NEW id \in Conns, Close(id) PROVE IInv'
  BY <1>7, CloseStep
<1>8. ASSUME NEW r \in late, Late(r) PROVE IInv'
  BY <1>8, LateStep
<1>9. ASSUME Tick PROVE IInv'
  BY <1>9, TickStep
<1>10. ASSUME Cleanup PROVE IInv'
  BY <1>10, CleanupStep
<1>11. ASSUME SidecarRestart PROVE IInv'
  BY <1>11, SidecarRestartStep
<1>12. ASSUME UNCHANGED vars PROVE IInv'
  BY <1>12, TableStays, AgentIs, FlowsStep DEF vars
<1> QED BY <1>1, <1>2, <1>3, <1>4, <1>5, <1>6, <1>7, <1>8, <1>9, <1>10, <1>11, <1>12 DEF Next

\* The inductive invariant: packets are counted within their limits, an ID is of one
\* connection, agent and sidecar are in step, verdicts are due, the table is sound.
THEOREM Inductive == Spec => []IInv
<1>1. Init => IInv
  BY InitIInv
<1>2. IInv /\ [Next]_vars => IInv'
  BY NextIInv
<1> QED BY <1>1, <1>2, PTL DEF Spec

\* Every variable has its type: no connection has more packets inspected than the
\* limit, and the queue of closed flows keeps to its size.
THEOREM TypeCorrect == Spec => []TypeOK
<1>1. IInv => TypeOK
  BY DEF IInv
<1> QED BY <1>1, Inductive, PTL

\* What is decided about a connection rests on its own packets: detectProtocolFlow
\* and the sidecar know it by an ID that no other connection has had, unless an
\* agent process before left it behind.
THEOREM VerdictsAreOwn == Spec => []OwnVerdict
<1>1. ASSUME IInv PROVE OwnVerdict
  BY <1>1, ConnIs DEF OwnVerdict
<1> QED BY <1>1, Inductive, PTL

\* A verdict that stays is a stable identification, when the sidecar is asked and
\* needs no more packets than the agent inspects; and whatever the options of the
\* sidecar, in doubt a policy that lets unknown traffic pass lets it pass.
THEOREM VerdictsFollowPolicy == Spec => []VerdictsAreDue
<1>1. ASSUME IInv PROVE VerdictsAreDue
  BY <1>1, ConnIs DEF VerdictsAreDue, LatchedIsStable, DoubtPasses, ConnDue
<1> QED BY <1>1, Inductive, PTL

\* The list of the sidecar is the list of its flows by age, within the limit, so
\* that expireLocked misses none and ensureCapacityLocked forgets the oldest.
THEOREM TableStaysSound == Spec => []TableSound
<1>1. ASSUME IInv PROVE TableSound
  BY <1>1 DEF IInv, Listed, Lists, Members, Distinct, Aged, TableSound
<1> QED BY <1>1, Inductive, PTL
=============================================================================
