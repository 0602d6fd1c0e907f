------------------------ MODULE RedisCountingProofs ------------------------
(***************************************************************************)
(* What the ACL counters of RedisMonitorExporter count, for every value of *)
(* its constants: no event twice or without reason (AdoptedNotCounted),    *)
(* and every event the exporter could read (NothingMissed).                *)
(*                                                                         *)
(* Both are proved by counting sets of events. An event that an entry of   *)
(* the log reports is accounted when it was read, and read when a reply    *)
(* with it arrived; Unseen(c) are those not read yet, Replied(c) those     *)
(* read and not counted yet. A poll moves events from the first set to the *)
(* second and from there to total[c]; only ACL events add to the first.    *)
(***************************************************************************)
EXTENDS RedisMonitorExporterProofs

-----------------------------------------------------------------------------
(* Counting events.                                                        *)

\* An event is a unit of the count of a log entry: <<entry-id, n>> is the n-th.
Units == Ids \X (1 .. MaxDisturbances)
\* The events in a set of entries that count for series c.
EventsFor(c, entries) ==
  {u \in Units : \E e \in entries :
     e.id = u[1] /\ u[2] <= e.count /\ c \in SeriesOf(e.kind)}

LEMMA UnitParts ==
  ASSUME NEW u \in Units
  PROVE  u[1] \in Ids /\ u[2] \in 1 .. MaxDisturbances /\ u = <<u[1], u[2]>>
  BY DEF Units

\* Sets of events can be counted.
LEMMA FiniteUnits ==
  ASSUME NEW U \in SUBSET Units
  PROVE  IsFiniteSet(U) /\ Cardinality(U) \in Nat
  <1>1. IsFiniteSet(0 .. MaxDisturbances) /\ IsFiniteSet(1 .. MaxDisturbances)
    BY ExporterAssumption, FS_Interval
  <1>2. IsFiniteSet(Units)
    BY <1>1, FS_Product DEF Units, Ids
  <1>3. QED
    BY <1>2, FS_Subset, FS_CardinalityType

\* A set of events and one more.
LEMMA OneMoreCounted ==
  ASSUME NEW S \in SUBSET Units, NEW T \in SUBSET Units, NEW x
  PROVE  /\ T \subseteq S \cup {x} => Cardinality(T) <= Cardinality(S) + 1
         /\ T = S \cup {x} /\ x \notin S => Cardinality(T) = Cardinality(S) + 1
         /\ T \subseteq S => Cardinality(T) <= Cardinality(S)
  <1>1. /\ IsFiniteSet(S) /\ Cardinality(S) \in Nat
        /\ Cardinality(T) \in Nat
    BY FiniteUnits
  <1>2. /\ IsFiniteSet(S \cup {x})
        /\ Cardinality(S \cup {x}) = IF x \in S THEN Cardinality(S) ELSE Cardinality(S) + 1
    BY <1>1, FS_AddElement
  <1>3. T \subseteq S \cup {x} => Cardinality(T) <= Cardinality(S \cup {x})
    BY <1>2, FS_Subset
  <1>4. T \subseteq S => Cardinality(T) <= Cardinality(S)
    BY <1>1, FS_Subset
  <1>5. QED
    BY <1>1, <1>2, <1>3, <1>4

\* The events a .. b of one entry.
LEMMA RunCounted ==
  ASSUME NEW id \in Ids, NEW a \in Nat, NEW b \in 0 .. MaxDisturbances,
         NEW U, U = {u \in Units : u[1] = id /\ a < u[2] /\ u[2] <= b}
  PROVE  Cardinality(U) = IF b > a THEN b - a ELSE 0
  <1> DEFINE f == [n \in (a + 1) .. b |-> <<id, n>>]
  <1>1. /\ IsFiniteSet((a + 1) .. b)
        /\ Cardinality((a + 1) .. b) = IF b > a THEN b - a ELSE 0
    <2>1. a + 1 \in Int /\ b \in Int
      BY ExporterAssumption
    <2>2. QED
      BY <2>1, FS_Interval
  <1>2. \A n \in (a + 1) .. b : f[n] \in U
    BY ExporterAssumption DEF Units
  <1>3. f \in Injection((a + 1) .. b, U)
    <2>1. f \in [(a + 1) .. b -> U]
      BY <1>2
    <2>2. \A m, n \in (a + 1) .. b : f[m] = f[n] => m = n
      OBVIOUS
    <2>3. QED
      BY <2>1, <2>2 DEF Injection, IsInjective
  <1>4. f \in Surjection((a + 1) .. b, U)
    <2>1. ASSUME NEW u \in U
          PROVE  \E n \in (a + 1) .. b : f[n] = u
      <3>1. u \in Units /\ u[1] = id /\ a < u[2] /\ u[2] <= b
        OBVIOUS
      <3>2. u[2] \in Int /\ u = <<id, u[2]>>
        BY <3>1, UnitParts, ExporterAssumption
      <3>3. u[2] \in (a + 1) .. b
        BY <3>1, <3>2
      <3>4. QED
        BY <3>2, <3>3
    <2>2. QED
      BY <1>3, <2>1 DEF Surjection, Injection
  <1>5. ExistsBijection((a + 1) .. b, U)
    BY <1>3, <1>4 DEF ExistsBijection, Bijection
  <1>6. QED
    BY <1>1, <1>5, FS_Bijection

-----------------------------------------------------------------------------
(* The log: every entry has an id of its own.                              *)

OneEntryPerId(log) == \A i, j \in DOMAIN log : log[i].id = log[j].id => i = j

LEMMA InRange ==
  ASSUME NEW S, NEW s \in Seq(S)
  PROVE  /\ \A i \in 1 .. Len(s) : s[i] \in Range(s) /\ s[i] \in S
         /\ \A e \in Range(s) : e \in S /\ \E i \in 1 .. Len(s) : s[i] = e
  <1>1. Range(s) = {s[i] : i \in 1 .. Len(s)}
    BY RangeEquality
  <1>2. QED
    BY <1>1, ElementOfSeq

LEMMA AtMostTransitive ==
  \A i, j, k \in Int : i <= j /\ j <= k => i <= k
  OBVIOUS

LEMMA AfterRemoval ==
  ASSUME NEW S, NEW s \in Seq(S), NEW i \in DOMAIN s
  PROVE  /\ Len(RemoveAt(s, i)) = Len(s) - 1
         /\ \A j \in 1 .. (Len(s) - 1) :
              RemoveAt(s, i)[j] = IF j < i THEN s[j] ELSE s[j + 1]
  <1> DEFINE l == SubSeq(s, 1, i - 1)
             r == SubSeq(s, i + 1, Len(s))
  <1>1. i \in Int /\ Len(s) \in Nat /\ 1 <= i /\ i <= Len(s)
    BY LenProperties
  <1>2. \A j \in 1 .. Len(s) : s[j] \in S
    BY ElementOfSeq
  <1>3. /\ l \in Seq(S) /\ Len(l) = i - 1
        /\ \A j \in 1 .. (i - 1) : l[j] = s[j]
    <2>1. \A j \in 1 .. (i - 1) : s[j] \in S
      BY <1>1, <1>2
    <2>2. i - 1 \in Int
      BY <1>1
    <2>3. /\ l \in Seq(S) /\ Len(l) = IF 1 <= i - 1 THEN i - 1 - 1 + 1 ELSE 0
          /\ \A j \in 1 .. (i - 1 - 1 + 1) : l[j] = s[1 + j - 1]
      BY <2>1, <2>2, SubSeqProperties
    <2>4. QED
      BY <1>1, <2>3
  <1>4. /\ r \in Seq(S) /\ Len(r) = Len(s) - i
        /\ \A j \in 1 .. (Len(s) - i) : r[j] = s[i + j]
    <2>1. \A j \in (i + 1) .. Len(s) : s[j] \in S
      BY <1>1, <1>2
    <2>2. i + 1 \in Int
      BY <1>1
    <2>3. /\ r \in Seq(S) /\ Len(r) = IF i + 1 <= Len(s) THEN Len(s) - (i + 1) + 1 ELSE 0
          /\ \A j \in 1 .. (Len(s) - (i + 1) + 1) : r[j] = s[i + 1 + j - 1]
      BY <1>1, <2>1, <2>2, SubSeqProperties
    <2>4. QED
      BY <1>1, <2>3
  <1>5. RemoveAt(s, i) = l \o r
    BY DEF RemoveAt
  <1> HIDE DEF l, r
  <1>6. /\ Len(l \o r) = Len(l) + Len(r)
        /\ \A j \in 1 .. Len(l) + Len(r) :
             (l \o r)[j] = IF j <= Len(l) THEN l[j] ELSE r[j - Len(l)]
    BY <1>3, <1>4, ConcatProperties
  <1>7. ASSUME NEW j \in 1 .. (Len(s) - 1)
        PROVE  (l \o r)[j] = IF j < i THEN s[j] ELSE s[j + 1]
    <2>1. CASE j < i
      <3>1. j \in 1 .. Len(l) + Len(r) /\ j <= Len(l) /\ j \in 1 .. (i - 1)
        BY <1>1, <1>3, <1>4, <2>1
      <3>2. (l \o r)[j] = l[j]
        BY <1>6, <3>1
      <3>3. l[j] = s[j]
        BY <1>3, <3>1
      <3>4. QED
        BY <2>1, <3>2, <3>3
    <2>2. CASE j >= i
      <3>1. j - Len(l) \in 1 .. (Len(s) - i) /\ i + (j - Len(l)) = j + 1
        BY <1>1, <1>3, <2>2
      <3>2. (l \o r)[j] = r[j - Len(l)]
        <4>1. j \in 1 .. Len(l) + Len(r) /\ ~(j <= Len(l))
          BY <1>1, <1>3, <1>4, <2>2
        <4>2. QED
          BY <1>6, <4>1
      <3>3. r[j - Len(l)] = s[j + 1]
        BY <1>4, <3>1
      <3>4. QED
        BY <1>1, <2>2, <3>2, <3>3
    <2>3. j < i \/ j >= i
      BY <1>1
    <2>4. QED
      BY <2>1, <2>2, <2>3
  <1>8. Len(l \o r) = Len(s) - 1
    <2>1. Len(l \o r) = Len(l) + Len(r)
      BY <1>6
    <2>2. QED
      BY <1>1, <1>3, <1>4, <2>1
  <1>9. QED
    BY <1>5, <1>7, <1>8

\* What a poll can read of the log: the entries in its reach.
LEMMA ReachParts ==
  ASSUME NEW S, NEW s \in Seq(S)
  PROVE  /\ \A i \in 1 .. Len(s) : i <= ReadMax => s[i] \in Reach(s)
         /\ \A e \in Reach(s) : /\ \E i \in 1 .. Len(s) : i <= ReadMax /\ s[i] = e
                                /\ e \in Range(s) /\ e \in S
  <1>1. DOMAIN s = 1 .. Len(s)
    BY LenProperties
  <1>2. \A e \in Reach(s) : \E i \in 1 .. Len(s) : i <= ReadMax /\ s[i] = e
    BY <1>1 DEF Reach
  <1>3. \A i \in 1 .. Len(s) : i <= ReadMax => s[i] \in Reach(s)
    BY <1>1 DEF Reach
  <1>4. QED
    BY <1>2, <1>3, InRange

\* An event of kind k leaves its entry g at the head of the log: an entry that
\* was in reach, with one more event, or a new one. The other entries are those
\* of before, and none comes into reach again.
HeadAfter(g, k) ==
  /\ g \in Logged /\ g.kind = k
  /\ aclLog' \in Seq(Logged)
  /\ OneEntryPerId(aclLog')
  /\ \A e \in Range(aclLog') : e = g \/ (e \in Range(aclLog) /\ e.id # g.id)
  /\ g \in Reach(aclLog')
  /\ \A e \in Reach(aclLog') : e = g \/ (e \in Reach(aclLog) /\ e.id # g.id)
  /\ \/ /\ nextId' = nextId
        /\ \E o \in Reach(aclLog) : o.id = g.id /\ o.kind = k /\ g.count = o.count + 1
     \/ /\ nextId' = nextId + 1
        /\ g.id = nextId /\ g.count = 1

LEMMA GroupedHead ==
  ASSUME TypeInv, OneEntryPerId(aclLog), disturbances < MaxDisturbances,
         NEW k \in Kinds, GroupEvent(k)
  PROVE  \E g \in Logged : HeadAfter(g, k)
  <1>1. PICK i \in DOMAIN aclLog :
          /\ i <= GroupMax /\ aclLog[i].kind = k
          /\ aclLog' = <<[aclLog[i] EXCEPT !.count = @ + 1]>> \o RemoveAt(aclLog, i)
    BY DEF GroupEvent
  <1> DEFINE o == aclLog[i]
             g == [o EXCEPT !.count = @ + 1]
             rest == RemoveAt(aclLog, i)
             L == Len(aclLog)
  <1>2. aclLog \in Seq(Logged) /\ L \in Nat /\ DOMAIN aclLog = 1 .. L
        /\ i \in 1 .. L
    BY LenProperties DEF TypeInv
  <1>3. o \in Logged
    BY <1>2, ElementOfSeq
  <1>4. g \in Logged /\ g.id = o.id /\ g.kind = o.kind /\ g.count = o.count + 1
    BY <1>3 DEF Logged
  <1>5. /\ rest \in Seq(Logged) /\ Len(rest) = L - 1
        /\ \A j \in 1 .. (L - 1) : rest[j] = IF j < i THEN aclLog[j] ELSE aclLog[j + 1]
    BY <1>2, AfterRemoval, RemoveAtSeq
  <1>6. aclLog' = <<g>> \o rest
    BY <1>1
  <1>7. o.kind = k
    BY <1>1
  <1>8. <<g>> \in Seq(Logged) /\ Len(<<g>>) = 1 /\ <<g>>[1] = g
    BY <1>4, SingletonSeq
  <1> HIDE DEF g, rest, L, o
  <1>9. /\ aclLog' \in Seq(Logged) /\ Len(aclLog') = L /\ DOMAIN aclLog' = 1 .. L
        /\ aclLog'[1] = g
        /\ \A j \in 2 .. L : aclLog'[j] = IF j <= i THEN aclLog[j - 1] ELSE aclLog[j]
    <2>1. /\ aclLog' \in Seq(Logged) /\ Len(aclLog') = Len(<<g>>) + Len(rest)
          /\ \A j \in 1 .. Len(<<g>>) + Len(rest) :
               aclLog'[j] = IF j <= Len(<<g>>) THEN <<g>>[j] ELSE rest[j - Len(<<g>>)]
      BY <1>5, <1>6, <1>8, ConcatProperties
    <2>2. Len(aclLog') = L /\ DOMAIN aclLog' = 1 .. L
      BY <1>2, <1>5, <1>8, <2>1, LenProperties
    <2>3. aclLog'[1] = g
      BY <1>2, <1>5, <1>8, <2>1
    <2>4. ASSUME NEW j \in 2 .. L
          PROVE  aclLog'[j] = IF j <= i THEN aclLog[j - 1] ELSE aclLog[j]
      <3>1. aclLog'[j] = rest[j - 1]
        BY <1>2, <1>5, <1>8, <2>1
      <3>2. j - 1 \in 1 .. (L - 1) /\ (j - 1) + 1 = j /\ (j - 1 < i <=> j <= i)
        BY <1>2
      <3>3. QED
        BY <1>5, <3>1, <3>2
    <2>5. QED
      BY <2>1, <2>2, <2>3, <2>4
  <1> DEFINE old(j) == IF j = 1 THEN i ELSE IF j <= i THEN j - 1 ELSE j
  <1>10. /\ \A j \in 1 .. L : old(j) \in 1 .. L
         /\ \A j \in 2 .. L : old(j) <= j
         /\ \A j, m \in 1 .. L : old(j) = old(m) => j = m
         /\ \A j \in 2 .. L : old(j) # i
    BY <1>2
  <1>11. \A j \in 2 .. L : aclLog'[j] = aclLog[old(j)]
    BY <1>2, <1>9
  <1>12. \A j \in 1 .. L : aclLog'[j].id = aclLog[old(j)].id
    BY <1>4, <1>9, <1>11 DEF o
  <1> HIDE DEF old
  <1>14. OneEntryPerId(aclLog')
    <2>1. ASSUME NEW j \in 1 .. L, NEW m \in 1 .. L, aclLog'[j].id = aclLog'[m].id
          PROVE  j = m
      <3>1. aclLog[old(j)].id = aclLog[old(m)].id
        BY <1>12, <2>1
      <3>2. old(j) = old(m)
        BY <1>2, <1>10, <3>1 DEF OneEntryPerId
      <3>3. QED
        BY <1>10, <3>2
    <2>2. QED
      BY <1>9, <2>1 DEF OneEntryPerId
  <1>15. ASSUME NEW e \in Range(aclLog')
         PROVE  e = g \/ (e \in Range(aclLog) /\ e.id # g.id)
    <2>1. PICK j \in 1 .. L : aclLog'[j] = e
      BY <1>9, InRange
    <2>2. CASE j = 1
      BY <1>9, <2>1, <2>2
    <2>3. CASE j # 1
      <3>1. j \in 2 .. L
        BY <1>2, <2>3
      <3>2. e = aclLog[old(j)] /\ old(j) # i /\ old(j) \in 1 .. L
        BY <1>10, <1>11, <2>1, <3>1
      <3>3. e.id # aclLog[i].id
        BY <1>2, <3>2 DEF OneEntryPerId
      <3>4. QED
        BY <1>2, <1>4, <3>2, <3>3, InRange DEF o
    <2>4. QED
      BY <2>2, <2>3
  <1>16. ASSUME NEW e \in Reach(aclLog')
         PROVE  e = g \/ (e \in Reach(aclLog) /\ e.id # g.id)
    <2>1. PICK j \in 1 .. L : aclLog'[j] = e /\ j <= ReadMax
      BY <1>9, ReachParts
    <2>2. e = g \/ (e \in Range(aclLog) /\ e.id # g.id)
      BY <1>9, <1>15, ReachParts
    <2>3. CASE j = 1
      BY <1>9, <2>1, <2>3
    <2>4. CASE j # 1
      <3>1. j \in 2 .. L
        BY <1>2, <2>4
      <3>2. e = aclLog[old(j)] /\ old(j) <= j /\ old(j) \in 1 .. L
        BY <1>10, <1>11, <2>1, <3>1
      <3>3. old(j) <= ReadMax
        BY <1>2, <2>1, <3>2, ExporterAssumption
      <3>4. QED
        BY <1>2, <2>2, <3>2, <3>3, ReachParts DEF L
    <2>5. QED
      BY <2>3, <2>4
  <1>17. g \in Reach(aclLog') /\ o \in Reach(aclLog)
    <2>1. 1 \in 1 .. Len(aclLog') /\ 1 <= ReadMax
      BY <1>2, <1>9, ExporterAssumption
    <2>2. i \in 1 .. Len(aclLog) /\ i <= ReadMax
      BY <1>1, <1>2, ExporterAssumption, ServerAssumption DEF L
    <2>3. QED
      BY <1>2, <1>9, <2>1, <2>2, ReachParts DEF o
  <1>18. nextId' = nextId
    BY DEF GroupEvent
  <1>19. HeadAfter(g, k)
    BY <1>4, <1>7, <1>9, <1>14, <1>15, <1>16, <1>17, <1>18 DEF HeadAfter
  <1>20. QED
    BY <1>4, <1>19

LEMMA NewHead ==
  ASSUME TypeInv, OneEntryPerId(aclLog), disturbances < MaxDisturbances,
         \A e \in Range(aclLog) : e.id < nextId,
         NEW k \in Kinds, NewEvent(k)
  PROVE  \E g \in Logged : HeadAfter(g, k)
  <1> DEFINE g == [id |-> nextId, count |-> 1, kind |-> k]
             n == IF Len(aclLog) < LogLen THEN Len(aclLog) ELSE LogLen - 1
             kept == SubSeq(aclLog, 1, n)
  <1>1. /\ aclLog \in Seq(Logged) /\ Len(aclLog) \in Nat
        /\ DOMAIN aclLog = 1 .. Len(aclLog)
    BY LenProperties DEF TypeInv
  <1>2. n \in Nat /\ n <= Len(aclLog)
    BY <1>1, ServerAssumption
  <1>3. g \in Logged /\ g.id = nextId /\ g.kind = k /\ g.count = 1
    BY ExporterAssumption DEF TypeInv, TypeOK, ServerTypeOK, Ids, Logged
  <1>4. aclLog' = <<g>> \o kept /\ nextId' = nextId + 1
    BY DEF NewEvent
  <1>5. <<g>> \in Seq(Logged) /\ Len(<<g>>) = 1 /\ <<g>>[1] = g
    BY <1>3, SingletonSeq
  <1> HIDE DEF g, n
  <1>6. /\ kept \in Seq(Logged) /\ Len(kept) = n
        /\ \A j \in 1 .. n : kept[j] = aclLog[j]
    <2>1. \A j \in 1 .. n : aclLog[j] \in Logged
      BY <1>1, <1>2, ElementOfSeq
    <2>2. /\ kept \in Seq(Logged) /\ Len(kept) = IF 1 <= n THEN n - 1 + 1 ELSE 0
          /\ \A j \in 1 .. (n - 1 + 1) : kept[j] = aclLog[1 + j - 1]
      BY <1>2, <2>1, SubSeqProperties
    <2>3. QED
      BY <1>2, <2>2
  <1> HIDE DEF kept
  <1>7. /\ aclLog' \in Seq(Logged) /\ Len(aclLog') = n + 1 /\ DOMAIN aclLog' = 1 .. (n + 1)
        /\ aclLog'[1] = g
        /\ \A j \in 2 .. (n + 1) : aclLog'[j] = aclLog[j - 1]
    <2>1. /\ aclLog' \in Seq(Logged) /\ Len(aclLog') = Len(<<g>>) + Len(kept)
          /\ \A j \in 1 .. Len(<<g>>) + Len(kept) :
               aclLog'[j] = IF j <= Len(<<g>>) THEN <<g>>[j] ELSE kept[j - Len(<<g>>)]
      BY <1>4, <1>5, <1>6, ConcatProperties
    <2>2. Len(aclLog') = n + 1 /\ DOMAIN aclLog' = 1 .. (n + 1)
      BY <1>2, <1>5, <1>6, <2>1, LenProperties
    <2>3. aclLog'[1] = g
      BY <1>2, <1>5, <1>6, <2>1
    <2>4. ASSUME NEW j \in 2 .. (n + 1)
          PROVE  aclLog'[j] = aclLog[j - 1]
      <3>1. aclLog'[j] = kept[j - 1]
        BY <1>2, <1>5, <1>6, <2>1
      <3>2. j - 1 \in 1 .. n
        BY <1>2
      <3>3. QED
        BY <1>6, <3>1, <3>2
    <2>5. QED
      BY <2>1, <2>2, <2>3, <2>4
  <1>8. \A j \in 1 .. n : aclLog[j].id < nextId /\ aclLog[j].id \in Nat
    <2> SUFFICES ASSUME NEW j \in 1 .. n
                 PROVE  aclLog[j].id < nextId /\ aclLog[j].id \in Nat
      OBVIOUS
    <2>1. j \in 1 .. Len(aclLog)
      BY <1>1, <1>2
    <2>2. aclLog[j] \in Range(aclLog) /\ aclLog[j] \in Logged
      BY <1>1, <2>1, InRange
    <2>3. QED
      BY <2>2 DEF Logged, Ids
  <1>9. \A j \in 1 .. n : aclLog[j].id # nextId
    BY <1>8 DEF TypeInv, TypeOK, ServerTypeOK
  <1>10. OneEntryPerId(aclLog')
    <2> SUFFICES ASSUME NEW i \in 1 .. (n + 1), NEW j \in 1 .. (n + 1),
                        aclLog'[i].id = aclLog'[j].id
                 PROVE  i = j
      BY <1>7 DEF OneEntryPerId
    <2>1. ASSUME NEW m \in 2 .. (n + 1)
          PROVE  m - 1 \in 1 .. n /\ aclLog'[m] = aclLog[m - 1] /\ aclLog'[m].id # g.id
      <3>1. m - 1 \in 1 .. n
        BY <1>2
      <3>2. aclLog'[m] = aclLog[m - 1]
        BY <1>7
      <3>3. QED
        BY <1>3, <1>9, <3>1, <3>2
    <2>2. CASE i = 1 \/ j = 1
      <3>1. i # 1 => i \in 2 .. (n + 1)
        BY <1>2
      <3>2. j # 1 => j \in 2 .. (n + 1)
        BY <1>2
      <3>3. QED
        BY <1>7, <2>1, <2>2, <3>1, <3>2
    <2>3. CASE i # 1 /\ j # 1
      <3>1. i \in 2 .. (n + 1) /\ j \in 2 .. (n + 1)
        BY <1>2, <2>3
      <3>2. i - 1 \in DOMAIN aclLog /\ j - 1 \in DOMAIN aclLog
        BY <1>1, <1>2, <3>1
      <3>3. i - 1 = j - 1
        BY <2>1, <3>1, <3>2 DEF OneEntryPerId
      <3>4. QED
        BY <1>2, <3>1, <3>3
    <2>4. QED
      BY <2>2, <2>3
  <1>11. ASSUME NEW e \in Range(aclLog')
         PROVE  e = g \/ (e \in Range(aclLog) /\ e.id # g.id)
    <2>1. PICK j \in 1 .. (n + 1) : aclLog'[j] = e
      BY <1>7, InRange
    <2>2. CASE j = 1
      BY <1>7, <2>1, <2>2
    <2>3. CASE j # 1
      <3>1. j \in 2 .. (n + 1) /\ j - 1 \in 1 .. n /\ j - 1 \in 1 .. Len(aclLog)
        BY <1>1, <1>2, <2>3
      <3>2. e = aclLog[j - 1]
        BY <1>7, <2>1, <3>1
      <3>3. QED
        BY <1>1, <1>3, <1>9, <3>1, <3>2, InRange
    <2>4. QED
      BY <2>2, <2>3
  <1>12. g \in Reach(aclLog')
    <2>1. 1 \in 1 .. Len(aclLog') /\ 1 <= ReadMax
      BY <1>2, <1>7, ExporterAssumption
    <2>2. QED
      BY <1>7, <2>1, ReachParts
  <1>13. ASSUME NEW e \in Reach(aclLog')
         PROVE  e = g \/ (e \in Reach(aclLog) /\ e.id # g.id)
    <2>1. PICK j \in 1 .. (n + 1) : aclLog'[j] = e /\ j <= ReadMax
      BY <1>7, ReachParts
    <2>2. e = g \/ (e \in Range(aclLog) /\ e.id # g.id)
      BY <1>7, <1>11, ReachParts
    <2>3. CASE j = 1
      BY <1>7, <2>1, <2>3
    <2>4. CASE j # 1
      <3>1. j \in 2 .. (n + 1) /\ j - 1 \in 1 .. Len(aclLog) /\ j - 1 <= ReadMax
        BY <1>1, <1>2, <2>1, <2>4, ExporterAssumption
      <3>2. e = aclLog[j - 1]
        BY <1>7, <2>1, <3>1
      <3>3. QED
        BY <1>1, <2>2, <3>1, <3>2, ReachParts
    <2>5. QED
      BY <2>3, <2>4
  <1>14. HeadAfter(g, k)
    BY <1>3, <1>4, <1>7, <1>10, <1>11, <1>12, <1>13 DEF HeadAfter
  <1>15. QED
    BY <1>3, <1>14

LEMMA EventHead ==
  ASSUME TypeInv, OneEntryPerId(aclLog), disturbances < MaxDisturbances,
         \A e \in Range(aclLog) : e.id < nextId,
         NEW k \in Kinds, LogEvent(k)
  PROVE  \E g \in Logged : HeadAfter(g, k)
  BY GroupedHead, NewHead DEF LogEvent

\* What one ACL LOG command reads.
LEMMA NewestIsPrefix ==
  ASSUME TypeInv
  PROVE  /\ Newest(ReadMax) \in Seq(Logged)
         /\ Range(Newest(ReadMax)) = Reach(aclLog)
  <1> DEFINE n == IF Len(aclLog) < ReadMax THEN Len(aclLog) ELSE ReadMax
  <1>1. /\ aclLog \in Seq(Logged) /\ Len(aclLog) \in Nat
        /\ n \in Nat /\ n <= Len(aclLog) /\ n <= ReadMax
        /\ \A i \in 1 .. Len(aclLog) : i <= ReadMax => i \in 1 .. n
    BY LenProperties, ExporterAssumption DEF TypeInv
  <1>2. Newest(ReadMax) = SubSeq(aclLog, 1, n)
    BY DEF Newest
  <1> HIDE DEF n
  <1>3. /\ Newest(ReadMax) \in Seq(Logged) /\ Len(Newest(ReadMax)) = n
        /\ \A i \in 1 .. n : Newest(ReadMax)[i] = aclLog[i]
    <2>1. \A i \in 1 .. n : aclLog[i] \in Logged
      BY <1>1, ElementOfSeq
    <2>2. /\ Newest(ReadMax) \in Seq(Logged)
          /\ Len(Newest(ReadMax)) = IF 1 <= n THEN n - 1 + 1 ELSE 0
          /\ \A i \in 1 .. (n - 1 + 1) : Newest(ReadMax)[i] = aclLog[1 + i - 1]
      BY <1>1, <1>2, <2>1, SubSeqProperties
    <2>3. QED
      BY <1>1, <2>2
  <1>4. ASSUME NEW e \in Range(Newest(ReadMax))
        PROVE  e \in Reach(aclLog)
    <2>1. PICK i \in 1 .. n : Newest(ReadMax)[i] = e
      BY <1>3, InRange
    <2>2. i \in 1 .. Len(aclLog) /\ i <= ReadMax /\ aclLog[i] = e
      BY <1>1, <1>3, <2>1, ExporterAssumption
    <2>3. QED
      BY <1>1, <2>2, ReachParts
  <1>5. ASSUME NEW e \in Reach(aclLog)
        PROVE  e \in Range(Newest(ReadMax))
    <2>1. PICK i \in 1 .. Len(aclLog) : i <= ReadMax /\ aclLog[i] = e
      BY <1>1, ReachParts
    <2>2. i \in 1 .. n /\ Newest(ReadMax)[i] = e
      BY <1>1, <1>3, <2>1
    <2>3. QED
      BY <1>3, <2>2, InRange
  <1>6. QED
    BY <1>3, <1>4, <1>5

\* What is left of a reply after its first entry.
LEMMA ReplyParts ==
  ASSUME TypeInv, reply # <<>>
  PROVE  /\ Head(reply) \in Logged /\ Tail(reply) \in Seq(Logged)
         /\ Range(reply) = {Head(reply)} \cup Range(Tail(reply))
  <1>1. reply \in Seq(Logged) /\ Len(reply) \in Nat \ {0}
    BY LenProperties, EmptySeq DEF TypeInv
  <1>2. /\ Head(reply) \in Logged /\ Tail(reply) \in Seq(Logged)
        /\ Len(Tail(reply)) = Len(reply) - 1
        /\ \A i \in 1 .. Len(Tail(reply)) : Tail(reply)[i] = reply[i + 1]
    BY <1>1, HeadTailProperties
  <1>3. Head(reply) = reply[1]
    BY <1>1
  <1>4. Head(reply) \in Range(reply)
    <2>1. 1 \in 1 .. Len(reply)
      BY <1>1
    <2>2. QED
      BY <1>1, <1>3, <2>1, InRange
  <1>5. ASSUME NEW e \in Range(Tail(reply))
        PROVE  e \in Range(reply)
    <2>1. PICK i \in 1 .. Len(Tail(reply)) : Tail(reply)[i] = e
      BY <1>2, InRange
    <2>2. i + 1 \in 1 .. Len(reply) /\ reply[i + 1] = e
      BY <1>1, <1>2, <2>1
    <2>3. QED
      BY <1>1, <2>2, InRange
  <1>6. ASSUME NEW e \in Range(reply)
        PROVE  e = Head(reply) \/ e \in Range(Tail(reply))
    <2>1. PICK i \in 1 .. Len(reply) : reply[i] = e
      BY <1>1, InRange
    <2>2. CASE i = 1
      BY <1>3, <2>1, <2>2
    <2>3. CASE i # 1
      <3>1. i - 1 \in 1 .. Len(Tail(reply)) /\ (i - 1) + 1 = i
        BY <1>1, <1>2, <2>3
      <3>2. Tail(reply)[i - 1] = e
        BY <1>2, <2>1, <3>1
      <3>3. QED
        BY <1>2, <3>1, <3>2, InRange
    <2>4. QED
      BY <2>2, <2>3
  <1>7. QED
    BY <1>2, <1>4, <1>5, <1>6

LEMMA EmptyRange == Range(<<>>) = {}
  BY DEF Range

-----------------------------------------------------------------------------
(* What the exporter holds of the log: a reply has an entry per id, and is  *)
(* walked before anything else is read; nothing is counted before adoption. *)

ReadInv ==
  /\ OneEntryPerId(aclLog)
  /\ \A e \in Range(aclLog) : e.id < nextId /\ e.count <= disturbances
  /\ \A e \in Range(reply) : e.count <= disturbances
  /\ \A e, f \in Range(reply) : e.id = f.id => e = f
  /\ reply # <<>> => pc = "count"
  /\ pc \in {"count", "publish"} => bootAcl
  /\ ~bootAcl => /\ \A i \in Ids : seen[i] = Absent
                 /\ \A c \in AclSeries : total[c] = 0 /\ happened[c] = 0

LEMMA EntriesByTheirId ==
  ASSUME TypeInv, ReadInv
  PROVE  \A e, f \in Range(aclLog) : e.id = f.id => e = f
  <1> SUFFICES ASSUME NEW e \in Range(aclLog), NEW f \in Range(aclLog), e.id = f.id
               PROVE  e = f
    OBVIOUS
  <1>1. aclLog \in Seq(Logged) /\ DOMAIN aclLog = 1 .. Len(aclLog)
    BY LenProperties DEF TypeInv
  <1>2. PICK i \in 1 .. Len(aclLog) : aclLog[i] = e
    BY <1>1, InRange
  <1>3. PICK j \in 1 .. Len(aclLog) : aclLog[j] = f
    BY <1>1, InRange
  <1>4. QED
    BY <1>1, <1>2, <1>3 DEF ReadInv, OneEntryPerId

LEMMA InitReadInv == Init => ReadInv
  <1> SUFFICES ASSUME Init PROVE ReadInv
    OBVIOUS
  <1>1. aclLog = <<>> /\ reply = <<>> /\ pc = "sleep"
    BY DEF Init, ServerInit, ProcessInit
  <1>2. OneEntryPerId(aclLog)
    BY <1>1 DEF OneEntryPerId
  <1>3. /\ \A i \in Ids : seen[i] = Absent
        /\ \A c \in AclSeries : total[c] = 0 /\ happened[c] = 0
    BY SeriesFacts DEF Init, ProcessInit, NoEvents
  <1>4. QED
    BY <1>1, <1>2, <1>3, EmptyRange DEF ReadInv

\* The actions that leave the log and what is read of it alone.
LEMMA OtherStepsKeepReadInv ==
  ASSUME TypeInv, TypeInv', ReadInv,
         UNCHANGED <<aclLog, nextId, reply, aclVars, happened>>,
         disturbances' >= disturbances,
         \/ pc' = pc
         \/ reply = <<>> /\ pc' \notin {"count", "publish"}
         \/ reply = <<>> /\ pc = "count"
  PROVE  ReadInv'
  <1>1. /\ aclLog' = aclLog /\ nextId' = nextId /\ reply' = reply /\ happened' = happened
        /\ bootAcl' = bootAcl /\ seen' = seen /\ total' = total
    BY DEF aclVars
  <1>2. \A e \in Logged : e.count <= disturbances => e.count <= disturbances'
    <2>1. disturbances \in Int /\ disturbances' \in Int
      BY DEF TypeInv, TypeOK
    <2>2. \A e \in Logged : e.count \in Int
      BY DEF Logged
    <2>3. QED
      BY <2>1, <2>2, AtMostTransitive
  <1>3. Range(aclLog) \subseteq Logged /\ Range(reply) \subseteq Logged
    BY RangeOfSeq DEF TypeInv
  <1>4. (\A e \in Range(aclLog) : e.id < nextId /\ e.count <= disturbances)'
    BY <1>1, <1>2, <1>3 DEF ReadInv
  <1>5. (\A e \in Range(reply) : e.count <= disturbances)'
    BY <1>1, <1>2, <1>3 DEF ReadInv
  <1>6. (pc \in {"count", "publish"} => bootAcl)' /\ (reply # <<>> => pc = "count")'
    BY <1>1 DEF ReadInv
  <1>7. QED
    BY <1>1, <1>4, <1>5, <1>6 DEF ReadInv

LEMMA StepReadInv == TypeInv /\ ReadInv /\ [Next]_vars => ReadInv'
  <1> SUFFICES ASSUME TypeInv, ReadInv, [Next]_vars PROVE ReadInv'
    OBVIOUS
  <1> USE DEF serverVars, pollVars, scanVars, bindVars, defaultVars,
              statusVars, metricVars, historyVars
  <1>0. /\ TypeInv'
        /\ disturbances \in Nat /\ disturbances + 1 >= disturbances
        /\ disturbances >= disturbances
        /\ pc # "count" => reply = <<>>
    <2>1. disturbances \in Nat
      BY DEF TypeInv, TypeOK
    <2>2. pc # "count" => reply = <<>>
      BY DEF ReadInv
    <2>3. QED
      BY <2>1, <2>2, StepTypeInv
  <1>1. CASE Connect \/ RefusedNopass \/ NoteNopass \/ PollError \/ PollAuthError
             \/ ScanKey \/ EndScan \/ ReadMembers \/ CollectBindings
             \/ StartPublish \/ Publish \/ Finish
    BY <1>0, <1>1, OtherStepsKeepReadInv
       DEF Connect, RefusedNopass, NoteNopass, PollError, PollAuthError, DropPoll, BrokenLink,
           Disturb, Commands, ScanKey, EndScan, ReadMembers, CollectBindings,
           StartPublish, Publish, Finish, ReadInv
  <1>2. CASE Probe \/ ProbeError
    BY <1>0, <1>2, OtherStepsKeepReadInv
       DEF Probe, ProbeError, RecordProbe, BrokenLink, Disturb
  <1>3. CASE AdoptAclLog
    <2>1. /\ UNCHANGED <<aclLog, nextId, reply, disturbances>>
          /\ pc' = "dryrun" /\ bootAcl' = TRUE
      BY <1>3 DEF AdoptAclLog
    <2>2. reply = <<>>
      BY <1>0, <1>3 DEF AdoptAclLog
    <2>3. QED
      BY <2>1, <2>2 DEF ReadInv
  <1>4. CASE ReadAclLog
    <2>1. /\ UNCHANGED <<aclLog, nextId, aclVars, happened, disturbances>>
          /\ pc' = "count" /\ bootAcl /\ reply' = Newest(ReadMax)
      BY <1>4 DEF ReadAclLog
    <2>2. \A e \in Range(reply') : e \in Range(aclLog)
      BY <2>1, NewestIsPrefix, ReachParts DEF TypeInv
    <2>3. \A e \in Range(reply') : e.count <= disturbances
      BY <2>2 DEF ReadInv
    <2>4. \A e, f \in Range(reply') : e.id = f.id => e = f
      BY <2>2, EntriesByTheirId
    <2>5. QED
      BY <2>1, <2>3, <2>4 DEF ReadInv, aclVars
  <1>5. CASE CountEntry
    <2>1. /\ UNCHANGED <<aclLog, nextId, happened, disturbances, pc, bootAcl>>
          /\ pc = "count" /\ reply' = Tail(reply) /\ reply # <<>>
      BY <1>5 DEF CountEntry
    <2>2. Range(reply') \subseteq Range(reply)
      BY <2>1, ReplyParts
    <2>3. QED
      BY <2>1, <2>2 DEF ReadInv
  <1>6. CASE AclEvent
    <2>1. PICK k \in Kinds :
            /\ LogEvent(k)
            /\ happened' = [c \in AclSeries |->
                 IF bootAcl /\ c \in SeriesOf(k) THEN happened[c] + 1 ELSE happened[c]]
      BY <1>6 DEF AclEvent
    <2>2. /\ disturbances < MaxDisturbances /\ disturbances' = disturbances + 1
          /\ UNCHANGED <<pc, reply, aclVars>>
      BY <1>6 DEF AclEvent, Disturb, exporterVars
    <2>3. PICK g \in Logged : HeadAfter(g, k)
      BY <2>1, <2>2, EventHead DEF ReadInv
    <2>4. Range(aclLog) \subseteq Logged /\ Range(reply) \subseteq Logged
      BY RangeOfSeq DEF TypeInv
    <2>5. \A e \in Logged : e.count <= disturbances => e.count <= disturbances + 1
      BY <1>0 DEF Logged
    <2>6. nextId' \in Nat /\ nextId \in Nat /\ nextId' >= nextId
      BY <1>0, <2>3 DEF HeadAfter, TypeInv, TypeOK, ServerTypeOK
    <2>7. ASSUME NEW e \in Range(aclLog)
          PROVE  e.id < nextId' /\ e.count <= disturbances'
      BY <2>2, <2>4, <2>5, <2>6 DEF ReadInv, Logged, Ids
    <2>8. g.id < nextId' /\ g.count <= disturbances'
      <3>1. CASE \E o \in Reach(aclLog) : o.id = g.id /\ g.count = o.count + 1
        <4>1. PICK o \in Range(aclLog) : o.id = g.id /\ g.count = o.count + 1
          BY <3>1, ReachParts DEF TypeInv
        <4>2. o.count \in Nat /\ o.count <= disturbances
          BY <2>4 DEF ReadInv, Logged
        <4>3. QED
          BY <1>0, <2>2, <2>7, <4>1, <4>2
      <3>2. CASE nextId' = nextId + 1 /\ g.id = nextId /\ g.count = 1
        BY <1>0, <2>2, <2>6, <3>2
      <3>3. QED
        BY <2>3, <3>1, <3>2 DEF HeadAfter
    <2>9. (\A e \in Range(aclLog) : e.id < nextId /\ e.count <= disturbances)'
      BY <2>3, <2>7, <2>8 DEF HeadAfter
    <2>10. (\A e \in Range(reply) : e.count <= disturbances)'
      BY <2>2, <2>4, <2>5 DEF ReadInv
    <2>11. OneEntryPerId(aclLog)'
      BY <2>3 DEF HeadAfter, OneEntryPerId
    <2>12. ~bootAcl => \A c \in AclSeries : happened'[c] = happened[c]
      BY <2>1
    <2>13. QED
      BY <2>2, <2>9, <2>10, <2>11, <2>12 DEF ReadInv, aclVars
  <1>7. CASE RedisRestart
    <2>1. /\ aclLog' = <<>> /\ UNCHANGED <<reply, pc, aclVars, happened>>
          /\ disturbances' = disturbances + 1
      BY <1>7 DEF RedisRestart, RestartServer, Disturb
    <2>2. Range(reply) \subseteq Logged
      BY RangeOfSeq DEF TypeInv
    <2>3. (\A e \in Range(reply) : e.count <= disturbances)'
      BY <1>0, <2>1, <2>2 DEF ReadInv, Logged
    <2>4. OneEntryPerId(aclLog)'
      BY <2>1 DEF OneEntryPerId
    <2>5. QED
      BY <2>1, <2>3, <2>4, EmptyRange DEF ReadInv, aclVars
  <1>8. CASE PostureChange \/ BindingChange
    BY <1>0, <1>8, OtherStepsKeepReadInv
       DEF PostureChange, SetPosture, BindingChange, AddBinding, RemoveBinding,
           Disturb, exporterVars
  <1>9. CASE ExporterRestart
    <2>1. /\ reply' = <<>> /\ pc' = "sleep" /\ UNCHANGED <<aclLog, nextId>>
          /\ disturbances' = disturbances + 1
      BY <1>9 DEF ExporterRestart, DropPoll, Disturb
    <2>2. /\ \A i \in Ids : seen'[i] = Absent
          /\ \A c \in AclSeries : total'[c] = 0 /\ happened'[c] = 0
      BY <1>9, SeriesFacts DEF ExporterRestart, NoEvents
    <2>3. Range(aclLog) \subseteq Logged
      BY RangeOfSeq DEF TypeInv
    <2>4. (\A e \in Range(aclLog) : e.id < nextId /\ e.count <= disturbances)'
      BY <1>0, <2>1, <2>3 DEF ReadInv, Logged
    <2>5. QED
      BY <2>1, <2>2, <2>4, EmptyRange DEF ReadInv, OneEntryPerId
  <1>10. CASE UNCHANGED vars
    BY <1>0, <1>10, OtherStepsKeepReadInv DEF vars
  <1>11. QED
    BY <1>1, <1>2, <1>3, <1>4, <1>5, <1>6, <1>7, <1>8, <1>9, <1>10
       DEF Next, PollStep, Environment

LEMMA ReadInvariance == Spec => []ReadInv
  BY InitReadInv, StepReadInv, TypeInvariance, PTL DEF Spec

LEMMA LogEntries ==
  ASSUME TypeInv, ReadInv
  PROVE  /\ Range(aclLog) \subseteq Logged /\ Range(reply) \subseteq Logged
         /\ \A e, f \in Range(aclLog) : e.id = f.id => e = f
         /\ Reach(aclLog) \subseteq Range(aclLog)
  BY EntriesByTheirId, ReachParts, RangeOfSeq DEF TypeInv

-----------------------------------------------------------------------------
(* The events on their way into the counters.                              *)

\* Read, in an entry that is not counted yet.
Replied(c) == {u \in EventsFor(c, Range(reply)) : u[2] > seen[u[1]]}

\* Read by now: the reply replaces what was read of the same entry before.
Accounted(u) ==
  \/ \E e \in Range(reply) : e.id = u[1] /\ u[2] <= e.count
  \/ (\A e \in Range(reply) : e.id # u[1]) /\ u[2] <= seen[u[1]]

\* In reach, and not read yet.
Unseen(c) == {u \in EventsFor(c, Reach(aclLog)) : ~Accounted(u)}

LEMMA EventSets ==
  ASSUME NEW c
  PROVE  /\ Replied(c) \in SUBSET Units /\ Unseen(c) \in SUBSET Units
         /\ Cardinality(Replied(c)) \in Nat /\ Cardinality(Unseen(c)) \in Nat
  <1>1. Replied(c) \in SUBSET Units /\ Unseen(c) \in SUBSET Units
    BY DEF Replied, Unseen, EventsFor
  <1>2. QED
    BY <1>1, FiniteUnits

\* The first reply accounts every event in its reach.
LEMMA AdoptionAccounts ==
  ASSUME TypeInv, ReadInv, AdoptAclLog
  PROVE  /\ \A c : Replied(c)' = {} /\ Unseen(c)' = {}
         /\ \A i \in Ids : seen'[i] # Absent => i < nextId
         /\ \A e \in Reach(aclLog) : seen'[e.id] = e.count
  <1> DEFINE old(i) == {e \in Reach(aclLog) : e.id = i}
  <1>1. /\ reply' = reply /\ aclLog' = aclLog /\ reply = <<>>
        /\ seen' = [i \in Ids |-> IF old(i) = {} THEN seen[i]
                                  ELSE (CHOOSE e \in old(i) : TRUE).count]
    BY NewestIsPrefix DEF AdoptAclLog, ReadInv, serverVars
  <1>2. \A i \in Ids : seen[i] = Absent
    BY DEF AdoptAclLog, ReadInv
  <1>3. Reach(aclLog) \subseteq Range(aclLog) /\ Range(aclLog) \subseteq Logged
    BY LogEntries
  <1>4. ASSUME NEW e \in Reach(aclLog)
        PROVE  seen'[e.id] = e.count
    <2>1. e \in old(e.id) /\ e.id \in Ids
      BY <1>3 DEF Logged
    <2>2. \A f \in old(e.id) : f = e
      BY <1>3, LogEntries
    <2>3. (CHOOSE f \in old(e.id) : TRUE) = e
      BY <2>1, <2>2
    <2>4. QED
      BY <1>1, <2>1, <2>3
  <1>5. ASSUME NEW i \in Ids, seen'[i] # Absent
        PROVE  i < nextId
    <2>1. old(i) # {}
      BY <1>1, <1>2, <1>5
    <2>2. PICK e \in Reach(aclLog) : e.id = i
      BY <2>1
    <2>3. QED
      BY <1>3, <2>2 DEF ReadInv
  <1>6. \A c : Replied(c)' = {}
    BY <1>1, EmptyRange DEF Replied, EventsFor
  <1>7. ASSUME NEW c, NEW u \in Unseen(c)'
        PROVE  FALSE
    <2>1. /\ ~(u[2] <= seen'[u[1]])
          /\ \E e \in Reach(aclLog) : e.id = u[1] /\ u[2] <= e.count
      BY <1>1, EmptyRange DEF Unseen, EventsFor, Accounted
    <2>2. QED
      BY <1>4, <2>1
  <1>8. QED
    BY <1>4, <1>5, <1>6, <1>7

\* A read moves the unseen events into the reply.
LEMMA ReadMovesEvents ==
  ASSUME TypeInv, ReadInv, ReadAclLog, NEW c
  PROVE  Replied(c) = {} /\ Replied(c)' = Unseen(c) /\ Unseen(c)' = {}
  <1>1. /\ reply = <<>> /\ aclLog' = aclLog /\ seen' = seen
        /\ Range(reply') = Reach(aclLog)
    BY NewestIsPrefix DEF ReadAclLog, ReadInv, serverVars, aclVars
  <1>2. \A u : Accounted(u) <=> u[2] <= seen[u[1]]
    BY <1>1, EmptyRange DEF Accounted
  <1>3. Replied(c) = {}
    BY <1>1, EmptyRange DEF Replied, EventsFor
  <1>4. \A u \in Units : u[2] \in Int /\ seen[u[1]] \in Int
    BY UnitParts, ExporterAssumption DEF TypeInv, TypeOK, Absent
  <1>5. Replied(c)' = {u \in EventsFor(c, Reach(aclLog)) : u[2] > seen[u[1]]}
    BY <1>1 DEF Replied, EventsFor
  <1>6. Replied(c)' = Unseen(c)
    BY <1>2, <1>4, <1>5 DEF Unseen, EventsFor
  <1>7. Unseen(c)' = {}
    BY <1>1 DEF Unseen, EventsFor, Accounted
  <1>8. QED
    BY <1>3, <1>6, <1>7

\* Counting an entry takes its events out of the reply, as many as it adds.
LEMMA CountTakesEvents ==
  ASSUME TypeInv, ReadInv, CountEntry, NEW c \in AclSeries
  PROVE  /\ Unseen(c)' = Unseen(c)
         /\ total[c] + Cardinality(Replied(c)) = total'[c] + Cardinality(Replied(c)')
  <1> DEFINE e == Head(reply)
             read == IF seen[e.id] = Absent THEN 0 ELSE seen[e.id]
             run == {u \in Units : u[1] = e.id /\ read < u[2] /\ u[2] <= e.count}
  <1>1. /\ aclLog' = aclLog /\ reply # <<>> /\ reply' = Tail(reply)
        /\ seen' = [seen EXCEPT ![e.id] = e.count]
        /\ total' = [s \in AclCounters |->
                       IF s \in SeriesOf(e.kind) THEN total[s] + Delta(e) ELSE total[s]]
    BY DEF CountEntry, serverVars
  <1>2. /\ e \in Logged /\ Range(reply) = {e} \cup Range(reply')
        /\ e \in Range(reply)
    BY <1>1, ReplyParts
  <1> HIDE DEF e
  <1>3. /\ e.id \in Ids /\ e.count \in Nat /\ e.count <= MaxDisturbances
        /\ seen[e.id] \in Nat \cup {Absent}
    BY <1>2, ExporterAssumption DEF Logged, ReadInv, TypeInv, TypeOK
  <1>4. \A f \in Range(reply) : f.id = e.id => f = e
    BY <1>2 DEF ReadInv
  <1>5. /\ seen'[e.id] = e.count
        /\ \A i \in Ids : i # e.id => seen'[i] = seen[i]
    BY <1>1, <1>3 DEF TypeInv, TypeOK
  <1>6. \A u \in Units : /\ u[1] \in Ids /\ u[2] \in Nat /\ u[2] > 0
                         /\ seen[u[1]] \in Nat \cup {Absent}
    <2> SUFFICES ASSUME NEW u \in Units
                 PROVE  /\ u[1] \in Ids /\ u[2] \in Nat /\ u[2] > 0
                        /\ seen[u[1]] \in Nat \cup {Absent}
      OBVIOUS
    <2>1. u[1] \in Ids /\ u[2] \in 1 .. MaxDisturbances
      BY UnitParts
    <2>2. seen[u[1]] \in Nat \cup {Absent}
      BY <2>1 DEF TypeInv, TypeOK
    <2>3. QED
      BY <2>1, <2>2, ExporterAssumption
  <1>7. ASSUME NEW u \in Units
        PROVE  Accounted(u)' <=> Accounted(u)
    <2>1. CASE u[1] = e.id
      <3>1. Accounted(u) <=> u[2] <= e.count
        BY <1>2, <1>4, <2>1 DEF Accounted
      <3>2. Accounted(u)' <=> u[2] <= e.count
        BY <1>2, <1>4, <1>5, <2>1 DEF Accounted
      <3>3. QED
        BY <3>1, <3>2
    <2>2. CASE u[1] # e.id
      <3>1. seen'[u[1]] = seen[u[1]]
        BY <1>5, <1>6, <2>2
      <3>2. QED
        BY <1>2, <2>2, <3>1 DEF Accounted
    <2>3. QED
      BY <2>1, <2>2
  <1>8. Unseen(c)' = Unseen(c)
    BY <1>1, <1>7 DEF Unseen, EventsFor
  <1>9. read \in Nat /\ Delta(e) = IF e.count > read THEN e.count - read ELSE 0
    BY <1>3 DEF Delta, Absent
  <1>10. \A u \in run : u[2] > seen[u[1]]
    BY <1>3, <1>6 DEF Absent
  <1>11. \A u \in Units : u[2] > seen[u[1]] /\ u[1] = e.id => read < u[2]
    BY <1>3, <1>6 DEF Absent
  <1> HIDE DEF read
  <1>12. Cardinality(run) = Delta(e) /\ run \in SUBSET Units
    <2>1. e.count \in 0 .. MaxDisturbances
      BY <1>3, ExporterAssumption
    <2>2. Cardinality(run) = IF e.count > read THEN e.count - read ELSE 0
      BY <1>3, <1>9, <2>1, RunCounted
    <2>3. QED
      BY <1>9, <2>2
  <1>13. ASSUME NEW u
         PROVE  u \in Replied(c)' <=> u \in Replied(c) /\ u[1] # e.id
    <2>1. u \in Replied(c)' => u \in Units /\ u[1] # e.id
      <3> SUFFICES ASSUME u \in Replied(c)', u[1] = e.id PROVE FALSE
        BY DEF Replied, EventsFor
      <3>1. PICK f \in Range(reply') : f.id = u[1] /\ u[2] <= f.count /\ u \in Units
        BY DEF Replied, EventsFor
      <3>2. f = e
        BY <1>2, <1>4, <3>1
      <3>3. u[2] > seen'[u[1]]
        BY DEF Replied
      <3>4. QED
        BY <1>3, <1>5, <1>6, <3>1, <3>2, <3>3
    <2>2. u \in Replied(c) => u \in Units
      BY DEF Replied, EventsFor
    <2>3. ASSUME u \in Units, u[1] # e.id
          PROVE  u \in Replied(c)' <=> u \in Replied(c)
      <3>1. seen'[u[1]] = seen[u[1]]
        BY <1>5, <1>6, <2>3
      <3>2. QED
        BY <1>2, <2>3, <3>1 DEF Replied, EventsFor
    <2>4. QED
      BY <2>1, <2>2, <2>3
  <1>14. Replied(c) \in SUBSET Units /\ Replied(c)' \in SUBSET Units
    BY <1>13, EventSets
  <1>15. CASE c \in SeriesOf(e.kind)
    <2>1. run \subseteq Replied(c)
      BY <1>2, <1>10, <1>15 DEF Replied, EventsFor
    <2>2. Replied(c)' \cap run = {} /\ Replied(c)' \subseteq Replied(c)
      BY <1>13
    <2>3. Replied(c)' \cup run = Replied(c)
      <3>1. ASSUME NEW u \in Replied(c), u[1] = e.id
            PROVE  u \in run
        <4>1. PICK f \in Range(reply) : f.id = u[1] /\ u[2] <= f.count
          BY DEF Replied, EventsFor
        <4>2. f = e
          BY <1>4, <3>1, <4>1
        <4>3. u \in Units /\ u[2] > seen[u[1]]
          BY <1>14 DEF Replied
        <4>4. QED
          BY <1>11, <3>1, <4>1, <4>2, <4>3
      <3>2. QED
        BY <1>13, <2>1, <2>2, <3>1
    <2> HIDE DEF run
    <2>4. Cardinality(Replied(c)') + Cardinality(run) = Cardinality(Replied(c))
      BY <1>14, <2>1, <2>2, <2>3, PartsCounted, FiniteUnits
    <2>5. total'[c] = total[c] + Delta(e)
      BY <1>1, <1>15, SeriesFacts
    <2>6. /\ total[c] \in Nat /\ Delta(e) \in Nat
          /\ Cardinality(Replied(c)') \in Nat
      <3>1. total[c] \in Nat
        BY SeriesFacts DEF TypeInv, TypeOK
      <3>2. Delta(e) \in Nat
        BY <1>3, <1>9
      <3>3. QED
        BY <1>14, <3>1, <3>2, FiniteUnits
    <2>7. QED
      BY <1>8, <1>12, <2>4, <2>5, <2>6
  <1>16. CASE c \notin SeriesOf(e.kind)
    <2>1. ASSUME NEW u \in Replied(c), u[1] = e.id
          PROVE  FALSE
      <3>1. PICK f \in Range(reply) : f.id = u[1] /\ c \in SeriesOf(f.kind)
        BY DEF Replied, EventsFor
      <3>2. QED
        BY <1>4, <1>16, <2>1, <3>1
    <2>2. Replied(c)' = Replied(c)
      BY <1>13, <2>1
    <2>3. total'[c] = total[c]
      BY <1>1, <1>16, SeriesFacts
    <2>4. QED
      BY <1>8, <2>2, <2>3
  <1>17. QED
    BY <1>15, <1>16

\* What the exporter knows of the entries is not newer than the log (which a
\* restart of Redis would make it).
InStep ==
  /\ \A i \in Ids : seen[i] # Absent => i < nextId
  /\ \A e \in Reach(aclLog) : seen[e.id] <= e.count
  /\ \A r \in Range(reply) : r.id < nextId /\ seen[r.id] <= r.count
  /\ \A r \in Range(reply), e \in Reach(aclLog) : e.id = r.id => r.count <= e.count

\* The latest event of entry g.
Latest(g) == <<g.id, g.count>>

\* An ACL event is one unseen event of the series of its kind, and pushes no
\* unseen event out of the log unless complete says so.
LEMMA EventIsUnseen ==
  ASSUME TypeInv, ReadInv, ReadInv', AclEvent, NEW k \in Kinds, NEW g \in Logged,
         HeadAfter(g, k), NEW c
  PROVE  /\ Replied(c)' = Replied(c)
         /\ Unseen(c)' \subseteq Unseen(c) \cup {Latest(g)}
         /\ c \notin SeriesOf(k) => Unseen(c)' \subseteq Unseen(c)
         /\ InStep /\ complete' =>
              /\ Unseen(c) \subseteq Unseen(c)'
              /\ c \in SeriesOf(k) => Latest(g) \in Unseen(c)' /\ Latest(g) \notin Unseen(c)
  <1> DEFINE x == Latest(g)
  <1>1. reply' = reply /\ seen' = seen
    BY DEF AclEvent, exporterVars, pollVars, aclVars
  <1>2. \A u : Accounted(u)' <=> Accounted(u)
    BY <1>1 DEF Accounted
  <1>3. Replied(c)' = Replied(c)
    BY <1>1 DEF Replied, EventsFor
  <1>4. /\ Range(aclLog) \subseteq Logged
        /\ \A e, f \in Range(aclLog) : e.id = f.id => e = f
        /\ \A e \in Range(aclLog) : e.id < nextId /\ e.id \in Nat /\ e.count \in Nat
        /\ nextId \in Nat
        /\ Reach(aclLog) \subseteq Range(aclLog)
    <2>1. /\ Range(aclLog) \subseteq Logged /\ Reach(aclLog) \subseteq Range(aclLog)
          /\ \A e, f \in Range(aclLog) : e.id = f.id => e = f
      BY LogEntries
    <2>2. \A e \in Range(aclLog) : e.id \in Nat /\ e.count \in Nat
      BY <2>1, ExporterAssumption DEF Logged, Ids
    <2>3. nextId \in Nat
      BY DEF TypeInv, TypeOK, ServerTypeOK
    <2>4. QED
      BY <2>1, <2>2, <2>3 DEF ReadInv
  <1>5. /\ g.kind = k /\ g.id \in Ids /\ g.count \in Nat /\ g.count > 0
        /\ g \in Reach(aclLog')
        /\ \A e \in Reach(aclLog') : e = g \/ (e \in Reach(aclLog) /\ e.id # g.id)
    <2>1. g.kind = k /\ g.id \in Ids /\ g.count \in Nat
      BY DEF HeadAfter, Logged
    <2>2. g.count > 0
      BY <1>4, <2>1 DEF HeadAfter
    <2>3. QED
      BY <2>1, <2>2 DEF HeadAfter
  <1>6. \/ \E o \in Reach(aclLog) : o.id = g.id /\ o.kind = k /\ g.count = o.count + 1
        \/ g.id = nextId /\ g.count = 1
    BY DEF HeadAfter
  <1>7. x = <<g.id, g.count>> /\ x[1] = g.id /\ x[2] = g.count
    BY DEF Latest
  <1> HIDE DEF x
  <1>8. \A u \in Units : u[1] \in Ids /\ u[2] \in Nat /\ u[2] > 0 /\ u = <<u[1], u[2]>>
    BY UnitParts, ExporterAssumption
  <1>9. ASSUME NEW u \in Unseen(c)'
        PROVE  u \in Unseen(c) \/ (u = x /\ c \in SeriesOf(k))
    <2>1. PICK e \in Reach(aclLog') :
            u \in Units /\ e.id = u[1] /\ u[2] <= e.count /\ c \in SeriesOf(e.kind)
      BY DEF Unseen, EventsFor
    <2>2. ~Accounted(u)
      BY <1>2 DEF Unseen
    <2>3. CASE e \in Reach(aclLog)
      BY <2>1, <2>2, <2>3 DEF Unseen, EventsFor
    <2>4. CASE e = g
      <3>1. CASE u[2] = g.count
        BY <1>5, <1>7, <1>8, <2>1, <2>4, <3>1
      <3>2. CASE u[2] # g.count
        <4>1. u[2] \in Nat /\ u[2] > 0 /\ u[2] <= g.count - 1
          BY <1>5, <1>8, <2>1, <2>4, <3>2
        <4>2. PICK o \in Reach(aclLog) : o.id = g.id /\ o.kind = k /\ g.count = o.count + 1
          BY <1>6, <4>1
        <4>3. u[2] <= o.count
          BY <1>4, <4>1, <4>2
        <4>4. QED
          BY <1>5, <2>1, <2>2, <2>4, <4>2, <4>3 DEF Unseen, EventsFor
      <3>3. QED
        BY <3>1, <3>2
    <2>5. QED
      BY <1>5, <2>1, <2>3, <2>4
  <1>10. ASSUME InStep, complete', NEW u \in Unseen(c)
         PROVE  u \in Unseen(c)'
    <2>1. PICK e \in Reach(aclLog) :
            u \in Units /\ e.id = u[1] /\ u[2] <= e.count /\ c \in SeriesOf(e.kind)
      BY DEF Unseen, EventsFor
    <2>2. ~Accounted(u)'
      BY <1>2 DEF Unseen
    <2>3. CASE e.id = g.id
      <3>1. PICK o \in Reach(aclLog) : o.id = g.id /\ o.kind = k /\ g.count = o.count + 1
        BY <1>4, <1>6, <2>3
      <3>2. e = o
        BY <1>4, <2>3, <3>1
      <3>3. g.id = u[1] /\ u[2] <= g.count /\ c \in SeriesOf(g.kind)
        BY <1>4, <1>5, <1>8, <2>1, <3>1, <3>2
      <3>4. QED
        BY <1>5, <2>1, <2>2, <3>3 DEF Unseen, EventsFor
    <2>4. CASE e.id # g.id
      <3>1. Unread(e)
        <4> SUFFICES ASSUME e.count = seen[e.id] PROVE FALSE
          BY DEF Unread
        <4>1. ~Accounted(u) /\ u[2] <= seen[u[1]]
          BY <2>1 DEF Unseen
        <4>2. PICK r \in Range(reply) : r.id = u[1]
          BY <4>1 DEF Accounted
        <4>3. ~(u[2] <= r.count) /\ seen[r.id] <= r.count /\ r.count \in Nat
          BY <1>10, <4>1, <4>2, LogEntries DEF Accounted, InStep, Logged
        <4>4. u[2] \in Nat /\ seen[u[1]] \in Nat
          BY <1>4, <1>8, <2>1
        <4>5. QED
          BY <4>1, <4>2, <4>3, <4>4
      <3>2. complete' = (complete /\ \A f \in Reach(aclLog) : Unread(f) => InReach(aclLog', f))
        BY DEF AclEvent
      <3>3. PICK f \in Reach(aclLog') : f.id = e.id
        BY <1>10, <2>1, <3>1, <3>2 DEF InReach
      <3>4. f = e
        BY <1>4, <1>5, <2>1, <2>4, <3>3
      <3>5. QED
        BY <2>1, <2>2, <3>3, <3>4 DEF Unseen, EventsFor
    <2>5. QED
      BY <2>3, <2>4
  <1>11. ASSUME InStep, c \in SeriesOf(k)
         PROVE  x \in Unseen(c)' /\ x \notin Unseen(c)
    <2>1. x \in Units
      <3>1. g.count <= MaxDisturbances
        <4>1. g \in Range(aclLog')
          BY <1>5, ReachParts DEF HeadAfter
        <4>2. g.count <= disturbances'
          BY <4>1 DEF ReadInv
        <4>3. disturbances' = disturbances + 1 /\ disturbances < MaxDisturbances
          BY DEF AclEvent, Disturb
        <4>4. QED
          BY <1>5, <4>2, <4>3, ExporterAssumption DEF TypeInv, TypeOK
      <3>2. QED
        BY <1>5, <1>7, <3>1, ExporterAssumption DEF Units
    <2>2. \A e \in Reach(aclLog) : e.id = g.id => e.count < g.count
      BY <1>4, <1>6
    <2>3. x \notin Unseen(c)
      <3> SUFFICES ASSUME x \in Unseen(c) PROVE FALSE
        OBVIOUS
      <3>1. PICK e \in Reach(aclLog) : e.id = g.id /\ g.count <= e.count
        BY <1>7 DEF Unseen, EventsFor
      <3>2. QED
        BY <1>4, <1>5, <2>2, <3>1
    <2>4. \A r \in Range(reply) : r.id = g.id => r.count < g.count
      <3> SUFFICES ASSUME NEW r \in Range(reply), r.id = g.id PROVE r.count < g.count
        OBVIOUS
      <3>1. r.count \in Nat /\ r.id \in Nat /\ r.id < nextId
        BY <1>11, LogEntries DEF Logged, Ids, InStep
      <3>2. PICK o \in Reach(aclLog) : o.id = g.id /\ g.count = o.count + 1
        BY <1>4, <1>6, <3>1
      <3>3. r.count <= o.count
        BY <1>11, <3>2 DEF InStep
      <3>4. QED
        BY <1>4, <3>1, <3>2, <3>3
    <2>5. seen[g.id] < g.count /\ seen[g.id] \in Int
      <3>1. seen[g.id] \in Nat \cup {Absent}
        BY <1>5 DEF TypeInv, TypeOK
      <3>2. CASE seen[g.id] = Absent
        BY <1>5, <3>2 DEF Absent
      <3>3. CASE seen[g.id] # Absent
        <4>1. g.id < nextId
          BY <1>5, <1>11, <3>3 DEF InStep
        <4>2. PICK o \in Reach(aclLog) : o.id = g.id /\ g.count = o.count + 1
          BY <1>4, <1>6, <4>1
        <4>3. seen[g.id] <= o.count
          BY <1>11, <4>2 DEF InStep
        <4>4. QED
          BY <1>4, <3>1, <3>3, <4>2, <4>3
      <3>4. QED
        BY <3>2, <3>3
    <2>6. ~Accounted(x)
      <3>1. ~\E r \in Range(reply) : r.id = g.id /\ g.count <= r.count
        <4> SUFFICES ASSUME NEW r \in Range(reply), r.id = g.id, g.count <= r.count
                     PROVE  FALSE
          OBVIOUS
        <4>1. r.count \in Nat
          BY LogEntries DEF Logged
        <4>2. QED
          BY <1>5, <2>4, <4>1
      <3>2. ~(g.count <= seen[g.id])
        BY <1>5, <2>5
      <3>3. QED
        BY <1>7, <3>1, <3>2 DEF Accounted
    <2>7. x \in Unseen(c)'
      <3>1. g.id = x[1] /\ x[2] <= g.count /\ c \in SeriesOf(g.kind)
        BY <1>5, <1>7, <1>11
      <3>2. QED
        BY <1>2, <1>5, <2>1, <2>6, <3>1 DEF Unseen, EventsFor
    <2>8. QED
      BY <2>3, <2>7
  <1>12. QED
    BY <1>3, <1>9, <1>10, <1>11 DEF x

-----------------------------------------------------------------------------
(* The counters do not run ahead.                                          *)

CountInv ==
  bootAcl => \A c \in AclSeries :
    total[c] + Cardinality(Replied(c)) + Cardinality(Unseen(c)) <= happened[c]

\* The actions that leave the log, and what is read and counted of it, alone.
LEMMA SameEvents ==
  ASSUME UNCHANGED <<aclLog, reply, seen>>, NEW c
  PROVE  Replied(c)' = Replied(c) /\ Unseen(c)' = Unseen(c)
  <1>1. \A u : Accounted(u)' <=> Accounted(u)
    BY DEF Accounted
  <1>2. QED
    BY <1>1 DEF Replied, Unseen, EventsFor

LEMMA OtherStepsKeepCountInv ==
  ASSUME CountInv, UNCHANGED <<aclLog, reply, aclVars, happened>>
  PROVE  CountInv'
  <1>1. UNCHANGED <<aclLog, reply, seen, total, bootAcl, happened>>
    BY DEF aclVars
  <1>2. \A c : Replied(c)' = Replied(c) /\ Unseen(c)' = Unseen(c)
    BY <1>1, SameEvents
  <1>3. QED
    BY <1>1, <1>2 DEF CountInv

LEMMA StepCountInv ==
  TypeInv /\ ReadInv /\ CountInv /\ [Next]_vars => CountInv'
  <1> SUFFICES ASSUME TypeInv, ReadInv, CountInv, [Next]_vars PROVE CountInv'
    OBVIOUS
  <1> USE DEF serverVars, pollVars, scanVars, bindVars, defaultVars,
              statusVars, metricVars, historyVars
  <1>0. /\ TypeInv' /\ ReadInv'
        /\ \A c \in AclSeries : /\ total[c] \in Nat /\ total'[c] \in Nat
                                /\ happened[c] \in Nat /\ happened'[c] \in Nat
    BY StepTypeInv, StepReadInv, SeriesFacts DEF TypeInv, TypeOK
  <1>1. CASE Connect \/ RefusedNopass \/ NoteNopass \/ PollError \/ PollAuthError
             \/ ScanKey \/ EndScan \/ ReadMembers \/ CollectBindings
             \/ StartPublish \/ Publish \/ Finish
    BY <1>1, OtherStepsKeepCountInv
       DEF Connect, RefusedNopass, NoteNopass, PollError, PollAuthError, DropPoll,
           ScanKey, EndScan, ReadMembers, CollectBindings, StartPublish, Publish, Finish
  <1>2. CASE Probe \/ ProbeError
    BY <1>2, OtherStepsKeepCountInv DEF Probe, ProbeError, RecordProbe
  <1>3. CASE AdoptAclLog
    <2> SUFFICES ASSUME NEW c \in AclSeries
                 PROVE  total'[c] + Cardinality(Replied(c)') + Cardinality(Unseen(c)')
                          <= happened'[c]
      BY DEF CountInv
    <2>1. Replied(c)' = {} /\ Unseen(c)' = {}
      BY <1>3, AdoptionAccounts
    <2>2. Cardinality(Replied(c)') = 0 /\ Cardinality(Unseen(c)') = 0
      BY <2>1, FS_EmptySet
    <2>3. total'[c] = 0 /\ happened'[c] = 0
      BY <1>3 DEF AdoptAclLog, ReadInv
    <2>4. QED
      BY <2>2, <2>3
  <1>4. CASE ReadAclLog
    <2> SUFFICES ASSUME NEW c \in AclSeries
                 PROVE  total'[c] + Cardinality(Replied(c)') + Cardinality(Unseen(c)')
                          <= happened'[c]
      BY DEF CountInv
    <2>1. Replied(c) = {} /\ Replied(c)' = Unseen(c) /\ Unseen(c)' = {}
      BY <1>4, ReadMovesEvents
    <2>2. /\ Cardinality(Replied(c)) = 0 /\ Cardinality(Unseen(c)') = 0
          /\ Cardinality(Unseen(c)) \in Nat
      BY <2>1, FS_EmptySet, EventSets
    <2>3. UNCHANGED <<total, happened>> /\ bootAcl
      BY <1>4 DEF ReadAclLog, aclVars
    <2>4. total[c] + Cardinality(Replied(c)) + Cardinality(Unseen(c)) <= happened[c]
      BY <2>3 DEF CountInv
    <2>5. QED
      BY <1>0, <2>1, <2>2, <2>3, <2>4
  <1>5. CASE CountEntry
    <2> SUFFICES ASSUME bootAcl', NEW c \in AclSeries
                 PROVE  total'[c] + Cardinality(Replied(c)') + Cardinality(Unseen(c)')
                          <= happened'[c]
      BY DEF CountInv
    <2>1. /\ Unseen(c)' = Unseen(c)
          /\ total[c] + Cardinality(Replied(c)) = total'[c] + Cardinality(Replied(c)')
      BY <1>5, CountTakesEvents
    <2>2. UNCHANGED <<happened, bootAcl>>
      BY <1>5 DEF CountEntry
    <2>3. total[c] + Cardinality(Replied(c)) + Cardinality(Unseen(c)) <= happened[c]
      BY <2>2 DEF CountInv
    <2>4. QED
      BY <2>1, <2>2, <2>3
  <1>6. CASE AclEvent
    <2> SUFFICES ASSUME bootAcl', NEW c \in AclSeries
                 PROVE  total'[c] + Cardinality(Replied(c)') + Cardinality(Unseen(c)')
                          <= happened'[c]
      BY DEF CountInv
    <2>1. PICK k \in Kinds :
            /\ LogEvent(k)
            /\ happened' = [s \in AclSeries |->
                 IF bootAcl /\ s \in SeriesOf(k) THEN happened[s] + 1 ELSE happened[s]]
      BY <1>6 DEF AclEvent
    <2>2. UNCHANGED aclVars /\ disturbances < MaxDisturbances
      BY <1>6 DEF AclEvent, Disturb, exporterVars
    <2>3. PICK g \in Logged : HeadAfter(g, k)
      BY <2>1, <2>2, EventHead DEF ReadInv
    <2> DEFINE x == Latest(g)
    <2>4. /\ Replied(c)' = Replied(c)
          /\ Unseen(c)' \subseteq Unseen(c) \cup {x}
          /\ c \notin SeriesOf(k) => Unseen(c)' \subseteq Unseen(c)
      BY <1>0, <1>6, <2>3, EventIsUnseen
    <2> HIDE DEF x
    <2>5. Unseen(c)' \in SUBSET Units
      BY <1>0, EventSets DEF Unseen, EventsFor
    <2>6. Unseen(c) \in SUBSET Units
      BY EventSets
    <2>7. /\ Cardinality(Unseen(c)') <= Cardinality(Unseen(c)) + 1
          /\ c \notin SeriesOf(k) => Cardinality(Unseen(c)') <= Cardinality(Unseen(c))
      BY <2>4, <2>5, <2>6, OneMoreCounted
    <2>8. /\ Cardinality(Replied(c)) \in Nat /\ Cardinality(Unseen(c)) \in Nat
          /\ Cardinality(Unseen(c)') \in Nat
      BY <2>5, <2>6, EventSets, FiniteUnits
    <2>9. total'[c] = total[c] /\ bootAcl
      BY <2>2 DEF aclVars
    <2>10. happened'[c] = IF c \in SeriesOf(k) THEN happened[c] + 1 ELSE happened[c]
      BY <2>1, <2>9
    <2>11. total[c] + Cardinality(Replied(c)) + Cardinality(Unseen(c)) <= happened[c]
      BY <2>9 DEF CountInv
    <2>12. QED
      BY <1>0, <2>4, <2>7, <2>8, <2>9, <2>10, <2>11
  <1>7. CASE RedisRestart
    <2> SUFFICES ASSUME bootAcl', NEW c \in AclSeries
                 PROVE  total'[c] + Cardinality(Replied(c)') + Cardinality(Unseen(c)')
                          <= happened'[c]
      BY DEF CountInv
    <2>1. /\ aclLog' = <<>>
          /\ UNCHANGED <<reply, bootAcl, seen, total, happened>>
      BY <1>7 DEF RedisRestart, RestartServer, aclVars
    <2>2. Replied(c)' = Replied(c)
      BY <2>1 DEF Replied, EventsFor
    <2>3. Unseen(c)' = {}
      BY <2>1 DEF Unseen, EventsFor, Reach
    <2>4. Cardinality(Unseen(c)') = 0
      BY <2>3, FS_EmptySet
    <2>5. total[c] + Cardinality(Replied(c)) + Cardinality(Unseen(c)) <= happened[c]
      BY <2>1 DEF CountInv
    <2>6. Cardinality(Replied(c)) \in Nat /\ Cardinality(Unseen(c)) \in Nat
      BY EventSets
    <2>7. QED
      BY <1>0, <2>1, <2>2, <2>4, <2>5, <2>6
  <1>8. CASE PostureChange \/ BindingChange
    BY <1>8, OtherStepsKeepCountInv
       DEF PostureChange, SetPosture, BindingChange, AddBinding, RemoveBinding, exporterVars
  <1>9. CASE ExporterRestart
    BY <1>9 DEF ExporterRestart, CountInv
  <1>10. CASE UNCHANGED vars
    BY <1>10, OtherStepsKeepCountInv DEF vars
  <1>11. QED
    BY <1>1, <1>2, <1>3, <1>4, <1>5, <1>6, <1>7, <1>8, <1>9, <1>10
       DEF Next, PollStep, Environment

\* Whatever the log, its window and its restarts do, the ACL counters report
\* no more events than happened since the exporter adopted the log, however
\* many it holds beyond the reach of the snapshot.
THEOREM AdoptedAreNotCounted == Spec => []AdoptedNotCounted
  <1>1. Init => CountInv
    BY DEF Init, ProcessInit, CountInv
  <1>2. TypeInv /\ ReadInv /\ CountInv => AdoptedNotCounted
    <2> SUFFICES ASSUME TypeInv, ReadInv, CountInv, NEW c \in AclSeries
                 PROVE  total[c] <= happened[c]
      BY DEF AdoptedNotCounted
    <2>1. total[c] \in Nat /\ happened[c] \in Nat
      BY SeriesFacts DEF TypeInv, TypeOK
    <2>2. Cardinality(Replied(c)) \in Nat /\ Cardinality(Unseen(c)) \in Nat
      BY EventSets
    <2>3. CASE bootAcl
      BY <2>1, <2>2, <2>3 DEF CountInv
    <2>4. CASE ~bootAcl
      BY <2>1, <2>4 DEF ReadInv
    <2>5. QED
      BY <2>3, <2>4
  <1>3. QED
    BY <1>1, <1>2, StepCountInv, TypeInvariance, ReadInvariance, PTL DEF Spec

\* So no scrape, wherever in a publication it lands, ever shows more than that
\* either: what is published trails what is accumulated.
THEOREM PublishedAreNotAhead ==
  Spec => [](\A c \in AclSeries : counters[c] <= happened[c])
  <1>1. TypeInv /\ PublishInv /\ AdoptedNotCounted =>
          \A c \in AclSeries : counters[c] <= happened[c]
    <2> SUFFICES ASSUME TypeInv, PublishInv, AdoptedNotCounted, NEW c \in AclSeries
                 PROVE  counters[c] <= happened[c]
      OBVIOUS
    <2>1. counters[c] <= total[c] /\ total[c] <= happened[c]
      BY DEF PublishInv, AdoptedNotCounted
    <2>2. counters[c] \in Int /\ total[c] \in Int /\ happened[c] \in Int
      <3>1. /\ counters \in [Series -> Nat \cup {Absent}] /\ total \in [AclCounters -> Nat]
            /\ happened \in [AclSeries -> Nat]
        BY DEF TypeInv, TypeOK
      <3>2. c \in Series /\ c \in AclCounters
        BY SeriesFacts
      <3>3. counters[c] \in Nat \cup {Absent} /\ total[c] \in Nat
        BY <3>1, <3>2
      <3>4. Nat \cup {Absent} \subseteq Int
        BY DEF Absent
      <3>5. QED
        BY <3>1, <3>3, <3>4
    <2>3. QED
      BY <2>1, <2>2, AtMostTransitive
  <1>2. QED
    BY <1>1, AdoptedAreNotCounted, InitPublishInv, StepPublishInv, TypeInvariance,
       PTL DEF Spec

-----------------------------------------------------------------------------
(* The counters miss nothing. As long as the log is complete, the events   *)
(* counted, replied and unseen are exactly those that happened, and a reply *)
(* holds all of them that happened before it was read.                     *)

MissInv ==
  bootAcl /\ complete =>
    /\ InStep
    /\ \A c \in AclSeries :
         total[c] + Cardinality(Replied(c)) + Cardinality(Unseen(c)) = happened[c]
    /\ pc \in {"count", "publish"} =>
         \A c \in AclSeries : total[c] + Cardinality(Replied(c)) = readAt[c]

LEMMA OtherStepsKeepMissInv ==
  ASSUME MissInv, UNCHANGED <<aclLog, nextId, reply, aclVars, happened, readAt, complete>>,
         pc' \in {"count", "publish"} => pc \in {"count", "publish"}
  PROVE  MissInv'
  <1>1. UNCHANGED <<aclLog, nextId, reply, seen, total, bootAcl, happened, readAt, complete>>
    BY DEF aclVars
  <1>2. \A c : Replied(c)' = Replied(c) /\ Unseen(c)' = Unseen(c)
    BY <1>1, SameEvents
  <1>3. InStep => InStep'
    BY <1>1 DEF InStep, Reach
  <1>4. QED
    BY <1>1, <1>2, <1>3 DEF MissInv

LEMMA AdoptionInStep ==
  ASSUME TypeInv, ReadInv, AdoptAclLog
  PROVE  InStep'
  <1>1. reply' = reply /\ reply = <<>> /\ aclLog' = aclLog /\ nextId' = nextId
    BY DEF AdoptAclLog, ReadInv, serverVars
  <1>2. /\ \A i \in Ids : seen'[i] # Absent => i < nextId
        /\ \A e \in Reach(aclLog) : seen'[e.id] = e.count
    BY AdoptionAccounts
  <1>3. \A e \in Reach(aclLog) : e.count <= e.count
    BY LogEntries DEF Logged
  <1>4. QED
    BY <1>1, <1>2, <1>3, EmptyRange DEF InStep, Reach

LEMMA ReadInStep ==
  ASSUME TypeInv, ReadInv, ReadAclLog, InStep
  PROVE  InStep'
  <1>1. Range(reply') = Reach(aclLog) /\ UNCHANGED <<aclLog, nextId, seen>>
    BY NewestIsPrefix DEF ReadAclLog, serverVars, aclVars
  <1>2. \A e \in Reach(aclLog) : e.count <= e.count /\ e.id < nextId
    BY LogEntries DEF Logged, ReadInv
  <1>3. \A r, e \in Reach(aclLog) : e.id = r.id => r = e
    BY LogEntries
  <1>4. QED
    BY <1>1, <1>2, <1>3 DEF InStep, Reach

LEMMA CountInStep ==
  ASSUME TypeInv, ReadInv, CountEntry, InStep
  PROVE  InStep'
  <1> DEFINE e == Head(reply)
  <1>1. /\ UNCHANGED <<aclLog, nextId>> /\ reply # <<>> /\ reply' = Tail(reply)
        /\ seen' = [seen EXCEPT ![e.id] = e.count]
    BY DEF CountEntry, serverVars
  <1>2. /\ e \in Range(reply) /\ Range(reply') \subseteq Range(reply)
        /\ Range(reply) \subseteq Logged /\ Reach(aclLog) \subseteq Logged
    BY <1>1, ReplyParts, LogEntries
  <1> HIDE DEF e
  <1>3. e.id \in Ids /\ e.count \in Nat /\ seen[e.id] \in Int
    BY <1>2 DEF Logged, TypeInv, TypeOK, Absent
  <1>4. /\ seen'[e.id] = e.count
        /\ \A i \in Ids : i # e.id => seen'[i] = seen[i]
    BY <1>1, <1>3 DEF TypeInv, TypeOK
  <1>5. ASSUME NEW i \in Ids, seen'[i] # Absent
        PROVE  i < nextId
    BY <1>2, <1>4, <1>5 DEF InStep
  <1>6. ASSUME NEW f \in Reach(aclLog)
        PROVE  seen'[f.id] <= f.count
    <2>1. f.id \in Ids /\ f.count \in Nat
      BY <1>2 DEF Logged
    <2>2. CASE f.id = e.id
      <3>1. e.count <= f.count
        BY <1>2, <2>2 DEF InStep
      <3>2. QED
        BY <1>4, <2>2, <3>1
    <2>3. CASE f.id # e.id
      <3>1. seen'[f.id] = seen[f.id]
        BY <1>4, <2>1, <2>3
      <3>2. QED
        BY <3>1 DEF InStep
    <2>4. QED
      BY <2>2, <2>3
  <1>7. ASSUME NEW r \in Range(reply')
        PROVE  r.id < nextId /\ seen'[r.id] <= r.count
    <2>1. r \in Range(reply) /\ r.id \in Ids /\ r.count \in Nat
      BY <1>2 DEF Logged
    <2>2. CASE r.id = e.id
      <3>1. r = e
        BY <1>2, <2>1, <2>2 DEF ReadInv
      <3>2. QED
        BY <1>4, <2>1, <3>1 DEF InStep
    <2>3. CASE r.id # e.id
      BY <1>4, <2>1, <2>3 DEF InStep
    <2>4. QED
      BY <2>2, <2>3
  <1>8. \A r \in Range(reply'), f \in Reach(aclLog) : f.id = r.id => r.count <= f.count
    BY <1>2 DEF InStep
  <1>9. Reach(aclLog') = Reach(aclLog)
    BY <1>1
  <1>10. QED
    BY <1>1, <1>5, <1>6, <1>7, <1>8, <1>9 DEF InStep

LEMMA EventInStep ==
  ASSUME TypeInv, ReadInv, AclEvent, NEW k \in Kinds, NEW g \in Logged,
         HeadAfter(g, k), InStep
  PROVE  InStep'
  <1>1. reply' = reply /\ seen' = seen
    BY DEF AclEvent, exporterVars, pollVars, aclVars
  <1>2. /\ Reach(aclLog) \subseteq Logged /\ Range(reply) \subseteq Logged
        /\ nextId \in Nat
    BY LogEntries DEF TypeInv, TypeOK, ServerTypeOK
  <1>3. /\ g.id \in Ids /\ g.count \in Nat
        /\ \A e \in Reach(aclLog') : e = g \/ (e \in Reach(aclLog) /\ e.id # g.id)
    BY DEF HeadAfter, Logged
  <1>4. nextId' \in Nat /\ nextId' >= nextId
    BY <1>2 DEF HeadAfter
  <1>5. \/ \E o \in Reach(aclLog) : o.id = g.id /\ g.count = o.count + 1
        \/ g.id = nextId /\ g.count = 1
    BY DEF HeadAfter
  <1>6. \A i \in Ids : /\ seen[i] # Absent => i < nextId
                       /\ seen[i] \in Nat \cup {Absent} /\ i \in Nat
    BY ExporterAssumption DEF InStep, TypeInv, TypeOK, Ids
  <1>7. \A i \in Ids : seen[i] # Absent => i < nextId'
    BY <1>2, <1>4, <1>6
  <1>8. seen[g.id] <= g.count
    <2>1. CASE \E o \in Reach(aclLog) : o.id = g.id /\ g.count = o.count + 1
      <3>1. PICK o \in Reach(aclLog) : o.id = g.id /\ g.count = o.count + 1
        BY <2>1
      <3>2. seen[g.id] <= o.count /\ o.count \in Nat /\ seen[g.id] \in Int
        BY <1>2, <1>3, <1>6, <3>1 DEF InStep, Logged, Absent
      <3>3. QED
        BY <3>1, <3>2
    <2>2. CASE g.id = nextId /\ g.count = 1
      <3>1. seen[g.id] = Absent
        BY <1>2, <1>3, <1>6, <2>2
      <3>2. QED
        BY <2>2, <3>1 DEF Absent
    <2>3. QED
      BY <1>5, <2>1, <2>2
  <1>10. \A e \in Reach(aclLog') : seen[e.id] <= e.count
    BY <1>3, <1>8 DEF InStep
  <1>11. ASSUME NEW r \in Range(reply)
         PROVE  /\ r.id < nextId' /\ seen[r.id] <= r.count
                /\ \A e \in Reach(aclLog') : e.id = r.id => r.count <= e.count
    <2>1. /\ r.id \in Nat /\ r.count \in Nat /\ r.id < nextId /\ seen[r.id] <= r.count
      BY <1>2, ExporterAssumption DEF InStep, Logged, Ids
    <2>2. ASSUME g.id = r.id
          PROVE  r.count <= g.count
      <3>1. PICK o \in Reach(aclLog) : o.id = g.id /\ g.count = o.count + 1
        BY <1>2, <1>5, <2>1, <2>2
      <3>2. r.count <= o.count /\ o.count \in Nat
        BY <1>2, <2>2, <3>1 DEF InStep, Logged
      <3>3. QED
        BY <2>1, <3>1, <3>2
    <2>3. \A e \in Reach(aclLog) : e.id = r.id => r.count <= e.count
      BY DEF InStep
    <2>4. r.id < nextId'
      BY <1>2, <1>4, <2>1
    <2>5. QED
      BY <1>3, <2>1, <2>2, <2>3, <2>4
  <1>12. QED
    BY <1>1, <1>7, <1>10, <1>11 DEF InStep

LEMMA StepMissInv ==
  TypeInv /\ ReadInv /\ MissInv /\ [Next]_vars => MissInv'
  <1> SUFFICES ASSUME TypeInv, ReadInv, MissInv, [Next]_vars PROVE MissInv'
    OBVIOUS
  <1> USE DEF serverVars, pollVars, scanVars, bindVars, defaultVars,
              statusVars, metricVars, historyVars
  <1>0. /\ ReadInv'
        /\ \A c \in AclSeries : /\ total[c] \in Nat /\ happened[c] \in Nat
    BY StepReadInv, SeriesFacts DEF TypeInv, TypeOK
  <1>1. CASE Connect \/ RefusedNopass \/ NoteNopass \/ PollError \/ PollAuthError
             \/ ScanKey \/ EndScan \/ ReadMembers \/ CollectBindings
             \/ StartPublish \/ Publish \/ Finish
    BY <1>1, OtherStepsKeepMissInv
       DEF Connect, RefusedNopass, NoteNopass, PollError, PollAuthError, DropPoll,
           ScanKey, EndScan, ReadMembers, CollectBindings, StartPublish, Publish, Finish
  <1>2. CASE Probe \/ ProbeError
    BY <1>2, OtherStepsKeepMissInv DEF Probe, ProbeError, RecordProbe
  <1>3. CASE AdoptAclLog
    <2> SUFFICES ASSUME complete'
                 PROVE  /\ InStep'
                        /\ \A c \in AclSeries : total'[c] + Cardinality(Replied(c)')
                             + Cardinality(Unseen(c)') = happened'[c]
                        /\ pc' \notin {"count", "publish"}
      BY DEF MissInv
    <2>1. InStep'
      BY <1>3, AdoptionInStep
    <2>2. ASSUME NEW c \in AclSeries
          PROVE  total'[c] + Cardinality(Replied(c)') + Cardinality(Unseen(c)') = happened'[c]
      <3>1. Replied(c)' = {} /\ Unseen(c)' = {}
        BY <1>3, AdoptionAccounts
      <3>2. Cardinality(Replied(c)') = 0 /\ Cardinality(Unseen(c)') = 0
        BY <3>1, FS_EmptySet
      <3>3. total'[c] = 0 /\ happened'[c] = 0
        BY <1>3 DEF AdoptAclLog, ReadInv
      <3>4. QED
        BY <3>2, <3>3
    <2>3. pc' = "dryrun"
      BY <1>3 DEF AdoptAclLog
    <2>4. QED
      BY <2>1, <2>2, <2>3
  <1>4. CASE ReadAclLog
    <2> SUFFICES ASSUME bootAcl, complete
                 PROVE  /\ InStep'
                        /\ \A c \in AclSeries :
                             /\ total'[c] + Cardinality(Replied(c)')
                                  + Cardinality(Unseen(c)') = happened'[c]
                             /\ total'[c] + Cardinality(Replied(c)') = readAt'[c]
      BY <1>4 DEF ReadAclLog, MissInv, aclVars
    <2>1. InStep
      BY DEF MissInv
    <2>2. InStep'
      BY <1>4, <2>1, ReadInStep
    <2>3. ASSUME NEW c \in AclSeries
          PROVE  /\ total'[c] + Cardinality(Replied(c)')
                      + Cardinality(Unseen(c)') = happened'[c]
                 /\ total'[c] + Cardinality(Replied(c)') = readAt'[c]
      <3>1. Replied(c) = {} /\ Replied(c)' = Unseen(c) /\ Unseen(c)' = {}
        BY <1>4, ReadMovesEvents
      <3>2. Cardinality(Replied(c)) = 0 /\ Cardinality(Unseen(c)') = 0
        BY <3>1, FS_EmptySet
      <3>3. total[c] + Cardinality(Replied(c)) + Cardinality(Unseen(c)) = happened[c]
        BY DEF MissInv
      <3>4. UNCHANGED <<total, happened>> /\ readAt' = happened
        BY <1>4 DEF ReadAclLog, aclVars
      <3>5. Cardinality(Unseen(c)) \in Nat
        BY EventSets
      <3>6. QED
        BY <1>0, <3>1, <3>2, <3>3, <3>4, <3>5
    <2>4. QED
      BY <2>2, <2>3
  <1>5. CASE CountEntry
    <2> SUFFICES ASSUME bootAcl, complete
                 PROVE  /\ InStep'
                        /\ \A c \in AclSeries :
                             /\ total'[c] + Cardinality(Replied(c)')
                                  + Cardinality(Unseen(c)') = happened[c]
                             /\ total'[c] + Cardinality(Replied(c)') = readAt[c]
      BY <1>5 DEF CountEntry, MissInv
    <2>1. InStep'
      BY <1>5, CountInStep DEF MissInv
    <2>2. ASSUME NEW c \in AclSeries
          PROVE  /\ total'[c] + Cardinality(Replied(c)')
                      + Cardinality(Unseen(c)') = happened[c]
                 /\ total'[c] + Cardinality(Replied(c)') = readAt[c]
      <3>1. /\ Unseen(c)' = Unseen(c)
            /\ total[c] + Cardinality(Replied(c)) = total'[c] + Cardinality(Replied(c)')
        BY <1>5, CountTakesEvents
      <3>2. /\ total[c] + Cardinality(Replied(c)) + Cardinality(Unseen(c)) = happened[c]
            /\ total[c] + Cardinality(Replied(c)) = readAt[c]
        BY <1>5 DEF CountEntry, MissInv
      <3>3. QED
        BY <3>1, <3>2
    <2>3. QED
      BY <2>1, <2>2
  <1>6. CASE AclEvent
    <2>1. PICK k \in Kinds :
            /\ LogEvent(k)
            /\ happened' = [s \in AclSeries |->
                 IF bootAcl /\ s \in SeriesOf(k) THEN happened[s] + 1 ELSE happened[s]]
      BY <1>6 DEF AclEvent
    <2>2. /\ UNCHANGED <<pc, aclVars, readAt>> /\ disturbances < MaxDisturbances
          /\ complete' => complete
      BY <1>6 DEF AclEvent, Disturb, exporterVars
    <2>3. PICK g \in Logged : HeadAfter(g, k)
      BY <2>1, <2>2, EventHead DEF ReadInv
    <2> SUFFICES ASSUME bootAcl, complete, complete'
                 PROVE  /\ InStep'
                        /\ \A c \in AclSeries :
                             /\ Replied(c)' = Replied(c)
                             /\ total[c] + Cardinality(Replied(c))
                                  + Cardinality(Unseen(c)') = happened'[c]
      BY <2>2 DEF MissInv, aclVars
    <2>4. InStep /\ InStep'
      BY <1>6, <2>3, EventInStep DEF MissInv
    <2>5. ASSUME NEW c \in AclSeries
          PROVE  /\ Replied(c)' = Replied(c)
                 /\ total[c] + Cardinality(Replied(c))
                      + Cardinality(Unseen(c)') = happened'[c]
      <3> DEFINE x == Latest(g)
      <3>1. /\ Replied(c)' = Replied(c)
            /\ Unseen(c)' \subseteq Unseen(c) \cup {x}
            /\ Unseen(c) \subseteq Unseen(c)'
            /\ c \notin SeriesOf(k) => Unseen(c)' \subseteq Unseen(c)
            /\ c \in SeriesOf(k) => x \in Unseen(c)' /\ x \notin Unseen(c)
        BY <1>0, <1>6, <2>3, <2>4, EventIsUnseen
      <3> HIDE DEF x
      <3>2. Unseen(c) \in SUBSET Units /\ Cardinality(Unseen(c)) \in Nat
            /\ Cardinality(Replied(c)) \in Nat
        BY EventSets
      <3>3. Unseen(c)' \in SUBSET Units
        BY DEF Unseen, EventsFor
      <3>4. total[c] + Cardinality(Replied(c)) + Cardinality(Unseen(c)) = happened[c]
        BY DEF MissInv
      <3>5. CASE c \in SeriesOf(k)
        <4>1. Unseen(c)' = Unseen(c) \cup {x} /\ x \notin Unseen(c)
          BY <3>1, <3>5
        <4>2. Cardinality(Unseen(c)') = Cardinality(Unseen(c)) + 1
          BY <3>2, <3>3, <4>1, OneMoreCounted
        <4>3. happened'[c] = happened[c] + 1
          BY <2>1, <3>5
        <4>4. QED
          BY <1>0, <3>1, <3>2, <3>4, <4>2, <4>3
      <3>6. CASE c \notin SeriesOf(k)
        <4>1. Unseen(c)' = Unseen(c)
          BY <3>1, <3>6
        <4>2. happened'[c] = happened[c]
          BY <2>1, <3>6
        <4>3. QED
          BY <3>1, <3>4, <4>1, <4>2
      <3>7. QED
        BY <3>5, <3>6
    <2>6. QED
      BY <2>4, <2>5
  <1>7. CASE RedisRestart
    BY <1>7 DEF RedisRestart, MissInv
  <1>8. CASE PostureChange \/ BindingChange
    BY <1>8, OtherStepsKeepMissInv
       DEF PostureChange, SetPosture, BindingChange, AddBinding, RemoveBinding, exporterVars
  <1>9. CASE ExporterRestart
    BY <1>9 DEF ExporterRestart, MissInv
  <1>10. CASE UNCHANGED vars
    BY <1>10, OtherStepsKeepMissInv DEF vars
  <1>11. QED
    BY <1>1, <1>2, <1>3, <1>4, <1>5, <1>6, <1>7, <1>8, <1>9, <1>10
       DEF Next, PollStep, Environment

LEMMA RepliesAreCounted ==
  ASSUME TypeInv, ReadInv, MissInv
  PROVE  NothingMissed
  <1> SUFFICES ASSUME pc = "publish", complete, NEW c \in AclSeries
               PROVE  total[c] = readAt[c]
    BY DEF NothingMissed
  <1>1. bootAcl /\ reply = <<>>
    BY DEF ReadInv
  <1>2. Replied(c) = {}
    BY <1>1, EmptyRange DEF Replied, EventsFor
  <1>3. Cardinality(Replied(c)) = 0
    BY <1>2, FS_EmptySet
  <1>4. total[c] + Cardinality(Replied(c)) = readAt[c] /\ total[c] \in Nat
    BY <1>1, SeriesFacts DEF MissInv, TypeInv, TypeOK
  <1>5. QED
    BY <1>3, <1>4

\* Unless Redis restarted, or its log lost an entry or moved one out of reach
\* before it was read, an accounted reply leaves the counters at exactly what
\* had happened when it was read: growth of an entry survives the ageing of the
\* log, several entries and any number of failed polls.
THEOREM NothingIsMissed == Spec => []NothingMissed
  <1>1. Init => MissInv
    BY DEF Init, ProcessInit, MissInv
  <1>2. QED
    BY <1>1, RepliesAreCounted, StepMissInv, TypeInvariance, ReadInvariance, PTL DEF Spec

-----------------------------------------------------------------------------
(* What is published is what was read.                                     *)

\* A publication ends with all counters at total, and nothing but the next reply
\* changes one of the two, or readAt.
ShownInv ==
  /\ ~bootAcl => \A c \in AclSeries : readAt[c] = 0
  /\ toPublish = AfterEmergency => counters["emergency"] = total["emergency"]
  /\ pc \notin {"count", "publish"} =>
       /\ \A c \in AclSeries : Shown(c) = total[c]
       /\ complete => \A c \in AclSeries : total[c] = readAt[c]

\* The actions that leave the ACL counters alone, and do not begin or end a
\* publication.
LEMMA OtherStepsKeepShownInv ==
  ASSUME ShownInv, UNCHANGED <<toPublish, aclVars, readAt>>,
         \A c \in AclSeries : counters'[c] = counters[c],
         pc' \notin {"count", "publish"} => pc \notin {"count", "publish"},
         complete' => complete
  PROVE  ShownInv'
  <1>1. UNCHANGED <<toPublish, total, bootAcl, readAt>>
    BY DEF aclVars
  <1>2. \A c \in AclSeries : Shown(c)' = Shown(c)
    BY DEF Shown
  <1>3. "emergency" \in AclSeries
    BY SeriesFacts
  <1>4. QED
    BY <1>1, <1>2, <1>3 DEF ShownInv

\* Other counters than those of the log.
LEMMA OtherSeriesKept ==
  ASSUME TypeInv, NEW n, NEW s \in {"default", "binding"},
         counters' = [counters EXCEPT ![s] = n]
  PROVE  \A c \in AclSeries : counters'[c] = counters[c]
  BY SeriesFacts DEF TypeInv, TypeOK

LEMMA StepShownInv ==
  TypeInv /\ ReadInv /\ PublishInv /\ MissInv /\ ShownInv /\ [Next]_vars => ShownInv'
  <1> SUFFICES ASSUME TypeInv, ReadInv, PublishInv, MissInv, ShownInv, [Next]_vars
               PROVE  ShownInv'
    OBVIOUS
  <1> USE DEF serverVars, pollVars, scanVars, bindVars, defaultVars, statusVars, metricVars,
              historyVars
  <1>0. /\ \A c \in AclSeries : total[c] \in Nat
        /\ Absent \notin Nat
        /\ AclSeries = {"denied", "auth", "emergency"} /\ AclSeries \subseteq Series
    BY SeriesFacts DEF TypeInv, TypeOK, Absent
  <1>1. CASE Connect \/ RefusedNopass \/ PollError \/ PollAuthError
             \/ ScanKey \/ EndScan \/ ReadMembers \/ Finish
    BY <1>1, OtherStepsKeepShownInv
       DEF Connect, RefusedNopass, PollError, PollAuthError, DropPoll,
           ScanKey, EndScan, ReadMembers, Finish, Commands
  <1>2. CASE NoteNopass
    <2>1. \A c \in AclSeries : counters'[c] = counters[c]
      BY <1>2, OtherSeriesKept DEF NoteNopass
    <2>2. QED
      BY <1>2, <2>1, OtherStepsKeepShownInv DEF NoteNopass
  <1>3. CASE CollectBindings
    <2>1. \A c \in AclSeries : counters'[c] = counters[c]
      BY <1>3, OtherSeriesKept DEF CollectBindings
    <2>2. QED
      BY <1>3, <2>1, OtherStepsKeepShownInv DEF CollectBindings
  <1>4. CASE Probe \/ ProbeError
    <2>1. \A c \in AclSeries : counters'[c] = counters[c]
      BY <1>4, OtherSeriesKept DEF Probe, ProbeError, RecordProbe
    <2>2. QED
      BY <1>4, <2>1, OtherStepsKeepShownInv DEF Probe, ProbeError, RecordProbe
  <1>5. CASE AdoptAclLog
    <2>1. /\ bootAcl' /\ ~bootAcl /\ pc = "acllog"
          /\ UNCHANGED <<toPublish, total, counters, readAt>>
      BY <1>5 DEF AdoptAclLog
    <2>2. \A c \in AclSeries : total[c] = 0 /\ readAt[c] = 0
      BY <2>1 DEF ReadInv, ShownInv
    <2>3. \A c \in AclSeries : Shown(c)' = Shown(c)
      BY <2>1 DEF Shown
    <2>4. QED
      BY <2>1, <2>2, <2>3 DEF ShownInv
  <1>6. CASE ReadAclLog
    BY <1>6 DEF ReadAclLog, aclVars, ShownInv
  <1>7. CASE CountEntry
    <2>1. pc = "count" /\ UNCHANGED <<toPublish, bootAcl, readAt>>
      BY <1>7 DEF CountEntry
    <2>2. toPublish = <<>>
      BY <2>1 DEF PublishInv
    <2>3. <<>> # AfterEmergency
      BY DEF AfterEmergency
    <2>4. pc' \in {"count", "publish"}
      BY <1>7 DEF CountEntry
    <2>5. QED
      BY <2>1, <2>2, <2>3, <2>4 DEF ShownInv
  <1>8. CASE StartPublish
    <2>1. PublishOrder # AfterEmergency
      BY PublishWalk
    <2>2. QED
      BY <1>8, <2>1 DEF StartPublish, aclVars, ShownInv
  <1>9. CASE Publish
    <2> DEFINE s == Head(toPublish)
    <2>1. /\ counters' = [counters EXCEPT ![s] = total[s]]
          /\ toPublish' = Tail(toPublish)
          /\ UNCHANGED <<total, bootAcl, readAt, complete>>
          /\ pc' = IF Len(toPublish) = 1 THEN "dryrun" ELSE "publish"
      BY <1>9 DEF Publish, aclVars
    <2>2. toPublish \in {PublishOrder, AfterDenied, AfterAuth, AfterEmergency}
      BY <1>9 DEF Publish, PublishInv
    <2>3. s \in AclCounters
      BY <2>2, PublishWalk DEF AclCounters, AclSeries
    <2>4. \A c \in Series : counters'[c] = IF c = s THEN total[s] ELSE counters[c]
      BY <2>1, <2>3, SeriesFacts DEF TypeInv, TypeOK
    <2> HIDE DEF s
    <2>5. CASE toPublish = AfterEmergency
      <3>1. s = "default" /\ toPublish' = <<>> /\ pc' = "dryrun"
        BY <2>1, <2>5, PublishWalk DEF s
      <3>2. \A c \in AclSeries : counters'[c] = total[c]
        BY <1>0, <2>4, <2>5, <3>1 DEF PublishInv, ShownInv
      <3>3. \A c \in AclSeries : Shown(c)' = total'[c]
        BY <1>0, <2>1, <3>2 DEF Shown
      <3>4. complete' => \A c \in AclSeries : total'[c] = readAt'[c]
        BY <1>9, <2>1, RepliesAreCounted DEF Publish, NothingMissed
      <3>5. <<>> # AfterEmergency
        BY DEF AfterEmergency
      <3>6. QED
        BY <2>1, <3>1, <3>3, <3>4, <3>5 DEF ShownInv
    <2>6. CASE toPublish # AfterEmergency
      <3>1. pc' = "publish"
        <4>1. Len(toPublish) \in {2, 3, 4}
          BY <2>2, <2>6, PublishWalk
        <4>2. Len(toPublish) # 1
          BY <4>1
        <4>3. QED
          BY <2>1, <4>2
      <3>2. toPublish' = AfterEmergency => s = "emergency"
        <4>1. CASE toPublish = PublishOrder
          BY <2>1, <4>1, PublishWalk
        <4>2. CASE toPublish = AfterDenied
          BY <2>1, <4>2, PublishWalk
        <4>3. CASE toPublish = AfterAuth
          BY <4>3, PublishWalk DEF s
        <4>4. QED
          BY <2>2, <2>6, <4>1, <4>2, <4>3
      <3>3. QED
        BY <1>0, <2>1, <2>4, <3>1, <3>2 DEF ShownInv
    <2>7. QED
      BY <2>5, <2>6
  <1>10. CASE AclEvent \/ RedisRestart \/ PostureChange \/ BindingChange
    <2>1. UNCHANGED <<pc, toPublish, aclVars, counters, readAt>>
      <3>1. CASE AclEvent
        BY <3>1 DEF AclEvent, exporterVars
      <3>2. CASE RedisRestart
        BY <3>2 DEF RedisRestart
      <3>3. CASE PostureChange
        BY <3>3 DEF PostureChange, exporterVars
      <3>4. CASE BindingChange
        BY <3>4 DEF BindingChange, exporterVars
      <3>5. QED
        BY <1>10, <3>1, <3>2, <3>3, <3>4
    <2>2. complete' => complete
      <3>1. CASE AclEvent
        <4>1. complete' = (complete /\ \A e \in Reach(aclLog) : Unread(e) => InReach(aclLog', e))
          BY <3>1 DEF AclEvent
        <4>2. QED
          BY <4>1
      <3>2. CASE RedisRestart
        BY <3>2 DEF RedisRestart
      <3>3. CASE PostureChange
        BY <3>3 DEF PostureChange
      <3>4. CASE BindingChange
        BY <3>4 DEF BindingChange
      <3>5. QED
        BY <1>10, <3>1, <3>2, <3>3, <3>4
    <2>3. QED
      BY <2>1, <2>2, OtherStepsKeepShownInv
  <1>11. CASE ExporterRestart
    <2>1. /\ toPublish' = <<>>
          /\ \A c \in AclSeries : total'[c] = 0 /\ counters'[c] = Absent /\ readAt'[c] = 0
      BY <1>11, SeriesFacts DEF ExporterRestart, ProcessInit, NoCounters, NoEvents
    <2>2. <<>> # AfterEmergency
      BY DEF AfterEmergency
    <2>3. QED
      BY <2>1, <2>2 DEF ShownInv, Shown
  <1>12. CASE UNCHANGED vars
    BY <1>12, OtherStepsKeepShownInv DEF vars
  <1>13. QED
    BY <1>1, <1>2, <1>3, <1>4, <1>5, <1>6, <1>7, <1>8, <1>9, <1>10, <1>11, <1>12
       DEF Next, PollStep, Environment

\* Outside a publication every scrape shows exactly the events of the last reply
\* that was accounted, whatever polls have failed before or since.
THEOREM PublishedIsRead == Spec => []PublishedAsRead
  <1>1. Init => ShownInv
    <2> SUFFICES ASSUME Init PROVE ShownInv
      OBVIOUS
    <2>1. /\ toPublish = <<>>
          /\ \A c \in AclSeries : total[c] = 0 /\ counters[c] = Absent /\ readAt[c] = 0
      BY SeriesFacts DEF Init, ProcessInit, NoCounters, NoEvents
    <2>2. <<>> # AfterEmergency
      BY DEF AfterEmergency
    <2>3. QED
      BY <2>1, <2>2 DEF ShownInv, Shown
  <1>2. Init => MissInv
    BY DEF Init, ProcessInit, MissInv
  <1>3. ShownInv => PublishedAsRead
    BY DEF ShownInv, PublishedAsRead
  <1>4. QED
    BY <1>1, <1>2, <1>3, StepShownInv, InitPublishInv, StepPublishInv, StepMissInv,
       TypeInvariance, ReadInvariance, PTL DEF Spec
=============================================================================
