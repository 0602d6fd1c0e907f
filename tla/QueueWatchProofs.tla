-------------------------- MODULE QueueWatchProofs --------------------------
(***************************************************************************)
(* Proofs about QueueWatch, for every number of faults.                    *)
(***************************************************************************)
EXTENDS QueueWatch, TLAPS

\* The collector does what it may do or not at all.
LEMMA CollectorSteps ==
  ASSUME [Next]_vars
  PROVE  \/ UNCHANGED collector
         \/ TimePasses \/ WriteFails \/ Restart \/ Recreate
         \/ Query \/ Truncate \/ Stamp \/ Publish
  BY DEF Next, Environment, Monitoring, Collector, vars, Change, ExporterChange, RedisPoll,
     Fire, Resolve

-----------------------------------------------------------------------------
(* Types.                                                                  *)

CollectorType ==
  /\ pc \in {"query", "truncate", "stamp", "publish", "dead"}
  /\ found \in Pages
  /\ stamp \in Times \cup {NoFile}
  /\ page \in Pages
  /\ serving \in BOOLEAN

WatchType ==
  /\ exporter \in {"reading", "blind", "down"}
  /\ faults \in 0 .. MaxFaults
  /\ keyExists \in {"unset", "yes", "no"}
  /\ firing \subseteq Alerts

WorldType == work \in BOOLEAN /\ queue \in BOOLEAN /\ pg \in BOOLEAN

LEMMA TypeParts == TypeOK <=> CollectorType /\ WatchType /\ WorldType
  BY DEF TypeOK, CollectorType, WatchType, WorldType

LEMMA AgedIsPage ==
  ASSUME NEW p \in Pages, NEW q, q = [p EXCEPT !.last = Aged(@)]
  PROVE  /\ q \in Pages
         /\ q.last = Aged(p.last)
         /\ p.last = "never" <=> q.last = "never"
  BY DEF Pages, Times, Aged

LEMMA CollectorTypeStep == TypeOK /\ [Next]_vars => CollectorType'
  <1> SUFFICES ASSUME TypeOK, [Next]_vars PROVE CollectorType'
    OBVIOUS
  <1>t. CollectorType /\ WorldType
    BY TypeParts
  <1>s. serving' \in BOOLEAN
    BY <1>t, CollectorSteps DEF CollectorType, collector, TimePasses, WriteFails, Restart,
       Recreate, Query, Truncate, Stamp, Publish
  <1>1. CASE UNCHANGED collector
    BY <1>t, <1>1 DEF CollectorType, collector
  <1>2. CASE TimePasses
    <2>1. found' \in Pages /\ page' \in Pages
      BY <1>t, <1>2, AgedIsPage DEF TimePasses, CollectorType
    <2>2. stamp' \in Times \cup {NoFile} /\ pc' = pc
      BY <1>t, <1>2 DEF TimePasses, CollectorType, Times, Aged, NoFile
    <2>3. QED
      BY <1>t, <1>s, <2>1, <2>2 DEF CollectorType
  <1>3. CASE WriteFails \/ Restart
    BY <1>t, <1>s, <1>3 DEF WriteFails, Restart, CollectorType
  <1>4. CASE Recreate
    BY <1>s, <1>4 DEF Recreate, CollectorType, NothingFound, Pages, Times
  <1>5. CASE Query
    <2>1. LastSuccess \in Times
      BY <1>t DEF LastSuccess, CollectorType, Times
    <2>2. found' \in Pages
      BY <1>t, <1>5, <2>1 DEF Query, WorldType, Pages, Times
    <2>3. QED
      BY <1>t, <1>s, <1>5, <2>2 DEF Query, CollectorType
  <1>6. CASE Truncate
    BY <1>t, <1>s, <1>6 DEF Truncate, CollectorType, Times
  <1>7. CASE Stamp
    BY <1>t, <1>s, <1>7 DEF Stamp, CollectorType, Pages
  <1>8. CASE Publish
    BY <1>t, <1>s, <1>8 DEF Publish, CollectorType
  <1>9. QED
    BY <1>1, <1>2, <1>3, <1>4, <1>5, <1>6, <1>7, <1>8, CollectorSteps

LEMMA WorldTypeStep == TypeOK /\ [Next]_vars => WorldType'
  <1> SUFFICES ASSUME TypeOK, [Next]_vars PROVE WorldType'
    OBVIOUS
  <1>1. WorldType
    BY TypeParts
  <1>2. CASE Change
    BY <1>1, <1>2 DEF Change, WorldType
  <1>3. CASE UNCHANGED <<work, queue, pg>>
    BY <1>1, <1>3 DEF WorldType
  <1>4. QED
    BY <1>2, <1>3 DEF Next, Environment, Monitoring, Collector, vars, world, ExporterChange,
       TimePasses, Fault, WriteFails, Restart, Recreate, Query, Truncate, Stamp, Publish,
       RedisPoll, Fire, Resolve

LEMMA WatchTypeStep == TypeOK /\ [Next]_vars => WatchType'
  <1> SUFFICES ASSUME TypeOK, [Next]_vars PROVE WatchType'
    OBVIOUS
  <1>t. WatchType /\ MaxFaults \in Nat
    BY TypeParts, WatchAssumption
  <1>1. CASE UNCHANGED <<exporter, faults, keyExists, firing>>
    BY <1>t, <1>1 DEF WatchType
  <1>2. CASE Fault
    BY <1>t, <1>2 DEF Fault, WatchType
  <1>3. CASE ExporterChange
    BY <1>t, <1>3 DEF ExporterChange, WatchType
  <1>4. CASE RedisPoll
    BY <1>t, <1>4 DEF RedisPoll, WatchType, world
  <1>5. ASSUME NEW a \in Alerts, Fire(a) \/ Resolve(a) PROVE WatchType'
    BY <1>t, <1>5 DEF Fire, Resolve, WatchType, world
  <1>6. QED
    BY <1>1, <1>2, <1>3, <1>4, <1>5 DEF Next, Environment, Monitoring, Collector, vars, world,
       Change, TimePasses, WriteFails, Restart, Recreate, Query, Truncate, Stamp, Publish

LEMMA TypeInit == Init => TypeOK
  <1> SUFFICES ASSUME Init PROVE TypeOK
    OBVIOUS
  <1>1. WorldType
    BY DEF Init, WorldType
  <1>2. WatchType
    BY WatchAssumption DEF Init, WatchType
  <1>3. NothingFound \in Pages
    BY DEF NothingFound, Pages, Times
  <1>4. serving \in BOOLEAN
    BY DEF Init
  <1>5. CollectorType
    BY <1>3, <1>4 DEF Init, CollectorType
  <1>6. QED
    BY <1>1, <1>2, <1>5, TypeParts

LEMMA TypeStep == TypeOK /\ [Next]_vars => TypeOK'
  <1> SUFFICES ASSUME TypeOK, [Next]_vars PROVE TypeOK'
    OBVIOUS
  <1>1. CollectorType' /\ WatchType' /\ WorldType'
    BY CollectorTypeStep, WatchTypeStep, WorldTypeStep
  <1>2. QED
    BY <1>1 DEF TypeOK, CollectorType, WatchType, WorldType

\* Every variable keeps its type.
THEOREM TypeCorrect == Spec => []TypeOK
  BY TypeInit, TypeStep, PTL DEF Spec

-----------------------------------------------------------------------------
(* The memory of the collector. What is published is what was stamped, and  *)
(* a page that knows of a success is backed by the file: the two are        *)
(* written in this order, and each is read before it is overwritten.        *)

MemoryInv ==
  /\ TypeOK
  /\ pc = "publish" => stamp = found.last
  /\ page.last # "never" =>
       /\ stamp \notin {NoFile, "never"}
       /\ pc \in {"truncate", "stamp", "publish"} => found.last # "never"

LEMMA MemoryInit == Init => MemoryInv
  BY TypeInit DEF Init, MemoryInv, NothingFound

LEMMA MemoryStep ==
  MemoryInv /\ [Next]_vars
    => MemoryInv' /\ (page.last # "never" => page'.last # "never" \/ stamp' = NoFile)
  <1> DEFINE Kept == page.last # "never" => page'.last # "never" \/ stamp' = NoFile
  <1> SUFFICES ASSUME MemoryInv, [Next]_vars PROVE MemoryInv' /\ Kept
    OBVIOUS
  <1>t. /\ TypeOK' /\ page \in Pages /\ found \in Pages
        /\ stamp \in Times \cup {NoFile}
        /\ page.last \in Times /\ found.last \in Times /\ NoFile \notin Times
    BY TypeStep DEF MemoryInv, TypeOK, Pages, Times, NoFile
  <1>1. CASE UNCHANGED collector
    BY <1>t, <1>1 DEF MemoryInv, collector
  <1>2. CASE TimePasses
    <2>1. /\ found'.last = Aged(found.last) /\ page'.last = Aged(page.last)
          /\ found.last = "never" <=> found'.last = "never"
          /\ page.last = "never" <=> page'.last = "never"
          /\ stamp' = Aged(stamp) /\ pc' = pc
      BY <1>t, <1>2, AgedIsPage DEF TimePasses
    <2>2. stamp' \in {NoFile, "never"} <=> stamp \in {NoFile, "never"}
      BY <1>t, <2>1 DEF Aged, NoFile
    <2>3. QED
      BY <1>t, <2>1, <2>2 DEF MemoryInv
  <1>3. CASE WriteFails \/ Restart
    <2>1. pc' \in {"query", "dead"} /\ UNCHANGED <<found, stamp, page>>
      BY <1>3 DEF WriteFails, Restart
    <2>2. QED
      BY <1>t, <2>1 DEF MemoryInv
  <1>4. CASE Recreate
    BY <1>t, <1>4 DEF Recreate, NothingFound, MemoryInv
  <1>5. CASE Query
    <2>1. page.last # "never" => found'.last # "never"
      BY <1>t, <1>5 DEF Query, LastSuccess, MemoryInv, Times, NoFile
    <2>2. QED
      BY <1>t, <1>5, <2>1 DEF Query, MemoryInv
  <1>6. CASE Truncate
    BY <1>t, <1>6 DEF Truncate, MemoryInv, NoFile
  <1>7. CASE Stamp
    BY <1>t, <1>7 DEF Stamp, MemoryInv
  <1>8. CASE Publish
    BY <1>t, <1>8 DEF Publish, MemoryInv
  <1>9. QED
    BY <1>1, <1>2, <1>3, <1>4, <1>5, <1>6, <1>7, <1>8, CollectorSteps

\* A collector whose files are kept does not forget that it has had a success,
\* wherever a fault hits it between its writes.
THEOREM SuccessRemembered == Spec => ForgetsNoSuccess
  <1>1. MemoryInv /\ [Next]_vars
          => [page.last # "never" => page'.last # "never" \/ stamp' = NoFile]_vars
    BY MemoryStep
  <1>2. MemoryInv /\ [Next]_vars => MemoryInv'
    BY MemoryStep
  <1>3. QED
    BY <1>1, <1>2, MemoryInit, PTL DEF Spec, ForgetsNoSuccess
=============================================================================
