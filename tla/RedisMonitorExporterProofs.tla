--------------------- MODULE RedisMonitorExporterProofs ---------------------
(***************************************************************************)
(* Proofs about RedisMonitorExporter, for every value of its constants.    *)
(***************************************************************************)
EXTENDS RedisMonitorExporter, SequenceTheorems, FiniteSetTheorems, TLAPS

-----------------------------------------------------------------------------
(* Sequences.                                                              *)

LEMMA SingletonSeq ==
  ASSUME NEW S, NEW x \in S
  PROVE  <<x>> \in Seq(S)
  OBVIOUS

LEMMA PrefixSeq ==
  ASSUME NEW S, NEW s \in Seq(S), NEW n \in Int, n <= Len(s)
  PROVE  SubSeq(s, 1, n) \in Seq(S)
  <1>1. \A i \in 1 .. n : s[i] \in S
    BY ElementOfSeq
  <1>2. QED
    BY <1>1, SubSeqProperties

LEMMA RemoveAtSeq ==
  ASSUME NEW S, NEW s \in Seq(S), NEW i \in DOMAIN s
  PROVE  RemoveAt(s, i) \in Seq(S)
  <1>1. i \in Int /\ Len(s) \in Nat /\ 1 <= i /\ i <= Len(s)
    BY LenProperties
  <1>2. SubSeq(s, 1, i - 1) \in Seq(S)
    BY <1>1, PrefixSeq
  <1>3. \A j \in (i + 1) .. Len(s) : s[j] \in S
    BY <1>1, ElementOfSeq
  <1>4. SubSeq(s, i + 1, Len(s)) \in Seq(S)
    BY <1>1, <1>3, SubSeqProperties
  <1>5. QED
    BY <1>2, <1>4, ConcatProperties DEF RemoveAt

-----------------------------------------------------------------------------
(* Type correctness. seen is indexed by Ids, so its typing needs that every *)
(* entry-id in the log or in a reply is one of Ids: Redis numbers at most   *)
(* as many entries as there were disturbances.                              *)

Logged == [id : Ids, count : Nat, kind : Kinds]

TypeInv ==
  /\ TypeOK
  /\ aclLog \in Seq(Logged)
  /\ reply \in Seq(Logged)
  /\ nextId <= disturbances
  /\ disturbances <= MaxDisturbances

LEMMA LoggedAreEntries == Seq(Logged) \subseteq Seq(Entries)
  <1>1. Logged \subseteq Entries
    BY ExporterAssumption DEF Logged, Entries, Ids
  <1>2. QED
    BY <1>1, SeqMonotonic

LEMMA NewestLogged ==
  ASSUME aclLog \in Seq(Logged), NEW n \in Nat
  PROVE  Newest(n) \in Seq(Logged)
  BY PrefixSeq, LenProperties DEF Newest

LEMMA FiniteBindings ==
  ASSUME NEW S \in SUBSET Bindings
  PROVE  IsFiniteSet(S) /\ Cardinality(S) \in Nat
  BY ServerAssumption, FS_Subset, FS_CardinalityType

\* Two disjoint parts of a finite set.
LEMMA PartsCounted ==
  ASSUME NEW W, IsFiniteSet(W), NEW A \in SUBSET W, NEW B \in SUBSET W,
         A \cap B = {}
  PROVE  /\ Cardinality(A) + Cardinality(B) <= Cardinality(W)
         /\ A \cup B = W => Cardinality(A) + Cardinality(B) = Cardinality(W)
  <1>1. /\ IsFiniteSet(A) /\ Cardinality(A) \in Nat
        /\ IsFiniteSet(B) /\ Cardinality(B) \in Nat
    BY FS_Subset, FS_CardinalityType
  <1>2. Cardinality(A \cap B) = 0
    BY FS_EmptySet
  <1>3. /\ IsFiniteSet(A \cup B)
        /\ Cardinality(A \cup B) = Cardinality(A) + Cardinality(B) - Cardinality(A \cap B)
    BY <1>1, FS_Union
  <1>4. Cardinality(A \cup B) = Cardinality(A) + Cardinality(B)
    BY <1>1, <1>2, <1>3
  <1>5. Cardinality(A \cup B) <= Cardinality(W)
    <2>1. A \cup B \in SUBSET W
      OBVIOUS
    <2>2. QED
      BY <2>1, FS_Subset
  <1>6. QED
    BY <1>4, <1>5

LEMMA InitTypeInv == Init => TypeInv
  <1> SUFFICES ASSUME Init PROVE TypeInv
    OBVIOUS
  <1>1. /\ <<>> \in Seq(Logged) /\ <<>> \in Seq(Entries) /\ <<>> \in Seq(AclCounters)
    BY EmptySeq
  <1>2. ServerTypeOK
    BY <1>1 DEF Init, ServerInit, ServerTypeOK, Postures
  <1>3. nextId <= disturbances /\ disturbances <= MaxDisturbances
    BY ExporterAssumption DEF Init, ServerInit
  <1>4. aclLog \in Seq(Logged) /\ reply \in Seq(Logged)
    BY <1>1 DEF Init, ServerInit, ProcessInit
  <1>5. TypeOK
    BY <1>1, <1>2 DEF Init, ProcessInit, TypeOK, NoCounters, NoEvents, Found
  <1>6. QED
    BY <1>3, <1>4, <1>5 DEF TypeInv

\* The log after an event of kind k.
LEMMA LogEventTyped ==
  ASSUME TypeInv, disturbances < MaxDisturbances,
         NEW k \in Kinds, LogEvent(k)
  PROVE  /\ aclLog' \in Seq(Logged)
         /\ nextId' \in Nat
         /\ nextId' <= disturbances + 1
  <1>1. CASE GroupEvent(k)
    <2>1. PICK i \in DOMAIN aclLog :
            aclLog' = <<[aclLog[i] EXCEPT !.count = @ + 1]>> \o RemoveAt(aclLog, i)
      BY <1>1 DEF GroupEvent
    <2>2. aclLog[i] \in Logged
      BY ElementOfSeq, LenProperties DEF TypeInv
    <2>3. [aclLog[i] EXCEPT !.count = @ + 1] \in Logged
      BY <2>2 DEF Logged
    <2>4. RemoveAt(aclLog, i) \in Seq(Logged)
      BY RemoveAtSeq DEF TypeInv
    <2>5. <<[aclLog[i] EXCEPT !.count = @ + 1]>> \in Seq(Logged)
      BY <2>3, SingletonSeq
    <2>6. aclLog' \in Seq(Logged)
      BY <2>1, <2>4, <2>5, ConcatProperties
    <2>7. QED
      BY <1>1, <2>6 DEF GroupEvent, TypeInv, TypeOK, ServerTypeOK
  <1>2. CASE NewEvent(k)
    <2> DEFINE kept == IF Len(aclLog) < LogLen THEN Len(aclLog) ELSE LogLen - 1
    <2>1. SubSeq(aclLog, 1, kept) \in Seq(Logged)
      BY PrefixSeq, LenProperties, ServerAssumption DEF TypeInv
    <2>2. nextId \in Ids
      BY ExporterAssumption DEF TypeInv, TypeOK, ServerTypeOK, Ids
    <2>3. [id |-> nextId, count |-> 1, kind |-> k] \in Logged
      BY <2>2 DEF Logged
    <2>4. aclLog' = <<[id |-> nextId, count |-> 1, kind |-> k]>> \o SubSeq(aclLog, 1, kept)
      BY <1>2 DEF NewEvent
    <2>5. aclLog' \in Seq(Logged)
      BY <2>1, <2>3, <2>4, SingletonSeq, ConcatProperties
    <2>6. QED
      BY <1>2, <2>5 DEF NewEvent, TypeInv, TypeOK, ServerTypeOK
  <1>3. QED
    BY <1>1, <1>2 DEF LogEvent

\* One step of the poll, of the environment, or a stuttering step.
LEMMA StepTypeInv == TypeInv /\ [Next]_vars => TypeInv'
  <1> SUFFICES ASSUME TypeInv, [Next]_vars PROVE TypeInv'
    OBVIOUS
  <1> USE DEF TypeInv, TypeOK, ServerTypeOK, serverVars, pollVars, scanVars, aclVars,
              bindVars, defaultVars, statusVars, metricVars, historyVars
  <1>1. CASE Connect
    BY <1>1 DEF Connect
  <1>2. CASE RefusedNopass
    BY <1>2 DEF RefusedNopass, Counted
  <1>3. CASE NoteNopass
    <2>1. defaultSuccess' \in Nat
      BY <1>3 DEF NoteNopass
    <2>2. counters' \in [Series -> Nat \cup {Absent}]
      BY <1>3, <2>1 DEF NoteNopass
    <2>3. QED
      BY <1>3, <2>1, <2>2 DEF NoteNopass
  <1>4. CASE PollError
    <2>1. linked' \in BOOLEAN
      BY <1>4 DEF PollError, DropPoll
    <2>2. QED
      BY <1>4, <2>1, ExporterAssumption DEF PollError, DropPoll, BrokenLink, Disturb, Counted
  <1>5. CASE PollAuthError
    <2>1. linked' \in BOOLEAN
      BY <1>5 DEF PollAuthError, DropPoll
    <2>2. QED
      BY <1>5, <2>1, ExporterAssumption DEF PollAuthError, DropPoll, Disturb, Counted
  <1>6. CASE ScanKey \/ EndScan
    BY <1>6 DEF ScanKey, EndScan
  <1>22. CASE ReadMembers
    <2>1. \A k : MembersOf(k) \subseteq Bindings
      BY DEF MembersOf
    <2>2. QED
      BY <1>22, <2>1 DEF ReadMembers
  <1>23. CASE CollectBindings
    <2>1. known' = current /\ churn' = churn + Cardinality(Additions(current))
      BY <1>23 DEF CollectBindings
    <2>2. Additions(current) \in SUBSET Bindings
      BY DEF Additions
    <2>3. Cardinality(Additions(current)) \in Nat
      BY <2>2, FS_Subset, FS_CardinalityType, ServerAssumption
    <2>4. churn' \in Nat
      BY <2>1, <2>3
    <2>5. counters' \in [Series -> Nat \cup {Absent}]
      BY <1>23, <2>4 DEF CollectBindings
    <2>6. QED
      BY <1>23, <2>1, <2>4, <2>5 DEF CollectBindings
  <1>7. CASE AdoptAclLog
    <2> DEFINE old(i) == {e \in Range(Newest(ReadMax)) : e.id = i}
    <2>1. Range(Newest(ReadMax)) \subseteq Logged
      BY NewestLogged, RangeOfSeq, ExporterAssumption
    <2>2. \A i \in Ids : old(i) # {} => (CHOOSE e \in old(i) : TRUE).count \in Nat
      BY <2>1 DEF Logged
    <2>3. seen' \in [Ids -> Nat \cup {Absent}]
      BY <1>7, <2>2 DEF AdoptAclLog
    <2>4. complete' \in BOOLEAN
      BY <1>7 DEF AdoptAclLog
    <2>5. QED
      BY <1>7, <2>3, <2>4 DEF AdoptAclLog
  <1>8. CASE ReadAclLog
    <2>1. reply' \in Seq(Logged)
      BY <1>8, NewestLogged, ExporterAssumption DEF ReadAclLog
    <2>2. reply' \in Seq(Entries)
      BY <2>1, LoggedAreEntries
    <2>3. QED
      BY <1>8, <2>1, <2>2 DEF ReadAclLog
  <1>9. CASE CountEntry
    <2> DEFINE e == Head(reply)
    <2>1. e \in Logged /\ Tail(reply) \in Seq(Logged)
      BY <1>9, HeadTailProperties DEF CountEntry
    <2>2. Tail(reply) \in Seq(Entries)
      BY <2>1, LoggedAreEntries
    <2>3. e.id \in Ids /\ e.count \in Nat
      BY <2>1 DEF Logged
    <2>4. Delta(e) \in Nat
      <3> HIDE DEF e
      <3>1. seen[e.id] \in Nat \cup {Absent}
        BY <2>3
      <3>2. QED
        BY <2>3, <3>1 DEF Delta, Absent
    <2>5. seen' \in [Ids -> Nat \cup {Absent}]
      BY <1>9, <2>3 DEF CountEntry
    <2>6. total' \in [AclCounters -> Nat]
      <3> HIDE DEF e
      <3>1. total' = [c \in AclCounters |->
                        IF c \in SeriesOf(e.kind) THEN total[c] + Delta(e) ELSE total[c]]
        BY <1>9 DEF CountEntry, e
      <3>2. QED
        BY <2>4, <3>1
    <2>7. QED
      BY <1>9, <2>1, <2>2, <2>5, <2>6 DEF CountEntry
  <1>10. CASE StartPublish
    <2>1. PublishOrder \in Seq(AclCounters)
      BY DEF PublishOrder, AclCounters, AclSeries
    <2>2. QED
      BY <1>10, <2>1 DEF StartPublish
  <1>11. CASE Publish
    <2>1. Head(toPublish) \in AclCounters /\ Tail(toPublish) \in Seq(AclCounters)
      BY <1>11, HeadTailProperties DEF Publish
    <2>2. counters' \in [Series -> Nat \cup {Absent}]
      BY <1>11, <2>1 DEF Publish
    <2>3. QED
      BY <1>11, <2>1, <2>2 DEF Publish
  <1>12. CASE Probe
    <2>1. Found(posture) \in {0, 1}
      BY DEF Found
    <2>2. defaultSuccess' \in Nat
      BY <1>12 DEF Probe, RecordProbe
    <2>3. counters' \in [Series -> Nat \cup {Absent}]
      BY <1>12, <2>2 DEF Probe, RecordProbe
    <2>4. QED
      BY <1>12, <2>1, <2>2, <2>3 DEF Probe, RecordProbe
  <1>13. CASE ProbeError
    <2>1. defaultSuccess' \in Nat
      BY <1>13 DEF ProbeError, RecordProbe
    <2>2. counters' \in [Series -> Nat \cup {Absent}]
      BY <1>13, <2>1 DEF ProbeError, RecordProbe
    <2>3. QED
      BY <1>13, <2>1, <2>2, ExporterAssumption
         DEF ProbeError, RecordProbe, BrokenLink, Disturb
  <1>14. CASE Finish
    BY <1>14 DEF Finish
  <1>15. CASE AclEvent
    <2>1. PICK k \in Kinds :
            /\ LogEvent(k)
            /\ happened' = [c \in AclSeries |->
                 IF bootAcl /\ c \in SeriesOf(k) THEN happened[c] + 1 ELSE happened[c]]
      BY <1>15 DEF AclEvent
    <2>2. disturbances < MaxDisturbances /\ disturbances' = disturbances + 1
      BY <1>15 DEF AclEvent, Disturb
    <2>3. aclLog' \in Seq(Logged) /\ nextId' \in Nat /\ nextId' <= disturbances'
      BY <2>1, <2>2, LogEventTyped
    <2>4. aclLog' \in Seq(Entries)
      BY <2>3, LoggedAreEntries
    <2>5. posture' = posture /\ bindings' = bindings
      BY <2>1 DEF LogEvent, GroupEvent, NewEvent
    <2>6. happened' \in [AclSeries -> Nat]
      BY <2>1
    <2>7. complete' \in BOOLEAN
      BY <1>15 DEF AclEvent
    <2>8. QED
      BY <1>15, <2>2, <2>3, <2>4, <2>5, <2>6, <2>7, ExporterAssumption
         DEF AclEvent, exporterVars
  <1>16. CASE RedisRestart
    <2>1. <<>> \in Seq(Logged) /\ <<>> \in Seq(Entries)
      BY EmptySeq
    <2>2. aclLog' \in Seq(Logged) /\ aclLog' \in Seq(Entries)
      BY <1>16, <2>1 DEF RedisRestart, RestartServer
    <2>3. nextId' \in Nat /\ nextId' <= disturbances' /\ disturbances' <= MaxDisturbances
      BY <1>16, ExporterAssumption DEF RedisRestart, RestartServer, Disturb
    <2>4. complete' \in BOOLEAN /\ linked' \in BOOLEAN
      BY <1>16 DEF RedisRestart
    <2>5. posture' \in Postures /\ bindings' \in SUBSET Bindings
      BY <1>16 DEF RedisRestart, RestartServer, Postures
    <2>6. Cardinality(bindings' \ bindings) \in Nat
      BY <2>5, FiniteBindings
    <2>7. added' \in Nat /\ regressions' \in Nat
      BY <1>16, <2>6 DEF RedisRestart
    <2>8. ServerTypeOK'
      BY <2>2, <2>3, <2>5
    <2>9. disturbances' \in Nat
      BY <1>16, ExporterAssumption DEF RedisRestart, Disturb
    <2>10. QED
      BY <1>16, <2>2, <2>3, <2>4, <2>7, <2>8, <2>9 DEF RedisRestart
  <1>17. CASE PostureChange
    BY <1>17, ExporterAssumption
       DEF PostureChange, SetPosture, Disturb, exporterVars
  <1>18. CASE BindingChange
    BY <1>18, ExporterAssumption
       DEF BindingChange, AddBinding, RemoveBinding, Disturb, exporterVars
  <1>19. CASE ExporterRestart
    <2>1. /\ <<>> \in Seq(Logged) /\ <<>> \in Seq(Entries)
          /\ <<>> \in Seq(AclCounters)
      BY EmptySeq
    <2>2. /\ reply' \in Seq(Logged) /\ reply' \in Seq(Entries)
          /\ toPublish' \in Seq(AclCounters)
      BY <1>19, <2>1 DEF ExporterRestart
    <2>3. ServerTypeOK' /\ aclLog' \in Seq(Logged)
      BY <1>19 DEF ExporterRestart
    <2>4. nextId' <= disturbances' /\ disturbances' <= MaxDisturbances
      BY <1>19, ExporterAssumption DEF ExporterRestart, Disturb
    <2>5. regressions' \in Nat
      BY <1>19 DEF ExporterRestart, Found
    <2>6. /\ bootAcl' \in BOOLEAN /\ bootBind' \in BOOLEAN
          /\ complete' \in BOOLEAN /\ linked' \in BOOLEAN
      BY <1>19 DEF ExporterRestart, DropPoll
    <2>7. QED
      BY <1>19, <2>2, <2>3, <2>4, <2>5, <2>6
         DEF ExporterRestart, DropPoll, Disturb, NoCounters, NoEvents
  <1>20. CASE UNCHANGED vars
    BY <1>20 DEF vars
  <1>21. QED
    BY <1>1, <1>2, <1>3, <1>4, <1>5, <1>6, <1>7, <1>8, <1>9, <1>10, <1>11, <1>12,
       <1>13, <1>14, <1>15, <1>16, <1>17, <1>18, <1>19, <1>20, <1>22, <1>23
       DEF Next, PollStep, Environment

LEMMA TypeInvariance == Spec => []TypeInv
  BY InitTypeInv, StepTypeInv, PTL DEF Spec

\* Every variable keeps its type: in particular seen, the snapshot of
\* _acl_entry_counts, is only read at entry-ids it knows.
THEOREM TypeCorrect == Spec => []TypeOK
  <1>1. TypeInv => TypeOK
    BY DEF TypeInv
  <1>2. QED
    BY <1>1, TypeInvariance, PTL

-----------------------------------------------------------------------------
(* The default-user alarm. OneAlarmPerRegression is not inductive: while    *)
(* the exporter has not yet noticed a regression (or is about to note the   *)
(* refusal that revealed one), one rise of the counter is still to come.    *)

AlarmDue == IF usablePrev = 0 /\ (posture # "off" \/ pc = "note") THEN 1 ELSE 0

AlarmInv == defaultSuccess + AlarmDue <= regressions + closedProbes

LEMMA StepAlarmInv == TypeInv /\ AlarmInv /\ [Next]_vars => AlarmInv'
  <1> SUFFICES ASSUME TypeInv, AlarmInv, [Next]_vars PROVE AlarmInv'
    OBVIOUS
  <1> USE DEF AlarmInv, AlarmDue
  <1> USE DEF serverVars, pollVars, scanVars, aclVars, bindVars, defaultVars,
              statusVars, metricVars, historyVars
  <1>0. /\ defaultSuccess \in Nat /\ regressions \in Nat /\ closedProbes \in Nat
        /\ usablePrev \in {0, 1} /\ posture \in Postures
    BY DEF TypeInv, TypeOK, ServerTypeOK
  <1>1. CASE Connect
    BY <1>0, <1>1 DEF Connect
  <1>2. CASE RefusedNopass
    BY <1>0, <1>2 DEF RefusedNopass
  <1>3. CASE NoteNopass
    BY <1>0, <1>3 DEF NoteNopass, Rises
  <1>4. CASE PollError \/ PollAuthError
    BY <1>0, <1>4 DEF PollError, PollAuthError, DropPoll
  <1>5. CASE ScanKey \/ EndScan \/ ReadMembers \/ CollectBindings
    BY <1>0, <1>5 DEF ScanKey, EndScan, ReadMembers, CollectBindings
  <1>6. CASE AdoptAclLog \/ ReadAclLog
    BY <1>0, <1>6 DEF AdoptAclLog, ReadAclLog
  <1>7. CASE CountEntry \/ StartPublish \/ Publish
    BY <1>0, <1>7 DEF CountEntry, StartPublish, Publish
  <1>8. CASE Probe
    BY <1>0, <1>8 DEF Probe, RecordProbe, Rises, Found
  <1>9. CASE ProbeError
    BY <1>0, <1>9 DEF ProbeError, RecordProbe, Rises
  <1>10. CASE Finish
    BY <1>0, <1>10 DEF Finish
  <1>11. CASE AclEvent
    BY <1>0, <1>11 DEF AclEvent, LogEvent, GroupEvent, NewEvent, exporterVars
  <1>12. CASE RedisRestart
    BY <1>0, <1>12 DEF RedisRestart, RestartServer, exporterVars
  <1>13. CASE PostureChange
    BY <1>0, <1>13 DEF PostureChange, SetPosture, exporterVars
  <1>14. CASE BindingChange
    BY <1>0, <1>14 DEF BindingChange, AddBinding, RemoveBinding, exporterVars
  <1>15. CASE ExporterRestart
    BY <1>0, <1>15 DEF ExporterRestart, DropPoll, Found
  <1>16. CASE UNCHANGED vars
    BY <1>0, <1>16 DEF vars
  <1>17. QED
    BY <1>1, <1>2, <1>3, <1>4, <1>5, <1>6, <1>7, <1>8, <1>9, <1>10, <1>11, <1>12,
       <1>13, <1>14, <1>15, <1>16 DEF Next, PollStep, Environment

\* The default-user counter rises at most once for each time the default user
\* became usable and each probe that ended with an error, whichever of the
\* two detection paths (DRYRUN, protected-mode refusal) sees it, and however
\* the posture changes between a refusal and its note.
THEOREM AlarmsAreRegressions == Spec => []OneAlarmPerRegression
  <1>1. Init => AlarmInv
    BY DEF Init, ProcessInit, AlarmInv, AlarmDue, Found
  <1>2. TypeInv /\ AlarmInv => OneAlarmPerRegression
    BY DEF TypeInv, TypeOK, AlarmInv, AlarmDue, OneAlarmPerRegression
  <1>3. QED
    BY <1>1, <1>2, StepAlarmInv, TypeInvariance, PTL DEF Spec

-----------------------------------------------------------------------------
(* The published ACL counters. A published counter trails its accumulated   *)
(* one, and the publication loop runs through a suffix of PublishOrder      *)
(* while nothing is accumulated: when it reaches the emergency counter, the *)
(* two counters published before it are up to date.                        *)

AfterDenied == <<"auth", "emergency", "default">>
AfterAuth == <<"emergency", "default">>
AfterEmergency == <<"default">>

PublishInv ==
  /\ toPublish \in {<<>>, PublishOrder, AfterDenied, AfterAuth, AfterEmergency}
  /\ toPublish # <<>> => pc = "publish"
  /\ total["emergency"] <= total["denied"] + total["auth"]
  /\ \A c \in AclSeries : counters[c] <= total[c]
  /\ toPublish \in {AfterDenied, AfterAuth, AfterEmergency} =>
       counters["denied"] = total["denied"]
  /\ toPublish \in {AfterAuth, AfterEmergency} => counters["auth"] = total["auth"]
  /\ EmergencyAccounted

LEMMA PublishWalk ==
  /\ Head(PublishOrder) = "denied" /\ Tail(PublishOrder) = AfterDenied
  /\ Head(AfterDenied) = "auth" /\ Tail(AfterDenied) = AfterAuth
  /\ Head(AfterAuth) = "emergency" /\ Tail(AfterAuth) = AfterEmergency
  /\ Head(AfterEmergency) = "default" /\ Tail(AfterEmergency) = <<>>
  /\ Len(PublishOrder) = 4 /\ Len(AfterDenied) = 3
  /\ Len(AfterAuth) = 2 /\ Len(AfterEmergency) = 1
  BY DEF PublishOrder, AfterDenied, AfterAuth, AfterEmergency

LEMMA SeriesFacts ==
  /\ {"denied", "auth", "emergency"} \subseteq AclCounters
  /\ AclCounters \subseteq Series
  /\ AclSeries = {"denied", "auth", "emergency"}
  BY DEF AclSeries, AclCounters, Series

\* An entry that feeds the emergency counter feeds one of the other two by as
\* much.
LEMMA CountedTogether ==
  ASSUME TypeInv, CountEntry
  PROVE  /\ \A c \in AclCounters : total'[c] >= total[c]
         /\ total'["emergency"] - total["emergency"] <=
              (total'["denied"] - total["denied"]) + (total'["auth"] - total["auth"])
  <1> DEFINE e == Head(reply)
  <1>1. e \in Logged
    BY HeadTailProperties DEF CountEntry, TypeInv
  <1>2. total' = [c \in AclCounters |->
                    IF c \in SeriesOf(e.kind) THEN total[c] + Delta(e) ELSE total[c]]
    BY DEF CountEntry
  <1> HIDE DEF e
  <1>3. Delta(e) \in Nat
    <2>1. e.id \in Ids /\ e.count \in Nat
      BY <1>1 DEF Logged
    <2>2. seen[e.id] \in Nat \cup {Absent}
      BY <2>1 DEF TypeInv, TypeOK
    <2>3. QED
      BY <2>1, <2>2 DEF Delta, Absent
  <1>4. \A c \in AclCounters : total[c] \in Nat
    BY DEF TypeInv, TypeOK
  <1>5. "denied" \in SeriesOf(e.kind) \/ "auth" \in SeriesOf(e.kind)
    BY DEF SeriesOf
  <1>6. QED
    BY <1>2, <1>3, <1>4, <1>5, SeriesFacts

\* The actions that change none of the variables of PublishInv but pc, and do
\* not interrupt a publication.
LEMMA OtherStepsKeepPublishInv ==
  ASSUME PublishInv, toPublish' = toPublish, total' = total, counters' = counters,
         pc' = pc \/ pc # "publish"
  PROVE  PublishInv'
  BY DEF PublishInv, EmergencyAccounted

\* The actions that write the counter of the default user or of the bindings,
\* outside a publication.
LEMMA OtherCountersKeepPublishInv ==
  ASSUME TypeInv, PublishInv, pc # "publish", toPublish' = toPublish, total' = total,
         NEW n, NEW s \in {"default", "binding"}, counters' = [counters EXCEPT ![s] = n]
  PROVE  PublishInv'
  <1>1. \A c \in AclSeries : counters'[c] = counters[c]
    BY SeriesFacts DEF TypeInv, TypeOK
  <1>2. QED
    BY <1>1, SeriesFacts DEF PublishInv, EmergencyAccounted

LEMMA StepPublishInv == TypeInv /\ PublishInv /\ [Next]_vars => PublishInv'
  <1> SUFFICES ASSUME TypeInv, PublishInv, [Next]_vars PROVE PublishInv'
    OBVIOUS
  <1> USE DEF serverVars, pollVars, scanVars, aclVars, bindVars, defaultVars,
              statusVars, metricVars, historyVars
  <1>0. /\ \A c \in AclSeries : total[c] \in Nat
        /\ \A c \in AclSeries : counters[c] \in Nat \cup {Absent}
        /\ Absent < 0
    BY SeriesFacts DEF TypeInv, TypeOK, Absent
  <1>1. CASE Connect \/ RefusedNopass \/ PollError \/ PollAuthError
             \/ ScanKey \/ EndScan \/ ReadMembers \/ Finish
    <2>1. UNCHANGED <<toPublish, total, counters>> /\ pc # "publish"
      <3>1. CASE Connect \/ RefusedNopass
        BY <3>1 DEF Connect, RefusedNopass
      <3>2. CASE PollError \/ PollAuthError
        BY <3>2 DEF PollError, PollAuthError, Commands
      <3>3. CASE Finish
        BY <3>3 DEF Finish
      <3>4. CASE ScanKey \/ EndScan \/ ReadMembers
        BY <3>4 DEF ScanKey, EndScan, ReadMembers
      <3>5. QED
        BY <1>1, <3>1, <3>2, <3>3, <3>4
    <2>2. QED
      BY <2>1, OtherStepsKeepPublishInv
  <1>2. CASE AdoptAclLog \/ ReadAclLog
    BY <1>2, OtherStepsKeepPublishInv DEF AdoptAclLog, ReadAclLog
  <1>3. CASE NoteNopass
    BY <1>3, OtherCountersKeepPublishInv DEF NoteNopass
  <1>4. CASE CollectBindings
    BY <1>4, OtherCountersKeepPublishInv DEF CollectBindings
  <1>5. CASE Probe \/ ProbeError
    BY <1>5, OtherCountersKeepPublishInv DEF Probe, ProbeError, RecordProbe
  <1>6. CASE CountEntry
    <2>1. toPublish = <<>> /\ toPublish' = toPublish /\ counters' = counters
      BY <1>6 DEF CountEntry, PublishInv
    <2>2. \A c \in AclSeries : total'[c] >= total[c] /\ total'[c] \in Nat
      BY <1>6, CountedTogether, StepTypeInv, SeriesFacts DEF TypeInv, TypeOK
    <2>3. \A c \in AclSeries : counters'[c] <= total'[c]
      BY <1>0, <2>1, <2>2 DEF PublishInv, Absent
    <2>4. total'["emergency"] <= total'["denied"] + total'["auth"]
      <3>1. /\ \A c \in {"denied", "auth", "emergency"} : total[c] \in Int
            /\ \A c \in {"denied", "auth", "emergency"} : total'[c] \in Int
        BY <1>0, <2>2, SeriesFacts
      <3>2. /\ total'["emergency"] - total["emergency"] <=
                 (total'["denied"] - total["denied"]) + (total'["auth"] - total["auth"])
            /\ total["emergency"] <= total["denied"] + total["auth"]
        BY <1>6, CountedTogether DEF PublishInv
      <3>3. QED
        BY <3>1, <3>2
    <2>5. EmergencyAccounted'
      BY <2>1 DEF PublishInv, EmergencyAccounted
    <2>6. <<>> \notin {AfterDenied, AfterAuth, AfterEmergency}
      BY DEF AfterDenied, AfterAuth, AfterEmergency
    <2>7. QED
      BY <2>1, <2>3, <2>4, <2>5, <2>6 DEF PublishInv
  <1>7. CASE StartPublish
    <2>1. PublishOrder \notin {AfterDenied, AfterAuth, AfterEmergency}
      BY PublishWalk
    <2>2. toPublish' = PublishOrder /\ pc' = "publish" /\ total' = total
          /\ counters' = counters
      BY <1>7 DEF StartPublish
    <2>3. QED
      BY <2>1, <2>2 DEF PublishInv, EmergencyAccounted
  <1>8. CASE Publish
    <2> DEFINE s == Head(toPublish)
    <2>1. /\ counters' = [counters EXCEPT ![s] = total[s]]
          /\ toPublish' = Tail(toPublish) /\ total' = total
          /\ pc' = IF Len(toPublish) = 1 THEN "dryrun" ELSE "publish"
      BY <1>8 DEF Publish
    <2>2. toPublish \in {PublishOrder, AfterDenied, AfterAuth, AfterEmergency}
      BY <1>8 DEF Publish, PublishInv
    <2>3. s \in AclCounters
      BY <2>2, PublishWalk DEF AclCounters, AclSeries
    <2>4. \A c \in Series : counters'[c] = IF c = s THEN total[s] ELSE counters[c]
      BY <2>1, <2>3, SeriesFacts DEF TypeInv, TypeOK
    <2> HIDE DEF s
    <2>5. \A c \in AclSeries : counters'[c] <= total'[c]
      BY <1>0, <2>1, <2>3, <2>4, SeriesFacts DEF PublishInv
    <2>6. CASE toPublish = PublishOrder
      <3>1. s = "denied" /\ toPublish' = AfterDenied /\ pc' = "publish"
        BY <2>1, <2>6, PublishWalk DEF s
      <3>2. AfterDenied \notin {AfterAuth, AfterEmergency}
        BY PublishWalk
      <3>3. counters'["denied"] = total["denied"]
            /\ counters'["auth"] = counters["auth"]
            /\ counters'["emergency"] = counters["emergency"]
        BY <2>4, <3>1, SeriesFacts
      <3>4. EmergencyAccounted'
        BY <1>0, <3>3, SeriesFacts DEF PublishInv, EmergencyAccounted, Absent
      <3>5. QED
        BY <2>1, <2>5, <3>1, <3>2, <3>3, <3>4 DEF PublishInv
    <2>7. CASE toPublish = AfterDenied
      <3>1. s = "auth" /\ toPublish' = AfterAuth /\ pc' = "publish"
        BY <2>1, <2>7, PublishWalk DEF s
      <3>2. counters'["denied"] = total["denied"]
            /\ counters'["auth"] = total["auth"]
            /\ counters'["emergency"] = counters["emergency"]
        BY <2>4, <2>7, <3>1, SeriesFacts DEF PublishInv
      <3>3. EmergencyAccounted'
        BY <1>0, <3>2, SeriesFacts DEF PublishInv, EmergencyAccounted, Absent
      <3>4. QED
        BY <2>1, <2>5, <3>1, <3>2, <3>3 DEF PublishInv
    <2>8. CASE toPublish = AfterAuth
      <3>1. s = "emergency" /\ toPublish' = AfterEmergency /\ pc' = "publish"
        BY <2>1, <2>8, PublishWalk DEF s
      <3>2. counters'["denied"] = total["denied"]
            /\ counters'["auth"] = total["auth"]
            /\ counters'["emergency"] = total["emergency"]
        BY <2>4, <2>8, <3>1, SeriesFacts DEF PublishInv
      <3>3. EmergencyAccounted'
        BY <1>0, <3>2, SeriesFacts DEF PublishInv, EmergencyAccounted, Absent
      <3>4. QED
        BY <2>1, <2>5, <3>1, <3>2, <3>3 DEF PublishInv
    <2>9. CASE toPublish = AfterEmergency
      <3>1. s = "default" /\ toPublish' = <<>>
        BY <2>1, <2>9, PublishWalk DEF s
      <3>2. \A c \in AclSeries : counters'[c] = counters[c]
        BY <2>4, <3>1, SeriesFacts
      <3>3. <<>> \notin {AfterDenied, AfterAuth, AfterEmergency}
        BY DEF AfterDenied, AfterAuth, AfterEmergency
      <3>4. EmergencyAccounted'
        BY <3>2, SeriesFacts DEF PublishInv, EmergencyAccounted
      <3>5. QED
        BY <2>1, <2>5, <3>1, <3>3, <3>4 DEF PublishInv
    <2>10. QED
      BY <2>2, <2>6, <2>7, <2>8, <2>9
  <1>9. CASE AclEvent \/ RedisRestart \/ PostureChange \/ BindingChange
    BY <1>9, OtherStepsKeepPublishInv
       DEF AclEvent, RedisRestart, PostureChange, BindingChange, exporterVars
  <1>10. CASE ExporterRestart
    <2>1. /\ toPublish' = <<>>
          /\ \A c \in AclSeries : total'[c] = 0 /\ counters'[c] = Absent
      BY <1>10, SeriesFacts DEF ExporterRestart, NoCounters
    <2>2. <<>> \notin {AfterDenied, AfterAuth, AfterEmergency}
      BY DEF AfterDenied, AfterAuth, AfterEmergency
    <2>3. \A c \in AclSeries : counters'[c] <= total'[c]
      BY <2>1 DEF Absent
    <2>4. total'["emergency"] <= total'["denied"] + total'["auth"]
      BY <2>1, SeriesFacts
    <2>5. EmergencyAccounted'
      BY <2>1, SeriesFacts DEF EmergencyAccounted
    <2>6. QED
      BY <2>1, <2>2, <2>3, <2>4, <2>5 DEF PublishInv
  <1>11. CASE UNCHANGED vars
    BY <1>11, OtherStepsKeepPublishInv DEF vars
  <1>12. QED
    BY <1>1, <1>2, <1>3, <1>4, <1>5, <1>6, <1>7, <1>8, <1>9, <1>10, <1>11
       DEF Next, PollStep, Environment

LEMMA InitPublishInv == Init => PublishInv
  <1> SUFFICES ASSUME Init PROVE PublishInv
    OBVIOUS
  <1>1. /\ toPublish = <<>>
        /\ \A c \in AclSeries : total[c] = 0 /\ counters[c] = Absent
    BY SeriesFacts DEF Init, ProcessInit, NoCounters
  <1>2. <<>> \notin {AfterDenied, AfterAuth, AfterEmergency}
    BY DEF AfterDenied, AfterAuth, AfterEmergency
  <1>3. \A c \in AclSeries : counters[c] <= total[c]
    BY <1>1 DEF Absent
  <1>4. total["emergency"] <= total["denied"] + total["auth"]
    BY <1>1, SeriesFacts
  <1>5. EmergencyAccounted
    BY <1>1, SeriesFacts DEF EmergencyAccounted
  <1>6. QED
    BY <1>1, <1>2, <1>3, <1>4, <1>5 DEF PublishInv

\* A scrape that lands between two writes of the publication loop never shows
\* an emergency use that is not also a denial or an authentication failure.
THEOREM EmergencyIsAccounted == Spec => []EmergencyAccounted
  <1>1. PublishInv => EmergencyAccounted
    BY DEF PublishInv
  <1>2. QED
    BY <1>1, InitPublishInv, StepPublishInv, TypeInvariance, PTL DEF Spec

-----------------------------------------------------------------------------
(* The counters never drop, and binding events are real. A scan looks at   *)
(* every key at a moment of its own, so what it counts is bounded by what   *)
(* it may still count: the members read that it did not know, and those of  *)
(* the server that it has missed, or will find and does not know.           *)

Scanning == pc \in {"scan", "members"}

\* The scan has looked at the set of b, found nothing or read it, and will not
\* look again.
Passed(b) == Scanning /\ b[1] \notin unscanned /\ b[1] \notin listed

\* The members that this scan or a later one may count.
Pending ==
  {b \in Bindings :
     \/ b \in current /\ bootBind /\ b \notin known
     \/ b \notin current /\ b \in bindings /\ (Passed(b) \/ (bootBind /\ b \notin known))}

BindInv ==
  /\ counters["binding"] <= churn
  /\ ~bootBind => churn = 0
  /\ ~Scanning => current = {}
  /\ pc = "members" => unscanned = {}
  /\ ~ScanTruncates /\ (bootBind \/ Scanning) => churn + Cardinality(Pending) <= added

LEMMA FinitePending == IsFiniteSet(Pending) /\ Cardinality(Pending) \in Nat
  BY FiniteBindings DEF Pending

LEMMA FinitePendingNext == IsFiniteSet(Pending') /\ Cardinality(Pending') \in Nat
  <1>1. Pending' \in SUBSET Bindings
    BY DEF Pending
  <1>2. QED
    BY <1>1, FiniteBindings

\* Steps after which the scans may count nothing but what they could before.
LEMMA PendingShrinks ==
  ASSUME TypeInv, TypeInv', BindInv, Pending' \subseteq Pending, churn' = churn, added' = added,
         bootBind' \/ Scanning' => bootBind \/ Scanning
  PROVE  ~ScanTruncates /\ (bootBind' \/ Scanning') => churn' + Cardinality(Pending') <= added'
  <1>1. Cardinality(Pending') <= Cardinality(Pending)
    BY FinitePending, FS_Subset
  <1>2. churn \in Nat /\ added \in Nat
    BY DEF TypeInv, TypeOK
  <1>3. QED
    BY <1>1, <1>2, FinitePending, FinitePendingNext DEF BindInv

\* Steps that create the members M.
LEMMA PendingGrows ==
  ASSUME TypeInv, BindInv, NEW M \in SUBSET Bindings, Pending' \subseteq Pending \cup M,
         churn' = churn, added' = added + Cardinality(M),
         bootBind' \/ Scanning' => bootBind \/ Scanning
  PROVE  ~ScanTruncates /\ (bootBind' \/ Scanning') => churn' + Cardinality(Pending') <= added'
  <1>1. IsFiniteSet(M) /\ Cardinality(M) \in Nat
    BY FiniteBindings
  <1>2. /\ IsFiniteSet(Pending \cup M)
        /\ Cardinality(Pending \cup M) =
             Cardinality(Pending) + Cardinality(M) - Cardinality(Pending \cap M)
    BY <1>1, FinitePending, FS_Union
  <1>3. Cardinality(Pending \cap M) \in Nat
    <2>1. Pending \cap M \in SUBSET Bindings
      OBVIOUS
    <2>2. QED
      BY <2>1, FiniteBindings
  <1>4. Cardinality(Pending') <= Cardinality(Pending \cup M)
    BY <1>2, FS_Subset
  <1>5. churn \in Nat /\ added \in Nat
    BY DEF TypeInv, TypeOK
  <1>6. QED
    BY <1>1, <1>2, <1>3, <1>4, <1>5, FinitePending, FinitePendingNext DEF BindInv

\* The actions that leave the bindings and what the exporter knows of them alone.
LEMMA OtherStepsKeepBindInv ==
  ASSUME TypeInv, TypeInv', BindInv, UNCHANGED <<bindVars, scanVars, bindings, added>>,
         counters'["binding"] = counters["binding"],
         pc' = pc \/ (~Scanning /\ ~Scanning')
  PROVE  BindInv'
  <1> USE DEF bindVars, scanVars
  <1>1. Scanning' <=> Scanning
    BY DEF Scanning
  <1>2. \A b : Passed(b)' <=> Passed(b)
    BY <1>1 DEF Passed
  <1>3. Pending' = Pending
    BY <1>2 DEF Pending
  <1>4. pc' = "members" => pc = "members"
    BY DEF Scanning
  <1>5. ~ScanTruncates /\ (bootBind' \/ Scanning') => churn' + Cardinality(Pending') <= added'
    BY <1>1, <1>3, PendingShrinks
  <1>6. QED
    BY <1>1, <1>4, <1>5 DEF BindInv

\* A poll that fails forgets what it has scanned.
LEMMA DroppedScanKeepsBindInv ==
  ASSUME TypeInv, TypeInv', BindInv, DropPoll,
         UNCHANGED <<bindVars, bindings, added, counters>>
  PROVE  BindInv'
  <1> USE DEF bindVars
  <1>1. pc' = "sleep" /\ ~Scanning' /\ current' = {}
    BY DEF DropPoll, Scanning
  <1>2. bootBind => Pending' \subseteq Pending
    BY <1>1 DEF Pending, Passed
  <1>3. ~ScanTruncates /\ (bootBind' \/ Scanning') => churn' + Cardinality(Pending') <= added'
    BY <1>1, <1>2, PendingShrinks
  <1>4. QED
    BY <1>1, <1>3 DEF BindInv

\* A scan begins: the first complete one counts nothing that was there before.
LEMMA ConnectKeepsBindInv ==
  ASSUME TypeInv, TypeInv', BindInv, Connect
  PROVE  BindInv'
  <1>1. /\ pc = "sleep" /\ pc' = "scan" /\ unscanned' = Keys
        /\ UNCHANGED <<bindings, listed, current, bootBind, known, churn, counters>>
        /\ added' = IF bootBind THEN added ELSE 0
    BY DEF Connect, serverVars, bindVars, metricVars
  <1>2. ~Scanning /\ Scanning' /\ current = {} /\ pc' # "members"
    BY <1>1 DEF Scanning, BindInv
  <1>3. \A b \in Bindings : ~Passed(b)'
    BY <1>1 DEF Passed, Keys
  <1>4. CASE bootBind
    <2>1. Pending' \subseteq Pending
      BY <1>1, <1>2, <1>3, <1>4 DEF Pending
    <2>2. ~ScanTruncates /\ (bootBind' \/ Scanning') => churn' + Cardinality(Pending') <= added'
      BY <1>1, <1>4, <2>1, PendingShrinks
    <2>3. QED
      BY <1>1, <1>2, <2>2 DEF BindInv
  <1>5. CASE ~bootBind
    <2>1. Pending' = {}
      BY <1>1, <1>2, <1>3, <1>5 DEF Pending
    <2>2. Cardinality(Pending') = 0
      BY <2>1, FS_EmptySet
    <2>3. churn' = 0 /\ added' = 0
      BY <1>1, <1>5 DEF BindInv
    <2>4. QED
      BY <1>1, <1>2, <2>2, <2>3 DEF BindInv
  <1>6. QED
    BY <1>4, <1>5

LEMMA ScanKeepsBindInv ==
  ASSUME TypeInv, TypeInv', BindInv, ScanKey \/ EndScan \/ ReadMembers
  PROVE  BindInv'
  <1>1. /\ UNCHANGED <<bindings, bootBind, known, churn, counters, added>>
        /\ Scanning /\ Scanning'
    BY DEF ScanKey, EndScan, ReadMembers, serverVars, bindVars, metricVars, historyVars,
           Scanning
  <1>2. ~ScanTruncates => Pending' \subseteq Pending
    <2>1. CASE ScanKey
      <3>1. PICK k \in Keys :
              /\ unscanned' = unscanned \ {k}
              /\ listed' = IF MembersOf(k) # {} THEN listed \cup {k} ELSE listed
        BY <2>1 DEF ScanKey
      <3>2. current' = current
        BY <2>1 DEF ScanKey
      <3>3. ASSUME NEW b \in bindings, Passed(b)'
            PROVE  Passed(b)
        <4>1. b[1] = k => k \in listed'
          BY <3>1 DEF MembersOf
        <4>2. b[1] # k
          BY <3>3, <4>1 DEF Passed
        <4>3. QED
          BY <1>1, <3>1, <3>3, <4>2 DEF Passed
      <3>4. QED
        BY <1>1, <3>2, <3>3 DEF Pending
    <2>2. CASE EndScan
      <3>1. ~ScanTruncates => UNCHANGED <<unscanned, listed, current>>
        BY <2>2 DEF EndScan
      <3>2. ~ScanTruncates => \A b : Passed(b)' <=> Passed(b)
        BY <1>1, <3>1 DEF Passed
      <3>3. QED
        BY <1>1, <3>1, <3>2 DEF Pending
    <2>3. CASE ReadMembers
      <3>1. PICK k \in listed : listed' = listed \ {k} /\ current' = current \cup MembersOf(k)
        BY <2>3 DEF ReadMembers
      <3>2. unscanned' = unscanned
        BY <2>3 DEF ReadMembers
      <3>3. ASSUME NEW b \in Pending'
            PROVE  b \in Pending
        <4>1. CASE b \in bindings /\ b[1] = k
          <5>1. b \in current'
            BY <3>1, <4>1 DEF MembersOf
          <5>2. bootBind /\ b \notin known /\ b \in Bindings
            BY <1>1, <5>1 DEF Pending
          <5>3. QED
            BY <4>1, <5>2 DEF Pending
        <4>2. CASE ~(b \in bindings /\ b[1] = k)
          <5>1. b \in current' <=> b \in current
            BY <3>1, <4>2 DEF MembersOf
          <5>2. b \in bindings /\ Passed(b)' => Passed(b)
            BY <1>1, <3>1, <3>2, <4>2 DEF Passed
          <5>3. QED
            BY <1>1, <5>1, <5>2 DEF Pending
        <4>3. QED
          BY <4>1, <4>2
      <3>4. QED
        BY <3>3
    <2>4. QED
      BY <2>1, <2>2, <2>3
  <1>3. ~ScanTruncates /\ (bootBind' \/ Scanning') => churn' + Cardinality(Pending') <= added'
    BY <1>1, <1>2, PendingShrinks
  <1>4. pc' = "members" => unscanned' = {}
    BY DEF ScanKey, EndScan, ReadMembers, BindInv
  <1>5. QED
    BY <1>1, <1>3, <1>4 DEF BindInv

\* What is counted was pending, and what is pending after it was so before.
LEMMA CollectKeepsBindInv ==
  ASSUME TypeInv, TypeInv', BindInv, CollectBindings
  PROVE  BindInv'
  <1> DEFINE counted == Additions(current)
  <1>1. /\ pc = "members" /\ listed = {} /\ pc' = "acllog"
        /\ churn' = churn + Cardinality(counted) /\ known' = current /\ current' = {}
        /\ bootBind' = TRUE /\ UNCHANGED <<bindings, added>>
        /\ counters' = [counters EXCEPT !["binding"] = churn']
    BY DEF CollectBindings, serverVars, historyVars
  <1>2. Scanning /\ ~Scanning' /\ pc' # "members"
    BY <1>1 DEF Scanning
  <1>3. counters'["binding"] = churn' /\ churn' \in Nat /\ churn \in Nat /\ added \in Nat
    <2>1. counters \in [Series -> Nat \cup {Absent}] /\ "binding" \in Series
      BY DEF TypeInv, TypeOK, Series
    <2>2. QED
      BY <1>1, <2>1 DEF TypeInv, TypeOK
  <1>4. counted \in SUBSET Pending
    BY DEF Additions, Pending, TypeInv, TypeOK
  <1>5. \A b \in Bindings : Passed(b)
    BY <1>1, <1>2 DEF Passed, BindInv
  <1>6. Pending' \in SUBSET Pending
    <2>1. ASSUME NEW b \in Pending'
          PROVE  b \in Pending
      <3>1. b \in Bindings /\ b \notin current /\ b \in bindings
        BY <1>1, <1>2 DEF Pending, Passed
      <3>2. QED
        BY <1>5, <3>1 DEF Pending
    <2>2. QED
      BY <2>1
  <1>7. counted \cap Pending' = {}
    BY <1>1, <1>2 DEF Additions, Pending, Passed
  <1> HIDE DEF counted
  <1>8. Cardinality(counted) + Cardinality(Pending') <= Cardinality(Pending)
    BY <1>4, <1>6, <1>7, FinitePending, PartsCounted
  <1>9. Cardinality(counted) \in Nat
    BY <1>4, FinitePending, FS_Subset, FS_CardinalityType
  <1>10. ~ScanTruncates => churn' + Cardinality(Pending') <= added'
    BY <1>1, <1>2, <1>3, <1>8, <1>9, FinitePending, FinitePendingNext DEF BindInv
  <1>11. counters'["binding"] <= churn'
    BY <1>3
  <1>12. QED
    BY <1>1, <1>2, <1>10, <1>11 DEF BindInv

LEMMA StepBindInv == TypeInv /\ BindInv /\ [Next]_vars => BindInv'
  <1> SUFFICES ASSUME TypeInv, BindInv, [Next]_vars PROVE BindInv'
    OBVIOUS
  <1> USE DEF serverVars, pollVars, aclVars, defaultVars,
              statusVars, metricVars, historyVars
  <1>0. /\ counters \in [Series -> Nat \cup {Absent}] /\ "binding" \in Series
        /\ bindings \in SUBSET Bindings
        /\ TypeInv'
    BY StepTypeInv DEF TypeInv, TypeOK, ServerTypeOK, Series
  <1>1. CASE RefusedNopass \/ Finish
    BY <1>0, <1>1, OtherStepsKeepBindInv DEF RefusedNopass, Finish, Scanning
  <1>2. CASE AdoptAclLog \/ ReadAclLog \/ CountEntry \/ StartPublish
    BY <1>0, <1>2, OtherStepsKeepBindInv
       DEF AdoptAclLog, ReadAclLog, CountEntry, StartPublish, Scanning
  <1>3. CASE NoteNopass \/ Probe \/ ProbeError
    <2>1. \E n : counters' = [counters EXCEPT !["default"] = n]
      BY <1>3 DEF NoteNopass, Probe, ProbeError, RecordProbe
    <2>2. counters'["binding"] = counters["binding"]
      BY <1>0, <2>1
    <2>3. UNCHANGED <<bindVars, scanVars, bindings, added>> /\ ~Scanning /\ ~Scanning'
      BY <1>3 DEF NoteNopass, Probe, ProbeError, RecordProbe, Scanning
    <2>4. QED
      BY <1>0, <2>2, <2>3, OtherStepsKeepBindInv
  <1>4. CASE Publish
    <2>1. Head(toPublish) \in AclCounters
      BY <1>4, HeadTailProperties DEF Publish, TypeInv, TypeOK
    <2>2. "binding" \notin AclCounters
      BY DEF AclCounters, AclSeries
    <2>3. counters'["binding"] = counters["binding"]
      BY <1>0, <1>4, <2>1, <2>2 DEF Publish
    <2>4. QED
      BY <1>0, <1>4, <2>3, OtherStepsKeepBindInv DEF Publish, Scanning
  <1>5. CASE PollError \/ PollAuthError
    BY <1>0, <1>5, DroppedScanKeepsBindInv DEF PollError, PollAuthError
  <1>6. CASE Connect
    BY <1>0, <1>6, ConnectKeepsBindInv
  <1>7. CASE ScanKey \/ EndScan \/ ReadMembers
    BY <1>0, <1>7, ScanKeepsBindInv
  <1>8. CASE CollectBindings
    BY <1>0, <1>8, CollectKeepsBindInv
  <1>9. CASE AclEvent \/ PostureChange
    BY <1>0, <1>9, OtherStepsKeepBindInv
       DEF AclEvent, LogEvent, GroupEvent, NewEvent, PostureChange, SetPosture, exporterVars
  <1>10. CASE RedisRestart \/ BindingChange
    <2>1. UNCHANGED <<pc, scanVars, bindVars, counters>>
      BY <1>10 DEF RedisRestart, BindingChange, exporterVars
    <2> DEFINE M == bindings' \ bindings
    <2>2. M \in SUBSET Bindings
      BY <1>0 DEF TypeInv, TypeOK, ServerTypeOK
    <2>3. added' = added + Cardinality(M)
      <3>1. CASE RedisRestart
        BY <3>1 DEF RedisRestart
      <3>2. CASE BindingChange
        <4>1. PICK b \in Bindings : \/ AddBinding(b) /\ added' = added + 1
                                    \/ RemoveBinding(b) /\ UNCHANGED added
          BY <3>2 DEF BindingChange
        <4>2. CASE AddBinding(b) /\ added' = added + 1
          <5>1. M = {b}
            BY <4>2 DEF AddBinding
          <5>2. QED
            BY <4>2, <5>1, FS_Singleton
        <4>3. CASE RemoveBinding(b) /\ UNCHANGED added
          <5>1. M = {}
            BY <4>3 DEF RemoveBinding
          <5>2. Cardinality(M) = 0 /\ added \in Nat
            BY <5>1, FS_EmptySet DEF TypeInv, TypeOK
          <5>3. QED
            BY <4>3, <5>2
        <4>4. QED
          BY <4>1, <4>2, <4>3
      <3>3. QED
        BY <1>10, <3>1, <3>2
    <2>4. Scanning' <=> Scanning
      BY <2>1 DEF Scanning
    <2>5. \A b : Passed(b)' <=> Passed(b)
      BY <2>1, <2>4 DEF Passed, scanVars
    <2>6. Pending' \subseteq Pending \cup M
      BY <2>1, <2>5 DEF Pending, scanVars, bindVars
    <2> HIDE DEF M
    <2>7. ~ScanTruncates /\ (bootBind' \/ Scanning') => churn' + Cardinality(Pending') <= added'
      BY <2>1, <2>2, <2>3, <2>4, <2>6, PendingGrows DEF bindVars
    <2>8. QED
      BY <2>1, <2>4, <2>7 DEF BindInv, scanVars, bindVars
  <1>11. CASE ExporterRestart
    <2>1. /\ counters'["binding"] = Absent /\ churn' = 0 /\ ~bootBind'
          /\ pc' = "sleep" /\ current' = {}
      BY <1>0, <1>11 DEF ExporterRestart, DropPoll, NoCounters
    <2>2. QED
      BY <2>1 DEF BindInv, Scanning, Absent
  <1>12. CASE UNCHANGED vars
    BY <1>0, <1>12, OtherStepsKeepBindInv DEF vars
  <1>13. QED
    BY <1>1, <1>2, <1>3, <1>4, <1>5, <1>6, <1>7, <1>8, <1>9, <1>10, <1>11, <1>12
       DEF Next, PollStep, Environment

LEMMA InitBindInv == Init => BindInv
  <1>1. "binding" \in Series
    BY DEF Series
  <1>2. QED
    BY <1>1 DEF Init, ProcessInit, NoCounters, BindInv, Scanning, Absent

\* No complete scan takes a binding for a new one that was there when the poll
\* of the first complete scan began, whatever is created and deleted between
\* the pages of a SCAN and the SMEMBERS that follow, over any number of sets.
THEOREM BindingEventsAreReal == Spec => []BindingEventsReal
  <1>1. TypeInv /\ BindInv /\ ~ScanTruncates => churn <= added
    <2> SUFFICES ASSUME TypeInv, BindInv, ~ScanTruncates PROVE churn <= added
      OBVIOUS
    <2>1. churn \in Nat /\ added \in Nat
      BY DEF TypeInv, TypeOK
    <2>2. QED
      BY <2>1, FinitePending DEF BindInv
  <1>2. TypeInv /\ BindInv => BindingEventsReal
    BY <1>1 DEF BindingEventsReal
  <1>3. QED
    BY <1>2, InitBindInv, StepBindInv, TypeInvariance, PTL DEF Spec

LEMMA StepNeverDrops ==
  TypeInv /\ PublishInv /\ BindInv /\ [Next]_vars =>
    [\A c \in AclSeries \cup {"binding"} : NeverDrops(c)]_vars
  <1> SUFFICES ASSUME TypeInv, PublishInv, BindInv, [Next]_vars,
                      NEW c \in AclSeries \cup {"binding"}
               PROVE  UNCHANGED vars \/ NeverDrops(c)
    OBVIOUS
  <1> USE DEF serverVars, pollVars, scanVars, aclVars, bindVars, defaultVars,
              statusVars, metricVars, historyVars
  <1>0. /\ counters \in [Series -> Nat \cup {Absent}]
        /\ c \in Series /\ c # "default"
    BY SeriesFacts DEF TypeInv, TypeOK, Series
  <1>1. counters[c] \in Int
    BY <1>0 DEF Absent
  <1>2. CASE counters'[c] = counters[c]
    BY <1>1, <1>2 DEF NeverDrops
  <1>3. CASE Connect \/ RefusedNopass \/ PollError \/ PollAuthError \/ Finish
    BY <1>2, <1>3 DEF Connect, RefusedNopass, PollError, PollAuthError, Finish
  <1>11. CASE ScanKey \/ EndScan \/ ReadMembers
    BY <1>2, <1>11 DEF ScanKey, EndScan, ReadMembers
  <1>4. CASE AdoptAclLog \/ ReadAclLog \/ CountEntry \/ StartPublish
    BY <1>2, <1>4 DEF AdoptAclLog, ReadAclLog, CountEntry, StartPublish
  <1>5. CASE NoteNopass \/ Probe \/ ProbeError
    <2>1. \E n : counters' = [counters EXCEPT !["default"] = n]
      BY <1>5 DEF NoteNopass, Probe, ProbeError, RecordProbe
    <2>2. counters'[c] = counters[c]
      BY <1>0, <2>1
    <2>3. QED
      BY <1>2, <2>2
  <1>6. CASE CollectBindings
    <2>1. churn' = churn + Cardinality(Additions(current))
      BY <1>6 DEF CollectBindings
    <2>2. counters' = [counters EXCEPT !["binding"] = churn']
      BY <1>6 DEF CollectBindings
    <2>3. Cardinality(Additions(current)) \in Nat
      <3>1. Additions(current) \in SUBSET Bindings
        BY DEF Additions, TypeInv, TypeOK
      <3>2. QED
        BY <3>1, FiniteBindings
    <2>4. counters["binding"] <= churn' /\ churn' \in Nat
      <3>1. churn \in Nat /\ counters["binding"] \in Int
        BY <1>0 DEF TypeInv, TypeOK, Series, Absent
      <3>2. counters["binding"] <= churn
        BY DEF BindInv
      <3>3. QED
        BY <2>1, <2>3, <3>1, <3>2
    <2>5. CASE c = "binding"
      BY <1>0, <1>1, <2>2, <2>4, <2>5 DEF NeverDrops
    <2>6. CASE c # "binding"
      BY <1>0, <1>2, <2>2, <2>6
    <2>7. QED
      BY <2>5, <2>6
  <1>7. CASE Publish
    <2> DEFINE s == Head(toPublish)
    <2>1. counters' = [counters EXCEPT ![s] = total[s]]
      BY <1>7 DEF Publish
    <2> HIDE DEF s
    <2>2. CASE c = s /\ c \in AclSeries
      <3>1. counters'[c] = total[c]
        BY <1>0, <2>1, <2>2
      <3>2. counters[c] <= total[c] /\ total[c] \in Nat
        BY <2>2, SeriesFacts DEF PublishInv, TypeInv, TypeOK
      <3>3. QED
        BY <1>1, <3>1, <3>2 DEF NeverDrops
    <2>3. CASE c # s
      BY <1>0, <1>2, <2>1, <2>3
    <2>4. s # "binding"
      <3>1. s \in AclCounters
        BY <1>7, HeadTailProperties DEF Publish, TypeInv, TypeOK, s
      <3>2. QED
        BY <3>1 DEF AclCounters, AclSeries
    <2>5. QED
      BY <2>2, <2>3, <2>4
  <1>8. CASE AclEvent \/ RedisRestart \/ PostureChange \/ BindingChange
    BY <1>2, <1>8 DEF AclEvent, RedisRestart, PostureChange, BindingChange, exporterVars
  <1>9. CASE ExporterRestart
    BY <1>9 DEF NeverDrops
  <1>10. QED
    BY <1>3, <1>4, <1>5, <1>6, <1>7, <1>8, <1>9, <1>11 DEF Next, PollStep, Environment

\* Whatever Redis does (a restart, a shorter log, a truncated scan), no ACL or
\* binding counter of one exporter process goes down or disappears.
THEOREM CountersAreMonotone == Spec => CountersNeverDrop
  BY InitPublishInv, InitBindInv, TypeInvariance, StepPublishInv, StepBindInv,
     StepNeverDrops, PTL DEF Spec, CountersNeverDrop
=============================================================================
