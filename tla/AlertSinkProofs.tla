-------------------------- MODULE AlertSinkProofs --------------------------
(***************************************************************************)
(* Proofs about AlertSink, for every value of its constants.               *)
(***************************************************************************)
EXTENDS AlertSink, SequenceTheorems, FiniteSetTheorems, TLAPS

-----------------------------------------------------------------------------
(* The log as a sequence.                                                  *)

LEMMA SingletonSeq ==
  ASSUME NEW S, NEW x \in S
  PROVE  <<x>> \in Seq(S)
  OBVIOUS

LEMMA SuffixSeq ==
  ASSUME NEW S, NEW s \in Seq(S), NEW n \in Nat
  PROVE  /\ SubSeq(s, n + 1, Len(s)) \in Seq(S)
         /\ Len(SubSeq(s, n + 1, Len(s))) = IF n < Len(s) THEN Len(s) - n ELSE 0
  <1>1. Len(s) \in Nat
    BY LenProperties
  <1>2. \A i \in (n + 1) .. Len(s) : s[i] \in S
    BY <1>1, ElementOfSeq
  <1>3. QED
    BY <1>1, <1>2, SubSeqProperties

\* What writing t over the beginning of s gives.
LEMMA Overwritten ==
  ASSUME NEW S, NEW s \in Seq(S), NEW t \in Seq(S)
  PROVE  /\ t \o SubSeq(s, Len(t) + 1, Len(s)) \in Seq(S)
         /\ Len(t \o SubSeq(s, Len(t) + 1, Len(s))) =
              IF Len(t) < Len(s) THEN Len(s) ELSE Len(t)
  <1>1. Len(s) \in Nat /\ Len(t) \in Nat
    BY LenProperties
  <1>2. /\ SubSeq(s, Len(t) + 1, Len(s)) \in Seq(S)
        /\ Len(SubSeq(s, Len(t) + 1, Len(s))) =
             IF Len(t) < Len(s) THEN Len(s) - Len(t) ELSE 0
    BY <1>1, SuffixSeq
  <1>3. QED
    BY <1>1, <1>2, ConcatProperties

LEMMA RestSeq ==
  ASSUME file \in Seq(Records), NEW n \in Nat, NEW cut \in BOOLEAN
  PROVE  /\ Rest(n, cut) \in Seq(Records)
         /\ Len(Rest(n, cut)) = IF n < Len(file) THEN Len(file) - n ELSE 0
  <1>1. Len(file) \in Nat
    BY LenProperties
  <1>2. CASE cut /\ n < Len(file)
    <2>1. /\ SubSeq(file, n + 2, Len(file)) \in Seq(Records)
          /\ Len(SubSeq(file, n + 2, Len(file))) = Len(file) - n - 1
      <3>1. \A i \in (n + 2) .. Len(file) : file[i] \in Records
        BY <1>1, ElementOfSeq
      <3>2. QED
        BY <1>1, <1>2, <3>1, SubSeqProperties
    <2>2. <<Fragment>> \in Seq(Records)
      BY SingletonSeq DEF Records
    <2>e. Len(<<Fragment>>) = 1
      OBVIOUS
    <2>3. /\ <<Fragment>> \o SubSeq(file, n + 2, Len(file)) \in Seq(Records)
          /\ Len(<<Fragment>> \o SubSeq(file, n + 2, Len(file))) = 1 + (Len(file) - n - 1)
      BY <2>1, <2>2, <2>e, ConcatProperties
    <2>4. QED
      BY <1>1, <1>2, <2>3 DEF Rest
  <1>3. CASE ~(cut /\ n < Len(file))
    BY <1>3, SuffixSeq DEF Rest
  <1>4. QED
    BY <1>2, <1>3

LEMMA HalfFits ==
  /\ Half \in Nat
  /\ Half <= MaxRecords
  /\ Half + Cardinality(Handlers) - 1 <= MaxRecords
  <1>1. Cardinality(Handlers) \in Nat /\ MaxRecords \in Nat \ {0}
    BY SinkAssumption, FS_CardinalityType
  <1>2. QED
    BY <1>1, SinkAssumption, Z3 DEF Half

-----------------------------------------------------------------------------
(* Type correctness. The deliveries that are acknowledged are indeed        *)
(* deliveries because a thread that runs serves one, and not the record of  *)
(* an earlier life.                                                         *)

TypeInv ==
  /\ TypeOK
  /\ \A h \in Handlers : pc[h] # "idle" => item[h] \in Deliveries

LEMMA TypeInit == Init => TypeInv
  <1> SUFFICES ASSUME Init PROVE TypeInv
    OBVIOUS
  <1>1. <<>> \in Seq(Records)
    BY EmptySeq
  <1>2. file \in Seq(Records)
    <2>1. PICK n \in 0 .. MaxRecords + 1 : file = [i \in 1 .. n |-> Old]
      BY DEF Init
    <2>2. n \in Nat
      BY SinkAssumption
    <2>3. QED
      BY <2>1, <2>2 DEF Records
  <1>3. overlap \in BOOLEAN /\ collision \in BOOLEAN /\ ioError \in BOOLEAN
    BY DEF Init
  <1>4. failures \in 0 .. MaxFailures
    BY SinkAssumption DEF Init
  <1>5. QED
    BY <1>1, <1>2, <1>3, <1>4 DEF Init, TypeInv, TypeOK, Records

LEMMA TypeStep == TypeInv /\ [Next]_vars => TypeInv'
  <1> SUFFICES ASSUME TypeInv, [Next]_vars PROVE TypeInv'
    OBVIOUS
  <1> USE DEF TypeOK, TypeInv
  <1>e. <<>> \in Seq(Records)
    BY EmptySeq
  <1>l. Len(file) \in Nat /\ \A i \in 1 .. Len(file) : file[i] \in Records
    BY LenProperties, ElementOfSeq
  <1>f. Failure => failures' \in 0 .. MaxFailures
    BY SinkAssumption DEF Failure
  <1>1. ASSUME NEW h \in Handlers, NEW d \in Deliveries, Post(h, d) PROVE TypeInv'
    BY <1>1 DEF Post, Goto, Records
  <1>2. ASSUME NEW h \in Handlers, CheckSize(h) PROVE TypeInv'
    BY <1>2 DEF CheckSize, Goto
  <1>3. ASSUME NEW h \in Handlers, SeekTail(h) PROVE TypeInv'
    <2>1. Len(file) - Half \in Nat
      BY <1>3, <1>l, HalfFits DEF SeekTail
    <2>2. aged' \subseteq Records
      BY <1>3, <1>l, <2>1, HalfFits DEF SeekTail
    <2>3. QED
      BY <1>3, <2>1, <2>2 DEF SeekTail, Goto
  <1>4. ASSUME NEW h \in Handlers, SeekFails(h) PROVE TypeInv'
    BY <1>4 DEF SeekFails, Goto
  <1>5. ASSUME NEW h \in Handlers, ReadTail(h) PROVE TypeInv'
    <2>1. PICK cut \in BOOLEAN :
            /\ tail' = [tail EXCEPT ![h] = Rest(offset[h], cut)]
            /\ aged' = IF cut THEN aged \cup {file[i] : i \in {offset[h] + 1} \cap DOMAIN file}
                       ELSE aged
      BY <1>5 DEF ReadTail
    <2>2. Rest(offset[h], cut) \in Seq(Records)
      BY RestSeq
    <2>3. aged' \subseteq Records
      BY <1>l, <2>1, LenProperties
    <2>4. tail' \in [Handlers -> Seq(Records)]
      BY <2>1, <2>2
    <2>5. QED
      BY <1>5, <2>3, <2>4 DEF ReadTail, Goto
  <1>6. ASSUME NEW h \in Handlers, Truncate(h) PROVE TypeInv'
    <2>1. overlap' \in BOOLEAN /\ collision' \in BOOLEAN
      BY <1>6 DEF Truncate
    <2>2. QED
      BY <1>6, <1>e, <2>1 DEF Truncate, Goto
  <1>7. ASSUME NEW h \in Handlers, WriteTail(h) PROVE TypeInv'
    <2>1. file' \in Seq(Records)
      BY <1>7, Overwritten DEF WriteTail
    <2>2. QED
      BY <1>7, <1>e, <2>1 DEF WriteTail, Goto
  <1>8. ASSUME NEW h \in Handlers, RetentionFails(h) PROVE TypeInv'
    <2>1. overlap' \in BOOLEAN
      BY <1>8 DEF RetentionFails
    <2>2. ioError' \in BOOLEAN
      BY <1>8 DEF RetentionFails
    <2>3. QED
      BY <1>8, <1>e, <1>f, <2>1, <2>2 DEF RetentionFails, Retaining, Goto
  <1>9. ASSUME NEW h \in Handlers, AppendLine(h) PROVE TypeInv'
    <2>1. overlap' \in BOOLEAN
      BY <1>9 DEF AppendLine
    <2>2. file' \in Seq(Records)
      BY <1>9, AppendProperties DEF AppendLine
    <2>3. appended' \in [Deliveries -> Nat]
      BY <1>9 DEF AppendLine
    <2>4. QED
      BY <1>9, <2>1, <2>2, <2>3 DEF AppendLine, Goto
  <1>10. ASSUME NEW h \in Handlers, StoreFails(h) PROVE TypeInv'
    BY <1>10, <1>f DEF StoreFails, Goto
  <1>11. ASSUME NEW h \in Handlers, Respond(h) PROVE TypeInv'
    BY <1>11 DEF Respond, Goto
  <1>12. ASSUME NEW h \in Handlers, GiveUp(h) PROVE TypeInv'
    BY <1>12, <1>f DEF GiveUp
  <1>13. CASE Restart
    <2>1. overlap' \in BOOLEAN
      BY <1>13 DEF Restart
    <2>2. QED
      BY <1>13, <1>e, <1>f, <2>1 DEF Restart, Records
  <1>14. CASE Done \/ UNCHANGED vars
    BY <1>14 DEF Done, vars
  <1>15. QED
    BY <1>1, <1>2, <1>3, <1>4, <1>5, <1>6, <1>7, <1>8, <1>9, <1>10, <1>11,
       <1>12, <1>13, <1>14 DEF Next, ThreadStep

\* The state of the sink and of its client is always well-formed.
THEOREM TypeCorrect == Spec => []TypeOK
  <1>1. Spec => []TypeInv
    BY TypeInit, TypeStep, PTL DEF Spec
  <1>2. TypeInv => TypeOK
    BY DEF TypeInv
  <1>3. QED
    BY <1>1, <1>2, PTL

-----------------------------------------------------------------------------
(* An acknowledged delivery was appended.                                  *)

AckInv ==
  /\ TypeInv
  /\ AckedMeansAppended
  /\ \A h \in Handlers : pc[h] = "respond" => appended[item[h]] > 0

LEMMA AckInit == Init => AckInv
  BY TypeInit DEF Init, AckInv, AckedMeansAppended

\* Only an append and an answer disturb it: every other action leaves appended
\* and acked alone and moves no thread to its answer.
LEMMA AckStep == AckInv /\ [Next]_vars => AckInv'
  <1> SUFFICES ASSUME AckInv, [Next]_vars PROVE AckInv'
    OBVIOUS
  <1>t. TypeInv /\ TypeInv'
    BY TypeStep DEF AckInv
  <1>a. /\ acked \subseteq Deliveries
        /\ appended \in [Deliveries -> Nat]
        /\ pc \in [Handlers -> {"idle", "check", "seek", "read", "truncate",
                                "write", "append", "respond"}]
        /\ item \in [Handlers -> Records]
    BY <1>t DEF TypeInv, TypeOK
  <1> USE DEF AckInv, AckedMeansAppended
  <1>1. ASSUME NEW h \in Handlers, NEW label, label # "respond", Goto(h, label),
               UNCHANGED <<acked, appended>>,
               \A g \in Handlers \ {h} : item'[g] = item[g]
        PROVE  AckInv'
    BY <1>1, <1>a, <1>t DEF Goto
  <1>2. ASSUME NEW h \in Handlers, NEW d \in Deliveries, Post(h, d) PROVE AckInv'
    BY <1>1, <1>2, <1>a DEF Post
  <1>3. ASSUME NEW h \in Handlers, CheckSize(h) PROVE AckInv'
    BY <1>1, <1>3 DEF CheckSize
  <1>4. ASSUME NEW h \in Handlers, SeekTail(h) \/ SeekFails(h) \/ ReadTail(h) PROVE AckInv'
    BY <1>1, <1>4 DEF SeekTail, SeekFails, ReadTail
  <1>5. ASSUME NEW h \in Handlers, Truncate(h) \/ WriteTail(h) \/ RetentionFails(h)
        PROVE AckInv'
    BY <1>1, <1>5 DEF Truncate, WriteTail, RetentionFails
  <1>6. ASSUME NEW h \in Handlers, AppendLine(h) PROVE AckInv'
    <2>1. item[h] \in Deliveries
      BY <1>6, <1>t DEF TypeInv, AppendLine
    <2>2. \A d \in Deliveries : appended'[d] \in Nat /\ appended'[d] >= appended[d]
      BY <1>6, <1>a DEF AppendLine
    <2>3. appended'[item[h]] > 0
      BY <1>6, <1>a, <2>1 DEF AppendLine
    <2>4. \A g \in Handlers : pc[g] = "respond" => item[g] \in Deliveries
      BY <1>t DEF TypeInv
    <2>5. acked' = acked /\ item' = item /\ \A g \in Handlers \ {h} : pc'[g] = pc[g]
      BY <1>6, <1>a DEF AppendLine, Goto
    <2>6. AckedMeansAppended'
      BY <1>a, <2>2, <2>5
    <2>7. \A g \in Handlers : pc'[g] = "respond" => appended'[item'[g]] > 0
      BY <1>a, <2>2, <2>3, <2>4, <2>5
    <2>8. QED
      BY <1>t, <2>6, <2>7
  <1>7. ASSUME NEW h \in Handlers, StoreFails(h) PROVE AckInv'
    BY <1>1, <1>7 DEF StoreFails
  <1>8. ASSUME NEW h \in Handlers, Respond(h) PROVE AckInv'
    <2>1. AckedMeansAppended'
      BY <1>8, <1>a DEF Respond
    <2>2. QED
      BY <1>8, <1>a, <1>t, <2>1 DEF Respond, Goto
  <1>9. ASSUME NEW h \in Handlers, GiveUp(h) PROVE AckInv'
    BY <1>9, <1>t DEF GiveUp
  <1>10. CASE Restart
    BY <1>10, <1>t DEF Restart
  <1>11. CASE Done \/ UNCHANGED vars
    BY <1>11, <1>t DEF Done, vars
  <1>12. QED
    BY <1>2, <1>3, <1>4, <1>5, <1>6, <1>7, <1>8, <1>9, <1>10, <1>11 DEF Next, ThreadStep

\* An answer of 200 is never given for a delivery that was not appended: the
\* errors do_POST lets escape end the thread before send_response.
THEOREM AckedWereAppended == Spec => []AckedMeansAppended
  <1>1. Spec => []AckInv
    BY AckInit, AckStep, PTL DEF Spec
  <1>2. AckInv => AckedMeansAppended
    BY DEF AckInv
  <1>3. QED
    BY <1>1, <1>2, PTL

-----------------------------------------------------------------------------
(* The size of the file. Every thread that has passed the size check will  *)
(* append, and may rewrite the file before: the bound counts the records   *)
(* of those threads as if they were there already. A thread that has found *)
(* the file too large keeps at most the newest half and what the others    *)
(* append before it reads, and that half leaves room for all of them.      *)

Appending == {h \in Handlers : pc[h] \in {"append", "write"}}

SizeInv ==
  /\ Len(file) + Cardinality(Appending) <= MaxRecords + Cardinality(Handlers)
  /\ \A h \in Handlers : pc[h] \in {"seek", "read"} => Len(file) > MaxRecords
  /\ \A h \in Handlers : pc[h] = "read" =>
       Len(file) - offset[h] + Cardinality(Appending) <= Half + Cardinality(Handlers) - 1
  /\ \A h \in Handlers : pc[h] \in {"truncate", "write"} =>
       Len(tail[h]) <= Half + Cardinality(Handlers) - 1

Undisturbed == ~ioError /\ ~collision

SizeIInv == TypeInv /\ (Undisturbed => SizeInv)

LEMMA AppendingBound ==
  /\ IsFiniteSet(Appending)
  /\ Cardinality(Appending) \in Nat
  /\ Cardinality(Appending) <= Cardinality(Handlers)
  /\ \A h \in Handlers \ Appending : Cardinality(Appending) <= Cardinality(Handlers) - 1
  <1>1. IsFiniteSet(Handlers) /\ Appending \in SUBSET Handlers
    BY SinkAssumption DEF Appending
  <1>2. Cardinality(Handlers) \in Nat
    BY <1>1, FS_CardinalityType
  <1>3. /\ IsFiniteSet(Appending) /\ Cardinality(Appending) \in Nat
        /\ Cardinality(Appending) <= Cardinality(Handlers)
        /\ Cardinality(Handlers) = Cardinality(Appending) => Handlers = Appending
    BY <1>1, FS_Subset, FS_CardinalityType
  <1>4. QED
    BY <1>2, <1>3

\* How a step of one thread changes the number of those that will append.
LEMMA AppendingStep ==
  ASSUME TypeInv, NEW h \in Handlers, NEW label, Goto(h, label)
  PROVE  /\ (pc[h] \in {"append", "write"} <=> label \in {"append", "write"})
              => Appending' = Appending
         /\ pc[h] = "append" /\ label \notin {"append", "write"}
              => Cardinality(Appending') = Cardinality(Appending) - 1
         /\ pc[h] \notin {"append", "write"} /\ label \in {"append", "write"}
              => Cardinality(Appending') = Cardinality(Appending) + 1
  <1>1. \A g \in Handlers : pc'[g] = IF g = h THEN label ELSE pc[g]
    BY DEF Goto, TypeInv, TypeOK
  <1>2. IsFiniteSet(Appending)
    BY AppendingBound
  <1>3. ASSUME pc[h] \in {"append", "write"} <=> label \in {"append", "write"}
        PROVE  Appending' = Appending
    BY <1>1, <1>3 DEF Appending
  <1>4. ASSUME pc[h] = "append", label \notin {"append", "write"}
        PROVE  Cardinality(Appending') = Cardinality(Appending) - 1
    <2>1. Appending' = Appending \ {h} /\ h \in Appending
      BY <1>1, <1>4 DEF Appending
    <2>2. QED
      BY <1>2, <2>1, FS_RemoveElement
  <1>5. ASSUME pc[h] \notin {"append", "write"}, label \in {"append", "write"}
        PROVE  Cardinality(Appending') = Cardinality(Appending) + 1
    <2>1. Appending' = Appending \cup {h} /\ h \notin Appending
      BY <1>1, <1>5 DEF Appending
    <2>2. QED
      BY <1>2, <2>1, FS_AddElement
  <1>6. QED
    BY <1>3, <1>4, <1>5

LEMMA SizeInit == Init => SizeIInv
  <1> SUFFICES ASSUME Init PROVE SizeInv
    BY TypeInit DEF SizeIInv
  <1>1. Cardinality(Handlers) \in Nat \ {0}
    BY SinkAssumption, FS_CardinalityType, FS_EmptySet
  <1>2. Cardinality(Appending) = 0
    <2>1. Appending = {}
      BY DEF Init, Appending
    <2>2. QED
      BY <2>1, FS_EmptySet
  <1>3. Len(file) \in Nat /\ Len(file) <= MaxRecords + 1
    <2>1. PICK n \in 0 .. MaxRecords + 1 : file = [i \in 1 .. n |-> Old]
      BY DEF Init
    <2>2. n \in Nat
      BY SinkAssumption
    <2>3. Len(file) = n
      BY <2>1, <2>2
    <2>4. QED
      BY <2>1, <2>2, <2>3, SinkAssumption
  <1>4. \A h \in Handlers : pc[h] = "idle"
    BY DEF Init
  <1>5. QED
    BY <1>1, <1>2, <1>3, <1>4, SinkAssumption DEF SizeInv

LEMMA SizeStep == SizeIInv /\ [Next]_vars => SizeIInv'
  <1> SUFFICES ASSUME SizeIInv, [Next]_vars, Undisturbed' PROVE SizeInv'
    BY TypeStep DEF SizeIInv
  <1>t. TypeInv /\ TypeInv'
    BY TypeStep DEF SizeIInv
  <1>a. /\ pc \in [Handlers -> {"idle", "check", "seek", "read", "truncate",
                                "write", "append", "respond"}]
        /\ offset \in [Handlers -> Nat]
        /\ tail \in [Handlers -> Seq(Records)] /\ tail' \in [Handlers -> Seq(Records)]
        /\ file \in Seq(Records) /\ file' \in Seq(Records)
    BY <1>t DEF TypeInv, TypeOK
  <1>n. /\ Len(file) \in Nat /\ Len(file') \in Nat
        /\ \A h \in Handlers : Len(tail[h]) \in Nat /\ Len(tail'[h]) \in Nat
        /\ Cardinality(Handlers) \in Nat \ {0}
        /\ MaxRecords \in Nat \ {0}
    BY <1>a, LenProperties, SinkAssumption, FS_CardinalityType, FS_EmptySet
  <1>m. /\ Half \in Nat /\ Half <= MaxRecords
        /\ Half + Cardinality(Handlers) - 1 <= MaxRecords
    BY HalfFits
  <1>p. /\ Cardinality(Appending) \in Nat
        /\ Cardinality(Appending) <= Cardinality(Handlers)
        /\ \A h \in Handlers : pc[h] \notin {"append", "write"} =>
             Cardinality(Appending) <= Cardinality(Handlers) - 1
    BY AppendingBound DEF Appending
  <1>q. Cardinality(Appending') \in Nat /\ Cardinality(Appending') <= Cardinality(Handlers)
    <2>1. Appending' \in SUBSET Handlers
      BY DEF Appending
    <2>2. QED
      BY <2>1, SinkAssumption, FS_Subset, FS_CardinalityType
  <1>u. ASSUME ioError' = ioError, collision => collision' PROVE SizeInv
    BY <1>u DEF SizeIInv, Undisturbed
  \* A step that leaves the file alone and ends no check.
  <1>1. ASSUME NEW h \in Handlers, NEW label, label \notin {"seek", "read", "truncate", "write"},
               Goto(h, label), Len(file') = Len(file), SizeInv,
               Cardinality(Appending') <= Cardinality(Appending),
               \A g \in Handlers \ {h} : offset'[g] = offset[g] /\ tail'[g] = tail[g]
        PROVE  SizeInv'
    <2>1. \A g \in Handlers : pc'[g] = IF g = h THEN label ELSE pc[g]
      BY <1>1, <1>a DEF Goto
    <2>2. \A g \in Handlers : pc'[g] \in {"seek", "read", "truncate", "write"} =>
            pc'[g] = pc[g] /\ offset'[g] = offset[g] /\ tail'[g] = tail[g]
      BY <1>1, <2>1
    <2>3. Len(file') + Cardinality(Appending') <= MaxRecords + Cardinality(Handlers)
      BY <1>1, <1>n, <1>p, <1>q DEF SizeInv
    <2>4. ASSUME NEW g \in Handlers, pc'[g] = "read"
          PROVE  Len(file') - offset'[g] + Cardinality(Appending')
                   <= Half + Cardinality(Handlers) - 1
      <3>1. Len(file) - offset[g] + Cardinality(Appending) <= Half + Cardinality(Handlers) - 1
        BY <1>1, <2>2, <2>4 DEF SizeInv
      <3>2. offset'[g] = offset[g] /\ offset[g] \in Nat
        BY <1>a, <2>2, <2>4
      <3>3. QED
        BY <1>1, <1>n, <1>m, <1>p, <1>q, <3>1, <3>2
    <2>5. QED
      BY <1>1, <2>2, <2>3, <2>4 DEF SizeInv
  <1>2. ASSUME NEW h \in Handlers, NEW d \in Deliveries, Post(h, d) PROVE SizeInv'
    <2>1. Appending' = Appending
      BY <1>2, <1>t, AppendingStep DEF Post
    <2>2. SizeInv
      BY <1>2, <1>u DEF Post
    <2>3. QED
      BY <1>1, <1>2, <1>p, <2>1, <2>2 DEF Post
  <1>3. ASSUME NEW h \in Handlers, CheckSize(h) PROVE SizeInv'
    <2>1. SizeInv
      BY <1>3, <1>u DEF CheckSize
    <2>2. file' = file /\ offset' = offset /\ tail' = tail /\ pc[h] = "check"
      BY <1>3 DEF CheckSize
    <2>3. CASE TooLarge
      <3>1. Goto(h, "seek")
        BY <1>3, <2>3 DEF CheckSize
      <3>2. Appending' = Appending
        BY <1>t, <2>2, <3>1, AppendingStep
      <3>3. \A g \in Handlers : pc'[g] = IF g = h THEN "seek" ELSE pc[g]
        BY <1>a, <3>1 DEF Goto
      <3>4. QED
        BY <1>n, <1>p, <2>1, <2>2, <2>3, <3>2, <3>3 DEF SizeInv, TooLarge
    <2>4. CASE ~TooLarge
      <3>1. Goto(h, "append")
        BY <1>3, <2>4 DEF CheckSize
      <3>2. Cardinality(Appending') = Cardinality(Appending) + 1
        BY <1>t, <2>2, <3>1, AppendingStep
      <3>3. Len(file) <= MaxRecords
        BY <1>n, <2>4 DEF TooLarge
      <3>4. \A g \in Handlers : pc'[g] = IF g = h THEN "append" ELSE pc[g]
        BY <1>a, <3>1 DEF Goto
      <3>5. \A g \in Handlers : pc[g] \notin {"seek", "read"}
        BY <1>n, <2>1, <3>3 DEF SizeInv
      <3>6. Cardinality(Appending) <= Cardinality(Handlers) - 1
        BY <1>p, <2>2
      <3>7. Len(file') + Cardinality(Appending') <= MaxRecords + Cardinality(Handlers)
        BY <1>n, <1>p, <2>2, <3>2, <3>3, <3>6
      <3>8. QED
        BY <2>1, <2>2, <3>4, <3>5, <3>7 DEF SizeInv
    <2>5. QED
      BY <2>3, <2>4
  <1>4. ASSUME NEW h \in Handlers, SeekTail(h) PROVE SizeInv'
    <2>1. SizeInv
      BY <1>4, <1>u DEF SeekTail
    <2>2. Appending' = Appending
      BY <1>4, <1>t, AppendingStep DEF SeekTail
    <2>3. /\ file' = file /\ tail' = tail /\ pc[h] = "seek"
          /\ \A g \in Handlers : pc'[g] = IF g = h THEN "read" ELSE pc[g]
          /\ \A g \in Handlers : offset'[g] = IF g = h THEN Len(file) - Half ELSE offset[g]
      BY <1>4, <1>a DEF SeekTail, Goto
    <2>4. Cardinality(Appending) <= Cardinality(Handlers) - 1
      BY <1>p, <2>3
    <2>5. QED
      BY <1>n, <1>m, <1>p, <2>1, <2>2, <2>3, <2>4, SMTT(30) DEF SizeInv
  <1>5. ASSUME NEW h \in Handlers, SeekFails(h) PROVE FALSE
    BY <1>5, <1>u, <1>n, <1>m DEF SeekFails, SizeInv
  <1>6. ASSUME NEW h \in Handlers, ReadTail(h) PROVE SizeInv'
    <2>1. SizeInv
      BY <1>6, <1>u DEF ReadTail
    <2>2. Appending' = Appending
      BY <1>6, <1>t, AppendingStep DEF ReadTail
    <2>3. /\ file' = file /\ pc[h] = "read"
          /\ \A g \in Handlers : pc'[g] = IF g = h THEN "truncate" ELSE pc[g]
          /\ \A g \in Handlers \ {h} : offset'[g] = offset[g] /\ tail'[g] = tail[g]
      BY <1>6, <1>a DEF ReadTail, Goto
    <2>4. Len(tail'[h]) = IF offset[h] < Len(file) THEN Len(file) - offset[h] ELSE 0
      <3>1. PICK cut \in BOOLEAN : tail' = [tail EXCEPT ![h] = Rest(offset[h], cut)]
        BY <1>6 DEF ReadTail
      <3>2. tail'[h] = Rest(offset[h], cut)
        BY <1>a, <3>1
      <3>3. QED
        BY <1>a, <3>2, RestSeq
    <2>5. Len(tail'[h]) <= Half + Cardinality(Handlers) - 1
      BY <1>a, <1>n, <1>m, <1>p, <2>1, <2>3, <2>4 DEF SizeInv
    <2>6. QED
      BY <1>n, <1>m, <1>p, <2>1, <2>2, <2>3, <2>5 DEF SizeInv
  <1>7. ASSUME NEW h \in Handlers, Truncate(h) PROVE SizeInv'
    <2>1. SizeInv
      BY <1>7, <1>u DEF Truncate
    <2>2. \A g \in Handlers \ {h} : ~Retaining(g)
      BY <1>7 DEF Truncate, Undisturbed
    <2>3. /\ Len(file') = 0 /\ tail' = tail /\ pc[h] = "truncate"
          /\ \A g \in Handlers : pc'[g] = IF g = h THEN "write" ELSE pc[g]
      BY <1>7, <1>a DEF Truncate, Goto
    <2>4. \A g \in Handlers : pc'[g] \notin {"seek", "read", "truncate"}
      BY <2>2, <2>3 DEF Retaining
    <2>5. \A g \in Handlers : pc'[g] = "write" => g = h
      BY <2>2, <2>3 DEF Retaining
    <2>6. QED
      BY <1>n, <1>m, <1>q, <2>1, <2>3, <2>4, <2>5 DEF SizeInv
  <1>8. ASSUME NEW h \in Handlers, WriteTail(h) PROVE SizeInv'
    <2>1. SizeInv
      BY <1>8, <1>u DEF WriteTail
    <2>2. Appending' = Appending
      BY <1>8, <1>t, AppendingStep DEF WriteTail
    <2>3. /\ offset' = offset /\ pc[h] = "write"
          /\ \A g \in Handlers : pc'[g] = IF g = h THEN "append" ELSE pc[g]
          /\ \A g \in Handlers \ {h} : tail'[g] = tail[g]
      BY <1>8, <1>a DEF WriteTail, Goto
    <2>4. Len(file') = IF Len(tail[h]) < Len(file) THEN Len(file) ELSE Len(tail[h])
      BY <1>8, <1>a, Overwritten DEF WriteTail
    <2>5. Len(tail[h]) <= Half + Cardinality(Handlers) - 1
      BY <2>1, <2>3 DEF SizeInv
    <2>6. Len(file) > MaxRecords => Len(file') = Len(file)
      BY <1>n, <1>m, <2>4, <2>5
    <2>7. Len(file') + Cardinality(Appending) <= MaxRecords + Cardinality(Handlers)
      BY <1>n, <1>m, <1>p, <2>1, <2>4, <2>5 DEF SizeInv
    <2>8. QED
      BY <1>n, <1>m, <2>1, <2>2, <2>3, <2>6, <2>7 DEF SizeInv
  <1>9. ASSUME NEW h \in Handlers, RetentionFails(h) PROVE FALSE
    BY <1>9 DEF RetentionFails, Undisturbed
  <1>10. ASSUME NEW h \in Handlers, AppendLine(h) PROVE SizeInv'
    <2>1. SizeInv
      BY <1>10, <1>u DEF AppendLine
    <2>2. Cardinality(Appending') = Cardinality(Appending) - 1
      BY <1>10, <1>t, AppendingStep DEF AppendLine
    <2>3. Len(file') = Len(file) + 1
      <3>1. item[h] \in Records
        BY <1>t DEF TypeInv, TypeOK
      <3>2. QED
        BY <1>10, <1>a, <3>1, AppendProperties DEF AppendLine
    <2>4. /\ offset' = offset /\ tail' = tail
          /\ \A g \in Handlers : pc'[g] = IF g = h THEN "respond" ELSE pc[g]
      BY <1>10, <1>a DEF AppendLine, Goto
    <2>5. Len(file') + Cardinality(Appending') <= MaxRecords + Cardinality(Handlers)
      BY <1>n, <1>p, <2>1, <2>2, <2>3 DEF SizeInv
    <2>6. \A g \in Handlers : pc'[g] \in {"seek", "read"} => Len(file') > MaxRecords
      BY <1>n, <2>1, <2>3, <2>4 DEF SizeInv
    <2>7. ASSUME NEW g \in Handlers, pc'[g] = "read"
          PROVE  Len(file') - offset'[g] + Cardinality(Appending')
                   <= Half + Cardinality(Handlers) - 1
      <3>1. Len(file) - offset[g] + Cardinality(Appending) <= Half + Cardinality(Handlers) - 1
        BY <2>1, <2>4, <2>7 DEF SizeInv
      <3>2. offset'[g] = offset[g] /\ offset[g] \in Nat
        BY <1>a, <2>4
      <3>3. QED
        BY <1>n, <1>m, <1>p, <2>2, <2>3, <3>1, <3>2
    <2>8. QED
      BY <2>1, <2>4, <2>5, <2>6, <2>7 DEF SizeInv
  <1>11. ASSUME NEW h \in Handlers, StoreFails(h) PROVE SizeInv'
    <2>1. SizeInv
      BY <1>11, <1>u DEF StoreFails
    <2>2. Appending' = Appending \/ Cardinality(Appending') = Cardinality(Appending) - 1
      BY <1>11, <1>t, AppendingStep DEF StoreFails
    <2>3. QED
      BY <1>1, <1>11, <1>p, <2>1, <2>2 DEF StoreFails
  <1>12. ASSUME NEW h \in Handlers, Respond(h) PROVE SizeInv'
    <2>1. SizeInv
      BY <1>12, <1>u DEF Respond
    <2>2. Appending' = Appending
      BY <1>12, <1>t, AppendingStep DEF Respond
    <2>3. QED
      BY <1>1, <1>12, <1>p, <2>1, <2>2 DEF Respond
  <1>13. ASSUME NEW h \in Handlers, GiveUp(h) PROVE SizeInv'
    BY <1>13, <1>u DEF GiveUp, SizeInv, Appending
  <1>14. CASE Restart
    <2>1. SizeInv
      BY <1>14, <1>u DEF Restart
    <2>2. Appending' = {}
      BY <1>14 DEF Restart, Appending
    <2>3. Cardinality(Appending') = 0
      BY <2>2, FS_EmptySet
    <2>4. QED
      BY <1>14, <1>n, <1>p, <2>1, <2>3 DEF Restart, SizeInv
  <1>15. CASE Done \/ UNCHANGED vars
    <2>1. SizeInv /\ UNCHANGED vars
      BY <1>15, <1>u DEF Done, vars
    <2>2. QED
      BY <2>1 DEF vars, SizeInv, Appending
  <1>16. QED
    BY <1>2, <1>3, <1>4, <1>5, <1>6, <1>7, <1>8, <1>9, <1>10, <1>11, <1>12, <1>13,
       <1>14, <1>15 DEF Next, ThreadStep

\* As long as no retention failed or met another one, MAX_BYTES is exceeded by at
\* most a record for each thread, although nothing locks the file between the
\* size check and the append.
THEOREM SizeIsBounded == Spec => []SizeBounded
  <1>1. Spec => []SizeIInv
    BY SizeInit, SizeStep, PTL DEF Spec
  <1>2. SizeIInv => SizeBounded
    <2> SUFFICES ASSUME SizeIInv, Undisturbed
                 PROVE  Len(file) <= MaxRecords + Cardinality(Handlers)
      BY DEF SizeBounded, Undisturbed
    <2>1. Len(file) \in Nat /\ MaxRecords \in Nat /\ Cardinality(Handlers) \in Nat
      BY LenProperties, SinkAssumption, FS_CardinalityType DEF SizeIInv, TypeInv, TypeOK
    <2>2. QED
      BY <2>1, AppendingBound DEF SizeIInv, SizeInv
  <1>3. QED
    BY <1>1, <1>2, PTL

-----------------------------------------------------------------------------
(* Where a delivery is after it was appended. As long as nothing disturbs  *)
(* the rewriting, every delivery that was ever appended and has not aged is *)
(* in the file, in every half that was read and not yet written, and behind *)
(* the position of every thread that is about to read; only while a half is *)
(* about to be written may the file be empty instead.                      *)

Covers(S) == \A d \in Deliveries : appended[d] > 0 => d \in S \cup aged

Behind(h) == {file[i] : i \in (offset[h] + 1) .. Len(file)}

CoverInv ==
  /\ file = <<>> \/ Covers(Range(file))
  /\ Covers(Range(file)) \/ \E h \in Handlers : pc[h] = "write"
  /\ \A h \in Handlers : pc[h] = "read" => offset[h] <= Len(file) /\ Covers(Behind(h))
  /\ \A h \in Handlers : pc[h] \in {"truncate", "write"} => Covers(Range(tail[h]))

CoverIInv == AckInv /\ (~overlap => CoverInv)

LEMMA RangeMembers ==
  ASSUME NEW S, NEW s \in Seq(S)
  PROVE  \A x : x \in Range(s) <=> \E i \in 1 .. Len(s) : x = s[i]
  <1>1. DOMAIN s = 1 .. Len(s)
    BY LenProperties
  <1>2. QED
    BY <1>1 DEF Range

LEMMA AppendRange ==
  ASSUME NEW S, NEW s \in Seq(S), NEW x \in S
  PROVE  Range(Append(s, x)) = Range(s) \cup {x}
  <1> DEFINE a == Append(s, x)
  <1>1. Len(s) \in Nat
    BY LenProperties
  <1>2. /\ a \in Seq(S) /\ Len(a) = Len(s) + 1
        /\ \A i \in 1 .. Len(s) : a[i] = s[i]
        /\ a[Len(s) + 1] = x
    BY AppendProperties
  <1> HIDE DEF a
  <1>3. \A y : y \in Range(s) <=> \E i \in 1 .. Len(s) : y = s[i]
    BY RangeMembers
  <1>4. \A y : y \in Range(a) <=> \E i \in 1 .. Len(a) : y = a[i]
    BY <1>2, RangeMembers
  <1>5. \A i : i \in 1 .. Len(a) <=> i \in 1 .. Len(s) \/ i = Len(s) + 1
    BY <1>1, <1>2
  <1>6. Range(a) = Range(s) \cup {x}
    BY <1>2, <1>3, <1>4, <1>5
  <1>7. QED
    BY <1>6 DEF a

\* What is written over the beginning of the file is in the file.
LEMMA OverwrittenRange ==
  ASSUME NEW S, NEW s \in Seq(S), NEW t \in Seq(S)
  PROVE  Range(t) \subseteq Range(t \o SubSeq(s, Len(t) + 1, Len(s)))
  <1> DEFINE u == SubSeq(s, Len(t) + 1, Len(s))
             c == t \o u
  <1>1. Len(t) \in Nat /\ u \in Seq(S)
    BY LenProperties, SuffixSeq
  <1>2. Len(u) \in Nat
    BY <1>1, LenProperties
  <1>3. /\ c \in Seq(S) /\ Len(c) = Len(t) + Len(u)
        /\ \A i \in 1 .. Len(t) + Len(u) :
             c[i] = IF i <= Len(t) THEN t[i] ELSE u[i - Len(t)]
    BY <1>1, ConcatProperties
  <1> HIDE DEF u, c
  <1>4. \A i \in 1 .. Len(t) : i \in 1 .. Len(c) /\ c[i] = t[i]
    BY <1>1, <1>2, <1>3
  <1>5. \A y : y \in Range(t) <=> \E i \in 1 .. Len(t) : y = t[i]
    BY RangeMembers
  <1>6. \A y : y \in Range(c) <=> \E i \in 1 .. Len(c) : y = c[i]
    BY <1>3, RangeMembers
  <1>7. Range(t) \subseteq Range(c)
    BY <1>4, <1>5, <1>6
  <1>8. QED
    BY <1>7 DEF u, c

\* Reading from a position gives every record behind it, except the first when
\* it is cut.
LEMMA RestRange ==
  ASSUME file \in Seq(Records), NEW n \in Nat, NEW cut \in BOOLEAN,
         NEW i \in (n + 1) .. Len(file), ~(cut /\ i = n + 1)
  PROVE  file[i] \in Range(Rest(n, cut))
  <1>1. Len(file) \in Nat
    BY LenProperties
  <1>2. \A j \in 1 .. Len(file) : file[j] \in Records
    BY ElementOfSeq
  <1>3. /\ Rest(n, cut) \in Seq(Records)
        /\ Len(Rest(n, cut)) = Len(file) - n
    <2>1. n < Len(file)
      BY <1>1
    <2>2. Len(Rest(n, cut)) = IF n < Len(file) THEN Len(file) - n ELSE 0
      BY RestSeq
    <2>3. QED
      BY <2>1, <2>2, RestSeq
  <1>4. Rest(n, cut)[i - n] = file[i]
    <2>1. CASE cut
      <3>1. /\ SubSeq(file, n + 2, Len(file)) \in Seq(Records)
            /\ Len(SubSeq(file, n + 2, Len(file))) = Len(file) - n - 1
            /\ \A j \in 1 .. Len(file) - (n + 2) + 1 :
                 SubSeq(file, n + 2, Len(file))[j] = file[(n + 2) + j - 1]
        BY <1>1, <1>2, SubSeqProperties
      <3>2. SubSeq(file, n + 2, Len(file))[i - n - 1] = file[i]
        BY <1>1, <2>1, <3>1
      <3>3. <<Fragment>> \in Seq(Records)
        BY SingletonSeq DEF Records
      <3>4. Len(<<Fragment>>) = 1
        OBVIOUS
      <3>5. (<<Fragment>> \o SubSeq(file, n + 2, Len(file)))[i - n] =
              SubSeq(file, n + 2, Len(file))[i - n - 1]
        BY <1>1, <2>1, <3>1, <3>3, <3>4, ConcatProperties
      <3>6. Rest(n, cut) = <<Fragment>> \o SubSeq(file, n + 2, Len(file))
        BY <1>1, <2>1 DEF Rest
      <3>7. QED
        BY <3>2, <3>5, <3>6
    <2>2. CASE ~cut
      <3>1. \A j \in 1 .. Len(file) - (n + 1) + 1 :
              SubSeq(file, n + 1, Len(file))[j] = file[(n + 1) + j - 1]
        BY <1>1, <1>2, SubSeqProperties
      <3>2. QED
        BY <1>1, <2>2, <3>1 DEF Rest
    <2>3. QED
      BY <2>1, <2>2
  <1>5. i - n \in 1 .. Len(Rest(n, cut))
    BY <1>1, <1>3
  <1>6. QED
    BY <1>3, <1>4, <1>5, RangeMembers

LEMMA CoverInit == Init => CoverIInv
  <1> SUFFICES ASSUME Init PROVE CoverInv
    BY AckInit DEF CoverIInv
  <1>1. \A S : Covers(S)
    BY DEF Init, Covers
  <1>2. \A h \in Handlers : pc[h] = "idle"
    BY DEF Init
  <1>3. QED
    BY <1>1, <1>2 DEF CoverInv

LEMMA CoverStep == CoverIInv /\ [Next]_vars => CoverIInv'
  <1> SUFFICES ASSUME CoverIInv, [Next]_vars, ~overlap' PROVE CoverInv'
    BY AckStep DEF CoverIInv
  <1>t. /\ pc \in [Handlers -> {"idle", "check", "seek", "read", "truncate",
                                "write", "append", "respond"}]
        /\ offset \in [Handlers -> Nat]
        /\ item \in [Handlers -> Records]
        /\ tail \in [Handlers -> Seq(Records)]
        /\ file \in Seq(Records) /\ file' \in Seq(Records)
        /\ appended \in [Deliveries -> Nat]
    BY AckStep DEF CoverIInv, AckInv, TypeInv, TypeOK
  <1>l. Len(file) \in Nat
    BY <1>t, LenProperties
  <1>u. ASSUME overlap => overlap' PROVE CoverInv
    BY <1>u DEF CoverIInv
  \* A step that changes neither the file nor a half, and after which no other
  \* thread reads or writes.
  <1>1. ASSUME NEW h \in Handlers, NEW label, label \notin {"read", "truncate", "write"},
               Goto(h, label), pc[h] # "write", CoverInv,
               UNCHANGED <<file, appended, aged>>,
               \A g \in Handlers \ {h} : offset'[g] = offset[g] /\ tail'[g] = tail[g]
        PROVE  CoverInv'
    <2>1. \A g \in Handlers : pc'[g] = IF g = h THEN label ELSE pc[g]
      BY <1>1, <1>t DEF Goto
    <2>2. \A S : Covers(S) => \A d \in Deliveries : appended'[d] > 0 => d \in S \cup aged'
      BY <1>1 DEF Covers
    <2>3. \A g \in Handlers : pc'[g] = "read" =>
            Behind(g)' = Behind(g) /\ pc[g] = "read" /\ offset'[g] = offset[g]
      BY <1>1, <2>1 DEF Behind
    <2>4. \A g \in Handlers : pc'[g] \in {"truncate", "write"} => tail'[g] = tail[g] /\ pc'[g] = pc[g]
      BY <1>1, <2>1
    <2>5. \A g \in Handlers : pc[g] = "write" => pc'[g] = "write"
      BY <1>1, <2>1
    <2>6. QED
      BY <1>1, <2>2, <2>3, <2>4, <2>5 DEF CoverInv, Covers
  <1>2. ASSUME NEW h \in Handlers, NEW d \in Deliveries, Post(h, d) PROVE CoverInv'
    BY <1>1, <1>2, <1>u DEF Post
  <1>3. ASSUME NEW h \in Handlers, CheckSize(h) PROVE CoverInv'
    BY <1>1, <1>3, <1>u DEF CheckSize
  <1>4. ASSUME NEW h \in Handlers, SeekFails(h) PROVE CoverInv'
    BY <1>1, <1>4, <1>u DEF SeekFails
  <1>5. ASSUME NEW h \in Handlers, RetentionFails(h) PROVE CoverInv'
    <2>1. CoverInv /\ pc[h] # "write"
      BY <1>5, <1>u DEF RetentionFails
    <2>2. QED
      BY <1>1, <1>5, <2>1 DEF RetentionFails
  <1>6. ASSUME NEW h \in Handlers, StoreFails(h) PROVE CoverInv'
    BY <1>1, <1>6, <1>u DEF StoreFails
  <1>7. ASSUME NEW h \in Handlers, Respond(h) PROVE CoverInv'
    BY <1>1, <1>7, <1>u DEF Respond
  <1>8. ASSUME NEW h \in Handlers, SeekTail(h) PROVE CoverInv'
    <2>1. CoverInv
      BY <1>8, <1>u DEF SeekTail
    <2>2. /\ file' = file /\ tail' = tail /\ appended' = appended
          /\ pc[h] = "seek" /\ Len(file) >= Half
          /\ aged' = aged \cup {file[i] : i \in 1 .. Len(file) - Half}
          /\ \A g \in Handlers : pc'[g] = IF g = h THEN "read" ELSE pc[g]
          /\ \A g \in Handlers : offset'[g] = IF g = h THEN Len(file) - Half ELSE offset[g]
      BY <1>8, <1>t DEF SeekTail, Goto
    <2>3. Covers(Range(file))
      <3>1. file # <<>>
        <4>1. Half >= 1
          BY SinkAssumption DEF Half
        <4>2. Half \in Nat
          BY HalfFits
        <4>3. QED
          BY <1>l, <2>2, <4>1, <4>2, EmptySeq
      <3>2. QED
        BY <2>1, <3>1 DEF CoverInv
    <2>4. Range(file) \subseteq Behind(h)' \cup aged'
      <3>1. \A y : y \in Range(file) <=> \E i \in 1 .. Len(file) : y = file[i]
        BY <1>t, RangeMembers
      <3>2. Behind(h)' = {file[i] : i \in (Len(file) - Half) + 1 .. Len(file)}
        BY <2>2 DEF Behind
      <3>3. \A i \in 1 .. Len(file) :
              i \in 1 .. Len(file) - Half \/ i \in (Len(file) - Half) + 1 .. Len(file)
        BY <1>l, HalfFits
      <3>4. QED
        BY <2>2, <3>1, <3>2, <3>3
    <2>5. \A S : Covers(S) => \A d \in Deliveries : appended'[d] > 0 => d \in S \cup aged'
      BY <2>2 DEF Covers
    <2>6. Covers(Behind(h))'
      BY <2>2, <2>3, <2>4 DEF Covers
    <2>7. \A g \in Handlers \ {h} : Behind(g)' = Behind(g)
      BY <2>2 DEF Behind
    <2>8. \A g \in Handlers : pc'[g] = "read" => Covers(Behind(g))'
      BY <2>1, <2>2, <2>5, <2>6, <2>7 DEF CoverInv, Covers
    <2>9. \A g \in Handlers : pc'[g] = "read" => offset'[g] <= Len(file)
      BY <1>l, <2>1, <2>2, HalfFits DEF CoverInv
    <2>10. QED
      BY <2>1, <2>2, <2>5, <2>8, <2>9 DEF CoverInv, Covers
  <1>9. ASSUME NEW h \in Handlers, ReadTail(h) PROVE CoverInv'
    <2>1. CoverInv
      BY <1>9, <1>u DEF ReadTail
    <2>2. PICK cut \in BOOLEAN :
            /\ tail' = [tail EXCEPT ![h] = Rest(offset[h], cut)]
            /\ aged' = IF cut THEN aged \cup {file[i] : i \in {offset[h] + 1} \cap DOMAIN file}
                       ELSE aged
      BY <1>9 DEF ReadTail
    <2>3. /\ file' = file /\ appended' = appended /\ pc[h] = "read"
          /\ \A g \in Handlers : pc'[g] = IF g = h THEN "truncate" ELSE pc[g]
          /\ \A g \in Handlers \ {h} : offset'[g] = offset[g] /\ tail'[g] = tail[g]
          /\ aged \subseteq aged' /\ tail'[h] = Rest(offset[h], cut)
      BY <1>9, <1>t, <2>2 DEF ReadTail, Goto
    <2>4. Behind(h) \subseteq Range(tail'[h]) \cup aged'
      <3>1. ASSUME NEW i \in (offset[h] + 1) .. Len(file)
            PROVE  file[i] \in Range(tail'[h]) \cup aged'
        <4>1. offset[h] \in Nat
          BY <1>t
        <4>2. CASE cut /\ i = offset[h] + 1
          <5>1. i \in DOMAIN file
            BY <1>t, <1>l, <3>1, <4>1, LenProperties
          <5>2. QED
            BY <2>2, <4>2, <5>1
        <4>3. CASE ~(cut /\ i = offset[h] + 1)
          BY <1>t, <2>3, <3>1, <4>1, <4>3, RestRange
        <4>4. QED
          BY <4>2, <4>3
      <3>2. QED
        BY <3>1 DEF Behind
    <2>5. \A S : Covers(S) => \A d \in Deliveries : appended'[d] > 0 => d \in S \cup aged'
      BY <2>3 DEF Covers
    <2>6. Covers(Range(tail[h]))'
      BY <2>1, <2>3, <2>4 DEF CoverInv, Covers
    <2>7. \A g \in Handlers \ {h} : Behind(g)' = Behind(g)
      BY <2>3 DEF Behind
    <2>8. \A g \in Handlers : pc'[g] = "read" => Covers(Behind(g))'
      BY <2>1, <2>3, <2>5, <2>7 DEF CoverInv, Covers
    <2>9. QED
      BY <2>1, <2>3, <2>5, <2>6, <2>8 DEF CoverInv, Covers
  <1>10. ASSUME NEW h \in Handlers, Truncate(h) PROVE CoverInv'
    <2>1. CoverInv
      BY <1>10, <1>u DEF Truncate
    <2>2. /\ file' = <<>> /\ tail' = tail /\ appended' = appended /\ aged' = aged
          /\ pc[h] = "truncate"
          /\ \A g \in Handlers : pc'[g] = IF g = h THEN "write" ELSE pc[g]
          /\ \A g \in Handlers : pc[g] # "read"
      BY <1>10, <1>t DEF Truncate, Goto
    <2>3. QED
      BY <2>1, <2>2 DEF CoverInv, Covers
  <1>11. ASSUME NEW h \in Handlers, WriteTail(h) PROVE CoverInv'
    <2>1. CoverInv
      BY <1>11, <1>u DEF WriteTail
    <2>2. /\ file' = tail[h] \o SubSeq(file, Len(tail[h]) + 1, Len(file))
          /\ appended' = appended /\ aged' = aged /\ pc[h] = "write"
          /\ \A g \in Handlers : pc'[g] = IF g = h THEN "append" ELSE pc[g]
          /\ \A g \in Handlers \ {h} : tail'[g] = tail[g]
          /\ \A g \in Handlers : pc[g] # "read"
      BY <1>11, <1>t DEF WriteTail, Goto
    <2>3. Range(tail[h]) \subseteq Range(file')
      BY <1>t, <2>2, OverwrittenRange
    <2>4. Covers(Range(file))'
      BY <2>1, <2>2, <2>3 DEF CoverInv, Covers
    <2>5. QED
      BY <2>1, <2>2, <2>4 DEF CoverInv, Covers
  <1>12. ASSUME NEW h \in Handlers, AppendLine(h) PROVE CoverInv'
    <2>1. CoverInv
      BY <1>12, <1>u DEF AppendLine
    <2>2. /\ file' = Append(file, item[h]) /\ offset' = offset /\ tail' = tail /\ aged' = aged
          /\ appended' = [appended EXCEPT ![item[h]] = @ + 1] /\ pc[h] = "append"
          /\ \A g \in Handlers : pc'[g] = IF g = h THEN "respond" ELSE pc[g]
      BY <1>12, <1>t DEF AppendLine, Goto
    <2>3. \A g \in Handlers : pc'[g] \notin {"truncate", "write"} /\ pc[g] # "write"
      BY <1>12, <2>2 DEF AppendLine, Rewriting
    <2>4. \A S, T : Covers(S) /\ S \cup {item[h]} \subseteq T =>
            \A d \in Deliveries : appended'[d] > 0 => d \in T \cup aged'
      BY <1>t, <2>2 DEF Covers
    <2>5. Covers(Range(file))'
      <3>1. Range(file') = Range(file) \cup {item[h]}
        BY <1>t, <2>2, AppendRange
      <3>2. Covers(Range(file))
        BY <2>1, <2>3 DEF CoverInv
      <3>3. QED
        BY <2>4, <3>1, <3>2 DEF Covers
    <2>6. ASSUME NEW g \in Handlers, pc'[g] = "read"
          PROVE  offset'[g] <= Len(file') /\ Covers(Behind(g))'
      <3>1. offset[g] <= Len(file) /\ Covers(Behind(g))
        BY <2>1, <2>2, <2>6 DEF CoverInv
      <3>2. offset'[g] <= Len(file') /\ Behind(g) \cup {item[h]} \subseteq Behind(g)'
        <4>1. /\ Len(file') = Len(file) + 1 /\ file'[Len(file) + 1] = item[h]
              /\ \A i \in 1 .. Len(file) : file'[i] = file[i]
          BY <1>t, <2>2, AppendProperties
        <4>2. offset[g] \in Nat /\ offset'[g] = offset[g]
          BY <1>t, <2>2
        <4>3. QED
          BY <1>l, <3>1, <4>1, <4>2 DEF Behind
      <3>3. QED
        BY <2>4, <3>1, <3>2 DEF Covers
    <2>7. QED
      BY <2>3, <2>5, <2>6 DEF CoverInv
  <1>13. ASSUME NEW h \in Handlers, GiveUp(h) PROVE CoverInv'
    <2>1. CoverInv
      BY <1>13, <1>u DEF GiveUp
    <2>2. QED
      BY <1>13, <2>1 DEF GiveUp, CoverInv, Covers, Behind
  <1>14. CASE Restart
    <2>1. CoverInv /\ \A h \in Handlers : pc[h] # "write"
      BY <1>14, <1>u DEF Restart
    <2>2. \A h \in Handlers : pc'[h] = "idle"
      BY <1>14 DEF Restart
    <2>3. file' = file /\ appended' = appended /\ aged' = aged
      BY <1>14 DEF Restart
    <2>4. QED
      BY <2>1, <2>2, <2>3 DEF CoverInv, Covers
  <1>15. CASE Done \/ UNCHANGED vars
    <2>1. CoverInv /\ UNCHANGED vars
      BY <1>15, <1>u DEF Done, vars
    <2>2. QED
      BY <2>1 DEF vars, CoverInv, Covers, Behind
  <1>16. QED
    BY <1>2, <1>3, <1>4, <1>5, <1>6, <1>7, <1>8, <1>9, <1>10, <1>11, <1>12, <1>13,
       <1>14, <1>15 DEF Next, ThreadStep

\* An acknowledged delivery that is not older than the half kept is lost only
\* when two threads disturb each other in the rewriting, or when it is cut short.
THEOREM LossNeedsOverlap == Spec => []LostOnlyInOverlap
  <1>1. Spec => []CoverIInv
    BY CoverInit, CoverStep, PTL DEF Spec
  <1>2. CoverIInv => LostOnlyInOverlap
    <2> SUFFICES ASSUME CoverIInv, ~overlap, NEW d \in acked
                 PROVE  Kept(d) \/ d \in aged
      BY DEF LostOnlyInOverlap
    <2>1. d \in Deliveries /\ appended[d] > 0
      BY DEF CoverIInv, AckInv, TypeInv, TypeOK, AckedMeansAppended
    <2>2. CASE Covers(Range(file))
      BY <2>1, <2>2 DEF Covers, Kept
    <2>3. CASE \E h \in Handlers : pc[h] = "write"
      BY <2>1, <2>3 DEF CoverIInv, CoverInv, Covers, Kept, InFlight
    <2>4. QED
      BY <2>2, <2>3 DEF CoverIInv, CoverInv
  <1>3. QED
    BY <1>1, <1>2, PTL
-----------------------------------------------------------------------------
(* How often a delivery is in the file. As long as no thread truncates the *)
(* file in the middle of another retention, at most one thread is about to *)
(* write its half, and what it has read and what is in the file together   *)
(* hold no more copies of a delivery than were appended.                   *)

Positions(s, d) == {i \in DOMAIN s : s[i] = d}
Occurrences(s, d) == Cardinality(Positions(s, d))

CopyInv ==
  /\ \A d \in Deliveries : Occurrences(file, d) <= appended[d]
  /\ \A h \in Handlers : pc[h] = "truncate" =>
       \A d \in Deliveries : Occurrences(tail[h], d) <= appended[d]
  /\ \A h \in Handlers : pc[h] = "write" =>
       \A d \in Deliveries : Occurrences(tail[h], d) + Occurrences(file, d) <= appended[d]
  /\ \A g, h \in Handlers : pc[g] = "write" /\ pc[h] = "write" => g = h

CopyIInv == TypeInv /\ (~collision => CopyInv)

LEMMA PositionsFinite ==
  ASSUME NEW S, NEW s \in Seq(S), NEW d
  PROVE  /\ Len(s) \in Nat
         /\ Positions(s, d) = {i \in 1 .. Len(s) : s[i] = d}
         /\ IsFiniteSet(Positions(s, d))
         /\ Occurrences(s, d) \in Nat
  <1>1. Len(s) \in Nat /\ DOMAIN s = 1 .. Len(s)
    BY LenProperties
  <1>2. Positions(s, d) \in SUBSET (1 .. Len(s))
    BY <1>1 DEF Positions
  <1>3. IsFiniteSet(1 .. Len(s))
    BY <1>1, FS_Interval
  <1>4. IsFiniteSet(Positions(s, d))
    BY <1>2, <1>3, FS_Subset
  <1>5. Occurrences(s, d) \in Nat
    BY <1>4, FS_CardinalityType DEF Occurrences
  <1>6. QED
    BY <1>1, <1>4, <1>5 DEF Positions

LEMMA EmptyCopies ==
  ASSUME NEW d
  PROVE  Occurrences(<<>>, d) = 0
  <1>1. Positions(<<>>, d) = {}
    BY DEF Positions
  <1>2. QED
    BY <1>1, FS_EmptySet DEF Occurrences

LEMMA AppendCopies ==
  ASSUME NEW S, NEW s \in Seq(S), NEW x \in S, NEW d
  PROVE  Occurrences(Append(s, x), d) <= Occurrences(s, d) + (IF x = d THEN 1 ELSE 0)
  <1> DEFINE a == Append(s, x)
  <1>1. /\ a \in Seq(S) /\ Len(a) = Len(s) + 1
        /\ \A i \in 1 .. Len(s) : a[i] = s[i]
        /\ a[Len(s) + 1] = x
    BY AppendProperties
  <1> HIDE DEF a
  <1>2. /\ Len(s) \in Nat
        /\ Positions(s, d) = {i \in 1 .. Len(s) : s[i] = d}
        /\ IsFiniteSet(Positions(s, d)) /\ Occurrences(s, d) \in Nat
    BY PositionsFinite
  <1>3. Positions(a, d) = {i \in 1 .. Len(a) : a[i] = d} /\ Occurrences(a, d) \in Nat
    BY <1>1, PositionsFinite
  <1>4. CASE x = d
    <2>1. Positions(a, d) \in SUBSET (Positions(s, d) \cup {Len(s) + 1})
      BY <1>1, <1>2, <1>3
    <2>2. /\ IsFiniteSet(Positions(s, d) \cup {Len(s) + 1})
          /\ Cardinality(Positions(s, d) \cup {Len(s) + 1}) \in Nat
          /\ Cardinality(Positions(s, d) \cup {Len(s) + 1}) <= Occurrences(s, d) + 1
      <3>1. /\ IsFiniteSet(Positions(s, d) \cup {Len(s) + 1})
            /\ Cardinality(Positions(s, d) \cup {Len(s) + 1}) =
                 IF Len(s) + 1 \in Positions(s, d) THEN Cardinality(Positions(s, d))
                 ELSE Cardinality(Positions(s, d)) + 1
        BY <1>2, FS_AddElement
      <3>2. Cardinality(Positions(s, d) \cup {Len(s) + 1}) \in Nat
        BY <3>1, FS_CardinalityType
      <3>3. QED
        BY <1>2, <3>1, <3>2 DEF Occurrences
    <2>3. Occurrences(a, d) <= Cardinality(Positions(s, d) \cup {Len(s) + 1})
      BY <2>1, <2>2, FS_Subset DEF Occurrences
    <2>4. QED
      BY <1>2, <1>3, <1>4, <2>2, <2>3 DEF a
  <1>5. CASE x # d
    <2>1. Positions(a, d) \in SUBSET Positions(s, d)
      BY <1>1, <1>2, <1>3, <1>5
    <2>2. Occurrences(a, d) <= Occurrences(s, d)
      BY <1>2, <2>1, FS_Subset DEF Occurrences
    <2>3. QED
      BY <1>2, <1>3, <1>5, <2>2 DEF a
  <1>6. QED
    BY <1>4, <1>5

\* Writing over the beginning of a log keeps at most the copies of both.
LEMMA OverwrittenCopies ==
  ASSUME NEW S, NEW s \in Seq(S), NEW t \in Seq(S), NEW d
  PROVE  Occurrences(t \o SubSeq(s, Len(t) + 1, Len(s)), d) <= Occurrences(t, d) + Occurrences(s, d)
  <1> DEFINE u == SubSeq(s, Len(t) + 1, Len(s))
             c == t \o u
  <1>1. /\ Len(t) \in Nat /\ Len(s) \in Nat
        /\ Positions(s, d) = {i \in 1 .. Len(s) : s[i] = d}
        /\ Positions(t, d) = {i \in 1 .. Len(t) : t[i] = d}
        /\ IsFiniteSet(Positions(s, d)) /\ IsFiniteSet(Positions(t, d))
        /\ Occurrences(s, d) \in Nat /\ Occurrences(t, d) \in Nat
    BY PositionsFinite
  <1>2. \A i \in Len(t) + 1 .. Len(s) : s[i] \in S
    BY <1>1, ElementOfSeq
  <1>3. /\ u \in Seq(S)
        /\ Len(u) = IF Len(t) < Len(s) THEN Len(s) - Len(t) ELSE 0
        /\ \A i \in 1 .. Len(s) - Len(t) : u[i] = s[Len(t) + i]
    <2>1. /\ u \in Seq(S)
          /\ Len(u) = IF Len(t) < Len(s) THEN Len(s) - Len(t) ELSE 0
      BY <1>1, SuffixSeq
    <2>2. \A i \in 1 .. Len(s) - (Len(t) + 1) + 1 : u[i] = s[(Len(t) + 1) + i - 1]
      BY <1>1, <1>2, SubSeqProperties
    <2>3. QED
      BY <1>1, <2>1, <2>2
  <1>4. /\ c \in Seq(S) /\ Len(c) = Len(t) + Len(u)
        /\ \A i \in 1 .. Len(t) + Len(u) :
             c[i] = IF i <= Len(t) THEN t[i] ELSE u[i - Len(t)]
    BY <1>3, ConcatProperties
  <1> HIDE DEF u, c
  <1>5. Positions(c, d) = {i \in 1 .. Len(c) : c[i] = d} /\ Occurrences(c, d) \in Nat
    BY <1>4, PositionsFinite
  <1>6. ASSUME NEW i \in Positions(c, d) PROVE i \in Positions(t, d) \cup Positions(s, d)
    <2>1. CASE i <= Len(t)
      BY <1>1, <1>4, <1>5, <1>6, <2>1
    <2>2. CASE i > Len(t)
      <3>1. i \in 1 .. Len(s) /\ i - Len(t) \in 1 .. Len(s) - Len(t)
        BY <1>1, <1>3, <1>4, <1>5, <1>6, <2>2
      <3>2. c[i] = u[i - Len(t)] /\ c[i] = d
        BY <1>1, <1>3, <1>4, <1>5, <1>6, <2>2
      <3>3. u[i - Len(t)] = s[i]
        BY <1>1, <1>3, <3>1
      <3>4. QED
        BY <1>1, <3>1, <3>2, <3>3
    <2>3. QED
      BY <1>1, <1>5, <1>6, <2>1, <2>2
  <1>7. /\ IsFiniteSet(Positions(t, d) \cup Positions(s, d))
        /\ Cardinality(Positions(t, d) \cup Positions(s, d)) \in Nat
        /\ Cardinality(Positions(t, d) \cup Positions(s, d)) <= Occurrences(t, d) + Occurrences(s, d)
    <2>1. IsFiniteSet(Positions(t, d) \cap Positions(s, d))
      <3>1. Positions(t, d) \cap Positions(s, d) \in SUBSET Positions(t, d)
        OBVIOUS
      <3>2. QED
        BY <1>1, <3>1, FS_Subset
    <2>2. Cardinality(Positions(t, d) \cap Positions(s, d)) \in Nat
      BY <2>1, FS_CardinalityType
    <2>3. /\ IsFiniteSet(Positions(t, d) \cup Positions(s, d))
          /\ Cardinality(Positions(t, d) \cup Positions(s, d)) =
               Occurrences(t, d) + Occurrences(s, d) - Cardinality(Positions(t, d) \cap Positions(s, d))
      BY <1>1, FS_Union DEF Occurrences
    <2>4. QED
      BY <1>1, <2>2, <2>3, FS_CardinalityType
  <1>8. Positions(c, d) \in SUBSET (Positions(t, d) \cup Positions(s, d))
    BY <1>6
  <1>9. Occurrences(c, d) <= Cardinality(Positions(t, d) \cup Positions(s, d))
    BY <1>7, <1>8, FS_Subset DEF Occurrences
  <1>10. QED
    BY <1>1, <1>5, <1>7, <1>9 DEF u, c

\* Reading from a position finds no delivery more often than it is in the file.
LEMMA RestCopies ==
  ASSUME file \in Seq(Records), NEW n \in Nat, NEW cut \in BOOLEAN, NEW d \in Deliveries
  PROVE  Occurrences(Rest(n, cut), d) <= Occurrences(file, d)
  <1> DEFINE r == Rest(n, cut)
  <1>1. /\ Len(file) \in Nat
        /\ Positions(file, d) = {i \in 1 .. Len(file) : file[i] = d}
        /\ IsFiniteSet(Positions(file, d))
    BY PositionsFinite
  <1>2. r \in Seq(Records) /\ Len(r) = IF n < Len(file) THEN Len(file) - n ELSE 0
    BY RestSeq
  <1>3. Positions(r, d) = {i \in 1 .. Len(r) : r[i] = d}
    BY <1>2, PositionsFinite
  <1>4. \A j \in 1 .. Len(file) : file[j] \in Records
    BY ElementOfSeq
  <1>5. ASSUME NEW i \in Positions(r, d) PROVE n + i \in Positions(file, d)
    <2>1. i \in 1 .. Len(file) - n /\ n < Len(file) /\ r[i] = d
      BY <1>1, <1>2, <1>3, <1>5
    <2>2. CASE cut
      <3>1. /\ SubSeq(file, n + 2, Len(file)) \in Seq(Records)
            /\ Len(SubSeq(file, n + 2, Len(file))) = Len(file) - n - 1
            /\ \A j \in 1 .. Len(file) - (n + 2) + 1 :
                 SubSeq(file, n + 2, Len(file))[j] = file[(n + 2) + j - 1]
        BY <1>1, <1>4, <2>1, SubSeqProperties
      <3>2. <<Fragment>> \in Seq(Records) /\ Len(<<Fragment>>) = 1
        BY SingletonSeq DEF Records
      <3>3. r = <<Fragment>> \o SubSeq(file, n + 2, Len(file))
        BY <1>1, <2>1, <2>2 DEF Rest
      <3>4. r[i] = IF i <= 1 THEN <<Fragment>>[i] ELSE SubSeq(file, n + 2, Len(file))[i - 1]
        <4> HIDE DEF r
        <4>1. QED
          BY <1>1, <2>1, <3>1, <3>2, <3>3, ConcatProperties
      <3>5. i # 1
        <4>1. <<Fragment>>[1] # d
          BY SinkAssumption
        <4> HIDE DEF r
        <4>2. QED
          BY <2>1, <3>4, <4>1
      <3>6. r[i] = file[n + i]
        <4> HIDE DEF r
        <4>1. QED
          BY <1>1, <2>1, <3>1, <3>4, <3>5
      <3>7. QED
        BY <1>1, <2>1, <3>6
    <2>3. CASE ~cut
      <3>1. \A j \in 1 .. Len(file) - (n + 1) + 1 :
              SubSeq(file, n + 1, Len(file))[j] = file[(n + 1) + j - 1]
        BY <1>1, <1>4, SubSeqProperties
      <3>2. r[i] = file[n + i]
        BY <1>1, <2>1, <2>3, <3>1 DEF Rest
      <3>3. QED
        BY <1>1, <2>1, <3>2
    <2>4. QED
      BY <2>2, <2>3
  <1> HIDE DEF r
  <1> DEFINE f == [i \in Positions(r, d) |-> n + i]
  <1>6. f \in Injection(Positions(r, d), Positions(file, d))
    <2>1. f \in [Positions(r, d) -> Positions(file, d)]
      BY <1>5
    <2>2. \A i, j \in Positions(r, d) : f[i] = f[j] => i = j
      BY <1>3
    <2>3. QED
      BY <2>1, <2>2 DEF Injection, IsInjective
  <1>7. Cardinality(Positions(r, d)) <= Cardinality(Positions(file, d))
    <2> HIDE DEF f
    <2>1. QED
      BY <1>1, <1>6, FS_Injection
  <1>8. QED
    BY <1>7 DEF Occurrences, r

LEMMA CopyInit == Init => CopyIInv
  <1> SUFFICES ASSUME Init PROVE CopyInv
    BY TypeInit DEF CopyIInv
  <1>1. \A d \in Deliveries : Occurrences(file, d) = 0
    <2> SUFFICES ASSUME NEW d \in Deliveries PROVE Positions(file, d) = {}
      BY FS_EmptySet DEF Occurrences
    <2>1. PICK n \in 0 .. MaxRecords + 1 : file = [i \in 1 .. n |-> Old]
      BY DEF Init
    <2>2. QED
      BY <2>1, SinkAssumption DEF Positions
  <1>2. QED
    BY <1>1 DEF Init, CopyInv

LEMMA CopyStep == CopyIInv /\ [Next]_vars => CopyIInv'
  <1> SUFFICES ASSUME CopyIInv, [Next]_vars, ~collision' PROVE CopyInv'
    BY TypeStep DEF CopyIInv
  <1>t. /\ TypeInv
        /\ pc \in [Handlers -> {"idle", "check", "seek", "read", "truncate",
                                "write", "append", "respond"}]
        /\ offset \in [Handlers -> Nat]
        /\ item \in [Handlers -> Records]
        /\ tail \in [Handlers -> Seq(Records)]
        /\ file \in Seq(Records)
        /\ appended \in [Deliveries -> Nat]
    BY DEF CopyIInv, TypeInv, TypeOK
  <1>u. ASSUME collision => collision' PROVE CopyInv
    BY <1>u DEF CopyIInv
  <1>n. \A d : Occurrences(file, d) \in Nat /\ \A g \in Handlers : Occurrences(tail[g], d) \in Nat
    BY <1>t, PositionsFinite
  \* A step after which nothing is in more places than before.
  <1>1. ASSUME NEW h \in Handlers, NEW label, label \notin {"truncate", "write"},
               Goto(h, label), CopyInv, UNCHANGED <<file, appended>>,
               \A g \in Handlers \ {h} : tail'[g] = tail[g]
        PROVE  CopyInv'
    <2>1. \A g \in Handlers : pc'[g] = IF g = h THEN label ELSE pc[g]
      BY <1>1, <1>t DEF Goto
    <2>2. QED
      BY <1>1, <2>1 DEF CopyInv
  <1>2. ASSUME NEW h \in Handlers, NEW d \in Deliveries, Post(h, d) PROVE CopyInv'
    BY <1>1, <1>2, <1>u DEF Post
  <1>3. ASSUME NEW h \in Handlers, CheckSize(h) PROVE CopyInv'
    BY <1>1, <1>3, <1>u DEF CheckSize
  <1>4. ASSUME NEW h \in Handlers, SeekTail(h) \/ SeekFails(h) PROVE CopyInv'
    BY <1>1, <1>4, <1>u DEF SeekTail, SeekFails
  <1>5. ASSUME NEW h \in Handlers, RetentionFails(h) PROVE CopyInv'
    BY <1>1, <1>5, <1>u, <1>t DEF RetentionFails
  <1>6. ASSUME NEW h \in Handlers, StoreFails(h) \/ Respond(h) PROVE CopyInv'
    BY <1>1, <1>6, <1>u DEF StoreFails, Respond
  <1>7. ASSUME NEW h \in Handlers, ReadTail(h) PROVE CopyInv'
    <2>1. CopyInv
      BY <1>7, <1>u DEF ReadTail
    <2>2. PICK cut \in BOOLEAN : tail' = [tail EXCEPT ![h] = Rest(offset[h], cut)]
      BY <1>7 DEF ReadTail
    <2>3. /\ file' = file /\ appended' = appended
          /\ \A g \in Handlers : pc'[g] = IF g = h THEN "truncate" ELSE pc[g]
          /\ \A g \in Handlers \ {h} : tail'[g] = tail[g]
          /\ tail'[h] = Rest(offset[h], cut)
      BY <1>7, <1>t, <2>2 DEF ReadTail, Goto
    <2>4. ASSUME NEW d \in Deliveries PROVE Occurrences(tail'[h], d) <= appended'[d]
      <3>1. Occurrences(tail'[h], d) <= Occurrences(file, d)
        BY <1>t, <2>3, RestCopies
      <3>2. Occurrences(tail'[h], d) \in Nat
        BY <1>t, <2>3, RestSeq, PositionsFinite
      <3>3. QED
        BY <1>n, <1>t, <2>1, <2>3, <3>1, <3>2 DEF CopyInv
    <2>5. QED
      BY <2>1, <2>3, <2>4 DEF CopyInv
  <1>8. ASSUME NEW h \in Handlers, Truncate(h) PROVE CopyInv'
    <2>1. CopyInv
      BY <1>8, <1>u DEF Truncate
    <2>2. /\ file' = <<>> /\ tail' = tail /\ appended' = appended /\ pc[h] = "truncate"
          /\ \A g \in Handlers : pc'[g] = IF g = h THEN "write" ELSE pc[g]
          /\ \A g \in Handlers \ {h} : pc[g] # "write" /\ pc[g] # "truncate"
      BY <1>8, <1>t DEF Truncate, Goto, Retaining
    <2>3. ASSUME NEW d \in Deliveries
          PROVE  Occurrences(file', d) = 0 /\ Occurrences(tail[h], d) <= appended[d]
      BY <2>1, <2>2, EmptyCopies DEF CopyInv
    <2>4. \A d \in Deliveries : Occurrences(file', d) <= appended'[d]
      BY <1>t, <2>2, <2>3
    <2>5. \A d \in Deliveries : Occurrences(tail'[h], d) + Occurrences(file', d) <= appended'[d]
      <3> SUFFICES ASSUME NEW d \in Deliveries
                   PROVE  Occurrences(tail'[h], d) + Occurrences(file', d) <= appended'[d]
        OBVIOUS
      <3>1. Occurrences(tail'[h], d) = Occurrences(tail[h], d) /\ appended'[d] = appended[d]
        BY <2>2
      <3>2. Occurrences(tail[h], d) \in Nat /\ appended[d] \in Nat
        BY <1>n, <1>t
      <3>3. QED
        BY <2>3, <3>1, <3>2
    <2>6. \A g \in Handlers : pc'[g] # "truncate" /\ (pc'[g] = "write" => g = h)
      BY <2>2
    <2>7. QED
      BY <2>4, <2>5, <2>6 DEF CopyInv
  <1>9. ASSUME NEW h \in Handlers, WriteTail(h) PROVE CopyInv'
    <2>1. CopyInv
      BY <1>9, <1>u DEF WriteTail
    <2>2. /\ file' = tail[h] \o SubSeq(file, Len(tail[h]) + 1, Len(file))
          /\ appended' = appended /\ pc[h] = "write"
          /\ \A g \in Handlers : pc'[g] = IF g = h THEN "append" ELSE pc[g]
          /\ \A g \in Handlers \ {h} : tail'[g] = tail[g]
      BY <1>9, <1>t DEF WriteTail, Goto
    <2>3. \A g \in Handlers : pc'[g] # "write"
      BY <2>1, <2>2 DEF CopyInv
    <2>4. ASSUME NEW d \in Deliveries PROVE Occurrences(file', d) <= appended[d]
      <3>1. Occurrences(file', d) <= Occurrences(tail[h], d) + Occurrences(file, d)
        BY <1>t, <2>2, OverwrittenCopies
      <3>2. Occurrences(file', d) \in Nat
        BY <1>t, <2>2, Overwritten, PositionsFinite
      <3>3. QED
        BY <1>n, <1>t, <2>1, <2>2, <3>1, <3>2 DEF CopyInv
    <2>5. QED
      BY <2>1, <2>2, <2>3, <2>4 DEF CopyInv
  <1>10. ASSUME NEW h \in Handlers, AppendLine(h) PROVE CopyInv'
    <2>1. CopyInv
      BY <1>10, <1>u DEF AppendLine
    <2>2. /\ file' = Append(file, item[h]) /\ tail' = tail
          /\ appended' = [appended EXCEPT ![item[h]] = @ + 1] /\ pc[h] = "append"
          /\ \A g \in Handlers : pc'[g] = IF g = h THEN "respond" ELSE pc[g]
      BY <1>10, <1>t DEF AppendLine, Goto
    <2>3. ASSUME NEW d \in Deliveries
          PROVE  /\ Occurrences(file', d) \in Nat
                 /\ Occurrences(file', d) <= Occurrences(file, d) + (appended'[d] - appended[d])
                 /\ appended'[d] \in Nat /\ appended'[d] >= appended[d]
      <3>1. Occurrences(file', d) <= Occurrences(file, d) + (IF item[h] = d THEN 1 ELSE 0)
        BY <1>t, <2>2, AppendCopies
      <3>2. appended'[d] = appended[d] + (IF item[h] = d THEN 1 ELSE 0)
        BY <1>t, <2>2
      <3>3. Occurrences(file', d) \in Nat
        BY <1>t, <2>2, AppendProperties, PositionsFinite
      <3>4. appended[d] \in Nat
        BY <1>t
      <3>5. QED
        BY <1>n, <3>1, <3>2, <3>3, <3>4
    <2>4. ASSUME NEW d \in Deliveries PROVE Occurrences(file', d) <= appended'[d]
      <3>1. Occurrences(file, d) <= appended[d] /\ appended[d] \in Nat
        BY <1>t, <2>1 DEF CopyInv
      <3>2. QED
        BY <1>n, <2>3, <3>1
    <2>5. ASSUME NEW g \in Handlers, NEW d \in Deliveries, pc'[g] = "truncate"
          PROVE  Occurrences(tail'[g], d) <= appended'[d]
      <3>1. Occurrences(tail[g], d) <= appended[d] /\ appended[d] \in Nat
        BY <1>t, <2>1, <2>2, <2>5 DEF CopyInv
      <3>2. QED
        BY <1>n, <2>2, <2>3, <3>1
    <2>6. ASSUME NEW g \in Handlers, NEW d \in Deliveries, pc'[g] = "write"
          PROVE  Occurrences(tail'[g], d) + Occurrences(file', d) <= appended'[d]
      <3>1. Occurrences(tail[g], d) + Occurrences(file, d) <= appended[d] /\ appended[d] \in Nat
        BY <1>t, <2>1, <2>2, <2>6 DEF CopyInv
      <3>2. QED
        BY <1>n, <2>2, <2>3, <3>1
    <2>7. \A g, k \in Handlers : pc'[g] = "write" /\ pc'[k] = "write" => g = k
      BY <2>1, <2>2 DEF CopyInv
    <2>8. QED
      BY <2>4, <2>5, <2>6, <2>7 DEF CopyInv
  <1>11. ASSUME NEW h \in Handlers, GiveUp(h) PROVE CopyInv'
    BY <1>11, <1>u DEF GiveUp, CopyInv
  <1>12. CASE Restart
    <2>1. CopyInv /\ file' = file /\ appended' = appended
      BY <1>12, <1>u DEF Restart
    <2>2. \A h \in Handlers : pc'[h] = "idle"
      BY <1>12 DEF Restart
    <2>3. QED
      BY <2>1, <2>2 DEF CopyInv
  <1>13. CASE Done \/ UNCHANGED vars
    <2>1. CopyInv /\ UNCHANGED vars
      BY <1>13, <1>u DEF Done, vars
    <2>2. QED
      BY <2>1 DEF vars, CopyInv
  <1>14. QED
    BY <1>2, <1>3, <1>4, <1>5, <1>6, <1>7, <1>8, <1>9, <1>10, <1>11, <1>12, <1>13
       DEF Next, ThreadStep

\* A delivery is in the file at most as often as it was appended, unless a thread
\* truncated the file in the middle of another one's retention.
THEOREM NothingForged == Spec => []NoForgedCopies
  <1>1. Spec => []CopyIInv
    BY CopyInit, CopyStep, PTL DEF Spec
  <1>2. CopyIInv => NoForgedCopies
    BY DEF CopyIInv, CopyInv, NoForgedCopies, Copies, Occurrences, Positions
  <1>3. QED
    BY <1>1, <1>2, PTL
=============================================================================
