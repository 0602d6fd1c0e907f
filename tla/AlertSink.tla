----------------------------- MODULE AlertSink -----------------------------
(***************************************************************************)
(* The local alert sink (config/monitoring/exporters/alert_sink.py) and    *)
(* Alertmanager as its client. ThreadingHTTPServer runs every POST in a    *)
(* thread of its own, and the threads share the log file of the sink       *)
(* volume without a lock: _record() checks its size, keeps the newest half *)
(* of a file that is too large, and appends the payload, in separate       *)
(* system calls.                                                           *)
(*                                                                         *)
(* A payload is a delivery, with a single alert, and takes one unit of the *)
(* file; the half that is kept may begin inside a record (Fragment). An    *)
(* append is one write at the end of the file, whatever the other threads  *)
(* do to it. Left out: the replies to GET, the summary of the last         *)
(* delivery and the rejection of malformed requests.                       *)
(***************************************************************************)
EXTENDS Integers, Sequences, SequencesExt, FiniteSets

CONSTANTS
  Handlers,      \* the threads that may serve a POST at the same time
  Deliveries,    \* the payloads Alertmanager has to deliver
  Old,           \* a record of an earlier life of the volume
  Fragment,      \* the end of a record
  MaxRecords,    \* MAX_BYTES, in records
  MaxFailures    \* bound of the environment: lost answers, I/O errors, restarts

ASSUME SinkAssumption ==
  /\ IsFiniteSet(Handlers) /\ Handlers # {}
  /\ MaxRecords \in Nat \ {0}
  /\ Cardinality(Handlers) <= MaxRecords \div 2 + 1  \* 5 MiB, and few threads
  /\ MaxFailures \in Nat
  /\ Old \notin Deliveries /\ Fragment \notin Deliveries /\ Old # Fragment

VARIABLES
  file,        \* alerts.log
  count,       \* STATE["count"]
  pc,          \* what each thread does next
  item,        \* the payload it serves
  offset,      \* where it has sought to, before it reads
  tail,        \* the half it has read
  waiting,     \* the threads whose answer Alertmanager waits for
  acked,       \* the deliveries answered with 200
  \* History, which no action reads except to bound the environment.
  appended,    \* how often each delivery was appended
  aged,        \* the deliveries that were older than the half kept
  overlap,     \* has the rewriting of the file been disturbed?
  collision,   \* has a thread truncated the file in the middle of another retention?
  ioError,     \* has an I/O error ended a retention?
  failures

vars == <<file, count, pc, item, offset, tail, waiting, acked,
          appended, aged, overlap, collision, ioError, failures>>

-----------------------------------------------------------------------------
Records == Deliveries \cup {Old, Fragment}
Half == (MaxRecords + 1) \div 2      \* -(-MAX_BYTES // 2)

TypeOK ==
  /\ file \in Seq(Records)
  /\ count \in Nat
  /\ pc \in [Handlers -> {"idle", "check", "seek", "read", "truncate",
                          "write", "append", "respond"}]
  /\ item \in [Handlers -> Records]
  /\ offset \in [Handlers -> Nat]
  /\ tail \in [Handlers -> Seq(Records)]
  /\ waiting \subseteq Handlers
  /\ acked \subseteq Deliveries
  /\ appended \in [Deliveries -> Nat]
  /\ aged \subseteq Records
  /\ overlap \in BOOLEAN
  /\ collision \in BOOLEAN
  /\ ioError \in BOOLEAN
  /\ failures \in 0 .. MaxFailures

\* The volume may hold the log of earlier lives of the sink.
Init ==
  /\ \E n \in 0 .. MaxRecords + 1 : file = [i \in 1 .. n |-> Old]
  /\ count = 0
  /\ pc = [h \in Handlers |-> "idle"]
  /\ item = [h \in Handlers |-> Old]
  /\ offset = [h \in Handlers |-> 0] /\ tail = [h \in Handlers |-> <<>>]
  /\ waiting = {} /\ acked = {}
  /\ appended = [d \in Deliveries |-> 0]
  /\ aged = {} /\ overlap = FALSE /\ collision = FALSE /\ ioError = FALSE /\ failures = 0

Goto(h, label) == pc' = [pc EXCEPT ![h] = label]

\* A failure, after which the environment is allowed one less.
Failure ==
  /\ failures < MaxFailures
  /\ failures' = failures + 1

-----------------------------------------------------------------------------
(* do_POST and _record, step by step.                                      *)

\* Alertmanager posts what was not acknowledged and is not on its way; the
\* thread parses the payload and counts it under the lock.
StalePayload(h, d) ==                                 \* a mutated form
  /\ pc[h] = "idle"
  /\ d \notin acked
  /\ count' = count + 1
  /\ waiting' = waiting \cup {h}
  /\ Goto(h, "check")
  /\ UNCHANGED <<file, item, offset, tail, acked, appended, aged, overlap,
                 collision, ioError, failures>>
Post(h, d) ==
  /\ pc[h] = "idle"
  /\ d \notin acked
  /\ \A g \in waiting : item[g] # d
  /\ count' = count + 1
  /\ item' = [item EXCEPT ![h] = d]
  /\ waiting' = waiting \cup {h}
  /\ Goto(h, "check")
  /\ UNCHANGED <<file, offset, tail, acked, appended, aged, overlap, collision,
                 ioError, failures>>

\* os.path.getsize
TooLargeTwice == Len(file) > 2 * MaxRecords          \* a mutated form
TooLarge == Len(file) > MaxRecords

CheckSize(h) ==
  /\ pc[h] = "check"
  /\ Goto(h, IF TooLarge THEN "seek" ELSE "append")
  /\ UNCHANGED <<file, count, item, offset, tail, waiting, acked, appended, aged,
                 overlap, collision, ioError, failures>>

\* seek(-MAX_BYTES // 2, SEEK_END): what lies before is older than the newest half.
SeekTail(h) ==
  /\ pc[h] = "seek"
  /\ Len(file) >= Half
  /\ offset' = [offset EXCEPT ![h] = Len(file) - Half]
  /\ aged' = aged \cup {file[i] : i \in 1 .. Len(file) - Half}
  /\ Goto(h, "read")
  /\ UNCHANGED <<file, count, item, tail, waiting, acked, appended, overlap,
                 collision, ioError, failures>>

\* seek() before the start of a file that another thread has truncated is an
\* OSError, which ends the retention and not the delivery.
SeekForever(h) ==                                     \* a mutated form
  /\ pc[h] = "seek"
  /\ Len(file) < Half
  /\ UNCHANGED vars
SeekFails(h) ==
  /\ pc[h] = "seek"
  /\ Len(file) < Half
  /\ Goto(h, "append")
  /\ UNCHANGED <<file, count, item, offset, tail, waiting, acked, appended, aged,
                 overlap, collision, ioError, failures>>

\* The file from position n on, whose first record may be cut. A position that a
\* truncation has left behind the end gives nothing.
RestButOne(n, cut) == SubSeq(file, n + 2, Len(file))  \* a mutated form
Rest(n, cut) ==
  IF cut /\ n < Len(file)
  THEN <<Fragment>> \o SubSeq(file, n + 2, Len(file))
  ELSE SubSeq(file, n + 1, Len(file))

ReadTail(h) ==
  /\ pc[h] = "read"
  /\ \E cut \in BOOLEAN :
       /\ tail' = [tail EXCEPT ![h] = Rest(offset[h], cut)]
       /\ aged' = IF cut THEN aged \cup {file[i] : i \in {offset[h] + 1} \cap DOMAIN file}
                  ELSE aged
  /\ offset' = [offset EXCEPT ![h] = 0]
  /\ Goto(h, "truncate")
  /\ UNCHANGED <<file, count, item, waiting, acked, appended, overlap, collision,
                 ioError, failures>>

\* Is a thread between the size check and the writing of the half?
Retaining(h) == pc[h] \in {"seek", "read", "truncate", "write"}

\* open(LOG_PATH, "wb")
TruncateNothing(h) ==                                 \* a mutated form
  /\ pc[h] = "truncate"
  /\ Goto(h, "write")
  /\ UNCHANGED <<file, count, item, offset, tail, waiting, acked, appended, aged,
                 overlap, collision, ioError, failures>>
Truncate(h) ==
  /\ pc[h] = "truncate"
  /\ file' = <<>>
  /\ overlap' = (overlap \/ \E g \in Handlers : pc[g] = "read")
  /\ collision' = (collision \/ \E g \in Handlers \ {h} : Retaining(g))
  /\ Goto(h, "write")
  /\ UNCHANGED <<count, item, offset, tail, waiting, acked, appended, aged, ioError, failures>>

\* The half is written from the start of the file, over what was appended there.
WriteTail(h) ==
  /\ pc[h] = "write"
  /\ file' = tail[h] \o SubSeq(file, Len(tail[h]) + 1, Len(file))
  /\ tail' = [tail EXCEPT ![h] = <<>>]
  /\ overlap' = (overlap \/ \E g \in Handlers : pc[g] = "read")
  /\ Goto(h, "append")
  /\ UNCHANGED <<count, item, offset, waiting, acked, appended, aged, collision,
                 ioError, failures>>

\* An OSError of any call of the retention is ignored.
RetentionFails(h) ==
  /\ pc[h] = "check" \/ Retaining(h)
  /\ Failure
  /\ overlap' = (overlap \/ pc[h] = "write")
  /\ ioError' = TRUE
  /\ offset' = [offset EXCEPT ![h] = 0]
  /\ tail' = [tail EXCEPT ![h] = <<>>]
  /\ Goto(h, "append")
  /\ UNCHANGED <<file, count, item, waiting, acked, appended, aged, collision>>

\* Has another thread read its half, and not yet written it?
Rewriting(h) == \E g \in Handlers \ {h} : pc[g] \in {"truncate", "write"}

AppendLine(h) ==
  /\ pc[h] = "append"
  /\ file' = Append(file, item[h])
  /\ appended' = [appended EXCEPT ![item[h]] = @ + 1]
  /\ overlap' = (overlap \/ Rewriting(h))
  /\ Goto(h, "respond")
  /\ UNCHANGED <<count, item, offset, tail, waiting, acked, aged, collision,
                 ioError, failures>>

\* makedirs() or the append raises: the thread ends without an answer.
StoreErrorIgnored(h) ==                               \* a mutated form
  /\ pc[h] \in {"check", "append"}
  /\ Failure
  /\ Goto(h, "respond")
  /\ UNCHANGED <<file, count, item, offset, tail, waiting, acked, appended, aged,
                 overlap, collision, ioError>>
StoreFails(h) ==
  /\ pc[h] \in {"check", "append"}
  /\ Failure
  /\ waiting' = waiting \ {h}
  /\ Goto(h, "idle")
  /\ UNCHANGED <<file, count, item, offset, tail, acked, appended, aged, overlap,
                 collision, ioError>>

\* send_response(200), which Alertmanager may no longer wait for.
Respond(h) ==
  /\ pc[h] = "respond"
  /\ acked' = IF h \in waiting THEN acked \cup {item[h]} ELSE acked
  /\ waiting' = waiting \ {h}
  /\ Goto(h, "idle")
  /\ UNCHANGED <<file, count, item, offset, tail, appended, aged, overlap,
                 collision, ioError, failures>>

-----------------------------------------------------------------------------
(* The environment.                                                        *)

\* Alertmanager's request times out, or its connection breaks.
GiveUp(h) ==
  /\ h \in waiting
  /\ Failure
  /\ waiting' = waiting \ {h}
  /\ UNCHANGED <<file, count, pc, item, offset, tail, acked, appended, aged,
                 overlap, collision, ioError>>

\* The container is killed and restarted; the volume stays.
Restart ==
  /\ Failure
  /\ count' = 0
  /\ pc' = [h \in Handlers |-> "idle"]
  /\ item' = [h \in Handlers |-> Old]
  /\ offset' = [h \in Handlers |-> 0] /\ tail' = [h \in Handlers |-> <<>>]
  /\ waiting' = {}
  /\ overlap' = (overlap \/ \E h \in Handlers : pc[h] = "write")
  /\ UNCHANGED <<file, acked, appended, aged, collision, ioError>>

-----------------------------------------------------------------------------
ThreadStep(h) ==
  \/ CheckSize(h) \/ SeekTail(h) \/ SeekFails(h) \/ ReadTail(h) \/ Truncate(h) \/ WriteTail(h)
  \/ RetentionFails(h) \/ AppendLine(h) \/ StoreFails(h) \/ Respond(h)

\* Everything is delivered and no thread runs: the model, not the sink, stops.
Done ==
  /\ Deliveries \subseteq acked
  /\ \A h \in Handlers : pc[h] = "idle"
  /\ UNCHANGED vars

Next ==
  \/ \E h \in Handlers : \E d \in Deliveries : Post(h, d)
  \/ \E h \in Handlers : ThreadStep(h) \/ GiveUp(h)
  \/ Restart
  \/ Done

Spec == Init /\ [][Next]_vars

\* Threads run, and Alertmanager retries until it gets an answer.
FairSpec ==
  /\ Spec
  /\ \A h \in Handlers : WF_vars(ThreadStep(h))
  /\ \A d \in Deliveries : WF_vars(\E h \in Handlers : Post(h, d))

-----------------------------------------------------------------------------
(* Properties.                                                             *)

InFlight(d) == \E h \in Handlers : pc[h] = "write" /\ d \in Range(tail[h])
Kept(d) == d \in Range(file) \/ InFlight(d)

\* A delivery is answered with 200 only after it was appended: an I/O error
\* leads to a retry, never to an acknowledged delivery nobody stored.
AckedMeansAppended == \A d \in acked : appended[d] > 0

\* The only ways to lose an acknowledged delivery that is not old are: an append
\* while another thread rewrites the file, a truncation or a write of the half
\* while another thread is about to read its own, and a crash or an I/O error
\* between truncation and write.
LostOnlyInOverlap == ~overlap => \A d \in acked : Kept(d) \/ d \in aged

\* A retention never multiplies a record, unless another one truncates the file
\* meanwhile.
Copies(d) == Cardinality({i \in DOMAIN file : file[i] = d})
NoForgedCopies == ~collision => \A d \in Deliveries : Copies(d) <= appended[d]

\* Unless a retention failed or was disturbed by another one, the file exceeds
\* MAX_BYTES by at most one record for each thread: those that passed the size
\* check before another one appended.
SizeBounded ==
  ~ioError /\ ~collision => Len(file) <= MaxRecords + Cardinality(Handlers)

\* Every delivery is acknowledged in the end.
EventuallyAcked == \A d \in Deliveries : <>(d \in acked)

-----------------------------------------------------------------------------
(* What the documentation of the sink says, and the code does not do.      *)

\* "stored to the sink volume", of which retention keeps "the newest half".
AckedStored == \A d \in acked : Kept(d) \/ d \in aged
=============================================================================
