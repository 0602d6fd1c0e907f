---------------------------- MODULE RedisServer ----------------------------
(***************************************************************************)
(* The Redis state that the monitoring exporter observes: the ACL LOG, the *)
(* posture of the default user and the kombu binding sets. Redis itself is *)
(* outside the repository; what is modelled here is what                   *)
(* config/monitoring/exporters/redis_monitor_exporter.py reads of it, with *)
(* the limits that config/redis/redis.conf sets.                           *)
(***************************************************************************)
EXTENDS Integers, Sequences, SequencesExt

CONSTANTS
  Kinds,     \* the kinds of ACL LOG entry that occur (a subset of AclKinds)
  LogLen,    \* acllog-max-len
  GroupMax,  \* how many of the newest entries may absorb a similar event
  Bindings   \* the pairs <<binding set, member>> that may exist

\* An ACL LOG entry reports a command denial or a failed authentication, by
\* the emergency identity or by another one.
AclKinds == [reason : {"command", "auth"}, emergency : BOOLEAN]

ASSUME ServerAssumption ==
  /\ Kinds \subseteq AclKinds
  /\ LogLen \in Nat \ {0}
  /\ GroupMax \in Nat \ {0}
  /\ IsFiniteSet(Bindings)

VARIABLES
  aclLog,    \* the ACL LOG, newest entry first
  nextId,    \* the entry-id of the next new entry
  posture,   \* can the default user run commands, and without a password?
  bindings   \* the members of the binding sets

serverVars == <<aclLog, nextId, posture, bindings>>

Entries == [id : Nat, count : Nat, kind : Kinds]

\* "off": deny by default. "on": usable with a password. "nopass": usable
\* without one, so that protected mode refuses every remote connection.
Postures == {"off", "on", "nopass"}

ServerTypeOK ==
  /\ aclLog \in Seq(Entries)
  /\ nextId \in Nat
  /\ posture \in Postures
  /\ bindings \subseteq Bindings

ServerInit ==
  /\ aclLog = <<>>
  /\ nextId = 0
  /\ posture \in Postures
  /\ bindings \in SUBSET Bindings

\* The binding sets are keys of Redis; an empty set is no key.
Keys == {b[1] : b \in Bindings}
MembersOf(k) == {b \in bindings : b[1] = k}

\* What ACL LOG n returns: the n newest entries.
Newest(n) == SubSeq(aclLog, 1, IF Len(aclLog) < n THEN Len(aclLog) ELSE n)

-----------------------------------------------------------------------------
\* A similar entry among the newest absorbs the event and moves to the head
\* of the log; Redis looks no further down.
GroupEvent(k) ==
  /\ \E i \in DOMAIN aclLog :
       /\ i <= GroupMax
       /\ aclLog[i].kind = k
       /\ aclLog' = <<[aclLog[i] EXCEPT !.count = @ + 1]>> \o RemoveAt(aclLog, i)
  /\ UNCHANGED <<nextId, posture, bindings>>

\* A new entry goes to the head; the oldest one leaves a full log.
NewEvent(k) ==
  /\ aclLog' = <<[id |-> nextId, count |-> 1, kind |-> k]>>
               \o SubSeq(aclLog, 1, IF Len(aclLog) < LogLen THEN Len(aclLog) ELSE LogLen - 1)
  /\ nextId' = nextId + 1
  /\ UNCHANGED <<posture, bindings>>

LogEvent(k) == GroupEvent(k) \/ NewEvent(k)

\* The log and its ids live in memory only. config/redis/entrypoint.sh renders
\* the ACL file anew, with the default user off or, in the rollout window, on
\* without a password. The data is that of the last snapshot (appendonly no).
RestartServer ==
  /\ aclLog' = <<>>
  /\ nextId' = 0
  /\ posture' \in {"off", "nopass"}
  /\ bindings' \in SUBSET Bindings

SetPosture(p) ==
  /\ p # posture
  /\ posture' = p
  /\ UNCHANGED <<aclLog, nextId, bindings>>

AddBinding(b) ==
  /\ b \notin bindings
  /\ bindings' = bindings \cup {b}
  /\ UNCHANGED <<aclLog, nextId, posture>>

RemoveBinding(b) ==
  /\ b \in bindings
  /\ bindings' = bindings \ {b}
  /\ UNCHANGED <<aclLog, nextId, posture>>
=============================================================================
