----------------------------- MODULE PyConsumer -----------------------------
(***************************************************************************)
(* The Python consumer runtime: libs/common/estategap_common/broker/       *)
(* kafka_broker.py (create_consumer, consume, _handle_failure, stop).      *)
(*                                                                         *)
(* One partition of a topic is consumed by the pods of a group.  Unlike    *)
(* the Go runtime (KafkaConsumer), consume() is one sequential loop: it    *)
(* awaits the handler before it asks for the next record, it commits the   *)
(* consumer's positions after each record, and an error of the commit or   *)
(* of the dead-letter publish leaves the loop and ends the worker.         *)
(*                                                                         *)
(* A service module EXTENDS this one and supplies the handler: it takes a  *)
(* pod from "call" to Returned or Raised, possibly through "wait".         *)
(***************************************************************************)
EXTENDS Integers

CONSTANTS
  Pods,         \* the worker processes of the group
  Nobody,       \* the partition is assigned to no pod
  RetryLimit,   \* KafkaConfig.retry_limit
  MaxMessages,  \* bound of the model: messages published
  MaxFaults     \* bound of the model: crashes, rebalances, failed calls

NoOffset == -1

ASSUME PodsAssumption   == Nobody \notin Pods
ASSUME RetryAssumption  == RetryLimit \in Nat \ {0}
ASSUME BoundsAssumption == MaxMessages \in Nat /\ MaxFaults \in Nat

VARIABLES
  logEnd,      \* the last published message
  committed,   \* the group's committed offset; NoOffset: never committed
  owner,       \* the pod the partition is assigned to
  generation,  \* of the group
  pc,          \* what the consume loop of each pod is doing
  pos,         \* the consumer's position: the last record it was given
  cur,         \* the record in the hands of consume
  taken,       \* the generation in which it was fetched
  attempt,     \* the loop variable of the retry loop
  dead,        \* messages on the dead-letter topic
  base,        \* history: where consumption began without a committed offset
  faults

broker   == <<logEnd, committed, owner, generation, pc, pos, cur, taken, attempt, dead, base, faults>>
log_     == <<logEnd, committed, base>>
group    == <<owner, generation>>
reader   == <<pos, cur, taken>>

Messages == 1..MaxMessages
Loop     == {"down", "poll", "call", "wait", "deadletter", "commit", "closing"}

BrokerTypeOK ==
  /\ logEnd \in 0..MaxMessages
  /\ committed \in {NoOffset} \cup 0..MaxMessages
  /\ owner \in Pods \cup {Nobody}
  /\ generation \in Nat
  /\ pc \in [Pods -> Loop]
  /\ pos \in [Pods -> 0..MaxMessages]
  /\ cur \in [Pods -> 0..MaxMessages]
  /\ taken \in [Pods -> Nat]
  /\ attempt \in [Pods -> 0..RetryLimit]
  /\ dead \subseteq Messages
  /\ base \in 0..MaxMessages
  /\ faults \in 0..MaxFaults

BrokerInit ==
  /\ logEnd = 0
  /\ committed = NoOffset
  /\ owner = Nobody
  /\ generation = 0
  /\ pc = [p \in Pods |-> "down"]
  /\ pos = [p \in Pods |-> 0]
  /\ cur = [p \in Pods |-> 0]
  /\ taken = [p \in Pods |-> 0]
  /\ attempt = [p \in Pods |-> 0]
  /\ dead = {}
  /\ base = 0
  /\ faults = 0

Goto(p, stage) == pc' = [pc EXCEPT ![p] = stage]
Fault          == faults < MaxFaults /\ faults' = faults + 1
NoFault        == UNCHANGED faults

-----------------------------------------------------------------------------
(* The Kafka cluster                                                        *)

\* A producer appends a record to the partition.
Produce ==
  /\ logEnd < MaxMessages
  /\ logEnd' = logEnd + 1
  /\ UNCHANGED <<committed, base, group, pc, reader, attempt, dead, faults>>

\* The partition goes to p, which resumes after the committed offset or, when
\* there is none, at the end of the log (auto_offset_reset="latest").
AssignTo(p) ==
  LET start == IF committed = NoOffset THEN logEnd ELSE committed
  IN  /\ pc[p] \notin {"down", "closing"}
      /\ owner' = p
      /\ generation' = generation + 1
      /\ pos' = [pos EXCEPT ![p] = start]
      /\ base' = IF committed = NoOffset THEN start ELSE base
      /\ UNCHANGED <<logEnd, committed, pc, cur, taken, attempt, dead>>

Assign(p)    == owner = Nobody /\ AssignTo(p) /\ NoFault
Rebalance(p) == owner # Nobody /\ AssignTo(p) /\ Fault

-----------------------------------------------------------------------------
(* The loop of consume()                                                    *)

\* run(): the producer starts lazily, the consumer joins the group.
StartPod(p) ==
  /\ pc[p] = "down"
  /\ Goto(p, "poll")
  /\ UNCHANGED <<log_, group, reader, attempt, dead, faults>>

\* The next record is decoded and its first attempt begins.
Fetch(p) ==
  /\ pc[p] = "poll"
  /\ owner = p
  /\ pos[p] < logEnd
  /\ pos' = [pos EXCEPT ![p] = @ + 1]
  /\ cur' = [cur EXCEPT ![p] = pos[p] + 1]
  /\ taken' = [taken EXCEPT ![p] = generation]
  /\ attempt' = [attempt EXCEPT ![p] = 1]
  /\ Goto(p, "call")
  /\ UNCHANGED <<log_, group, dead, faults>>

\* The handler returned.
Returned(p) == Goto(p, "commit") /\ UNCHANGED attempt

\* Mutated form: the retry loop has no end.
RaisedForever(p) == Goto(p, "call") /\ UNCHANGED attempt

\* The handler raised: the next attempt begins at once, the last one fails.
Raised(p) ==
  IF attempt[p] = RetryLimit
  THEN Goto(p, "deadletter") /\ UNCHANGED attempt
  ELSE Goto(p, "call") /\ attempt' = [attempt EXCEPT ![p] = @ + 1]

\* _handle_failure publishes the record to the dead-letter topic.
DeadLetter(p) ==
  /\ pc[p] = "deadletter"
  /\ dead' = dead \cup {cur[p]}
  /\ Goto(p, "commit")
  /\ UNCHANGED <<log_, group, reader, attempt, faults>>

\* Mutated form: the offset of the record is committed, not that of the next one.
CommitRecordOffset(p) ==
  /\ pc[p] = "commit"
  /\ committed' = IF owner = p /\ pos[p] > 0 THEN pos[p] - 1 ELSE committed
  /\ Goto(p, "poll")
  /\ UNCHANGED <<logEnd, base, group, reader, attempt, dead, faults>>

\* commit() without offsets commits the positions of the assigned partitions:
\* nothing when the partition has moved on, and the reset position when it came
\* back meanwhile.
Commit(p) ==
  /\ pc[p] = "commit"
  /\ committed' = IF owner = p THEN pos[p] ELSE committed
  /\ Goto(p, "poll")
  /\ UNCHANGED <<logEnd, base, group, reader, attempt, dead, faults>>

\* The worker is gone: it leaves the group and forgets its record.
Gone(p) ==
  /\ Goto(p, "down")
  /\ owner' = IF owner = p THEN Nobody ELSE owner
  /\ attempt' = [attempt EXCEPT ![p] = 0]
  /\ cur' = [cur EXCEPT ![p] = 0]
  /\ pos' = [pos EXCEPT ![p] = 0]
  /\ taken' = [taken EXCEPT ![p] = 0]
  /\ UNCHANGED <<log_, generation, dead>>

\* An error of the commit or of the dead-letter publish escapes consume(), whose
\* callers close everything and end.
Escape(p) == pc[p] \in {"deadletter", "commit"} /\ Gone(p) /\ Fault

\* The pod is killed.
Crash(p) == pc[p] # "down" /\ Gone(p) /\ Fault

LoopStep(p) == Fetch(p) \/ DeadLetter(p) \/ Commit(p)

=============================================================================
