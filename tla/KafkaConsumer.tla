---------------------------- MODULE KafkaConsumer ----------------------------
(***************************************************************************)
(* The Go consumer runtime shared by every EstateGap service:             *)
(* libs/pkg/broker/kafka.go (ConsumeReader, Subscribe, publishDeadLetter)  *)
(* and the reader pool of alert-dispatcher (consumer.Start).               *)
(*                                                                         *)
(* One partition of a topic is consumed by a consumer group.  Messages are *)
(* the numbers 1, 2, ... in log order.  A committed offset n means that    *)
(* the group will not be given the messages 1..n again.                    *)
(***************************************************************************)
EXTENDS Integers, FiniteSets

CONSTANTS
  Readers,        \* the kafka.Reader goroutines of the consumer group
  Processes,      \* the pods that run them
  Proc,           \* Proc[r] is the pod of reader r
  MaxRetries,     \* KafkaConfig.MaxRetries after NewKafkaBroker's default
  CancelOnError,  \* TRUE: Subscribe cancels the siblings of a failed reader;
                  \* FALSE: the pools of alert-dispatcher and alert-engine do not
  NoReader,       \* the partition is assigned to nobody
  MaxMessages,    \* bound of the model: messages published
  MaxFaults       \* bound of the model: crashes, broker errors, rebalances

NoOffset == -1    \* the group never committed; nothing is stashed

ASSUME ReadersAssumption == Proc \in [Readers -> Processes] /\ NoReader \notin Readers
ASSUME RetriesAssumption == MaxRetries \in Nat \ {0}
ASSUME BoundsAssumption  == MaxMessages \in Nat /\ MaxFaults \in Nat
ASSUME CancelAssumption  == CancelOnError \in BOOLEAN

VARIABLES
  logEnd,     \* the last published message
  committed,  \* the group's committed offset at the Kafka coordinator
  owner,      \* the reader the partition is assigned to
  pc,         \* what each ConsumeReader loop is doing
  pos,        \* the last message the reader's fetcher handed out
  cur,        \* the message in the hands of ConsumeReader
  attempt,    \* the loop variable of the retry loop
  stash,      \* offset given to CommitMessages and not yet sent (CommitInterval)
  handled,    \* messages for which the handler returned nil
  dead,       \* messages on the dead-letter topic
  cancelled,  \* pods whose subscription context is cancelled
  base,       \* history: start offset of the last assignment without a commit
  faults      \* how many faults happened so far

vars == <<logEnd, committed, owner, pc, pos, cur, attempt, stash, handled,
          dead, cancelled, base, faults>>

group    == <<committed, owner>>
outcomes == <<handled, dead>>
history  == <<base>>

Messages == 1..MaxMessages
Offsets  == 0..MaxMessages
Resolved == handled \cup dead
Stages   == {"stopped", "fetch", "handle", "deadletter", "commit"}
Busy     == {"handle", "deadletter", "commit"}

TypeOK ==
  /\ logEnd \in Offsets
  /\ committed \in Offsets \cup {NoOffset}
  /\ owner \in Readers \cup {NoReader}
  /\ pc \in [Readers -> Stages]
  /\ pos \in [Readers -> Offsets]
  /\ cur \in [Readers -> Offsets]
  /\ attempt \in [Readers -> 0..MaxRetries]
  /\ stash \in [Readers -> Offsets \cup {NoOffset}]
  /\ handled \subseteq Messages
  /\ dead \subseteq Messages
  /\ cancelled \subseteq Processes
  /\ base \in Offsets
  /\ faults \in 0..MaxFaults

Init ==
  /\ logEnd = 0
  /\ committed = NoOffset
  /\ owner = NoReader
  /\ pc = [r \in Readers |-> "stopped"]
  /\ pos = [r \in Readers |-> 0]
  /\ cur = [r \in Readers |-> 0]
  /\ attempt = [r \in Readers |-> 0]
  /\ stash = [r \in Readers |-> NoOffset]
  /\ handled = {}
  /\ dead = {}
  /\ cancelled = {}
  /\ base = 0
  /\ faults = 0

Fault == faults < MaxFaults /\ faults' = faults + 1
Goto(r, stage) == pc' = [pc EXCEPT ![r] = stage]
ReadersOf(p)   == {r \in Readers : Proc[r] = p}

-----------------------------------------------------------------------------
(* The Kafka cluster, as kafka.go relies on it                              *)

\* A producer appends a message to the partition.
Publish ==
  /\ logEnd < MaxMessages
  /\ logEnd' = logEnd + 1
  /\ UNCHANGED <<group, pc, pos, cur, attempt, stash, outcomes, cancelled, history, faults>>

\* A new generation of the group gives the partition to r, which resumes after
\* the committed offset, or at the end of the log when the group has none
\* (StartOffset: kafka.LastOffset).  A reader of the previous generation that is
\* inside its handler is not interrupted.
AssignTo(r) ==
  LET start == IF committed = NoOffset THEN logEnd ELSE committed
  IN  /\ pc[r] # "stopped"
      /\ owner' = r
      /\ pos' = [pos EXCEPT ![r] = start]
      /\ base' = IF committed = NoOffset THEN start ELSE base
      /\ UNCHANGED <<logEnd, committed, pc, cur, attempt, stash, outcomes, cancelled>>

Assign(r)    == owner = NoReader /\ AssignTo(r) /\ UNCHANGED faults
Rebalance(r) == owner # NoReader /\ AssignTo(r) /\ Fault

\* The commit loop of r sends the stashed offset.  One that belongs to an older
\* generation may be refused by the coordinator, or be accepted.
Flush(r) ==
  /\ stash[r] # NoOffset
  /\ stash' = [stash EXCEPT ![r] = NoOffset]
  /\ \/ committed' = stash[r]
     \/ owner # r /\ UNCHANGED committed
  /\ UNCHANGED <<logEnd, owner, pc, pos, cur, attempt, outcomes, cancelled, history, faults>>

-----------------------------------------------------------------------------
(* The pod: Subscribe / consumer.Start                                      *)

\* The pod starts (or Kubernetes restarts it once Subscribe or Start returned):
\* one reader goroutine per NewReader.
StartPod(p) ==
  /\ \A r \in ReadersOf(p) : pc[r] = "stopped"
  /\ pc' = [r \in Readers |-> IF Proc[r] = p THEN "fetch" ELSE pc[r]]
  /\ cancelled' = cancelled \ {p}
  /\ UNCHANGED <<logEnd, group, pos, cur, attempt, stash, outcomes, history, faults>>

\* The pod is killed: whatever CommitMessages had stashed is lost.
Crash(p) ==
  /\ \E r \in ReadersOf(p) : pc[r] # "stopped"
  /\ Fault
  /\ pc' = [r \in Readers |-> IF Proc[r] = p THEN "stopped" ELSE pc[r]]
  /\ stash' = [r \in Readers |-> IF Proc[r] = p THEN NoOffset ELSE stash[r]]
  /\ owner' = IF owner \in ReadersOf(p) THEN NoReader ELSE owner
  /\ UNCHANGED <<logEnd, committed, pos, cur, attempt, outcomes, cancelled, history>>

\* SIGTERM: the root context is cancelled.
Terminate(p) ==
  /\ p \notin cancelled
  /\ \E r \in ReadersOf(p) : pc[r] # "stopped"
  /\ Fault
  /\ cancelled' = cancelled \cup {p}
  /\ UNCHANGED <<logEnd, group, pc, pos, cur, attempt, stash, outcomes, history>>

\* ConsumeReader returns: its deferred Close leaves the group after a last
\* commit of the stash, which may fail.
Return(r) ==
  /\ Goto(r, "stopped")
  /\ stash' = [stash EXCEPT ![r] = NoOffset]
  /\ \/ stash[r] # NoOffset /\ committed' = stash[r]
     \/ UNCHANGED committed
  /\ owner' = IF owner = r THEN NoReader ELSE owner
  /\ UNCHANGED <<logEnd, pos, cur, attempt, history>>

\* ... with an error: Subscribe cancels the other readers of the pod.
ReturnError(r) ==
  /\ Return(r)
  /\ cancelled' = IF CancelOnError THEN cancelled \cup {Proc[r]} ELSE cancelled

-----------------------------------------------------------------------------
(* ConsumeReader                                                            *)

\* FetchMessage selects between the next message and the cancelled context: it may
\* still hand out a message when both are there.
Fetch(r) ==
  /\ pc[r] = "fetch"
  /\ owner = r
  /\ pos[r] < logEnd
  /\ pos' = [pos EXCEPT ![r] = @ + 1]
  /\ cur' = [cur EXCEPT ![r] = pos[r] + 1]
  /\ attempt' = [attempt EXCEPT ![r] = 1]
  /\ Goto(r, "handle")
  /\ UNCHANGED <<logEnd, group, stash, outcomes, cancelled, history, faults>>

\* FetchMessage returns the cancelled context's error: a clean return.
FetchCancelled(r) ==
  /\ pc[r] = "fetch"
  /\ Proc[r] \in cancelled
  /\ Return(r)
  /\ UNCHANGED <<outcomes, cancelled, faults>>

FetchError(r) ==
  /\ pc[r] = "fetch"
  /\ Proc[r] \notin cancelled
  /\ Fault
  /\ ReturnError(r)
  /\ UNCHANGED outcomes

HandleOk(r) ==
  /\ pc[r] = "handle"
  /\ handled' = handled \cup {cur[r]}
  /\ Goto(r, "commit")
  /\ UNCHANGED <<logEnd, group, pos, cur, attempt, stash, dead, cancelled, history, faults>>

\* Mutated form: the give-up test is one call late.
HandleErrorLate(r) ==
  /\ pc[r] = "handle"
  /\ IF attempt[r] > MaxRetries
     THEN Goto(r, "deadletter") /\ UNCHANGED attempt
     ELSE attempt' = [attempt EXCEPT ![r] = @ + 1] /\ UNCHANGED pc
  /\ UNCHANGED <<logEnd, group, pos, cur, stash, outcomes, cancelled, history, faults>>

\* Mutated form: the loop starts over instead of giving up.
HandleErrorForever(r) ==
  /\ pc[r] = "handle"
  /\ attempt' = [attempt EXCEPT ![r] = IF @ = MaxRetries THEN 1 ELSE @ + 1]
  /\ UNCHANGED <<logEnd, group, pc, pos, cur, stash, outcomes, cancelled, history, faults>>

\* Mutated form: a message that exhausted its retries is committed, not dead-lettered.
HandleErrorDrop(r) ==
  /\ pc[r] = "handle"
  /\ IF attempt[r] = MaxRetries
     THEN Goto(r, "commit") /\ UNCHANGED attempt
     ELSE attempt' = [attempt EXCEPT ![r] = @ + 1] /\ UNCHANGED pc
  /\ UNCHANGED <<logEnd, group, pos, cur, stash, outcomes, cancelled, history, faults>>

\* The handler returns an error: try again, or give up after MaxRetries calls.
HandleError(r) ==
  /\ pc[r] = "handle"
  /\ IF attempt[r] = MaxRetries
     THEN Goto(r, "deadletter") /\ UNCHANGED attempt
     ELSE attempt' = [attempt EXCEPT ![r] = @ + 1] /\ UNCHANGED pc
  /\ UNCHANGED <<logEnd, group, pos, cur, stash, outcomes, cancelled, history, faults>>

DeadLetter(r) ==
  /\ pc[r] = "deadletter"
  /\ dead' = dead \cup {cur[r]}
  /\ Goto(r, "commit")
  /\ UNCHANGED <<logEnd, group, pos, cur, attempt, stash, handled, cancelled, history, faults>>

\* Mutated form: the failed dead-letter write is logged and the message committed.
DeadLetterErrorIgnored(r) ==
  /\ pc[r] = "deadletter"
  /\ Fault \/ (Proc[r] \in cancelled /\ UNCHANGED faults)
  /\ Goto(r, "commit")
  /\ UNCHANGED <<logEnd, group, pos, cur, attempt, stash, outcomes, cancelled, history>>

\* Mutated form: after a failed dead-letter write the loop continues.
DeadLetterErrorContinues(r) ==
  /\ pc[r] = "deadletter"
  /\ Fault \/ (Proc[r] \in cancelled /\ UNCHANGED faults)
  /\ Goto(r, "fetch")
  /\ UNCHANGED <<logEnd, group, pos, cur, attempt, stash, outcomes, cancelled, history>>

\* The write to the dead-letter topic fails, or the context was cancelled.
DeadLetterError(r) ==
  /\ pc[r] = "deadletter"
  /\ Fault \/ (Proc[r] \in cancelled /\ UNCHANGED faults)
  /\ ReturnError(r)
  /\ UNCHANGED outcomes

\* CommitMessages only stashes the offset; the highest one wins.
Commit(r) ==
  /\ pc[r] = "commit"
  /\ stash' = [stash EXCEPT ![r] = IF @ < cur[r] THEN cur[r] ELSE @]
  /\ Goto(r, "fetch")
  /\ UNCHANGED <<logEnd, group, pos, cur, attempt, outcomes, cancelled, history, faults>>

\* With a cancelled context CommitMessages may refuse the offset.
CommitCancelled(r) ==
  /\ pc[r] = "commit"
  /\ Proc[r] \in cancelled
  /\ ReturnError(r)
  /\ UNCHANGED <<outcomes, faults>>

-----------------------------------------------------------------------------
ReaderStep(r) ==
  \/ Assign(r) \/ Rebalance(r) \/ Flush(r)
  \/ Fetch(r) \/ FetchCancelled(r) \/ FetchError(r)
  \/ HandleOk(r) \/ HandleError(r)
  \/ DeadLetter(r) \/ DeadLetterError(r)
  \/ Commit(r) \/ CommitCancelled(r)

PodStep(p) == StartPod(p) \/ Crash(p) \/ Terminate(p)

Next ==
  \/ Publish
  \/ \E p \in Processes : PodStep(p)
  \/ \E r \in Readers : ReaderStep(r)

Spec == Init /\ [][Next]_vars

\* Handlers return (they run under timeouts), a reader keeps looping, the group
\* coordinator assigns the partition, the commit loop ticks and Kubernetes
\* restarts pods.  Nothing is assumed of producers or of faults.
Fairness ==
  /\ \A p \in Processes : WF_vars(StartPod(p))
  /\ \A r \in Readers :
       /\ WF_vars(Assign(r))
       /\ WF_vars(Flush(r))
       /\ WF_vars(Fetch(r))
       /\ WF_vars(FetchCancelled(r))
       /\ WF_vars(HandleOk(r) \/ HandleError(r))
       /\ WF_vars(DeadLetter(r))
       /\ WF_vars(Commit(r))

FairSpec == Spec /\ Fairness

-----------------------------------------------------------------------------
(* Properties                                                               *)

Settled(m) == m <= base \/ m \in Resolved

\* No offset that the group has committed, or is about to commit, passes a
\* message that no handler finished and that is not on the dead-letter topic:
\* ConsumeReader commits only after the handler's nil or the dead-letter write,
\* whatever crashes, rebalances and zombie readers do in between.
CommittedSettled ==
  /\ \A m \in 1..committed : Settled(m)
  /\ \A r \in Readers : \A m \in 1..stash[r] : Settled(m)

\* Head-of-line blocking: a reader that works on a message has every earlier one
\* settled, by its own hand or another's, also after a failed dead-letter write and
\* in an old generation.  It says nothing of handlers that run again: a zombie or a
\* redelivery may handle an earlier message after a later one.
EarlierSettled ==
  \A r \in Readers : pc[r] \in Busy => \A m \in 1..(cur[r] - 1) : Settled(m)

\* The consumer runtime implements at-least-once delivery.
Abs == INSTANCE AtLeastOnce WITH published <- logEnd, start <- base, acked <- committed
ImplementsAtLeastOnce == Abs!Spec

\* Once the group has an offset of its own, every later message is eventually
\* handled or dead-lettered, in spite of crashes, failed dead-letter writes,
\* refused commits and rebalances.
EventuallySettled ==
  \A m \in Messages : (committed # NoOffset /\ m <= logEnd) ~> Settled(m)

=============================================================================
