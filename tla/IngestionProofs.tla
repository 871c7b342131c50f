-------------------------- MODULE IngestionProofs --------------------------
(***************************************************************************)
(* Proofs about the two services that bring listings in, with the consume  *)
(* loop of PyConsumer under them.                                          *)
(*                                                                         *)
(* Normalizer, for any pods, contents, mappings, rates, batch sizes and    *)
(* faults: the service implements AtLeastOnce, a listing goes back to an   *)
(* older version only by the hand of a stale pod, and only a refused       *)
(* record strands a worker.                                                *)
(*                                                                         *)
(* Spider (Sp below), for any pods, homes, zones, page sizes, commands,    *)
(* portals and faults: a swept zone published all that stayed on the       *)
(* portal, or passed it over, and a detected home is published before it   *)
(* is marked as seen, and once for a zone.                                 *)
(***************************************************************************)
EXTENDS Normalizer, SpiderState, FiniteSetTheorems, TLAPS

Sp == INSTANCE Spider

\* consume has a record in its hands.
Busy == {"call", "wait", "deadletter", "commit"}

\* What is in hand is a published message.
Bounded ==
  /\ committed <= logEnd /\ base <= logEnd
  /\ DOMAIN rows = Sources
  /\ \A p \in Pods :
       /\ pos[p] <= logEnd
       /\ cur[p] <= logEnd
       /\ pc[p] \in Busy => cur[p] >= 1
       /\ queued[p] <= logEnd
       /\ timer[p] => queued[p] >= 1
       /\ job[p].msg <= logEnd
       /\ job[p] = Idle \/ (job[p].stage # "none" /\ job[p].by # "none" /\ job[p].msg >= 1)

Basics == TypeOK /\ Bounded

-----------------------------------------------------------------------------
(* What the operators do                                                    *)

\* The retry loop stays in its range.
LEMMA RaisedEffect ==
  ASSUME BrokerTypeOK, NEW p \in Pods, Raised(p)
  PROVE  /\ pc' = [pc EXCEPT ![p] = pc'[p]] /\ pc'[p] \in {"call", "deadletter"}
         /\ attempt' \in [Pods -> 0..RetryLimit]
<1> USE RetryAssumption DEF BrokerTypeOK, Raised, Goto, Loop
<1>1. CASE attempt[p] = RetryLimit
  BY <1>1
<1>2. CASE attempt[p] # RetryLimit
  <2>1. attempt[p] + 1 \in 0..RetryLimit
    BY <1>2
  <2> QED
    BY <1>2, <2>1
<1> QED
  BY <1>1, <1>2

\* The end of a batch: the process is gone, or the record is no longer in the batch
\* and the handler that awaits it goes on, to the commit only if all went well.
Ends(p, how) ==
  /\ job[p].by # "close"
  /\ job' = [job EXCEPT ![p] = Idle]
  /\ UNCHANGED <<log_, group, reader, dead, cache, intake>>
  /\ \/ UNCHANGED <<pc, attempt>> /\ (~Awaited(p) \/ (how = "escape" /\ job[p].by = "task"))
     \/ /\ pc[p] = "wait" /\ cur[p] = job[p].msg
        /\ pc' = [pc EXCEPT ![p] = pc'[p]]
        /\ pc'[p] \in {"call", "deadletter"} \/ (pc'[p] = "commit" /\ how = "ok")
        /\ attempt' \in [Pods -> 0..RetryLimit]

LEMMA FinishEffect ==
  ASSUME Basics, NEW p \in Pods, NEW how \in {"ok", "error", "escape"}, Finish(p, how),
         job[p] # Idle
  PROVE  (job[p].by = "close" /\ Gone(p) /\ Forget(p)) \/ Ends(p, how)
<1> USE DEF Basics, TypeOK, BrokerTypeOK, Bounded
<1>1. CASE job[p].by = "close"
  BY <1>1 DEF Finish
<1>2. CASE job[p].by # "close" /\ Awaited(p) /\ how = "ok"
  <2>1. Returned(p)
    BY <1>2 DEF Finish
  <2> QED
    BY <1>2, <2>1 DEF Finish, Ends, Ended, Returned, Goto, Awaited
<1>3. CASE job[p].by # "close" /\ Awaited(p) /\ how # "ok" /\ (how = "error" \/ job[p].by = "handler")
  <2>1. Raised(p)
    BY <1>3 DEF Finish
  <2> QED
    BY <1>3, <2>1, RaisedEffect DEF Finish, Ends, Ended, Awaited
<1>4. CASE job[p].by # "close" /\ ~Awaited(p)
  BY <1>4 DEF Finish, Ends, Ended
<1>5. CASE job[p].by = "task" /\ Awaited(p) /\ how = "escape"
  BY <1>5 DEF Finish, Ends, Ended
<1>6. job[p].by \in {"task", "handler", "close"}
  OBVIOUS
<1> QED
  BY <1>1, <1>2, <1>3, <1>4, <1>5, <1>6

\* The batch loop does not accept the message under some of the rates.
Refused(m) == \E rates \in Rates : Verdicts[log[m], rates] # "accept"

\* What ends a batch, and with what: only "ok" settles the record, and "escape"
\* means that the record was refused.
BatchEnds(p, how) ==
  /\ job[p] # Idle
  /\ (job[p].by = "close" /\ Gone(p) /\ Forget(p)) \/ Ends(p, how)
  /\ UNCHANGED <<env, rows>>
  /\ faults' \in 0..MaxFaults
  /\ IF how = "ok"
     THEN /\ quarantined' \cup published' = quarantined \cup published \cup {job[p].msg}
          /\ quarantined' \subseteq quarantined \cup {job[p].msg}
          /\ published' \subseteq published \cup {job[p].msg}
     ELSE UNCHANGED <<quarantined, published>>
  /\ how = "escape" => At(p, "quarantine") \/ Refused(job[p].msg)

\* The verdict is there, and the batch goes on with it.
BatchLoaded(p) ==
  /\ At(p, "rates")
  /\ \E rates \in Rates, stage \in {"upsert", "quarantine"} :
       /\ stage = "quarantine" => Refused(job[p].msg)
       /\ cache' = [cache EXCEPT ![p] = rates]
       /\ Continue(p, stage)
  /\ UNCHANGED <<broker, env, intake, sinks>>

LEMMA BatchStep ==
  ASSUME Basics, NEW p \in Pods, ProcessBatch(p)
  PROVE  BatchLoaded(p) \/ Upsert(p) \/ \E how \in {"ok", "error", "escape"} : BatchEnds(p, how)
<1>1. job[p] # Idle
  <2>1. LoadRates(p) => At(p, "rates")
    BY DEF LoadRates
  <2>2. /\ LoadRatesError(p) => At(p, "rates")
        /\ WriteQuarantine(p) \/ QuarantineError(p) => At(p, "quarantine")
        /\ Upsert(p) \/ UpsertError(p) => At(p, "upsert")
        /\ PublishNormalized(p) \/ PublishError(p) => At(p, "publish")
    BY DEF LoadRatesError, WriteQuarantine, QuarantineError, Upsert, UpsertError,
           PublishNormalized, PublishError
  <2>3. \E stage \in {"rates", "quarantine", "upsert", "publish"} : At(p, stage)
    BY <2>1, <2>2 DEF ProcessBatch
  <2> QED
    BY <2>3 DEF At, Idle
<1>2. faults \in 0..MaxFaults /\ MaxFaults \in Nat
  BY BoundsAssumption DEF Basics, TypeOK, BrokerTypeOK
<1>3. NoFault \/ Fault => faults' \in 0..MaxFaults
  BY <1>2 DEF NoFault, Fault
<1>4. CASE LoadRates(p)
  <2>1. PICK rates \in {tableRates} \cup ({cache[p]} \ {NoCache}) :
          LET verdict == Verdicts[Record(p), rates]
          IN  CASE verdict = "raise"  -> Finish(p, "escape")
                [] verdict = "accept" -> /\ cache' = [cache EXCEPT ![p] = rates]
                                         /\ Continue(p, "upsert")
                                         /\ UNCHANGED <<LoopVars, intake>>
                [] OTHER              -> /\ cache' = [cache EXCEPT ![p] = rates]
                                         /\ Continue(p, "quarantine")
                                         /\ UNCHANGED <<LoopVars, intake>>
    BY <1>4 DEF LoadRates
  <2>2. rates \in Rates
    BY DEF Basics, TypeOK
  <2>3. At(p, "rates") /\ NoFault /\ UNCHANGED <<env, sinks>>
    BY <1>4 DEF LoadRates
  <2>r. Verdicts[Record(p), rates] # "accept" => Refused(job[p].msg)
    BY <2>2 DEF Refused, Record
  <2>4. CASE Verdicts[Record(p), rates] = "raise"
    <3>1. Finish(p, "escape")
      BY <2>1, <2>4
    <3>2. (job[p].by = "close" /\ Gone(p) /\ Forget(p)) \/ Ends(p, "escape")
      BY <3>1, <1>1, FinishEffect
    <3>3. BatchEnds(p, "escape")
      BY <3>2, <1>1, <1>3, <2>r, <2>3, <2>4 DEF BatchEnds, sinks
    <3> QED
      BY <3>3
  <2>5. CASE Verdicts[Record(p), rates] = "accept"
    <3>1. cache' = [cache EXCEPT ![p] = rates] /\ Continue(p, "upsert") /\ UNCHANGED <<LoopVars, intake>>
      BY <2>1, <2>5
    <3> QED
      BY <3>1, <2>2, <2>3 DEF BatchLoaded, LoopVars, broker, NoFault, log_, group, reader
  <2>6. CASE Verdicts[Record(p), rates] \notin {"raise", "accept"}
    <3>1. cache' = [cache EXCEPT ![p] = rates] /\ Continue(p, "quarantine") /\ UNCHANGED <<LoopVars, intake>>
      BY <2>1, <2>6
    <3> QED
      BY <3>1, <2>2, <2>3, <2>6, <2>r DEF BatchLoaded, LoopVars, broker, NoFault, log_, group, reader
  <2> QED
    BY <2>4, <2>5, <2>6
<1>5. CASE LoadRatesError(p) \/ UpsertError(p) \/ PublishError(p)
  <2>1. Finish(p, "error") /\ UNCHANGED <<env, sinks>> /\ Fault
    BY <1>5 DEF LoadRatesError, UpsertError, PublishError
  <2>2. (job[p].by = "close" /\ Gone(p) /\ Forget(p)) \/ Ends(p, "error")
    BY <2>1, <1>1, FinishEffect
  <2>3. BatchEnds(p, "error")
    BY <2>1, <2>2, <1>1, <1>3 DEF BatchEnds, sinks
  <2> QED
    BY <2>3
<1>6. CASE QuarantineError(p)
  <2>1. Finish(p, "escape") /\ UNCHANGED <<env, sinks>> /\ NoFault /\ At(p, "quarantine")
    BY <1>6 DEF QuarantineError
  <2>2. (job[p].by = "close" /\ Gone(p) /\ Forget(p)) \/ Ends(p, "escape")
    BY <2>1, <1>1, FinishEffect
  <2>3. BatchEnds(p, "escape")
    BY <2>1, <2>2, <1>1, <1>3 DEF BatchEnds, sinks
  <2> QED
    BY <2>3
<1>7. CASE WriteQuarantine(p) \/ PublishNormalized(p)
  <2>1. /\ Finish(p, "ok") /\ UNCHANGED <<env, rows>> /\ NoFault
        /\ \/ quarantined' = quarantined \cup {job[p].msg} /\ published' = published
           \/ published' = published \cup {job[p].msg} /\ quarantined' = quarantined
    BY <1>7 DEF WriteQuarantine, PublishNormalized
  <2>2. (job[p].by = "close" /\ Gone(p) /\ Forget(p)) \/ Ends(p, "ok")
    BY <2>1, <1>1, FinishEffect
  <2>3. BatchEnds(p, "ok")
    BY <2>1, <2>2, <1>1, <1>3 DEF BatchEnds
  <2> QED
    BY <2>3
<1> QED
  BY <1>4, <1>5, <1>6, <1>7 DEF ProcessBatch

\* The process is gone: killed, ended by an error of the broker, or closed.
Leaves(p) ==
  /\ Gone(p) /\ Forget(p)
  /\ faults' \in 0..MaxFaults
  /\ UNCHANGED <<env, sinks>>

\* The steps of a pod, for the proofs that split on them.
PodStep(p) ==
  \/ Group(p) \/ Start(p) \/ Loopback(p) \/ HandleMessage(p) \/ FlushAfterTimeout(p)
  \/ BatchLoaded(p) \/ Upsert(p) \/ (\E how \in {"ok", "error", "escape"} : BatchEnds(p, how))
  \/ Leaves(p) \/ Interrupt(p)

LEMMA NextSteps ==
  ASSUME Basics, Next
  PROVE  (\E c \in Contents : Scrape(c)) \/ AddCurrency \/ \E p \in Pods : PodStep(p)
<1>1. ASSUME NEW p \in Pods, CloseEnd(p) \/ Die(p)
      PROVE  Leaves(p)
  BY <1>1, BoundsAssumption
     DEF CloseEnd, Die, Escape, Crash, Leaves, Fault, NoFault, Basics, TypeOK, BrokerTypeOK
<1>2. ASSUME NEW p \in Pods, Service(p)
      PROVE  PodStep(p)
  BY <1>2, <1>1, BatchStep DEF Service, PodStep
<1> QED
  BY <1>1, <1>2 DEF Next, PodStep

-----------------------------------------------------------------------------
(* Types and bounds                                                         *)

LEMMA BrokerTypeStep ==
  ASSUME Basics, NEW p \in Pods, PodStep(p)
  PROVE  BrokerTypeOK'
<1>1. /\ BrokerTypeOK
      /\ pc[p] \in Busy => cur[p] \in Messages
      /\ queued[p] \in 0..MaxMessages
  BY DEF Basics, TypeOK, Bounded, BrokerTypeOK, Messages
<1> USE <1>1, RetryAssumption, BoundsAssumption
    DEF BrokerTypeOK, Loop, Messages, NoOffset, broker, log_, group, reader, Fault, NoFault, Goto
<1>2. CASE Group(p)
  <2>1. AssignTo(p) /\ (Fault \/ NoFault)
    BY <1>2 DEF Group, Assign, Rebalance
  <2> QED
    BY <2>1 DEF AssignTo
<1>3. CASE Start(p)
  BY <1>3 DEF Start, StartPod
<1>4. CASE Fetch(p)
  BY <1>4 DEF Fetch
<1>5. CASE DeadLetter(p)
  BY <1>5 DEF DeadLetter, Busy
<1>6. CASE Commit(p)
  BY <1>6 DEF Commit
<1>7. CASE HandleMessage(p)
  BY <1>7 DEF HandleMessage
<1>8. CASE FlushAfterTimeout(p) \/ BatchLoaded(p) \/ Upsert(p)
  BY <1>8 DEF FlushAfterTimeout, Still, BatchLoaded, Upsert
<1>9. ASSUME Gone(p), faults' \in 0..MaxFaults
      PROVE  BrokerTypeOK'
  BY <1>9 DEF Gone
<1>10. CASE Leaves(p)
  BY <1>9, <1>10 DEF Leaves
<1>11. ASSUME NEW how \in {"ok", "error", "escape"}, BatchEnds(p, how)
       PROVE  BrokerTypeOK'
  <2>1. CASE Ends(p, how)
    <3>1. pc' \in [Pods -> Loop] /\ attempt' \in [Pods -> 0..RetryLimit]
      BY <2>1 DEF Ends
    <3> QED
      BY <2>1, <1>11, <3>1 DEF Ends, BatchEnds, env
  <2> QED
    BY <2>1, <1>9, <1>11 DEF BatchEnds
<1>12. CASE Interrupt(p)
  BY <1>12 DEF Interrupt
<1> QED
  BY <1>2, <1>3, <1>4, <1>5, <1>6, <1>7, <1>8, <1>10, <1>11, <1>12
     DEF PodStep, Loopback, LoopStep

\* The service's part of TypeOK, in pieces small enough for the provers.
JobSet == [stage : {"none", "rates", "quarantine", "upsert", "publish"},
           msg : 0..MaxMessages,
           by : {"none", "task", "handler", "close"}]

EnvType    == log \in Seq(Contents) /\ Len(log) = logEnd /\ batchSize \in BatchSizes /\ tableRates \in Rates
IntakeType == /\ cache \in [Pods -> Rates \cup {NoCache}]
              /\ queued \in [Pods -> 0..MaxMessages]
              /\ timer \in [Pods -> BOOLEAN]
JobType    == job \in [Pods -> JobSet]
SinkType   == /\ \A s \in Sources : rows[s].msg \in 0..MaxMessages
              /\ quarantined \subseteq Messages
              /\ published \subseteq Messages

LEMMA ServiceTypeStep ==
  ASSUME Basics, NEW p \in Pods, PodStep(p), BrokerTypeOK'
  PROVE  TypeOK'
<1>1. EnvType /\ IntakeType /\ JobType /\ SinkType
  BY DEF Basics, TypeOK, EnvType, IntakeType, JobType, JobSet, SinkType
<1>2. /\ cur[p] \in 0..MaxMessages /\ MaxMessages \in Nat
      /\ job[p] # Idle => job[p].msg \in Messages
  BY BoundsAssumption DEF Basics, Bounded, TypeOK, BrokerTypeOK, Messages
<1>3. EnvType'
  <2>1. UNCHANGED <<log, batchSize, tableRates, logEnd>>
    <3>1. CASE Group(p)
      BY <3>1 DEF Group, Assign, Rebalance, AssignTo, env
    <3>2. CASE Start(p) \/ Loopback(p)
      BY <3>2 DEF Start, StartPod, Loopback, LoopStep, Fetch, DeadLetter, Commit, log_, env
    <3>3. CASE HandleMessage(p) \/ FlushAfterTimeout(p) \/ BatchLoaded(p) \/ Upsert(p) \/ Interrupt(p)
      BY <3>3 DEF HandleMessage, FlushAfterTimeout, BatchLoaded, Upsert, Interrupt, Still, broker, log_, env
    <3>4. CASE Leaves(p) \/ \E how \in {"ok", "error", "escape"} : BatchEnds(p, how)
      BY <3>4 DEF Leaves, BatchEnds, Ends, Gone, log_, env
    <3> QED
      BY <3>1, <3>2, <3>3, <3>4 DEF PodStep
  <2> QED
    BY <1>1, <2>1 DEF EnvType
<1>4. IntakeType'
  <2> USE <1>1, <1>2 DEF IntakeType, intake
  <2>1. CASE Group(p) \/ Start(p) \/ Loopback(p) \/ Upsert(p)
    BY <2>1 DEF Group, Start, Loopback, Upsert
  <2>2. CASE HandleMessage(p)
    BY <2>2 DEF HandleMessage
  <2>3. CASE FlushAfterTimeout(p) \/ Interrupt(p)
    <3>1. cache' = cache /\ queued' = [queued EXCEPT ![p] = 0] /\ timer' = [timer EXCEPT ![p] = FALSE]
      BY <2>3 DEF FlushAfterTimeout, Interrupt
    <3> QED
      BY <3>1
  <2>4. CASE BatchLoaded(p)
    BY <2>4 DEF BatchLoaded
  <2>5. CASE Leaves(p) \/ \E how \in {"ok", "error", "escape"} : BatchEnds(p, how)
    <3>1. Forget(p) \/ (cache' = cache /\ intake' = intake)
      <4>1. ASSUME NEW how \in {"ok", "error", "escape"}, Ends(p, how)
            PROVE  cache' = cache /\ intake' = intake
        BY <4>1 DEF Ends
      <4> QED
        BY <2>5, <4>1 DEF Leaves, BatchEnds
    <3>2. CASE cache' = cache /\ intake' = intake
      BY <3>2
    <3>3. CASE Forget(p)
      <4>1. cache' \in [Pods -> Rates \cup {NoCache}]
        BY <3>3 DEF Forget
      <4> QED
        BY <3>3, <4>1 DEF Forget
    <3> QED
      BY <3>1, <3>2, <3>3
  <2> QED
    BY <2>1, <2>2, <2>3, <2>4, <2>5 DEF PodStep
<1>5. JobType'
  <2>1. \/ job' = job
        \/ \E r \in JobSet : job' = [job EXCEPT ![p] = r]
    <3> USE <1>1, <1>2 DEF JobType, JobSet
    <3>1. CASE Group(p) \/ Start(p) \/ Loopback(p)
      BY <3>1 DEF Group, Start, Loopback
    <3>2. Idle \in JobSet
      BY DEF Idle
    <3>3. \A m \in 0..MaxMessages, who \in {"task", "handler", "close"} :
            [stage |-> "rates", msg |-> m, by |-> who] \in JobSet
      OBVIOUS
    <3>4. CASE HandleMessage(p) \/ FlushAfterTimeout(p)
      BY <3>3, <3>4 DEF HandleMessage, FlushAfterTimeout, Begin, IntakeType
    <3>5. ASSUME NEW stage \in {"upsert", "quarantine", "publish"}, Continue(p, stage)
          PROVE  \E r \in JobSet : job' = [job EXCEPT ![p] = r]
      <4>1. [job[p] EXCEPT !.stage = stage] \in JobSet
        OBVIOUS
      <4> QED
        BY <3>5, <4>1 DEF Continue
    <3>6. CASE BatchLoaded(p) \/ Upsert(p)
      BY <3>5, <3>6 DEF BatchLoaded, Upsert
    <3>7. CASE Leaves(p) \/ \E how \in {"ok", "error", "escape"} : BatchEnds(p, how)
      <4>1. job' = [job EXCEPT ![p] = Idle]
        BY <3>7 DEF Leaves, BatchEnds, Ends, Forget
      <4> QED
        BY <4>1, <3>2
    <3>8. CASE Interrupt(p)
      BY <3>2, <3>3, <3>8 DEF Interrupt, Begin, IntakeType
    <3> QED
      BY <3>1, <3>4, <3>6, <3>7, <3>8 DEF PodStep
  <2> QED
    BY <1>1, <2>1 DEF JobType
<1>6. SinkType'
  <2> USE <1>1 DEF SinkType, sinks
  <2>1. CASE Group(p) \/ Start(p) \/ Loopback(p) \/ HandleMessage(p) \/ FlushAfterTimeout(p)
    BY <2>1 DEF Group, Start, Loopback, HandleMessage, FlushAfterTimeout
  <2>2. CASE BatchLoaded(p) \/ Leaves(p) \/ Interrupt(p)
    BY <2>2 DEF BatchLoaded, Leaves, Interrupt
  <2>3. CASE Upsert(p)
    <3>1. rows' = [rows EXCEPT ![Record(p).source_id] = UpsertRow(p)] /\ DOMAIN rows = Sources
      BY <2>3 DEF Upsert, Basics, Bounded
    <3>2. UpsertRow(p).msg \in 0..MaxMessages
      BY <1>1 DEF UpsertRow, JobType, JobSet
    <3> QED
      BY <2>3, <3>1, <3>2 DEF Upsert
  <2>4. ASSUME NEW how \in {"ok", "error", "escape"}, BatchEnds(p, how)
        PROVE  SinkType'
    BY <2>4, <1>2 DEF BatchEnds
  <2> QED
    BY <2>1, <2>2, <2>3, <2>4 DEF PodStep
<1> QED
  BY <1>3, <1>4, <1>5, <1>6 DEF TypeOK, EnvType, IntakeType, JobType, JobSet, SinkType

LEMMA TypeStep ==
  ASSUME Basics, Next
  PROVE  TypeOK'
<1>1. CASE \E c \in Contents : Scrape(c)
  <2>1. BrokerTypeOK'
    BY <1>1, BoundsAssumption
       DEF Scrape, Produce, Basics, TypeOK, BrokerTypeOK, group, reader
  <2>2. log' \in Seq(Contents) /\ Len(log') = logEnd'
    BY <1>1 DEF Scrape, Produce, Basics, TypeOK
  <2> QED
    BY <1>1, <2>1, <2>2 DEF Scrape, Basics, TypeOK, intake, sinks
<1>2. CASE AddCurrency
  BY <1>2 DEF AddCurrency, Still, Rates, Basics, TypeOK, BrokerTypeOK, broker, intake, sinks
<1> QED
  BY <1>1, <1>2, NextSteps, BrokerTypeStep, ServiceTypeStep

\* A pod's step touches no other pod, and publishes nothing.
Same(q) ==
  /\ pc'[q] = pc[q] /\ pos'[q] = pos[q] /\ cur'[q] = cur[q] /\ taken'[q] = taken[q]
  /\ queued'[q] = queued[q] /\ timer'[q] = timer[q] /\ job'[q] = job[q]

LEMMA Frame ==
  ASSUME Basics, NEW p \in Pods, PodStep(p)
  PROVE  /\ log' = log /\ logEnd' = logEnd /\ batchSize' = batchSize
         /\ \A q \in Pods \ {p} : Same(q)
<1>1. /\ pc \in [Pods -> Loop] /\ pos \in [Pods -> 0..MaxMessages]
      /\ cur \in [Pods -> 0..MaxMessages] /\ taken \in [Pods -> Nat]
      /\ queued \in [Pods -> 0..MaxMessages] /\ timer \in [Pods -> BOOLEAN]
      /\ job \in [Pods -> JobSet]
  BY DEF Basics, TypeOK, BrokerTypeOK, JobSet
<1> USE <1>1 DEF Same, env, intake, log_, group, reader, broker, Goto
<1>2. CASE Group(p)
  BY <1>2 DEF Group, Assign, Rebalance, AssignTo
<1>3. CASE Start(p)
  BY <1>3 DEF Start, StartPod
<1>4. CASE Fetch(p) /\ UNCHANGED <<env, cache, intake, job, sinks>>
  BY <1>4 DEF Fetch
<1>5. CASE (DeadLetter(p) \/ Commit(p)) /\ UNCHANGED <<env, cache, intake, job, sinks>>
  BY <1>5 DEF DeadLetter, Commit
<1>6. CASE HandleMessage(p)
  BY <1>6 DEF HandleMessage, Begin
<1>7. CASE FlushAfterTimeout(p)
  BY <1>7 DEF FlushAfterTimeout, Still, Begin
<1>8. CASE BatchLoaded(p) \/ Upsert(p)
  BY <1>8 DEF BatchLoaded, Upsert, Continue
<1>9. ASSUME Gone(p), Forget(p), UNCHANGED env
      PROVE  /\ log' = log /\ logEnd' = logEnd /\ batchSize' = batchSize
             /\ \A q \in Pods \ {p} : Same(q)
  BY <1>9 DEF Gone, Forget
<1>10. CASE Leaves(p)
  BY <1>9, <1>10 DEF Leaves
<1>11. ASSUME NEW how \in {"ok", "error", "escape"}, BatchEnds(p, how)
       PROVE  /\ log' = log /\ logEnd' = logEnd /\ batchSize' = batchSize
              /\ \A q \in Pods \ {p} : Same(q)
  <2>1. CASE Ends(p, how)
    <3>1. \A q \in Pods \ {p} : pc'[q] = pc[q]
      BY <2>1 DEF Ends
    <3> QED
      BY <2>1, <3>1, <1>11 DEF Ends, BatchEnds
  <2> QED
    BY <1>9, <1>11, <2>1 DEF BatchEnds
<1>12. CASE Interrupt(p)
  BY <1>12 DEF Interrupt, Begin
<1> QED
  BY <1>2, <1>3, <1>4, <1>5, <1>6, <1>7, <1>8, <1>10, <1>11, <1>12
     DEF PodStep, Loopback, LoopStep

\* What Bounded says of one pod.
PodBounded(p) ==
  /\ pos[p] <= logEnd
  /\ cur[p] <= logEnd
  /\ pc[p] \in Busy => cur[p] >= 1
  /\ queued[p] <= logEnd
  /\ timer[p] => queued[p] >= 1
  /\ job[p].msg <= logEnd
  /\ job[p] = Idle \/ (job[p].stage # "none" /\ job[p].by # "none" /\ job[p].msg >= 1)

LEMMA BoundedStep ==
  ASSUME Basics, Next, TypeOK'
  PROVE  Bounded'
<1>1. CASE \E c \in Contents : Scrape(c)
  <2>1. /\ logEnd \in Nat /\ logEnd' = logEnd + 1
        /\ UNCHANGED <<committed, base, pos, cur, pc, queued, timer, job, rows>>
    BY <1>1 DEF Scrape, Produce, Basics, TypeOK, BrokerTypeOK, reader, intake, sinks
  <2>2. committed \in Int /\ base \in Int /\ \A p \in Pods :
          pos[p] \in Int /\ cur[p] \in Int /\ queued[p] \in Int /\ job[p].msg \in Int
    BY DEF Basics, TypeOK, BrokerTypeOK, NoOffset
  <2> QED
    BY <2>1, <2>2 DEF Basics, Bounded
<1>2. CASE AddCurrency
  BY <1>2 DEF AddCurrency, Still, broker, intake, sinks, Basics, Bounded
<1>3. ASSUME NEW p \in Pods, PodStep(p)
      PROVE  Bounded'
  <2>1. logEnd' = logEnd /\ \A q \in Pods \ {p} : Same(q)
    BY <1>3, Frame
  <2>2. /\ pc \in [Pods -> Loop] /\ pos \in [Pods -> 0..MaxMessages]
        /\ cur \in [Pods -> 0..MaxMessages] /\ taken \in [Pods -> Nat]
        /\ queued \in [Pods -> 0..MaxMessages] /\ timer \in [Pods -> BOOLEAN]
        /\ job \in [Pods -> JobSet]
        /\ logEnd \in Nat /\ committed \in Int /\ base \in Nat
        /\ PodBounded(p) /\ committed <= logEnd /\ base <= logEnd /\ DOMAIN rows = Sources
    <3>1. logEnd \in Nat /\ committed \in Int /\ base \in Nat
      BY BoundsAssumption DEF Basics, TypeOK, BrokerTypeOK, NoOffset
    <3>2. PodBounded(p) /\ committed <= logEnd /\ base <= logEnd /\ DOMAIN rows = Sources
      BY DEF Basics, Bounded, PodBounded
    <3> QED
      BY <3>1, <3>2 DEF Basics, TypeOK, BrokerTypeOK, JobSet
  <2>3. committed' <= logEnd /\ base' <= logEnd /\ DOMAIN rows' = Sources /\ PodBounded(p)'
    <3> USE <2>1, <2>2 DEF PodBounded, env, intake, sinks, log_, group, reader, broker, Goto
    <3>1. CASE Group(p)
      BY <3>1 DEF Group, Assign, Rebalance, AssignTo
    <3>2. CASE Start(p)
      BY <3>2 DEF Start, StartPod, Busy
    <3>3. CASE Fetch(p) /\ UNCHANGED <<env, cache, intake, job, sinks>>
      BY <3>3 DEF Fetch
    <3>4. CASE (DeadLetter(p) \/ Commit(p)) /\ UNCHANGED <<env, cache, intake, job, sinks>>
      BY <3>4 DEF DeadLetter, Commit, Busy
    <3>5. CASE HandleMessage(p)
      BY <3>5 DEF HandleMessage, Begin, Busy
    <3>6. CASE FlushAfterTimeout(p)
      BY <3>6 DEF FlushAfterTimeout, Still, Begin
    <3>7. CASE BatchLoaded(p)
      BY <3>7 DEF BatchLoaded, Continue, At, Idle
    <3>8. CASE Upsert(p)
      BY <3>8 DEF Upsert, Continue, At, Idle
    <3>9. CASE Gone(p) /\ Forget(p) /\ UNCHANGED rows
      BY <3>9 DEF Gone, Forget, Idle, Busy
    <3>10. ASSUME NEW how \in {"ok", "error", "escape"}, BatchEnds(p, how)
           PROVE  committed' <= logEnd /\ base' <= logEnd /\ DOMAIN rows' = Sources /\ PodBounded(p)'
      <4>1. CASE Ends(p, how)
        <5>1. pc[p] \in Busy \/ pc'[p] = pc[p]
          BY <4>1 DEF Ends, Busy
        <5>2. pc'[p] \in Busy => cur[p] >= 1
          BY <5>1
        <5> QED
          BY <3>10, <4>1, <5>2 DEF Ends, BatchEnds, Idle
      <4> QED
        BY <3>9, <3>10, <4>1 DEF BatchEnds
    <3>11. CASE Interrupt(p)
      BY <3>11 DEF Interrupt, Begin, Idle, Busy
    <3> QED
      BY <1>3, <3>1, <3>2, <3>3, <3>4, <3>5, <3>6, <3>7, <3>8, <3>9, <3>10, <3>11
         DEF PodStep, Loopback, LoopStep, Leaves
  <2>4. ASSUME NEW q \in Pods
        PROVE  PodBounded(q)'
    <3>1. PodBounded(q)
      BY DEF Basics, Bounded, PodBounded
    <3>2. CASE q # p
      BY <3>1, <3>2, <2>1 DEF Same, PodBounded
    <3> QED
      BY <3>2, <2>3
  <2> QED
    BY <2>1, <2>3, <2>4 DEF Bounded, PodBounded
<1> QED
  BY <1>1, <1>2, <1>3, NextSteps

LEMMA BasicsInvariant == Spec => []Basics
<1>1. Init => Basics
  <2>1. Init => BrokerTypeOK
    BY BoundsAssumption, RetryAssumption DEF Init, BrokerInit, BrokerTypeOK, Loop, NoOffset
  <2>2. Init => EnvType /\ IntakeType /\ JobType /\ SinkType
    BY BoundsAssumption
       DEF Init, BrokerInit, EnvType, IntakeType, JobType, JobSet, SinkType, Idle, NoRow, Rates
  <2>3. Init => Bounded
    BY DEF Init, BrokerInit, Bounded, NoOffset, Busy, Idle
  <2> QED
    BY <2>1, <2>2, <2>3
       DEF Basics, TypeOK, EnvType, IntakeType, JobType, JobSet, SinkType
<1>2. Basics /\ [Next]_vars => Basics'
  <2>1. Basics /\ UNCHANGED vars => Basics'
    BY DEF Basics, TypeOK, BrokerTypeOK, Bounded, vars, broker, env, intake, sinks
  <2> QED
    BY <2>1, TypeStep, BoundedStep DEF Basics
<1> QED
  BY <1>1, <1>2, PTL DEF Spec

\* Every variable of the broker's loop, of the batches and of the three sinks
\* keeps its type.
THEOREM TypeCorrect == Spec => []TypeOK
<1>1. Basics => TypeOK
  BY DEF Basics
<1> QED
  BY <1>1, BasicsInvariant, PTL

-----------------------------------------------------------------------------
(* The refinement                                                           *)

Done(m) == m <= base \/ m \in Settled

\* The group's offset covers what is settled only.
CommittedSettled == \A m \in 1..committed : Done(m)

\* The loop commits after the record in hand is settled.
CommitSettled == \A p \in Pods : pc[p] = "commit" => Done(cur[p])

\* The owner's position is the offset it would commit: everything up to it is
\* settled, but for the record in hand.
SkipsNothing(p) ==
  owner = p =>
    /\ pc[p] # "down"
    /\ pc[p] # "closing" =>
         \A m \in 1..pos[p] : Done(m) \/ (pc[p] \in Busy /\ m = cur[p])

OwnerSkipsNothing == \A p \in Pods : SkipsNothing(p)

\* Nobody commits the start of the log.
PositionKnown == committed # 0 /\ \A p \in Pods : pc[p] \in Busy => pos[p] >= 1

Safe == Basics /\ CommittedSettled /\ CommitSettled /\ OwnerSkipsNothing /\ PositionKnown

\* What is settled stays settled.
LEMMA DoneStays ==
  ASSUME Basics, Next, TypeOK', NEW m \in Nat, Done(m)
  PROVE  Done(m)'
<1>1. base \in Nat /\ base' \in Nat /\ logEnd \in Nat /\ base <= logEnd
  BY DEF Basics, TypeOK, BrokerTypeOK, Bounded
<1> SUFFICES base' >= base /\ dead \subseteq dead' /\ published \cup quarantined \subseteq published' \cup quarantined'
  BY <1>1 DEF Done, Settled
<1> USE <1>1 DEF broker, log_, sinks
<1>2. CASE \E c \in Contents : Scrape(c)
  BY <1>2 DEF Scrape, Produce
<1>3. CASE AddCurrency
  BY <1>3 DEF AddCurrency, Still
<1>4. ASSUME NEW p \in Pods, PodStep(p)
      PROVE  /\ base' >= base /\ dead \subseteq dead'
             /\ published \cup quarantined \subseteq published' \cup quarantined'
  <2>1. CASE Group(p)
    BY <2>1 DEF Group, Assign, Rebalance, AssignTo
  <2>2. CASE Start(p) \/ Loopback(p)
    BY <2>2 DEF Start, StartPod, Loopback, LoopStep, Fetch, DeadLetter, Commit
  <2>3. CASE HandleMessage(p) \/ FlushAfterTimeout(p) \/ BatchLoaded(p) \/ Upsert(p) \/ Interrupt(p)
    BY <2>3 DEF HandleMessage, FlushAfterTimeout, Still, BatchLoaded, Upsert, Interrupt
  <2>4. ASSUME NEW how \in {"ok", "error", "escape"}, BatchEnds(p, how)
        PROVE  /\ base' >= base /\ dead \subseteq dead'
               /\ published \cup quarantined \subseteq published' \cup quarantined'
    BY <2>4 DEF BatchEnds, Ends, Gone
  <2>5. CASE Leaves(p)
    BY <2>5 DEF Leaves, Gone
  <2> QED
    BY <1>4, <2>1, <2>2, <2>3, <2>4, <2>5 DEF PodStep
<1> QED
  BY <1>2, <1>3, <1>4, NextSteps

\* The types the next proofs need.
LEMMA BrokerTypes ==
  ASSUME Basics
  PROVE  /\ pc \in [Pods -> Loop] /\ pos \in [Pods -> Nat] /\ cur \in [Pods -> Nat]
         /\ taken \in [Pods -> Nat] /\ generation \in Nat
         /\ queued \in [Pods -> Nat] /\ job \in [Pods -> JobSet]
         /\ logEnd \in Nat /\ base \in Nat /\ committed \in Nat \cup {NoOffset}
         /\ owner \in Pods \cup {Nobody} /\ Nobody \notin Pods
<1>1. MaxMessages \in Nat
  BY BoundsAssumption
<1>2. 0..MaxMessages \subseteq Nat
  BY <1>1
<1>3. BrokerTypeOK
  BY DEF Basics, TypeOK
<1>4. /\ pc \in [Pods -> Loop] /\ pos \in [Pods -> Nat] /\ cur \in [Pods -> Nat]
      /\ taken \in [Pods -> Nat] /\ generation \in Nat
      /\ logEnd \in Nat /\ base \in Nat /\ committed \in Nat \cup {NoOffset}
      /\ owner \in Pods \cup {Nobody} /\ Nobody \notin Pods
  BY <1>2, <1>3, PodsAssumption DEF BrokerTypeOK
<1>5. queued \in [Pods -> Nat] /\ job \in [Pods -> JobSet]
  BY <1>2 DEF Basics, TypeOK, JobSet
<1> QED
  BY <1>4, <1>5

LEMMA CommittedStep ==
  ASSUME Safe, Next, Basics'
  PROVE  CommittedSettled' /\ committed' # 0
<1> USE DEF Safe, broker, log_
<1>1. TypeOK' /\ committed \in Nat \cup {NoOffset}
  <2>1. TypeOK'
    BY DEF Basics
  <2> QED
    BY <2>1, BrokerTypes
<1>2. CASE committed' = committed
  <2>1. \A m \in 1..committed : m \in Nat /\ Done(m)
    BY <1>1 DEF CommittedSettled, NoOffset
  <2>2. \A m \in 1..committed : Done(m)'
    BY <1>1, <2>1, DoneStays
  <2> QED
    BY <1>2, <2>2 DEF CommittedSettled, PositionKnown
<1>3. ASSUME NEW p \in Pods, Commit(p), owner = p, committed' = pos[p]
      PROVE  CommittedSettled' /\ committed' # 0
  <2>1. pc[p] = "commit" /\ pos[p] \in Nat
    BY <1>3, BrokerTypes DEF Commit
  <2>2. \A m \in 1..pos[p] : Done(m)
    BY <1>3, <2>1 DEF OwnerSkipsNothing, SkipsNothing, CommitSettled
  <2>3. \A m \in 1..pos[p] : Done(m)'
    BY <1>1, <2>1, <2>2, DoneStays
  <2> QED
    BY <1>3, <2>1, <2>3 DEF CommittedSettled, PositionKnown, Busy
<1>4. CASE \E c \in Contents : Scrape(c)
  BY <1>2, <1>4 DEF Scrape, Produce
<1>5. CASE AddCurrency
  BY <1>2, <1>5 DEF AddCurrency, Still
<1>6. ASSUME NEW p \in Pods, PodStep(p)
      PROVE  committed' = committed \/ (Commit(p) /\ owner = p /\ committed' = pos[p])
  <2>1. CASE Group(p)
    BY <2>1 DEF Group, Assign, Rebalance, AssignTo
  <2>2. CASE Start(p) \/ Loopback(p)
    BY <2>2 DEF Start, StartPod, Loopback, LoopStep, Fetch, DeadLetter, Commit
  <2>3. CASE HandleMessage(p) \/ FlushAfterTimeout(p) \/ BatchLoaded(p) \/ Upsert(p) \/ Interrupt(p)
    BY <2>3 DEF HandleMessage, FlushAfterTimeout, Still, BatchLoaded, Upsert, Interrupt
  <2>4. CASE Leaves(p) \/ \E how \in {"ok", "error", "escape"} : BatchEnds(p, how)
    BY <2>4 DEF Leaves, BatchEnds, Ends, Gone
  <2> QED
    BY <1>6, <2>1, <2>2, <2>3, <2>4 DEF PodStep
<1> QED
  BY <1>2, <1>3, <1>4, <1>5, <1>6, NextSteps

\* What a pod's step means for its own position and record.
LEMMA ReaderStep ==
  ASSUME Safe, NEW p \in Pods, PodStep(p), Basics', Next
  PROVE  /\ pc'[p] = "commit" => Done(cur[p])'
         /\ pc'[p] \in Busy => pos'[p] >= 1
         /\ SkipsNothing(p)'
         /\ \A q \in Pods \ {p} : owner' = q => owner = q
<1>1. /\ pc \in [Pods -> Loop] /\ pos \in [Pods -> Nat] /\ cur \in [Pods -> Nat]
      /\ job \in [Pods -> JobSet]
      /\ owner \in Pods \cup {Nobody} /\ Nobody \notin Pods
      /\ logEnd \in Nat /\ base \in Nat /\ committed \in Nat \cup {NoOffset}
  BY BrokerTypes DEF Safe
<1>2. /\ \A m \in Nat : Done(m) => Done(m)'
      /\ \A m \in 1..committed : Done(m)
      /\ pc[p] = "commit" => Done(cur[p])
      /\ SkipsNothing(p)
      /\ pc[p] \in Busy => pos[p] >= 1 /\ cur[p] >= 1 /\ logEnd >= 1
      /\ committed # 0
  <2>1. pc[p] \in Busy => cur[p] >= 1 /\ cur[p] <= logEnd
    BY DEF Safe, Basics, Bounded
  <2>2. \A m \in Nat : Done(m) => Done(m)'
    BY DoneStays DEF Safe, Basics
  <2> QED
    BY <1>1, <2>1, <2>2
       DEF Safe, CommittedSettled, CommitSettled, OwnerSkipsNothing, PositionKnown
<1> USE <1>1, <1>2 DEF broker, log_, group, reader, Goto
<1> DEFINE Goal == /\ pc'[p] = "commit" => Done(cur[p])'
                   /\ pc'[p] \in Busy => pos'[p] >= 1
                   /\ SkipsNothing(p)'
                   /\ \A q \in Pods \ {p} : owner' = q => owner = q
<1>3. ASSUME UNCHANGED <<group, reader>>,
             pc' = [pc EXCEPT ![p] = pc'[p]],
             \/ pc'[p] = pc[p]
             \/ pc'[p] \in {"call", "wait", "deadletter", "closing"} /\ pc[p] \in Busy
             \/ pc'[p] \in {"commit", "poll", "closing"} /\ pc[p] # "closing" /\ pc[p] # "down"
                  /\ (pc[p] \in Busy => Done(cur[p])' \/ pc'[p] = "closing")
                  /\ (pc'[p] = "commit" => pc[p] \in Busy)
      PROVE  Goal
  <2>1. pc'[p] = "commit" => Done(cur[p])'
    BY <1>3 DEF Busy
  <2>2. pc'[p] \in Busy => pos'[p] >= 1
    BY <1>3 DEF Busy
  <2>3. SkipsNothing(p)'
    BY <1>3 DEF SkipsNothing, Busy
  <2> QED
    BY <1>3, <2>1, <2>2, <2>3
<1>4. CASE Group(p)
  <2>1. AssignTo(p)
    BY <1>4 DEF Group, Assign, Rebalance
  <2>2. \A m \in 1..pos'[p] : Done(m)'
    <3>1. CASE committed = NoOffset
      <4>1. base' = logEnd /\ pos'[p] = logEnd
        BY <2>1, <3>1 DEF AssignTo
      <4> QED
        BY <4>1 DEF Done
    <3>2. CASE committed # NoOffset
      <4>1. pos'[p] = committed /\ committed \in Nat
        BY <2>1, <3>2 DEF AssignTo
      <4> QED
        BY <4>1
    <3> QED
      BY <3>1, <3>2
  <2>3. pc'[p] = pc[p] /\ cur'[p] = cur[p] /\ pc[p] # "down" /\ owner' = p
    BY <2>1 DEF AssignTo
  <2>4. pc[p] \in Busy => pos'[p] >= 1
    BY <2>1 DEF AssignTo, NoOffset
  <2> QED
    BY <2>2, <2>3, <2>4 DEF SkipsNothing, Busy
<1>5. CASE Start(p)
  BY <1>5 DEF Start, StartPod, SkipsNothing, Busy
<1>6. CASE Fetch(p)
  <2>1. /\ pc[p] = "poll" /\ owner = p /\ pos'[p] = pos[p] + 1 /\ cur'[p] = pos[p] + 1
        /\ pc'[p] = "call" /\ owner' = owner
    BY <1>6 DEF Fetch
  <2>2. \A m \in 1..pos[p] : Done(m)'
    BY <2>1 DEF SkipsNothing, Busy
  <2>3. \A m \in 1..pos'[p] : Done(m)' \/ m = cur'[p]
    BY <2>1, <2>2
  <2> QED
    BY <2>1, <2>3 DEF SkipsNothing, Busy
<1>7. CASE DeadLetter(p)
  <2>1. Done(cur[p])'
    BY <1>7 DEF DeadLetter, Done, Settled
  <2> QED
    BY <1>3, <1>7, <2>1 DEF DeadLetter, Busy
<1>8. CASE Commit(p)
  <2>1. Done(cur[p])'
    BY <1>8 DEF Commit
  <2> QED
    BY <1>3, <1>8, <2>1 DEF Commit, Busy
<1>9. CASE HandleMessage(p)
  BY <1>3, <1>9 DEF HandleMessage, Busy
<1>10. CASE FlushAfterTimeout(p) \/ BatchLoaded(p) \/ Upsert(p)
  <2>1. UNCHANGED <<group, reader, pc>>
    BY <1>10 DEF FlushAfterTimeout, Still, BatchLoaded, Upsert
  <2> QED
    BY <1>3, <2>1
<1>11. ASSUME Gone(p) PROVE Goal
  BY <1>11 DEF Gone, SkipsNothing, Busy
<1>12. ASSUME NEW how \in {"ok", "error", "escape"}, BatchEnds(p, how)
       PROVE  Goal
  <2>1. CASE Ends(p, how)
    <3>1. CASE UNCHANGED <<pc, attempt>>
      BY <1>3, <2>1, <3>1 DEF Ends
    <3>2. CASE pc[p] = "wait" /\ pc' = [pc EXCEPT ![p] = pc'[p]] /\ pc'[p] \in {"call", "deadletter"}
      BY <1>3, <2>1, <3>2 DEF Ends, Busy
    <3>3. CASE /\ pc[p] = "wait" /\ cur[p] = job[p].msg /\ how = "ok" /\ pc'[p] = "commit"
               /\ pc' = [pc EXCEPT ![p] = pc'[p]]
      <4>1. Done(cur[p])'
        BY <1>12, <2>1, <3>3 DEF BatchEnds, Ends, Done, Settled
      <4> QED
        BY <1>3, <2>1, <3>3, <4>1 DEF Ends, Busy
    <3> QED
      BY <2>1, <3>1, <3>2, <3>3 DEF Ends
  <2> QED
    BY <1>11, <1>12, <2>1 DEF BatchEnds
<1>13. CASE Interrupt(p)
  BY <1>3, <1>13 DEF Interrupt, Busy
<1> QED
  BY <1>4, <1>5, <1>6, <1>7, <1>8, <1>9, <1>10, <1>11, <1>12, <1>13
     DEF PodStep, Loopback, LoopStep, Leaves

LEMMA SafeStep ==
  ASSUME Safe, [Next]_vars
  PROVE  Safe'
<1>1. CASE UNCHANGED vars
  BY <1>1 DEF Safe, Basics, TypeOK, BrokerTypeOK, Bounded, CommittedSettled, CommitSettled,
              OwnerSkipsNothing, SkipsNothing, PositionKnown, Done, Settled, vars, broker, env,
              intake, sinks
<1>2. CASE Next
  <2>1. Basics'
    BY <1>2, TypeStep, BoundedStep DEF Safe, Basics
  <2>2. CommittedSettled' /\ committed' # 0
    BY <1>2, <2>1, CommittedStep
  <2>3. /\ pc \in [Pods -> Loop] /\ pos \in [Pods -> Nat] /\ cur \in [Pods -> Nat]
        /\ TypeOK'
    <3>1. TypeOK'
      BY <2>1 DEF Basics
    <3> QED
      BY <3>1, BrokerTypes DEF Safe
  <2>4. ASSUME NEW q \in Pods, pc'[q] = pc[q], pos'[q] = pos[q], cur'[q] = cur[q],
               owner' = q => owner = q
        PROVE  /\ pc'[q] = "commit" => Done(cur[q])'
               /\ SkipsNothing(q)'
               /\ pc'[q] \in Busy => pos'[q] >= 1
    <3>1. pc'[q] = "commit" => Done(cur[q])'
      BY <1>2, <2>3, <2>4, DoneStays DEF Safe, CommitSettled
    <3>2. \A m \in Nat : Done(m) => Done(m)'
      BY <1>2, <2>3, DoneStays DEF Safe
    <3>3. SkipsNothing(q)'
      BY <2>3, <2>4, <3>2 DEF Safe, OwnerSkipsNothing, SkipsNothing
    <3> QED
      BY <2>4, <3>1, <3>3 DEF Safe, PositionKnown
  <2>5. CASE (\E c \in Contents : Scrape(c)) \/ AddCurrency
    <3>1. UNCHANGED <<pc, pos, cur, owner>>
      BY <2>5 DEF Scrape, Produce, AddCurrency, Still, broker, group, reader
    <3> QED
      BY <2>1, <2>2, <2>4, <3>1 DEF Safe, CommitSettled, OwnerSkipsNothing, PositionKnown
  <2>6. ASSUME NEW p \in Pods, PodStep(p)
        PROVE  Safe'
    <3>1. ASSUME NEW q \in Pods
          PROVE  /\ pc'[q] = "commit" => Done(cur[q])'
                 /\ SkipsNothing(q)'
                 /\ pc'[q] \in Busy => pos'[q] >= 1
      <4>1. /\ pc'[p] = "commit" => Done(cur[p])'
            /\ pc'[p] \in Busy => pos'[p] >= 1
            /\ SkipsNothing(p)'
            /\ \A r \in Pods \ {p} : owner' = r => owner = r
        BY <1>2, <2>1, <2>6, ReaderStep
      <4>2. CASE q = p
        BY <4>1, <4>2
      <4>3. CASE q # p
        <5>1. Same(q)
          BY <2>6, <4>3, Frame DEF Safe
        <5> QED
          BY <2>4, <4>1, <4>3, <5>1 DEF Same
      <4> QED
        BY <4>2, <4>3
    <3> QED
      BY <2>1, <2>2, <3>1 DEF Safe, CommitSettled, OwnerSkipsNothing, PositionKnown
  <2> QED
    BY <1>2, <2>5, <2>6, NextSteps DEF Safe
<1> QED
  BY <1>1, <1>2

LEMMA SafeInvariant == Spec => []Safe
<1>1. Init /\ Basics => Safe
  BY PodsAssumption
     DEF Init, BrokerInit, Safe, CommittedSettled, CommitSettled, OwnerSkipsNothing,
         SkipsNothing, PositionKnown, NoOffset, Busy
<1> QED
  BY <1>1, SafeStep, BasicsInvariant, PTL DEF Spec

LEMMA Refines ==
  ASSUME Safe, Next, Basics'
  PROVE  ALO!Next \/ UNCHANGED ALO!vars
<1> USE DEF ALO!vars, ALO!Messages, Messages, broker, log_, sinks
<1>1. CASE \E c \in Contents : Scrape(c)
  BY <1>1 DEF Scrape, Produce, ALO!Next, ALO!Publish
<1>2. CASE AddCurrency
  BY <1>2 DEF AddCurrency, Still
<1>3. ASSUME NEW p \in Pods, PodStep(p)
      PROVE  ALO!Next \/ UNCHANGED ALO!vars
  <2>1. CASE Group(p)
    <3>1. AssignTo(p) /\ UNCHANGED sinks
      BY <2>1 DEF Group, Assign, Rebalance
    <3>2. CASE committed = NoOffset
      BY <3>1, <3>2 DEF AssignTo, ALO!Next, ALO!StartAtEnd, NoOffset
    <3>3. CASE committed # NoOffset
      BY <3>1, <3>3 DEF AssignTo
    <3> QED
      BY <3>2, <3>3
  <2>2. CASE Start(p)
    BY <2>2 DEF Start, StartPod
  <2>3. CASE Fetch(p) /\ UNCHANGED sinks
    BY <2>3 DEF Fetch
  <2>4. CASE DeadLetter(p) /\ UNCHANGED sinks
    <3>1. cur[p] \in 1..MaxMessages /\ cur[p] <= logEnd
      BY <2>4, BoundsAssumption DEF DeadLetter, Safe, Basics, TypeOK, BrokerTypeOK, Bounded, Busy
    <3>2. ALO!GiveUp(cur[p])
      BY <2>4, <3>1 DEF DeadLetter, ALO!GiveUp
    <3> QED
      BY <3>1, <3>2 DEF ALO!Next
  <2>5. CASE Commit(p) /\ UNCHANGED sinks
    <3>1. CASE owner = p
      <4>1. pos[p] \in 1..MaxMessages /\ pos[p] <= logEnd
        <5>1. pos[p] >= 1
          BY <2>5 DEF Commit, Safe, PositionKnown, Busy
        <5> QED
          BY <5>1, BoundsAssumption DEF Safe, Basics, TypeOK, BrokerTypeOK, Bounded
      <4>2. \A m \in 1..pos[p] : Done(m)
        BY <2>5, <3>1 DEF Commit, Safe, OwnerSkipsNothing, SkipsNothing, CommitSettled
      <4>3. ALO!Covered(pos[p])
        BY <4>2 DEF ALO!Covered, Done, Settled
      <4>4. ALO!Acknowledge(pos[p])
        BY <2>5, <3>1, <4>1, <4>3 DEF Commit, ALO!Acknowledge
      <4> QED
        BY <4>1, <4>4 DEF ALO!Next
    <3>2. CASE owner # p
      BY <2>5, <3>2 DEF Commit
    <3> QED
      BY <3>1, <3>2
  <2>6. CASE HandleMessage(p) \/ FlushAfterTimeout(p) \/ BatchLoaded(p) \/ Interrupt(p)
    BY <2>6 DEF HandleMessage, FlushAfterTimeout, Still, BatchLoaded, Interrupt
  <2>7. CASE Upsert(p)
    BY <2>7 DEF Upsert
  <2>8. CASE Leaves(p)
    BY <2>8 DEF Leaves, Gone
  <2>9. ASSUME NEW how \in {"ok", "error", "escape"}, BatchEnds(p, how)
        PROVE  ALO!Next \/ UNCHANGED ALO!vars
    <3>1. UNCHANGED <<logEnd, base, dead, committed>>
      BY <2>9 DEF BatchEnds, Ends, Gone
    <3>2. CASE how = "ok"
      <4>1. job[p].msg \in 1..MaxMessages /\ job[p].msg <= logEnd
        BY <2>9, BoundsAssumption DEF BatchEnds, Safe, Basics, TypeOK, BrokerTypeOK, Bounded
      <4>2. ALO!Handle(job[p].msg)
        BY <2>9, <3>1, <3>2, <4>1 DEF BatchEnds, ALO!Handle
      <4> QED
        BY <4>1, <4>2 DEF ALO!Next
    <3>3. CASE how # "ok"
      BY <2>9, <3>1, <3>3 DEF BatchEnds
    <3> QED
      BY <3>2, <3>3
  <2> QED
    BY <1>3, <2>1, <2>2, <2>3, <2>4, <2>5, <2>6, <2>7, <2>8, <2>9
       DEF PodStep, Loopback, LoopStep
<1> QED
  BY <1>1, <1>2, <1>3, NextSteps DEF Safe

\* Through batches, futures, timers, retries, rebalances, crashes and shutdowns the
\* normalizer implements AtLeastOnce: the offset of a raw listing is committed only
\* after the listing was published, quarantined or dead-lettered.
THEOREM Implementation == Spec => ImplementsAtLeastOnce
<1>1. Init => ALO!Init
  BY DEF Init, BrokerInit, ALO!Init, NoOffset
<1>2. Safe /\ Basics' /\ [Next]_vars => [ALO!Next]_(ALO!vars)
  <2>1. CASE UNCHANGED vars
    BY <2>1 DEF vars, broker, sinks, ALO!vars
  <2> QED
    BY <2>1, Refines
<1>3. Safe => Basics
  BY DEF Safe
<1> QED
  BY <1>1, <1>2, <1>3, SafeInvariant, PTL DEF Spec, ImplementsAtLeastOnce, ALO!Spec

-----------------------------------------------------------------------------
(* The record in hand, and who is left waiting                              *)

\* The record of a pod is in one place: queued for the timer, or in the batch of
\* the timer task, of the handler or of close().
InHand(p) ==
  /\ queued[p] # 0 => pc[p] = "wait" /\ queued[p] = cur[p] /\ job[p] = Idle /\ batchSize # 1
  /\ job[p] # Idle => job[p].msg = cur[p] /\ pc[p] \in {"wait", "closing"}
  /\ job[p].by = "close" => pc[p] = "closing"
  /\ job[p].by = "task" => batchSize # 1
  /\ job[p].by = "handler" => pc[p] = "wait"
  /\ job[p].stage = "quarantine" => Refused(job[p].msg)

StrandedRefused(p) == Stranded(p) => batchSize # 1 /\ Refused(cur[p])

HandsOK == \A p \in Pods : InHand(p) /\ StrandedRefused(p)

\* The log grows at its end only: a verdict on a published record stands.
LEMMA RefusedStays ==
  ASSUME Basics, Next, NEW m \in 1..logEnd, Refused(m)
  PROVE  Refused(m)'
<1>1. log'[m] = log[m]
  <2>1. CASE \E c \in Contents : Scrape(c)
    BY <2>1 DEF Scrape, Basics, TypeOK
  <2>2. CASE AddCurrency \/ \E p \in Pods : PodStep(p)
    BY <2>2, Frame DEF AddCurrency
  <2> QED
    BY <2>1, <2>2, NextSteps
<1>2. Rates' = Rates /\ Verdicts' = Verdicts
  OBVIOUS
<1> QED
  BY <1>1, <1>2 DEF Refused

LEMMA HandsStep ==
  ASSUME Safe, HandsOK, Next, NEW p \in Pods, PodStep(p)
  PROVE  InHand(p)' /\ StrandedRefused(p)'
<1>1. /\ pc \in [Pods -> Loop] /\ cur \in [Pods -> Nat] /\ queued \in [Pods -> Nat]
      /\ job \in [Pods -> JobSet] /\ timer \in [Pods -> BOOLEAN]
  <2>1. timer \in [Pods -> BOOLEAN]
    BY DEF Safe, Basics, TypeOK
  <2> QED
    BY <2>1, BrokerTypes DEF Safe
<1>2. /\ InHand(p) /\ StrandedRefused(p)
      /\ pc[p] \in Busy => cur[p] >= 1
      /\ timer[p] => queued[p] >= 1
  BY DEF HandsOK, Safe, Basics, Bounded
<1>3. batchSize' = batchSize
  BY Frame DEF Safe
<1>4. \A m \in Nat : m >= 1 /\ m <= logEnd /\ Refused(m) => Refused(m)'
  <2>1. ASSUME NEW m \in Nat, m >= 1, m <= logEnd, Refused(m)
        PROVE  Refused(m)'
    <3>1. m \in 1..logEnd
      BY <2>1, BrokerTypes DEF Safe
    <3> QED
      BY <2>1, <3>1, RefusedStays DEF Safe
  <2> QED
    BY <2>1
<1>5. /\ cur[p] <= logEnd /\ job[p].msg <= logEnd /\ job[p].msg \in Nat
      /\ job[p] # Idle => job[p].stage # "none" /\ job[p].by # "none" /\ job[p].msg >= 1
  <2>1. job[p].msg \in Nat
    BY BoundsAssumption DEF Safe, Basics, TypeOK
  <2> QED
    BY <2>1 DEF Safe, Basics, Bounded
<1> DEFINE Goal == InHand(p)' /\ StrandedRefused(p)'
<1> USE <1>1, <1>2, <1>3, <1>5 DEF InHand, StrandedRefused, Stranded, Idle, Busy
<1>6. ASSUME pc'[p] = pc[p], cur'[p] = cur[p], queued'[p] = queued[p], job'[p] = job[p]
      PROVE  Goal
  <2>1. Refused(cur[p]) /\ pc[p] = "wait" => Refused(cur[p])'
    BY <1>4, <1>6
  <2>2. Refused(job[p].msg) /\ job[p].stage = "quarantine" => Refused(job[p].msg)'
    BY <1>4, <1>6
  <2> QED
    BY <1>6, <2>1, <2>2
<1>7. CASE pc[p] \notin {"wait", "closing"} /\ queued'[p] = queued[p] /\ job'[p] = job[p]
           /\ pc'[p] \notin {"wait"}
  BY <1>7
<1>8. ASSUME NEW stage \in {"upsert", "quarantine", "publish"}, Continue(p, stage),
             pc'[p] = pc[p], cur'[p] = cur[p], queued'[p] = queued[p], job[p] # Idle,
             stage = "quarantine" => Refused(job[p].msg)
      PROVE  Goal
  <2>1. job'[p] = [job[p] EXCEPT !.stage = stage]
    BY <1>8 DEF Continue
  <2>2. job'[p].msg = job[p].msg /\ job'[p].by = job[p].by /\ job'[p].stage = stage /\ job'[p] # Idle
    BY <2>1 DEF JobSet
  <2>3. stage = "quarantine" => Refused(job[p].msg)'
    <3>1. stage = "quarantine" => \A m \in Nat : m = job[p].msg => Refused(m)'
      BY <1>4, <1>8
    <3> QED
      BY <2>2, <3>1
  <2> QED
    BY <1>8, <2>2, <2>3
<1>9. CASE Group(p)
  BY <1>6, <1>9 DEF Group, Assign, Rebalance, AssignTo, intake
<1>10. CASE Start(p)
  BY <1>7, <1>10 DEF Start, StartPod, Goto, intake
<1>11. CASE (Fetch(p) \/ DeadLetter(p) \/ Commit(p)) /\ UNCHANGED <<env, cache, intake, job, sinks>>
  BY <1>7, <1>11 DEF Fetch, DeadLetter, Commit, Goto, intake
<1>12. CASE HandleMessage(p)
  BY <1>12 DEF HandleMessage, Begin, Goto, reader
<1>13. CASE FlushAfterTimeout(p)
  BY <1>13 DEF FlushAfterTimeout, Begin, Still, broker
<1>14. CASE BatchLoaded(p)
  BY <1>8, <1>14 DEF BatchLoaded, broker, intake, At
<1>15. CASE Upsert(p)
  BY <1>8, <1>15 DEF Upsert, broker, intake, At
<1>16. CASE Gone(p) /\ Forget(p)
  BY <1>16 DEF Gone, Forget, Goto
<1>17. ASSUME NEW how \in {"ok", "error", "escape"}, BatchEnds(p, how)
       PROVE  Goal
  <2>1. CASE Ends(p, how)
    <3>1. job'[p] = Idle /\ queued'[p] = 0 /\ cur'[p] = cur[p] /\ job[p] # Idle
      BY <1>17, <2>1 DEF BatchEnds, Ends, intake, reader
    <3>2. StrandedRefused(p)'
      <4>1. CASE pc'[p] = pc[p] /\ (~Awaited(p) \/ (how = "escape" /\ job[p].by = "task"))
        <5>1. CASE ~Awaited(p)
          BY <3>1, <4>1, <5>1 DEF Awaited
        <5>2. CASE how = "escape" /\ job[p].by = "task"
          <6>1. Refused(job[p].msg) /\ job[p].msg = cur[p] /\ batchSize # 1
            BY <1>17, <3>1, <5>2 DEF BatchEnds, At
          <6>2. \A m \in Nat : m = cur[p] => Refused(m)'
            BY <1>4, <3>1, <6>1
          <6> QED
            BY <3>1, <6>1, <6>2
        <5> QED
          BY <4>1, <5>1, <5>2
      <4>2. CASE pc'[p] \in {"call", "deadletter", "commit"}
        BY <4>2
      <4> QED
        BY <2>1, <4>1, <4>2 DEF Ends
    <3> QED
      BY <3>1, <3>2
  <2> QED
    BY <1>16, <1>17, <2>1 DEF BatchEnds
<1>18. CASE Interrupt(p)
  <2>1. /\ pc[p] # "closing" /\ pc'[p] = "closing" /\ queued'[p] = 0 /\ cur'[p] = cur[p]
    BY <1>18 DEF Interrupt, Goto, reader
  <2>2. CASE queued[p] # 0
    BY <1>18, <2>1, <2>2 DEF Interrupt, Begin
  <2>3. CASE queued[p] = 0 /\ job[p].by = "handler"
    BY <1>18, <2>1, <2>3 DEF Interrupt
  <2>4. CASE queued[p] = 0 /\ job[p].by # "handler"
    <3>1. job'[p] = job[p]
      BY <1>18, <2>4 DEF Interrupt
    <3>2. job[p].stage = "quarantine" => \A m \in Nat : m = job[p].msg => Refused(m)'
      BY <1>4
    <3> QED
      BY <2>1, <2>4, <3>1, <3>2
  <2> QED
    BY <2>2, <2>3, <2>4
<1> QED
  BY <1>9, <1>10, <1>11, <1>12, <1>13, <1>14, <1>15, <1>16, <1>17, <1>18
     DEF PodStep, Loopback, LoopStep, Leaves

LEMMA HandsInvariant == Spec => [](Safe /\ HandsOK)
<1>1. Init => HandsOK
  <2> SUFFICES ASSUME Init, NEW p \in Pods
               PROVE  InHand(p) /\ StrandedRefused(p)
    BY DEF HandsOK
  <2>1. pc[p] = "down" /\ queued[p] = 0 /\ job[p] = Idle
    BY DEF Init, BrokerInit
  <2>2. job[p].by = "none" /\ job[p].stage = "none"
    BY <2>1 DEF Idle
  <2> QED
    BY <2>1, <2>2 DEF InHand, StrandedRefused, Stranded
<1>2. ASSUME Safe, HandsOK, [Next]_vars
      PROVE  HandsOK'
  <2>1. ASSUME NEW q \in Pods, Same(q), batchSize' = batchSize, log' = log \/ Next
        PROVE  InHand(q)' /\ StrandedRefused(q)'
    <3>1. InHand(q) /\ StrandedRefused(q)
      BY <1>2 DEF HandsOK
    <3>2. /\ Refused(cur[q]) /\ cur[q] >= 1 => \A m \in Nat : m = cur[q] => Refused(m)'
          /\ Refused(job[q].msg) /\ job[q].msg >= 1 => \A m \in Nat : m = job[q].msg => Refused(m)'
      <4>1. \A m \in 1..logEnd : Refused(m) => Refused(m)'
        BY <1>2, RefusedStays DEF Safe, Refused, vars, env
      <4>2. cur[q] <= logEnd /\ job[q].msg <= logEnd
        BY <1>2 DEF Safe, Basics, Bounded
      <4> QED
        BY <4>1, <4>2, <1>2, BrokerTypes DEF Safe
    <3>3. /\ pc[q] = "wait" => cur[q] >= 1
          /\ job[q] # Idle => job[q].msg >= 1
          /\ cur[q] \in Nat /\ job[q].msg \in Nat
      <4>1. job[q].msg \in Nat
        BY <1>2, BoundsAssumption DEF Safe, Basics, TypeOK
      <4> QED
        BY <1>2, <4>1, BrokerTypes DEF Safe, Basics, Bounded, Busy
    <3> QED
      BY <2>1, <3>1, <3>2, <3>3 DEF Same, InHand, StrandedRefused, Stranded, Idle
  <2>2. CASE UNCHANGED vars
    BY <2>1, <2>2 DEF vars, broker, env, intake, Same, HandsOK
  <2>3. CASE (\E c \in Contents : Scrape(c)) \/ AddCurrency
    <3>1. /\ UNCHANGED <<pc, pos, cur, taken, intake, job, batchSize>>
          /\ Next
      BY <2>3 DEF Scrape, Produce, AddCurrency, Still, broker, reader, Next
    <3> QED
      BY <2>1, <3>1 DEF intake, Same, HandsOK
  <2>4. ASSUME NEW p \in Pods, PodStep(p), Next
        PROVE  HandsOK'
    <3>1. batchSize' = batchSize /\ log' = log /\ \A q \in Pods \ {p} : Same(q)
      BY <1>2, <2>4, Frame DEF Safe
    <3>2. InHand(p)' /\ StrandedRefused(p)'
      BY <1>2, <2>4, HandsStep
    <3> QED
      BY <2>1, <3>1, <3>2 DEF HandsOK
  <2> QED
    BY <1>2, <2>2, <2>3, <2>4, NextSteps DEF Safe
<1> QED
  BY <1>1, <1>2, SafeInvariant, PTL DEF Spec

\* A worker waits for a future that nobody will resolve only if the batch loop
\* refused its record, and only if the batch ran in a timer task.
THEOREM RefusedAreStranded == Spec => []StrandedByRefusal
<1>1. Safe /\ HandsOK => StrandedByRefusal
  BY DEF HandsOK, StrandedRefused, StrandedByRefusal, Refused
<1> QED
  BY <1>1, HandsInvariant, PTL

-----------------------------------------------------------------------------
(* Versions: who can take a listing back                                    *)

\* A record fetched in the current generation is its owner's last.
Fetched(p) ==
  /\ taken[p] <= generation
  /\ taken[p] = generation /\ generation >= 1 => owner = p /\ pos[p] = cur[p]
  /\ pc[p] \in Busy => taken[p] >= 1

Generations ==
  /\ owner # Nobody => generation >= 1
  /\ \A p \in Pods : Fetched(p)

\* m was fetched, so it is at most one past the group's offset, and one past the
\* position of an owner that has fetched nothing yet.
Within(m) ==
  /\ committed # NoOffset => m <= committed + 1
  /\ \A p \in Pods : owner = p => m <= IF taken[p] = generation THEN pos[p] ELSE pos[p] + 1

\* The owner's position never lags behind the group's offset.
Resumed(p) ==
  owner = p =>
    /\ committed <= pos[p]
    /\ pc[p] = "poll" /\ committed # NoOffset => pos[p] = committed

HighWater ==
  /\ \A p \in Pods : Resumed(p) /\ Within(cur[p])
  /\ \A s \in Sources : rows[s].msg <= logEnd /\ Within(rows[s].msg)

Versions == Generations /\ HighWater

\* What the steps do to the group, to the positions and to the records in hand:
\* they are assigned, fetch, commit, leave, or do nothing of the kind.
Moves(p) ==
  \/ AssignTo(p)
  \/ Fetch(p)
  \/ Commit(p)
  \/ Gone(p)
  \/ /\ UNCHANGED <<group, reader, committed, logEnd>>
     /\ pc'[p] = "poll" => pc[p] \in {"poll", "down"}
     /\ pc'[p] \in Busy => pc[p] \in Busy

LEMMA MovesStep ==
  ASSUME Basics, NEW p \in Pods, PodStep(p)
  PROVE  Moves(p)
<1> USE BrokerTypes DEF Moves, Goto, broker, log_, group, reader, Busy
<1>1. CASE Group(p)
  BY <1>1 DEF Group, Assign, Rebalance
<1>2. CASE Start(p)
  BY <1>2 DEF Start, StartPod
<1>3. CASE Loopback(p)
  BY <1>3 DEF Loopback, LoopStep, DeadLetter
<1>4. CASE HandleMessage(p)
  BY <1>4 DEF HandleMessage
<1>5. CASE FlushAfterTimeout(p) \/ BatchLoaded(p) \/ Upsert(p)
  BY <1>5 DEF FlushAfterTimeout, Still, BatchLoaded, Upsert
<1>6. ASSUME NEW how \in {"ok", "error", "escape"}, BatchEnds(p, how)
      PROVE  Moves(p)
  BY <1>6 DEF BatchEnds, Ends
<1>7. CASE Leaves(p) \/ Interrupt(p)
  BY <1>7 DEF Leaves, Interrupt
<1> QED
  BY <1>1, <1>2, <1>3, <1>4, <1>5, <1>6, <1>7 DEF PodStep

LEMMA WithinStays ==
  ASSUME Safe, Versions, NEW p \in Pods, PodStep(p), NEW m \in Nat, m <= logEnd, Within(m)
  PROVE  Within(m)'
<1>1. /\ pc \in [Pods -> Loop] /\ pos \in [Pods -> Nat] /\ cur \in [Pods -> Nat]
      /\ taken \in [Pods -> Nat] /\ generation \in Nat
      /\ logEnd \in Nat /\ base \in Nat /\ committed \in Nat \cup {NoOffset}
      /\ owner \in Pods \cup {Nobody} /\ Nobody \notin Pods
  BY BrokerTypes DEF Safe
<1>2. Generations /\ Resumed(p) /\ Moves(p)
  BY MovesStep DEF Safe, Versions, HighWater
<1> USE <1>1, <1>2 DEF Within, log_, group, reader, NoOffset
<1>3. CASE AssignTo(p)
  <2>1. /\ owner' = p /\ generation' = generation + 1 /\ taken' = taken /\ committed' = committed
        /\ pos'[p] = IF committed = NoOffset THEN logEnd ELSE committed
    BY <1>3 DEF AssignTo
  <2>2. taken[p] <= generation
    BY DEF Generations, Fetched
  <2> QED
    BY <2>1, <2>2
<1>4. CASE Fetch(p)
  <2>1. /\ owner = p /\ owner' = p /\ generation' = generation /\ taken'[p] = generation
        /\ pos'[p] = pos[p] + 1 /\ committed' = committed
    BY <1>4 DEF Fetch
  <2> QED
    BY <2>1
<1>5. CASE Commit(p)
  <2>1. owner' = owner /\ generation' = generation /\ taken' = taken /\ pos' = pos
    BY <1>5 DEF Commit
  <2>2. committed' = IF owner = p THEN pos[p] ELSE committed
    BY <1>5 DEF Commit
  <2> QED
    BY <2>1, <2>2
<1>6. CASE Gone(p)
  <2>1. /\ owner' = IF owner = p THEN Nobody ELSE owner
        /\ generation' = generation /\ committed' = committed
        /\ \A q \in Pods \ {p} : taken'[q] = taken[q] /\ pos'[q] = pos[q]
    BY <1>6 DEF Gone
  <2> QED
    BY <2>1
<1>7. CASE UNCHANGED <<group, reader, committed, logEnd>>
  BY <1>7
<1> QED
  BY <1>3, <1>4, <1>5, <1>6, <1>7 DEF Moves

\* Fetched and Resumed hold for the pod that moves and for the others.
LEMMA PositionsStep ==
  ASSUME Safe, Versions, NEW p \in Pods, PodStep(p), NEW q \in Pods
  PROVE  /\ Fetched(q)' /\ Resumed(q)' /\ (owner' # Nobody => generation' >= 1)
         /\ cur'[q] = cur[q] \/ cur'[q] = 0 \/ (Fetch(p) /\ q = p)
<1>1. /\ pc \in [Pods -> Loop] /\ pos \in [Pods -> Nat] /\ cur \in [Pods -> Nat]
      /\ taken \in [Pods -> Nat] /\ generation \in Nat
      /\ logEnd \in Nat /\ base \in Nat /\ committed \in Nat \cup {NoOffset}
      /\ owner \in Pods \cup {Nobody} /\ Nobody \notin Pods
  BY BrokerTypes DEF Safe
<1>2. /\ Fetched(p) /\ Resumed(p) /\ Fetched(q) /\ Resumed(q)
      /\ owner # Nobody => generation >= 1
      /\ owner = p => pc[p] # "down"
      /\ Moves(p)
      /\ q # p => Same(q)
      /\ committed <= logEnd
  <2>1. committed <= logEnd /\ (owner = p => pc[p] # "down")
    BY DEF Safe, Basics, Bounded, OwnerSkipsNothing, SkipsNothing
  <2> QED
    BY <2>1, MovesStep, Frame DEF Safe, Versions, HighWater, Generations
<1> USE <1>1, <1>2 DEF Fetched, Resumed, Same, log_, group, reader, NoOffset, Goto
<1>3. CASE AssignTo(p)
  <2>1. /\ owner' = p /\ generation' = generation + 1 /\ taken' = taken /\ committed' = committed
        /\ pos'[p] = IF committed = NoOffset THEN logEnd ELSE committed
        /\ cur' = cur /\ pc' = pc
    BY <1>3 DEF AssignTo
  <2> QED
    BY <2>1
<1>4. CASE Fetch(p)
  <2>1. /\ owner = p /\ owner' = p /\ generation' = generation /\ taken'[p] = generation
        /\ pos'[p] = pos[p] + 1 /\ committed' = committed /\ cur'[p] = pos[p] + 1 /\ pc'[p] = "call"
        /\ \A r \in Pods \ {p} : cur'[r] = cur[r]
    BY <1>4 DEF Fetch
  <2> QED
    BY <1>4, <2>1
<1>5. CASE Commit(p)
  <2>1. /\ owner' = owner /\ generation' = generation /\ taken' = taken /\ pos' = pos /\ cur' = cur
        /\ pc'[p] = "poll" /\ \A r \in Pods \ {p} : pc'[r] = pc[r]
    BY <1>5 DEF Commit
  <2>2. committed' = IF owner = p THEN pos[p] ELSE committed
    BY <1>5 DEF Commit
  <2> QED
    BY <2>1, <2>2 DEF Busy
<1>6. CASE Gone(p)
  <2>1. /\ owner' = IF owner = p THEN Nobody ELSE owner
        /\ generation' = generation /\ committed' = committed
        /\ taken'[p] = 0 /\ pos'[p] = 0 /\ cur'[p] = 0 /\ pc'[p] = "down"
    BY <1>6 DEF Gone
  <2> QED
    BY <2>1 DEF Busy
<1>7. CASE /\ UNCHANGED <<group, reader, committed, logEnd>>
           /\ pc'[p] = "poll" => pc[p] \in {"poll", "down"}
           /\ pc'[p] \in Busy => pc[p] \in Busy
  BY <1>7
<1> QED
  BY <1>3, <1>4, <1>5, <1>6, <1>7 DEF Moves

\* Where a row gets a new message from.
LEMMA RowsStep ==
  ASSUME Safe, HandsOK, NEW p \in Pods, PodStep(p), NEW s \in Sources
  PROVE  \/ rows'[s].msg = rows[s].msg
         \/ Upsert(p) /\ rows'[s].msg = job[p].msg /\ job[p].msg = cur[p] /\ pc[p] \in {"wait", "closing"}
<1>1. CASE Upsert(p)
  <2>1. rows' = [rows EXCEPT ![Record(p).source_id] = UpsertRow(p)] /\ DOMAIN rows = Sources
    BY <1>1 DEF Upsert, Safe, Basics, Bounded
  <2>2. UpsertRow(p).msg = job[p].msg
    BY DEF UpsertRow
  <2>3. job[p] # Idle
    BY <1>1 DEF Upsert, At, Idle
  <2>4. job[p].msg = cur[p] /\ pc[p] \in {"wait", "closing"}
    BY <2>3 DEF HandsOK, InHand
  <2>5. rows'[s] = rows[s] \/ rows'[s] = UpsertRow(p)
    BY <2>1
  <2> QED
    BY <1>1, <2>2, <2>4, <2>5
<1>2. CASE ~Upsert(p)
  <2>1. rows' = rows
    <3>1. CASE Group(p) \/ Start(p) \/ Loopback(p) \/ HandleMessage(p) \/ FlushAfterTimeout(p)
      BY <3>1 DEF Group, Start, Loopback, HandleMessage, FlushAfterTimeout, sinks
    <3>2. CASE BatchLoaded(p) \/ Leaves(p) \/ Interrupt(p)
      BY <3>2 DEF BatchLoaded, Leaves, Interrupt, sinks
    <3>3. CASE \E how \in {"ok", "error", "escape"} : BatchEnds(p, how)
      BY <3>3 DEF BatchEnds
    <3> QED
      BY <1>2, <3>1, <3>2, <3>3 DEF PodStep
  <2> QED
    BY <2>1
<1> QED
  BY <1>1, <1>2

LEMMA VersionsStep ==
  ASSUME Safe, HandsOK, Versions, [Next]_vars
  PROVE  Versions'
<1> DEFINE Kept == /\ UNCHANGED <<committed, owner, generation, rows>>
                   /\ UNCHANGED <<pc, pos, cur, taken>>
                   /\ logEnd' = logEnd \/ logEnd' = logEnd + 1
<1>1. CASE Kept
  <2>1. logEnd \in Nat /\ \A s \in Sources : rows[s].msg \in Int
    BY BrokerTypes, BoundsAssumption DEF Safe, Basics, TypeOK
  <2> QED
    BY <1>1, <2>1 DEF Versions, Generations, Fetched, HighWater, Resumed, Within
<1>2. CASE UNCHANGED vars
  BY <1>1, <1>2 DEF vars, broker, sinks
<1>3. CASE (\E c \in Contents : Scrape(c)) \/ AddCurrency
  BY <1>1, <1>3 DEF Scrape, Produce, AddCurrency, Still, broker, group, reader, sinks
<1>4. ASSUME NEW p \in Pods, PodStep(p)
      PROVE  Versions'
  <2>1. /\ cur \in [Pods -> Nat] /\ pos \in [Pods -> Nat] /\ generation \in Nat
        /\ committed \in Nat \cup {NoOffset} /\ logEnd \in Nat
        /\ owner \in Pods \cup {Nobody} /\ Nobody \notin Pods
    BY BrokerTypes DEF Safe
  <2>2. \A q \in Pods :
          /\ Fetched(q)' /\ Resumed(q)' /\ (owner' # Nobody => generation' >= 1)
          /\ cur'[q] = cur[q] \/ cur'[q] = 0 \/ (Fetch(p) /\ q = p)
    BY <1>4, PositionsStep
  <2>3. \A m \in Nat : m <= logEnd /\ Within(m) => Within(m)'
    BY <1>4, WithinStays
  <2>4. ASSUME NEW q \in Pods
        PROVE  Within(cur[q])'
    <3>1. cur[q] <= logEnd /\ Within(cur[q])
      BY DEF Safe, Basics, Bounded, Versions, HighWater
    <3>2. \A m : m = cur[q] => Within(m)'
      BY <2>1, <2>3, <3>1
    <3>3. \A m : m = 0 => Within(m)'
      BY <2>1, <2>3 DEF Within, NoOffset
    <3>4. CASE Fetch(p) /\ q = p
      <4>1. /\ pc[p] = "poll" /\ owner = p /\ owner' = p /\ cur'[p] = pos[p] + 1
            /\ pos'[p] = pos[p] + 1 /\ taken'[p] = generation /\ generation' = generation
            /\ committed' = committed
        BY <2>1, <3>4, BrokerTypes DEF Fetch, Safe, log_, group
      <4>2. committed # NoOffset => pos[p] = committed
        BY <4>1 DEF Versions, HighWater, Resumed
      <4> QED
        BY <2>1, <3>4, <4>1, <4>2 DEF Within
    <3> QED
      BY <2>2, <3>2, <3>3, <3>4 DEF Within
  <2>5. ASSUME NEW s \in Sources
        PROVE  rows'[s].msg <= logEnd' /\ Within(rows[s].msg)'
    <3>1. /\ rows[s].msg \in Nat /\ rows[s].msg <= logEnd /\ Within(rows[s].msg)
      <4>1. rows[s].msg \in Nat
        BY BoundsAssumption DEF Safe, Basics, TypeOK
      <4> QED
        BY <4>1 DEF Versions, HighWater
    <3>2. logEnd' = logEnd
      BY <1>4, Frame DEF Safe
    <3>3. CASE rows'[s].msg = rows[s].msg
      <4>1. \A m : m = rows[s].msg => Within(m)'
        BY <2>3, <3>1
      <4> QED
        BY <3>1, <3>2, <3>3, <4>1 DEF Within
    <3>4. CASE rows'[s].msg = cur[p]
      <4>1. cur[p] <= logEnd /\ Within(cur[p])
        BY DEF Safe, Basics, Bounded, Versions, HighWater
      <4>2. \A m : m = cur[p] => Within(m)'
        BY <2>1, <2>3, <4>1
      <4> QED
        BY <3>2, <3>4, <4>1, <4>2 DEF Within
    <3> QED
      BY <1>4, <3>3, <3>4, RowsStep
  <2> QED
    BY <2>2, <2>4, <2>5 DEF Versions, Generations, HighWater
<1> QED
  BY <1>2, <1>3, <1>4, NextSteps DEF Safe

LEMMA VersionsInvariant == Spec => [](Safe /\ HandsOK /\ Versions)
<1>1. Init => Versions
  <2> SUFFICES ASSUME Init PROVE Versions
    OBVIOUS
  <2>1. /\ owner = Nobody /\ committed = NoOffset /\ generation = 0 /\ logEnd = 0
        /\ \A p \in Pods : pc[p] = "down" /\ taken[p] = 0 /\ cur[p] = 0
        /\ \A s \in Sources : rows[s].msg = 0
    BY DEF Init, BrokerInit, NoRow
  <2> QED
    BY <2>1, PodsAssumption
       DEF Versions, Generations, Fetched, HighWater, Resumed, Within, Busy
<1> QED
  BY <1>1, VersionsStep, HandsInvariant, PTL DEF Spec

\* The upsert compares no versions, and yet a listing goes back to an older one only
\* by the hand of a pod that is shutting down or that lost the partition after it
\* fetched the record.
THEOREM RegressIsStale == Spec => RegressNeedsStalePod
<1>1. ASSUME Safe, HandsOK, Versions, [Next]_vars
      PROVE  [\A s \in Sources :
                rows'[s].msg < rows[s].msg =>
                  \E p \in Pods : At(p, "upsert") /\ rows'[s].msg = job[p].msg
                                  /\ (pc[p] = "closing" \/ taken[p] # generation)]_vars
  <2> SUFFICES ASSUME Next, NEW s \in Sources, rows'[s].msg < rows[s].msg
               PROVE  \E p \in Pods : At(p, "upsert") /\ rows'[s].msg = job[p].msg
                                      /\ (pc[p] = "closing" \/ taken[p] # generation)
    BY <1>1
  <2>1. rows[s].msg \in Nat
    BY <1>1, BoundsAssumption DEF Safe, Basics, TypeOK
  <2>2. CASE (\E c \in Contents : Scrape(c)) \/ AddCurrency
    BY <2>1, <2>2 DEF Scrape, AddCurrency, sinks
  <2>3. ASSUME NEW p \in Pods, PodStep(p)
        PROVE  At(p, "upsert") /\ rows'[s].msg = job[p].msg
               /\ (pc[p] = "closing" \/ taken[p] # generation)
    <3>1. /\ Upsert(p) /\ rows'[s].msg = job[p].msg /\ job[p].msg = cur[p]
          /\ pc[p] \in {"wait", "closing"}
      BY <1>1, <2>1, <2>3, RowsStep
    <3>2. CASE pc[p] = "wait" /\ taken[p] = generation
      <4>1. taken[p] >= 1 /\ owner = p /\ pos[p] = cur[p]
        BY <1>1, <3>2 DEF Versions, Generations, Fetched, Busy
      <4>2. rows[s].msg <= pos[p]
        BY <1>1, <3>2, <4>1 DEF Versions, HighWater, Within
      <4>3. cur[p] \in Nat
        BY <1>1, BrokerTypes DEF Safe
      <4> QED
        BY <2>1, <3>1, <4>1, <4>2, <4>3
    <3> QED
      BY <3>1, <3>2 DEF Upsert
  <2> QED
    BY <1>1, <2>2, <2>3, NextSteps DEF Safe
<1> QED
  BY <1>1, VersionsInvariant, PTL DEF Spec, RegressNeedsStalePod

-----------------------------------------------------------------------------
(* Spiders: the search order                                                *)

\* What is shown is finite, and so are the results of a zone.
LEMMA ResultsFinite ==
  ASSUME shown \in Seq(Homes), NEW z
  PROVE  /\ IsFiniteSet(Sp!Listed) /\ Sp!Listed \subseteq Homes
         /\ IsFiniteSet(Sp!Results(z)) /\ Sp!Results(z) \subseteq Homes
<1>1. shown \in Surjection(1..Len(shown), Sp!Listed)
  BY DEF Surjection, Sp!Listed
<1>2. IsFiniteSet(1..Len(shown))
  BY FS_Interval
<1>3. IsFiniteSet(Sp!Listed)
  BY <1>1, <1>2, FS_Surjection
<1>4. Sp!Results(z) \in SUBSET Sp!Listed
  BY DEF Sp!Results
<1>5. IsFiniteSet(Sp!Results(z))
  BY <1>3, <1>4, FS_Subset
<1> QED
  BY <1>3, <1>4, <1>5 DEF Sp!Listed

\* Spider counts with a Cardinality of its own instance of FiniteSets.
LEMMA SpiderCounts == ASSUME NEW S PROVE Sp!Cardinality(S) = Cardinality(S)
BY DEF Sp!Cardinality, Cardinality

\* The results of a zone that come before a home.
Before(z, h) == {g \in Sp!Results(z) : Sp!Ahead(g, h)}

\* A rank is a number.
LEMMA RankIsNat ==
  ASSUME shown \in Seq(Homes), NEW z, NEW h
  PROVE  IsFiniteSet(Before(z, h)) /\ Sp!Rank(z, h) = Cardinality(Before(z, h)) /\ Sp!Rank(z, h) \in Nat
<1>1. IsFiniteSet(Sp!Results(z))
  BY ResultsFinite
<1>2. Before(z, h) \in SUBSET Sp!Results(z)
  BY DEF Before
<1>3. IsFiniteSet(Before(z, h))
  BY <1>1, <1>2, FS_Subset
<1>4. Cardinality(Before(z, h)) \in Nat
  BY <1>3, FS_CardinalityType
<1> QED
  BY <1>3, <1>4, SpiderCounts DEF Before, Sp!Rank

\* So is the next one.
LEMMA RankIsNatNext ==
  ASSUME shown' \in Seq(Homes), NEW z, NEW h
  PROVE  Sp!Rank(z, h)' \in Nat
<1>1. PICK s : s = shown'
  OBVIOUS
<1>2. s \in Surjection(1..Len(s), Sp!Listed')
  BY <1>1 DEF Surjection, Sp!Listed
<1>3. IsFiniteSet(1..Len(s))
  BY <1>1, FS_Interval
<1>4. IsFiniteSet(Sp!Listed')
  BY <1>2, <1>3, FS_Surjection
<1>5. PICK B : B = Before(z, h)'
  OBVIOUS
<1>6. B \in SUBSET (Sp!Listed')
  BY <1>5 DEF Before, Sp!Results
<1>7. Cardinality(B) \in Nat
  BY <1>4, <1>6, FS_Subset, FS_CardinalityType
<1> QED
  BY <1>5, <1>7, SpiderCounts DEF Before, Sp!Rank

Distinct == \A i, j \in DOMAIN shown : shown[i] = shown[j] => i = j

\* The order is strict and total.
LEMMA AheadOrders ==
  ASSUME shown \in Seq(Homes), Distinct
  PROVE  /\ \A g \in Sp!Listed : ~Sp!Ahead(g, g)
         /\ \A f, g, h \in Sp!Listed : Sp!Ahead(f, g) /\ Sp!Ahead(g, h) => Sp!Ahead(f, h)
         /\ \A g, h \in Sp!Listed : g # h => Sp!Ahead(g, h) \/ Sp!Ahead(h, g)
<1>1. DOMAIN shown \subseteq Int
  OBVIOUS
<1>2. \A g \in Sp!Listed : ~Sp!Ahead(g, g)
  BY <1>1 DEF Sp!Ahead, Distinct
<1>3. ASSUME NEW f \in Sp!Listed, NEW g \in Sp!Listed, NEW h \in Sp!Listed, Sp!Ahead(f, g), Sp!Ahead(g, h)
      PROVE  Sp!Ahead(f, h)
  <2>1. PICK i, j \in DOMAIN shown : i < j /\ shown[i] = f /\ shown[j] = g
    BY <1>3 DEF Sp!Ahead
  <2>2. PICK k, l \in DOMAIN shown : k < l /\ shown[k] = g /\ shown[l] = h
    BY <1>3 DEF Sp!Ahead
  <2>3. j = k
    BY <2>1, <2>2 DEF Distinct
  <2>4. i < l
    BY <1>1, <2>1, <2>2, <2>3
  <2> QED
    BY <2>1, <2>2, <2>4 DEF Sp!Ahead
<1>4. ASSUME NEW g \in Sp!Listed, NEW h \in Sp!Listed, g # h
      PROVE  Sp!Ahead(g, h) \/ Sp!Ahead(h, g)
  <2>1. PICK i, j \in DOMAIN shown : shown[i] = g /\ shown[j] = h
    BY DEF Sp!Listed
  <2>2. i < j \/ j < i
    BY <1>1, <1>4, <2>1
  <2> QED
    BY <2>1, <2>2 DEF Sp!Ahead
<1> QED
  BY <1>2, <1>3, <1>4

\* What is ahead has the lower rank.
LEMMA RankOrders ==
  ASSUME shown \in Seq(Homes), Distinct, NEW z, NEW g \in Sp!Results(z), NEW h \in Sp!Results(z),
         Sp!Ahead(g, h)
  PROVE  Sp!Rank(z, g) < Sp!Rank(z, h)
<1>1. Sp!Results(z) \subseteq Sp!Listed
  BY DEF Sp!Results
<1>2. Before(z, g) \subseteq Before(z, h) /\ g \in Before(z, h) /\ g \notin Before(z, g)
  BY <1>1, AheadOrders DEF Before
<1>3. Before(z, g) \in SUBSET Before(z, h)
  BY <1>2
<1>4. /\ Cardinality(Before(z, g)) <= Cardinality(Before(z, h))
      /\ Cardinality(Before(z, h)) = Cardinality(Before(z, g)) => Before(z, g) = Before(z, h)
  BY <1>3, RankIsNat, FS_Subset
<1>5. Cardinality(Before(z, g)) # Cardinality(Before(z, h))
  BY <1>2, <1>4
<1> QED
  BY <1>4, <1>5, RankIsNat

\* No rank is left out: with a home, every rank up to its own is taken.
LEMMA RanksContiguous ==
  ASSUME shown \in Seq(Homes), Distinct, NEW z, NEW h \in Sp!Results(z), NEW k \in Nat, k <= Sp!Rank(z, h)
  PROVE  \E g \in Sp!Results(z) : Sp!Rank(z, g) = k
<1>1. CASE k = Sp!Rank(z, h)
  BY <1>1
<1>2. CASE k < Sp!Rank(z, h)
  <2> DEFINE A == Before(z, h)
             f == [g \in A |-> Sp!Rank(z, g)]
  <2>1. PICK r \in Nat : r = Sp!Rank(z, h)
    BY RankIsNat
  <2>2. r >= 1 /\ k < r /\ IsFiniteSet(A) /\ Cardinality(A) = r
    BY <1>2, <2>1, RankIsNat
  <2>3. ASSUME NEW g \in A
        PROVE  g \in Sp!Results(z) /\ g \in Sp!Listed /\ Sp!Rank(z, g) \in 0..(r - 1)
    <3>1. g \in Sp!Results(z) /\ Sp!Ahead(g, h)
      BY DEF Before
    <3>2. Sp!Rank(z, g) < r /\ Sp!Rank(z, g) \in Nat
      BY <2>1, <3>1, RankIsNat, RankOrders
    <3> QED
      BY <3>1, <3>2 DEF Sp!Results
  <2>4. ASSUME NEW a \in A, NEW b \in A, Sp!Rank(z, a) = Sp!Rank(z, b)
        PROVE  a = b
    <3>1. Sp!Rank(z, a) \in Nat /\ Sp!Rank(z, b) \in Nat
      BY RankIsNat
    <3>2. ~Sp!Ahead(a, b) /\ ~Sp!Ahead(b, a)
      BY <2>3, <2>4, <3>1, RankOrders
    <3> QED
      BY <2>3, <3>2, AheadOrders
  <2>5. f \in Injection(A, 0..(r - 1))
    <3>1. f \in [A -> 0..(r - 1)]
      BY <2>3
    <3>2. \A a, b \in A : f[a] = f[b] => a = b
      BY <2>4
    <3> HIDE DEF f
    <3> QED
      BY <3>1, <3>2 DEF Injection, IsInjective
  <2>6. IsFiniteSet(0..(r - 1)) /\ Cardinality(0..(r - 1)) = r
    <3>1. 0 \in Int /\ r - 1 \in Int /\ ~(0 > r - 1) /\ (r - 1) - 0 + 1 = r
      BY <2>2
    <3> QED
      BY <3>1, FS_Interval
  <2>7. f \in Surjection(A, 0..(r - 1))
    BY <2>2, <2>5, <2>6, FS_Injection
  <2>8. k \in 0..(r - 1)
    BY <2>2
  <2>9. PICK g \in A : f[g] = k
    BY <2>7, <2>8 DEF Surjection
  <2> QED
    BY <2>3, <2>9
<1> QED
  BY <1>1, <1>2, RankIsNat

\* A page has room for a home at least.
LEMMA SizeIsNat ==
  ASSUME site \in Portals
  PROVE  site.size \in Nat \ {0}
BY PortalAssumption

\* A page is empty only when all ranks are on the pages before it.
LEMMA EmptyPageIsEnd ==
  ASSUME shown \in Seq(Homes), Distinct, site \in Portals, NEW z, NEW page \in Nat \ {0},
         Sp!Page(z, page) = {}, NEW h \in Sp!Results(z)
  PROVE  Sp!Rank(z, h) < (page - 1) * site.size
<1> SUFFICES ASSUME (page - 1) * site.size <= Sp!Rank(z, h)
             PROVE  FALSE
  <2>1. (page - 1) * site.size \in Int /\ Sp!Rank(z, h) \in Int
    BY SizeIsNat, RankIsNat
  <2> QED
    BY <2>1
<1>1. PICK n \in Nat : n = (page - 1) * site.size
  <2>1. (page - 1) * site.size \in Nat
    BY SizeIsNat
  <2> QED
    BY <2>1
<1>2. PICK g \in Sp!Results(z) : Sp!Rank(z, g) = n
  BY <1>1, RanksContiguous
<1>3. n < page * site.size
  BY <1>1, SizeIsNat
<1> QED
  BY <1>1, <1>2, <1>3 DEF Sp!Page

\* An advertisement that appears moves nothing forward.
LEMMA AppearKeeps ==
  ASSUME shown \in Seq(Homes), Distinct, NEW h \in Homes, h \notin Sp!Listed,
         NEW i \in 1..Len(shown) + 1, shown' = Sp!InsertAt(shown, i, h)
  PROVE  /\ shown' \in Seq(Homes) /\ Distinct'
         /\ Sp!Listed' = Sp!Listed \cup {h}
         /\ \A f, g \in Sp!Listed : Sp!Ahead(f, g) => Sp!Ahead(f, g)'
<1>1. /\ shown' \in Seq(Homes) /\ Len(shown') = Len(shown) + 1
      /\ \A k \in 1..Len(shown) + 1 :
           shown'[k] = IF k < i THEN shown[k] ELSE IF k = i THEN h ELSE shown[k - 1]
  <2> DEFINE a == SubSeq(shown, 1, i - 1)
             b == SubSeq(shown, i, Len(shown))
  <2>1. a \in Seq(Homes) /\ Len(a) = i - 1 /\ \A k \in 1..i - 1 : a[k] = shown[k]
    OBVIOUS
  <2>2. b \in Seq(Homes) /\ Len(b) = Len(shown) - i + 1
        /\ \A k \in 1..Len(shown) - i + 1 : b[k] = shown[k + i - 1]
    OBVIOUS
  <2>3. shown' = (a \o <<h>>) \o b
    BY DEF Sp!InsertAt
  <2> DEFINE c == a \o <<h>>
  <2> HIDE DEF a, b
  <2>4. /\ c \in Seq(Homes) /\ Len(c) = i
        /\ \A k \in 1..i : c[k] = IF k < i THEN a[k] ELSE h
    BY <2>1
  <2>5. shown' = c \o b
    BY <2>3
  <2> HIDE DEF c
  <2>6. shown' \in Seq(Homes) /\ Len(shown') = Len(shown) + 1
    <3>1. Len(c) + Len(b) = Len(shown) + 1
      BY <2>2, <2>4
    <3>2. c \in Seq(Homes) /\ b \in Seq(Homes)
      BY <2>2, <2>4
    <3>3. c \o b \in Seq(Homes) /\ Len(c \o b) = Len(c) + Len(b)
      BY ONLY <3>2
    <3> QED
      BY <2>5, <3>1, <3>3
  <2>7. \A k \in 1..Len(shown) + 1 : shown'[k] = IF k <= i THEN c[k] ELSE b[k - i]
    BY <2>2, <2>4, <2>5
  <2>8. ASSUME NEW k \in 1..Len(shown) + 1, k > i
        PROVE  k - i \in 1..Len(shown) - i + 1 /\ (k - i) + i - 1 = k - 1
    BY <2>8
  <2>9. ASSUME NEW k \in 1..Len(shown) + 1
        PROVE  shown'[k] = IF k < i THEN shown[k] ELSE IF k = i THEN h ELSE shown[k - 1]
    <3>1. CASE k < i
      <4>1. k \in 1..i - 1 /\ k \in 1..i
        BY <3>1
      <4> QED
        BY <2>1, <2>4, <2>7, <3>1, <4>1
    <3>2. CASE k = i
      BY <2>4, <2>7, <3>2
    <3>3. CASE k > i
      <4>1. shown'[k] = b[k - i]
        BY <2>7, <3>3
      <4>2. b[k - i] = shown[(k - i) + i - 1]
        BY <2>2, <2>8, <3>3
      <4> QED
        BY <2>8, <3>3, <4>1, <4>2
    <3> QED
      BY <3>1, <3>2, <3>3
  <2> QED
    BY <2>6, <2>9
<1>2. DOMAIN shown = 1..Len(shown) /\ DOMAIN shown' = 1..Len(shown) + 1 /\ Len(shown) \in Nat
  BY <1>1
<1> DEFINE To(k) == IF k < i THEN k ELSE k + 1
<1>3. \A k \in DOMAIN shown : To(k) \in DOMAIN shown' /\ To(k) # i /\ shown'[To(k)] = shown[k]
  BY <1>1, <1>2
<1>4. \A k \in DOMAIN shown' : k = i \/ \E l \in DOMAIN shown : k = To(l)
  <2> SUFFICES ASSUME NEW k \in DOMAIN shown', k # i
               PROVE  \E l \in DOMAIN shown : k = To(l)
    OBVIOUS
  <2>1. CASE k < i
    BY <1>2, <2>1
  <2>2. CASE k > i
    <3>1. k - 1 \in DOMAIN shown /\ To(k - 1) = k
      BY <1>2, <2>2
    <3> QED
      BY <3>1
  <2> QED
    BY <1>2, <2>1, <2>2
<1>5. i \in DOMAIN shown' /\ shown'[i] = h
  BY <1>1, <1>2
<1>6. \A k, l \in DOMAIN shown : k < l => To(k) < To(l)
  BY <1>2
<1> HIDE DEF To
<1>7. Sp!Listed' = Sp!Listed \cup {h}
  BY <1>3, <1>4, <1>5 DEF Sp!Listed
<1>8. \A f, g \in Sp!Listed : Sp!Ahead(f, g) => Sp!Ahead(f, g)'
  BY <1>3, <1>6 DEF Sp!Ahead
<1>9. ASSUME NEW k \in DOMAIN shown', NEW l \in DOMAIN shown', shown'[k] = shown'[l]
      PROVE  k = l
  <2>1. \A m \in DOMAIN shown : shown[m] # h
    BY DEF Sp!Listed
  <2>2. k = i <=> l = i
    BY <1>3, <1>4, <1>5, <1>9, <2>1
  <2>3. CASE k # i
    BY <1>3, <1>4, <1>9, <2>2, <2>3 DEF Distinct
  <2> QED
    BY <2>2, <2>3
<1> QED
  BY <1>1, <1>7, <1>8, <1>9 DEF Distinct

\* Ranks only grow when an advertisement appears.
LEMMA RankGrows ==
  ASSUME shown \in Seq(Homes), Distinct, NEW h \in Homes, h \notin Sp!Listed,
         NEW i \in 1..Len(shown) + 1, shown' = Sp!InsertAt(shown, i, h), site' = site,
         NEW z, NEW g \in Sp!Results(z)
  PROVE  g \in Sp!Results(z)' /\ Sp!Rank(z, g) <= Sp!Rank(z, g)'
<1>1. /\ shown' \in Seq(Homes) /\ Sp!Listed' = Sp!Listed \cup {h}
      /\ \A e, f \in Sp!Listed : Sp!Ahead(e, f) => Sp!Ahead(e, f)'
  BY AppearKeeps
<1>2. Sp!Results(z) \subseteq Sp!Results(z)' /\ Sp!Results(z) \subseteq Sp!Listed
  BY <1>1 DEF Sp!Results
<1>3. Before(z, g) \subseteq Before(z, g)'
  BY <1>1, <1>2 DEF Before
<1>4. PICK S : S = Sp!Results(z)'
  OBVIOUS
<1>5. PICK B : B = Before(z, g)'
  OBVIOUS
<1>6. PICK s : s = shown'
  OBVIOUS
<1>7. IsFiniteSet(Sp!Listed') 
  <2>1. s \in Surjection(1..Len(s), Sp!Listed')
    BY <1>1, <1>6 DEF Surjection, Sp!Listed
  <2>2. IsFiniteSet(1..Len(s))
    BY <1>1, <1>6, FS_Interval
  <2> QED
    BY <2>1, <2>2, FS_Surjection
<1>8. IsFiniteSet(B)
  <2>1. B \in SUBSET (Sp!Listed')
    BY <1>5 DEF Before, Sp!Results
  <2> QED
    BY <1>7, <2>1, FS_Subset
<1>9. Cardinality(Before(z, g)) <= Cardinality(B) 
  <2>1. Before(z, g) \in SUBSET B
    BY <1>3, <1>5
  <2> QED
    BY <1>8, <2>1, FS_Subset
<1>10. Sp!Rank(z, g)' = Cardinality(B)
  BY <1>5, SpiderCounts DEF Before, Sp!Rank
<1> QED
  BY <1>2, <1>9, <1>10, RankIsNat

\* What is left when one vanishes.
LEMMA VanishKeeps ==
  ASSUME NEW H, shown \in Seq(H), Distinct, NEW i \in DOMAIN shown, shown' = Sp!RemoveAt(shown, i)
  PROVE  shown' \in Seq(H \ {shown[i]}) /\ Distinct'
<1>1. /\ shown' \in Seq(H) /\ Len(shown') = Len(shown) - 1
      /\ \A k \in 1..Len(shown) - 1 : shown'[k] = IF k < i THEN shown[k] ELSE shown[k + 1]
  <2> DEFINE a == SubSeq(shown, 1, i - 1)
             b == SubSeq(shown, i + 1, Len(shown))
  <2>1. a \in Seq(H) /\ Len(a) = i - 1 /\ \A k \in 1..i - 1 : a[k] = shown[k]
    OBVIOUS
  <2>2. b \in Seq(H) /\ Len(b) = Len(shown) - i
        /\ \A k \in 1..Len(shown) - i : b[k] = shown[k + i]
    OBVIOUS
  <2>3. shown' = a \o b
    BY DEF Sp!RemoveAt
  <2> HIDE DEF a, b
  <2>4. shown' \in Seq(H) /\ Len(shown') = Len(shown) - 1
    BY <2>1, <2>2, <2>3
  <2>5. \A k \in 1..Len(shown) - 1 : shown'[k] = IF k < i THEN a[k] ELSE b[k - (i - 1)]
    BY <2>1, <2>2, <2>3
  <2>6. ASSUME NEW k \in 1..Len(shown) - 1, k >= i
        PROVE  k - (i - 1) \in 1..Len(shown) - i /\ (k - (i - 1)) + i = k + 1
    BY <2>6
  <2>7. ASSUME NEW k \in 1..Len(shown) - 1
        PROVE  shown'[k] = IF k < i THEN shown[k] ELSE shown[k + 1]
    <3>1. CASE k < i
      <4>1. k \in 1..i - 1
        BY <3>1
      <4> QED
        BY <2>1, <2>5, <3>1, <4>1
    <3>2. CASE k >= i
      <4>1. shown'[k] = b[k - (i - 1)]
        BY <2>5, <3>2
      <4>2. b[k - (i - 1)] = shown[(k - (i - 1)) + i]
        BY <2>2, <2>6, <3>2
      <4> QED
        BY <2>6, <3>2, <4>1, <4>2
    <3> QED
      BY <3>1, <3>2
  <2> QED
    BY <2>4, <2>7
<1>2. DOMAIN shown = 1..Len(shown) /\ DOMAIN shown' = 1..Len(shown) - 1 /\ Len(shown) \in Nat
  BY <1>1
<1> DEFINE From(k) == IF k < i THEN k ELSE k + 1
<1>3. \A k \in DOMAIN shown' : From(k) \in DOMAIN shown /\ From(k) # i /\ shown'[k] = shown[From(k)]
  BY <1>1, <1>2
<1>4. \A k, l \in DOMAIN shown' : From(k) = From(l) => k = l
  BY <1>2
<1> HIDE DEF From
<1>5. Distinct'
  BY <1>3, <1>4 DEF Distinct
<1>6. \A k \in 1..Len(shown') : shown'[k] \in H \ {shown[i]}
  BY <1>1, <1>2, <1>3 DEF Distinct
<1>7. PICK s : s = shown'
  OBVIOUS
<1>8. s \in Seq(H \ {shown[i]})
  BY <1>1, <1>6, <1>7
<1> QED
  BY <1>5, <1>7, <1>8

-----------------------------------------------------------------------------
(* Spiders: types, and what is in hand                                      *)

\* The record in hand has been published.
RecordInHand ==
  /\ committed <= logEnd /\ base <= logEnd
  /\ \A p \in Pods : pos[p] <= logEnd /\ (pc[p] \in Busy => cur[p] \in 1..logEnd)

\* Before the first fault one pod has the partition, and only it has a record.
OneOwner == faults = 0 => \A p \in Pods : pc[p] \in Busy => owner = p

SpiderBasics == Sp!TypeOK /\ RecordInHand /\ OneOwner

\* What a step of the handler leaves of the pod.
TaskStep(p) ==
  /\ pc' = [pc EXCEPT ![p] = pc'[p]] /\ pc'[p] \in Busy
  /\ attempt' \in [Pods -> 0..RetryLimit]
  /\ task' = [task EXCEPT ![p] = task'[p]] /\ task'[p] \in Sp!Tasks
  /\ (task'[p].stage = "none") <=> (pc'[p] # "wait")
  /\ pc'[p] = "wait" => task'[p].zones # <<>>
  /\ task'[p].stage \in {"tell", "mark"} => task'[p].home \in Homes

\* The pod is done with its command, or at the first page of a zone.
Opens(p, stage) ==
  \/ task'[p] = Sp!NoTask
  \/ \E zones \in Seq(Zones) \ {<<>>}, html \in BOOLEAN : task'[p] = Sp!OpenZone(zones, stage, html)

\* What TypeOK says of the search order.
LEMMA ShownTypes ==
  ASSUME Sp!TypeOK
  PROVE  shown \in Seq(Homes) /\ Distinct
<1>1. shown \in Seq(Homes \ gone)
  BY DEF Sp!TypeOK
<1>2. Len(shown) \in Nat /\ DOMAIN shown = 1..Len(shown)
  BY <1>1
<1>3. \A i \in 1..Len(shown) : shown[i] \in Homes
  BY <1>1
<1>4. shown \in Seq(Homes)
  BY <1>1, <1>2, <1>3
<1> QED
  BY <1>4 DEF Sp!TypeOK, Distinct

\* The two beginnings of a task are tasks.
LEMMA NoTaskType == Sp!NoTask \in Sp!Tasks
BY DEF Sp!NoTask, Sp!Tasks, Sp!Stages

LEMMA OpenZoneType ==
  ASSUME Sp!TypeOK, NEW zones \in Seq(Zones) \ {<<>>}, NEW stage \in {"page", "detect"},
         NEW html \in BOOLEAN
  PROVE  /\ Sp!OpenZone(zones, stage, html) \in Sp!Tasks
         /\ Sp!OpenZone(zones, stage, html).stage = stage
         /\ Sp!OpenZone(zones, stage, html).zones = zones
<1>0. PICK S : S = IF stage = "page" THEN Sp!Results(Head(zones)) ELSE {}
  OBVIOUS
<1>1. S \subseteq Homes
  BY <1>0, ShownTypes, ResultsFinite
<1>2. Sp!OpenZone(zones, stage, html) =
        [stage |-> stage, zones |-> zones, page |-> 1, html |-> html, todo |-> {}, kept |-> {},
         home |-> Absent, steady |-> S, sent |-> {}, skipped |-> {}, moved |-> html]
  <2>1. Sp!OpenZone(zones, stage, html) =
          [Sp!NoTask EXCEPT !.stage = stage, !.zones = zones, !.html = html, !.moved = html, !.steady = S]
    BY <1>0 DEF Sp!OpenZone
  <2> QED
    BY <2>1 DEF Sp!NoTask
<1>3. stage \in Sp!Stages /\ zones \in Seq(Zones) /\ S \in SUBSET Homes
  BY <1>1 DEF Sp!Stages
<1>4. Sp!OpenZone(zones, stage, html) \in Sp!Tasks
  BY <1>2, <1>3 DEF Sp!Tasks
<1> QED
  BY <1>2, <1>4

\* The pod opens a zone, or is done with its command.
LEMMA OpensEffect ==
  ASSUME Sp!TypeOK, NEW p \in Pods, NEW zones \in Seq(Zones) \ {<<>>}, NEW stage \in {"page", "detect"},
         NEW html \in BOOLEAN, Sp!Become(p, Sp!OpenZone(zones, stage, html)), pc' = [pc EXCEPT ![p] = "wait"],
         attempt' = attempt
  PROVE  TaskStep(p) /\ Opens(p, stage)
<1>1. task \in [Pods -> Sp!Tasks] /\ pc \in [Pods -> Sp!Loop] /\ attempt \in [Pods -> 0..RetryLimit]
  BY DEF Sp!TypeOK, Sp!BrokerTypeOK
<1>2. task'[p] = Sp!OpenZone(zones, stage, html) /\ task' = [task EXCEPT ![p] = task'[p]]
  BY <1>1 DEF Sp!Become
<1>3. pc'[p] = "wait" /\ pc' = [pc EXCEPT ![p] = pc'[p]]
  BY <1>1
<1> QED
  BY <1>1, <1>2, <1>3, OpenZoneType DEF TaskStep, Opens, Busy

LEMMA EndsEffect ==
  ASSUME Sp!TypeOK, NEW p \in Pods, Sp!Become(p, Sp!NoTask), NEW stage,
         pc' = [pc EXCEPT ![p] = pc'[p]], pc'[p] \in Busy \ {"wait"},
         attempt' \in [Pods -> 0..RetryLimit]
  PROVE  TaskStep(p) /\ Opens(p, stage)
<1>1. task \in [Pods -> Sp!Tasks]
  BY DEF Sp!TypeOK
<1>2. task'[p] = Sp!NoTask /\ task' = [task EXCEPT ![p] = task'[p]]
  BY <1>1 DEF Sp!Become
<1>3. Sp!NoTask.stage = "none"
  BY DEF Sp!NoTask
<1> QED
  BY <1>2, <1>3, NoTaskType DEF TaskStep, Opens, Busy

\* So after every zone.
LEMMA NextZoneEffect ==
  ASSUME Sp!TypeOK, NEW p \in Pods, NEW stage \in {"page", "detect"}, pc[p] = "wait", Sp!NextZone(p, stage)
  PROVE  TaskStep(p) /\ Opens(p, stage)
<1>1. /\ task \in [Pods -> Sp!Tasks] /\ pc \in [Pods -> Sp!Loop] /\ attempt \in [Pods -> 0..RetryLimit]
      /\ task[p].zones # <<>>
  BY DEF Sp!TypeOK, Sp!BrokerTypeOK
<1>2. task[p].zones \in Seq(Zones)
  BY <1>1 DEF Sp!Tasks
<1>3. Tail(task[p].zones) \in Seq(Zones)
  BY <1>1, <1>2
<1>4. CASE Tail(task[p].zones) = <<>>
  <2>1. pc' = [pc EXCEPT ![p] = "commit"] /\ attempt' = attempt /\ Sp!Become(p, Sp!NoTask)
    BY <1>4 DEF Sp!NextZone, Sp!Returned, Sp!Goto
  <2> QED
    BY <1>1, <2>1, EndsEffect DEF Busy
<1>5. CASE Tail(task[p].zones) # <<>>
  <2>0. Sp!NoToken(p) \in BOOLEAN
    BY DEF Sp!NoToken
  <2>1. pc' = pc /\ attempt' = attempt /\ Sp!Become(p, Sp!OpenZone(Tail(task[p].zones), stage, Sp!NoToken(p)))
    BY <1>5 DEF Sp!NextZone
  <2>2. pc' = [pc EXCEPT ![p] = "wait"]
    BY <1>1, <2>1
  <2> QED
    BY <1>3, <1>5, <2>0, <2>1, <2>2, OpensEffect
<1> QED
  BY <1>4, <1>5

\* The handler goes on with the same command.
LEMMA GoesOnEffect ==
  ASSUME Sp!TypeOK, NEW p \in Pods, pc[p] = "wait", NEW t \in Sp!Tasks, Sp!Become(p, t), UNCHANGED <<pc, attempt>>,
         t.stage # "none", t.zones = task[p].zones, t.stage \in {"tell", "mark"} => t.home \in Homes
  PROVE  TaskStep(p) /\ task'[p] = t
<1>1. /\ task \in [Pods -> Sp!Tasks] /\ pc \in [Pods -> Sp!Loop] /\ attempt \in [Pods -> 0..RetryLimit]
      /\ task[p].zones # <<>>
  BY DEF Sp!TypeOK, Sp!BrokerTypeOK
<1>2. task'[p] = t /\ task' = [task EXCEPT ![p] = task'[p]]
  BY <1>1 DEF Sp!Become
<1>3. pc' = [pc EXCEPT ![p] = pc'[p]] /\ pc'[p] = "wait"
  BY <1>1
<1> QED
  BY <1>1, <1>2, <1>3 DEF TaskStep, Busy

\* With listings of the page, or with the next zone.
LEMMA OrNextZoneEffect ==
  ASSUME Sp!TypeOK, NEW p \in Pods, pc[p] = "wait", NEW homes, NEW j \in Sp!Tasks, Sp!OrNextZone(p, homes, j),
         j.stage \notin {"none", "tell", "mark"}, j.zones = task[p].zones
  PROVE  TaskStep(p) /\ (Opens(p, "page") \/ (homes # {} /\ task'[p] = j))
<1>1. CASE homes = {}
  BY <1>1, NextZoneEffect DEF Sp!OrNextZone
<1>2. CASE homes # {}
  BY <1>2, GoesOnEffect DEF Sp!OrNextZone
<1> QED
  BY <1>1, <1>2

Detail(p, urls) == [task[p] EXCEPT !.todo = urls, !.stage = "detail"]

\* The next url, or the next zone.
LEMMA RemainingEffect ==
  ASSUME Sp!TypeOK, NEW p \in Pods, pc[p] = "wait", NEW urls \in SUBSET Homes, Sp!Remaining(p, urls)
  PROVE  TaskStep(p) /\ (Opens(p, "detect") \/ task'[p] = Detail(p, urls))
<1>1. CASE urls = {}
  BY <1>1, NextZoneEffect DEF Sp!Remaining
<1>2. CASE urls # {}
  <2>1. task[p] \in Sp!Tasks
    BY DEF Sp!TypeOK
  <2>2. Detail(p, urls) \in Sp!Tasks /\ Detail(p, urls).stage = "detail" /\ Detail(p, urls).zones = task[p].zones
    BY <2>1 DEF Detail, Sp!Tasks, Sp!Stages
  <2>3. Sp!Become(p, Detail(p, urls)) /\ UNCHANGED <<pc, attempt>>
    BY <1>2 DEF Sp!Remaining, Detail
  <2> QED
    BY <2>2, <2>3, GoesOnEffect
<1> QED
  BY <1>1, <1>2

\* The retry loop stays in its range, and takes the pod out of its handler.
LEMMA RaisedEffects ==
  ASSUME Sp!TypeOK, NEW p \in Pods, Sp!Raised(p)
  PROVE  /\ pc' = [pc EXCEPT ![p] = pc'[p]] /\ pc'[p] \in {"call", "deadletter"}
         /\ attempt' \in [Pods -> 0..RetryLimit]
<1> USE RetryAssumption DEF Sp!TypeOK, Sp!BrokerTypeOK, Sp!Raised, Sp!Goto, Sp!Loop
<1>1. CASE attempt[p] = RetryLimit
  BY <1>1
<1>2. CASE attempt[p] # RetryLimit
  <2>1. attempt[p] + 1 \in 0..RetryLimit
    BY <1>2
  <2> QED
    BY <1>2, <2>1
<1> QED
  BY <1>1, <1>2

-----------------------------------------------------------------------------
(* What the handler does                                                    *)

Handler(p) == Sp!Fails(p) \/ Sp!Refused(p) \/ Sp!RefuseApi(p) \/ Sp!RefuseDetail(p) \/ Sp!Work(p)

\* What every step of it leaves alone.
Handles(p) ==
  /\ pc[p] \in {"call", "wait"}
  /\ UNCHANGED <<Sp!LoopVars, Sp!portal>>
  /\ TaskStep(p)
  /\ faults' \in 0..MaxFaults /\ faults <= faults'

\* And what each does to the command.
Redis == <<seen, told>>

Reset(p) ==
  /\ Opens(p, "page") \/ Opens(p, "detect") \/ task'[p].stage = "none"
  /\ UNCHANGED Redis
\* The sweep goes on, with what it published.
SameSweep(t, u) ==
  /\ u.zones = t.zones /\ u.page = t.page /\ u.steady = t.steady /\ u.sent = t.sent
  /\ u.moved = t.moved /\ t.skipped \subseteq u.skipped /\ (u.html => t.html)

\* A search page was read: all of it, or, of some spiders, part of it.
Swept(p) ==
  /\ Sp!Running(p, "page") /\ UNCHANGED Redis
  /\ SameSweep(task[p], task'[p]) /\ task'[p].stage \in {"read", "publish"}
  /\ \/ task[p].html
     \/ Sp!Page(Sp!Zone(p), task[p].page) = {}
     \/ task'[p].stage = "publish" /\ Sp!Page(Sp!Zone(p), task[p].page) \subseteq task'[p].todo
     \/ /\ Sp!Skips
        /\ Sp!Page(Sp!Zone(p), task[p].page) \subseteq
             task'[p].skipped \cup task'[p].todo
HomesRead(p) ==
  /\ Sp!Running(p, "read") /\ UNCHANGED Redis
  /\ SameSweep(task[p], task'[p]) /\ task'[p].stage \in {"read", "publish"}
  /\ task[p].todo \cup task[p].kept \subseteq
       task'[p].skipped \cup task'[p].todo \cup
         (IF task'[p].stage = "read" THEN task'[p].kept ELSE {})
Downgraded(p) ==
  /\ task[p].stage \in {"page", "detect"} /\ UNCHANGED Redis
  /\ task'[p].stage = task[p].stage /\ task'[p].moved
Published(p) ==
  /\ Sp!Running(p, "publish") /\ UNCHANGED Redis
  /\ \E h \in task[p].todo :
       \/ /\ task[p].todo = {h}
          /\ task'[p] = [task[p] EXCEPT !.todo = {}, !.sent = @ \cup {h}, !.stage = "page", !.page = @ + 1]
       \/ task'[p] = [task[p] EXCEPT !.todo = @ \ {h}, !.sent = @ \cup {h}]
Looked(p) ==
  /\ Sp!Running(p, "detect") /\ UNCHANGED Redis
  /\ task'[p].stage \in {"detect", "filter"}
Filtered(p) ==
  /\ Sp!Running(p, "filter") /\ UNCHANGED Redis
  /\ task'[p] = Detail(p, {h \in task[p].todo : site.filtered => Sp!SearchId(p, h) \notin seen[Sp!Zone(p)]})
Skipped(p) ==
  /\ Sp!Running(p, "detail") /\ UNCHANGED Redis
  /\ \E h \in task[p].todo : task'[p] = Detail(p, task[p].todo \ {h})
Picked(p) ==
  /\ Sp!Running(p, "detail") /\ UNCHANGED Redis
  /\ \E h \in task[p].todo :
       task'[p] = [task[p] EXCEPT !.stage = "tell", !.todo = @ \ {h}, !.home = h]
Announced(p) ==
  /\ Sp!Running(p, "tell") /\ seen' = seen
  /\ told' = [told EXCEPT ![Sp!Zone(p)][task[p].home] = @ + 1]
  /\ task'[p] = [task[p] EXCEPT !.stage = "mark"]
Marked(p) ==
  /\ Sp!Running(p, "mark") /\ told' = told
  /\ seen' = [seen EXCEPT ![Sp!Zone(p)] = @ \cup {Sp!DetailId(task[p].home)}]
  /\ Opens(p, "detect") \/ task'[p] = Detail(p, task[p].todo)

Does(p) ==
  \/ Reset(p) \/ Swept(p) \/ HomesRead(p) \/ Downgraded(p) \/ Published(p) \/ Looked(p) \/ Filtered(p) \/ Skipped(p) \/ Picked(p)
  \/ Announced(p) \/ Marked(p)

\* The faults stay in their bound.
LEMMA FaultsStep ==
  ASSUME Sp!TypeOK
  PROVE  /\ Sp!Fault => faults' \in 0..MaxFaults /\ faults < faults'
         /\ UNCHANGED faults => faults' \in 0..MaxFaults /\ faults <= faults'
BY BoundsAssumption DEF Sp!TypeOK, Sp!BrokerTypeOK, Sp!Fault

\* The command is parsed.
LEMMA ProcessEffect ==
  ASSUME SpiderBasics, NEW p \in Pods, Sp!ProcessMessage(p)
  PROVE  Handles(p) /\ Reset(p)
<1> USE DEF SpiderBasics
<1> DEFINE c == orders[cur[p]]
<1>1. c \in Commands
  <2>1. cur[p] \in 1..logEnd
    BY DEF Sp!ProcessMessage, RecordInHand, Busy
  <2>2. orders \in Seq(Commands) /\ Len(orders) = logEnd
    BY DEF Sp!TypeOK
  <2> QED
    BY <2>1, <2>2
<1>2. pc[p] = "call" /\ UNCHANGED <<Sp!LoopVars, Sp!portal, faults, Redis>>
  BY DEF Sp!ProcessMessage, Sp!redis, Redis
<1>3. faults' \in 0..MaxFaults /\ faults <= faults'
  BY <1>2, FaultsStep
<1>4. CASE c.valid
  <2>1. PICK stage \in {"page", "detect"} : stage = IF c.mode = "detect_new" THEN "detect" ELSE "page"
    OBVIOUS
  <2>2. c.zones \in Seq(Zones) \ {<<>>}
    BY <1>1, <1>4, CommandAssumption
  <2>3. Sp!Become(p, Sp!OpenZone(c.zones, stage, FALSE)) /\ pc' = [pc EXCEPT ![p] = "wait"] /\ attempt' = attempt
    BY <1>4, <2>1 DEF Sp!ProcessMessage, Sp!Goto
  <2>4. TaskStep(p) /\ Opens(p, stage)
    BY <2>2, <2>3, OpensEffect
  <2> QED
    BY <1>2, <1>3, <2>4 DEF Handles, Reset
<1>5. CASE ~c.valid
  <2>1. Sp!Raised(p) /\ task' = task
    BY <1>5 DEF Sp!ProcessMessage
  <2>2. task \in [Pods -> Sp!Tasks] /\ task[p].stage = "none"
    BY <1>2 DEF Sp!TypeOK
  <2>3. TaskStep(p)
    BY <2>1, <2>2, RaisedEffects DEF TaskStep, Busy
  <2> QED
    BY <1>2, <1>3, <2>1, <2>2, <2>3 DEF Handles, Reset
<1> QED
  BY <1>4, <1>5

\* An exception leaves the handler.
LEMMA FailsEffects ==
  ASSUME SpiderBasics, NEW p \in Pods, Sp!Fails(p)
  PROVE  Handles(p) /\ Reset(p)
<1> USE DEF SpiderBasics
<1>1. TaskStep(p) /\ Opens(p, "page")
  BY RaisedEffects, EndsEffect DEF Sp!Fails, Busy
<1>2. faults' \in 0..MaxFaults /\ faults <= faults'
  BY FaultsStep, BoundsAssumption DEF Sp!Fails, Sp!TypeOK, Sp!BrokerTypeOK, Sp!Fault
<1> QED
  BY <1>1, <1>2 DEF Sp!Fails, Handles, Reset, Sp!redis, Redis

\* The zone is given up.
LEMMA RefusedEffect ==
  ASSUME SpiderBasics, NEW p \in Pods, Sp!Refused(p)
  PROVE  Handles(p) /\ Reset(p)
<1> USE DEF SpiderBasics
<1>1. PICK stage \in {"page", "detect"} : stage = IF task[p].stage = "detect" THEN "detect" ELSE "page"
  OBVIOUS
<1>2. TaskStep(p) /\ Opens(p, stage)
  BY <1>1, NextZoneEffect DEF Sp!Refused, Sp!GiveUp
<1>3. faults' \in 0..MaxFaults /\ faults <= faults'
  BY FaultsStep, BoundsAssumption DEF Sp!Refused, Sp!TypeOK, Sp!BrokerTypeOK, Sp!Fault
<1> QED
  BY <1>2, <1>3 DEF Sp!Refused, Handles, Reset, Redis

\* What a command that is being executed looks like.
LEMMA TaskTypes ==
  ASSUME SpiderBasics, NEW p \in Pods, pc[p] = "wait"
  PROVE  /\ task[p] \in Sp!Tasks /\ task[p].zones \in Seq(Zones) \ {<<>>} /\ Sp!Zone(p) \in Zones
         /\ task[p].page \in Nat \ {0} /\ task[p].todo \subseteq Homes
         /\ task[p].stage \in {"tell", "mark"} => task[p].home \in Homes
         /\ Sp!OnPage(p) \subseteq Homes
         /\ UNCHANGED faults => faults' \in 0..MaxFaults /\ faults <= faults'
<1>1. task[p] \in Sp!Tasks /\ task[p].zones \in Seq(Zones) \ {<<>>}
  BY DEF SpiderBasics, Sp!TypeOK, Sp!Tasks
<1>2. Sp!Zone(p) \in Zones
  BY <1>1 DEF Sp!Zone
<1>3. Sp!OnPage(p) \subseteq Homes
  <2>1. \A page : Sp!Page(Sp!Zone(p), page) \subseteq Homes
    BY ShownTypes, ResultsFinite DEF Sp!Page, SpiderBasics
  <2>2. \A page : Sp!HtmlPage(page) \subseteq Homes
    BY ShownTypes, ResultsFinite DEF Sp!HtmlPage, SpiderBasics
  <2> QED
    BY <2>1, <2>2 DEF Sp!OnPage
<1>4. UNCHANGED faults => faults' \in 0..MaxFaults /\ faults <= faults'
  BY FaultsStep DEF SpiderBasics
<1> QED
  BY <1>1, <1>2, <1>3, <1>4 DEF Sp!Tasks, SpiderBasics, Sp!TypeOK

\* A sweep at its next point.
SweepAt(t, stage, html, todo, kept, skipped) ==
  [t EXCEPT !.stage = stage, !.html = html, !.todo = todo, !.kept = kept, !.skipped = skipped]

LEMMA AtType ==
  ASSUME NEW t \in Sp!Tasks, NEW stage \in Sp!Stages, NEW html \in BOOLEAN,
         NEW todo \in SUBSET Homes, NEW kept \in SUBSET Homes, NEW skipped \in SUBSET Homes,
         NEW u, u = SweepAt(t, stage, html, todo, kept, skipped)
  PROVE  /\ u \in Sp!Tasks
         /\ u.stage = stage /\ u.html = html /\ u.todo = todo /\ u.kept = kept /\ u.skipped = skipped
         /\ u.zones = t.zones /\ u.page = t.page /\ u.steady = t.steady /\ u.sent = t.sent
         /\ u.moved = t.moved
<1>1. u = [stage |-> stage, zones |-> t.zones, page |-> t.page, html |-> html, todo |-> todo,
           kept |-> kept, home |-> t.home, steady |-> t.steady, sent |-> t.sent,
           skipped |-> skipped, moved |-> t.moved]
  BY DEF SweepAt, Sp!Tasks
<1>2. u \in Sp!Tasks
  BY <1>1 DEF Sp!Tasks
<1> QED
  BY <1>1, <1>2

\* What is read of a page, in the three ways.
LEMMA PageRead ==
  ASSUME SpiderBasics, NEW p \in Pods, Sp!ScrapeSearchPage(p)
  PROVE  \E homes \in SUBSET Homes, stage \in {"read", "publish"}, todo \in SUBSET Homes,
            kept \in SUBSET Homes, skipped \in SUBSET Homes :
           /\ Sp!OrNextZone(p, homes, SweepAt(task[p], stage, Sp!NoToken(p), todo, kept, skipped))
           /\ task[p].skipped \subseteq skipped
           /\ \/ task[p].html
              \/ Sp!Page(Sp!Zone(p), task[p].page) = {}
              \/ stage = "publish" /\ Sp!Page(Sp!Zone(p), task[p].page) \subseteq todo
              \/ Sp!Skips /\ Sp!Page(Sp!Zone(p), task[p].page) \subseteq skipped \cup todo
<1>1. task[p] \in Sp!Tasks /\ Sp!OnPage(p) \in SUBSET Homes /\ task[p].skipped \in SUBSET Homes
      /\ task[p].kept \in SUBSET Homes
  BY TaskTypes DEF Sp!ScrapeSearchPage, Sp!Running, Sp!Tasks
<1> DEFINE t == task[p]
           S == Sp!OnPage(p)
           P == Sp!Page(Sp!Zone(p), task[p].page)
<1>2. t.html \/ P = {} \/ (S = P /\ (Sp!Mode(p) = "cards" \/ Sp!Skips))
  BY DEF Sp!OnPage, Sp!Mode, Sp!Fallen, Sp!Skips
<1>3. CASE Sp!Mode(p) = "cards"
  <2>1. Sp!OrNextZone(p, S, Sp!Publish(Sp!Paged(p), S))
    BY <1>3 DEF Sp!ScrapeSearchPage
  <2>2. Sp!Publish(Sp!Paged(p), S) = SweepAt(t, "publish", Sp!NoToken(p), S, {}, t.skipped)
    BY <1>1 DEF Sp!Publish, Sp!Paged, SweepAt, Sp!Tasks
  <2>3. Sp!OrNextZone(p, S, SweepAt(t, "publish", Sp!NoToken(p), S, {}, t.skipped))
    BY <2>1, <2>2
  <2>4. t.html \/ P = {} \/ P \subseteq S
    BY <1>2
  <2> HIDE DEF S, P
  <2> QED
    BY <1>1, <2>3, <2>4 DEF S, P
<1>4. CASE Sp!Mode(p) = "homes"
  <2>1. Sp!OrNextZone(p, S, [Sp!Paged(p) EXCEPT !.stage = "read", !.todo = S])
    BY <1>4 DEF Sp!ScrapeSearchPage
  <2>2. [Sp!Paged(p) EXCEPT !.stage = "read", !.todo = S] = SweepAt(t, "read", Sp!NoToken(p), S, t.kept, t.skipped)
    BY <1>1 DEF Sp!Paged, SweepAt, Sp!Tasks
  <2>3. Sp!OrNextZone(p, S, SweepAt(t, "read", Sp!NoToken(p), S, t.kept, t.skipped))
    BY <2>1, <2>2
  <2>4. t.html \/ P = {} \/ (Sp!Skips /\ P \subseteq t.skipped \cup S)
    BY <1>2, <1>4
  <2> HIDE DEF S, P
  <2> QED
    BY <1>1, <2>3, <2>4 DEF S, P
<1>5. CASE Sp!Mode(p) = "first"
  <2>1. PICK one \in {{}} \cup {{h} : h \in S} :
          LET j == [Sp!Paged(p) EXCEPT !.skipped = @ \cup (S \ one)]
          IN  Sp!OrNextZone(p, one, Sp!Publish(j, one))
    BY <1>5 DEF Sp!ScrapeSearchPage
  <2>2. Sp!Publish([Sp!Paged(p) EXCEPT !.skipped = @ \cup (S \ one)], one) =
          SweepAt(t, "publish", Sp!NoToken(p), one, {}, t.skipped \cup (S \ one))
    BY <1>1 DEF Sp!Publish, Sp!Paged, SweepAt, Sp!Tasks
  <2>3. Sp!OrNextZone(p, one, SweepAt(t, "publish", Sp!NoToken(p), one, {}, t.skipped \cup (S \ one)))
    BY <2>1, <2>2
  <2>4. one \in SUBSET Homes /\ t.skipped \cup (S \ one) \in SUBSET Homes
    BY <1>1
  <2>5. t.html \/ P = {} \/ (Sp!Skips /\ P \subseteq (t.skipped \cup (S \ one)) \cup one)
    BY <1>2, <1>5
  <2> HIDE DEF S, P
  <2> QED
    BY <1>1, <2>3, <2>4, <2>5 DEF S, P
<1> QED
  BY <1>3, <1>4, <1>5 DEF Sp!ScrapeSearchPage

\* A search page is read, and its listings are next, or the next zone.
LEMMA SearchEffect ==
  ASSUME SpiderBasics, NEW p \in Pods, Sp!ScrapeSearchPage(p)
  PROVE  Handles(p) /\ (Reset(p) \/ Swept(p))
<1>1. pc[p] = "wait" /\ UNCHANGED <<Sp!LoopVars, Sp!portal, faults, Redis>> /\ Sp!Running(p, "page")
  BY DEF Sp!ScrapeSearchPage, Sp!Running, Sp!redis, Redis
<1>2. /\ faults' \in 0..MaxFaults /\ faults <= faults'
      /\ task[p] \in Sp!Tasks /\ Sp!NoToken(p) \in BOOLEAN /\ (Sp!NoToken(p) => task[p].html)
  BY <1>1, TaskTypes DEF Sp!NoToken
<1>3. PICK homes \in SUBSET Homes, stage \in {"read", "publish"}, todo \in SUBSET Homes,
           kept \in SUBSET Homes, skipped \in SUBSET Homes :
        /\ Sp!OrNextZone(p, homes, SweepAt(task[p], stage, Sp!NoToken(p), todo, kept, skipped))
        /\ task[p].skipped \subseteq skipped
        /\ \/ task[p].html
           \/ Sp!Page(Sp!Zone(p), task[p].page) = {}
           \/ stage = "publish" /\ Sp!Page(Sp!Zone(p), task[p].page) \subseteq todo
           \/ Sp!Skips /\ Sp!Page(Sp!Zone(p), task[p].page) \subseteq skipped \cup todo
  BY PageRead
<1>4. PICK u : u = SweepAt(task[p], stage, Sp!NoToken(p), todo, kept, skipped)
  OBVIOUS
<1>5. /\ u \in Sp!Tasks
      /\ u.stage = stage /\ u.html = Sp!NoToken(p) /\ u.todo = todo /\ u.skipped = skipped
      /\ u.zones = task[p].zones /\ u.page = task[p].page /\ u.steady = task[p].steady
      /\ u.sent = task[p].sent /\ u.moved = task[p].moved
  <2>1. stage \in Sp!Stages
    BY DEF Sp!Stages
  <2> QED
    BY <1>2, <1>4, <2>1, AtType
<1>6. TaskStep(p) /\ (Opens(p, "page") \/ task'[p] = u)
  BY <1>1, <1>3, <1>4, <1>5, OrNextZoneEffect DEF SpiderBasics
<1>7. CASE Opens(p, "page")
  BY <1>1, <1>2, <1>6, <1>7 DEF Handles, Reset
<1>8. CASE task'[p] = u
  <2>1. SameSweep(task[p], u) /\ u.stage \in {"read", "publish"}
    BY <1>2, <1>3, <1>5 DEF SameSweep
  <2>2. Swept(p)
    BY <1>1, <1>3, <1>5, <1>8, <2>1 DEF Swept
  <2> QED
    BY <1>1, <1>2, <1>6, <2>2 DEF Handles
<1> QED
  BY <1>6, <1>7, <1>8

\* A home of the page is read, or passed over.
LEMMA HomeReadEffect ==
  ASSUME SpiderBasics, NEW p \in Pods, Sp!Running(p, "read"), NEW todo \in SUBSET Homes,
         NEW kept \in SUBSET Homes, NEW skipped \in SUBSET Homes,
         Sp!HomeRead(p, SweepAt(task[p], "read", task[p].html, todo, kept, skipped)),
         task[p].skipped \subseteq skipped,
         task[p].todo \cup task[p].kept \subseteq skipped \cup todo \cup kept,
         UNCHANGED <<seen, told>>
  PROVE  TaskStep(p) /\ (Opens(p, "page") \/ HomesRead(p))
<1>1. /\ pc[p] = "wait" /\ task[p] \in Sp!Tasks /\ task[p].html \in BOOLEAN
      /\ "read" \in Sp!Stages /\ "publish" \in Sp!Stages
  BY TaskTypes DEF Sp!Running, Sp!Tasks, Sp!Stages
<1>2. PICK j : j = SweepAt(task[p], "read", task[p].html, todo, kept, skipped)
  OBVIOUS
<1>3. /\ j \in Sp!Tasks
      /\ j.stage = "read" /\ j.html = task[p].html /\ j.todo = todo /\ j.kept = kept
      /\ j.skipped = skipped /\ SameSweep(task[p], j)
  BY <1>1, <1>2, AtType DEF SameSweep
<1>4. PICK k : k = SweepAt(task[p], "publish", task[p].html, kept, {}, skipped)
  OBVIOUS
<1>5. /\ k \in Sp!Tasks
      /\ k.stage = "publish" /\ k.html = task[p].html /\ k.todo = kept /\ k.kept = {}
      /\ k.skipped = skipped /\ SameSweep(task[p], k)
  BY <1>1, <1>4, AtType DEF SameSweep
<1>6. Sp!Publish(j, j.kept) = k
  BY <1>1, <1>2, <1>3, <1>4 DEF Sp!Publish, SweepAt, Sp!Tasks
<1>7. CASE todo = {}
  <2>1. Sp!OrNextZone(p, kept, k)
    BY <1>2, <1>3, <1>6, <1>7 DEF Sp!HomeRead
  <2>2. TaskStep(p) /\ (Opens(p, "page") \/ task'[p] = k)
    BY <1>1, <1>5, <2>1, OrNextZoneEffect DEF SpiderBasics, SameSweep
  <2>3. task'[p] = k => HomesRead(p)
    BY <1>5, <1>7 DEF HomesRead, Redis
  <2> QED
    BY <2>2, <2>3
<1>8. CASE todo # {}
  <2>1. Sp!OrNextZone(p, todo, j)
    BY <1>2, <1>3, <1>8 DEF Sp!HomeRead
  <2>2. TaskStep(p) /\ (Opens(p, "page") \/ task'[p] = j)
    BY <1>1, <1>3, <2>1, OrNextZoneEffect DEF SpiderBasics, SameSweep
  <2>3. task'[p] = j => HomesRead(p)
    BY <1>3 DEF HomesRead, Redis
  <2> QED
    BY <2>2, <2>3
<1> QED
  BY <1>7, <1>8

\* So a page of a home is read.
LEMMA ReadEffect ==
  ASSUME SpiderBasics, NEW p \in Pods, Sp!ReadHome(p)
  PROVE  Handles(p) /\ (Reset(p) \/ HomesRead(p))
<1>1. pc[p] = "wait" /\ UNCHANGED <<Sp!LoopVars, Sp!portal, faults, Redis>> /\ Sp!Running(p, "read")
  BY DEF Sp!ReadHome, Sp!Running, Redis
<1>2. /\ faults' \in 0..MaxFaults /\ faults <= faults'
      /\ task[p] \in Sp!Tasks /\ task[p].todo \in SUBSET Homes /\ task[p].kept \in SUBSET Homes
      /\ task[p].skipped \in SUBSET Homes /\ task[p].stage = "read"
  BY <1>1, TaskTypes DEF Sp!Tasks, Sp!Running
<1> DEFINE t == task[p]
           J(h) == [t EXCEPT !.todo = @ \ {h}]
<1>3. PICK h \in t.todo :
        \/ Sp!HomeRead(p, [J(h) EXCEPT !.kept = @ \cup {h}])
        \/ Sp!HomeRead(p, [J(h) EXCEPT !.skipped = @ \cup {h}])
        \/ Sp!GiveUp(p)
  BY DEF Sp!ReadHome
<1>4. CASE Sp!HomeRead(p, [J(h) EXCEPT !.kept = @ \cup {h}])
  <2>1. [J(h) EXCEPT !.kept = @ \cup {h}] =
          SweepAt(t, "read", t.html, t.todo \ {h}, t.kept \cup {h}, t.skipped)
    BY <1>2 DEF SweepAt, Sp!Tasks
  <2>2. Sp!HomeRead(p, SweepAt(t, "read", t.html, t.todo \ {h}, t.kept \cup {h}, t.skipped))
    BY <1>4, <2>1
  <2>3. /\ t.todo \ {h} \in SUBSET Homes /\ t.kept \cup {h} \in SUBSET Homes
        /\ t.todo \cup t.kept \subseteq t.skipped \cup (t.todo \ {h}) \cup (t.kept \cup {h})
    BY <1>2
  <2>4. TaskStep(p) /\ (Opens(p, "page") \/ HomesRead(p))
    BY <1>1, <1>2, <2>2, <2>3, HomeReadEffect DEF Redis
  <2> QED
    BY <1>1, <1>2, <2>4 DEF Handles, Reset
<1>5. CASE Sp!HomeRead(p, [J(h) EXCEPT !.skipped = @ \cup {h}])
  <2>1. [J(h) EXCEPT !.skipped = @ \cup {h}] =
          SweepAt(t, "read", t.html, t.todo \ {h}, t.kept, t.skipped \cup {h})
    BY <1>2 DEF SweepAt, Sp!Tasks
  <2>2. Sp!HomeRead(p, SweepAt(t, "read", t.html, t.todo \ {h}, t.kept, t.skipped \cup {h}))
    BY <1>5, <2>1
  <2>3. /\ t.todo \ {h} \in SUBSET Homes /\ t.skipped \cup {h} \in SUBSET Homes
        /\ t.todo \cup t.kept \subseteq (t.skipped \cup {h}) \cup (t.todo \ {h}) \cup t.kept
    BY <1>2
  <2>4. TaskStep(p) /\ (Opens(p, "page") \/ HomesRead(p))
    BY <1>1, <1>2, <2>2, <2>3, HomeReadEffect DEF Redis
  <2> QED
    BY <1>1, <1>2, <2>4 DEF Handles, Reset
<1>6. CASE Sp!GiveUp(p)
  <2>1. TaskStep(p) /\ Opens(p, "page")
    BY <1>1, <1>2, <1>6, NextZoneEffect DEF Sp!GiveUp, SpiderBasics
  <2> QED
    BY <1>1, <1>2, <2>1 DEF Handles, Reset
<1> QED
  BY <1>3, <1>4, <1>5, <1>6

\* The API refused.
LEMMA RefuseApiEffect ==
  ASSUME SpiderBasics, NEW p \in Pods, Sp!RefuseApi(p)
  PROVE  Handles(p) /\ Downgraded(p)
<1>1. pc[p] = "wait" /\ UNCHANGED <<Sp!LoopVars, Sp!portal, Redis>> /\ task[p].stage \in {"page", "detect"}
  BY DEF Sp!RefuseApi, Sp!redis, Redis
<1>2. faults' \in 0..MaxFaults /\ faults <= faults'
  BY FaultsStep, BoundsAssumption DEF Sp!RefuseApi, SpiderBasics, Sp!TypeOK, Sp!BrokerTypeOK,
     Sp!Fault
<1>3. PICK u : u = [task[p] EXCEPT !.html = TRUE, !.moved = TRUE]
  OBVIOUS
<1>4. u \in Sp!Tasks /\ u.stage = task[p].stage /\ u.zones = task[p].zones /\ u.moved
  BY <1>1, <1>3, TaskTypes DEF Sp!Tasks
<1>5. TaskStep(p) /\ task'[p] = u
  BY <1>1, <1>3, <1>4, GoesOnEffect DEF Sp!RefuseApi, SpiderBasics
<1> QED
  BY <1>1, <1>2, <1>4, <1>5 DEF Handles, Downgraded

\* A listing of the page is published.
LEMMA PublishEffect ==
  ASSUME SpiderBasics, NEW p \in Pods, Sp!PublishScraped(p)
  PROVE  Handles(p) /\ Published(p)
<1>1. /\ pc[p] = "wait" /\ UNCHANGED <<Sp!LoopVars, Sp!portal, faults, Redis, pc, attempt>>
      /\ Sp!Running(p, "publish")
  BY DEF Sp!PublishScraped, Sp!Running, Sp!Still, Sp!broker, Sp!LoopVars, Sp!log_, Sp!group,
     Sp!reader, Sp!redis, Redis
<1>2. faults' \in 0..MaxFaults /\ faults <= faults'
  BY <1>1, TaskTypes
<1> DEFINE More(h) == [task[p] EXCEPT !.todo = @ \ {h}, !.sent = @ \cup {h}]
           Last(h) == [task[p] EXCEPT !.todo = {}, !.sent = @ \cup {h}, !.stage = "page", !.page = @ + 1]
<1>3. PICK h \in task[p].todo : \/ task[p].todo \ {h} = {} /\ Sp!Become(p, Last(h))
                                \/ Sp!Become(p, More(h))
  <2>1. PICK h \in task[p].todo :
          LET rest == task[p].todo \ {h}
              j    == [task[p] EXCEPT !.todo = rest, !.sent = @ \cup {h}]
          IN  Sp!Become(p, IF rest = {} THEN [j EXCEPT !.stage = "page", !.page = @ + 1] ELSE j)
    BY DEF Sp!PublishScraped
  <2>2. CASE task[p].todo \ {h} # {}
    BY <2>1, <2>2
  <2>3. CASE task[p].todo \ {h} = {}
    <3>1. Sp!Become(p, [[task[p] EXCEPT !.todo = {}, !.sent = @ \cup {h}] EXCEPT !.stage = "page", !.page = @ + 1])
      BY <2>1, <2>3
    <3>2. task[p] \in Sp!Tasks
      BY <1>1, TaskTypes
    <3>3. [[task[p] EXCEPT !.todo = {}, !.sent = @ \cup {h}] EXCEPT !.stage = "page", !.page = @ + 1] = Last(h)
      BY <3>2 DEF Sp!Tasks
    <3> QED
      BY <2>3, <3>1, <3>3
  <2> QED
    BY <2>2, <2>3
<1>4. /\ More(h) \in Sp!Tasks /\ More(h).stage = "publish" /\ More(h).zones = task[p].zones
      /\ Last(h) \in Sp!Tasks /\ Last(h).stage = "page" /\ Last(h).zones = task[p].zones
  <2>1. /\ task[p] \in Sp!Tasks /\ task[p].stage = "publish" /\ h \in Homes
        /\ task[p].page + 1 \in Nat \ {0}
    BY <1>1, TaskTypes DEF Sp!Running
  <2>2. More(h) \in Sp!Tasks /\ More(h).stage = "publish" /\ More(h).zones = task[p].zones
    BY <2>1 DEF Sp!Tasks
  <2>3. Last(h) \in Sp!Tasks /\ Last(h).stage = "page" /\ Last(h).zones = task[p].zones
    BY <2>1 DEF Sp!Tasks, Sp!Stages
  <2> QED
    BY <2>2, <2>3
<1>5. CASE Sp!Become(p, More(h))
  <2> HIDE DEF More
  <2>1. TaskStep(p) /\ task'[p] = More(h)
    BY <1>1, <1>4, <1>5, GoesOnEffect DEF SpiderBasics
  <2> QED
    BY <1>1, <1>2, <2>1 DEF Handles, Published, More
<1>6. CASE task[p].todo \ {h} = {} /\ Sp!Become(p, Last(h))
  <2> HIDE DEF Last
  <2>1. TaskStep(p) /\ task'[p] = Last(h)
    BY <1>1, <1>4, <1>6, GoesOnEffect DEF SpiderBasics
  <2>2. task[p].todo = {h}
    BY <1>6
  <2> QED
    BY <1>1, <1>2, <2>1, <2>2 DEF Handles, Published, Last
<1> QED
  BY <1>3, <1>5, <1>6

\* A search page is looked at.
LEMMA DetectEffect ==
  ASSUME SpiderBasics, NEW p \in Pods, Sp!DetectPage(p)
  PROVE  Handles(p) /\ Looked(p)
<1>1. /\ pc[p] = "wait" /\ UNCHANGED <<Sp!LoopVars, Sp!portal, faults, Redis, pc, attempt>>
      /\ Sp!Running(p, "detect")
  BY DEF Sp!DetectPage, Sp!Running, Sp!Still, Sp!broker, Sp!LoopVars, Sp!log_, Sp!group,
     Sp!reader, Sp!redis, Redis
<1>2. faults' \in 0..MaxFaults /\ faults <= faults'
  BY <1>1, TaskTypes
<1>3. PICK found : found = task[p].todo \cup IF Sp!Mode(p) = "first" THEN {} ELSE Sp!OnPage(p)
  OBVIOUS
<1>4. PICK t : t = IF task[p].page = site.pages
                   THEN [Sp!Paged(p) EXCEPT !.todo = found, !.stage = "filter"]
                   ELSE [Sp!Paged(p) EXCEPT !.todo = found, !.page = @ + 1]
  OBVIOUS
<1>5. Sp!Become(p, t)
  BY <1>3, <1>4 DEF Sp!DetectPage
<1>6. t \in Sp!Tasks /\ t.stage \in {"detect", "filter"} /\ t.zones = task[p].zones
  <2>1. /\ found \in SUBSET Homes /\ task[p] \in Sp!Tasks /\ task[p].stage = "detect"
        /\ task[p].page \in Nat \ {0} /\ task[p].page + 1 \in Nat \ {0}
    BY <1>1, <1>3, TaskTypes DEF Sp!Running
  <2>2. Sp!NoToken(p) \in BOOLEAN
    BY DEF Sp!NoToken
  <2>3. Sp!Paged(p) \in Sp!Tasks /\ Sp!Paged(p).stage = "detect" /\ Sp!Paged(p).zones = task[p].zones
        /\ Sp!Paged(p).page = task[p].page
    BY <2>1, <2>2 DEF Sp!Paged, Sp!Tasks
  <2>4. CASE task[p].page = site.pages
    <3>1. t = [Sp!Paged(p) EXCEPT !.todo = found, !.stage = "filter"]
      BY <1>4, <2>4
    <3> QED
      BY <2>1, <2>3, <3>1 DEF Sp!Tasks, Sp!Stages
  <2>5. CASE task[p].page # site.pages
    <3>1. t = [Sp!Paged(p) EXCEPT !.todo = found, !.page = @ + 1]
      BY <1>4, <2>5
    <3> QED
      BY <2>1, <2>3, <3>1 DEF Sp!Tasks, Sp!Stages
  <2> QED
    BY <2>4, <2>5
<1>7. TaskStep(p) /\ task'[p] = t
  BY <1>1, <1>5, <1>6, GoesOnEffect DEF SpiderBasics
<1> QED
  BY <1>1, <1>2, <1>6, <1>7 DEF Handles, Looked

\* What is new is kept.
LEMMA FilterEffect ==
  ASSUME SpiderBasics, NEW p \in Pods, Sp!FilterNew(p)
  PROVE  Handles(p) /\ (Reset(p) \/ Filtered(p))
<1> DEFINE new == {h \in task[p].todo : site.filtered => Sp!SearchId(p, h) \notin seen[Sp!Zone(p)]}
<1>1. pc[p] = "wait" /\ UNCHANGED <<Sp!LoopVars, Sp!portal, faults, Redis>> /\ Sp!Running(p, "filter")
  BY DEF Sp!FilterNew, Sp!Running, Sp!redis, Redis
<1>2. /\ faults' \in 0..MaxFaults /\ faults <= faults'
      /\ new \in SUBSET Homes
  BY <1>1, TaskTypes
<1>3. Sp!Remaining(p, new)
  BY DEF Sp!FilterNew
<1>4. TaskStep(p) /\ (Opens(p, "detect") \/ task'[p] = Detail(p, new))
  BY <1>1, <1>2, <1>3, RemainingEffect DEF SpiderBasics
<1> QED
  BY <1>1, <1>2, <1>4 DEF Handles, Reset, Filtered

\* The page of a home is read, or is gone.
LEMMA DetailEffect ==
  ASSUME SpiderBasics, NEW p \in Pods, Sp!ScrapeDetail(p)
  PROVE  Handles(p) /\ (Reset(p) \/ Skipped(p) \/ Picked(p))
<1>1. pc[p] = "wait" /\ UNCHANGED <<Sp!LoopVars, Sp!portal, faults, Redis>> /\ Sp!Running(p, "detail")
  BY DEF Sp!ScrapeDetail, Sp!Running, Redis
<1>2. faults' \in 0..MaxFaults /\ faults <= faults'
  BY <1>1, TaskTypes
<1> DEFINE T(h) == [task[p] EXCEPT !.stage = "tell", !.todo = @ \ {h}, !.home = h]
<1>3. PICK h \in task[p].todo : \/ Sp!Become(p, T(h)) /\ UNCHANGED <<pc, attempt>>
                                \/ Sp!Remaining(p, task[p].todo \ {h})
  BY DEF Sp!ScrapeDetail
<1>4. h \in Homes /\ task[p].todo \ {h} \in SUBSET Homes
  BY <1>1, TaskTypes
<1>5. CASE Sp!Become(p, T(h)) /\ UNCHANGED <<pc, attempt>>
  <2>0. task[p] \in Sp!Tasks
    BY <1>1, TaskTypes
  <2>1. T(h) \in Sp!Tasks /\ T(h).stage = "tell" /\ T(h).zones = task[p].zones /\ T(h).home = h
    BY <1>4, <2>0 DEF Sp!Tasks, Sp!Stages
  <2> HIDE DEF T
  <2>2. TaskStep(p) /\ task'[p] = T(h)
    BY <1>1, <1>4, <1>5, <2>1, GoesOnEffect DEF SpiderBasics
  <2> QED
    BY <1>1, <1>2, <2>2 DEF Handles, Picked, T
<1>6. CASE Sp!Remaining(p, task[p].todo \ {h})
  <2>1. TaskStep(p) /\ (Opens(p, "detect") \/ task'[p] = Detail(p, task[p].todo \ {h}))
    BY <1>1, <1>4, <1>6, RemainingEffect DEF SpiderBasics
  <2> QED
    BY <1>1, <1>2, <2>1 DEF Handles, Reset, Skipped
<1> QED
  BY <1>3, <1>5, <1>6

\* The page of a home is refused.
LEMMA RefuseDetailEffect ==
  ASSUME SpiderBasics, NEW p \in Pods, Sp!RefuseDetail(p)
  PROVE  Handles(p) /\ (Reset(p) \/ Skipped(p))
<1>1. pc[p] = "wait" /\ UNCHANGED <<Sp!LoopVars, Sp!portal, Redis>> /\ Sp!Running(p, "detail")
  BY DEF Sp!RefuseDetail, Sp!Running, Redis
<1>2. faults' \in 0..MaxFaults /\ faults <= faults'
  <2>1. Sp!Fault
    BY DEF Sp!RefuseDetail
  <2>2. faults \in 0..MaxFaults
    BY DEF SpiderBasics, Sp!TypeOK, Sp!BrokerTypeOK
  <2> QED
    BY <2>1, <2>2, BoundsAssumption DEF Sp!Fault
<1>3. PICK h \in task[p].todo : Sp!Remaining(p, task[p].todo \ {h})
  BY DEF Sp!RefuseDetail
<1>4. task[p].todo \ {h} \in SUBSET Homes
  BY <1>1, TaskTypes
<1>5. TaskStep(p) /\ (Opens(p, "detect") \/ task'[p] = Detail(p, task[p].todo \ {h}))
  BY <1>1, <1>3, <1>4, RemainingEffect DEF SpiderBasics
<1> QED
  BY <1>1, <1>2, <1>5 DEF Handles, Reset, Skipped

\* A new listing is published.
LEMMA TellEffect ==
  ASSUME SpiderBasics, NEW p \in Pods, Sp!PublishListing(p)
  PROVE  Handles(p) /\ Announced(p)
<1>1. /\ pc[p] = "wait" /\ UNCHANGED <<Sp!LoopVars, Sp!portal, faults, seen, pc, attempt>>
      /\ Sp!Running(p, "tell")
  BY DEF Sp!PublishListing, Sp!Running, Sp!Still, Sp!broker, Sp!LoopVars, Sp!log_, Sp!group,
     Sp!reader, Sp!redis
<1>2. faults' \in 0..MaxFaults /\ faults <= faults'
  BY <1>1, TaskTypes
<1> DEFINE t == [task[p] EXCEPT !.stage = "mark"]
<1>3. Sp!Become(p, t) /\ told' = [told EXCEPT ![Sp!Zone(p)][task[p].home] = @ + 1]
  BY DEF Sp!PublishListing
<1>4. t \in Sp!Tasks /\ t.stage = "mark" /\ t.zones = task[p].zones /\ t.home \in Homes
  BY <1>1, TaskTypes DEF Sp!Tasks, Sp!Stages, Sp!Running
<1> HIDE DEF t
<1>5. TaskStep(p) /\ task'[p] = t
  BY <1>1, <1>3, <1>4, GoesOnEffect DEF SpiderBasics
<1> QED
  BY <1>1, <1>2, <1>3, <1>5 DEF Handles, Announced, t

\* And marked.
LEMMA MarkEffect ==
  ASSUME SpiderBasics, NEW p \in Pods, Sp!MarkSeen(p)
  PROVE  Handles(p) /\ Marked(p)
<1>1. pc[p] = "wait" /\ UNCHANGED <<Sp!LoopVars, Sp!portal, faults, told>> /\ Sp!Running(p, "mark")
  BY DEF Sp!MarkSeen, Sp!Running
<1>2. faults' \in 0..MaxFaults /\ faults <= faults' /\ task[p].todo \in SUBSET Homes
  BY <1>1, TaskTypes
<1>3. TaskStep(p) /\ (Opens(p, "detect") \/ task'[p] = Detail(p, task[p].todo))
  BY <1>1, <1>2, RemainingEffect DEF Sp!MarkSeen, SpiderBasics
<1> QED
  BY <1>1, <1>2, <1>3 DEF Handles, Marked, Sp!MarkSeen

\* So each step of the handler does one of these.
LEMMA HandlerEffect ==
  ASSUME SpiderBasics, NEW p \in Pods, Handler(p)
  PROVE  Handles(p) /\ Does(p)
BY ProcessEffect, FailsEffects, RefusedEffect, RefuseApiEffect, SearchEffect, ReadEffect,
   PublishEffect,
   DetectEffect, FilterEffect, DetailEffect, RefuseDetailEffect, TellEffect, MarkEffect DEF Handler, Sp!Work, Does

-----------------------------------------------------------------------------
(* The basics are an invariant                                              *)

\* What a task looks like beside its pod.
TasksOK ==
  /\ task \in [Pods -> Sp!Tasks]
  /\ \A p \in Pods : /\ (task[p].stage = "none") <=> (pc[p] # "wait")
                     /\ pc[p] = "wait" => task[p].zones # <<>>
                     /\ task[p].stage \in {"tell", "mark"} => task[p].home \in Homes

PortalOK ==
  /\ orders \in Seq(Commands) /\ Len(orders) = logEnd
  /\ site \in Portals
  /\ shown \in Seq(Homes \ gone) /\ gone \subseteq Homes
  /\ Distinct

RedisOK ==
  /\ seen \in [Zones -> SUBSET {Sp!DetailId(h) : h \in Homes}]
  /\ quarantine \subseteq Homes \cup Zones
  /\ told \in [Zones -> [Homes -> Nat]]

Parts == Sp!BrokerTypeOK /\ PortalOK /\ TasksOK /\ RedisOK

\* TypeOK, part by part.
LEMMA TypeParts == (Sp!TypeOK <=> Parts) /\ (Sp!TypeOK' <=> Parts')
BY DEF Parts, Sp!TypeOK, PortalOK, TasksOK, RedisOK, Distinct

\* A part holds on while its variables stay.
LEMMA PortalKept ==
  ASSUME PortalOK, UNCHANGED <<logEnd, Sp!portal>>
  PROVE  PortalOK'
BY DEF PortalOK, Sp!portal, Distinct

LEMMA RedisKept ==
  ASSUME RedisOK, UNCHANGED <<site, Sp!redis, told>>
  PROVE  RedisOK'
BY DEF RedisOK, Sp!redis, Sp!DetailId

\* The basics hold at first.
LEMMA SpiderInit ==
  ASSUME Sp!Init
  PROVE  SpiderBasics
<1>1. Sp!BrokerTypeOK /\ RecordInHand /\ OneOwner
  BY BoundsAssumption, RetryAssumption
     DEF Sp!Init, Sp!BrokerInit, Sp!BrokerTypeOK, RecordInHand, OneOwner, Sp!NoOffset, Sp!Loop, Busy
<1>2. TasksOK
  BY NoTaskType DEF Sp!Init, Sp!BrokerInit, TasksOK, Sp!NoTask
<1>3. PortalOK
  <2>1. orders = <<>> /\ shown = <<>> /\ logEnd = 0 /\ gone = {} /\ site \in Portals
    BY DEF Sp!Init, Sp!BrokerInit
  <2>2. <<>> \in Seq(Homes) /\ <<>> \in Seq(Commands) /\ Len(<<>>) = 0 /\ DOMAIN <<>> = {}
    OBVIOUS
  <2> QED
    BY <2>1, <2>2 DEF PortalOK, Distinct
<1>4. RedisOK
  BY DEF Sp!Init, RedisOK
<1> QED
  BY <1>1, <1>2, <1>3, <1>4, TypeParts DEF SpiderBasics, Parts

\* The environment adds an order, or changes what is shown.
LEMMA OrderStep ==
  ASSUME SpiderBasics, NEW c \in Commands, Sp!Order(c)
  PROVE  SpiderBasics'
<1> USE TypeParts DEF SpiderBasics, Parts
<1>1. Sp!BrokerTypeOK' /\ RecordInHand' /\ OneOwner'
  <2>1. /\ logEnd < MaxMessages /\ logEnd' = logEnd + 1
        /\ UNCHANGED <<committed, owner, generation, pc, pos, cur, taken, attempt, dead, base, faults>>
    BY DEF Sp!Order, Sp!Produce, Sp!group, Sp!reader
  <2>2. logEnd \in Nat /\ logEnd' \in 0..MaxMessages
    BY <2>1, BoundsAssumption DEF Sp!BrokerTypeOK
  <2>3. Sp!BrokerTypeOK'
    BY <2>1, <2>2 DEF Sp!BrokerTypeOK, Sp!Messages
  <2>4. \A n \in {committed, base} \cup {pos[p] : p \in Pods} \cup {cur[p] : p \in Pods} :
          n \in Int /\ (n <= logEnd => n <= logEnd + 1)
    BY <2>2, BoundsAssumption DEF Sp!BrokerTypeOK, Sp!NoOffset
  <2>5. RecordInHand'
    BY <2>1, <2>2, <2>4 DEF RecordInHand
  <2> QED
    BY <2>1, <2>3, <2>5 DEF OneOwner
<1>2. TasksOK'
  BY DEF Sp!Order, Sp!Produce, TasksOK
<1>3. PortalOK'
  <2>1. /\ orders' = Append(orders, c) /\ logEnd' = logEnd + 1
        /\ UNCHANGED <<site, shown, gone>>
    BY DEF Sp!Order, Sp!Produce
  <2>2. orders' \in Seq(Commands) /\ Len(orders') = logEnd'
    BY <2>1 DEF PortalOK
  <2> QED
    BY <2>1, <2>2 DEF PortalOK, Distinct
<1>4. RedisOK'
  BY RedisKept DEF Sp!Order
<1> QED
  BY <1>1, <1>2, <1>3, <1>4

\* An advertisement appears.
LEMMA AppearStep ==
  ASSUME SpiderBasics, NEW h \in Homes, Sp!Appear(h)
  PROVE  SpiderBasics'
<1> USE TypeParts DEF SpiderBasics, Parts
<1>1. Sp!BrokerTypeOK' /\ RecordInHand' /\ OneOwner'
  BY DEF Sp!Appear, Sp!Still, Sp!broker, Sp!BrokerTypeOK, RecordInHand, OneOwner
<1>2. TasksOK'
  BY DEF Sp!Appear, Sp!Still, Sp!broker, TasksOK
<1>3. PortalOK'
  <2>1. PICK i \in 1..Len(shown) + 1 : shown' = Sp!InsertAt(shown, i, h)
    BY DEF Sp!Appear
  <2>2. h \notin Sp!Listed \cup gone /\ UNCHANGED <<logEnd, orders, site, gone>>
    BY DEF Sp!Appear, Sp!Still, Sp!broker
  <2>3. shown' \in Seq(Homes) /\ Distinct' /\ Sp!Listed' = Sp!Listed \cup {h}
    BY <2>1, <2>2, ShownTypes, AppearKeeps
  <2>4. Sp!Listed \cap gone = {}
    <3>1. shown \in Seq(Homes \ gone)
      BY DEF PortalOK
    <3> QED
      BY <3>1 DEF Sp!Listed
  <2>5. Sp!Listed' \cap gone = {}
    BY <2>2, <2>3, <2>4
  <2>6. PICK s : s = shown'
    OBVIOUS
  <2>7. \A k \in 1..Len(s) : s[k] \in Homes \ gone
    BY <2>3, <2>5, <2>6 DEF Sp!Listed
  <2>8. s \in Seq(Homes \ gone)
    BY <2>3, <2>6, <2>7
  <2> QED
    BY <2>2, <2>3, <2>6, <2>8 DEF PortalOK
<1>4. RedisOK'
  BY RedisKept DEF Sp!Appear
<1> QED
  BY <1>1, <1>2, <1>3, <1>4

\* A sweep's history after a home vanished.
Shrinks(t, h) ==
  IF t.stage \in {"page", "read", "publish"} THEN [t EXCEPT !.steady = @ \ {h}, !.moved = TRUE] ELSE t

\* It is a task still, at the same point.
LEMMA ShrinksType ==
  ASSUME NEW t \in Sp!Tasks, NEW h
  PROVE  /\ Shrinks(t, h) \in Sp!Tasks /\ Shrinks(t, h).stage = t.stage
         /\ Shrinks(t, h).zones = t.zones /\ Shrinks(t, h).home = t.home
         /\ Shrinks(t, h).todo = t.todo
         /\ t.stage \in {"page", "read", "publish"} => Shrinks(t, h).moved
<1>1. CASE t.stage \in {"page", "read", "publish"}
  <2>1. Shrinks(t, h) = [t EXCEPT !.steady = @ \ {h}, !.moved = TRUE]
    BY <1>1 DEF Shrinks
  <2>2. t.steady \ {h} \in SUBSET Homes
    BY DEF Sp!Tasks
  <2> QED
    BY <2>1, <2>2 DEF Sp!Tasks
<1>2. CASE t.stage \notin {"page", "read", "publish"}
  BY <1>2 DEF Shrinks
<1> QED
  BY <1>1, <1>2

\* Every task loses the home that vanishes.
LEMMA VanishTasks ==
  ASSUME TasksOK, NEW h, Sp!Vanish(h)
  PROVE  task' \in [Pods -> Sp!Tasks] /\ \A p \in Pods : task'[p] = Shrinks(task[p], h)
<1>1. task' = [p \in Pods |-> Shrinks(task[p], h)]
  BY DEF Sp!Vanish, Shrinks
<1>2. \A p \in Pods : Shrinks(task[p], h) \in Sp!Tasks
  BY ShrinksType DEF TasksOK
<1> QED
  BY <1>1, <1>2

\* And the basics hold on.
LEMMA VanishStep ==
  ASSUME SpiderBasics, NEW h \in Homes, Sp!Vanish(h)
  PROVE  SpiderBasics'
<1> USE TypeParts DEF SpiderBasics, Parts
<1>1. Sp!BrokerTypeOK' /\ RecordInHand' /\ OneOwner'
  BY DEF Sp!Vanish, Sp!Still, Sp!broker, Sp!BrokerTypeOK, RecordInHand, OneOwner
<1>2. TasksOK'
  <2>1. pc' = pc
    BY DEF Sp!Vanish, Sp!Still, Sp!broker
  <2>2. \A p \in Pods : /\ task'[p].stage = task[p].stage /\ task'[p].zones = task[p].zones
                        /\ task'[p].home = task[p].home
    BY VanishTasks, ShrinksType DEF TasksOK
  <2> QED
    BY <2>1, <2>2, VanishTasks DEF TasksOK
<1>3. PortalOK'
  <2>1. PICK i \in DOMAIN shown : shown[i] = h /\ shown' = Sp!RemoveAt(shown, i)
    BY DEF Sp!Vanish
  <2>2. gone' = gone \cup {h} /\ UNCHANGED <<logEnd, orders, site>>
    BY DEF Sp!Vanish, Sp!Still, Sp!broker
  <2>3. shown' \in Seq((Homes \ gone) \ {h}) /\ Distinct'
    BY <2>1, VanishKeeps DEF PortalOK
  <2>4. (Homes \ gone) \ {h} = Homes \ gone'
    BY <2>2
  <2> QED
    BY <2>2, <2>3, <2>4 DEF PortalOK
<1>4. RedisOK'
  BY RedisKept DEF Sp!Vanish
<1> QED
  BY <1>1, <1>2, <1>3, <1>4

\* A step of the broker never puts a pod into its handler, nor takes it out.
LEMMA RuntimeStep ==
  ASSUME SpiderBasics, NEW p \in Pods, Sp!Runtime(p)
  PROVE  SpiderBasics' /\ (pc'[p] = "wait" <=> pc[p] = "wait") /\ \A q \in Pods : q # p => pc'[q] = pc[q]
<1> USE TypeParts DEF SpiderBasics, Parts
<1>1. UNCHANGED <<Sp!portal, task, Sp!redis, told>>
  BY DEF Sp!Runtime
<1>2. /\ Sp!BrokerTypeOK' /\ RecordInHand' /\ OneOwner' /\ logEnd' = logEnd
      /\ (pc'[p] = "wait" <=> pc[p] = "wait") /\ \A q \in Pods : q # p => pc'[q] = pc[q]
  <2> USE BoundsAssumption, RetryAssumption, PodsAssumption
      DEF Sp!BrokerTypeOK, RecordInHand, OneOwner, Sp!Loop, Busy, Sp!NoOffset, Sp!Goto, Sp!log_, Sp!group, Sp!reader, Sp!Messages
  <2>1. CASE Sp!Assign(p)
    BY <2>1 DEF Sp!Assign, Sp!AssignTo, Sp!NoFault
  <2>2. CASE Sp!Rebalance(p)
    BY <2>2 DEF Sp!Rebalance, Sp!AssignTo, Sp!Fault
  <2>3. CASE Sp!StartPod(p)
    BY <2>3 DEF Sp!StartPod
  <2>4. CASE Sp!Fetch(p)
    BY <2>4 DEF Sp!Fetch
  <2>5. CASE Sp!DeadLetter(p)
    BY <2>5 DEF Sp!DeadLetter
  <2>6. CASE Sp!Commit(p)
    BY <2>6 DEF Sp!Commit
  <2> QED
    BY <2>1, <2>2, <2>3, <2>4, <2>5, <2>6 DEF Sp!Runtime, Sp!LoopStep
<1>3. TasksOK'
  BY <1>1, <1>2 DEF TasksOK
<1> QED
  BY <1>1, <1>2, <1>3, PortalKept, RedisKept DEF Sp!portal

\* A pod that dies costs a fault and drops its command.
LEMMA DieStep ==
  ASSUME SpiderBasics, NEW p \in Pods, Sp!Die(p)
  PROVE  /\ SpiderBasics' /\ faults' > 0 /\ faults' > faults
         /\ task'[p] = Sp!NoTask /\ \A q \in Pods : q # p => task'[q] = task[q]
<1> USE TypeParts DEF SpiderBasics, Parts
<1>1. /\ UNCHANGED <<Sp!portal, Sp!redis, told>>
      /\ task' = [task EXCEPT ![p] = Sp!NoTask]
      /\ Sp!Gone(p) /\ Sp!Fault
  BY DEF Sp!Die, Sp!Escape, Sp!Crash
<1>2. faults' > 0 /\ faults' > faults /\ pc'[p] = "down" /\ \A q \in Pods : q # p => pc'[q] = pc[q]
  BY <1>1 DEF Sp!Gone, Sp!Goto, Sp!Fault, Sp!BrokerTypeOK
<1>3. Sp!BrokerTypeOK' /\ RecordInHand' /\ OneOwner' /\ logEnd' = logEnd
  <2> USE BoundsAssumption, RetryAssumption, PodsAssumption
      DEF Sp!BrokerTypeOK, RecordInHand, OneOwner, Sp!Loop, Busy, Sp!NoOffset, Sp!Goto, Sp!log_, Sp!group, Sp!reader, Sp!Messages
  <2>1. Sp!BrokerTypeOK' /\ logEnd' = logEnd
    BY <1>1 DEF Sp!Gone, Sp!Fault
  <2>2. RecordInHand'
    BY <1>1 DEF Sp!Gone
  <2>3. OneOwner'
    BY <1>2
  <2> QED
    BY <2>1, <2>2, <2>3
<1>4. TasksOK'
  BY <1>1, <1>2, NoTaskType DEF TasksOK, Sp!NoTask
<1>5. task'[p] = Sp!NoTask /\ \A q \in Pods : q # p => task'[q] = task[q]
  BY <1>1 DEF TasksOK
<1> QED
  BY <1>1, <1>2, <1>3, <1>4, <1>5, PortalKept, RedisKept DEF Sp!portal

\* Homes and zones are quarantined, nothing else.
LEMMA QuarantineStep ==
  ASSUME SpiderBasics, NEW p \in Pods, Handler(p)
  PROVE  quarantine' \subseteq Homes \cup Zones
<1>0. quarantine \subseteq Homes \cup Zones
  BY DEF SpiderBasics, Sp!TypeOK
<1>1. CASE Sp!Refused(p)
  BY <1>0, <1>1, TaskTypes DEF Sp!Refused, Sp!GiveUp
<1>2. CASE Sp!RefuseDetail(p)
  BY <1>0, <1>2, TaskTypes DEF Sp!RefuseDetail, Sp!Running
<1>3. CASE Sp!ScrapeDetail(p)
  BY <1>0, <1>3, TaskTypes DEF Sp!ScrapeDetail, Sp!Running
<1>4. CASE Sp!ReadHome(p)
  BY <1>0, <1>4, TaskTypes DEF Sp!ReadHome, Sp!Running, Sp!GiveUp
<1>5. CASE ~(Sp!Refused(p) \/ Sp!RefuseDetail(p) \/ Sp!ScrapeDetail(p) \/ Sp!ReadHome(p))
  <2>1. UNCHANGED quarantine
    BY <1>5 DEF Handler, Sp!Work, Sp!Fails, Sp!RefuseApi, Sp!ProcessMessage, Sp!ScrapeSearchPage,
       Sp!PublishScraped, Sp!DetectPage,
                Sp!FilterNew, Sp!PublishListing, Sp!MarkSeen, Sp!redis
  <2> QED
    BY <1>0, <2>1
<1> QED
  BY <1>1, <1>2, <1>3, <1>4, <1>5

\* The handler keeps the basics.
LEMMA HandlerStep ==
  ASSUME SpiderBasics, NEW p \in Pods, Handler(p)
  PROVE  SpiderBasics'
<1> USE TypeParts DEF SpiderBasics, Parts
<1>1. Handles(p) /\ Does(p)
  BY HandlerEffect
<1>2. Sp!BrokerTypeOK' /\ logEnd' = logEnd
  BY <1>1 DEF Handles, TaskStep, Sp!LoopVars, Sp!log_, Sp!group, Sp!reader, Sp!BrokerTypeOK, Busy,
     Sp!Loop
<1>3. RecordInHand' /\ OneOwner'
  BY <1>1 DEF Handles, TaskStep, Sp!LoopVars, Sp!log_, Sp!group, Sp!reader, Sp!BrokerTypeOK, Busy,
     RecordInHand, OneOwner
<1>4. TasksOK'
  <2>1. \A q \in Pods : q # p => task'[q] = task[q] /\ pc'[q] = pc[q]
    BY <1>1 DEF Handles, TaskStep, TasksOK, Sp!BrokerTypeOK
  <2>2. task' \in [Pods -> Sp!Tasks]
    BY <1>1 DEF Handles, TaskStep, TasksOK
  <2> QED
    BY <1>1, <2>1, <2>2 DEF Handles, TaskStep, TasksOK
<1>5. PortalOK'
  BY <1>1, <1>2, PortalKept DEF Handles
<1>6. RedisOK'
  <2>1. site' = site /\ quarantine' \subseteq Homes \cup Zones
    BY <1>1, QuarantineStep DEF Handles, Sp!portal
  <2>2. seen' \in [Zones -> SUBSET {Sp!DetailId(h) : h \in Homes}] /\ told' \in [Zones -> [Homes -> Nat]]
    <3>1. CASE UNCHANGED Redis
      BY <3>1 DEF Redis, RedisOK
    <3>2. CASE Announced(p)
      BY <3>2, TaskTypes DEF Announced, Sp!Running, RedisOK
    <3>3. CASE Marked(p)
      BY <3>3, TaskTypes DEF Marked, Sp!Running, RedisOK
    <3> QED
      BY <1>1, <3>1, <3>2, <3>3
         DEF Does, Reset, Swept, HomesRead, Downgraded, Published, Looked, Filtered, Skipped, Picked
  <2> QED
    BY <2>1, <2>2 DEF RedisOK, Sp!DetailId
<1> QED
  BY <1>2, <1>3, <1>4, <1>5, <1>6

\* The ways the system moves.
LEMMA SpiderSteps ==
  ASSUME Sp!Next
  PROVE  \/ \E c \in Commands : Sp!Order(c)
         \/ \E h \in Homes : Sp!Appear(h) \/ Sp!Vanish(h)
         \/ \E p \in Pods : Sp!Runtime(p) \/ Sp!Die(p) \/ Handler(p)
BY DEF Sp!Next, Handler

\* Every step keeps the basics.
LEMMA BasicsStep == SpiderBasics /\ [Sp!Next]_Sp!vars => SpiderBasics'
<1>1. SpiderBasics /\ Sp!Next => SpiderBasics'
  BY SpiderSteps, OrderStep, AppearStep, VanishStep, RuntimeStep, DieStep, HandlerStep
<1>2. SpiderBasics /\ UNCHANGED Sp!vars => SpiderBasics'
  <2> SUFFICES ASSUME SpiderBasics, UNCHANGED Sp!vars PROVE SpiderBasics'
    OBVIOUS
  <2>1. UNCHANGED <<Sp!broker, Sp!portal, task, Sp!redis, told>>
    BY DEF Sp!vars
  <2>2. Sp!BrokerTypeOK' /\ RecordInHand' /\ OneOwner' /\ logEnd' = logEnd /\ TasksOK'
    BY <2>1, TypeParts DEF Parts, Sp!broker, SpiderBasics, Sp!BrokerTypeOK, RecordInHand,
       OneOwner, TasksOK
  <2> QED
    BY <2>1, <2>2, TypeParts, PortalKept, RedisKept DEF Parts, Sp!portal, SpiderBasics
<1> QED
  BY <1>1, <1>2

\* The basics always hold.
LEMMA SpiderBasicsHold == Sp!Spec => []SpiderBasics
<1>1. Sp!Init => SpiderBasics
  BY SpiderInit
<1> QED
  BY <1>1, BasicsStep, PTL DEF Sp!Spec

\* A handler leaves the other pods' commands alone.
LEMMA OthersKept ==
  ASSUME SpiderBasics, NEW p \in Pods, Handles(p)
  PROVE  \A q \in Pods : q # p => task'[q] = task[q]
BY DEF Handles, TaskStep, SpiderBasics, Sp!TypeOK

-----------------------------------------------------------------------------
(* A sweep misses nothing                                                   *)

\* The rank with which the pages that are still to come begin.
First(t) == (IF t.stage = "page" THEN t.page - 1 ELSE t.page) * site.size

\* A home that was there all along is published, or on the page that is being read
\* or published, or passed over, or has a rank that is yet to come.
Passed(t, h)  == Sp!Skips /\ (h \in t.skipped \/ (t.stage = "read" /\ h \in t.todo \cup t.kept))
ToCome(t, h)  == h \in Sp!Results(Head(t.zones)) /\ First(t) <= Sp!Rank(Head(t.zones), h)

Covered(t) ==
  /\ ~t.html
  /\ \A h \in t.steady :
       h \in t.sent \/ (t.stage = "publish" /\ h \in t.todo) \/ Passed(t, h) \/ ToCome(t, h)

Sweeping(t) == t.stage \in {"page", "read", "publish"} /\ ~t.moved

SweepInv == \A p \in Pods : Sweeping(task[p]) => Covered(task[p])

\* A search page was read.
LEMMA SweptCovers ==
  ASSUME SpiderBasics, NEW p \in Pods, Swept(p), Covered(task[p]), NEW t, t = task'[p]
  PROVE  Covered(t)
<1> DEFINE z == Sp!Zone(p)
           n == task[p].page
<1>1. /\ task[p] \in Sp!Tasks /\ pc[p] = "wait" /\ task[p].stage = "page" /\ n \in Nat \ {0}
      /\ shown \in Seq(Homes) /\ Distinct /\ site \in Portals
  BY TaskTypes, ShownTypes DEF Swept, Sp!Running, SpiderBasics, Sp!TypeOK
<1>2. SameSweep(task[p], t) /\ t.stage \in {"read", "publish"}
  BY DEF Swept
<1>3. t.steady = task[p].steady /\ t.sent = task[p].sent /\ t.zones = task[p].zones /\ t.page = n
      /\ task[p].skipped \subseteq t.skipped /\ ~t.html
  BY <1>2 DEF SameSweep, Covered
<1>4. \/ Sp!Page(z, n) = {}
      \/ t.stage = "publish" /\ Sp!Page(z, n) \subseteq t.todo
      \/ Sp!Skips /\ Sp!Page(z, n) \subseteq t.skipped \cup t.todo
  BY DEF Swept, Covered
<1>5. SUFFICES ASSUME NEW h \in task[p].steady, h \notin task[p].sent
               PROVE  (t.stage = "publish" /\ h \in t.todo) \/ Passed(t, h) \/ ToCome(t, h)
  BY <1>3 DEF Covered
<1>6. CASE Sp!Skips /\ h \in task[p].skipped
  BY <1>3, <1>6 DEF Passed
<1>7. CASE h \in Sp!Results(z) /\ (n - 1) * site.size <= Sp!Rank(z, h)
  <2>1. Sp!Rank(z, h) \in Nat /\ n * site.size \in Int /\ (n - 1) * site.size \in Int
    BY <1>1, RankIsNat, SizeIsNat
  <2>2. CASE Sp!Rank(z, h) < n * site.size
    <3>1. h \in Sp!Page(z, n)
      BY <1>7, <2>2 DEF Sp!Page
    <3>2. CASE t.stage = "publish" /\ h \in t.todo
      BY <3>2
    <3>3. CASE Sp!Skips /\ h \in t.skipped \cup t.todo
      BY <1>2, <3>3 DEF Passed
    <3> QED
      BY <1>4, <3>1, <3>2, <3>3
  <2>3. CASE ~(Sp!Rank(z, h) < n * site.size)
    <3>1. n * site.size <= Sp!Rank(z, h)
      BY <2>1, <2>3
    <3>2. First(t) = n * site.size
      BY <1>2, <1>3 DEF First
    <3> QED
      BY <1>3, <1>7, <3>1, <3>2 DEF ToCome, Sp!Zone
  <2> QED
    BY <2>2, <2>3
<1>8. (Sp!Skips /\ h \in task[p].skipped) \/ (h \in Sp!Results(z) /\ (n - 1) * site.size <= Sp!Rank(z, h))
  BY <1>1, <1>5 DEF Covered, Passed, ToCome, First, Sp!Zone
<1> QED
  BY <1>6, <1>7, <1>8

\* A home of the page was read.
LEMMA HomesReadCovers ==
  ASSUME SpiderBasics, NEW p \in Pods, HomesRead(p), Covered(task[p]), NEW t, t = task'[p]
  PROVE  Covered(t)
<1>1. SameSweep(task[p], t) /\ t.stage \in {"read", "publish"} /\ task[p].stage = "read"
  BY DEF HomesRead, Sp!Running
<1>2. task[p].todo \cup task[p].kept \subseteq
        t.skipped \cup t.todo \cup (IF t.stage = "read" THEN t.kept ELSE {})
  BY DEF HomesRead
<1>3. /\ t.steady = task[p].steady /\ t.sent = task[p].sent /\ t.zones = task[p].zones
      /\ First(t) = First(task[p]) /\ task[p].skipped \subseteq t.skipped /\ ~t.html
  BY <1>1 DEF SameSweep, First, Covered
<1>4. SUFFICES ASSUME NEW h \in task[p].steady, h \notin task[p].sent
               PROVE  (t.stage = "publish" /\ h \in t.todo) \/ Passed(t, h) \/ ToCome(t, h)
  BY <1>3 DEF Covered
<1>5. CASE ToCome(task[p], h)
  BY <1>3, <1>5 DEF ToCome
<1>6. CASE Passed(task[p], h)
  <2>1. Sp!Skips /\ h \in task[p].skipped \cup task[p].todo \cup task[p].kept
    BY <1>6 DEF Passed
  <2>2. h \in t.skipped \cup t.todo \cup (IF t.stage = "read" THEN t.kept ELSE {})
    BY <1>2, <1>3, <2>1
  <2> QED
    BY <1>1, <2>1, <2>2 DEF Passed
<1> QED
  BY <1>1, <1>4, <1>5, <1>6 DEF Covered

\* A listing of the page is published, and after the last one comes the next page.
LEMMA PublishedCovers ==
  ASSUME SpiderBasics, NEW p \in Pods, Published(p), Covered(task[p]), NEW t, t = task'[p]
  PROVE  Covered(t) /\ t.moved = task[p].moved
<1>1. /\ task[p] \in Sp!Tasks /\ pc[p] = "wait" /\ task[p].stage = "publish" /\ task[p].page \in Nat \ {0}
  BY TaskTypes DEF Published, Sp!Running
<1>2. PICK h \in task[p].todo :
        \/ /\ task[p].todo = {h}
           /\ t = [task[p] EXCEPT !.todo = {}, !.sent = @ \cup {h}, !.stage = "page", !.page = @ + 1]
        \/ t = [task[p] EXCEPT !.todo = @ \ {h}, !.sent = @ \cup {h}]
  BY DEF Published
<1>3. /\ t.sent = task[p].sent \cup {h} /\ t.steady = task[p].steady /\ t.zones = task[p].zones
      /\ t.moved = task[p].moved /\ t.skipped = task[p].skipped /\ t.html = task[p].html
  BY <1>1, <1>2 DEF Sp!Tasks
<1>4. \/ task[p].todo = {h} /\ t.stage = "page" /\ t.page = task[p].page + 1
      \/ t.stage = "publish" /\ t.page = task[p].page /\ t.todo = task[p].todo \ {h}
  BY <1>1, <1>2 DEF Sp!Tasks
<1>5. First(t) = First(task[p])
  <2>1. (task[p].page + 1) - 1 = task[p].page
    BY <1>1
  <2> QED
    BY <1>1, <1>4, <2>1 DEF First
<1>6. ASSUME NEW g \in t.steady
      PROVE  g \in t.sent \/ (t.stage = "publish" /\ g \in t.todo) \/ Passed(t, g) \/ ToCome(t, g)
  <2>1. g \in task[p].sent \/ g \in task[p].todo \/ Passed(t, g) \/ ToCome(t, g)
    <3>1. Passed(task[p], g) => Passed(t, g)
      BY <1>1, <1>3 DEF Passed
    <3>2. ToCome(task[p], g) => ToCome(t, g)
      BY <1>3, <1>5 DEF ToCome
    <3> QED
      BY <1>3, <3>1, <3>2 DEF Covered
  <2>2. g \in task[p].todo => g = h \/ (t.stage = "publish" /\ g \in t.todo)
    BY <1>4
  <2> QED
    BY <1>3, <2>1, <2>2
<1> QED
  BY <1>3, <1>6 DEF Covered

\* A zone begins with all its homes to come.
LEMMA OpenedCovers ==
  ASSUME SpiderBasics, NEW zones \in Seq(Zones) \ {<<>>}, NEW t,
         t = Sp!OpenZone(zones, "page", FALSE)
  PROVE  Covered(t)
<1>1. /\ t.stage = "page" /\ t.zones = zones /\ t.page = 1 /\ t.steady = Sp!Results(Head(zones))
      /\ ~t.html
  BY DEF Sp!OpenZone, Sp!NoTask
<1>2. First(t) = 0
  <2>1. First(t) = (1 - 1) * site.size
    BY <1>1 DEF First
  <2>2. PICK n \in Nat : n = site.size
    BY SizeIsNat DEF SpiderBasics, Sp!TypeOK
  <2>3. (1 - 1) * n = 0
    OBVIOUS
  <2> QED
    BY <2>1, <2>2, <2>3
<1>3. PICK z : z = Head(t.zones)
  OBVIOUS
<1>4. \A h \in t.steady : ToCome(t, h)
  <2> SUFFICES ASSUME NEW h \in t.steady
               PROVE  h \in Sp!Results(z) /\ 0 <= Sp!Rank(z, h)
    BY <1>2, <1>3 DEF ToCome
  <2>1. h \in Sp!Results(z)
    BY <1>1, <1>3
  <2>2. 0 <= Sp!Rank(z, h)
    BY RankIsNat, ShownTypes DEF SpiderBasics
  <2> QED
    BY <2>1, <2>2
<1> QED
  BY <1>1, <1>4 DEF Covered

\* A step that changes neither the portal nor the command.
LEMMA CoveredKept ==
  ASSUME UNCHANGED <<shown, site>>, NEW t, Covered(t)
  PROVE  Covered(t)'
<1>1. \A z : Sp!Results(z)' = Sp!Results(z)
  BY DEF Sp!Results, Sp!Listed
<1>2. \A z, h : Sp!Rank(z, h)' = Sp!Rank(z, h)
  BY <1>1 DEF Sp!Rank, Sp!Ahead
<1> QED
  BY <1>1, <1>2 DEF Covered, Passed, ToCome, First, Sp!Skips

\* An advertisement that appears moves ranks away from the pages that were read.
LEMMA CoveredGrows ==
  ASSUME SpiderBasics, NEW h \in Homes, Sp!Appear(h), NEW t \in Sp!Tasks, Sweeping(t), Covered(t)
  PROVE  Covered(t)'
<1>1. PICK i \in 1..Len(shown) + 1 : shown' = Sp!InsertAt(shown, i, h)
  BY DEF Sp!Appear
<1>2. h \notin Sp!Listed /\ site' = site
  BY DEF Sp!Appear
<1>3. shown \in Seq(Homes) /\ Distinct
  BY ShownTypes DEF SpiderBasics
<1> DEFINE z == Head(t.zones)
<1>4. \A g \in Sp!Results(z) : g \in Sp!Results(z)' /\ Sp!Rank(z, g) <= Sp!Rank(z, g)'
  BY <1>1, <1>2, <1>3, RankGrows
<1>5. \A g : Sp!Rank(z, g) \in Nat
  BY <1>3, RankIsNat
<1>6. \A g : Sp!Rank(z, g)' \in Nat
  <2>1. shown' \in Seq(Homes)
    BY <1>1, <1>2, <1>3, AppearKeeps
  <2> QED
    BY <2>1, RankIsNatNext
<1>7. First(t) \in Int
  BY SizeIsNat DEF First, Sp!Tasks, Sweeping, SpiderBasics, Sp!TypeOK
<1>8. ASSUME NEW g \in Sp!Results(z), First(t) <= Sp!Rank(z, g)
      PROVE  First(t) <= Sp!Rank(z, g)'
  BY <1>4, <1>5, <1>6, <1>7, <1>8
<1>9. \A g : Passed(t, g) => Passed(t, g)'
  BY <1>2 DEF Passed, Sp!Skips
<1>10. First(t)' = First(t)
  BY <1>2 DEF First
<1>11. \A g : ToCome(t, g) => ToCome(t, g)'
  BY <1>4, <1>8, <1>10 DEF ToCome
<1> QED
  BY <1>9, <1>11 DEF Covered

\* The step of a handler.
LEMMA SweepHandler ==
  ASSUME SpiderBasics, SweepInv, NEW p \in Pods, Handler(p)
  PROVE  SweepInv'
<1>1. Handles(p) /\ Does(p) /\ \A q \in Pods : q # p => task'[q] = task[q]
  BY HandlerEffect, OthersKept
<1>2. UNCHANGED <<shown, site>>
  BY <1>1 DEF Handles, Sp!portal
<1>3. PICK t : t = task'[p]
  OBVIOUS
<1>4. Sweeping(t) => Covered(t)
  <2>1. CASE Opens(p, "page") \/ Opens(p, "detect")
    <3>1. CASE t = Sp!NoTask
      BY <3>1 DEF Sweeping, Sp!NoTask
    <3>2. ASSUME NEW zones \in Seq(Zones) \ {<<>>}, NEW html \in BOOLEAN,
                 t = Sp!OpenZone(zones, "page", html), Sweeping(t)
          PROVE  Covered(t)
      <4>1. t.moved = html
        BY <3>2 DEF Sp!OpenZone, Sp!NoTask
      <4>2. html = FALSE
        BY <3>2, <4>1 DEF Sweeping
      <4> QED
        BY <3>2, <4>2, OpenedCovers
    <3>3. ASSUME NEW zones \in Seq(Zones) \ {<<>>}, NEW html \in BOOLEAN,
                 t = Sp!OpenZone(zones, "detect", html)
          PROVE  ~Sweeping(t)
      BY <3>3, OpenZoneType DEF Sweeping, SpiderBasics
    <3> QED
      BY <1>3, <2>1, <3>1, <3>2, <3>3 DEF Opens
  <2>2. CASE t.stage = "none"
    BY <2>2 DEF Sweeping
  <2>3. CASE Swept(p)
    <3>1. task[p] \in Sp!Tasks /\ task[p].stage = "page"
      BY <2>3, TaskTypes DEF Swept, Sp!Running
    <3>2. t.moved = task[p].moved
      BY <1>3, <2>3 DEF Swept, SameSweep
    <3>3. Sweeping(t) => Covered(task[p])
      BY <3>1, <3>2 DEF SweepInv, Sweeping
    <3> QED
      BY <1>3, <2>3, <3>3, SweptCovers
  <2>6. CASE HomesRead(p)
    <3>1. task[p].stage = "read" /\ t.moved = task[p].moved
      BY <1>3, <2>6 DEF HomesRead, Sp!Running, SameSweep
    <3>2. Sweeping(t) => Covered(task[p])
      BY <3>1 DEF SweepInv, Sweeping
    <3> QED
      BY <1>3, <2>6, <3>2, HomesReadCovers
  <2>7. CASE Downgraded(p)
    BY <1>3, <2>7 DEF Downgraded, Sweeping
  <2>4. CASE Published(p)
    <3>1. SUFFICES ASSUME Sweeping(t), ~task[p].moved
                   PROVE  Covered(t)
      <4>1. \A h : t # [task[p] EXCEPT !.todo = {}, !.sent = @ \cup {h}, !.stage = "page", !.page = @ + 1]
                   \/ t.moved = task[p].moved
        BY TaskTypes, <2>4 DEF Published, Sp!Running, Sp!Tasks
      <4>2. \A h : t # [task[p] EXCEPT !.todo = @ \ {h}, !.sent = @ \cup {h}] \/ t.moved = task[p].moved
        BY TaskTypes, <2>4 DEF Published, Sp!Running, Sp!Tasks
      <4>3. t.moved = task[p].moved
        BY <1>3, <2>4, <4>1, <4>2 DEF Published
      <4> QED
        BY <4>3 DEF Sweeping
    <3>2. Covered(task[p])
      BY <2>4, <3>1 DEF SweepInv, Sweeping, Published, Sp!Running
    <3> QED
      BY <1>3, <2>4, <3>2, PublishedCovers
  <2>5. CASE Looked(p) \/ Filtered(p) \/ Skipped(p) \/ Picked(p) \/ Announced(p) \/ Marked(p)
    <3>1. task[p] \in Sp!Tasks
      BY <2>5, TaskTypes DEF Looked, Filtered, Skipped, Picked, Announced, Marked, Sp!Running
    <3>2. \A urls : Detail(p, urls).stage = "detail"
      BY <3>1 DEF Detail, Sp!Tasks
    <3>3. Opens(p, "detect") \/ t.stage \in {"detect", "filter", "detail", "tell", "mark"}
      <4>1. CASE Looked(p)
        BY <1>3, <4>1 DEF Looked
      <4>2. CASE Filtered(p) \/ Skipped(p) \/ Marked(p)
        BY <1>3, <3>2, <4>2 DEF Filtered, Skipped, Marked
      <4>3. CASE Picked(p)
        BY <1>3, <3>1, <4>3 DEF Picked, Sp!Tasks
      <4>4. CASE Announced(p)
        BY <1>3, <3>1, <4>4 DEF Announced, Sp!Tasks
      <4> QED
        BY <2>5, <4>1, <4>2, <4>3, <4>4
    <3> QED
      BY <2>1, <3>3 DEF Sweeping
  <2> QED
    BY <1>1, <1>3, <2>1, <2>2, <2>3, <2>4, <2>5, <2>6, <2>7 DEF Does, Reset
<1>5. Sweeping(t) => Covered(t)'
  BY <1>2, <1>4, CoveredKept
<1>6. ASSUME NEW q \in Pods, q # p, Sweeping(task[q])
      PROVE  Covered(task[q])'
  <2>1. PICK u : u = task[q]
    OBVIOUS
  <2>2. Covered(u)
    BY <1>6, <2>1 DEF SweepInv
  <2>3. Covered(u)'
    BY <1>2, <2>2, CoveredKept
  <2> QED
    BY <1>1, <1>6, <2>1, <2>3
<1> QED
  BY <1>1, <1>3, <1>5, <1>6 DEF SweepInv, Sweeping

\* Every step keeps the sweeps complete.
LEMMA SweepStep == SpiderBasics /\ SweepInv /\ [Sp!Next]_Sp!vars => SweepInv'
<1> SUFFICES ASSUME SpiderBasics, SweepInv, [Sp!Next]_Sp!vars
             PROVE  SweepInv'
  OBVIOUS
<1>1. ASSUME UNCHANGED <<shown, site>>, \A q \in Pods : task'[q] = task[q] \/ task'[q] = Sp!NoTask
      PROVE  SweepInv'
  <2> SUFFICES ASSUME NEW q \in Pods, Sweeping(task'[q])
               PROVE  Covered(task[q])'
    BY DEF SweepInv, Sweeping
  <2>1. PICK u : u = task[q]
    OBVIOUS
  <2>2. task'[q] = u
    BY <1>1, <2>1 DEF Sweeping, Sp!NoTask
  <2>3. Covered(u)
    BY <2>1, <2>2 DEF SweepInv
  <2>4. Covered(u)'
    BY <1>1, <2>3, CoveredKept
  <2> QED
    BY <2>2, <2>4
<1>2. ASSUME NEW c \in Commands, Sp!Order(c) PROVE SweepInv'
  BY <1>1, <1>2 DEF Sp!Order
<1>3. ASSUME NEW h \in Homes, Sp!Appear(h) PROVE SweepInv'
  <2> SUFFICES ASSUME NEW q \in Pods, Sweeping(task'[q])
               PROVE  Covered(task[q])'
    BY DEF SweepInv, Sweeping
  <2>1. PICK u : u = task[q]
    OBVIOUS
  <2>2. task'[q] = u /\ u \in Sp!Tasks
    BY <1>3, <2>1 DEF Sp!Appear, SpiderBasics, Sp!TypeOK
  <2>3. Sweeping(u) /\ Covered(u)
    BY <2>1, <2>2 DEF SweepInv
  <2>4. Covered(u)'
    BY <1>3, <2>2, <2>3, CoveredGrows
  <2> QED
    BY <2>2, <2>4
<1>4. ASSUME NEW h \in Homes, Sp!Vanish(h) PROVE SweepInv'
  <2>1. \A q \in Pods : ~Sweeping(task'[q])
    <3>1. TasksOK
      BY TypeParts DEF SpiderBasics, Parts
    <3> QED
      BY <1>4, <3>1, VanishTasks, ShrinksType DEF Sweeping, TasksOK
  <2> QED
    BY <2>1 DEF SweepInv, Sweeping
<1>5. ASSUME NEW p \in Pods, Sp!Runtime(p) PROVE SweepInv'
  BY <1>1, <1>5 DEF Sp!Runtime, Sp!portal
<1>6. ASSUME NEW p \in Pods, Sp!Die(p) PROVE SweepInv'
  <2>1. UNCHANGED <<shown, site>>
    BY <1>6 DEF Sp!Die, Sp!portal
  <2> QED
    BY <1>1, <1>6, <2>1, DieStep
<1>7. ASSUME NEW p \in Pods, Handler(p) PROVE SweepInv'
  BY <1>7, SweepHandler
<1>8. CASE UNCHANGED Sp!vars
  BY <1>1, <1>8 DEF Sp!vars, Sp!portal
<1> QED
  BY <1>2, <1>3, <1>4, <1>5, <1>6, <1>7, <1>8, SpiderSteps

\* SweepAt the end of a zone all ranks have been dealt with.
LEMMA SweptComplete == SpiderBasics /\ SweepInv => Sp!SweepComplete
<1> SUFFICES ASSUME SpiderBasics, SweepInv, NEW p \in Pods, Sp!Running(p, "page"),
                    Sp!Page(Sp!Zone(p), task[p].page) = {}, ~task[p].moved
             PROVE  \/ task[p].steady \subseteq task[p].sent
                    \/ Sp!Skips /\ task[p].steady \subseteq task[p].sent \cup task[p].skipped
  BY DEF Sp!SweepComplete
<1>1. task[p].stage = "page" /\ task[p].page \in Nat \ {0}
  BY TaskTypes DEF Sp!Running
<1>2. Covered(task[p])
  BY <1>1 DEF SweepInv, Sweeping
<1>3. shown \in Seq(Homes) /\ Distinct /\ site \in Portals
  BY ShownTypes DEF SpiderBasics, Sp!TypeOK
<1>4. ASSUME NEW h, ToCome(task[p], h)
      PROVE  FALSE
  <2>1. h \in Sp!Results(Sp!Zone(p)) /\ (task[p].page - 1) * site.size <= Sp!Rank(Sp!Zone(p), h)
    BY <1>1, <1>4 DEF ToCome, First, Sp!Zone
  <2>2. Sp!Rank(Sp!Zone(p), h) < (task[p].page - 1) * site.size
    BY <1>1, <1>3, <2>1, EmptyPageIsEnd
  <2>3. Sp!Rank(Sp!Zone(p), h) \in Int /\ (task[p].page - 1) * site.size \in Int
    BY <1>1, <1>3, RankIsNat, SizeIsNat
  <2> QED
    BY <2>1, <2>2, <2>3
<1> QED
  BY <1>1, <1>2, <1>4 DEF Covered, Passed

\* The spiders' properties speak of their state.
LEMMA SameProperties ==
  /\ SweepComplete <=> Sp!SweepComplete
  /\ DetectPublishesOnce <=> Sp!DetectPublishesOnce
<1>1. /\ \A z : Results(z) = Sp!Results(z)
      /\ \A g, h : Ahead(g, h) <=> Sp!Ahead(g, h)
  BY DEF Results, Sp!Results, Listed, Sp!Listed, Ahead, Sp!Ahead
<1>2. \A z, h : Rank(z, h) = Sp!Rank(z, h)
  BY <1>1 DEF Rank, Sp!Rank, Cardinality, Sp!Cardinality
<1>3. \A z, n : Page(z, n) = Sp!Page(z, n)
  BY <1>1, <1>2 DEF Page, Sp!Page
<1>4. SweepComplete <=> Sp!SweepComplete
  BY <1>3 DEF SweepComplete, Sp!SweepComplete, Running, Sp!Running, Zone, Sp!Zone, Skips, Sp!Skips
<1>5. \A h : FoundId(h) = Sp!FoundId(h) /\ DetailId(h) = Sp!DetailId(h)
  BY DEF FoundId, Sp!FoundId, DetailId, Sp!DetailId, ExternalId, Sp!ExternalId
<1>6. DetectPublishesOnce <=> Sp!DetectPublishesOnce
  BY <1>5 DEF DetectPublishesOnce, Sp!DetectPublishesOnce
<1> QED
  BY <1>4, <1>6

\* A sweep that comes to the empty page of a zone has published what was there all
\* along, or, of the spiders that take a part of a page, passed it over.
THEOREM SweepsMissNothing == Sp!Spec => []SweepComplete
<1>1. Sp!Init => SpiderBasics /\ SweepInv
  BY SpiderInit DEF Sp!Init, SweepInv, Sweeping, Sp!NoTask
<1>2. SpiderBasics /\ SweepInv /\ [Sp!Next]_Sp!vars => (SpiderBasics /\ SweepInv)'
  BY BasicsStep, SweepStep
<1> QED
  BY <1>1, <1>2, SweptComplete, SameProperties, PTL DEF Sp!Spec

-----------------------------------------------------------------------------
(* What is new is published before it is marked, and once                   *)

\* Who has the id in the set has been published, and so has what is about to be
\* marked.
SeenTold ==
  /\ \A z \in Zones : \A id \in seen[z] : \E h \in Homes : Sp!DetailId(h) = id /\ told[z][h] > 0
  /\ \A p \in Pods : task[p].stage = "mark" => told[Sp!Zone(p)][task[p].home] > 0

\* The home in hand is no longer among those to come.
HomeTaken == \A p \in Pods : task[p].stage \in {"tell", "mark"} => task[p].home \notin task[p].todo

\* A pod will publish the home for the zone; a pod is about to mark it.
Coming(t, z, h) ==
  /\ t.stage \in {"detail", "tell", "mark"} /\ Head(t.zones) = z
  /\ h \in t.todo \/ (t.stage = "tell" /\ h = t.home)
Marking(t, z, h) == t.stage = "mark" /\ Head(t.zones) = z /\ t.home = h

\* As long as nothing failed, what was published is marked, or about to be, and
\* what is to come was not published.
Once(z, h) ==
  /\ told[z][h] <= 1
  /\ told[z][h] > 0 => Sp!DetailId(h) \in seen[z] \/ \E p \in Pods : Marking(task[p], z, h)
  /\ \A p \in Pods : Coming(task[p], z, h) => told[z][h] = 0

OnceInv ==
  faults = 0 /\ site.filtered =>
    \A z \in Zones, h \in Homes : Sp!FoundId(h) = Sp!DetailId(h) => Once(z, h)

DetectInv == SeenTold /\ HomeTaken /\ OnceInv

\* What a step of the handler does to the homes to come.
HomesNext(p, t) ==
  /\ ~Announced(p) => t.stage # "mark"
  /\ t.stage \in {"tell", "mark"} => t.home \notin t.todo
  /\ \A z, h : Coming(t, z, h) =>
       \/ Coming(task[p], z, h)
       \/ Filtered(p) /\ z = Sp!Zone(p) /\ (site.filtered => Sp!SearchId(p, h) \notin seen[z])

\* The pod has no home to come.
LEMMA NoHomes ==
  ASSUME NEW p, NEW t, t.stage \notin {"detail", "tell", "mark"}
  PROVE  HomesNext(p, t)
BY DEF HomesNext, Coming

\* Nor has one that opens a zone.
LEMMA OpensNoHomes ==
  ASSUME SpiderBasics, NEW p \in Pods, NEW stage \in {"page", "detect"}, Opens(p, stage)
  PROVE  task'[p].stage \notin {"detail", "tell", "mark"}
<1>1. CASE task'[p] = Sp!NoTask
  BY <1>1 DEF Sp!NoTask
<1>2. ASSUME NEW zones \in Seq(Zones) \ {<<>>}, NEW html \in BOOLEAN,
             task'[p] = Sp!OpenZone(zones, stage, html)
      PROVE  task'[p].stage = stage
  BY <1>2, OpenZoneType DEF SpiderBasics
<1> QED
  BY <1>1, <1>2 DEF Opens

\* The pod is at a listing, and goes on with what is left.
LEMMA DetailFields ==
  ASSUME SpiderBasics, NEW p \in Pods, pc[p] = "wait", NEW urls
  PROVE  /\ Detail(p, urls).stage = "detail" /\ Detail(p, urls).todo = urls
         /\ Detail(p, urls).zones = task[p].zones
BY TaskTypes DEF Detail, Sp!Tasks

\* Nor does publishing change what is left.
LEMMA AnnouncedFields ==
  ASSUME SpiderBasics, NEW p \in Pods, Announced(p)
  PROVE  /\ task'[p].stage = "mark" /\ task'[p].zones = task[p].zones
         /\ task'[p].home = task[p].home /\ task'[p].todo = task[p].todo
BY TaskTypes DEF Announced, Sp!Running, Sp!Tasks

\* Every step of the handler does that to them.
LEMMA NextHomes ==
  ASSUME SpiderBasics, HomeTaken, NEW p \in Pods, Handles(p), Does(p), NEW t, t = task'[p]
  PROVE  HomesNext(p, t)
<1>1. CASE Reset(p)
  BY <1>1, OpensNoHomes, NoHomes DEF Reset
<1>2. CASE Swept(p) \/ HomesRead(p) \/ Downgraded(p)
  <2>1. t.stage \in {"read", "publish", "page", "detect"}
    BY <1>2 DEF Swept, HomesRead, Downgraded
  <2> QED
    BY <2>1, NoHomes
<1>3. CASE Published(p)
  <2>1. pc[p] = "wait" /\ task[p] \in Sp!Tasks /\ task[p].stage = "publish"
    BY <1>3, TaskTypes DEF Published, Sp!Running
  <2>2. PICK h \in task[p].todo :
          \/ t = [task[p] EXCEPT !.todo = {}, !.sent = @ \cup {h}, !.stage = "page", !.page = @ + 1]
          \/ t = [task[p] EXCEPT !.todo = @ \ {h}, !.sent = @ \cup {h}]
    BY <1>3 DEF Published
  <2>3. CASE t = [task[p] EXCEPT !.todo = {}, !.sent = @ \cup {h}, !.stage = "page", !.page = @ + 1]
    <3>1. t.stage = "page"
      BY <2>1, <2>3 DEF Sp!Tasks
    <3> QED
      BY <3>1, NoHomes
  <2>4. CASE t = [task[p] EXCEPT !.todo = @ \ {h}, !.sent = @ \cup {h}]
    <3>1. t.stage = "publish"
      BY <2>1, <2>4 DEF Sp!Tasks
    <3> QED
      BY <3>1, NoHomes
  <2> QED
    BY <2>2, <2>3, <2>4
<1>4. CASE Looked(p)
  BY <1>4, NoHomes DEF Looked
<1>5. CASE Filtered(p)
  <2>1. t.stage = "detail" /\ t.zones = task[p].zones
    BY <1>5, DetailFields DEF Filtered, Sp!Running
  <2>2. t.todo = {h \in task[p].todo : site.filtered => Sp!SearchId(p, h) \notin seen[Sp!Zone(p)]}
    BY <1>5, DetailFields DEF Filtered, Sp!Running
  <2>3. \A z, h : Coming(t, z, h) => z = Sp!Zone(p) /\ h \in t.todo
    BY <2>1 DEF Coming, Sp!Zone
  <2>4. \A z, h : Coming(t, z, h) => z = Sp!Zone(p) /\ (site.filtered => Sp!SearchId(p, h) \notin seen[z])
    BY <2>2, <2>3
  <2> QED
    BY <1>5, <2>1, <2>4 DEF HomesNext
<1>6. CASE Skipped(p)
  <2>1. PICK h \in task[p].todo : t = Detail(p, task[p].todo \ {h})
    BY <1>6 DEF Skipped
  <2>2. pc[p] = "wait" /\ task[p].stage = "detail"
    BY <1>6 DEF Skipped, Sp!Running
  <2>3. t.stage = "detail" /\ t.zones = task[p].zones /\ t.todo = task[p].todo \ {h}
    BY <2>1, <2>2, DetailFields
  <2>4. \A z, g : Coming(t, z, g) => Coming(task[p], z, g)
    BY <2>2, <2>3 DEF Coming
  <2> QED
    BY <2>3, <2>4 DEF HomesNext
<1>7. CASE Picked(p)
  <2>1. PICK h \in task[p].todo : t = [task[p] EXCEPT !.stage = "tell", !.todo = @ \ {h}, !.home = h]
    BY <1>7 DEF Picked
  <2>2. pc[p] = "wait" /\ task[p] \in Sp!Tasks /\ task[p].stage = "detail"
    BY <1>7, TaskTypes DEF Picked, Sp!Running
  <2>3. t.stage = "tell" /\ t.zones = task[p].zones /\ t.todo = task[p].todo \ {h} /\ t.home = h
    BY <2>1, <2>2 DEF Sp!Tasks
  <2>4. \A z, g : Coming(t, z, g) => Coming(task[p], z, g)
    BY <2>2, <2>3 DEF Coming
  <2> QED
    BY <2>3, <2>4 DEF HomesNext
<1>8. CASE Announced(p)
  <2>1. task[p].stage = "tell"
    BY <1>8 DEF Announced, Sp!Running
  <2>2. t.stage = "mark" /\ t.zones = task[p].zones /\ t.home = task[p].home /\ t.todo = task[p].todo
    BY <1>8, AnnouncedFields
  <2>3. t.home \notin t.todo
    BY <2>1, <2>2 DEF HomeTaken
  <2>4. \A z, g : Coming(t, z, g) => Coming(task[p], z, g)
    BY <2>1, <2>2 DEF Coming
  <2> QED
    BY <1>8, <2>3, <2>4 DEF HomesNext
<1>9. CASE Marked(p)
  <2>1. CASE Opens(p, "detect")
    BY <2>1, OpensNoHomes, NoHomes
  <2>2. CASE t = Detail(p, task[p].todo)
    <3>1. pc[p] = "wait" /\ task[p].stage = "mark"
      BY <1>9 DEF Marked, Sp!Running
    <3>2. t.stage = "detail" /\ t.zones = task[p].zones /\ t.todo = task[p].todo
      BY <2>2, <3>1, DetailFields
    <3>3. \A z, g : Coming(t, z, g) => Coming(task[p], z, g)
      BY <3>1, <3>2 DEF Coming
    <3> QED
      BY <3>2, <3>3 DEF HomesNext
  <2> QED
    BY <1>9, <2>1, <2>2 DEF Marked
<1> QED
  BY <1>1, <1>2, <1>3, <1>4, <1>5, <1>6, <1>7, <1>8, <1>9 DEF Does

\* What a step of the handler does to Redis and to the topic.
LEMMA ToldGrows ==
  ASSUME SpiderBasics, NEW p \in Pods, Does(p), NEW z \in Zones, NEW h \in Homes
  PROVE  /\ told[z][h] \in Nat
         /\ \/ told'[z][h] = told[z][h]
            \/ Announced(p) /\ z = Sp!Zone(p) /\ h = task[p].home /\ told'[z][h] = told[z][h] + 1
         /\ Announced(p) /\ z = Sp!Zone(p) /\ h = task[p].home => told'[z][h] = told[z][h] + 1
<1>1. told \in [Zones -> [Homes -> Nat]]
  BY DEF SpiderBasics, Sp!TypeOK
<1>2. CASE Announced(p)
  <2>1. Sp!Zone(p) \in Zones /\ task[p].home \in Homes
    BY <1>2, TaskTypes DEF Announced, Sp!Running
  <2>2. told' = [told EXCEPT ![Sp!Zone(p)][task[p].home] = @ + 1]
    BY <1>2 DEF Announced
  <2>3. told'[z] = IF z = Sp!Zone(p) THEN [told[z] EXCEPT ![task[p].home] = @ + 1] ELSE told[z]
    BY <1>1, <2>1, <2>2
  <2>4. told[z] \in [Homes -> Nat]
    BY <1>1
  <2> QED
    BY <1>2, <2>1, <2>3, <2>4
<1>3. CASE ~Announced(p)
  <2>1. told' = told
    BY <1>3 DEF Does, Reset, Swept, HomesRead, Downgraded, Published, Looked, Filtered, Skipped,
       Picked, Marked, Redis
  <2> QED
    BY <1>1, <1>3, <2>1
<1> QED
  BY <1>2, <1>3

LEMMA SeenGrows ==
  ASSUME SpiderBasics, NEW p \in Pods, Does(p), NEW z \in Zones
  PROVE  /\ \/ seen'[z] = seen[z]
            \/ /\ Marked(p) /\ z = Sp!Zone(p)
               /\ seen'[z] = seen[z] \cup {Sp!DetailId(task[p].home)}
         /\ Marked(p) => Sp!DetailId(task[p].home) \in seen'[Sp!Zone(p)]
<1>1. seen \in [Zones -> SUBSET {Sp!DetailId(h) : h \in Homes}]
  BY DEF SpiderBasics, Sp!TypeOK
<1>2. CASE Marked(p)
  <2>1. Sp!Zone(p) \in Zones
    BY <1>2, TaskTypes DEF Marked, Sp!Running
  <2>2. seen' = [seen EXCEPT ![Sp!Zone(p)] = @ \cup {Sp!DetailId(task[p].home)}]
    BY <1>2 DEF Marked
  <2> QED
    BY <1>1, <1>2, <2>1, <2>2
<1>3. CASE ~Marked(p)
  <2>1. seen' = seen
    BY <1>3 DEF Does, Reset, Swept, HomesRead, Downgraded, Published, Looked, Filtered, Skipped,
       Picked, Announced, Redis
  <2> QED
    BY <1>3, <2>1
<1> QED
  BY <1>2, <1>3

\* The ids of a home are those of the spider, which never changes.
LEMMA IdsKept ==
  ASSUME UNCHANGED site, NEW h
  PROVE  Sp!DetailId(h)' = Sp!DetailId(h) /\ Sp!FoundId(h)' = Sp!FoundId(h)
BY DEF Sp!DetailId, Sp!FoundId, Sp!ExternalId

\* A published listing is marked next, unless something fails.
LEMMA MarkHandled ==
  ASSUME SpiderBasics, NEW p \in Pods, Handler(p), task[p].stage = "mark"
  PROVE  faults' > 0 \/ Marked(p)
<1>1. pc[p] = "wait"
  BY DEF SpiderBasics, Sp!TypeOK
<1>2. Sp!Fails(p) \/ Sp!MarkSeen(p)
  BY <1>1 DEF Handler, Sp!Work, Sp!Refused, Sp!RefuseApi, Sp!RefuseDetail, Sp!ProcessMessage,
     Sp!ScrapeSearchPage, Sp!ReadHome,
     Sp!PublishScraped,
     Sp!DetectPage, Sp!FilterNew, Sp!ScrapeDetail, Sp!PublishListing, Sp!Running
<1>3. CASE Sp!Fails(p)
  BY <1>3 DEF Sp!Fails, Sp!Fault, SpiderBasics, Sp!TypeOK, Sp!BrokerTypeOK
<1>4. CASE Sp!MarkSeen(p)
  BY <1>4, MarkEffect
<1> QED
  BY <1>2, <1>3, <1>4

\* As long as nothing failed no other pod has a command.
LEMMA AloneInHandler ==
  ASSUME SpiderBasics, NEW p \in Pods, Handles(p), faults = 0, NEW q \in Pods, q # p
  PROVE  task[q].stage = "none" /\ task'[q].stage = "none"
<1>1. pc[p] \in Busy
  BY DEF Handles, Busy
<1>2. pc[q] \notin Busy
  BY <1>1 DEF SpiderBasics, OneOwner
<1>3. pc[q] # "wait"
  BY <1>2 DEF Busy
<1>4. task[q].stage = "none"
  BY <1>3 DEF SpiderBasics, Sp!TypeOK
<1> QED
  BY <1>4, OthersKept

\* What is marked was published.
LEMMA SeenToldHandler ==
  ASSUME SpiderBasics, SeenTold, HomeTaken, NEW p \in Pods, Handler(p)
  PROVE  SeenTold'
<1>1. Handles(p) /\ Does(p) /\ \A q \in Pods : q # p => task'[q] = task[q]
  BY HandlerEffect, OthersKept
<1>2. \A h : Sp!DetailId(h)' = Sp!DetailId(h)
  BY <1>1, IdsKept DEF Handles, Sp!portal
<1>3. \A z \in Zones, h \in Homes : told[z][h] > 0 => told'[z][h] > 0
  BY <1>1, ToldGrows
<1>4. ASSUME NEW z \in Zones, NEW id \in seen'[z]
      PROVE  \E h \in Homes : Sp!DetailId(h)' = id /\ told'[z][h] > 0
  <2>1. CASE id \in seen[z]
    BY <1>2, <1>3, <2>1 DEF SeenTold
  <2>2. CASE id \notin seen[z]
    <3>1. Marked(p) /\ z = Sp!Zone(p) /\ id = Sp!DetailId(task[p].home)
      BY <1>1, <1>4, <2>2, SeenGrows
    <3>2. task[p].stage = "mark" /\ task[p].home \in Homes
      BY <3>1, TaskTypes DEF Marked, Sp!Running
    <3>3. told[z][task[p].home] > 0
      BY <3>1, <3>2 DEF SeenTold
    <3> QED
      BY <1>2, <1>3, <3>1, <3>2, <3>3
  <2> QED
    BY <2>1, <2>2
<1>5. ASSUME NEW q \in Pods, task'[q].stage = "mark"
      PROVE  told'[Head(task'[q].zones)][task'[q].home] > 0
  <2>1. CASE q = p
    <3>1. Announced(p)
      BY <1>1, <1>5, <2>1, NextHomes DEF HomesNext
    <3>2. Head(task'[p].zones) = Sp!Zone(p) /\ task'[p].home = task[p].home
      BY <3>1, AnnouncedFields DEF Sp!Zone
    <3>3. Sp!Zone(p) \in Zones /\ task[p].home \in Homes
      BY <3>1, TaskTypes DEF Announced, Sp!Running
    <3>4. /\ told[Sp!Zone(p)][task[p].home] \in Nat
          /\ told'[Sp!Zone(p)][task[p].home] = told[Sp!Zone(p)][task[p].home] + 1
      BY <1>1, <3>1, <3>3, ToldGrows
    <3> QED
      BY <2>1, <3>2, <3>4
  <2>2. CASE q # p
    <3>1. task'[q] = task[q]
      BY <1>1, <2>2
    <3>2. told[Sp!Zone(q)][task[q].home] > 0
      BY <1>5, <3>1 DEF SeenTold
    <3>3. Sp!Zone(q) \in Zones /\ task[q].home \in Homes
      BY <1>5, <3>1, TaskTypes DEF SpiderBasics, Sp!TypeOK
    <3>4. told'[Sp!Zone(q)][task[q].home] > 0
      BY <1>3, <3>2, <3>3
    <3> QED
      BY <3>1, <3>4 DEF Sp!Zone
  <2> QED
    BY <2>1, <2>2
<1> QED
  BY <1>4, <1>5 DEF SeenTold, Sp!Zone

\* What is in hand is not to come.
LEMMA HomeTakenHandler ==
  ASSUME SpiderBasics, HomeTaken, NEW p \in Pods, Handler(p)
  PROVE  HomeTaken'
<1>1. Handles(p) /\ Does(p) /\ \A q \in Pods : q # p => task'[q] = task[q]
  BY HandlerEffect, OthersKept
<1>2. HomesNext(p, task'[p])
  BY <1>1, NextHomes
<1> QED
  BY <1>1, <1>2 DEF HomeTaken, HomesNext

\* The same of what is published only once.
LEMMA OnceHandler ==
  ASSUME SpiderBasics, HomeTaken, NEW p \in Pods, Handler(p), faults' = 0,
         site.filtered, NEW z \in Zones, NEW h \in Homes, Sp!FoundId(h) = Sp!DetailId(h),
         faults = 0, Once(z, h)
  PROVE  Once(z, h)'
<1>1. Handles(p) /\ Does(p)
  BY HandlerEffect
<1>2. \A q \in Pods : q # p => task[q].stage = "none" /\ task'[q].stage = "none"
  BY <1>1, AloneInHandler
<1>3. Sp!DetailId(h)' = Sp!DetailId(h)
  BY <1>1, IdsKept DEF Handles, Sp!portal
<1>4. HomesNext(p, task'[p])
  BY <1>1, NextHomes
<1>5. PICK n : n = told[z][h]
  OBVIOUS
<1>6. n \in Nat /\ n <= 1
  BY <1>1, <1>5, ToldGrows DEF Once
<1>7. CASE Announced(p) /\ z = Sp!Zone(p) /\ h = task[p].home
  <2>1. Coming(task[p], z, h)
    BY <1>7 DEF Announced, Sp!Running, Coming, Sp!Zone
  <2>2. n = 0
    BY <1>5, <2>1 DEF Once
  <2>3. told'[z][h] = 1
    BY <1>1, <1>5, <1>7, <2>2, ToldGrows
  <2>4. /\ task'[p].stage = "mark" /\ task'[p].zones = task[p].zones
        /\ task'[p].home = h
    BY <1>7, AnnouncedFields
  <2>5. Marking(task'[p], z, h)
    BY <1>7, <2>4 DEF Marking, Sp!Zone
  <2>6. \A q \in Pods : ~Coming(task'[q], z, h)
    <3>1. h \notin task'[p].todo
      BY <1>4, <2>4 DEF HomesNext
    <3>2. ~Coming(task'[p], z, h)
      BY <2>4, <3>1 DEF Coming
    <3> QED
      BY <1>2, <3>2 DEF Coming
  <2> QED
    BY <2>3, <2>5, <2>6 DEF Once
<1>8. CASE ~(Announced(p) /\ z = Sp!Zone(p) /\ h = task[p].home)
  <2>1. told'[z][h] = n
    BY <1>1, <1>5, <1>8, ToldGrows
  <2>2. ASSUME n > 0
        PROVE  Sp!DetailId(h) \in seen'[z]
    <3>1. Sp!DetailId(h) \in seen[z] \/ \E q \in Pods : Marking(task[q], z, h)
      BY <1>5, <2>2 DEF Once
    <3>2. CASE Sp!DetailId(h) \in seen[z]
      BY <1>1, <3>2, SeenGrows
    <3>3. CASE \E q \in Pods : Marking(task[q], z, h)
      <4>1. Marking(task[p], z, h)
        BY <1>2, <3>3 DEF Marking
      <4>2. Marked(p)
        BY <4>1, MarkHandled DEF Marking
      <4> QED
        BY <1>1, <4>1, <4>2, SeenGrows DEF Marking, Sp!Zone
    <3> QED
      BY <3>1, <3>2, <3>3
  <2>3. ASSUME NEW q \in Pods, Coming(task'[q], z, h)
        PROVE  n = 0
    <3>1. q = p
      BY <1>2, <2>3 DEF Coming
    <3>2. CASE Coming(task[p], z, h)
      BY <1>5, <3>2 DEF Once
    <3>3. CASE Filtered(p) /\ z = Sp!Zone(p) /\ Sp!SearchId(p, h) \notin seen[z]
      <4>1. \A r \in Pods : ~Marking(task[r], z, h)
        BY <1>2, <3>3 DEF Marking, Filtered, Sp!Running
      <4>2. ~(n > 0)
        BY <1>5, <3>3, <4>1 DEF Once, Sp!SearchId
      <4> QED
        BY <1>6, <4>2
    <3> QED
      BY <1>4, <2>3, <3>1, <3>2, <3>3 DEF HomesNext
  <2> QED
    BY <1>3, <1>6, <2>1, <2>2, <2>3 DEF Once
<1> QED
  BY <1>7, <1>8

\* So the handler keeps the invariant of the detection.
LEMMA DetectHandler ==
  ASSUME SpiderBasics, DetectInv, NEW p \in Pods, Handler(p)
  PROVE  DetectInv'
<1>1. SeenTold' /\ HomeTaken'
  BY SeenToldHandler, HomeTakenHandler DEF DetectInv
<1>2. ASSUME (faults = 0)', (site.filtered)', NEW z \in Zones, NEW h \in Homes, (Sp!FoundId(h) = Sp!DetailId(h))'
      PROVE  Once(z, h)'
  <2>1. Handles(p)
    BY HandlerEffect
  <2>2. site' = site /\ faults = 0
    BY <1>2, <2>1 DEF Handles, Sp!portal, SpiderBasics, Sp!TypeOK, Sp!BrokerTypeOK
  <2>3. site.filtered /\ Sp!FoundId(h) = Sp!DetailId(h)
    BY <1>2, <2>2, IdsKept
  <2>4. Once(z, h)
    BY <2>2, <2>3 DEF DetectInv, OnceInv
  <2> QED
    BY <1>2, <2>2, <2>3, <2>4, OnceHandler DEF DetectInv
<1>3. OnceInv'
  BY <1>2 DEF OnceInv
<1> QED
  BY <1>1, <1>3 DEF DetectInv

\* The other steps leave a command as it is, or end it with a failure.
SameTask(t, u) == t.stage = u.stage /\ t.zones = u.zones /\ t.home = u.home /\ t.todo = u.todo

LEMMA DetectKept ==
  ASSUME DetectInv, UNCHANGED <<site, seen, told>>,
         \A q \in Pods : task'[q] = Sp!NoTask \/ SameTask(task'[q], task[q]),
         faults' = 0 => faults = 0 /\ \A q \in Pods : SameTask(task'[q], task[q])
  PROVE  DetectInv'
<1>1. \A h : Sp!DetailId(h)' = Sp!DetailId(h) /\ Sp!FoundId(h)' = Sp!FoundId(h)
  BY IdsKept
<1>2. Sp!NoTask.stage = "none"
  BY DEF Sp!NoTask
<1>3. SeenTold'
  <2>1. \A z \in Zones : \A id \in seen'[z] : \E h \in Homes : Sp!DetailId(h)' = id /\ told'[z][h] > 0
    BY <1>1 DEF DetectInv, SeenTold
  <2>2. \A q \in Pods : task'[q].stage = "mark" => told'[Head(task'[q].zones)][task'[q].home] > 0
    BY <1>2 DEF DetectInv, SeenTold, SameTask, Sp!Zone
  <2> QED
    BY <2>1, <2>2 DEF SeenTold, Sp!Zone
<1>4. HomeTaken'
  BY <1>2 DEF DetectInv, HomeTaken, SameTask
<1>5. ASSUME faults' = 0, (site.filtered)', NEW z \in Zones, NEW h \in Homes, (Sp!FoundId(h) = Sp!DetailId(h))'
      PROVE  Once(z, h)'
  <2>1. Once(z, h)
    BY <1>1, <1>5 DEF DetectInv, OnceInv
  <2>2. \A q \in Pods : /\ Marking(task[q], z, h) => Marking(task'[q], z, h)
                        /\ Coming(task'[q], z, h) => Coming(task[q], z, h)
    BY <1>5 DEF SameTask, Marking, Coming
  <2> QED
    BY <1>1, <2>1, <2>2 DEF Once
<1>6. OnceInv'
  BY <1>5 DEF OnceInv
<1> QED
  BY <1>3, <1>4, <1>6 DEF DetectInv

\* Every step keeps it.
LEMMA DetectStep == SpiderBasics /\ DetectInv /\ [Sp!Next]_Sp!vars => DetectInv'
<1> SUFFICES ASSUME SpiderBasics, DetectInv, [Sp!Next]_Sp!vars
             PROVE  DetectInv'
  OBVIOUS
<1>1. ASSUME UNCHANGED <<site, seen, told, task>>, faults' = 0 => faults = 0
      PROVE  DetectInv'
  BY <1>1, DetectKept DEF SameTask
<1>2. ASSUME NEW c \in Commands, Sp!Order(c) PROVE DetectInv'
  BY <1>1, <1>2 DEF Sp!Order, Sp!Produce, Sp!redis
<1>3. ASSUME NEW h \in Homes, Sp!Appear(h) PROVE DetectInv'
  BY <1>1, <1>3 DEF Sp!Appear, Sp!Still, Sp!broker, Sp!redis
<1>4. ASSUME NEW h \in Homes, Sp!Vanish(h) PROVE DetectInv'
  <2>1. TasksOK
    BY TypeParts DEF SpiderBasics, Parts
  <2>2. \A q \in Pods : SameTask(task'[q], task[q])
    BY <1>4, <2>1, VanishTasks, ShrinksType DEF SameTask, TasksOK
  <2>3. UNCHANGED <<site, seen, told, faults>>
    BY <1>4 DEF Sp!Vanish, Sp!Still, Sp!broker, Sp!redis
  <2> QED
    BY <2>2, <2>3, DetectKept
<1>5. ASSUME NEW p \in Pods, Sp!Runtime(p) PROVE DetectInv'
  <2>1. faults' = 0 => faults = 0
    BY <1>5 DEF Sp!Runtime, Sp!Assign, Sp!Rebalance, Sp!StartPod, Sp!LoopStep, Sp!Fetch,
       Sp!DeadLetter, Sp!Commit, Sp!Fault, Sp!NoFault,
       SpiderBasics, Sp!TypeOK, Sp!BrokerTypeOK
  <2> QED
    BY <1>1, <1>5, <2>1 DEF Sp!Runtime, Sp!portal, Sp!redis
<1>6. ASSUME NEW p \in Pods, Sp!Die(p) PROVE DetectInv'
  <2>1. UNCHANGED <<site, seen, told>>
    BY <1>6 DEF Sp!Die, Sp!portal, Sp!redis
  <2>2. faults' # 0 /\ \A q \in Pods : task'[q] = Sp!NoTask \/ task'[q] = task[q]
    BY <1>6, DieStep
  <2> QED
    BY <2>1, <2>2, DetectKept DEF SameTask
<1>7. ASSUME NEW p \in Pods, Handler(p) PROVE DetectInv'
  BY <1>7, DetectHandler
<1>8. CASE UNCHANGED Sp!vars
  BY <1>1, <1>8 DEF Sp!vars, Sp!portal, Sp!redis, Sp!broker
<1> QED
  BY <1>2, <1>3, <1>4, <1>5, <1>6, <1>7, <1>8, SpiderSteps

\* And it says what is promised.
LEMMA DetectImplies == SpiderBasics /\ DetectInv => Sp!DetectPublishesOnce
<1> SUFFICES ASSUME SpiderBasics, DetectInv
             PROVE  Sp!DetectPublishesOnce
  OBVIOUS
<1>1. ASSUME NEW z \in Zones, NEW h \in Homes, told[z][h] > 1, faults = 0, Sp!FoundId(h) = Sp!DetailId(h), site.filtered
      PROVE  FALSE
  <2>1. told[z][h] <= 1
    BY <1>1 DEF DetectInv, OnceInv, Once
  <2>2. told[z][h] \in Nat
    BY DEF SpiderBasics, Sp!TypeOK
  <2> QED
    BY <1>1, <2>1, <2>2
<1>2. faults \in Nat
  BY BoundsAssumption DEF SpiderBasics, Sp!TypeOK, Sp!BrokerTypeOK
<1>3. \A z \in Zones, h \in Homes : told[z][h] > 1 => faults > 0 \/ Sp!FoundId(h) # Sp!DetailId(h) \/ ~site.filtered
  <2> SUFFICES ASSUME NEW z \in Zones, NEW h \in Homes, told[z][h] > 1, ~(faults > 0), Sp!FoundId(h) = Sp!DetailId(h),
                      site.filtered
               PROVE  FALSE
    OBVIOUS
  <2>1. faults = 0
    BY <1>2
  <2> QED
    BY <1>1, <2>1
<1> QED
  BY <1>3 DEF Sp!DetectPublishesOnce, DetectInv, SeenTold

\* What is new is published before its id is marked, and only once unless something
\* fails or the ids of its two pages differ.
THEOREM DetectionsPublishOnce == Sp!Spec => []DetectPublishesOnce
<1>1. Sp!Init => SpiderBasics /\ DetectInv
  <2> SUFFICES ASSUME Sp!Init
               PROVE  SpiderBasics /\ DetectInv
    OBVIOUS
  <2>1. \A q \in Pods : task[q].stage = "none"
    BY DEF Sp!Init, Sp!NoTask
  <2>2. \A z \in Zones : seen[z] = {} /\ \A h \in Homes : told[z][h] = 0
    BY DEF Sp!Init
  <2> QED
    BY <2>1, <2>2, SpiderInit DEF DetectInv, SeenTold, HomeTaken, OnceInv, Once, Coming
<1>2. SpiderBasics /\ DetectInv /\ [Sp!Next]_Sp!vars => (SpiderBasics /\ DetectInv)'
  BY BasicsStep, DetectStep
<1> QED
  BY <1>1, <1>2, DetectImplies, SameProperties, PTL DEF Sp!Spec

=============================================================================
