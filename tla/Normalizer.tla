----------------------------- MODULE Normalizer -----------------------------
(***************************************************************************)
(* The pipeline's normalizer: normalizer/consumer.py and writer.py over    *)
(* the runtime of PyConsumer.  handle_message queues the record with a     *)
(* future and awaits the future; a timer task (or the handler itself, when *)
(* the batch is full) takes the batch, and for each record loads the       *)
(* exchange rates, decides, quarantines or upserts, publishes, and         *)
(* resolves the future.                                                    *)
(*                                                                         *)
(* consume() awaits each handler, so the batch of a pod holds one record   *)
(* at most: it is full only if batch_size is 1.                            *)
(***************************************************************************)
EXTENDS PyConsumer, ListingMapping

CONSTANTS
  Contents,     \* what a spider may publish on raw-listings
  MappingFiles, \* the files of mappings_dir, in order
  OldRates,     \* the exchange_rates table at first
  NewRates,     \* and after a currency was added to it
  NoCache,      \* the writer has not loaded rates yet
  BatchSizes    \* values of NORMALIZER_BATCH_SIZE to check

VARIABLES
  log,          \* the records of raw-listings
  batchSize,    \* NormalizerSettings.batch_size
  tableRates,   \* the exchange_rates table
  cache,        \* ListingWriter._exchange_rates of each pod
  queued,       \* the record in _batch, 0: none
  timer,        \* _flush_task is waiting for batch_timeout
  job,          \* the batch that is being processed, and by whom
  rows,         \* listings: the version (message) and the value of each source_id
  quarantined,  \* messages with a quarantine row
  published     \* messages published to normalized-listings

env    == <<log, batchSize, tableRates>>
intake == <<queued, timer>>
sinks  == <<rows, quarantined, published>>
vars   == <<broker, env, cache, intake, job, sinks>>

Idle     == [stage |-> "none", msg |-> 0, by |-> "none"]
Sources  == {c.source_id : c \in Contents}
NoRow    == [msg |-> 0, listing |-> None, completeness |-> 0]
Rates    == {OldRates, NewRates}
Mappings == LoadAll(MappingFiles)

\* The verdict on each content, and the listing it is mapped to, under each rates.
Verdicts == [c \in Contents, rates \in Rates |-> Verdict(Mappings, c, rates)]
Listings == [c \in Contents, rates \in Rates |->
               IF Verdicts[c, rates] = "accept" THEN Normalized(Mappings, c, rates) ELSE None]
Scores   == [c \in Contents, rates \in Rates |->
               IF Verdicts[c, rates] = "accept" THEN Completeness(Listings[c, rates]) ELSE 0]

TypeOK ==
  /\ BrokerTypeOK
  /\ log \in Seq(Contents) /\ Len(log) = logEnd
  /\ batchSize \in BatchSizes
  /\ tableRates \in Rates
  /\ cache \in [Pods -> Rates \cup {NoCache}]
  /\ queued \in [Pods -> 0..MaxMessages]
  /\ timer \in [Pods -> BOOLEAN]
  /\ job \in [Pods -> [stage : {"none", "rates", "quarantine", "upsert", "publish"},
                       msg : 0..MaxMessages,
                       by : {"none", "task", "handler", "close"}]]
  /\ \A s \in Sources : rows[s].msg \in 0..MaxMessages
  /\ quarantined \subseteq Messages
  /\ published \subseteq Messages

Init ==
  /\ BrokerInit
  /\ log = <<>>
  /\ batchSize \in BatchSizes
  /\ tableRates = OldRates
  /\ cache = [p \in Pods |-> NoCache]
  /\ queued = [p \in Pods |-> 0]
  /\ timer = [p \in Pods |-> FALSE]
  /\ job = [p \in Pods |-> Idle]
  /\ rows = [s \in Sources |-> NoRow]
  /\ quarantined = {}
  /\ published = {}

\* What the handler leaves to the broker's loop.
LoopVars == <<log_, group, pc, reader, attempt, dead>>
Still    == UNCHANGED broker

-----------------------------------------------------------------------------
(* The environment: spiders publish, a currency appears, Kafka and pods     *)

Scrape(c) ==
  /\ Produce
  /\ log' = Append(log, c)
  /\ UNCHANGED <<batchSize, tableRates, cache, intake, job, sinks>>

AddCurrency ==
  /\ tableRates # NewRates
  /\ tableRates' = NewRates
  /\ Still /\ UNCHANGED <<log, batchSize, cache, intake, job, sinks>>

Group(p) ==
  /\ Assign(p) \/ Rebalance(p)
  /\ UNCHANGED <<env, cache, intake, job, sinks>>

\* run(): the mappings are loaded before the consumer is created.
Start(p) ==
  /\ ~Failed(Mappings)
  /\ StartPod(p)
  /\ UNCHANGED <<env, cache, intake, job, sinks>>

Loopback(p) ==
  /\ LoopStep(p)
  /\ UNCHANGED <<env, cache, intake, job, sinks>>

\* Whatever ends the process, its memory is gone.
Forget(p) ==
  /\ cache' = [cache EXCEPT ![p] = NoCache]
  /\ queued' = [queued EXCEPT ![p] = 0]
  /\ timer' = [timer EXCEPT ![p] = FALSE]
  /\ job' = [job EXCEPT ![p] = Idle]

Die(p) ==
  /\ Escape(p) \/ Crash(p)
  /\ Forget(p)
  /\ UNCHANGED <<env, sinks>>

-----------------------------------------------------------------------------
(* handle_message                                                           *)

Begin(p, m, who) == [job EXCEPT ![p] = [stage |-> "rates", msg |-> m, by |-> who]]

\* The record and its future join the batch.  A full batch is processed by the
\* handler itself, after it cancelled the timer; otherwise the timer is started.
HandleMessage(p) ==
  /\ pc[p] = "call"
  /\ Goto(p, "wait")
  /\ IF batchSize = 1
     THEN /\ job' = Begin(p, cur[p], "handler")
          /\ timer' = [timer EXCEPT ![p] = FALSE]
          /\ UNCHANGED queued
     ELSE /\ queued' = [queued EXCEPT ![p] = cur[p]]
          /\ timer' = [timer EXCEPT ![p] = TRUE]
          /\ UNCHANGED job
  /\ UNCHANGED <<log_, group, reader, attempt, dead, faults, env, cache, sinks>>

\* _flush_after_timeout: the timer task clears itself, takes the batch and
\* processes it.
FlushAfterTimeout(p) ==
  /\ timer[p]
  /\ timer' = [timer EXCEPT ![p] = FALSE]
  /\ queued' = [queued EXCEPT ![p] = 0]
  /\ job' = Begin(p, queued[p], "task")
  /\ Still /\ UNCHANGED <<env, cache, sinks>>

-----------------------------------------------------------------------------
(* _process_batch                                                           *)

At(p, stage) == job[p].stage = stage
Record(p)    == log[job[p].msg]
Awaited(p)   == pc[p] = "wait" /\ cur[p] = job[p].msg
Ended(p)     == job' = [job EXCEPT ![p] = Idle]
Continue(p, stage) == job' = [job EXCEPT ![p].stage = stage]

\* The batch is done: the future has a result ("ok") or an exception ("error"), or
\* an exception left _process_batch ("escape").  Of an escape the handler hears
\* only if it runs the batch itself: a timer task dies with it, and nobody
\* resolves the future.  The future of a cancelled handler is done already, and a
\* batch that close() processes ends the shutdown.
Finish(p, how) ==
  IF job[p].by = "close"
  THEN Gone(p) /\ Forget(p)
  ELSE /\ CASE Awaited(p) /\ how = "ok" -> Returned(p)
            [] Awaited(p) /\ how # "ok" /\ (how = "error" \/ job[p].by = "handler") -> Raised(p)
            [] OTHER -> UNCHANGED <<pc, attempt>>
       /\ Ended(p)
       /\ UNCHANGED <<log_, group, reader, dead, cache, intake>>

\* load_exchange_rates answers from its cache for five minutes, then reads the
\* table; the loop then decides without another await.
LoadRates(p) ==
  /\ At(p, "rates")
  /\ \E rates \in {tableRates} \cup ({cache[p]} \ {NoCache}) :
       LET verdict == Verdicts[Record(p), rates]
       IN  CASE verdict = "raise"  -> Finish(p, "escape")
             [] verdict = "accept" -> /\ cache' = [cache EXCEPT ![p] = rates]
                                      /\ Continue(p, "upsert")
                                      /\ UNCHANGED <<LoopVars, intake>>
             [] OTHER              -> /\ cache' = [cache EXCEPT ![p] = rates]
                                      /\ Continue(p, "quarantine")
                                      /\ UNCHANGED <<LoopVars, intake>>
  /\ NoFault /\ UNCHANGED <<env, sinks>>

LoadRatesError(p) ==
  /\ At(p, "rates")
  /\ Finish(p, "error")
  /\ Fault /\ UNCHANGED <<env, sinks>>

\* _quarantine_and_complete.
WriteQuarantine(p) ==
  /\ At(p, "quarantine")
  /\ quarantined' = quarantined \cup {job[p].msg}
  /\ Finish(p, "ok")
  /\ NoFault /\ UNCHANGED <<env, rows, published>>

\* The insert fails, and nothing in _process_batch catches it: no fault of the
\* database is needed, for raw_payload is a dict and pool.py registers no encoder
\* for the jsonb column.
QuarantineError(p) ==
  /\ At(p, "quarantine")
  /\ Finish(p, "escape")
  /\ NoFault /\ UNCHANGED <<env, sinks>>

\* upsert_batch: the row of (source, source_id, country) takes every value of the
\* message, whatever version it holds.
UpsertRow(p) ==
  [msg          |-> job[p].msg,
   listing      |-> Listings[Record(p), cache[p]],
   completeness |-> Scores[Record(p), cache[p]]]

Upsert(p) ==
  /\ At(p, "upsert")
  /\ rows' = [rows EXCEPT ![Record(p).source_id] = UpsertRow(p)]
  /\ Continue(p, "publish")
  /\ UNCHANGED <<broker, env, cache, intake, quarantined, published>>

\* Mutated form: a failed upsert is logged and the batch is dropped.
UpsertErrorLogged(p) ==
  /\ At(p, "upsert")
  /\ Finish(p, "escape")
  /\ Fault /\ UNCHANGED <<env, sinks>>

\* The error goes to the future of every row of the batch.
UpsertError(p) ==
  /\ At(p, "upsert")
  /\ Finish(p, "error")
  /\ Fault /\ UNCHANGED <<env, sinks>>

PublishNormalized(p) ==
  /\ At(p, "publish")
  /\ published' = published \cup {job[p].msg}
  /\ Finish(p, "ok")
  /\ NoFault /\ UNCHANGED <<env, rows, quarantined>>

\* Mutated form: the record is settled although its event was not published.
PublishErrorIgnored(p) ==
  /\ At(p, "publish")
  /\ Finish(p, "ok")
  /\ Fault /\ UNCHANGED <<env, sinks>>

PublishError(p) ==
  /\ At(p, "publish")
  /\ Finish(p, "error")
  /\ Fault /\ UNCHANGED <<env, sinks>>

ProcessBatch(p) ==
  \/ LoadRates(p) \/ LoadRatesError(p)
  \/ WriteQuarantine(p) \/ QuarantineError(p)
  \/ Upsert(p) \/ UpsertError(p)
  \/ PublishNormalized(p) \/ PublishError(p)

-----------------------------------------------------------------------------
(* Shutdown                                                                 *)

\* The main task is cancelled (SIGINT): the handler is cancelled at its await, and
\* with it the batch it runs itself.  close() cancels the timer and processes the
\* record it left behind; a batch that the timer task has taken goes on beside it.
Interrupt(p) ==
  /\ pc[p] \notin {"down", "closing"}
  /\ Goto(p, "closing")
  /\ timer' = [timer EXCEPT ![p] = FALSE]
  /\ queued' = [queued EXCEPT ![p] = 0]
  /\ job' = IF queued[p] # 0 THEN Begin(p, queued[p], "close")
            ELSE IF job[p].by = "handler" THEN [job EXCEPT ![p] = Idle]
            ELSE job
  /\ Fault
  /\ UNCHANGED <<log_, group, reader, attempt, dead, env, cache, sinks>>

\* The broker and the pool are closed and the loop ends, with the tasks in it.
CloseEnd(p) ==
  /\ pc[p] = "closing"
  /\ job[p].by # "close"
  /\ Gone(p) /\ Forget(p)
  /\ NoFault /\ UNCHANGED <<env, sinks>>

Service(p) == HandleMessage(p) \/ FlushAfterTimeout(p) \/ ProcessBatch(p) \/ CloseEnd(p)

Next ==
  \/ \E c \in Contents : Scrape(c)
  \/ AddCurrency
  \/ \E p \in Pods : \/ Group(p) \/ Start(p) \/ Loopback(p) \/ Service(p)
                     \/ Die(p) \/ Interrupt(p)

Spec == Init /\ [][Next]_vars

\* Started pods run on, timers fire, calls end under their client timeouts, and
\* Kafka assigns an orphaned partition.
Fairness ==
  /\ \A p \in Pods : WF_vars(Start(p)) /\ WF_vars(Loopback(p)) /\ WF_vars(Service(p))
  /\ WF_vars(\E p \in Pods : Assign(p) /\ UNCHANGED <<env, cache, intake, job, sinks>>)

FairSpec == Spec /\ Fairness

-----------------------------------------------------------------------------
(* Properties                                                               *)

Settled == published \cup quarantined \cup dead

\* End to end, through batches, futures, timers, retries, rebalances, crashes and
\* shutdowns, the normalizer promises what AtLeastOnce says of a consumer: the
\* offset of a raw listing is committed only after the listing was published to
\* normalized-listings, quarantined or dead-lettered.
ALO == INSTANCE AtLeastOnce WITH
         published <- logEnd, start <- base, handled <- published \cup quarantined,
         acked <- committed

ImplementsAtLeastOnce == ALO!Spec

\* A handler waits for a future that nobody will resolve.
Stranded(p) == pc[p] = "wait" /\ queued[p] = 0 /\ job[p] = Idle

\* A worker is stranded only by a record that the batch loop refuses, and only if
\* the batch ran in a timer task: no error of the rates, of the upsert or of the
\* publish, and no accepted listing, leaves a future unresolved.
StrandedByRefusal ==
  \A p \in Pods :
    Stranded(p) =>
      /\ batchSize # 1
      /\ \E rates \in Rates : Verdicts[log[cur[p]], rates] # "accept"

\* The upsert compares no versions, so a listing goes back to an older one only by
\* the hand of a pod that lost the partition after it fetched the record.
RegressNeedsStalePod ==
  [][\A s \in Sources :
       rows'[s].msg < rows[s].msg =>
         \E p \in Pods : At(p, "upsert") /\ rows'[s].msg = job[p].msg
                         /\ (pc[p] = "closing" \/ taken[p] # generation)]_vars

\* Every raw listing after the start of consumption is settled in the end, unless
\* a worker is stranded.
EventuallySettled ==
  \A m \in Messages :
    m <= logEnd ~> (m <= base \/ m \in Settled \/ \E p \in Pods : Stranded(p))

=============================================================================
