# EstateGap: a TLA+ verification project

EstateGap finds underpriced real estate. Spiders scrape portals, a pipeline
normalises and deduplicates listings, a model scores them, an alert engine
matches the scored listings with the rules of users, and notifications leave by
email, push, chat apps and websockets. The services are Go and Python processes
that share Kafka topics, a Postgres primary with a replica, and Redis.

This directory models the parts whose correctness depends on the order in which
things happen: the two consumer runtimes and, over them, nearly every step a
listing takes from the portal to the user's phone. TLC checks the models on small
instances; TLAPS proves their safety properties but two, and two refinements, for every
instance.

    tlc -workers 2 -config MCKafkaConsumer.cfg MCKafkaConsumer
    tlc -workers 2 -config MCNormalizer.cfg MCNormalizer
    tlapm KafkaConsumerProofs.tla

## 1. Inventory

| Component | State it keeps | Operations | What makes it hard | Correct means |
|---|---|---|---|---|
| Go consumer runtime (`libs/pkg/broker`) | committed offsets, reader loops, stashed commits | fetch, handle with retries, dead-letter, commit | crashes, rebalances, commits sent by another goroutine, failed dead-letter writes | at-least-once: no commit passes an unsettled message |
| Python broker (`libs/common/.../broker`) | committed offsets, one loop per process | the same, one record at a time | it commits positions, not records; an error of the commit or of the dead-letter write ends the process | the same |
| alert-engine | Redis dedup sets and digest buffers, `alert_history`, rule cache | handle scored listing, handle price change, compile digests, refresh | four threads, partial failure and retry, TTLs, restarts, a lagging replica | a user is told once of a listing, and is told |
| alert-dispatcher | `alert_history` rows, provider calls | dispatch: insert, send with retries, update | redelivery, lost answers, crashes between row and call | one Send per event, truthful final records |
| ws-server | hub of connections, queues, sockets | upgrade, register, pumps, alert fan-out, shutdown | many goroutines per connection, teardown races | limit kept, no leaks, graceful shutdown |
| api-gateway, billing | `subscriptions`, tier, Redis keys and pending downgrades | five webhook events, downgrade worker | events out of order, concurrent retries, replica lag | each event processed once, tiers follow payments |
| api-gateway, guards | refresh tokens, rate-limit counters, breaker atomics, rule counts | refresh, login, limit, allow, record | check-then-act, separate atomics | limits hold, sessions survive errors |
| normalizer | `listings`, `quarantine`, a batch of futures, cached exchange rates | map, validate, upsert, publish or quarantine | the handler waits for a task that may die; retries, stale pods | a raw listing ends in a row or in quarantine |
| deduplicator | `canonical_id` of `listings` | find candidates, resolve a group | candidates are read in one transaction and written in another | matches share one canonical id |
| enricher | enrichment columns of `listings` | ask registers and Overpass, update, publish | the row's id is not the message's; failing services | rows get what is announced |
| change detector | `price_history`, listing status | cycles, fallback loop | three reads, two kinds of writes and a publish without a transaction | marks are exact, each drop is published |
| ml trainer | `model_versions`, objects in S3 | tag, train, upload, register, promote | jobs that overlap, two stores | one active version, its objects its own |
| ml scorer | bundles, index of comparables | load, poll, refresh, score | reload while scoring, exceptions in loops | listings are scored, models are reloaded |
| ai-chat | Redis sessions, counters per user | chat turns, limits | concurrent streams, check before register, expiry | limits hold, a session is whole |
| spider-workers | seen sets in Redis | sweep, detect_new | a portal that moves under the sweep, pages that are read in part, failures in the middle | a swept zone is published but for what was passed over, new homes once for a zone |
| scrape-orchestrator | tickers, job records | reload, publish, trigger | reload against running tickers | active portals are scraped |
| proxy-manager | health windows, stickiness, blacklist | select, report | scores of short windows, TTLs | working proxies are selected |
| frontend, Helm, proto | files and configuration | pages | no shared-state concurrency of their own | not modelled |

Interactions: `raw-listings` → normalizer → `normalized-listings` → deduplicator,
enricher → `enriched-listings` → scorer → `scored-listings` → alert-engine →
`alerts-notifications` → alert-dispatcher and ws-server; change detector →
`price-changes` → alert-engine. The api-gateway writes the rules and tiers that
the others read, and it calls the scorer over gRPC; ws-server calls ai-chat over
gRPC. Every Go service consumes through the one runtime that KafkaConsumer models,
every Python service through the one that PyConsumer models.

`PROJECT.json` lists every component with its status and every hazard found in the
code with the properties that cover it, or the reason why none does yet.

## 2. Modules

| Module | Models | State and actions |
|---|---|---|
| `AtLeastOnce` | abstract: what a topic promises to a consumer group | published, settled and acknowledged messages |
| `KafkaConsumer` | `kafka.go`, and the pool of alert-dispatcher | one partition; each reader's `pc` walks through `ConsumeReader`: `Fetch`, `HandleOk`/`HandleError`, `DeadLetter`, `Commit`, `Return`; `stash` is what `CommitMessages` was given and the commit loop has not sent (`CommitInterval`); `Crash`, `Terminate`, `Rebalance` are the environment |
| `AlertDispatcher` | `Dispatch`, `withRetry`, history | each worker's `pc` walks through `handleMessage`; the workers of a pod end together in `Crash`; `row` is `alert_history`, with its unique key; `posts` and `accepted` are the provider's side |
| `WsHubState`, `WsHub` | hub, connection, upgrade, alert consumer, chat streams, `Shutdown` | the state and what must hold of it, apart from the goroutines; a step is what one goroutine does between two points where another can see it; the deferred `Unregister`, `markDone`, `ForceClose` are three steps that both pumps run |
| `StripeBilling` | webhook handlers, downgrade worker | each request's `pc`, in the pod that `PodOf` gives it; `worker` is the downgrade worker of each pod; `seen` are the `stripe:event:` keys, `pending` the sorted set of downgrades, `status`, `flag`, `tier` the tables, `replica` whether the row got there |
| `AlertEngine` | processor, matcher, dedup, router, digests, rule cache | two readers, the compiler and the cache refresh; `sent` and `buffer` are Redis, `overdue` the keys whose TTL is reached, `told`, `added`, `dropped`, `cleared` are history variables |
| `PyConsumer` | `kafka_broker.py` | the sequential loop of each pod; a service extends it and takes a pod from `call` to `Returned` or `Raised` |
| `ListingMapping` | `mapper.py`, `transforms.py`, the validators | no state: a payload and exchange rates give a listing or the reason of its refusal |
| `Normalizer` | `normalizer/consumer.py`, `writer.py` | `queued`, `timer`, `job` are a pod's batch, timer task and the batch in work; `rows`, `quarantined`, `published` the sinks; instantiates `AtLeastOnce` |
| `ListingRows` | the `listings` table | a row keeps the uuid of its first upsert, every upsert has a fresh one (`upserts`), and `normalized` is what was published of them; `Upsert` and `PublishNormalized` are the normalizer's two steps |
| `Deduplicator` | `deduplicator/` | two steps per message: read the candidates of its country, write the group |
| `Enrichment` | plugins, `poi.py`, status | no state: what a register answers becomes columns and a status |
| `Enricher` | `enricher/service.py` | results per plugin, then update, then publish |
| `Scoring` | `kafka_consumer.py`, `servicer.py`, `db_writer.py` of the scorer | `score` and `announced` are the two sinks; `scoring` and `rpc` what the consumer and a gRPC call of each pod hold |
| `ChangeDetector` | `change_detector/` | the event's task and the fallback's, each query and mark a step; `Killed` ends both, and `Redelivered` begins the event anew |
| `ListingPipeline` | the composition | the normalizer beside one of the four workers over the shared table: `Normalize` stores, `Announce` publishes, and `scope` says which worker is there and what it meets |
| `PriceModel` | features, export, split, promotion, deal score | no state |
| `Trainer` | `trainer/` | `versions` is `model_versions`, `objects` the bucket, `job` each run |
| `Scorer` | the model side of `scorer/` | `bundle`, `poller`, `index`, `refresher` of each pod |
| `ModelLifecycle` | the composition of both | jobs and pods share the table and the bucket only |
| `ChatSession` | `servicer.py`, `session.py`, `subscription.py` | `hash`, `messages`, `counter` are Redis; each stream's stage walks through `Chat` |
| `SpiderState`, `Spider` | `consumer.py` and the portal spiders | the state, the portals and what must hold, apart from the steps; `shown` is the portal's search order, `seen` the Redis sets, `task` each pod's command. A home's place among the results is its `Rank`, and a page is the homes of its ranks. A portal is a record that says where ids come from and how search pages are read (`Mode`): as listings, home by home (`ReadHome`), or one listing at most, from an API or from HTML (`Fallen`) |
| `*Proofs` | theorems about the module they are named after; `EdgeProofs` about `StripeBilling` and `WsHub`, `IngestionProofs` about `Normalizer` and `Spider` | eight modules, see section 5 |
| `MC*` | instances for TLC | constants, and assumptions that try the pure operators on given inputs |

An operator whose comment begins with "Mutated form" is a deliberate error, the
form of a definition that a plausible bug would give it. It is used by no
specification; replacing its original by it must violate a property, which shows
that the property depends on the code.

Abstractions. Payloads are dropped; an event is a name with what decides its way
(malformed, unknown channel, the listing). Each database statement, Redis command
(or MULTI), Kafka write and provider call is one step, and each may fail; a failed
write may have taken effect when the caller could not know (a lost answer). In the
Python services a step ends at an `await` that somebody else could notice. History
variables are read by properties only, except that the actions that must count
their faults read the counter. A module's `TypeOK`
is checked by a run where it says more than the types (the consumer's) and is proved
where a theorem states it.

## 3. Runs and what they show

| Run | Instance and bounds | Shows |
|---|---|---|
| `kafka_consumer` | 3 readers in 2 pods, 2 messages, 2 retries, 2 faults | commits never pass an unsettled message, no reader works past one (a zombie may still repeat an earlier message after a later one), `AtLeastOnce` is implemented, everything is settled in the end |
| `alert_dispatcher` | 1 pod of 2 workers, 4 events in 2 partitions (two routable, unroutable, malformed), 2 retries, 2 provider calls, 2 faults | at most one Send per event, records true and final, one stranded row per database error and one per worker for a crash, everything acknowledged |
| `ws_hub` | 2 connections of one user, limit 1, queue of 1, 1 alert or message | limit, nobody left after a graceful shutdown, pumps end together |
| `stripe_billing` | 2 pods with a downgrade worker each, 2 requests in one of them, 2 changes (up to 5 events), 1 fault | one processor per event, events lost only when their request was cut off, no downgrade without a cause or before its term, all events answered |
| `stripe_recovered` (violation) | no fault | a user who paid in time ends on the free tier |
| `alert_engine` | 1 user with an instant rule of two channels and a digest rule, 2 listings, 3 scored events, 1 price drop, digests of 1, 2 handler calls, 1 outage (which may also fail the retries), crash or deactivation | repeats have a cause, acknowledged alerts reached the user, digests are lost only by faults, everything drains |
| `normalizer` | 2 pods, 2 versions of a listing (accepted, refused until its currency is known, no object), batches of 1 or 50, 2 faults, one change of the rates | `AtLeastOnce` is implemented, only a stale pod puts an older version back, everything is settled unless a refused record strands its worker |
| `listing_pipeline` | 2 pods; deduplicator: 4 listings of one country in a chain of matches, 4 upserts without a fault, or 3 and 3 with one; enricher: 3 listings of three countries and 2 upserts with 2 faults, or 2 and 3 with one; scorer: 2 listings, 2 prices, 3 upserts and gRPC calls with 1 fault or call, or 1 listing with 2; change detector: 2 listings, 2 prices, 2 upserts, 1 tick of 2 hours, 1 event, 1 error or kill | matches share a canonical id, pending rows and lost years have a cause, the table's scores are the announced ones, cycles that nobody disturbed are exact, drops are lost by errors and kills only |
| `model_lifecycle` | 2 jobs, 2 countries (full, transferred), 2 tags, 1 pod, 2 faults, 3 starts | one active version, bundles are of one training unless tags collided, refusals need a swap, living loops converge |
| `ml_hot_reload` (violation) | no fault | a reload that raises ends the loop for good |
| `chat_session` | 1 user, 2 streams, 3 conversations, limits 1 and 2, window 2, 1 disturbance | the counters overrun their limits by one per further stream, torn sessions have a cause |
| `spider` | 9 of the 14 portal configurations and the test mode, 2 homes in 2 zones, pages of 1 (of 2 where pages are read in part), 2 commands, 2 pods, 1 fault | a zone swept to its empty page was published but for what the spider passed over, detected homes are published once for a zone |

Why the bounds are enough. In the consumer two messages give one in flight and one
behind it, three readers give a sibling in the pod and a rival in another pod, and
two faults give a zombie of an old generation that meets a second failure. Two
dispatcher workers are the old and the new owner of an event, and both have a row
pending when their pod dies; the second routable event is in the other partition, so
that both can be in hand at once. Two connections and a limit of one make the
capacity race; a queue of one is full after one frame. The events of two changes of
a subscription already arrive in every order, and two requests make every overlap.
In the engine the first listing is scored twice, with the drop anywhere between, and
a digest limit of one makes the second listing overflow. In the normalizer two
versions of one listing make the older write over the newer, and a batch size of one
is the only one that a single record fills. Four listings in a chain are two groups
that a third message merges. Two prices and two upserts give a drop that is seen; a
tick of two hours passes the fallback's interval of one, so that its cycle runs
beside the event's. Two upserts of one listing are the attempt that failed before
its publish and the one after it. The scorer needs two faults and a third upsert:
one pod loses the partition, its successor settles the message, and the first pod,
which read a newer price, ends between the table and the topic. Two jobs share a
tag, and two trainings with different columns make two widths. Two streams overlap
in one conversation or open two; a window of two drops the oldest message of the
second turn. Two homes on pages of one make a second page that moves up when the
first vanishes; on one page of two a spider drops one home and keeps the other.
`MCSpider` leaves out five portals whose steps are those of others in the run.

`MaxFaults`, `MaxMessages`, `MaxEvents`, `MaxChanges`, `MaxUpserts`, `MaxTime`,
`MaxCycles`, `MaxErrors`, `MaxCalls`, `MaxTags`, `MaxStarts`, `MaxDisturbances` and
`Scope` (what each worker of the pipeline meets: listings, prices, scrapes with
calls, faults with calls) are the only bounds of the models; in `AlertEngine`
deactivations and expired dedup sets count against `MaxFaults`, which keeps the run
small. `CHECK_DEADLOCK FALSE` is used because the bounded inputs run out and the
systems may then be at rest. Symmetry is used in runs without liveness, over pods,
streams and conversations alone.

### Where the code and its documents disagree

Two violation runs state what a document of the repository says, quoted with its
line in `PROJECT.json` under `findings`:

- `stripe_recovered`: the worker has read the due user; the payment's handler removes
  the user from the queue; the worker downgrades. The same end is reached when the
  failed event is processed after the succeeded one.
- `ml_hot_reload`: the poller reads a new version and one of its objects is missing;
  the exception ends `poll_loop`, whose task nobody awaits. The trainer uploads
  `.onnx` and the engineer only, while the scorer also asks for `_q05.onnx`,
  `_q95.onnx` and `.lgb`, so no fault is needed.

The models contain more behaviours of this kind. They have no run of their own; the
passing properties name them as the causes they excuse.

- Kafka, Go: a group without a committed offset starts at `LastOffset`; a rebalance
  before the first commit loses what was published before. `AtLeastOnce` starts at
  that offset (`specs/033-nats-to-kafka-migration/spec.md:86` promises otherwise).
- billing: a webhook key outlives its request when the process dies, when the `DEL` in
  the error path fails (its error is ignored, `Abandon`) or when `SetNX` took effect and
  answered an error (`SetNXLost`): Stripe's retry is then answered as a duplicate of an
  event that nobody processed (`cutOff`). A checkout whose `COMMIT` took effect without
  an answer fails for ever on the unique key (`Stuck`).
- normalizer: an attempt that stored its listing and failed to publish it is repeated
  with a fresh uuid; the row keeps the first one, which no message carries, so neither
  enricher nor scorer ever finds it (`Naming` is empty).
- alert-dispatcher: the retry of a failed delivery finds the history row and is
  committed as a duplicate, so nothing is dead-lettered, against the same
  document, line 37.
- ws-server: `Shutdown` queues the notice and cancels the context; `select` in
  `WritePump` may pick the context (`specs/019-ws-chat-realtime/spec.md:133`).
- alert-engine: two rules of a user ask the dedup set before either is marked
  (`specs/016-alert-engine/spec.md:116`); `RepeatNeedsCause` counts this as a cause.
  A digest's key is deleted before the digest is published (its `research.md:83`),
  and its TTL equals the ticker's period. On SIGTERM `Match` leaves its loop without
  an error and the event counts as processed (`Swallowing`, `cut`; `research.md:95`).
- normalizer: a payload that is JSON but no object, and every failed insert into
  `quarantine`, leave `_process_batch` by an exception. In the timer's task nobody
  resolves the future: the worker hangs, alive (`Stranded`). `raw_payload` is a dict
  and the pool registers no encoder for the jsonb column, so the insert may fail
  without any fault (`QuarantineError`).
- enricher: the upsert keeps the id of the row, the topic carries a fresh one. A
  rescraped listing is announced with columns that no row received
  (`YearLostToScrape`), and the scorer, which looks the row up by that id, finds
  none and does not score it again, whatever its new price (`FetchRow`). An Overpass
  call that fails is cached as "nothing near".
- deduplicator: the area tolerance is relative to one of the two listings, so
  a match may hold in one direction only (`Asymmetric`), and groups that were read
  before another pod merged them are written back (`stale`).
- change detector: prices are compared with the last row of `price_history`, which
  only this branch inserts; a listing without a first row never has one
  (`Seeded`). A failed publish, or a kill before it, loses a recorded drop. An
  exception in the fallback's cycle ends the fallback loop (`loopAlive`).
- trainer: two jobs may take one tag and overwrite each other's objects
  (`collided`). The unique index refuses the second insert, and it is this index,
  not the lock on the champion's row, that keeps one active version. A run whose
  MLflow call fails counts as failed although its version is registered, and perhaps
  promoted; the base country's booster is lost with it (`LoggingFails`).
- scorer: between a swap and the next refresh the index of comparables has the old
  engineer's width and listings are refused (`refused`). Two scorings of one row at
  a time may leave one score in the table and announce the other last (`crossed`).
- ai-chat: limits are checked before the answer and counted after it. A client that
  leaves once it has the tokens is never counted, nor is a conversation whose turn
  is cancelled between create and register. The hash of a session that expired
  within a turn is made again without an owner (`cut`).
- spiders: a home that vanishes moves the others up a page, and one of them is not
  read (`moved`). Where a search page gives links only, a home without listing data is
  dropped silently (`skipped`), a page of such homes ends the zone as if it were the
  last, and with idealista's HTML one home that is gone gives up the zone; Italy's
  idealista without a token publishes one listing of each page at most. A refused API
  (401, 403) is replaced by the HTML pages of the whole search in the middle of a sweep.
  On some portals the detail page gives another id than the search page, so
  `detect_new` finds the home again every time; a portal that ignores zones publishes a
  new home once for each zone of a command.

## 4. Fairness

Fairness is stated per goroutine or task that the code runs in a loop: readers go
on, handlers return (their calls have timeouts), the commit loop and the tickers
tick, Kubernetes restarts pods, Kafka assigns partitions and redelivers, Stripe
retries every event. In the Python processes a task goes on when the call it
awaits has returned, timers fire, and the scorer's two loops wake from their
sleep. It is weak except for Stripe's retries, which are strong because an event
may find both requests busy again and again. Nothing is assumed of producers,
users, clients, training jobs, timeouts or faults; faults are bounded, so liveness
says what happens once they stop. In `WsHub` a read of a closed socket fails, and
a send on an open one returns.

## 5. Proofs

TLAPS proves what follows for every value of the constants: any number of pods,
workers, requests, messages, retries and faults. The assumptions are the named
`ASSUME`s of the modules and nothing else; TLC evaluates them on every run. Each
proof has the same shape: an invariant that is inductive, a lemma for each part of
it with one step per action, and the properties as consequences. TLC checked each of
these invariants on the instance of section 3, but for the parts that quantify over
something unbounded (`Accounted` of the change detector).

| Module | Theorems |
|---|---|
| `KafkaConsumerProofs` | `TypeCorrect`, `CommittedIsSettled`, `HeadOfLine`, `AtLeastOnceDelivery` (a refinement) |
| `AlertDispatcherProofs` | `TypeCorrect`, `OneSendPerEvent`, `SentRowsAreTrue`, `NothingAckedUntraced`, `OutcomesFinal`, `StrandedHadFault` |
| `EdgeProofs`, `StripeBilling` | `TypeCorrect`, `OneProcessor`, `DowngradeCaused`, `LostWereCutOff` |
| `EdgeProofs`, `WsHub` | `HubTypeCorrect`, `LimitHolds`, `ShutdownLeavesNobody` |
| `AlertEngineProofs` | `TypeCorrect`, `RepeatsPaid`, `AckedReached`, `DigestsHold` |
| `IngestionProofs`, `Normalizer` | `TypeCorrect`, `Implementation` (a refinement), `RefusedAreStranded`, `RegressIsStale` |
| `IngestionProofs`, `Spider` | `SweepsMissNothing`, `DetectionsPublishOnce` |
| `ListingPipelineProofs` | `PipelineInvariant`, `DedupGroups`, `EnrichmentComes`, `YearStays`, `ScoresAgree`, `MarksExact`, `DropsAccounted` |
| `ModelLifecycleProofs` | `OneActive`, `ServedWhole`, `RefusalCaused` |
| `ChatSessionProofs` | `Overrun`, `Torn` |

`PROJECT.json` names the property that each theorem states. `OutcomesFinal`,
`DowngradeCaused` and `RegressIsStale` are action properties.

### The invariants, and why they are needed

**KafkaConsumer.** `CommittedSettled` is not inductive: a commit takes the reader's
current message, so one must know that everything before that message is settled, also
for a zombie whose partition is somebody else's by now. `IInv` adds `Basics` (every
offset lies within the log), `EarlierSettled` (whatever a reader holds has everything
before it settled), `CommitSettled` (who is about to commit has settled its message)
and `OwnerSkipsNothing` (what the owner's fetcher handed out is settled or in its
hands). Settled messages stay settled because `base` only moves while the group has no
offset (`SettledStays`).

**Normalizer.** The same argument over the Python runtime, with `PositionKnown` and a
handler that is spread over the loop, the timer's task and `close`. For
`RefusedAreStranded`, `HandsOK` says where the one record of a pod is: queued for the
timer, or in the batch of the task, the handler or `close`, and never in two places;
without it a task might wake a worker for somebody else's record. For `RegressIsStale`,
`Versions` bounds what anybody can have written: every record that was fetched, and so
every row, is at most one past the group's offset and past its owner's position, and a
record that was fetched in the current generation is the owner's last. A pod that puts
back an older record therefore belongs to an earlier generation.

**Spider.** A sweep reads the pages of a zone one after the other while the portal
moves. `Covered` says what that cannot break: a home that was there all along has
been published, or is on the page being published, or was passed over by a spider
that reads a page in part (`Passed`), or has a rank that is still to come
(`ToCome`). It rests on the order of the results: ranks only grow when an
advertisement appears (`RankGrows`), and none is left out (`RanksContiguous`), so
that an empty page is the end (`EmptyPageIsEnd`). Nothing of the kind holds once a
home vanished or the API was refused (`moved`), which is why the property excuses
that. For `DetectionsPublishOnce`, `SeenTold` says that what is marked, or about to
be, was published, and `Once` that, as long as nothing failed, a home that was
published has its id in the set or in the hands of the pod that will mark it, and is
not among what anybody still has to publish. It needs `OneOwner`: before the first
fault only the owner of the partition has a command. `Once` is claimed only where
the ids of the search page and of the detail page agree, as the property is.

**AlertDispatcher.** The history row is a lock (`RowIsLock`): whoever is in `Send`,
or about to write its outcome, inserted the row, which is pending until then, and
nobody else is there with the same event. With it the provider's calls can be
counted (`CallsCounted`), and a success in a worker's hands is one the provider gave
(`OkIsTrue`). `StrandedHadFault` counts pending rows without a worker: a database
error strands the row in one worker's hands, and a crash those in the hands of a
pod, which are at most `WorkerPool` (`SomeMore`, `StrandedStep`).

**StripeBilling.** The dedupe key is held by one request (`KeyHeld`, `OneHolder`) and
outlives an applied event (`KeysStay`). An answered event was applied, was answered
early, or left its key behind with nobody at work on it (`Answered`); `Orphans` says
that every such key was cut off, and by which of the four ways. `QueueHasCause` says
that a member of the queue comes from a failure that was applied, and `DueWhenRead`
that a worker about to downgrade read a member whose term was over, unless the queue
was changed since.

**WsHub.** `LimitHolds` needs no more than the lock under which `Register` counts.
`ShutdownLeavesNobody` needs `SnapshotComplete` (once the flag is up nobody is added, so
the snapshot misses nobody), `GoneLeftHub` and `PumpsFollowHandler` (who has
unregistered never registers again) and `ClosedOrGone`.

**AlertEngine.** `EngineInv` has three arguments beside the types.
- `RepeatNeedsCause` is a budget (`BudgetOK`): a rule, channel and listing have one
  claim each while the notification is still awaited from the matcher, while the pair
  is in the buffer, and while it is in a digest that has the channel to come. What is
  told and what is claimed never exceed one plus the clears plus the faults: every
  step that tells spends a claim, routing turns the first into the second, a flush the
  second into the third, and only a clear or a fault makes a new one.
- `AckedUsersTold`: a dedup mark, or a mark about to be set, means that its user was
  reached (`ReachedOK`), and a rule that wants the listing in hand is still to be
  evaluated or routed, or its user was reached (`ProgressOK`). A failed attempt
  therefore leaves no mark that would swallow the retry.
- `DigestLossNeedsFault`: the digest that is being recorded is out (`HeldOK`).

A rule's channels are entries of its list, so two entries never coincide
(`RulesAssumption`): a rule that has the same address twice is told twice by the code.

**ListingPipeline.** `PipelineInv` has one conjunct for each worker over two that
they share: `RowsOK` (a row keeps the uuid of an upsert of its listing, so no two
rows share one, and every message carries the uuid of an upsert) and `BrokerOK`.
About the consume loop one fact is proved once, for any set of settled messages
(`SettledBehind`, `SettledBehindStep`): everything behind the group's offset is
settled, and everything that the owner was given but the record in its hands. A pod
that is not the owner may settle messages and never unsettles one, so each worker
only has to say what its handler settles.
- Deduplicator: a message is settled when its row is in one group with every earlier
  match (`Deduplicated`). Every group has a row whose id is the group's (`Roots`), and
  whoever is in a group with others matches one of them (`Neighbours`), and no group
  reaches beyond a country (`OneCountry`), to which the UPDATE is confined; therefore the
  candidates of a message hold some row of every group it touches, and `Regrouped`
  moves these groups as wholes to the group of the earliest candidate. Both fail once
  a resolution wrote with groups that were read too early (`stale`) or a match holds
  in one direction only (`Asymmetric`): the property excludes these, and the code does not.
- Enricher: whoever is about to publish has updated the row (`WorkOK`), and what it
  announces is the row's year or the row was scraped again (`AnnouncedYears`).
- Scorer: the price in the table is the announced one, or some task is between its
  write and its publish with that very price, or two of them crossed, or one ended
  there (`Agree`, `TasksOK`); who holds a record has its task (`HandsOK`), and a row that
  no message names is written by calls alone (`UnnamedAgree`).
- Change detector: `CycleExact` follows the marks through the three reads and two
  writes of a cycle that nobody touched. `Accounted` names the recorded drops that are
  lost for good: they are no more than the errors and twice the kills, since each of the two
  tasks has one drop in its hands at most, and every other drop that was not announced
  is one of these.

**ModelLifecycle.** `OneActive` follows from `RegistryInv`: the tags of a country
are numbered without a gap, nobody works on a tag beyond the next one, and what a
job has read of the champion is out of date only when its own tag is taken, so that
its insert is refused. The proof uses the unique index on the tag. `HoldersInv`
follows the tag from the job that took it through its uploads to the row, unless two
jobs collided; `ScorerInv` follows the objects from the bucket through the poller's
hands into the bundle and the index.

**ChatSession.** `CountsOK` bounds registered and pending conversations together by
the limit plus one for each further stream; `TurnsOK` does the same with the turns that
are still to be counted; `SingleOK` says that two turns at a time are noticed. For
`Torn`, a turn that writes has its session unless an expiry cut it (`BackedOK`), a
session that was not cut has an owner (`OwnedOK`), and a window that was not disturbed
alternates up to a question whose answer is to come (`ListOK`).

### What the proofs said about the models and the code

- The alternation of the chat window needs an even window: `LTRIM` then drops a question
  with its answer. `MESSAGE_WINDOW_SIZE` is 40, and nothing in the code says why it
  could not be 41; `WindowAssumption` states it.
- `OneActiveVersion` needs the unique index alone. The `FOR UPDATE` on the champion's
  row (`trainer/registry.py:43`) makes the second job wait, and is not what keeps it out.
- A training whose plan names no country ends at once, and a `CASE` whose guards
  overlap has no order in TLA+: `Trainer`, `Normalizer`, `Enrichment`,
  `ListingMapping` and `PriceModel` say so now.
- The score in the table could differ from the announced one in a way the model did not
  excuse and one fault cannot reach: a pod that has lost the partition writes a newer
  price after its successor settled the message, and ends before it publishes. The proof
  of `ScoresAgree` stopped there; `Overtaken` and `LeftBy` in `Scoring` say so now, and
  the run has the two faults it takes.
- `SettledBehind` is a property of `kafka_broker.py` alone. The proofs of the three
  workers use nothing else of the loop.
- Neither property of `Spider` depends on the order in which the homes of one page are
  taken, only on what comes before a page: `todo` is a set now. A command names a zone at
  least (`CommandAssumption`, from `zone_filter or ["default"]`, `consumer.py:106`).
- Prices are positive (`PricesAssumption`, from `_validate_positive_decimals` of
  `models/listing.py`): the first row of a history, which has no old price, is no drop.
- `Nothing`, `None` and `Nobody` must differ from the values they stand beside. TLC's
  model values hide this; the modules now assume it by name.

### Model-checked only

- Liveness (`EventuallySettled`, `EventuallyDrained` and their like): fairness and
  `ENABLED` are out of the prover's reach.
- The pure operators of `ListingMapping`, `Enrichment` and `PriceModel`, which TLC
  evaluates on given inputs.
- Everything that the violation runs refute.

## 6. Not modelled, and why

Component by component in `PROJECT.json`. In short: parsing, rendering, numerical
code and single-row reads and writes have no order to get wrong.

- alert-engine: `FetchListingSummaries` finds every listing; filters and zones are a
  fixed relation; rules are only deactivated, never edited. One pod of alert-engine
  (the chart's default) and of ws-server.
- billing: the 7-day TTL of the webhook keys is longer than what a run covers; one
  subscription, so two checkouts of one user do not meet.
- alert-dispatcher: Telegram account linking and the clearing of push tokens.
- pipeline: amounts are small integers; distances and addresses are relations that
  the instance gives; the enricher's rate limits and caches are not state, except
  that an answer may be a refusal. Texts of descriptions are the number of the scrape that
  brought them.
- ml: a training is one of the given outcomes (the rows it was fitted on and its
  error). The uploads, tags and transactions around it are modelled in full.
- ai-chat: the finalisation that creates an alert rule needs a gateway client that
  nothing injects; prompts and the formats of the providers are left out.
- spiders: a page gives the identifiers of its homes, or no listing data, and
  nothing else; a page past the end is empty; zones that end before their empty page
  are explored, and no property speaks of them; proxies and the retries of one
  request are inside one step.
- the gateway's guards and queries, the orchestrator and the proxy manager: next,
  see the plan. Frontend, Helm charts, migrations and generated code: configuration
  and rendering.

## 7. Plan

1. Done: the Go side (`KafkaConsumer` with proofs, `AlertDispatcher`, `WsHub`,
   `StripeBilling`, `AlertEngine`); the Python side (`PyConsumer`, `Normalizer`,
   `ListingPipeline`, `ModelLifecycle`, `ChatSession`, `Spider`).
2. Done: every safety property that a run checks, and the two refinements, for all
   constants (section 5).
3. `GatewayGuards` (refresh tokens, rate limits, circuit breaker, rule limit) and
   `Scraping` (tickers, jobs, proxy health), checked together by one run.
4. Extensions: push tokens in `AlertDispatcher`, two pods in `WsHub`, a composition
   of `AlertEngine` and `AlertDispatcher` over one topic.
