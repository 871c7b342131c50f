---------------------------- MODULE StripeBilling ----------------------------
(***************************************************************************)
(* api-gateway: the Stripe webhook (handler/subscriptions.go), the tables   *)
(* it writes (repository/subscriptions.go, users.go) and the worker that    *)
(* downgrades users whose grace period is over (worker/stripe_downgrade.go). *)
(*                                                                         *)
(* One user with one subscription.  Stripe sends every event until it gets  *)
(* a 2xx answer, in any order.  Redis holds the keys of the events that     *)
(* were begun and the queue of pending downgrades; Postgres has a primary   *)
(* and a replica that may lag behind.  Each pod of the gateway serves       *)
(* requests and runs one downgrade worker.                                  *)
(***************************************************************************)
EXTENDS Integers, FiniteSets

CONSTANTS
  Pods,        \* processes of the gateway
  Handlers,    \* concurrent requests to the webhook
  PodOf,       \* the pod that serves a request
  MaxChanges,  \* bound of the model: changes of the subscription at Stripe
  MaxFaults    \* bound of the model: errors of Postgres or Redis, and crashes

ASSUME PodsAssumption   == PodOf \in [Handlers -> Pods]
ASSUME BoundsAssumption == MaxChanges \in Nat /\ MaxFaults \in Nat

NoEvent == [id |-> 0, type |-> "none", status |-> "none"]

VARIABLES
  stripe,    \* status of the subscription at Stripe
  emitted,   \* the events Stripe generated
  unacked,   \* those it has no 2xx answer for
  seen,      \* ids with a stripe:event: key
  pending,   \* the user in stripe:pending_downgrades: "absent", "grace" or "due"
  status,    \* status of the subscriptions row on the primary, or "none"
  flag,      \* payment_failed_at is set
  replica,   \* the row has reached the replica
  tier,      \* the user's subscription tier
  pc, event, \* each handler, and the event it works on
  worker,    \* the downgrade worker of each pod
  overtaken, \* history: the queue was changed since the worker read it
  applied,   \* history: events processed to the end
  early,     \* history: events answered as duplicates while they were processed
  cutOff,    \* history: events whose key was left with nobody at work on them
  faults

vars == <<stripe, emitted, unacked, seen, pending, status, flag, replica, tier,
          pc, event, worker, overtaken, applied, early, cutOff, faults>>
source   == <<stripe, emitted>>
row      == <<status, flag>>
database == <<status, flag, replica, tier>>
pendings == <<pending, overtaken>>
misc     == <<early, cutOff, faults>>

Types    == {"checkout", "updated", "deleted", "failed", "succeeded"}
Statuses == {"active", "past_due", "cancelled"}
Ids      == 1..(1 + 2 * MaxChanges)

TypeOK ==
  /\ stripe \in Statuses \cup {"none"}
  /\ emitted \subseteq [id : Ids, type : Types, status : Statuses]
  /\ unacked \subseteq emitted
  /\ seen \subseteq Ids /\ applied \subseteq Ids /\ early \subseteq Ids /\ cutOff \subseteq Ids
  /\ pending \in {"absent", "grace", "due"}
  /\ status \in Statuses \cup {"none"}
  /\ flag \in BOOLEAN /\ replica \in BOOLEAN
  /\ tier \in {"free", "paid"}
  /\ pc \in [Handlers -> {"idle", "store", "queue", "error", "answer"}]
  /\ event \in [Handlers -> emitted \cup {NoEvent}]
  /\ worker \in [Pods -> {"idle", "downgrade", "remove"}]
  /\ overtaken \in [Pods -> BOOLEAN]
  /\ faults \in 0..MaxFaults

Init ==
  /\ stripe = "none" /\ emitted = {} /\ unacked = {}
  /\ seen = {} /\ pending = "absent" /\ applied = {} /\ early = {} /\ cutOff = {}
  /\ status = "none" /\ flag = FALSE /\ replica = FALSE /\ tier = "free"
  /\ pc = [h \in Handlers |-> "idle"]
  /\ event = [h \in Handlers |-> NoEvent]
  /\ worker = [p \in Pods |-> "idle"]
  /\ overtaken = [p \in Pods |-> FALSE]
  /\ faults = 0

Fault == faults < MaxFaults /\ faults' = faults + 1 /\ UNCHANGED early
Goto(h, stage) == pc' = [pc EXCEPT ![h] = stage]
Leave(h) == Goto(h, "idle") /\ event' = [event EXCEPT ![h] = NoEvent]

\* The user's member of the queue is written or removed.
SetPending(to) ==
  /\ pending' = to
  /\ overtaken' = [p \in Pods |-> overtaken[p] \/ (worker[p] = "downgrade" /\ pending # to)]

-----------------------------------------------------------------------------
(* Stripe                                                                   *)

\* The subscription changes and Stripe generates the events for it.
Change(to, types) ==
  LET n    == Cardinality(emitted)
      news == {[id |-> n + i, type |-> types[i], status |-> to] : i \in DOMAIN types}
  IN  /\ stripe' = to
      /\ emitted' = emitted \cup news
      /\ unacked' = unacked \cup news
      /\ UNCHANGED <<seen, pendings, database, pc, event, worker, applied, misc>>

Subscribe == stripe = "none" /\ Change("active", <<"checkout">>)

MayChange == Cardinality(emitted) + 2 <= 1 + 2 * MaxChanges

PaymentFails   == MayChange /\ stripe = "active" /\ Change("past_due", <<"failed", "updated">>)
PaymentArrives == MayChange /\ stripe = "past_due" /\ Change("active", <<"succeeded", "updated">>)
EndsAtStripe   == MayChange /\ stripe \in {"active", "past_due"} /\ Change("cancelled", <<"deleted">>)

-----------------------------------------------------------------------------
(* StripeWebhook                                                            *)

InProgress(e) == \E h \in Handlers : pc[h] # "idle" /\ event[h] = e

Begin(h, e) ==
  /\ seen' = seen \cup {e.id}
  /\ event' = [event EXCEPT ![h] = e]
  /\ Goto(h, "store")
  /\ UNCHANGED <<unacked, early>>

\* Stripe makes a second attempt while the first one still runs only when it gave
\* up waiting for the answer, which the model counts as a fault.
Attempt(h, e) ==
  /\ pc[h] = "idle"
  /\ e \in unacked
  /\ IF InProgress(e) THEN faults < MaxFaults /\ faults' = faults + 1 ELSE UNCHANGED faults
  /\ UNCHANGED <<source, pendings, database, worker, applied, cutOff>>

\* Mutated form: GET, then SET once the event was processed.
WebhookGetSet(h, e) ==
  /\ Attempt(h, e)
  /\ IF e.id \in applied
     THEN unacked' = unacked \ {e} /\ UNCHANGED <<seen, pc, event, early>>
     ELSE Begin(h, e)

\* The request arrives; SetNX tells whether the event was begun before.
Webhook(h, e) ==
  /\ Attempt(h, e)
  /\ IF e.id \in seen
     THEN /\ unacked' = unacked \ {e}
          /\ early' = IF InProgress(e) THEN early \cup {e.id} ELSE early
          /\ UNCHANGED <<seen, pc, event>>
     ELSE Begin(h, e)

\* SetNX took effect but its answer was lost: the request ends with a 503, or with a
\* 200 when the client's own retry of the command finds the key it set.
SetNXLost(h, e) ==
  /\ pc[h] = "idle"
  /\ e \in unacked /\ e.id \notin seen
  /\ Fault
  /\ seen' = seen \cup {e.id}
  /\ cutOff' = cutOff \cup {e.id}
  /\ unacked' \in {unacked, unacked \ {e}}
  /\ UNCHANGED <<source, pendings, database, pc, event, worker, applied>>

\* processStripeEvent failed: the key is deleted and the answer is a 500.
WebhookError(h) ==
  /\ pc[h] = "error"
  /\ seen' = seen \ {event[h].id}
  /\ Leave(h)
  /\ UNCHANGED <<source, unacked, pendings, database, worker, applied, misc>>

\* The DEL fails, which is only logged; or Stripe hangs up, and the request's context
\* ends the write in hand and the DEL with it.
Abandon(h) ==
  /\ pc[h] # "idle"
  /\ Fault
  /\ cutOff' = cutOff \cup ({event[h].id} \ applied)
  /\ Leave(h)
  /\ UNCHANGED <<source, unacked, seen, pendings, database, worker, applied>>

WebhookOk(h) ==
  /\ pc[h] = "answer"
  /\ unacked' = unacked \ {event[h]}
  /\ Leave(h)
  /\ UNCHANGED <<source, seen, pendings, database, worker, applied, misc>>

\* A pod of the gateway dies, with every request it serves and its worker.
Crash(p) ==
  LET mine == {h \in Handlers : PodOf[h] = p}
  IN  /\ worker[p] # "idle" \/ \E h \in mine : pc[h] # "idle"
      /\ Fault
      /\ cutOff' = cutOff \cup ({event[h].id : h \in {g \in mine : pc[g] # "idle"}} \ applied)
      /\ pc' = [h \in Handlers |-> IF h \in mine THEN "idle" ELSE pc[h]]
      /\ event' = [h \in Handlers |-> IF h \in mine THEN NoEvent ELSE event[h]]
      /\ worker' = [worker EXCEPT ![p] = "idle"]
      /\ overtaken' = [overtaken EXCEPT ![p] = FALSE]
      /\ UNCHANGED <<source, unacked, seen, pending, database, applied>>

-----------------------------------------------------------------------------
(* processStripeEvent                                                       *)

Processing(h, type) == pc[h] = "store" /\ event[h].type = type
Finish(h) == applied' = applied \cup {event[h].id} /\ Goto(h, "answer")
StoreUnchanged == UNCHANGED <<source, unacked, seen, event, worker, misc>>

\* handleCheckoutSessionCompleted: Stripe is asked for the subscription; a second
\* INSERT of it violates its unique key.
CheckoutTx(h) ==
  /\ Processing(h, "checkout")
  /\ status = "none"
  /\ status' = stripe
  /\ tier' = "paid"
  /\ UNCHANGED flag

\* The other handlers look the row up on the replica.

\* handleCustomerSubscriptionUpdated: the status of the event's snapshot, and the
\* paid tier whatever that status is.
UpdatedTx(h) ==
  /\ Processing(h, "updated")
  /\ replica
  /\ status' = event[h].status
  /\ flag' = (flag /\ event[h].status = "past_due")
  /\ tier' = "paid"

\* handleCustomerSubscriptionDeleted
DeletedTx(h) ==
  /\ Processing(h, "deleted")
  /\ replica
  /\ status' = "cancelled"
  /\ flag' = FALSE
  /\ tier' = "free"

\* handleInvoicePaymentFailed
FailedUpdate(h) ==
  /\ Processing(h, "failed")
  /\ replica
  /\ status' = "past_due"
  /\ flag' = TRUE
  /\ UNCHANGED tier

\* handleInvoicePaymentSucceeded: the status and the tier stay as they are.
SucceededUpdate(h) ==
  /\ Processing(h, "succeeded")
  /\ replica
  /\ flag' = FALSE
  /\ UNCHANGED <<status, tier>>

Tables(h) == CheckoutTx(h) \/ UpdatedTx(h) \/ DeletedTx(h) \/ FailedUpdate(h) \/ SucceededUpdate(h)

\* The queue is left alone by a checkout and by an update to past_due.
Store(h) ==
  /\ Tables(h)
  /\ IF event[h].type = "checkout" \/ (event[h].type = "updated" /\ event[h].status = "past_due")
     THEN Finish(h)
     ELSE Goto(h, "queue") /\ UNCHANGED applied
  /\ UNCHANGED <<pendings, replica>>
  /\ StoreUnchanged

\* Mutated form: a missing row is taken for a subscription of somebody else's.
NotFoundIgnored(h) ==
  /\ pc[h] = "store"
  /\ event[h].type # "checkout" /\ ~replica
  /\ Goto(h, "answer")
  /\ UNCHANGED <<database, pendings, applied>>
  /\ StoreUnchanged

\* The row is not on the replica yet.
NotFound(h) ==
  /\ pc[h] = "store"
  /\ event[h].type # "checkout" /\ ~replica
  /\ Goto(h, "error")
  /\ UNCHANGED <<database, pendings, applied>>
  /\ StoreUnchanged

\* The row exists already.
CheckoutTwice(h) ==
  /\ Processing(h, "checkout")
  /\ status # "none"
  /\ Goto(h, "error")
  /\ UNCHANGED <<database, pendings, applied>>
  /\ StoreUnchanged

\* Mutated form: a ZREM that removes nothing is an error.
QueueStrict(h) ==
  /\ pc[h] = "queue"
  /\ IF event[h].type # "failed" /\ pending = "absent"
     THEN Goto(h, "error") /\ UNCHANGED <<pendings, applied>>
     ELSE SetPending(IF event[h].type = "failed" THEN "grace" ELSE "absent") /\ Finish(h)
  /\ UNCHANGED database
  /\ StoreUnchanged

QueueWrite(h) ==
  /\ pc[h] = "queue"
  /\ SetPending(IF event[h].type = "failed" THEN "grace" ELSE "absent")

\* The second write of the handlers: ZADD for 72 hours from now, or ZREM.
Queue(h) ==
  /\ QueueWrite(h)
  /\ Finish(h)
  /\ UNCHANGED database
  /\ StoreUnchanged

\* Postgres or Redis returns an error: a transaction is rolled back, or the write took
\* effect and its answer was lost.
StoreError(h) ==
  /\ pc[h] \in {"store", "queue"}
  /\ Fault
  /\ Goto(h, "error")
  /\ \/ UNCHANGED <<database, pendings>>
     \/ Tables(h) /\ UNCHANGED <<pendings, replica>>
     \/ QueueWrite(h) /\ UNCHANGED database
  /\ UNCHANGED <<source, unacked, seen, event, worker, applied, cutOff>>

-----------------------------------------------------------------------------
(* Time, replication and StartDowngradeWorker                               *)

HandlersUnchanged == UNCHANGED <<source, unacked, seen, pc, event, applied>>

Replicate ==
  /\ ~replica
  /\ status # "none"
  /\ replica' = TRUE
  /\ UNCHANGED <<row, tier, pendings, worker, misc>>
  /\ HandlersUnchanged

\* 72 hours pass.
Elapse ==
  /\ pending = "grace"
  /\ pending' = "due"
  /\ UNCHANGED <<database, overtaken, worker, misc>>
  /\ HandlersUnchanged

Work(p, stage) ==
  /\ worker' = [worker EXCEPT ![p] = stage]
  /\ HandlersUnchanged

\* Mutated form: the worker takes every member of the queue, due or not.
WorkerReadAll(p) ==
  /\ worker[p] = "idle"
  /\ pending # "absent"
  /\ Work(p, "downgrade")
  /\ UNCHANGED <<database, pendings, misc>>

\* The worker reads the due members of the queue.
WorkerRead(p) ==
  /\ worker[p] = "idle"
  /\ pending = "due"
  /\ Work(p, "downgrade")
  /\ UNCHANGED <<database, pendings, misc>>

WorkerDowngrade(p) ==
  /\ worker[p] = "downgrade"
  /\ tier' = "free"
  /\ Work(p, "remove")
  /\ overtaken' = [overtaken EXCEPT ![p] = FALSE]
  /\ UNCHANGED <<row, replica, pending, misc>>

WorkerRemove(p) ==
  /\ worker[p] = "remove"
  /\ SetPending("absent")
  /\ Work(p, "idle")
  /\ UNCHANGED <<database, misc>>

\* A failed write: the member stays in the queue for the next tick.
WorkerError(p) ==
  /\ worker[p] # "idle"
  /\ Fault
  /\ Work(p, "idle")
  /\ overtaken' = [overtaken EXCEPT ![p] = FALSE]
  /\ UNCHANGED <<database, pending, cutOff>>

-----------------------------------------------------------------------------
Process(h) ==
  \/ Store(h) \/ NotFound(h) \/ CheckoutTwice(h) \/ Queue(h)
  \/ WebhookOk(h) \/ WebhookError(h)

Worker(p) == WorkerRead(p) \/ WorkerDowngrade(p) \/ WorkerRemove(p)

Next ==
  \/ Subscribe \/ PaymentFails \/ PaymentArrives \/ EndsAtStripe
  \/ \E h \in Handlers :
       \/ Process(h) \/ StoreError(h) \/ Abandon(h)
       \/ \E e \in unacked : Webhook(h, e) \/ SetNXLost(h, e)
  \/ Replicate \/ Elapse
  \/ \E p \in Pods : Worker(p) \/ WorkerError(p) \/ Crash(p)

Spec == Init /\ [][Next]_vars

\* Stripe keeps retrying each event, requests run to their end, the replica
\* catches up, time passes and the workers' tickers tick.  An event of which no
\* handler is free is retried later: strong fairness.
Fairness ==
  /\ \A i \in Ids :
       SF_vars(\E h \in Handlers, e \in unacked : e.id = i /\ Webhook(h, e))
  /\ \A h \in Handlers : WF_vars(Process(h))
  /\ WF_vars(Replicate) /\ WF_vars(Elapse) /\ \A p \in Pods : WF_vars(Worker(p))

FairSpec == Spec /\ Fairness

-----------------------------------------------------------------------------
(* Properties                                                               *)

\* The dedupe key is a lock: no two requests ever process one event at the same
\* time, also when Stripe's attempts overlap and some of them fail.
OneProcessorPerEvent ==
  \A g, h \in Handlers :
    pc[g] # "idle" /\ pc[h] # "idle" /\ event[g] = event[h] => g = h

\* An event that Stripe has an answer for was processed to the end, with two
\* exceptions: its key was left with nobody at work on it (the pod died, Stripe hung
\* up, the DEL failed, or SetNX took effect and answered an error), or a second attempt
\* was answered as a duplicate while the first one went on and failed.  However many
\* attempts overlap, errors of Postgres, of the queue or of the lagging replica lose
\* nothing.
Lost == {e \in emitted \ unacked : e.id \notin applied \cup early /\ ~InProgress(e)}
LostWasCutOff == \A e \in Lost : e.id \in cutOff

\* A paying user loses the tier only while the end of the subscription is processed,
\* or by a worker after a failed payment, and then the grace period is over; unless
\* the queue was changed since a worker read it.  That last case is the race of a
\* payment with the worker, which RecoveredKeepsTier is about.
DowngradeHasCause ==
  [][tier = "paid" /\ tier' = "free" =>
       \/ \E e \in emitted : e.type = "deleted" /\ InProgress(e)
       \/ /\ \E e \in emitted : e.type = "failed"
          /\ pending = "due" \/ \E p \in Pods : overtaken[p]]_vars

\* A checkout whose COMMIT took effect without an answer: every retry meets the row.
Stuck == {e \in emitted : e.type = "checkout" /\ status # "none" /\ e.id \notin applied}

\* Stripe's finitely many events are all answered with a 2xx in the end, those that
\* overtook the checkout or the replication of its row included, but for a stuck
\* checkout.  Losing an event may break this: without the checkout every later event
\* fails for ever.
EventuallyAnswered == <>[](unacked \subseteq Stuck \/ cutOff # {} \/ early # {})

Quiet ==
  /\ unacked = {} /\ pending = "absent"
  /\ \A p \in Pods : worker[p] = "idle"
  /\ \A h \in Handlers : pc[h] = "idle"

\* What the specification promises of a payment that is recovered: the pending
\* downgrade is cancelled and the user retains the tier.
RecoveredKeepsTier == stripe = "active" /\ Quiet => tier = "paid"

=============================================================================
