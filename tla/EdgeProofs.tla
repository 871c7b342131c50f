------------------------------ MODULE EdgeProofs ------------------------------
(***************************************************************************)
(* Proofs about the two services that face the clients.                    *)
(*                                                                         *)
(* StripeBilling, for any number of pods, concurrent requests, changes of  *)
(* the subscription, errors and crashes: an event has one processor at a   *)
(* time, an event that is lost was cut off, and a paying user is           *)
(* downgraded only for a reason Stripe gave, once the grace is over.       *)
(*                                                                         *)
(* WsHub (Hub below), for any number of connections, users, queue sizes    *)
(* and messages: the pod's connection limit holds, and no connection       *)
(* outlives a graceful shutdown.                                           *)
(***************************************************************************)
EXTENDS StripeBilling, WsHubState, Sequences, FiniteSetTheorems, TLAPS

Hub == INSTANCE WsHub

\* Stripe numbers its events.
Numbered ==
  /\ IsFiniteSet(emitted)
  /\ stripe = "none" => emitted = {}
  /\ \A e \in emitted : e.id <= Cardinality(emitted)
  /\ \A e, f \in emitted : e.id = f.id => e = f

\* Who is busy has an event.
Holding == \A h \in Handlers : pc[h] # "idle" => event[h] \in emitted

Basics == TypeOK /\ Numbered /\ Holding

-----------------------------------------------------------------------------
(* Stripe billing: types, and the numbers of the events                     *)

\* One more event, with the next number.
LEMMA NextNumber ==
  ASSUME NEW S, IsFiniteSet(S), \A e \in S : e.id \in Nat /\ e.id <= Cardinality(S),
         \A e, f \in S : e.id = f.id => e = f,
         NEW new, new.id = Cardinality(S) + 1
  PROVE  /\ Cardinality(S) \in Nat
         /\ IsFiniteSet(S \cup {new})
         /\ Cardinality(S \cup {new}) = Cardinality(S) + 1
         /\ \A e \in S \cup {new} : e.id \in Nat /\ e.id <= Cardinality(S \cup {new})
         /\ \A e, f \in S \cup {new} : e.id = f.id => e = f
<1>1. Cardinality(S) \in Nat
  BY FS_CardinalityType
<1>2. new \notin S
  BY <1>1
<1>3. IsFiniteSet(S \cup {new}) /\ Cardinality(S \cup {new}) = Cardinality(S) + 1
  BY <1>2, FS_AddElement
<1>4. \A e \in S : e.id # new.id
  BY <1>1
<1> QED
  BY <1>1, <1>3, <1>4

\* New events get numbers that are still free.
NewEvents ==
  /\ emitted \subseteq emitted' /\ Cardinality(emitted) <= Cardinality(emitted')
  /\ \E news : /\ emitted' = emitted \cup news /\ unacked' = unacked \cup news
               /\ \A e \in news : e.id > Cardinality(emitted)

LEMMA ChangeNumbers ==
  ASSUME Basics, Subscribe \/ PaymentFails \/ PaymentArrives \/ EndsAtStripe
  PROVE  Basics' /\ NewEvents
<1> DEFINE n == Cardinality(emitted)
           All == [id : Ids, type : Types, status : Statuses]
<1>1. n \in Nat /\ IsFiniteSet(emitted) /\ \A e \in emitted : e.id \in Nat
  BY FS_CardinalityType DEF Basics, TypeOK, Numbered, Ids
<1>2. stripe = "none" => n = 0
  BY FS_EmptySet DEF Basics, Numbered
<1>3. UNCHANGED <<seen, pendings, database, pc, event, worker, applied, misc>>
  BY DEF Subscribe, PaymentFails, PaymentArrives, EndsAtStripe, Change
<1>4. stripe' \in Statuses
  BY DEF Subscribe, PaymentFails, PaymentArrives, EndsAtStripe, Change, Statuses
<1>5. ASSUME NEW news \in SUBSET All,
             emitted' = emitted \cup news, unacked' = unacked \cup news,
             IsFiniteSet(emitted'), n <= Cardinality(emitted'),
             \A e \in news : e.id > n,
             \A e \in emitted' : e.id <= Cardinality(emitted'),
             \A e, f \in emitted' : e.id = f.id => e = f
      PROVE  Basics' /\ NewEvents
  <2>1. TypeOK'
    BY <1>3, <1>4, <1>5 DEF Basics, TypeOK, database, pendings, misc
  <2>2. Numbered'
    BY <1>4, <1>5 DEF Numbered, Statuses
  <2>3. Holding'
    BY <1>3, <1>5 DEF Basics, Holding, misc
  <2> QED
    BY <2>1, <2>2, <2>3, <1>5 DEF Basics, NewEvents
<1>6. ASSUME NEW type \in Types, NEW to \in Statuses, n + 1 \in Ids, Change(to, <<type>>)
      PROVE  Basics' /\ NewEvents
  <2> DEFINE a == [id |-> n + 1, type |-> type, status |-> to]
  <2>1. {[id |-> n + i, type |-> <<type>>[i], status |-> to] : i \in DOMAIN <<type>>} = {a}
    OBVIOUS
  <2>2. emitted' = emitted \cup {a} /\ unacked' = unacked \cup {a}
    BY <1>6, <2>1 DEF Change
  <2>3. a.id = n + 1 /\ a \in All
    BY <1>6
  <2> HIDE DEF a, All
  <2>4. /\ IsFiniteSet(emitted') /\ Cardinality(emitted') = n + 1
        /\ \A e \in emitted' : e.id <= Cardinality(emitted')
        /\ \A e, f \in emitted' : e.id = f.id => e = f
    BY <1>1, <2>2, <2>3, NextNumber DEF Basics, Numbered
  <2>5. {a} \in SUBSET All /\ n <= Cardinality(emitted') /\ \A e \in {a} : e.id > n
    BY <1>1, <2>3, <2>4
  <2> QED
    BY <1>5, <2>2, <2>4, <2>5
<1>7. ASSUME NEW t1 \in Types, NEW t2 \in Types, NEW to \in Statuses, n + 1 \in Ids, n + 2 \in Ids,
             Change(to, <<t1, t2>>)
      PROVE  Basics' /\ NewEvents
  <2> DEFINE a == [id |-> n + 1, type |-> t1, status |-> to]
             b == [id |-> n + 2, type |-> t2, status |-> to]
             one == emitted \cup {a}
  <2>1. {[id |-> n + i, type |-> <<t1, t2>>[i], status |-> to] : i \in DOMAIN <<t1, t2>>} = {a, b}
    OBVIOUS
  <2>2. emitted' = one \cup {b} /\ emitted' = emitted \cup {a, b} /\ unacked' = unacked \cup {a, b}
    BY <1>7, <2>1 DEF Change
  <2>3. a.id = n + 1 /\ b.id = n + 2 /\ a \in All /\ b \in All
    BY <1>7
  <2> HIDE DEF a, b, All
  <2>4. /\ IsFiniteSet(one) /\ Cardinality(one) = n + 1
        /\ \A e \in one : e.id \in Nat /\ e.id <= Cardinality(one)
        /\ \A e, f \in one : e.id = f.id => e = f
    BY <1>1, <2>3, NextNumber DEF Basics, Numbered
  <2>5. b.id = Cardinality(one) + 1
    BY <1>1, <2>3, <2>4
  <2> HIDE DEF one
  <2>6. /\ IsFiniteSet(emitted') /\ Cardinality(emitted') = n + 2
        /\ \A e \in emitted' : e.id <= Cardinality(emitted')
        /\ \A e, f \in emitted' : e.id = f.id => e = f
    BY <1>1, <2>2, <2>4, <2>5, NextNumber
  <2>7. {a, b} \in SUBSET All /\ n <= Cardinality(emitted') /\ \A e \in {a, b} : e.id > n
    BY <1>1, <2>3, <2>6
  <2> QED
    BY <1>5, <2>2, <2>6, <2>7
<1> HIDE DEF n, All
<1>8. CASE Subscribe
  <2>1. n + 1 \in Ids
    BY <1>2, <1>8, BoundsAssumption DEF Subscribe, Ids
  <2> QED
    BY <1>6, <1>8, <2>1 DEF Subscribe, Types, Statuses
<1>9. CASE MayChange
  <2>1. n + 1 \in Ids /\ n + 2 \in Ids
    BY <1>1, <1>9, BoundsAssumption DEF MayChange, Ids, n
  <2>2. CASE PaymentFails \/ PaymentArrives
    BY <1>7, <2>1, <2>2 DEF PaymentFails, PaymentArrives, Types, Statuses
  <2>3. CASE EndsAtStripe
    BY <1>6, <2>1, <2>3 DEF EndsAtStripe, Types, Statuses
  <2>4. CASE Subscribe
    BY <1>8, <2>4
  <2> QED
    BY <2>2, <2>3, <2>4
<1> QED
  BY <1>8, <1>9 DEF PaymentFails, PaymentArrives, EndsAtStripe

\* What a write of the queue leaves: a type, and the marks of the workers it overtook.
LEMMA SetPendingTypes ==
  ASSUME Basics, NEW to \in {"absent", "grace", "due"}, SetPending(to)
  PROVE  pending' \in {"absent", "grace", "due"} /\ overtaken' \in [Pods -> BOOLEAN]
BY DEF Basics, TypeOK, SetPending

\* What a step of processStripeEvent does to the tables and to the request.
LEMMA TablesTypes ==
  ASSUME Basics, NEW h \in Handlers, Tables(h)
  PROVE  /\ pc[h] = "store"
         /\ status' \in Statuses \cup {"none"} /\ flag' \in BOOLEAN /\ tier' \in {"free", "paid"}
<1> USE DEF Basics, TypeOK, Processing
<1>1. CASE CheckoutTx(h)
  BY <1>1 DEF CheckoutTx
<1>2. CASE UpdatedTx(h)
  <2>1. pc[h] = "store" /\ event[h] \in emitted
    BY <1>2 DEF UpdatedTx, Holding
  <2>2. event[h].status \in Statuses
    BY <2>1
  <2> QED
    BY <1>2, <2>1, <2>2 DEF UpdatedTx
<1>3. CASE DeletedTx(h) \/ FailedUpdate(h) \/ SucceededUpdate(h)
  BY <1>3 DEF DeletedTx, FailedUpdate, SucceededUpdate, Statuses
<1> QED
  BY <1>1, <1>2, <1>3 DEF Tables

\* The other steps leave the events alone.
LEMMA TypeStep ==
  ASSUME Basics, [Next]_vars, ~(Subscribe \/ PaymentFails \/ PaymentArrives \/ EndsAtStripe)
  PROVE  UNCHANGED source /\ TypeOK' /\ Holding'
<1> USE BoundsAssumption
    DEF Basics, TypeOK, Holding, source, row, database, pendings, misc, Goto, Leave
<1>1. ASSUME NEW h \in Handlers, NEW e \in unacked, Webhook(h, e)
      PROVE  UNCHANGED source /\ TypeOK' /\ Holding'
  <2>1. e \in emitted /\ e.id \in Ids
    OBVIOUS
  <2>2. UNCHANGED <<source, pendings, database, worker, applied, cutOff>> /\ faults' \in 0..MaxFaults
    BY <1>1 DEF Webhook, Attempt
  <2>3. CASE e.id \in seen
    BY <1>1, <2>1, <2>2, <2>3 DEF Webhook
  <2>4. CASE e.id \notin seen
    BY <1>1, <2>1, <2>2, <2>4 DEF Webhook, Begin
  <2> QED
    BY <2>3, <2>4
<1>2. ASSUME NEW h \in Handlers, NEW e \in unacked, SetNXLost(h, e)
      PROVE  UNCHANGED source /\ TypeOK' /\ Holding'
  <2>1. e \in emitted /\ e.id \in Ids
    OBVIOUS
  <2> QED
    BY <1>2, <2>1 DEF SetNXLost, Fault
<1>3. ASSUME NEW h \in Handlers, Process(h) \/ StoreError(h) \/ Abandon(h)
      PROVE  UNCHANGED source /\ TypeOK' /\ Holding'
  <2>1. pc[h] # "idle" /\ event[h] \in emitted /\ event[h].id \in Ids
    <3>1. pc[h] # "idle"
      BY <1>3, TablesTypes DEF Process, Store, NotFound, CheckoutTwice, Queue, QueueWrite,
                  WebhookOk, WebhookError, Processing, StoreError, Abandon
    <3>2. event[h] \in [id : Ids, type : Types, status : Statuses]
      BY <3>1
    <3> QED
      BY <3>1, <3>2
  <2>2. CASE WebhookOk(h) \/ WebhookError(h)
    BY <2>1, <2>2 DEF WebhookOk, WebhookError
  <2>3. CASE NotFound(h) \/ CheckoutTwice(h)
    BY <2>1, <2>3 DEF NotFound, CheckoutTwice, StoreUnchanged
  <2>4. CASE Store(h)
    BY <2>1, <2>4, TablesTypes DEF Store, StoreUnchanged, Finish
  <2>5. QueueWrite(h) => pending' \in {"absent", "grace", "due"} /\ overtaken' \in [Pods -> BOOLEAN]
    BY SetPendingTypes DEF QueueWrite
  <2>6. CASE Queue(h)
    BY <2>1, <2>5, <2>6 DEF Queue, StoreUnchanged, Finish
  <2>7. CASE StoreError(h)
    <3>1. /\ pc' \in [Handlers -> {"idle", "store", "queue", "error", "answer"}]
          /\ pc' = [pc EXCEPT ![h] = "error"]
          /\ UNCHANGED <<source, unacked, seen, event, worker, applied, early, cutOff>>
          /\ faults' \in 0..MaxFaults
      BY <2>7 DEF StoreError, Fault
    <3>2. /\ status' \in Statuses \cup {"none"} /\ flag' \in BOOLEAN /\ tier' \in {"free", "paid"}
          /\ pending' \in {"absent", "grace", "due"} /\ overtaken' \in [Pods -> BOOLEAN]
          /\ replica' = replica
      BY <2>5, <2>7, TablesTypes DEF StoreError
    <3> QED
      BY <2>1, <3>1, <3>2
  <2>8. CASE Abandon(h)
    BY <2>1, <2>8 DEF Abandon, Fault
  <2> QED
    BY <1>3, <2>2, <2>3, <2>4, <2>6, <2>7, <2>8 DEF Process
<1>4. ASSUME NEW p \in Pods, Crash(p) PROVE UNCHANGED source /\ TypeOK' /\ Holding'
  <2>1. \A h \in Handlers : pc[h] # "idle" => event[h].id \in Ids
    OBVIOUS
  <2>2. cutOff' \subseteq Ids
    BY <1>4, <2>1 DEF Crash
  <2>3. /\ pc' \in [Handlers -> {"idle", "store", "queue", "error", "answer"}]
        /\ event' \in [Handlers -> emitted \cup {NoEvent}]
        /\ \A h \in Handlers : pc'[h] # "idle" => pc'[h] = pc[h] /\ event'[h] = event[h]
    BY <1>4 DEF Crash
  <2>4. /\ worker' \in [Pods -> {"idle", "downgrade", "remove"}]
        /\ overtaken' \in [Pods -> BOOLEAN] /\ faults' \in 0..MaxFaults
        /\ UNCHANGED <<source, unacked, seen, pending, database, applied, early>>
    BY <1>4 DEF Crash, Fault
  <2> QED
    BY <2>2, <2>3, <2>4
<1>5. CASE Replicate \/ Elapse
  BY <1>5 DEF Replicate, Elapse, HandlersUnchanged
<1>6. ASSUME NEW p \in Pods, Worker(p) \/ WorkerError(p)
      PROVE  UNCHANGED source /\ TypeOK' /\ Holding'
  <2>1. worker' \in [Pods -> {"idle", "downgrade", "remove"}] /\ HandlersUnchanged
        /\ UNCHANGED <<early, cutOff, status, flag, replica>> /\ faults' \in 0..MaxFaults
        /\ tier' \in {"free", "paid"}
    BY <1>6 DEF Worker, WorkerRead, WorkerDowngrade, WorkerRemove, WorkerError, Work, Fault
  <2>2. pending' \in {"absent", "grace", "due"} /\ overtaken' \in [Pods -> BOOLEAN]
    BY <1>6, SetPendingTypes DEF Worker, WorkerRead, WorkerDowngrade, WorkerRemove, WorkerError
  <2> QED
    BY <2>1, <2>2 DEF HandlersUnchanged
<1>7. CASE UNCHANGED vars
  BY <1>7 DEF vars
<1> QED
  BY <1>1, <1>2, <1>3, <1>4, <1>5, <1>6, <1>7 DEF Next

LEMMA BasicsInvariant == Spec => []Basics
<1>1. Init => Basics
  <2>1. Init => TypeOK
    <3> SUFFICES ASSUME Init PROVE TypeOK
      OBVIOUS
    <3> USE DEF Init
    <3>1. pc \in [Handlers -> {"idle", "store", "queue", "error", "answer"}]
      OBVIOUS
    <3>2. event \in [Handlers -> emitted \cup {NoEvent}]
      OBVIOUS
    <3>3. emitted \subseteq [id : Ids, type : Types, status : Statuses]
      OBVIOUS
    <3>4. faults \in 0..MaxFaults
      BY BoundsAssumption
    <3>5. /\ stripe \in Statuses \cup {"none"} /\ status \in Statuses \cup {"none"}
          /\ unacked \subseteq emitted
          /\ seen \subseteq Ids /\ applied \subseteq Ids /\ early \subseteq Ids /\ cutOff \subseteq Ids
          /\ worker \in [Pods -> {"idle", "downgrade", "remove"}]
          /\ overtaken \in [Pods -> BOOLEAN]
      OBVIOUS
    <3> QED
      BY <3>1, <3>2, <3>3, <3>4, <3>5 DEF TypeOK
  <2>2. Init => Numbered /\ Holding
    BY FS_EmptySet DEF Init, Numbered, Holding
  <2> QED
    BY <2>1, <2>2 DEF Basics
<1>2. Basics /\ [Next]_vars => Basics'
  <2>1. ASSUME Numbered, TypeOK', Holding', UNCHANGED source PROVE Basics'
    BY <2>1 DEF Basics, Numbered, source
  <2> QED
    BY <2>1, ChangeNumbers, TypeStep DEF Basics
<1> QED
  BY <1>1, <1>2, PTL DEF Spec

\* The state of the model always has its type: Stripe never runs out of numbers.
THEOREM TypeCorrect == Spec => []TypeOK
<1>1. Basics => TypeOK
  BY DEF Basics
<1> QED
  BY <1>1, BasicsInvariant, PTL

-----------------------------------------------------------------------------
(* The dedupe key                                                           *)

\* While a request processes an event it holds the event's key; the event is applied
\* when the request is about to answer, and not before.
KeyHeld ==
  \A h \in Handlers : pc[h] # "idle" =>
    /\ event[h].id \in seen
    /\ event[h].id \in applied <=> pc[h] = "answer"

\* The key has one holder.
OneHolder ==
  \A g, h \in Handlers :
    pc[g] # "idle" /\ pc[h] # "idle" /\ event[g].id = event[h].id => g = h

\* The key of an applied event stays, and keys are those of events there were.
KeysStay == applied \subseteq seen /\ \A i \in seen : i <= Cardinality(emitted)

\* An answered event was applied, or answered early, or its key is left behind.
Answered ==
  \A e \in emitted \ unacked :
    e.id \in applied \cup early \/ (e.id \in seen /\ ~InProgress(e))

\* A key that nobody holds, of an event that was neither applied nor answered early,
\* was left by a request that was cut off: the next attempt is answered as a duplicate.
Orphans ==
  \A e \in emitted : e.id \in seen \ (applied \cup early) /\ ~InProgress(e) => e.id \in cutOff

\* The queue of downgrades, and the workers, act on a failed payment.
QueueHasCause ==
  pending # "absent" \/ (\E p \in Pods : worker[p] # "idle") =>
    \E e \in emitted : e.type = "failed"

\* Who a worker is about to downgrade is due, or the queue changed since it was read.
DueWhenRead == \A p \in Pods : worker[p] = "downgrade" => pending = "due" \/ overtaken[p]

IInv ==
  /\ Basics /\ KeyHeld /\ OneHolder /\ KeysStay /\ Answered /\ Orphans
  /\ QueueHasCause /\ DueWhenRead

\* What a step of processStripeEvent does to the request and the queue.
LEMMA ProcessStep ==
  ASSUME Basics, NEW h \in Handlers,
         Process(h) \/ StoreError(h), ~WebhookOk(h), ~WebhookError(h)
  PROVE  /\ pc[h] \in {"store", "queue"} /\ pc' = [pc EXCEPT ![h] = pc'[h]]
         /\ \/ pc'[h] = "answer" /\ applied' = applied \cup {event[h].id}
            \/ pc'[h] \in {"queue", "error"} /\ applied' = applied
         /\ \/ UNCHANGED pendings
            \/ event[h].type = "failed" /\ SetPending("grace")
            \/ SetPending("absent")
         /\ UNCHANGED <<emitted, unacked, seen, event, worker, early, cutOff>>
<1> USE DEF Basics, TypeOK, source, row, database, misc, Goto, Processing, StoreUnchanged, Finish
<1>1. CASE StoreError(h)
  BY <1>1 DEF StoreError, Fault, QueueWrite
<1>2. CASE Store(h)
  BY <1>2, TablesTypes DEF Store
<1>3. CASE NotFound(h) \/ CheckoutTwice(h)
  BY <1>3 DEF NotFound, CheckoutTwice
<1>4. CASE Queue(h)
  BY <1>4 DEF Queue, QueueWrite
<1> QED
  BY <1>1, <1>2, <1>3, <1>4 DEF Process

\* A write of the queue overtakes the workers that have read it.
LEMMA SetPendingKeepsDue ==
  ASSUME Basics, DueWhenRead, NEW to \in {"absent", "grace"}, SetPending(to),
         \A p \in Pods : worker'[p] = "downgrade" => worker[p] = "downgrade"
  PROVE  DueWhenRead'
BY DEF Basics, TypeOK, DueWhenRead, SetPending

LEMMA InvariantStep ==
  ASSUME IInv, [Next]_vars, Basics'
  PROVE  IInv'
<1> USE DEF IInv, Basics, TypeOK, Holding, KeyHeld, OneHolder, KeysStay, Answered, Orphans,
            InProgress, QueueHasCause, source, database, pendings, misc, Goto, Leave
<1>1. CASE Subscribe \/ PaymentFails \/ PaymentArrives \/ EndsAtStripe
  <2>1. UNCHANGED <<seen, pendings, pc, event, worker, applied, misc>>
    BY <1>1 DEF Subscribe, PaymentFails, PaymentArrives, EndsAtStripe, Change
  <2>2. NewEvents
    BY <1>1, ChangeNumbers
  <2>3. Cardinality(emitted) \in Nat /\ Cardinality(emitted') \in Nat
    BY FS_CardinalityType DEF Numbered
  <2>4. KeyHeld' /\ OneHolder'
    BY <2>1
  <2>5. KeysStay'
    BY <2>1, <2>2, <2>3 DEF NewEvents, Ids
  <2>6. Answered'
    BY <2>1, <2>2 DEF NewEvents
  <2>7. Orphans'
    <3>1. \A e \in emitted' \ emitted : e.id \notin seen
      BY <2>2, <2>3 DEF NewEvents, Ids
    <3> QED
      BY <2>1, <3>1
  <2>8. QueueHasCause' /\ DueWhenRead'
    BY <2>1, <2>2 DEF NewEvents, DueWhenRead
  <2> QED
    BY <2>4, <2>5, <2>6, <2>7, <2>8
<1>2. ASSUME NEW h \in Handlers, NEW e \in unacked, Webhook(h, e) PROVE IInv'
  <2>1. UNCHANGED <<emitted, pendings, worker, applied, cutOff>> /\ pc[h] = "idle" /\ e \in emitted
    BY <1>2 DEF Webhook, Attempt
  <2>2. QueueHasCause' /\ DueWhenRead'
    BY <2>1 DEF DueWhenRead
  <2>3. CASE e.id \in seen
    <3>1. UNCHANGED <<seen, pc, event>> /\ unacked' = unacked \ {e} /\ early \subseteq early'
      BY <1>2, <2>3 DEF Webhook
    <3>2. InProgress(e) => e.id \in early'
      BY <1>2, <2>3 DEF Webhook
    <3>3. Answered'
      BY <2>1, <2>3, <3>1, <3>2
    <3>4. Orphans'
      BY <2>1, <3>1
    <3> QED
      BY <2>1, <2>2, <3>1, <3>3, <3>4
  <2>4. CASE e.id \notin seen
    <3>1. /\ seen' = seen \cup {e.id} /\ UNCHANGED <<unacked, early>>
          /\ event' = [event EXCEPT ![h] = e] /\ pc' = [pc EXCEPT ![h] = "store"]
      BY <1>2, <2>4 DEF Webhook, Begin
    <3>2. KeyHeld' /\ OneHolder'
      BY <2>1, <2>4, <3>1
    <3>3. KeysStay'
      BY <2>1, <3>1 DEF Numbered
    <3>4. Answered'
      BY <2>1, <3>1
    <3>5. Orphans'
      <4>1. InProgress(e)'
        BY <3>1
      <4>2. \A f \in emitted : f # e => f.id # e.id
        BY <2>1 DEF Numbered
      <4> QED
        BY <2>1, <3>1, <4>1, <4>2
    <3> QED
      BY <2>1, <2>2, <3>2, <3>3, <3>4, <3>5
  <2> QED
    BY <2>3, <2>4
<1>3. ASSUME NEW h \in Handlers, NEW e \in unacked, SetNXLost(h, e) PROVE IInv'
  <2>1. /\ UNCHANGED <<emitted, pendings, worker, applied, early, pc, event>>
        /\ e \in emitted /\ e.id \notin seen
        /\ seen' = seen \cup {e.id} /\ cutOff' = cutOff \cup {e.id}
        /\ unacked' \in {unacked, unacked \ {e}}
    BY <1>3 DEF SetNXLost, Fault
  <2>2. KeyHeld' /\ OneHolder'
    BY <2>1
  <2>3. KeysStay'
    BY <2>1 DEF Numbered
  <2>4. ~InProgress(e)
    BY <2>1
  <2>5. Answered'
    BY <2>1, <2>4 DEF Numbered
  <2>6. Orphans'
    BY <2>1 DEF Numbered
  <2>7. QueueHasCause' /\ DueWhenRead'
    BY <2>1 DEF DueWhenRead
  <2> QED
    BY <2>2, <2>3, <2>5, <2>6, <2>7
<1>4. ASSUME NEW h \in Handlers, Process(h) \/ StoreError(h), ~WebhookOk(h), ~WebhookError(h)
      PROVE  IInv'
  <2>1. /\ pc[h] \in {"store", "queue"} /\ pc' = [pc EXCEPT ![h] = pc'[h]]
        /\ \/ pc'[h] = "answer" /\ applied' = applied \cup {event[h].id}
           \/ pc'[h] \in {"queue", "error"} /\ applied' = applied
        /\ \/ UNCHANGED pendings
           \/ event[h].type = "failed" /\ SetPending("grace")
           \/ SetPending("absent")
        /\ UNCHANGED <<emitted, unacked, seen, event, worker, early, cutOff>>
    BY <1>4, ProcessStep
  <2>2. KeyHeld' /\ OneHolder'
    BY <2>1
  <2>3. KeysStay' /\ Answered' /\ Orphans'
    BY <2>1
  <2>4. QueueHasCause'
    BY <2>1 DEF SetPending
  <2>5. DueWhenRead'
    BY <2>1, SetPendingKeepsDue DEF DueWhenRead
  <2> QED
    BY <2>2, <2>3, <2>4, <2>5
<1>5. ASSUME NEW h \in Handlers, WebhookOk(h) \/ WebhookError(h) \/ Abandon(h) PROVE IInv'
  <2>1. /\ pc[h] # "idle" /\ pc' = [pc EXCEPT ![h] = "idle"] /\ event' = [event EXCEPT ![h] = NoEvent]
        /\ UNCHANGED <<emitted, pendings, worker, applied, early>>
    BY <1>5 DEF WebhookOk, WebhookError, Abandon, Fault
  <2>2. \/ /\ seen' = seen /\ unacked' = unacked
           /\ cutOff' = cutOff \cup ({event[h].id} \ applied)
        \/ /\ seen' = seen /\ unacked' = unacked \ {event[h]} /\ event[h].id \in applied
           /\ cutOff' = cutOff
        \/ /\ seen' = seen \ {event[h].id} /\ unacked' = unacked /\ event[h].id \notin applied
           /\ cutOff' = cutOff
    BY <1>5 DEF WebhookOk, WebhookError, Abandon
  <2>3. KeyHeld' /\ OneHolder'
    BY <2>1, <2>2
  <2>4. KeysStay'
    BY <2>1, <2>2
  <2>5. Answered'
    BY <2>1, <2>2 DEF Numbered
  <2>6. Orphans'
    BY <2>1, <2>2
  <2>7. QueueHasCause' /\ DueWhenRead'
    BY <2>1 DEF DueWhenRead
  <2> QED
    BY <2>1, <2>3, <2>4, <2>5, <2>6, <2>7
<1>6. ASSUME NEW p \in Pods, Crash(p) PROVE IInv'
  <2>1. UNCHANGED <<emitted, unacked, seen, pending, applied, early>>
    BY <1>6 DEF Crash, Fault
  <2>2. \A h \in Handlers : \/ pc'[h] = pc[h] /\ event'[h] = event[h]
                            \/ pc'[h] = "idle" /\ (pc[h] # "idle" => event[h].id \in cutOff' \cup applied)
    BY <1>6 DEF Crash
  <2>3. cutOff \subseteq cutOff'
    BY <1>6 DEF Crash
  <2>4. KeyHeld' /\ OneHolder' /\ KeysStay'
    BY <2>1, <2>2
  <2>5. Answered' /\ Orphans'
    BY <2>1, <2>2, <2>3
  <2>6. QueueHasCause' /\ DueWhenRead'
    BY <1>6, <2>1 DEF Crash, DueWhenRead
  <2> QED
    BY <2>4, <2>5, <2>6
<1>7. CASE Replicate \/ Elapse \/ \E p \in Pods : Worker(p) \/ WorkerError(p)
  <2>1. UNCHANGED <<emitted, unacked, seen, pc, event, applied, early, cutOff>>
    BY <1>7 DEF Replicate, Elapse, Worker, WorkerRead, WorkerDowngrade, WorkerRemove, WorkerError,
                Work, HandlersUnchanged, Fault
  <2>2. KeyHeld' /\ OneHolder' /\ KeysStay' /\ Answered' /\ Orphans'
    BY <2>1
  <2>3. CASE Replicate \/ Elapse
    BY <2>1, <2>3 DEF Replicate, Elapse, DueWhenRead
  <2>4. ASSUME NEW p \in Pods, WorkerRead(p) PROVE QueueHasCause' /\ DueWhenRead'
    BY <2>1, <2>4 DEF WorkerRead, Work, DueWhenRead
  <2>5. ASSUME NEW p \in Pods, WorkerDowngrade(p) \/ WorkerError(p)
        PROVE  QueueHasCause' /\ DueWhenRead'
    BY <2>1, <2>5 DEF WorkerDowngrade, WorkerError, Work, DueWhenRead
  <2>6. ASSUME NEW p \in Pods, WorkerRemove(p) PROVE QueueHasCause' /\ DueWhenRead'
    <3>1. SetPending("absent") /\ worker' = [worker EXCEPT ![p] = "idle"]
      BY <2>6 DEF WorkerRemove, Work
    <3>2. DueWhenRead'
      BY <3>1, SetPendingKeepsDue
    <3>3. QueueHasCause'
      BY <2>1, <3>1 DEF SetPending
    <3> QED
      BY <3>2, <3>3
  <2> QED
    BY <1>7, <2>1, <2>2, <2>3, <2>4, <2>5, <2>6 DEF Worker, Replicate, Elapse
<1>8. CASE UNCHANGED vars
  BY <1>8 DEF vars, DueWhenRead
<1> QED
  BY <1>1, <1>2, <1>3, <1>4, <1>5, <1>6, <1>7, <1>8 DEF Next

LEMMA Invariant == Spec => []IInv
<1>1. Init => KeyHeld /\ OneHolder /\ KeysStay /\ Answered /\ Orphans /\ QueueHasCause /\ DueWhenRead
  BY DEF Init, KeyHeld, OneHolder, KeysStay, Answered, Orphans, QueueHasCause, DueWhenRead
<1>2. IInv /\ [Next]_vars /\ Basics' => IInv'
  BY InvariantStep
<1>3. Init /\ Basics => IInv
  BY <1>1 DEF IInv
<1> QED
  BY <1>2, <1>3, BasicsInvariant, PTL DEF Spec

\* No two requests ever process one event at the same time, whatever attempts
\* overlap, fail, crash and are retried.
THEOREM OneProcessor == Spec => []OneProcessorPerEvent
<1>1. IInv => OneProcessorPerEvent
  BY DEF IInv, OneHolder, OneProcessorPerEvent
<1> QED
  BY <1>1, Invariant, PTL

\* A paying user is downgraded while the end of the subscription is processed, or by a
\* worker after a failed payment; and then the grace period is over, or the queue was
\* changed since the worker read it.
THEOREM DowngradeCaused == Spec => DowngradeHasCause
<1> DEFINE Cause == \/ \E e \in emitted : e.type = "deleted" /\ InProgress(e)
                    \/ /\ \E e \in emitted : e.type = "failed"
                       /\ pending = "due" \/ \E p \in Pods : overtaken[p]
<1>1. ASSUME IInv, [Next]_vars, tier = "paid", tier' = "free" PROVE Cause
  <2> USE DEF database, misc
  <2>1. ASSUME NEW h \in Handlers, Tables(h)
        PROVE  event[h] \in emitted /\ event[h].type = "deleted" /\ InProgress(event[h])
    <3>1. DeletedTx(h)
      BY <1>1, <2>1 DEF Tables, CheckoutTx, UpdatedTx, FailedUpdate, SucceededUpdate
    <3> QED
      BY <1>1, <3>1 DEF DeletedTx, Processing, IInv, Basics, Holding, InProgress
  <2>2. ASSUME NEW h \in Handlers, Process(h) \/ StoreError(h) PROVE Tables(h)
    BY <1>1, <2>2 DEF Process, Store, NotFound, CheckoutTwice, Queue, WebhookOk, WebhookError, StoreError
  <2>3. ASSUME NEW p \in Pods, WorkerDowngrade(p) PROVE Cause
    BY <1>1, <2>3 DEF WorkerDowngrade, IInv, QueueHasCause, DueWhenRead
  <2>4. ~(\/ Subscribe \/ PaymentFails \/ PaymentArrives \/ EndsAtStripe \/ UNCHANGED vars
          \/ \E h \in Handlers : Abandon(h) \/ \E e \in unacked : Webhook(h, e) \/ SetNXLost(h, e))
    BY <1>1 DEF Subscribe, PaymentFails, PaymentArrives, EndsAtStripe, Change, vars, Abandon,
                Webhook, Attempt, SetNXLost
  <2>5. ~(\/ Replicate \/ Elapse
          \/ \E p \in Pods : WorkerRead(p) \/ WorkerRemove(p) \/ WorkerError(p) \/ Crash(p))
    BY <1>1 DEF Replicate, Elapse, WorkerRead, WorkerRemove, WorkerError, Crash
  <2> QED
    BY <1>1, <2>1, <2>2, <2>3, <2>4, <2>5 DEF Next, Worker
<1>2. IInv /\ [Next]_vars => [tier = "paid" /\ tier' = "free" => Cause]_vars
  BY <1>1
<1> QED
  BY <1>2, Invariant, PTL DEF Spec, DowngradeHasCause

\* For any number of pods, attempts, errors and crashes: an event that Stripe has an
\* answer for was processed to the end, or its key was left by a request that was cut
\* off, or it was answered early.
THEOREM LostWereCutOff == Spec => []LostWasCutOff
<1>1. IInv => LostWasCutOff
  BY DEF IInv, Answered, Orphans, Lost, LostWasCutOff
<1> QED
  BY <1>1, Invariant, PTL

-----------------------------------------------------------------------------
(* ws-server: types                                                         *)

\* What Enqueue leaves in the queues fits them.
LEMMA EnqueueType ==
  ASSUME Hub!TypeOK, NEW c \in Conns, NEW f \in Hub!Frames, Hub!Enqueue(c, f)
  PROVE  queue' \in [Conns -> Seq(Hub!Frames)] /\ \A d \in Conns : Len(queue'[d]) <= QueueSize
<1> USE SizesAssumption DEF Hub!TypeOK
<1>1. CASE UNCHANGED queue
  BY <1>1
<1>2. CASE Len(queue[c]) < QueueSize /\ queue' = [queue EXCEPT ![c] = Append(@, f)]
  <2>1. queue[c] \in Seq(Hub!Frames)
    OBVIOUS
  <2>2. Append(queue[c], f) \in Seq(Hub!Frames) /\ Len(Append(queue[c], f)) = Len(queue[c]) + 1
    BY <2>1
  <2>3. Len(queue[c]) \in Nat
    BY <2>1
  <2> QED
    BY <1>2, <2>2, <2>3
<1> QED
  BY <1>1, <1>2 DEF Hub!Enqueue

\* The state of the model always has its type, and no send queue overflows.
THEOREM HubTypeCorrect == Hub!Spec => []Hub!TypeOK
<1> USE SizesAssumption, UserAssumption DEF Hub!Frames
<1>1. Hub!Init => Hub!TypeOK
  <2> SUFFICES ASSUME Hub!Init PROVE Hub!TypeOK
    OBVIOUS
  <2> USE DEF Hub!Init
  <2>1. queue \in [Conns -> Seq(Hub!Frames)] /\ \A c \in Conns : Len(queue[c]) <= QueueSize
    OBVIOUS
  <2>2. events \in 0..MaxEvents
    OBVIOUS
  <2>3. /\ handler \in [Conns -> {"none", "checked", "ended"}]
        /\ closer \in [Conns -> {"none", "close", "wait", "ended"}]
        /\ write \in [Conns -> Hub!PumpStage] /\ read \in [Conns -> Hub!PumpStage]
    BY DEF Hub!PumpStage
  <2> QED
    BY <2>1, <2>2, <2>3 DEF Hub!TypeOK
<1>2. Hub!TypeOK /\ [Hub!Next]_Hub!vars => Hub!TypeOK'
  <2> SUFFICES ASSUME Hub!TypeOK, [Hub!Next]_Hub!vars PROVE Hub!TypeOK'
    OBVIOUS
  <2> USE DEF Hub!hub, Hub!connection, Hub!pumps, Hub!shutdown, Hub!traffic, Hub!Event
  <2>1. ASSUME NEW c \in Conns, Hub!ConnStep(c) PROVE Hub!TypeOK'
    <3>1. CASE Hub!Upgrade(c) \/ Hub!Register(c)
      <4>1. CASE Hub!Upgrade(c)
        BY <4>1 DEF Hub!Upgrade, Hub!TypeOK
      <4>2. ASSUME Hub!Accept(c) \/ Hub!Refuse(c)
            PROVE  /\ conns' \subseteq Conns /\ socket' \subseteq Conns
                   /\ write' \in [Conns -> Hub!PumpStage] /\ read' \in [Conns -> Hub!PumpStage]
        BY <4>2 DEF Hub!Accept, Hub!Refuse, Hub!TypeOK, Hub!PumpStage
      <4>3. CASE Hub!Register(c)
        BY <4>2, <4>3 DEF Hub!Register, Hub!TypeOK
      <4> QED
        BY <3>1, <4>1, <4>3
    <3>2. CASE Hub!WriteClose(c) \/ Hub!WriteTick(c)
      BY <3>2 DEF Hub!WriteClose, Hub!WriteTick, Hub!EndWrite, Hub!WriteUnchanged, Hub!TypeOK,
                  Hub!PumpStage
    <3>3. CASE Hub!WriteFrame(c)
      <4>1. queue[c] \in Seq(Hub!Frames) /\ queue[c] # <<>> /\ Len(queue[c]) <= QueueSize
        BY <3>3 DEF Hub!WriteFrame, Hub!TypeOK
      <4>2. Tail(queue[c]) \in Seq(Hub!Frames) /\ Len(Tail(queue[c])) <= QueueSize
        BY <4>1
      <4>3. queue' \in [Conns -> Seq(Hub!Frames)] /\ \A d \in Conns : Len(queue'[d]) <= QueueSize
        BY <3>3, <4>2 DEF Hub!WriteFrame, Hub!TypeOK
      <4> QED
        BY <3>3, <4>3 DEF Hub!WriteFrame, Hub!EndWrite, Hub!WriteUnchanged, Hub!TypeOK,
                          Hub!PumpStage
    <3>4. CASE Hub!ReadInvalid(c)
      BY <3>4, EnqueueType DEF Hub!ReadInvalid, Hub!ReadUnchanged, Hub!TypeOK
    <3>5. CASE Hub!ReadChat(c) \/ Hub!ReadFails(c)
      <4>1. CASE Hub!ReadChat(c)
        BY <4>1 DEF Hub!ReadChat, Hub!ReadUnchanged, Hub!TypeOK
      <4>2. CASE Hub!ReadFails(c)
        BY <4>2 DEF Hub!ReadFails, Hub!ReadUnchanged, Hub!TypeOK, Hub!PumpStage
      <4> QED
        BY <3>5, <4>1, <4>2
    <3>6. CASE Hub!StreamChunk(c)
      BY <3>6, EnqueueType DEF Hub!StreamChunk, Hub!TypeOK
    <3>7. CASE Hub!Unregister(c) \/ Hub!MarkDone(c) \/ Hub!ForceClose(c)
      BY <3>7 DEF Hub!Unregister, Hub!MarkDone, Hub!ForceClose, Hub!Teardown, Hub!Advance,
                  Hub!TypeOK, Hub!PumpStage
    <3>8. CASE Hub!SendNext(c)
      BY <3>8, EnqueueType DEF Hub!SendNext, Hub!TypeOK
    <3>9. CASE Hub!Notify(c)
      BY <3>9, EnqueueType DEF Hub!Notify, Hub!ShutdownUnchanged, Hub!TypeOK
    <3>10. CASE Hub!CloserClose(c) \/ Hub!CloserEnd(c)
      BY <3>10 DEF Hub!CloserClose, Hub!CloserEnd, Hub!ShutdownUnchanged, Hub!TypeOK
    <3> QED
      BY <2>1, <3>1, <3>2, <3>3, <3>4, <3>5, <3>6, <3>7, <3>8, <3>9, <3>10 DEF Hub!ConnStep
  <2>2. ASSUME NEW u \in Users, Hub!SendAlert(u) PROVE Hub!TypeOK'
    BY <2>2 DEF Hub!SendAlert, Hub!TypeOK
  <2>3. CASE Hub!Shutdown \/ Hub!Fail \/ Hub!Notified \/ Hub!Exit \/ Hub!ExitTimeout
    BY <2>3 DEF Hub!Shutdown, Hub!Fail, Hub!Notified, Hub!Exit, Hub!ExitTimeout,
                Hub!ShutdownUnchanged, Hub!TypeOK
  <2>4. CASE UNCHANGED Hub!vars
    BY <2>4 DEF Hub!vars, Hub!TypeOK
  <2> QED
    BY <2>1, <2>2, <2>3, <2>4 DEF Hub!Next
<1> QED
  BY <1>1, <1>2, PTL DEF Hub!Spec

-----------------------------------------------------------------------------
(* ws-server: the connection limit                                          *)

\* WsHub counts with a Cardinality of its own instance of FiniteSets.
LEMMA HubCounts == ASSUME NEW S PROVE Hub!Cardinality(S) = Cardinality(S)
  BY DEF Hub!Cardinality, Cardinality

\* Only Register adds a connection, and it adds one while there is room.
LEMMA ConnsStep ==
  ASSUME [Hub!Next]_Hub!vars
  PROVE  \/ conns' \subseteq conns
         \/ /\ ~(Cardinality(conns) >= MaxConns)
            /\ \E c \in Conns : conns' = conns \cup {c}
<1> USE DEF Hub!hub, Hub!connection, Hub!pumps, Hub!shutdown, Hub!traffic
<1>1. ASSUME NEW c \in Conns, Hub!ConnStep(c), ~Hub!Register(c) PROVE conns' \subseteq conns
  BY <1>1 DEF Hub!ConnStep, Hub!Upgrade, Hub!WriteClose, Hub!WriteFrame, Hub!WriteTick,
              Hub!WriteUnchanged, Hub!ReadInvalid, Hub!ReadChat, Hub!ReadFails,
              Hub!ReadUnchanged, Hub!StreamChunk, Hub!Unregister, Hub!MarkDone, Hub!ForceClose,
              Hub!SendNext, Hub!Notify, Hub!CloserClose, Hub!CloserEnd
<1>2. ASSUME NEW c \in Conns, Hub!Register(c)
      PROVE  conns' = conns \/ (~(Cardinality(conns) >= MaxConns) /\ conns' = conns \cup {c})
  BY <1>2, HubCounts DEF Hub!Register, Hub!Accept, Hub!Refuse
<1>3. ASSUME \/ \E u \in Users : Hub!SendAlert(u)
             \/ Hub!Shutdown \/ Hub!Fail \/ Hub!Notified \/ Hub!Exit \/ Hub!ExitTimeout \/ UNCHANGED Hub!vars
      PROVE  conns' = conns
  BY <1>3 DEF Hub!SendAlert, Hub!Shutdown, Hub!Fail, Hub!Notified, Hub!Exit, Hub!ExitTimeout,
              Hub!vars
<1> QED
  BY <1>1, <1>2, <1>3 DEF Hub!Next

ConnsCounted == IsFiniteSet(conns) /\ Cardinality(conns) <= MaxConns

\* However many handlers pass the first check before any of them registers, the hub
\* never holds more connections than the pod's limit.
THEOREM LimitHolds == Hub!Spec => []CapacityRespected
<1>1. Hub!Init => ConnsCounted
  BY FS_EmptySet, SizesAssumption DEF Hub!Init, ConnsCounted
<1>2. ConnsCounted /\ [Hub!Next]_Hub!vars => ConnsCounted'
  <2> SUFFICES ASSUME ConnsCounted, [Hub!Next]_Hub!vars PROVE ConnsCounted'
    OBVIOUS
  <2>1. Cardinality(conns) \in Nat /\ MaxConns \in Nat
    BY FS_CardinalityType, SizesAssumption DEF ConnsCounted
  <2>2. CASE conns' \subseteq conns
    <3>1. IsFiniteSet(conns') /\ Cardinality(conns') <= Cardinality(conns)
      BY <2>2, FS_Subset DEF ConnsCounted
    <3>2. Cardinality(conns') \in Nat
      BY <3>1, FS_CardinalityType
    <3> QED
      BY <2>1, <3>1, <3>2 DEF ConnsCounted
  <2>3. ASSUME Cardinality(conns) < MaxConns, NEW c \in Conns, conns' = conns \cup {c}
        PROVE  ConnsCounted'
    <3>1. /\ IsFiniteSet(conns')
          /\ Cardinality(conns') = IF c \in conns THEN Cardinality(conns) ELSE Cardinality(conns) + 1
      BY <2>3, FS_AddElement DEF ConnsCounted
    <3> QED
      BY <2>1, <2>3, <3>1 DEF ConnsCounted
  <2> QED
    BY <2>1, <2>2, <2>3, ConnsStep
<1>3. ConnsCounted => CapacityRespected
  BY HubCounts DEF ConnsCounted, CapacityRespected
<1> QED
  BY <1>1, <1>2, <1>3, PTL DEF Hub!Spec

-----------------------------------------------------------------------------
(* ws-server: the shutdown                                                  *)

Stopping == main \in {"notify", "wait", "exited"}

\* A pump that has unregistered its connection leaves nothing in the hub, and the
\* handler of a connection that has pumps is over: it never registers again.
Gone(c) == c \in done \/ write[c] \in {"markDone", "forceClose", "ended"}
                      \/ read[c] \in {"markDone", "forceClose", "ended"}
GoneLeftHub == \A c \in Conns : Gone(c) => c \notin conns

PumpsFollowHandler ==
  \A c \in Conns : write[c] # "off" \/ read[c] # "off" \/ c \in conns \/ Gone(c) => handler[c] = "ended"

\* The snapshot misses nobody: once the flag is up, no connection is added.
SnapshotComplete ==
  /\ Stopping => shuttingDown /\ conns \subseteq targets
  /\ ~Stopping => \A c \in Conns : closer[c] = "none"

\* Who was waited for is gone from the hub or has a closed socket.
ClosedOrGone == \A c \in Conns : closer[c] = "ended" => c \notin conns \cap socket

HubInv ==
  /\ Hub!TypeOK
  /\ GoneLeftHub /\ PumpsFollowHandler
  /\ SnapshotComplete /\ ClosedOrGone
  /\ NobodyLeftRunning

\* Every step keeps the invariant of the shutdown.
LEMMA HubInvStep ==
  ASSUME HubInv, [Hub!Next]_Hub!vars, Hub!TypeOK'
  PROVE  HubInv'
<1> USE DEF HubInv, Stopping, Gone, GoneLeftHub, PumpsFollowHandler, SnapshotComplete, ClosedOrGone,
            NobodyLeftRunning, Hub!hub, Hub!connection, Hub!pumps, Hub!shutdown, Hub!traffic
<1>1. ASSUME NEW c \in Conns, Hub!ConnStep(c), Hub!Up PROVE HubInv'
  <2> USE <1>1 DEF Hub!Up
  <2>1. main # "exited" /\ main' = main
    BY DEF Hub!ConnStep, Hub!Upgrade, Hub!Register, Hub!WriteClose, Hub!WriteFrame,
           Hub!WriteTick, Hub!WriteUnchanged, Hub!ReadInvalid, Hub!ReadChat, Hub!ReadFails,
           Hub!ReadUnchanged, Hub!StreamChunk, Hub!Unregister, Hub!MarkDone, Hub!ForceClose,
           Hub!SendNext, Hub!Notify, Hub!CloserClose, Hub!CloserEnd, Hub!ShutdownUnchanged
  <2>2. CASE Hub!Upgrade(c)
    BY <2>1, <2>2 DEF Hub!Upgrade, Hub!TypeOK
  <2>3. CASE Hub!Register(c)
    <3>1. handler[c] = "checked" /\ ~Gone(c) /\ c \notin conns
      BY <2>3 DEF Hub!Register
    <3>2. handler' = [handler EXCEPT ![c] = "ended"] /\ UNCHANGED <<shuttingDown, done, targets, closer>>
      BY <2>3 DEF Hub!Register
    <3>3. CASE Hub!Refuse(c)
      BY <2>1, <3>1, <3>2, <3>3 DEF Hub!Refuse, Hub!TypeOK
    <3>4. CASE Hub!Accept(c) /\ ~shuttingDown
      BY <2>1, <3>1, <3>2, <3>4 DEF Hub!Accept, Hub!TypeOK
    <3> QED
      BY <2>3, <3>3, <3>4 DEF Hub!Register
  <2>4. CASE Hub!WriteClose(c) \/ Hub!WriteFrame(c) \/ Hub!WriteTick(c)
    <3>1. UNCHANGED <<conns, shuttingDown, handler, read, done, socket, main, targets, closer>>
      BY <2>4 DEF Hub!WriteClose, Hub!WriteFrame, Hub!WriteTick, Hub!WriteUnchanged
    <3>2. write[c] = "run" /\ write' \in {write, [write EXCEPT ![c] = "unregister"]}
      BY <2>4 DEF Hub!WriteClose, Hub!WriteFrame, Hub!WriteTick, Hub!EndWrite
    <3> QED
      BY <2>1, <3>1, <3>2 DEF Hub!TypeOK
  <2>5. CASE Hub!ReadInvalid(c) \/ Hub!ReadChat(c) \/ Hub!ReadFails(c)
    <3>1. UNCHANGED <<conns, shuttingDown, handler, write, done, socket, main, targets, closer>>
      BY <2>5 DEF Hub!ReadInvalid, Hub!ReadChat, Hub!ReadFails, Hub!ReadUnchanged
    <3>2. read[c] = "run" /\ read' \in {read, [read EXCEPT ![c] = "unregister"]}
      BY <2>5 DEF Hub!ReadInvalid, Hub!ReadChat, Hub!ReadFails
    <3> QED
      BY <2>1, <3>1, <3>2 DEF Hub!TypeOK
  <2>6. CASE Hub!StreamChunk(c) \/ Hub!SendNext(c)
    BY <2>1, <2>6 DEF Hub!StreamChunk, Hub!SendNext
  <2>7. CASE Hub!Unregister(c)
    BY <2>1, <2>7 DEF Hub!Unregister, Hub!Teardown, Hub!Advance, Hub!TypeOK
  <2>8. CASE Hub!MarkDone(c)
    BY <2>1, <2>8 DEF Hub!MarkDone, Hub!Teardown, Hub!Advance, Hub!TypeOK
  <2>9. CASE Hub!ForceClose(c)
    BY <2>1, <2>9 DEF Hub!ForceClose, Hub!Teardown, Hub!Advance, Hub!TypeOK
  <2>10. CASE Hub!Notify(c) \/ Hub!CloserClose(c)
    BY <2>1, <2>10 DEF Hub!Notify, Hub!CloserClose, Hub!ShutdownUnchanged, Hub!TypeOK
  <2>11. CASE Hub!CloserEnd(c)
    BY <2>1, <2>11 DEF Hub!CloserEnd, Hub!ShutdownUnchanged, Hub!TypeOK
  <2> QED
    BY <2>2, <2>3, <2>4, <2>5, <2>6, <2>7, <2>8, <2>9, <2>10, <2>11 DEF Hub!ConnStep
<1>2. ASSUME NEW u \in Users, Hub!SendAlert(u) PROVE HubInv'
  BY <1>2 DEF Hub!SendAlert
<1>3. CASE Hub!Shutdown
  BY <1>3 DEF Hub!Shutdown, Hub!ShutdownUnchanged
<1>4. CASE Hub!Fail
  BY <1>4 DEF Hub!Fail, Hub!ShutdownUnchanged
<1>5. CASE Hub!Notified
  BY <1>5 DEF Hub!Notified, Hub!ShutdownUnchanged
<1>6. CASE Hub!Exit
  BY <1>6 DEF Hub!Exit, Hub!Drained, Hub!ShutdownUnchanged, Hub!TypeOK
<1>7. CASE Hub!ExitTimeout
  BY <1>7 DEF Hub!ExitTimeout, Hub!ShutdownUnchanged, Hub!TypeOK
<1>8. CASE UNCHANGED Hub!vars
  BY <1>8 DEF Hub!vars
<1> QED
  BY <1>1, <1>2, <1>3, <1>4, <1>5, <1>6, <1>7, <1>8 DEF Hub!Next

\* When main returns from a graceful shutdown, no connection is both in the hub and
\* open, those included that were being upgraded or torn down while the snapshot was
\* taken, whether the helpers finished or the timeout struck.
THEOREM ShutdownLeavesNobody == Hub!Spec => []NobodyLeftRunning
<1>1. Hub!Init /\ Hub!TypeOK => HubInv
  BY DEF Hub!Init, HubInv, Stopping, Gone, GoneLeftHub, PumpsFollowHandler, SnapshotComplete,
         ClosedOrGone, NobodyLeftRunning
<1>2. HubInv /\ [Hub!Next]_Hub!vars /\ Hub!TypeOK' => HubInv'
  BY HubInvStep
<1>3. HubInv => NobodyLeftRunning
  BY DEF HubInv
<1> QED
  BY <1>1, <1>2, <1>3, HubTypeCorrect, PTL DEF Hub!Spec

=============================================================================
