--------------------------- MODULE AlertDispatcher ---------------------------
(***************************************************************************)
(* alert-dispatcher: the handler of the alerts-notifications topic.        *)
(*                                                                         *)
(* consumer.handleMessage calls Dispatcher.Dispatch: read the user's       *)
(* profile, insert a `pending' row in alert_history (at most one per event *)
(* and channel), call the channel's provider up to Attempts times, write   *)
(* the outcome to the row.  The broker around it retries a failed handler, *)
(* dead-letters it after MaxRetries calls and then acknowledges it; an     *)
(* event that is not acknowledged may be delivered again, also while a     *)
(* worker of the previous group generation still works on it.  A partition *)
(* hands out its first event that is not acknowledged (KafkaConsumer's     *)
(* EarlierSettled); partitions are independent of each other.              *)
(***************************************************************************)
EXTENDS Integers, FiniteSets

CONSTANTS
  Events,      \* notification events on the topic, with their channel
  Malformed,   \* events that do not unmarshal
  Unroutable,  \* events of an unknown channel or an unknown user
  Earlier,     \* the events before an event in its partition
  Workers,     \* reader goroutines of all pods
  Pods,        \* the workers of each pod, as sets
  WorkerPool,  \* WORKER_POOL_SIZE: goroutines of one pod
  MaxRetries,  \* handler calls of the broker's retry loop
  Attempts,    \* provider calls of one Send: len(RetryDelays) + 1
  MaxFaults    \* bound of the model: crashes, rebalances, database errors

NoEvent == "no event"

ASSUME EventsAssumption ==
  /\ Malformed \subseteq Events /\ Unroutable \subseteq Events
  /\ NoEvent \notin Events
  /\ Earlier \in [Events -> SUBSET Events]
ASSUME PodsAssumption ==
  /\ WorkerPool \in Nat
  /\ \A pod \in Pods :
       pod \subseteq Workers /\ IsFiniteSet(pod) /\ Cardinality(pod) <= WorkerPool
ASSUME LimitsAssumption ==
  MaxRetries \in Nat \ {0} /\ Attempts \in Nat \ {0} /\ MaxFaults \in Nat

VARIABLES
  acked,     \* events whose offset is committed
  dead,      \* events on the dead-letter topic
  row,       \* alert_history: delivery_status of the event's row, or "none"
  posts,     \* provider calls made for the event
  accepted,  \* events that a provider accepted at least once
  pc,        \* where each worker is in handleMessage
  event,     \* the event it works on
  tries,     \* the broker's attempt variable
  calls,     \* withRetry's attempt variable
  verdict,   \* what Send returned: "ok", "soft" (Success = false, nil error), "error"
  faults,
  crashes,   \* history: faults that ended a pod
  errors     \* history: faults that were database errors

counted == <<faults, crashes, errors>>
vars    == <<acked, dead, row, posts, accepted, pc, event, tries, calls, verdict, counted>>
worker  == <<event, tries, calls, verdict>>
broker  == <<acked, dead>>
world   == <<row, posts, accepted>>

Statuses == {"none", "pending", "sent", "failed"}
Stages   == {"idle", "dispatch", "send", "update", "error", "commit"}
Sending  == {"send", "update"}

TypeOK ==
  /\ acked \subseteq Events /\ dead \subseteq Events /\ accepted \subseteq Events
  /\ row \in [Events -> Statuses]
  /\ posts \in [Events -> Nat]
  /\ pc \in [Workers -> Stages]
  /\ event \in [Workers -> Events \cup {NoEvent}]
  /\ \A w \in Workers : pc[w] # "idle" => event[w] # NoEvent
  /\ tries \in [Workers -> 0..MaxRetries]
  /\ calls \in [Workers -> 0..Attempts]
  /\ verdict \in [Workers -> {"none", "ok", "soft", "error"}]
  /\ faults \in 0..MaxFaults
  /\ crashes \in Nat /\ errors \in Nat

Init ==
  /\ acked = {} /\ dead = {} /\ accepted = {}
  /\ row = [e \in Events |-> "none"]
  /\ posts = [e \in Events |-> 0]
  /\ pc = [w \in Workers |-> "idle"]
  /\ event = [w \in Workers |-> NoEvent]
  /\ tries = [w \in Workers |-> 0]
  /\ calls = [w \in Workers |-> 0]
  /\ verdict = [w \in Workers |-> "none"]
  /\ faults = 0 /\ crashes = 0 /\ errors = 0

Fault == faults < MaxFaults /\ faults' = faults + 1
DatabaseError == Fault /\ errors' = errors + 1 /\ UNCHANGED crashes
Goto(w, stage) == pc' = [pc EXCEPT ![w] = stage]
\* What a worker held is gone: the locals of ConsumeReader, Dispatch and Send.
Leave(ws) ==
  /\ pc' = [w \in Workers |-> IF w \in ws THEN "idle" ELSE pc[w]]
  /\ event' = [w \in Workers |-> IF w \in ws THEN NoEvent ELSE event[w]]
  /\ tries' = [w \in Workers |-> IF w \in ws THEN 0 ELSE tries[w]]
  /\ calls' = [w \in Workers |-> IF w \in ws THEN 0 ELSE calls[w]]
  /\ verdict' = [w \in Workers |-> IF w \in ws THEN "none" ELSE verdict[w]]
Held(e) == \E w \in Workers : pc[w] # "idle" /\ event[w] = e

-----------------------------------------------------------------------------
(* Delivery by the broker                                                   *)

\* The first unacknowledged event of a partition is handed to an idle worker.
Deliver(w, e) ==
  /\ pc[w] = "idle"
  /\ e \notin acked
  /\ Earlier[e] \subseteq acked
  /\ event' = [event EXCEPT ![w] = e]
  /\ tries' = [tries EXCEPT ![w] = 1]
  /\ Goto(w, "dispatch")
  /\ UNCHANGED <<broker, world, calls, verdict>>

Receive(w, e) == ~Held(e) /\ Deliver(w, e) /\ UNCHANGED counted

\* A rebalance hands the event out again although the worker of the old
\* generation has not finished.
Redeliver(w, e) == Held(e) /\ Deliver(w, e) /\ Fault /\ UNCHANGED <<crashes, errors>>

\* The pod is killed, or terminated: with a cancelled context Send, the update of
\* the row, the dead-letter write and the commit all fail.  Its workers are
\* goroutines of one process and end together, wherever each of them is.
Crash(pod) ==
  /\ \E w \in pod : pc[w] # "idle"
  /\ Fault
  /\ crashes' = crashes + 1
  /\ Leave(pod)
  /\ UNCHANGED <<broker, world, errors>>

\* Mutated form: a failed handler is called again without counting.
RetryForever(w) ==
  /\ pc[w] = "error"
  /\ Goto(w, "dispatch")
  /\ UNCHANGED <<broker, world, worker, counted>>

\* The handler returned an error.
Retry(w) ==
  /\ pc[w] = "error"
  /\ IF tries[w] = MaxRetries
     THEN dead' = dead \cup {event[w]} /\ Goto(w, "commit") /\ UNCHANGED tries
     ELSE tries' = [tries EXCEPT ![w] = @ + 1] /\ Goto(w, "dispatch") /\ UNCHANGED dead
  /\ UNCHANGED <<acked, world, event, calls, verdict, counted>>

Commit(w) ==
  /\ pc[w] = "commit"
  /\ acked' = acked \cup {event[w]}
  /\ Leave({w})
  /\ UNCHANGED <<dead, world, counted>>

-----------------------------------------------------------------------------
(* handleMessage and Dispatch                                               *)

Discard(w) ==
  /\ pc[w] = "dispatch"
  /\ event[w] \in Malformed
  /\ Goto(w, "commit")
  /\ UNCHANGED <<broker, world, worker, counted>>

\* Mutated form: an unknown channel is logged and skipped.
RejectSilently(w) ==
  /\ pc[w] = "dispatch"
  /\ event[w] \in Unroutable \ Malformed
  /\ Goto(w, "commit")
  /\ UNCHANGED <<broker, world, worker, counted>>

Reject(w) ==
  /\ pc[w] = "dispatch"
  /\ event[w] \in Unroutable \ Malformed
  /\ Goto(w, "error")
  /\ UNCHANGED <<broker, world, worker, counted>>

Routable(w) == pc[w] = "dispatch" /\ event[w] \notin Malformed \cup Unroutable

\* The profile read or the INSERT fails; the row may be there all the same.
InsertError(w) ==
  /\ Routable(w)
  /\ DatabaseError
  /\ \/ UNCHANGED row
     \/ row[event[w]] = "none" /\ row' = [row EXCEPT ![event[w]] = "pending"]
  /\ Goto(w, "error")
  /\ UNCHANGED <<broker, posts, accepted, worker>>

\* Mutated form: ON CONFLICT DO UPDATE, a redelivered event is sent again.
InsertUpsert(w) ==
  /\ Routable(w)
  /\ row' = [row EXCEPT ![event[w]] = "pending"]
  /\ calls' = [calls EXCEPT ![w] = 1]
  /\ Goto(w, "send")
  /\ UNCHANGED <<broker, posts, accepted, event, tries, verdict, counted>>

Insert(w) ==
  /\ Routable(w)
  /\ row[event[w]] = "none"
  /\ row' = [row EXCEPT ![event[w]] = "pending"]
  /\ calls' = [calls EXCEPT ![w] = 1]
  /\ Goto(w, "send")
  /\ UNCHANGED <<broker, posts, accepted, event, tries, verdict, counted>>

\* ErrDuplicateEvent: somebody recorded the event, the handler returns nil.
Duplicate(w) ==
  /\ Routable(w)
  /\ row[event[w]] # "none"
  /\ Goto(w, "commit")
  /\ UNCHANGED <<broker, world, worker, counted>>

Return(w, v) == verdict' = [verdict EXCEPT ![w] = v] /\ Goto(w, "update") /\ UNCHANGED calls

\* The provider is never called: the account has no chat id, token, number or URL.
SendUnlinked(w) ==
  /\ pc[w] = "send"
  /\ calls[w] = 1
  /\ Return(w, "soft")
  /\ UNCHANGED <<broker, world, event, tries, counted>>

\* One provider call inside withRetry.  A call that fails transiently may still
\* have been accepted (the answer was lost).
SendCall(w) ==
  LET e == event[w]
  IN  /\ pc[w] = "send"
      /\ posts' = [posts EXCEPT ![e] = @ + 1]
      /\ \/ accepted' = accepted \cup {e} /\ Return(w, "ok")
         \/ UNCHANGED accepted /\ \E v \in {"soft", "error"} : Return(w, v)
         \/ /\ accepted' \in {accepted, accepted \cup {e}}
            /\ IF calls[w] = Attempts
               THEN Return(w, "error")
               ELSE calls' = [calls EXCEPT ![w] = @ + 1] /\ UNCHANGED <<pc, verdict>>
      /\ UNCHANGED <<broker, row, event, tries, counted>>

Status(v)    == IF v = "ok" THEN "sent" ELSE "failed"
Finish(w, stage) ==
  /\ Goto(w, stage)
  /\ calls' = [calls EXCEPT ![w] = 0]
  /\ verdict' = [verdict EXCEPT ![w] = "none"]
NextStage(v) == IF v = "error" THEN "error" ELSE "commit"

\* Mutated form: the status looks at the error only, not at result.Success.
StatusIgnoringSuccess(w) ==
  [row EXCEPT ![event[w]] = IF verdict[w] = "error" THEN "failed" ELSE "sent"]

Outcome(w)   == [row EXCEPT ![event[w]] = Status(verdict[w])]

\* Mutated form: a failed Send returns before the row is updated.
UpdateOnlySuccess(w) ==
  /\ pc[w] = "update"
  /\ row' = IF verdict[w] = "error" THEN row ELSE Outcome(w)
  /\ Finish(w, NextStage(verdict[w]))
  /\ UNCHANGED <<broker, posts, accepted, event, tries, counted>>

\* UpdateStatus, then the error of Send, if any, is returned to the broker.
Update(w) ==
  /\ pc[w] = "update"
  /\ row' = Outcome(w)
  /\ Finish(w, NextStage(verdict[w]))
  /\ UNCHANGED <<broker, posts, accepted, event, tries, counted>>

UpdateError(w) ==
  /\ pc[w] = "update"
  /\ DatabaseError
  /\ row' \in {row, Outcome(w)}
  /\ Finish(w, "error")
  /\ UNCHANGED <<broker, posts, accepted, event, tries>>

-----------------------------------------------------------------------------
Handler(w) ==
  \/ Discard(w) \/ Reject(w)
  \/ Insert(w) \/ Duplicate(w) \/ InsertError(w)
  \/ SendUnlinked(w) \/ SendCall(w)
  \/ Update(w) \/ UpdateError(w)

Next ==
  \/ \E w \in Workers :
       \/ \E e \in Events : Receive(w, e) \/ Redeliver(w, e)
       \/ Handler(w)
       \/ Retry(w) \/ Commit(w)
  \/ \E pod \in Pods : Crash(pod)

Spec == Init /\ [][Next]_vars

\* The broker delivers what is not acknowledged (KafkaConsumer's
\* EventuallySettled), provider calls run under client timeouts, and a worker
\* that holds an event goes on.
Fairness ==
  /\ \A e \in Events : WF_vars(\E w \in Workers : Receive(w, e))
  /\ \A w \in Workers : WF_vars(Handler(w) \/ Retry(w) \/ Commit(w))

FairSpec == Spec /\ Fairness

-----------------------------------------------------------------------------
(* Properties                                                               *)

\* However often an event is redelivered, after crashes, rebalances, failed
\* updates or beside a worker of the old generation, its provider is called by
\* one Send only: the unique row is taken before the first call.
SendsBounded == \A e \in Events : posts[e] <= Attempts

\* A row says `sent' only if a provider accepted the notification.
SentIsTrue == \A e \in Events : row[e] = "sent" => e \in accepted

\* Nothing is acknowledged without a trace: a well-formed event has its row in
\* alert_history or is on the dead-letter topic.
AckedAccounted == \A e \in acked \ Malformed : row[e] # "none" \/ e \in dead

\* Rows are left `pending' behind the workers' backs only by a database error around
\* the INSERT and the UPDATE, each of which strands one row at most, or by a crash,
\* which strands one row at most for each worker of the pod.
InFlight(e) == \E w \in Workers : event[w] = e /\ pc[w] \in Sending
StrandedNeedsFault ==
  Cardinality({e \in Events : row[e] = "pending" /\ ~InFlight(e)})
    <= errors + WorkerPool * crashes

\* A delivery record is final: no redelivery or late worker rewrites an outcome.
RecordsFinal ==
  [][\A e \in Events : row[e] \in {"sent", "failed"} => row'[e] = row[e]]_vars

\* Every event is acknowledged in the end: none blocks its partition for ever.
EventuallyAcked == \A e \in Events : <>(e \in acked)

=============================================================================
