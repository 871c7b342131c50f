------------------------ MODULE AlertDispatcherProofs ------------------------
(***************************************************************************)
(* Proofs about AlertDispatcher for every set of events and workers and    *)
(* for any number of retries, provider attempts and faults: the provider   *)
(* is called by one Send per event, the delivery record is true and final, *)
(* nothing is acknowledged without a trace, and what is stranded has had a *)
(* fault.                                                                  *)
(***************************************************************************)
EXTENDS AlertDispatcher, FiniteSetTheorems, TLAPS

\* The row is a lock: who is in Send, or about to write its outcome, inserted the
\* row, which is pending until then, and nobody else is there with the same event.
RowIsLock ==
  /\ \A w \in Workers : pc[w] \in Sending => row[event[w]] = "pending"
  /\ \A v, w \in Workers :
       pc[v] \in Sending /\ pc[w] \in Sending /\ event[v] = event[w] => v = w

\* No call precedes the row, and a Send has made fewer calls than it counts.
CallsCounted ==
  /\ \A e \in Events : row[e] = "none" => posts[e] = 0
  /\ \A w \in Workers :
       pc[w] = "send" => calls[w] >= 1 /\ posts[event[w]] < calls[w]

\* The provider accepted what a worker is about to record as sent.
OkIsTrue ==
  \A w \in Workers : pc[w] = "update" /\ verdict[w] = "ok" => event[w] \in accepted

\* What a worker is about to acknowledge has left its trace.
Traced(e) == e \in Malformed \/ row[e] # "none" \/ e \in dead
CommitTraced == \A w \in Workers : pc[w] = "commit" => Traced(event[w])

IInv ==
  /\ TypeOK
  /\ RowIsLock
  /\ CallsCounted /\ SendsBounded
  /\ OkIsTrue /\ SentIsTrue
  /\ CommitTraced /\ AckedAccounted

-----------------------------------------------------------------------------
\* The state of the model always has its type.
THEOREM TypeCorrect == Spec => []TypeOK
<1> USE EventsAssumption, LimitsAssumption DEF TypeOK, Statuses, Stages
<1>1. Init => TypeOK
  BY DEF Init
<1>2. TypeOK /\ [Next]_vars => TypeOK'
  <2> SUFFICES ASSUME TypeOK, [Next]_vars PROVE TypeOK'
    OBVIOUS
  <2> USE DEF broker, worker, world, counted, Goto
  <2>1. ASSUME NEW w \in Workers, NEW e \in Events, Receive(w, e) \/ Redeliver(w, e)
        PROVE  TypeOK'
    BY <2>1 DEF Receive, Redeliver, Deliver, Fault, counted
  <2>2. ASSUME NEW w \in Workers, Handler(w) PROVE TypeOK'
    <3>1. CASE Discard(w) \/ Reject(w)
      BY <3>1 DEF Discard, Reject
    <3>2. CASE Insert(w)
      BY <3>2 DEF Insert, Routable
    <3>3. CASE Duplicate(w)
      BY <3>3 DEF Duplicate, Routable
    <3>4. CASE InsertError(w)
      BY <3>4 DEF InsertError, Routable, Fault, DatabaseError
    <3>5. CASE SendUnlinked(w)
      BY <3>5 DEF SendUnlinked, Return
    <3>6. CASE SendCall(w)
      <4>1. event[w] \in Events
        BY <3>6 DEF SendCall
      <4>2. posts' \in [Events -> Nat] /\ accepted' \subseteq Events
        BY <3>6, <4>1 DEF SendCall
      <4> QED
        BY <3>6, <4>2 DEF SendCall, Return
    <3>7. CASE Update(w)
      BY <3>7 DEF Update, Finish, NextStage, Outcome, Status
    <3>8. CASE UpdateError(w)
      BY <3>8 DEF UpdateError, Finish, Outcome, Status, Fault, DatabaseError
    <3> QED
      BY <2>2, <3>1, <3>2, <3>3, <3>4, <3>5, <3>6, <3>7, <3>8 DEF Handler
  <2>3. ASSUME NEW w \in Workers, Retry(w) \/ Commit(w) PROVE TypeOK'
    BY <2>3 DEF Retry, Commit, Leave
  <2>4. ASSUME NEW pod \in Pods, Crash(pod) PROVE TypeOK'
    BY <2>4 DEF Crash, Leave, Fault
  <2>5. CASE UNCHANGED vars
    BY <2>5 DEF vars
  <2> QED
    BY <2>1, <2>2, <2>3, <2>4, <2>5 DEF Next
<1> QED
  BY <1>1, <1>2, PTL DEF Spec


-----------------------------------------------------------------------------
\* The row, the calls made under it and the traces of what is acknowledged, step
\* by step.
LEMMA InvariantStep ==
  ASSUME IInv, [Next]_vars, TypeOK'
  PROVE  IInv'
<1> USE EventsAssumption, LimitsAssumption
    DEF IInv, TypeOK, Statuses, Stages, Sending, RowIsLock, CallsCounted, SendsBounded,
        OkIsTrue, SentIsTrue, Traced, CommitTraced, AckedAccounted,
        broker, worker, world, counted, Goto
<1>1. ASSUME NEW w \in Workers, NEW e \in Events, Receive(w, e) \/ Redeliver(w, e)
      PROVE  IInv'
  BY <1>1 DEF Receive, Redeliver, Deliver
<1>2. ASSUME NEW w \in Workers, Handler(w) PROVE IInv'
  <2>1. CASE Discard(w) \/ Reject(w)
    BY <2>1 DEF Discard, Reject
  <2>2. CASE Insert(w)
    <3>1. pc[w] = "dispatch" /\ event[w] \in Events /\ row[event[w]] = "none"
      BY <2>2 DEF Insert, Routable
    <3>2. \A v \in Workers : pc[v] \in Sending => event[v] # event[w]
      BY <3>1
    <3>3. RowIsLock'
      BY <2>2, <3>1, <3>2 DEF Insert
    <3>4. CallsCounted' /\ SendsBounded'
      BY <2>2, <3>1, <3>2 DEF Insert
    <3>5. OkIsTrue' /\ SentIsTrue'
      BY <2>2, <3>1, <3>2 DEF Insert
    <3>6. CommitTraced' /\ AckedAccounted'
      BY <2>2, <3>1 DEF Insert
    <3> QED
      BY <3>3, <3>4, <3>5, <3>6
  <2>3. CASE Duplicate(w)
    BY <2>3 DEF Duplicate, Routable
  <2>4. CASE InsertError(w)
    BY <2>4 DEF InsertError, Routable
  <2>5. CASE SendUnlinked(w)
    BY <2>5 DEF SendUnlinked, Return
  <2>6. CASE SendCall(w)
    <3>1. pc[w] = "send" /\ event[w] \in Events /\ row[event[w]] = "pending"
      BY <2>6 DEF SendCall
    <3>2. \A v \in Workers \ {w} : pc[v] \in Sending => event[v] # event[w]
      BY <3>1
    <3>3. /\ posts' = [posts EXCEPT ![event[w]] = @ + 1]
          /\ accepted \subseteq accepted'
          /\ UNCHANGED <<acked, dead, row, event>>
      BY <2>6 DEF SendCall
    <3>4. \A v \in Workers \ {w} : pc'[v] = pc[v] /\ calls'[v] = calls[v] /\ verdict'[v] = verdict[v]
      BY <2>6 DEF SendCall, Return
    <3>5. \/ pc'[w] = "update" /\ verdict'[w] = "ok" /\ event[w] \in accepted'
          \/ pc'[w] = "update" /\ verdict'[w] # "ok"
          \/ pc'[w] = "send" /\ calls'[w] = calls[w] + 1
      BY <2>6 DEF SendCall, Return
    <3>6. RowIsLock'
      BY <3>1, <3>3, <3>4, <3>5
    <3>7. CallsCounted'
      BY <3>1, <3>2, <3>3, <3>4, <3>5
    <3>8. SendsBounded'
      BY <3>1, <3>3
    <3>9. OkIsTrue' /\ SentIsTrue'
      BY <3>1, <3>3, <3>4, <3>5
    <3>10. CommitTraced' /\ AckedAccounted'
      BY <3>3, <3>4, <3>5
    <3> QED
      BY <3>6, <3>7, <3>8, <3>9, <3>10
  <2>7. ASSUME pc[w] = "update", row' \in {row, Outcome(w)}, pc' = [pc EXCEPT ![w] = pc'[w]],
               pc'[w] = "error" \/ (pc'[w] = "commit" /\ row' = Outcome(w)),
               Finish(w, pc'[w]), UNCHANGED <<broker, posts, accepted, event, tries>>
        PROVE  IInv'
    <3>1. event[w] \in Events /\ row[event[w]] = "pending"
      BY <2>7
    <3>2. \A v \in Workers \ {w} : pc[v] \in Sending => event[v] # event[w]
      BY <2>7
    <3>3. RowIsLock'
      BY <2>7, <3>1, <3>2 DEF Outcome, Finish
    <3>4. CallsCounted' /\ SendsBounded'
      BY <2>7, <3>1 DEF Outcome, Status, Finish
    <3>5. OkIsTrue' /\ SentIsTrue'
      BY <2>7, <3>1 DEF Outcome, Status, Finish
    <3>6. CommitTraced' /\ AckedAccounted'
      BY <2>7, <3>1 DEF Outcome, Status, Finish
    <3> QED
      BY <3>3, <3>4, <3>5, <3>6
  <2>8. CASE Update(w)
    BY <2>7, <2>8 DEF Update, Finish, NextStage
  <2>9. CASE UpdateError(w)
    BY <2>7, <2>9 DEF UpdateError, Finish
  <2> QED
    BY <1>2, <2>1, <2>2, <2>3, <2>4, <2>5, <2>6, <2>8, <2>9 DEF Handler
<1>3. ASSUME NEW w \in Workers, Retry(w) \/ Commit(w) PROVE IInv'
  BY <1>3 DEF Retry, Commit, Leave
<1>4. ASSUME NEW pod \in Pods, Crash(pod) PROVE IInv'
  BY <1>4 DEF Crash, Leave
<1>5. CASE UNCHANGED vars
  BY <1>5 DEF vars
<1> QED
  BY <1>1, <1>2, <1>3, <1>4, <1>5 DEF Next

LEMMA Invariant == Spec => []IInv
<1>1. Init => IInv
  BY EventsAssumption, LimitsAssumption
  DEF Init, IInv, TypeOK, Statuses, Stages, Sending, RowIsLock, CallsCounted, SendsBounded,
      OkIsTrue, SentIsTrue, Traced, CommitTraced, AckedAccounted
<1>2. IInv /\ [Next]_vars /\ TypeOK' => IInv'
  BY InvariantStep
<1> QED
  BY <1>1, <1>2, TypeCorrect, PTL DEF Spec

\* For any number of redeliveries, crashes and workers of old generations, the
\* provider is called at most Attempts times for an event.
THEOREM OneSendPerEvent == Spec => []SendsBounded
<1>1. IInv => SendsBounded
  BY DEF IInv
<1> QED
  BY <1>1, Invariant, PTL

\* A row that says `sent' is the record of a notification a provider accepted.
THEOREM SentRowsAreTrue == Spec => []SentIsTrue
<1>1. IInv => SentIsTrue
  BY DEF IInv
<1> QED
  BY <1>1, Invariant, PTL

\* A well-formed event whose offset is committed has its row in alert_history or
\* is on the dead-letter topic.
THEOREM NothingAckedUntraced == Spec => []AckedAccounted
<1>1. IInv => AckedAccounted
  BY DEF IInv
<1> QED
  BY <1>1, Invariant, PTL

-----------------------------------------------------------------------------
\* No step takes a row back: it only ever goes from none to pending, and from there
\* to its outcome, by the hand of the worker whose Send it records.
LEMMA RowStep ==
  ASSUME IInv, [Next]_vars, NEW e \in Events, row'[e] # row[e]
  PROVE  row[e] \in {"none", "pending"}
<1> USE DEF broker, worker, world, IInv, TypeOK, RowIsLock, Sending
<1>1. ASSUME NEW w \in Workers, Insert(w) \/ InsertError(w) PROVE row[e] = "none"
  BY <1>1 DEF Insert, InsertError
<1>2. ASSUME NEW w \in Workers, Update(w) \/ UpdateError(w) PROVE row[e] = "pending"
  BY <1>2 DEF Update, UpdateError, Outcome
<1>3. ASSUME NEW w \in Workers,
             Handler(w), ~Insert(w), ~InsertError(w), ~Update(w), ~UpdateError(w)
      PROVE  FALSE
  BY <1>3 DEF Handler, Discard, Reject, Duplicate, SendUnlinked, SendCall
<1>4. ASSUME NEW w \in Workers, NEW f \in Events,
             Receive(w, f) \/ Redeliver(w, f) \/ Retry(w) \/ Commit(w)
      PROVE  FALSE
  BY <1>4 DEF Receive, Redeliver, Deliver, Retry, Commit
<1>5. ASSUME NEW pod \in Pods, Crash(pod) PROVE FALSE
  BY <1>5 DEF Crash
<1>6. ~UNCHANGED vars
  BY DEF vars
<1> QED
  BY <1>1, <1>2, <1>3, <1>4, <1>5, <1>6 DEF Next

\* A delivery record is final: no redelivered event and no worker of an old
\* generation rewrites an outcome.
THEOREM OutcomesFinal == Spec => RecordsFinal
<1>1. ASSUME IInv, [Next]_vars
      PROVE  [\A e \in Events : row[e] \in {"sent", "failed"} => row'[e] = row[e]]_vars
  BY <1>1, RowStep
<1> QED
  BY <1>1, Invariant, PTL DEF Spec, RecordsFinal

-----------------------------------------------------------------------------
(* What is stranded had a fault                                             *)

\* A set that gains what some workers hold grows by their number at the most.
LEMMA SomeMore ==
  ASSUME NEW S, IsFiniteSet(S), NEW ws, IsFiniteSet(ws), NEW f, ws \subseteq DOMAIN f,
         NEW T, T \subseteq S \cup {f[w] : w \in ws}
  PROVE  /\ IsFiniteSet(T)
         /\ Cardinality(S) \in Nat /\ Cardinality(T) \in Nat /\ Cardinality(ws) \in Nat
         /\ Cardinality(T) <= Cardinality(S) + Cardinality(ws)
<1> DEFINE gained == {f[w] : w \in ws}
           larger == S \cup gained
<1>1. IsFiniteSet(gained) /\ Cardinality(gained) <= Cardinality(ws)
  <2> DEFINE g == [w \in ws |-> f[w]]
  <2>1. g \in Surjection(ws, gained)
    BY DEF Surjection
  <2> QED
    BY <2>1, FS_Surjection
<1>2. T \in SUBSET larger
  OBVIOUS
<1> HIDE DEF gained
<1>3. IsFiniteSet(S \cap gained)
  BY FS_Subset
<1>4. /\ IsFiniteSet(larger)
      /\ Cardinality(larger) = Cardinality(S) + Cardinality(gained) - Cardinality(S \cap gained)
  BY <1>1, FS_Union
<1> HIDE DEF larger
<1>5. IsFiniteSet(T) /\ Cardinality(T) <= Cardinality(larger)
  BY <1>2, <1>4, FS_Subset
<1>6. /\ Cardinality(S) \in Nat /\ Cardinality(T) \in Nat /\ Cardinality(ws) \in Nat
      /\ Cardinality(gained) \in Nat /\ Cardinality(S \cap gained) \in Nat
  BY <1>1, <1>3, <1>5, FS_CardinalityType
<1> QED
  BY <1>1, <1>4, <1>5, <1>6

Stranded == {e \in Events : row[e] = "pending" /\ ~InFlight(e)}

Budget == errors + WorkerPool * crashes

StrandedCounted == IsFiniteSet(Stranded) /\ Cardinality(Stranded) <= Budget

\* A step strands the events of some workers at the most: of none, of the one that met a
\* database error, or of those of a pod that crashed.
Strands(ws) == Stranded' \subseteq Stranded \cup {event[w] : w \in ws}

LEMMA StrandedStep ==
  ASSUME IInv, [Next]_vars
  PROVE  \/ Strands({}) /\ UNCHANGED <<errors, crashes>>
         \/ errors' = errors + 1 /\ UNCHANGED crashes /\ \E w \in Workers : Strands({w})
         \/ crashes' = crashes + 1 /\ UNCHANGED errors /\ \E pod \in Pods : Strands(pod)
<1> USE DEF IInv, TypeOK, Statuses, Stages, Sending, RowIsLock, Stranded, Strands, InFlight,
            broker, worker, world, counted, Goto
<1> DEFINE Harmless == Strands({}) /\ UNCHANGED <<errors, crashes>>
<1>1. ASSUME NEW w \in Workers, NEW e \in Events, Receive(w, e) \/ Redeliver(w, e)
      PROVE  Harmless
  BY <1>1 DEF Receive, Redeliver, Deliver
<1>2. ASSUME NEW w \in Workers, Discard(w) \/ Reject(w) \/ Duplicate(w) \/ Retry(w)
      PROVE  Harmless
  BY <1>2 DEF Discard, Reject, Duplicate, Routable, Retry
<1>3. ASSUME NEW w \in Workers, Commit(w) PROVE Harmless
  <2>1. \A v \in Workers : pc[v] \in Sending => pc'[v] = pc[v] /\ event'[v] = event[v]
    BY <1>3 DEF Commit, Leave
  <2>2. UNCHANGED <<row, errors, crashes>>
    BY <1>3 DEF Commit
  <2> QED
    BY <2>1, <2>2
<1>4. ASSUME NEW w \in Workers, Insert(w) PROVE Harmless
  BY <1>4 DEF Insert, Routable
<1>5. ASSUME NEW w \in Workers, SendUnlinked(w) \/ SendCall(w) PROVE Harmless
  <2>1. \A v \in Workers : pc[v] \in Sending => pc'[v] \in Sending
    BY <1>5 DEF SendUnlinked, SendCall, Return
  <2>2. UNCHANGED <<row, event, errors, crashes>>
    BY <1>5 DEF SendUnlinked, SendCall
  <2> QED
    BY <2>1, <2>2
<1>6. ASSUME NEW w \in Workers, Update(w) PROVE Harmless
  <2>1. event[w] \in Events /\ row' = [row EXCEPT ![event[w]] = Status(verdict[w])]
    BY <1>6 DEF Update, Outcome
  <2>2. row'[event[w]] # "pending"
    BY <2>1 DEF Status
  <2>3. \A v \in Workers \ {w} : pc'[v] = pc[v]
    BY <1>6 DEF Update, Finish
  <2>4. UNCHANGED <<event, errors, crashes>>
    BY <1>6 DEF Update
  <2> QED
    BY <2>1, <2>2, <2>3, <2>4
<1>7. ASSUME NEW w \in Workers, InsertError(w) \/ UpdateError(w)
      PROVE  errors' = errors + 1 /\ UNCHANGED crashes /\ Strands({w})
  <2>1. event[w] \in Events /\ UNCHANGED event /\ \A v \in Workers \ {w} : pc'[v] = pc[v]
    BY <1>7 DEF InsertError, Routable, UpdateError, Finish
  <2>2. \A e \in Events \ {event[w]} : row'[e] = row[e]
    BY <1>7 DEF InsertError, UpdateError, Outcome
  <2>3. Strands({w})
    BY <2>1, <2>2
  <2>4. errors' = errors + 1 /\ UNCHANGED crashes
    BY <1>7 DEF InsertError, UpdateError, DatabaseError
  <2> QED
    BY <2>3, <2>4
<1>8. ASSUME NEW pod \in Pods, Crash(pod)
      PROVE  crashes' = crashes + 1 /\ UNCHANGED errors /\ Strands(pod)
  <2>1. /\ UNCHANGED row
        /\ \A v \in Workers \ pod : pc'[v] = pc[v] /\ event'[v] = event[v]
    BY <1>8 DEF Crash, Leave
  <2>2. pod \subseteq Workers
    BY PodsAssumption
  <2>3. Strands(pod)
    BY <2>1, <2>2
  <2> QED
    BY <1>8, <2>3 DEF Crash
<1>9. CASE UNCHANGED vars
  BY <1>9 DEF vars
<1> HIDE DEF Strands
<1> QED
  BY <1>1, <1>2, <1>3, <1>4, <1>5, <1>6, <1>7, <1>8, <1>9 DEF Next, Handler

\* Each database error strands one pending row at most and each crash one for each
\* worker of its pod: however many events, pods and workers there are, nothing else
\* leaves a row pending behind the workers' backs.
THEOREM StrandedHadFault == Spec => []StrandedNeedsFault
<1>1. Init => StrandedCounted
  <2> SUFFICES ASSUME Init PROVE Stranded = {} /\ Budget = 0
    BY FS_EmptySet DEF StrandedCounted
  <2> QED
    BY PodsAssumption DEF Init, Stranded, Budget
<1>2. ASSUME StrandedCounted, IInv, [Next]_vars, TypeOK' PROVE StrandedCounted'
  <2> DEFINE Enough(n) == Budget' = Budget + n
  <2>1. errors \in Nat /\ crashes \in Nat /\ WorkerPool \in Nat /\ Budget \in Nat
    BY <1>2, PodsAssumption DEF IInv, TypeOK, Budget
  <2>2. Workers = DOMAIN event
    BY <1>2 DEF IInv, TypeOK
  <2>3. SUFFICES ASSUME NEW ws \in SUBSET Workers, Strands(ws), IsFiniteSet(ws),
                        NEW n \in Nat, Cardinality(ws) <= n, Enough(n)
                 PROVE  StrandedCounted'
    <3>1. CASE Strands({}) /\ UNCHANGED <<errors, crashes>>
      <4>1. IsFiniteSet({}) /\ Cardinality({}) <= 0 /\ Enough(0)
        BY <2>1, <3>1, FS_EmptySet DEF Budget
      <4> QED
        BY <2>3, <3>1, <4>1
    <3>2. CASE errors' = errors + 1 /\ UNCHANGED crashes /\ \E w \in Workers : Strands({w})
      <4>1. PICK w \in Workers : Strands({w})
        BY <3>2
      <4>2. IsFiniteSet({w}) /\ Cardinality({w}) <= 1
        BY FS_Singleton
      <4>3. WorkerPool * crashes \in Nat
        BY <2>1
      <4>4. Enough(1)
        BY <2>1, <3>2, <4>3 DEF Budget
      <4> QED
        BY <2>3, <4>1, <4>2, <4>4
    <3>3. CASE crashes' = crashes + 1 /\ UNCHANGED errors /\ \E pod \in Pods : Strands(pod)
      <4>1. PICK pod \in Pods : Strands(pod)
        BY <3>3
      <4>2. pod \in SUBSET Workers /\ IsFiniteSet(pod) /\ Cardinality(pod) <= WorkerPool
        BY PodsAssumption
      <4>3. WorkerPool * (crashes + 1) = WorkerPool * crashes + WorkerPool
        BY <2>1
      <4>4. WorkerPool * crashes \in Nat
        BY <2>1
      <4>5. Enough(WorkerPool)
        BY <2>1, <3>3, <4>3, <4>4 DEF Budget
      <4> QED
        BY <2>1, <2>3, <4>1, <4>2, <4>5
    <3> QED
      BY <1>2, <3>1, <3>2, <3>3, StrandedStep
  <2>4. /\ IsFiniteSet(Stranded')
        /\ Cardinality(Stranded) \in Nat /\ Cardinality(Stranded') \in Nat
        /\ Cardinality(ws) \in Nat
        /\ Cardinality(Stranded') <= Cardinality(Stranded) + Cardinality(ws)
    BY <1>2, <2>2, <2>3, SomeMore DEF Strands, StrandedCounted
  <2> QED
    BY <1>2, <2>1, <2>3, <2>4 DEF StrandedCounted
<1>3. StrandedCounted => StrandedNeedsFault
  BY DEF StrandedCounted, Budget, Stranded, StrandedNeedsFault
<1> QED
  BY <1>1, <1>2, <1>3, Invariant, TypeCorrect, PTL DEF Spec

=============================================================================
