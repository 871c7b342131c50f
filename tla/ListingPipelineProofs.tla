------------------------ MODULE ListingPipelineProofs ------------------------
(***************************************************************************)
(* Proofs about ListingPipeline for any listings, features, prices,        *)
(* workers, messages, faults, registers and calls: what the deduplicator,  *)
(* the enricher, the scorer and the change detector promise.               *)
(*                                                                         *)
(* The pipeline explores one worker at a time, so the invariant is one     *)
(* conjunct per worker over what they share: the rows that the normalizer  *)
(* stores, and the consume loop of PyConsumer.  About the loop the proofs  *)
(* need one fact, stated once for whatever a handler settles: everything   *)
(* behind the group's offset is settled, and everything that the owner was *)
(* given but the record in its hands.                                      *)
(***************************************************************************)
EXTENDS ListingPipeline, WellFoundedInduction, FiniteSetTheorems, TLAPS

-----------------------------------------------------------------------------
(* The consume loop, for whatever the handler of a worker settles           *)

\* consume has a record in its hands.
Busy == {"call", "wait", "deadletter", "commit"}

\* What is in hand is a published message, and of no later generation.
BrokerOK ==
  /\ BrokerTypeOK
  /\ committed <= logEnd /\ base <= logEnd
  /\ \A p \in Pods :
       /\ pos[p] <= logEnd /\ cur[p] <= logEnd
       /\ taken[p] <= generation
       /\ pc[p] \in Busy => cur[p] >= 1

\* The pod whose record nobody else has been given since.
Current(p) == owner = p /\ taken[p] = generation /\ pc[p] \in Busy
Mine(p)    == IF Current(p) THEN {cur[p]} ELSE {}

\* D is what is settled: everything behind the group's offset, and everything that
\* the owner was given but the record in its hands.
SettledBehind(D) ==
  /\ \A m \in 1..committed : m \in D
  /\ \A p \in Pods : owner = p =>
       /\ committed <= pos[p]
       /\ \A m \in 1..pos[p] : m \in D \/ (m \in Mine(p) /\ pc[p] # "commit")
       /\ Current(p) => pos[p] = cur[p] /\ committed < cur[p]
       /\ pc[p] \in Busy /\ ~Current(p) => pos[p] <= committed \/ pos[p] <= base

\* The handler of p goes on, raises or returns.
HandlerStep(p, stages) ==
  /\ pc[p] \in {"call", "wait"}
  /\ pc' = [pc EXCEPT ![p] = pc'[p]] /\ pc'[p] \in stages
  /\ attempt' \in [Pods -> 0..RetryLimit]
  /\ UNCHANGED <<log_, group, reader, dead>>

Handling == {"call", "wait", "deadletter"}

\* A handler that raises leaves its pod at the next attempt, or at the dead-letter topic.
LEMMA RaisedEffect ==
  ASSUME BrokerTypeOK, NEW p \in Pods, pc[p] \in {"call", "wait"}, Raised(p),
         UNCHANGED <<log_, group, reader, dead>>
  PROVE  HandlerStep(p, Handling)
<1> USE RetryAssumption DEF BrokerTypeOK, Raised, Goto, Loop, HandlerStep, Handling
<1>1. CASE attempt[p] = RetryLimit
  BY <1>1
<1>2. CASE attempt[p] # RetryLimit
  <2>1. attempt[p] + 1 \in 0..RetryLimit
    BY <1>2
  <2> QED
    BY <1>2, <2>1
<1> QED
  BY <1>1, <1>2

\* A handler that returns leaves its pod at the commit.
LEMMA ReturnedEffect ==
  ASSUME BrokerTypeOK, NEW p \in Pods, pc[p] \in {"call", "wait"}, Returned(p),
         UNCHANGED <<log_, group, reader, dead>>
  PROVE  HandlerStep(p, {"commit"})
BY DEF BrokerTypeOK, Returned, Goto, HandlerStep

Untouched == UNCHANGED <<log_, group, pc, reader, attempt, dead>>

\* The steps of the loop and of the handler, as far as the broker is concerned.
BrokerStep(p) ==
  /\ faults' \in 0..MaxFaults
  /\ \/ Untouched
     \/ AssignTo(p) \/ StartPod(p) \/ LoopStep(p) \/ Gone(p)
     \/ HandlerStep(p, Handling) \/ HandlerStep(p, {"commit"})

\* The loop keeps what is said of the positions.
LEMMA BrokerOKStep ==
  ASSUME BrokerOK, Produce \/ \E p \in Pods : BrokerStep(p)
  PROVE  BrokerOK'
<1> USE RetryAssumption, BoundsAssumption
    DEF BrokerOK, BrokerTypeOK, Loop, Messages, NoOffset, log_, group, reader, Busy
<1>1. CASE Produce
  BY <1>1 DEF Produce
<1> SUFFICES ASSUME NEW p \in Pods, BrokerStep(p)
             PROVE  BrokerOK'
  BY <1>1
<1>2. CASE AssignTo(p)
  BY <1>2 DEF BrokerStep, AssignTo
<1>3. CASE StartPod(p)
  BY <1>3 DEF BrokerStep, StartPod, Goto
<1>4. CASE Fetch(p)
  BY <1>4 DEF BrokerStep, Fetch, Goto
<1>5. CASE DeadLetter(p)
  <2>1. cur[p] \in 1..MaxMessages
    BY <1>5 DEF DeadLetter
  <2> QED
    BY <1>5, <2>1 DEF BrokerStep, DeadLetter, Goto
<1>6. CASE Commit(p)
  BY <1>6 DEF BrokerStep, Commit, Goto
<1>7. CASE Gone(p)
  BY <1>7 DEF BrokerStep, Gone, Goto
<1>8. CASE HandlerStep(p, Handling) \/ HandlerStep(p, {"commit"})
  BY <1>8 DEF BrokerStep, HandlerStep, Handling
<1>9. CASE Untouched
  BY <1>9 DEF BrokerStep, Untouched
<1> QED
  BY <1>2, <1>3, <1>4, <1>5, <1>6, <1>7, <1>8, <1>9 DEF BrokerStep, LoopStep

\* What the group has not come to yet.
Ahead == {m \in 1..logEnd : m > committed /\ (owner \in Pods => m > pos[owner])}

\* Nor does anything come loose while the group stands still.
LEMMA SettledBehindStays ==
  ASSUME NEW D, NEW E, SettledBehind(D), D \subseteq E, UNCHANGED broker
  PROVE  SettledBehind(E)'
BY DEF SettledBehind, Current, Mine, broker

\* What the handler has to keep settled, step by step, is enough.  Only the record
\* in the hands of the current owner, and what is still to come, may be unsettled.
Settles(p, D, E) ==
  \/ Untouched /\ D \subseteq E
  \/ AssignTo(p) /\ D \cup 1..base' \subseteq E
  \/ (StartPod(p) \/ Fetch(p) \/ Commit(p)) /\ D \subseteq E
  \/ DeadLetter(p) /\ D \cup {cur[p]} \subseteq E
  \/ Gone(p) /\ D \ (Mine(p) \cup Ahead) \subseteq E
  \/ HandlerStep(p, Handling) /\ D \ (Mine(p) \cup Ahead) \subseteq E
  \/ HandlerStep(p, {"commit"}) /\ D \cup Mine(p) \subseteq E

\* What is settled stays behind the offset, when a step settles what it passes.
LEMMA SettledBehindStep ==
  ASSUME BrokerOK, NEW D, NEW E, SettledBehind(D),
         (Produce /\ D \subseteq E) \/ \E p \in Pods : Settles(p, D, E)
  PROVE  SettledBehind(E)'
<1> USE PodsAssumption DEF BrokerOK, BrokerTypeOK, NoOffset, log_, group, reader, Busy,
        SettledBehind, Current, Mine, Ahead
<1>1. CASE Produce /\ D \subseteq E
  BY <1>1 DEF Produce
<1> SUFFICES ASSUME NEW p \in Pods, Settles(p, D, E)
             PROVE  SettledBehind(E)'
  BY <1>1
<1>2. CASE AssignTo(p) /\ D \cup 1..base' \subseteq E
  BY <1>2 DEF AssignTo
<1>3. CASE StartPod(p) /\ D \subseteq E
  BY <1>3 DEF StartPod, Goto
<1>4. CASE Fetch(p) /\ D \subseteq E
  BY <1>4 DEF Fetch, Goto
<1>5. CASE Commit(p) /\ D \subseteq E
  BY <1>5 DEF Commit, Goto
<1>6. CASE DeadLetter(p) /\ D \cup {cur[p]} \subseteq E
  BY <1>6 DEF DeadLetter, Goto
<1>7. CASE Gone(p) /\ D \ (Mine(p) \cup Ahead) \subseteq E
  BY <1>7 DEF Gone, Goto
<1>8. CASE HandlerStep(p, Handling) /\ D \ (Mine(p) \cup Ahead) \subseteq E
  BY <1>8 DEF HandlerStep, Handling
<1>9. CASE HandlerStep(p, {"commit"}) /\ D \cup Mine(p) \subseteq E
  BY <1>9 DEF HandlerStep
<1>10. CASE Untouched /\ D \subseteq E
  BY <1>10 DEF Untouched
<1> QED
  BY <1>2, <1>3, <1>4, <1>5, <1>6, <1>7, <1>8, <1>9, <1>10 DEF Settles

-----------------------------------------------------------------------------
(* The rows, for whatever a worker writes to them                           *)

RowColumns == {"id", "price", "seen", "text", "status", "canonical", "enrichment", "year", "scrapes"}

\* A row has the uuid of an upsert of its listing, so no two rows share one.
RowFor(l) ==
  /\ rows[l] # NoRow
  /\ DOMAIN rows[l] = RowColumns
  /\ rows[l].id \in 1..Len(upserts)
  /\ upserts[rows[l].id] = l

RowsOK ==
  /\ upserts \in Seq(Listings)
  /\ normalized \in Seq(Nat)
  /\ Len(normalized) = logEnd
  /\ \A m \in 1..logEnd : normalized[m] \in 1..Len(upserts)
  /\ \A m, k \in 1..logEnd : normalized[m] = normalized[k] => m = k
  /\ rows = [l \in Listings |-> rows[l]]
  /\ \A l \in Listings : rows[l] = NoRow \/ RowFor(l)
  /\ \A n \in 1..Len(upserts) : upserts[n] \in Stored

\* The row that a message reaches, if its uuid is one's.
Reached(m) == RowOf(normalized[m])

\* The columns may change, not the rows' ids.
Rewrites ==
  /\ UNCHANGED <<upserts, normalized, logEnd>>
  /\ rows' = [l \in Listings |-> rows'[l]]
  /\ \A l \in Listings :
       /\ rows[l] = NoRow => rows'[l] = NoRow
       /\ rows[l] # NoRow => DOMAIN rows'[l] = DOMAIN rows[l] /\ rows'[l].id = rows[l].id

\* An UPDATE keeps what the rows are and whose message is whose.
LEMMA RewritesStep ==
  ASSUME RowsOK, Rewrites
  PROVE  /\ RowsOK'
         /\ Stored' = Stored
         /\ \A m : RowOf(m)' = RowOf(m)
         /\ \A m : Reached(m)' = Reached(m)
<1>1. ASSUME NEW l \in Listings, rows[l] # NoRow
      PROVE  RowFor(l)' /\ rows'[l] # NoRow
  BY <1>1 DEF RowsOK, Rewrites, RowFor, NoRow
<1>3. Stored' = Stored
  BY <1>1 DEF Rewrites, Stored
<1>2. RowsOK'
  BY <1>1, <1>3 DEF RowsOK, Rewrites
<1>4. ASSUME NEW m
      PROVE  RowOf(m)' = RowOf(m)
  BY <1>3 DEF Rewrites, RowOf, Stored
<1>5. ASSUME NEW m
      PROVE  Reached(m)' = Reached(m)
  BY <1>3 DEF Rewrites, Reached, RowOf, Stored
<1> QED
  BY <1>2, <1>3, <1>4, <1>5

\* An upsert of l: its row keeps id and the columns of the workers, or is new and
\* has the id of its message.
LEMMA UpsertStep ==
  ASSUME RowsOK, NEW l \in Listings, NEW price \in Prices, Upsert(l, price), UNCHANGED logEnd
  PROVE  /\ RowsOK'
         /\ UNCHANGED normalized
         /\ Len(upserts') = Len(upserts) + 1
         /\ \A m \in 1..Len(upserts) : upserts'[m] = upserts[m]
         /\ \A k \in Listings \ {l} : rows'[k] = rows[k]
         /\ rows'[l] = IF rows[l] = NoRow THEN NewRow(l, Len(upserts) + 1, price)
                       ELSE Refreshed(l, Len(upserts) + 1, price)
         /\ Stored' = Stored \cup {l}
         /\ \A k \in Stored : rows'[k].id = rows[k].id
         /\ l \notin Stored => rows'[l].id = Len(upserts) + 1
         /\ \A m \in 1..Len(upserts) : RowOf(m)' = RowOf(m)
<1> DEFINE id == Len(upserts) + 1
<1>1. /\ upserts' = Append(upserts, l)
      /\ rows' = [rows EXCEPT ![l] = IF @ = NoRow THEN NewRow(l, id, price)
                                     ELSE Refreshed(l, id, price)]
      /\ UNCHANGED <<normalized, logEnd>>
  BY DEF Upsert
<1>2. /\ upserts' \in Seq(Listings)
      /\ Len(upserts') = id
      /\ \A m \in 1..Len(upserts) : upserts'[m] = upserts[m]
      /\ upserts'[id] = l
  BY <1>1 DEF RowsOK
<1>3. /\ rows' = [k \in Listings |-> rows'[k]]
      /\ \A k \in Listings \ {l} : rows'[k] = rows[k]
      /\ rows'[l] = IF rows[l] = NoRow THEN NewRow(l, id, price) ELSE Refreshed(l, id, price)
  BY <1>1 DEF RowsOK
<1>4. Len(upserts) \in Nat /\ id \in 1..Len(upserts')
  BY <1>2 DEF RowsOK
<1> HIDE DEF id
<1>5. ASSUME NEW k \in Listings \ {l}, rows[k] # NoRow
      PROVE  RowFor(k)'
  <2>1. RowFor(k)
    BY <1>5 DEF RowsOK
  <2>2. rows'[k] = rows[k]
    BY <1>3
  <2>3. rows[k].id \in 1..Len(upserts')
    BY <2>1, <1>2, <1>4 DEF RowFor, id
  <2>4. upserts'[rows[k].id] = upserts[rows[k].id]
    BY <2>1, <1>2 DEF RowFor
  <2> QED
    BY <2>1, <2>2, <2>3, <2>4, <1>5 DEF RowFor
<1>6. ASSUME rows[l] = NoRow
      PROVE  RowFor(l)' /\ rows'[l].id = id
  <2>1. rows'[l] = NewRow(l, id, price)
    BY <1>6, <1>3
  <2>2. rows'[l].id = id /\ DOMAIN rows'[l] = RowColumns
    BY <2>1 DEF NewRow, RowColumns
  <2>3. rows'[l] # NoRow
    BY <2>2, <1>4 DEF NoRow
  <2> QED
    BY <2>2, <2>3, <1>2, <1>4 DEF RowFor
<1>7. ASSUME rows[l] # NoRow
      PROVE  RowFor(l)' /\ rows'[l].id = rows[l].id
  <2>1. RowFor(l) /\ rows'[l] = Refreshed(l, id, price)
    BY <1>7, <1>3 DEF RowsOK
  <2>2. rows'[l].id = rows[l].id /\ DOMAIN rows'[l] = DOMAIN rows[l]
    BY <2>1 DEF Refreshed, RowFor, RowColumns
  <2>3. rows[l].id \in 1..Len(upserts') /\ upserts'[rows[l].id] = upserts[rows[l].id]
    BY <2>1, <1>2, <1>4 DEF RowFor, id
  <2>4. rows'[l] # NoRow
    BY <2>2, <2>3 DEF NoRow
  <2> QED
    BY <2>1, <2>2, <2>3, <2>4 DEF RowFor
<1>8. \A k \in Listings : rows'[k] = NoRow \/ RowFor(k)'
  <2>1. ASSUME NEW k \in Listings
        PROVE  rows'[k] = NoRow \/ RowFor(k)'
    <3>1. CASE k = l
      BY <3>1, <1>6, <1>7
    <3>2. CASE k # l
      BY <3>2, <1>3, <1>5
    <3> QED
      BY <3>1, <3>2
  <2> QED
    BY <2>1
<1>9. Stored' = Stored \cup {l}
  BY <1>3, <1>5, <1>6, <1>7 DEF Stored, RowFor
<1>10. RowsOK'
  <2>1. ASSUME NEW m \in 1..Len(upserts')
        PROVE  upserts'[m] \in Stored'
    <3>1. CASE m \in 1..Len(upserts)
      BY <3>1, <1>2, <1>9 DEF RowsOK
    <3>2. CASE m = id
      BY <3>2, <1>2, <1>9
    <3> QED
      BY <3>1, <3>2, <1>2, <1>4 DEF id
  <2>2. \A m \in 1..logEnd' : normalized'[m] \in 1..Len(upserts')
    BY <1>1, <1>2, <1>4 DEF RowsOK, id
  <2> QED
    BY <2>1, <2>2, <1>1, <1>2, <1>3, <1>8 DEF RowsOK, id
<1>11. /\ \A k \in Stored : rows'[k].id = rows[k].id
       /\ l \notin Stored => rows'[l].id = id
  BY <1>3, <1>6, <1>7 DEF Stored
<1>12. ASSUME NEW m \in 1..Len(upserts)
       PROVE  RowOf(m)' = RowOf(m)
  <2>1. m # id
    BY <1>4 DEF id
  <2> QED
    BY <2>1, <1>9, <1>11 DEF RowOf
<1> QED
  BY <1>1, <1>2, <1>3, <1>9, <1>10, <1>11, <1>12 DEF id

\* A publish names an upsert in one message more.
LEMMA AnnounceStep ==
  ASSUME RowsOK, BrokerTypeOK, NEW id, PublishNormalized(id), Produce
  PROVE  /\ RowsOK'
         /\ UNCHANGED <<rows, upserts, now>>
         /\ logEnd' = logEnd + 1
         /\ id \in 1..Len(upserts) /\ normalized'[logEnd + 1] = id
         /\ \A m \in 1..logEnd : normalized'[m] = normalized[m]
<1>1. /\ normalized' = Append(normalized, id) /\ id \in 1..Len(upserts)
      /\ UNCHANGED <<rows, upserts, now>>
      /\ logEnd' = logEnd + 1
  BY DEF PublishNormalized, Produce, RowsOK
<1>2. /\ normalized' \in Seq(Nat) /\ Len(normalized') = logEnd + 1
      /\ \A m \in 1..logEnd : normalized'[m] = normalized[m]
      /\ normalized'[logEnd + 1] = id
  BY <1>1 DEF RowsOK
<1>3. RowsOK'
  <2>1. \A m \in 1..logEnd' : normalized'[m] \in 1..Len(upserts')
    BY <1>1, <1>2 DEF RowsOK, BrokerTypeOK
  <2>2. \A m \in 1..logEnd : normalized[m] # id
    BY DEF PublishNormalized, RowsOK
  <2>3. \A m, k \in 1..logEnd' : normalized'[m] = normalized'[k] => m = k
    BY <2>2, <1>1, <1>2 DEF RowsOK, BrokerTypeOK
  <2> QED
    BY <2>1, <2>3, <1>1, <1>2 DEF RowsOK, RowFor, Stored
<1> QED
  BY <1>1, <1>2, <1>3

-----------------------------------------------------------------------------
(* What every step of the composition keeps                                 *)

Basics == scope \in Scope /\ BrokerOK /\ RowsOK

\* The group and the loop touch no handler.
LEMMA GroupEffect ==
  ASSUME BrokerOK, NEW p \in Pods, Assign(p) \/ Rebalance(p) \/ StartPod(p) \/ LoopStep(p)
  PROVE  /\ BrokerStep(p)
         /\ UNCHANGED logEnd
         /\ AssignTo(p) \/ StartPod(p) \/ LoopStep(p)
<1> USE DEF BrokerOK, BrokerTypeOK
<1>1. faults' \in 0..MaxFaults
  BY BoundsAssumption DEF Assign, Rebalance, StartPod, LoopStep, Fetch, DeadLetter, Commit, Fault, NoFault
<1>2. AssignTo(p) \/ StartPod(p) \/ LoopStep(p)
  BY DEF Assign, Rebalance
<1>3. UNCHANGED logEnd
  BY <1>2 DEF AssignTo, StartPod, LoopStep, Fetch, DeadLetter, Commit, log_
<1> QED
  BY <1>1, <1>2, <1>3 DEF BrokerStep

\* A worker that dies forgets its record.
LEMMA DieEffect ==
  ASSUME BrokerOK, NEW p \in Pods, Escape(p) \/ Crash(p)
  PROVE  BrokerStep(p) /\ Gone(p) /\ UNCHANGED logEnd
BY BoundsAssumption DEF Escape, Crash, Gone, log_, Fault, BrokerStep, BrokerOK, BrokerTypeOK

\* An error ends an attempt, and settles nothing.
LEMMA ErrorEffect ==
  ASSUME BrokerOK, NEW p \in Pods, pc[p] \in {"call", "wait"}, Raised(p), Fault,
         UNCHANGED <<log_, group, reader, dead>>
  PROVE  BrokerStep(p) /\ HandlerStep(p, Handling) /\ UNCHANGED logEnd
<1>1. HandlerStep(p, Handling)
  BY RaisedEffect DEF BrokerOK
<1> QED
  BY <1>1, BoundsAssumption DEF Fault, log_, BrokerStep, BrokerOK, BrokerTypeOK

\* A handler that goes on settles nothing.
LEMMA WaitEffect ==
  ASSUME BrokerOK, NEW p \in Pods, pc[p] \in {"call", "wait"}, Goto(p, "wait"),
         UNCHANGED <<log_, group, reader, attempt, dead, faults>>
  PROVE  BrokerStep(p) /\ HandlerStep(p, Handling) /\ UNCHANGED logEnd
BY DEF Goto, log_, BrokerStep, HandlerStep, Handling, BrokerOK, BrokerTypeOK

\* A handler that returns settles its record.
LEMMA ReturnEffect ==
  ASSUME BrokerOK, NEW p \in Pods, pc[p] \in {"call", "wait"}, Returned(p),
         UNCHANGED <<log_, group, reader, dead, faults>>
  PROVE  BrokerStep(p) /\ HandlerStep(p, {"commit"}) /\ UNCHANGED logEnd
<1>1. HandlerStep(p, {"commit"})
  BY ReturnedEffect DEF BrokerOK
<1> QED
  BY <1>1 DEF log_, BrokerStep, BrokerOK, BrokerTypeOK

\* The steps of a loop without a record that is done with.
LEMMA SameRows ==
  ASSUME RowsOK, UNCHANGED <<table, logEnd>>
  PROVE  Rewrites
BY DEF RowsOK, Rewrites, table

\* What leaves the loop alone is a step of it.
LEMMA StayEffect ==
  ASSUME BrokerOK, NEW p \in Pods, UNCHANGED broker
  PROVE  BrokerStep(p) /\ Untouched /\ UNCHANGED logEnd
BY DEF broker, log_, group, reader, Untouched, BrokerStep, BrokerOK, BrokerTypeOK

\* What the group's steps settle: what is skipped or given up.
LEMMA GroupSettles ==
  ASSUME BrokerOK, NEW p \in Pods, Assign(p) \/ Rebalance(p) \/ StartPod(p) \/ LoopStep(p),
         NEW D, NEW E, D \subseteq E,
         \A m \in 1..logEnd : m <= base' \/ m \in dead' => m \in E
  PROVE  Settles(p, D, E)
<1> USE DEF BrokerOK, BrokerTypeOK
<1>1. CASE AssignTo(p)
  <2>1. base' \in 0..logEnd
    BY <1>1 DEF AssignTo
  <2>2. 1..base' \subseteq E
    BY <2>1
  <2> QED
    BY <1>1, <2>2 DEF Settles
<1>2. CASE StartPod(p) \/ Fetch(p) \/ Commit(p)
  BY <1>2 DEF Settles
<1>3. CASE DeadLetter(p)
  <2>1. dead' = dead \cup {cur[p]} /\ cur[p] \in 1..logEnd
    BY <1>3 DEF DeadLetter, Busy
  <2> QED
    BY <1>3, <2>1 DEF Settles
<1> QED
  BY <1>1, <1>2, <1>3, GroupEffect DEF LoopStep

\* No step takes a message off the dead-letter topic, or moves base back.
LEMMA HistoryGrows ==
  ASSUME BrokerOK, NEW p \in Pods, BrokerStep(p)
  PROVE  dead \subseteq dead' /\ base' \in Int /\ base <= base'
<1> USE DEF BrokerOK, BrokerTypeOK, log_
<1>1. CASE AssignTo(p)
  BY <1>1 DEF AssignTo
<1>2. CASE LoopStep(p) \/ StartPod(p)
  BY <1>2 DEF LoopStep, StartPod, Fetch, DeadLetter, Commit
<1>3. CASE Gone(p) \/ HandlerStep(p, Handling) \/ HandlerStep(p, {"commit"}) \/ Untouched
  BY <1>3 DEF Gone, HandlerStep, Untouched
<1> QED
  BY <1>1, <1>2, <1>3 DEF BrokerStep

-----------------------------------------------------------------------------
(* The normalizer                                                           *)

\* An upsert as the workers see it.
Stores(l, price) ==
  /\ l \in Listings /\ price \in Prices
  /\ Upsert(l, price)
  /\ Touch(Tasks)
  /\ Basics'
  /\ Len(upserts) \in Nat
  /\ Len(upserts') = Len(upserts) + 1
  /\ \A n \in 1..Len(upserts) : upserts'[n] = upserts[n] /\ RowOf(n)' = RowOf(n)
  /\ upserts'[Len(upserts) + 1] = l
  /\ Stored' = Stored \cup {l}
  /\ \A k \in Listings \ {l} : rows'[k] = rows[k]
  /\ l \notin Stored => rows'[l] = NewRow(l, Len(upserts) + 1, price)
  /\ l \in Stored => rows'[l] = Refreshed(l, Len(upserts) + 1, price)
  /\ UNCHANGED <<normalized, broker, scope, found, stale, work, enriched, scorer>>
  /\ UNCHANGED <<cycle, event, events, lastEvent, loopAlive, history, drops, errors, kills>>

\* What Normalize does to the rows, in one formula.
LEMMA NormalizeStores ==
  ASSUME Basics, Normalize
  PROVE  \E l, price : Stores(l, price)
<1> USE DEF Basics
<1>1. PICK l \in scope.listings, price \in scope.prices : Upsert(l, price)
  BY DEF Normalize
<1>2. l \in Listings /\ price \in Prices
  BY <1>1, ScopeAssumption
<1>3. /\ Touch(Tasks) /\ UNCHANGED <<broker, scope, found, stale, work, enriched, scorer>>
      /\ UNCHANGED <<cycle, event, events, lastEvent, loopAlive, history, drops, errors, kills>>
      /\ UNCHANGED logEnd
  BY DEF Normalize, broker
<1>4. BrokerOK'
  BY <1>3 DEF broker, BrokerOK, BrokerTypeOK
<1>5. /\ RowsOK'
      /\ UNCHANGED normalized
      /\ Len(upserts') = Len(upserts) + 1
      /\ \A n \in 1..Len(upserts) : upserts'[n] = upserts[n] /\ RowOf(n)' = RowOf(n)
      /\ \A k \in Listings \ {l} : rows'[k] = rows[k]
      /\ rows'[l] = IF rows[l] = NoRow THEN NewRow(l, Len(upserts) + 1, price)
                    ELSE Refreshed(l, Len(upserts) + 1, price)
      /\ Stored' = Stored \cup {l}
  BY <1>1, <1>2, <1>3, UpsertStep
<1>6. Basics'
  BY <1>3, <1>4, <1>5
<1>7. Len(upserts) \in Nat
  BY DEF RowsOK
<1>8. upserts'[Len(upserts) + 1] = l
  BY <1>1, <1>7 DEF Upsert, RowsOK
<1>9. l \in Stored <=> rows[l] # NoRow
  BY <1>2 DEF Stored
<1> QED
  BY <1>1, <1>2, <1>3, <1>5, <1>6, <1>7, <1>8, <1>9 DEF Stores

\* What is said about a published message is said about it still.
LEMMA StoresKeeps ==
  ASSUME RowsOK, NEW l, NEW price, Stores(l, price), NEW m \in 1..logEnd
  PROVE  /\ normalized[m] \in 1..Len(upserts)
         /\ Reached(m)' = Reached(m)
         /\ ListingOf(m)' = ListingOf(m)
<1>1. normalized[m] \in 1..Len(upserts) /\ normalized' = normalized
  BY DEF RowsOK, Stores
<1>2. PICK n \in 1..Len(upserts) : n = normalized[m]
  BY <1>1
<1>3. RowOf(n)' = RowOf(n) /\ upserts'[n] = upserts[n]
  BY DEF Stores
<1> QED
  BY <1>1, <1>2, <1>3 DEF Reached, RowOf, ListingOf

\* A publish as the workers see it.
Announces(id) ==
  /\ worker # "detect"
  /\ Produce
  /\ Basics'
  /\ logEnd' = logEnd + 1
  /\ id \in 1..Len(upserts) /\ normalized'[logEnd + 1] = id
  /\ \A m \in 1..logEnd : normalized'[m] = normalized[m] /\ Reached(m)' = Reached(m) /\ ListingOf(m)' = ListingOf(m)
  /\ UNCHANGED <<rows, upserts, now, scope, found, stale, work, enriched, scorer, detector>>

\* What Announce does to the topic, in one formula.
LEMMA AnnounceAnnounces ==
  ASSUME Basics, Announce
  PROVE  \E id : Announces(id)
<1> USE DEF Basics
<1>1. PICK id : PublishNormalized(id)
  BY DEF Announce
<1>2. /\ worker # "detect" /\ Produce
      /\ UNCHANGED <<scope, found, stale, work, enriched, scorer, detector>>
  BY DEF Announce
<1>3. BrokerOK'
  BY <1>2, BrokerOKStep
<1>4. /\ RowsOK'
      /\ UNCHANGED <<rows, upserts, now>>
      /\ logEnd' = logEnd + 1
      /\ id \in 1..Len(upserts) /\ normalized'[logEnd + 1] = id
      /\ \A m \in 1..logEnd : normalized'[m] = normalized[m]
  BY <1>1, <1>2, AnnounceStep DEF BrokerOK
<1>5. \A m \in 1..logEnd : Reached(m)' = Reached(m) /\ ListingOf(m)' = ListingOf(m)
  BY <1>4 DEF Reached, RowOf, Stored, ListingOf
<1> QED
  BY <1>1, <1>2, <1>3, <1>4, <1>5 DEF Announces

-----------------------------------------------------------------------------
(* The enricher                                                             *)

\* An upsert gave its row the uuid, or the row was stored more than once.
Scraped ==
  /\ \A l \in Stored : rows[l].scrapes \in Nat \ {0}
  /\ \A n \in 1..Len(upserts) :
       /\ upserts[n] \in Stored
       /\ rows[upserts[n]].id = n \/ rows[upserts[n]].scrapes > 1

Official(l) == rows[l].year = "official" \/ rows[l].scrapes > 1

\* What was applied shows in the row that is about to be announced, and in those
\* that were.
WorkOK ==
  /\ work = [p \in Pods |-> work[p]]
  /\ \A p \in Pods :
       /\ DOMAIN work[p] = {"stage", "results", "poi"}
       /\ Working(p, "publish") => \A l \in Reached(cur[p]) :
            /\ rows[l].enrichment # "pending"
            /\ "year_built" \in Columns(p) => Official(l)

AnnouncedYears ==
  \A e \in enriched :
    /\ e.id \in 1..Len(upserts)
    /\ "year_built" \in e.columns => Official(upserts[e.id])

\* The messages whose rows are no longer pending.
Enriched_ ==
  {m \in 1..logEnd : m <= base \/ m \in dead \/ \A l \in Reached(m) : rows[l].enrichment # "pending"}

EnrichInv ==
  worker = "enrich" => Scraped /\ WorkOK /\ AnnouncedYears /\ SettledBehind(Enriched_)

NothingAnnounced == worker # "enrich" => enriched = {}

\* An enrichment never ends as "pending".
LEMMA StatusKnown ==
  ASSUME NEW p \in Pods
  PROVE  Status(p) # "pending"
BY DEF Status, ResolveOverallStatus

\* A row that is enriched keeps that, and the year it got unless it was scraped again.
LEMMA EnrichedStay ==
  ASSUME Basics, NEW p \in Pods, EnrichStep(p)
  PROVE  /\ Rewrites
         /\ \A l \in Stored :
              /\ rows[l].enrichment # "pending" => rows'[l].enrichment # "pending"
              /\ Official(l) => Official(l)'
              /\ rows'[l].scrapes = rows[l].scrapes
<1> USE DEF Basics, Official
<1>1. CASE ~ApplyUpdates(p)
  <2>1. UNCHANGED <<table, logEnd>>
    BY <1>1, GroupEffect, DieEffect
       DEF EnrichStep, EnrichListing, CalculatePois, PublishEnriched, EnrichError, EnrichGroup,
           EnrichDie, log_, broker
  <2> QED
    BY <2>1, SameRows DEF table
<1>2. CASE ApplyUpdates(p)
  <2> DEFINE Update(r) == [r EXCEPT !.enrichment = Status(p),
                                    !.year = IF "year_built" \in Columns(p) THEN "official" ELSE @]
  <2>1. /\ rows' = [l \in Listings |-> IF l \in Reached(cur[p]) THEN Update(rows[l]) ELSE rows[l]]
        /\ UNCHANGED <<upserts, normalized, logEnd>>
    BY <1>2 DEF ApplyUpdates, broker, Reached
  <2>2. ASSUME NEW l \in Stored
        PROVE  /\ DOMAIN rows'[l] = DOMAIN rows[l] /\ rows'[l].id = rows[l].id
               /\ rows'[l].scrapes = rows[l].scrapes
               /\ rows[l].enrichment # "pending" => rows'[l].enrichment # "pending"
               /\ rows'[l].year = rows[l].year \/ rows'[l].year = "official"
    <3>1. RowFor(l) /\ l \in Listings
      BY DEF Stored, RowsOK
    <3>2. CASE l \in Reached(cur[p])
      <4>1. rows'[l] = Update(rows[l])
        BY <2>1, <3>1, <3>2
      <4> QED
        BY <4>1, <3>1, StatusKnown DEF RowFor, RowColumns
    <3>3. CASE l \notin Reached(cur[p])
      BY <2>1, <3>1, <3>3
    <3> QED
      BY <3>2, <3>3
  <2>3. ASSUME NEW l \in Listings \ Stored
        PROVE  rows'[l] = NoRow
    BY <2>1 DEF Reached, RowOf, Stored
  <2>4. Rewrites
    BY <2>1, <2>2, <2>3 DEF Rewrites, Stored
  <2> QED
    BY <2>2, <2>4
<1> QED
  BY <1>1, <1>2

\* A step of the enricher settles a message only when its row is enriched.
LEMMA EnrichBroker ==
  ASSUME Basics, WorkOK, NEW p \in Pods, EnrichStep(p),
         NEW E, E = Enriched_'
  PROVE  BrokerStep(p) /\ Settles(p, Enriched_, E)
<1> USE DEF Basics
<1>e. /\ Rewrites
      /\ \A m : Reached(m)' = Reached(m)
      /\ \A l \in Stored : rows[l].enrichment # "pending" => rows'[l].enrichment # "pending"
  BY EnrichedStay, RewritesStep
<1>1. ASSUME BrokerStep(p)
      PROVE  /\ Enriched_ \subseteq E
             /\ \A m \in 1..logEnd : m <= base' \/ m \in dead' => m \in E
  <2>1. dead \subseteq dead' /\ base' \in Int /\ base <= base'
    BY <1>1, HistoryGrows
  <2>2. UNCHANGED logEnd
    BY <1>e DEF Rewrites
  <2>3. ASSUME NEW m \in Enriched_
        PROVE  m \in E
    <3>1. m \in 1..logEnd' /\ (m <= base => m <= base')
      BY <2>1, <2>2 DEF Enriched_, BrokerOK, BrokerTypeOK
    <3>2. \A l \in Reached(m) : rows[l].enrichment # "pending" => rows'[l].enrichment # "pending"
      BY <1>e DEF Reached, RowOf
    <3>3. Reached(m)' = Reached(m)
      BY <1>e
    <3> QED
      BY <2>1, <3>1, <3>2, <3>3 DEF Enriched_
  <2>4. ASSUME NEW m \in 1..logEnd, m <= base' \/ m \in dead'
        PROVE  m \in E
    BY <2>2, <2>4 DEF Enriched_
  <2> QED
    BY <2>3, <2>4
<1>2. CASE EnrichListing(p) \/ EnrichError(p)
  <2>1. BrokerStep(p) /\ HandlerStep(p, Handling)
    BY <1>2, WaitEffect, ErrorEffect DEF EnrichListing, EnrichError
  <2> QED
    BY <2>1, <1>1 DEF Settles
<1>3. CASE CalculatePois(p) \/ ApplyUpdates(p)
  <2>1. BrokerStep(p) /\ Untouched
    BY <1>3, StayEffect DEF CalculatePois, ApplyUpdates
  <2> QED
    BY <2>1, <1>1 DEF Settles
<1>4. CASE PublishEnriched(p)
  <2>1. BrokerStep(p) /\ HandlerStep(p, {"commit"})
    BY <1>4, ReturnEffect DEF PublishEnriched, Working
  <2>2. cur[p] \in 1..logEnd
    BY <1>4 DEF PublishEnriched, Working, BrokerOK, BrokerTypeOK, Busy
  <2>3. cur[p] \in Enriched_
    BY <2>2, <1>4 DEF PublishEnriched, WorkOK, Enriched_
  <2> QED
    BY <2>1, <2>3, <1>1 DEF Settles, Mine
<1>5. CASE EnrichGroup(p)
  <2>1. BrokerStep(p)
    BY <1>5, GroupEffect DEF EnrichGroup
  <2> QED
    BY <2>1, <1>5, <1>1, GroupSettles DEF EnrichGroup
<1>6. CASE EnrichDie(p)
  <2>1. BrokerStep(p) /\ Gone(p)
    BY <1>6, DieEffect DEF EnrichDie
  <2> QED
    BY <2>1, <1>1 DEF Settles
<1> QED
  BY <1>2, <1>3, <1>4, <1>5, <1>6 DEF EnrichStep

\* What the pods hold, and what they announced.
LEMMA WorkOKStep ==
  ASSUME Basics, Scraped, WorkOK, AnnouncedYears, NEW p \in Pods, EnrichStep(p)
  PROVE  Scraped' /\ WorkOK' /\ AnnouncedYears'
<1> USE DEF Basics
<1>e. /\ Rewrites
      /\ RowsOK'
      /\ Stored' = Stored
      /\ \A m : Reached(m)' = Reached(m)
      /\ UNCHANGED <<upserts, normalized>>
      /\ \A l \in Stored : /\ rows[l].enrichment # "pending" => rows'[l].enrichment # "pending"
                           /\ Official(l) => Official(l)'
                           /\ rows'[l].scrapes = rows[l].scrapes
                           /\ rows'[l].id = rows[l].id
  BY EnrichedStay, RewritesStep DEF Rewrites, Stored
<1>1. Scraped'
  BY <1>e DEF Scraped
<1>a. \A n \in 1..Len(upserts) : upserts[n] \in Stored
  BY DEF Scraped
<1>2. ASSUME NEW q \in Pods, work'[q] = work[q], Working(q, "publish"), cur'[q] = cur[q]
      PROVE  \A l \in Reached(cur[q])' :
               /\ rows'[l].enrichment # "pending"
               /\ "year_built" \in Columns(q)' => Official(l)'
  BY <1>2, <1>e DEF WorkOK, Columns, Reached, RowOf
<1>3. ASSUME NEW q \in Pods, q # p
      PROVE  /\ work'[q] = work[q] /\ cur'[q] = cur[q]
             /\ Working(q, "publish")' => Working(q, "publish")
  <2>1. work'[q] = work[q]
    BY <1>3 DEF EnrichStep, EnrichListing, CalculatePois, ApplyUpdates, PublishEnriched, EnrichError,
                EnrichGroup, EnrichDie, WorkOK
  <2>2. BrokerStep(p)
    BY EnrichBroker
  <2>3. cur'[q] = cur[q] /\ pc'[q] = pc[q]
    BY <2>2, <1>3 DEF BrokerStep, BrokerOK, BrokerTypeOK, AssignTo, StartPod, LoopStep, Fetch, DeadLetter,
       Commit, Gone, HandlerStep, Goto, Untouched, reader
  <2> QED
    BY <2>1, <2>3 DEF Working
<1>4. /\ work' = [q \in Pods |-> work'[q]]
      /\ DOMAIN work'[p] = {"stage", "results", "poi"}
      /\ Working(p, "publish")' => \A l \in Reached(cur[p])' :
            /\ rows'[l].enrichment # "pending"
            /\ "year_built" \in Columns(p)' => Official(l)'
  <2> USE DEF WorkOK
  <2>1. CASE EnrichListing(p)
    <3>1. PICK answer : work' = [work EXCEPT ![p] =
                          [stage |-> "poi", results |-> Enriched(About(p), answer), poi |-> {}]]
      BY <2>1 DEF EnrichListing
    <3> QED
      BY <3>1 DEF Working
  <2>2. CASE CalculatePois(p)
    BY <2>2 DEF CalculatePois, Working
  <2>3. CASE ApplyUpdates(p)
    <3>1. /\ work' = [work EXCEPT ![p].stage = "publish"]
          /\ UNCHANGED <<broker, upserts, normalized>>
          /\ rows' = [l \in Listings |->
                IF l \in Reached(cur[p])
                THEN [rows[l] EXCEPT !.enrichment = Status(p),
                                     !.year = IF "year_built" \in Columns(p) THEN "official" ELSE @]
                ELSE rows[l]]
      BY <2>3 DEF ApplyUpdates, Reached
    <3>2. Columns(p)' = Columns(p) /\ cur'[p] = cur[p]
      BY <3>1 DEF Columns, broker
    <3>3. ASSUME NEW l \in Reached(cur[p])
          PROVE  /\ rows'[l].enrichment # "pending"
                 /\ "year_built" \in Columns(p) => rows'[l].year = "official"
      <4>1. RowFor(l) /\ l \in Listings
        BY DEF Reached, RowOf, Stored, RowsOK
      <4> QED
        BY <3>1, <4>1, StatusKnown DEF RowFor, RowColumns
    <3> QED
      BY <3>1, <3>2, <3>3, <1>e DEF Official
  <2>4. CASE PublishEnriched(p) \/ EnrichError(p) \/ EnrichDie(p)
    BY <2>4 DEF PublishEnriched, EnrichError, EnrichDie, NoWork, Working
  <2>5. CASE EnrichGroup(p)
    <3>1. work' = work
      BY <2>5 DEF EnrichGroup
    <3>2. Working(p, "publish")' => Working(p, "publish") /\ cur'[p] = cur[p]
      BY <2>5, <3>1 DEF EnrichGroup, Assign, Rebalance, AssignTo, StartPod, LoopStep, Fetch, DeadLetter,
         Commit, Goto, Working, BrokerOK, BrokerTypeOK, reader
    <3> QED
      BY <3>1, <3>2, <1>2
  <2> QED
    BY <2>1, <2>2, <2>3, <2>4, <2>5 DEF EnrichStep
<1>5. WorkOK'
  BY <1>2, <1>3, <1>4 DEF WorkOK
<1>6. AnnouncedYears'
  <2>1. CASE UNCHANGED enriched
    BY <2>1, <1>e, <1>a DEF AnnouncedYears
  <2>2. CASE PublishEnriched(p)
    <3> DEFINE n == normalized[cur[p]]
               l == upserts[n]
    <3>1. n \in 1..Len(upserts)
      BY <2>2 DEF PublishEnriched, Working, BrokerOK, BrokerTypeOK, Busy, RowsOK
    <3>2. l \in Stored /\ (rows[l].id = n \/ rows[l].scrapes > 1)
      BY <3>1 DEF Scraped
    <3>3. "year_built" \in Columns(p) => Official(l)
      BY <3>2, <2>2 DEF WorkOK, PublishEnriched, Reached, RowOf, Official
    <3>4. enriched' = enriched \cup {[id |-> n, status |-> Status(p), columns |-> Columns(p)]}
      BY <2>2 DEF PublishEnriched
    <3> HIDE DEF n
    <3> QED
      BY <3>1, <3>2, <3>3, <3>4, <1>e, <1>a DEF AnnouncedYears
  <2> QED
    BY <2>1, <2>2 DEF EnrichStep, EnrichListing, CalculatePois, ApplyUpdates, EnrichError,
                EnrichGroup, EnrichDie
<1> QED
  BY <1>1, <1>5, <1>6

\* An upsert keeps the invariant of the enricher.
LEMMA EnrichNormalize ==
  ASSUME Basics, EnrichInv, worker = "enrich", NEW l, NEW price, Stores(l, price)
  PROVE  EnrichInv'
<1> USE DEF Basics
<1>1. /\ l \in Listings /\ Stored' = Stored \cup {l}
      /\ Len(upserts) \in Nat
      /\ Len(upserts') = Len(upserts) + 1
      /\ \A n \in 1..Len(upserts) : upserts'[n] = upserts[n]
      /\ upserts'[Len(upserts) + 1] = l
      /\ \A k \in Listings \ {l} : rows'[k] = rows[k]
      /\ UNCHANGED <<normalized, broker, scope, work, enriched>>
  BY DEF Stores
<1>2. Scraped /\ WorkOK /\ AnnouncedYears /\ SettledBehind(Enriched_)
  BY DEF EnrichInv
<1>3. ASSUME l \in Stored
      PROVE  /\ rows'[l].enrichment = rows[l].enrichment /\ rows'[l].scrapes = rows[l].scrapes + 1
             /\ rows'[l].id = rows[l].id
  <2>1. RowFor(l)
    BY <1>3 DEF Stored, RowsOK
  <2> QED
    BY <1>3, <2>1 DEF Stores, Refreshed, RowFor, RowColumns
<1>4. ASSUME l \notin Stored
      PROVE  rows'[l].scrapes = 1 /\ rows'[l].id = Len(upserts) + 1
  BY <1>4 DEF Stores, NewRow
<1>5. \A k \in Stored :
        /\ k \in Listings /\ rows[k].scrapes \in Nat \ {0}
        /\ Official(k) => Official(k)'
        /\ rows'[k].enrichment = rows[k].enrichment
        /\ rows'[k].id = rows[k].id
        /\ rows'[k].scrapes \in Nat \ {0}
        /\ rows[k].scrapes > 1 => rows'[k].scrapes > 1
  <2>1. ASSUME NEW k \in Stored, k # l
        PROVE  k \in Listings /\ rows[k].scrapes \in Nat \ {0} /\ rows'[k] = rows[k]
    BY <2>1, <1>1, <1>2 DEF Stored, Scraped
  <2>2. l \in Stored => rows[l].scrapes \in Nat \ {0}
    BY <1>2 DEF Scraped
  <2> QED
    BY <2>1, <2>2, <1>1, <1>3 DEF Official
<1>6. Scraped'
  <2>1. \A k \in Stored' : rows'[k].scrapes \in Nat \ {0}
    BY <1>1, <1>4, <1>5
  <2>2. ASSUME NEW n \in 1..Len(upserts')
        PROVE  /\ upserts'[n] \in Stored'
               /\ rows'[upserts'[n]].id = n \/ rows'[upserts'[n]].scrapes > 1
    <3>1. CASE n \in 1..Len(upserts)
      BY <3>1, <1>1, <1>2, <1>5 DEF Scraped
    <3>2. CASE n = Len(upserts) + 1
      <4>1. CASE l \in Stored
        <5>1. rows[l].scrapes \in Nat \ {0}
          BY <4>1, <1>5
        <5> QED
          BY <3>2, <4>1, <5>1, <1>1, <1>3
      <4>2. CASE l \notin Stored
        BY <3>2, <4>2, <1>1, <1>4
      <4> QED
        BY <4>1, <4>2
    <3> QED
      BY <3>1, <3>2, <1>1
  <2> QED
    BY <2>1, <2>2 DEF Scraped
<1>7. WorkOK'
  <2>1. ASSUME NEW q \in Pods, Working(q, "publish")'
        PROVE  \A k \in Reached(cur[q])' : /\ rows'[k].enrichment # "pending"
                                           /\ "year_built" \in Columns(q)' => Official(k)'
    <3>1. Working(q, "publish") /\ UNCHANGED <<cur, pc, work>>
      BY <2>1, <1>1 DEF Working, broker
    <3>2. cur[q] \in 1..logEnd
      BY <3>1, <1>1 DEF Working, BrokerOK, BrokerTypeOK, Busy
    <3>3. Reached(cur[q])' = Reached(cur[q]) /\ Columns(q)' = Columns(q)
      BY <3>1, <3>2, StoresKeeps DEF Columns
    <3> QED
      BY <3>1, <3>3, <1>2, <1>5 DEF WorkOK, Reached, RowOf
  <2> QED
    BY <2>1, <1>1, <1>2 DEF WorkOK
<1>8. AnnouncedYears'
  <2>1. ASSUME NEW n \in 1..Len(upserts)
        PROVE  /\ n \in 1..Len(upserts') /\ upserts'[n] = upserts[n]
               /\ Official(upserts[n]) => Official(upserts[n])'
    BY <1>1, <1>2, <1>5 DEF Scraped
  <2> QED
    BY <2>1, <1>1, <1>2 DEF AnnouncedYears, Official
<1>9. SettledBehind(Enriched_)'
  <2>1. PICK E : E = Enriched_'
    OBVIOUS
  <2>2. Enriched_ \subseteq E
    <3>1. ASSUME NEW m \in Enriched_
          PROVE  m \in E
      <4>1. m \in 1..logEnd' /\ UNCHANGED <<base, dead>> /\ m \in 1..logEnd
        BY <1>1 DEF broker, Enriched_
      <4>2. \A k \in Reached(m) : rows[k].enrichment # "pending" => rows'[k].enrichment # "pending"
        BY <1>5 DEF Reached, RowOf
      <4>3. Reached(m)' = Reached(m)
        BY <4>1, StoresKeeps
      <4> QED
        BY <2>1, <4>1, <4>2, <4>3 DEF Enriched_
    <3> QED
      BY <3>1
  <2>3. SettledBehind(E)'
    BY <2>2, <1>1, <1>2, SettledBehindStays
  <2> QED
    BY <2>1, <2>3 DEF SettledBehind
<1> QED
  BY <1>6, <1>7, <1>8, <1>9 DEF EnrichInv

\* So does a publish.
LEMMA EnrichAnnounce ==
  ASSUME Basics, EnrichInv, worker = "enrich", NEW id, Announces(id)
  PROVE  EnrichInv'
<1> USE DEF Basics
<1>1. /\ Produce /\ logEnd' = logEnd + 1
      /\ \A m \in 1..logEnd : Reached(m)' = Reached(m)
      /\ UNCHANGED <<rows, upserts, work, enriched>>
  BY DEF Announces
<1>2. Scraped /\ WorkOK /\ AnnouncedYears /\ SettledBehind(Enriched_)
  BY DEF EnrichInv
<1>3. Scraped' /\ AnnouncedYears'
  BY <1>1, <1>2 DEF Scraped, AnnouncedYears, Official, Stored
<1>4. WorkOK'
  <2>1. ASSUME NEW q \in Pods, Working(q, "publish")'
        PROVE  \A k \in Reached(cur[q])' : /\ rows'[k].enrichment # "pending"
                                           /\ "year_built" \in Columns(q)' => Official(k)'
    <3>1. Working(q, "publish") /\ UNCHANGED <<cur, pc, work>>
      BY <2>1, <1>1 DEF Working, Produce, reader
    <3>2. cur[q] \in 1..logEnd
      BY <3>1 DEF Working, BrokerOK, BrokerTypeOK, Busy
    <3>3. Reached(cur[q])' = Reached(cur[q]) /\ Columns(q)' = Columns(q)
      BY <3>1, <3>2, <1>1 DEF Columns
    <3> QED
      BY <3>1, <3>3, <1>1, <1>2 DEF WorkOK, Official
  <2> QED
    BY <2>1, <1>1, <1>2 DEF WorkOK
<1>5. SettledBehind(Enriched_)'
  <2>1. PICK E : E = Enriched_'
    OBVIOUS
  <2>2. Enriched_ \subseteq E
    BY <2>1, <1>1 DEF Produce, Enriched_, BrokerOK, BrokerTypeOK
  <2>3. SettledBehind(E)'
    BY <2>2, <1>1, <1>2, SettledBehindStep
  <2> QED
    BY <2>1, <2>3 DEF SettledBehind
<1> QED
  BY <1>3, <1>4, <1>5 DEF EnrichInv

\* Every step of the enricher keeps its invariant.
LEMMA EnrichInvStep ==
  ASSUME Basics, EnrichInv, Enrich
  PROVE  Basics' /\ EnrichInv' /\ scope' = scope /\ worker = "enrich"
<1> USE DEF Basics
<1>1. worker = "enrich" /\ scope' = scope
  BY DEF Enrich
<1>2. PICK p \in Pods : EnrichStep(p)
  BY DEF Enrich
<1>3. Scraped /\ WorkOK /\ AnnouncedYears /\ SettledBehind(Enriched_)
  BY <1>1 DEF EnrichInv
<1>4. PICK E : E = Enriched_'
  OBVIOUS
<1>5. BrokerStep(p) /\ Settles(p, Enriched_, E)
  BY <1>2, <1>3, <1>4, EnrichBroker
<1>6. BrokerOK' /\ SettledBehind(E)'
  BY <1>3, <1>5, BrokerOKStep, SettledBehindStep
<1>7. RowsOK'
  BY <1>2, EnrichedStay, RewritesStep
<1>8. Scraped' /\ WorkOK' /\ AnnouncedYears'
  BY <1>2, <1>3, WorkOKStep
<1>9. SettledBehind(Enriched_)'
  BY <1>4, <1>6 DEF SettledBehind
<1> QED
  BY <1>1, <1>6, <1>7, <1>8, <1>9 DEF EnrichInv

\* The properties follow from the invariant of the enricher.
LEMMA EnrichProperties ==
  ASSUME Basics, EnrichInv, NothingAnnounced
  PROVE  PendingNeedsCause /\ YearLostToScrape
<1> USE DEF Basics
<1>1. CASE worker # "enrich"
  BY <1>1 DEF NothingAnnounced, PendingNeedsCause, YearLostToScrape
<1>2. CASE worker = "enrich"
  <2>1. PendingNeedsCause
    <3>1. ASSUME NEW l \in Stored, rows[l].enrichment = "pending", NEW m \in Naming(l), m <= committed
          PROVE  m \in dead \/ m <= base
      <4>1. m \in 1..committed
        BY <3>1 DEF Naming, RowsOK, BrokerOK, BrokerTypeOK, NoOffset
      <4>2. m \in Enriched_ /\ l \in Reached(m)
        BY <4>1, <1>2, <3>1 DEF EnrichInv, SettledBehind, Reached, RowOf, Naming
      <4> QED
        BY <4>2, <3>1 DEF Enriched_
    <3>2. \A l \in Stored : \A m \in Naming(l) : m > committed \/ m <= committed
      BY DEF Naming, RowsOK, BrokerOK, BrokerTypeOK, NoOffset
    <3> QED
      BY <3>1, <3>2 DEF PendingNeedsCause
  <2>2. YearLostToScrape
    BY <1>2 DEF EnrichInv, AnnouncedYears, Official, YearLostToScrape
  <2> QED
    BY <2>1, <2>2
<1> QED
  BY <1>1, <1>2

-----------------------------------------------------------------------------
(* The scorer                                                               *)

\* A pod's handler and the call it answers both read rows, write and publish.
Ids     == Pods \X {"message", "call"}
Task(i) == IF i[2] = "message" THEN scoring[i[1]] ELSE rpc[i[1]]

Published(i, l) == Task(i).stage = "publish" /\ l \in Held(Task(i))

\* What was written and is not announced yet is the score in the row, unless two
\* had the row.
TasksOK ==
  /\ score = [l \in Listings |-> score[l]] /\ announced = [l \in Listings |-> announced[l]]
  /\ scoring = [p \in Pods |-> scoring[p]] /\ rpc = [p \in Pods |-> rpc[p]]
  /\ \A i \in Ids :
       /\ DOMAIN Task(i) = {"stage", "price"}
       /\ Task(i).stage \in {"none", "write", "publish"}
       /\ Held(Task(i)) \subseteq Stored
       /\ \A l \in Listings : Published(i, l) => l \in crossed \cup broken \/ score[l] = Task(i).price[l]

\* A handler has the rows of its message while it waits, and none else.
HandsOK ==
  \A p \in Pods :
    IF pc[p] = "wait" THEN Held(scoring[p]) = Reached(cur[p]) /\ scoring[p].stage # "none"
    ELSE scoring[p].stage = "none"

Agree(l) == score[l] = announced[l] \/ l \in crossed \cup broken \/ \E i \in Ids : Published(i, l)

\* The messages whose rows have the score that was announced or is about to be.
Announced_ == {m \in 1..logEnd : m <= base \/ m \in dead \/ \A l \in Reached(m) : Agree(l)}

\* Calls keep up a row that no message names.
UnnamedAgree == \A l \in Listings : (\A m \in 1..logEnd : l \notin Reached(m)) => Agree(l)

ScoreInv == worker = "score" => TasksOK /\ HandsOK /\ UnnamedAgree /\ SettledBehind(Announced_)

\* The ways in which a step takes the tasks further.
Alone(I) == \A j \in Ids \ I : Task(j)' = Task(j)

Reads(i) ==
  /\ Task(i).stage = "none" /\ Task(i)'.stage = "write"
  /\ DOMAIN Task(i)' = {"stage", "price"} /\ Held(Task(i))' \subseteq Stored
  /\ Alone({i})
  /\ UNCHANGED <<score, announced, crossed, broken>>

Writes(i) ==
  /\ Task(i).stage = "write" /\ Task(i)'.stage = "publish"
  /\ DOMAIN Task(i)' = {"stage", "price"} /\ Task(i)'.price = Task(i).price
  /\ Alone({i})
  /\ score' = Written(Task(i))
  /\ crossed \subseteq crossed'
  /\ \A j \in Ids \ {i} : Held(Task(i)) \cap Held(Task(j)) \subseteq crossed'
  /\ UNCHANGED <<announced, broken>>

Publishes(i, ls) ==
  /\ Task(i).stage = "publish" /\ ls \subseteq Held(Task(i))
  /\ announced' = [l \in Listings |-> IF l \in ls THEN Task(i).price[l] ELSE announced[l]]
  /\ DOMAIN Task(i)' = {"stage", "price"} /\ Task(i)'.stage \in {"none", "publish"}
  /\ Held(Task(i))' = Held(Task(i)) \ ls
  /\ \A l \in Held(Task(i)) \ ls : Task(i)'.price[l] = Task(i).price[l]
  /\ Alone({i})
  /\ UNCHANGED <<score, crossed, broken>>

\* The message of a pod that ends with its work undone will come again, unless the
\* group has been past it or another pod has it.
Resumed(p, i, l) ==
  /\ i = <<p, "message">> /\ Published(i, l)
  /\ ~Overtaken(p)
  /\ Gone(p) \/ HandlerStep(p, Handling)

Drops(p, I) ==
  /\ \A i \in I : Task(i)' = Free
  /\ \A i \in I : \A l \in Listings : Published(i, l) => l \in broken' \/ Resumed(p, i, l)
  /\ Alone(I)
  /\ broken \subseteq broken'
  /\ UNCHANGED <<score, announced, crossed>>

Keeps == Alone({}) /\ UNCHANGED <<score, announced, crossed, broken>>

Functions_ ==
  /\ score' = [l \in Listings |-> score'[l]] /\ announced' = [l \in Listings |-> announced'[l]]
  /\ scoring' = [p \in Pods |-> scoring'[p]] /\ rpc' = [p \in Pods |-> rpc'[p]]

TaskStep(p) ==
  /\ Functions_
  /\ \/ Keeps
     \/ \E I \in SUBSET Ids : Drops(p, I)
     \/ \E i \in Ids : Reads(i) \/ Writes(i) \/ \E ls : Publishes(i, ls)

\* What a step does to one task keeps what is said of all of them.
LEMMA TasksOKStep ==
  ASSUME TasksOK, NEW p, TaskStep(p), Stored' = Stored
  PROVE  TasksOK'
<1> USE DEF TasksOK, Published
<1> SUFFICES ASSUME NEW i \in Ids
             PROVE  /\ DOMAIN Task(i)' = {"stage", "price"}
                    /\ Task(i)'.stage \in {"none", "write", "publish"}
                    /\ Held(Task(i))' \subseteq Stored
                    /\ \A l \in Listings :
                         Published(i, l)' => l \in (crossed \cup broken)' \/ score'[l] = Task(i)'.price[l]
  BY DEF TaskStep, Functions_
<1>1. CASE Keeps
  BY <1>1 DEF Keeps, Alone, Held
<1>2. ASSUME NEW I \in SUBSET Ids, Drops(p, I)
      PROVE  /\ DOMAIN Task(i)' = {"stage", "price"}
             /\ Task(i)'.stage \in {"none", "write", "publish"}
             /\ Held(Task(i))' \subseteq Stored
             /\ \A l \in Listings :
                  Published(i, l)' => l \in (crossed \cup broken)' \/ score'[l] = Task(i)'.price[l]
  <2>1. CASE i \in I
    BY <2>1, <1>2 DEF Drops, Free, Held
  <2>2. CASE i \notin I
    BY <2>2, <1>2 DEF Drops, Alone, Held
  <2> QED
    BY <2>1, <2>2
<1>3. ASSUME NEW k \in Ids, Reads(k)
      PROVE  /\ DOMAIN Task(i)' = {"stage", "price"}
             /\ Task(i)'.stage \in {"none", "write", "publish"}
             /\ Held(Task(i))' \subseteq Stored
             /\ \A l \in Listings :
                  Published(i, l)' => l \in (crossed \cup broken)' \/ score'[l] = Task(i)'.price[l]
  <2>1. CASE i = k
    BY <2>1, <1>3 DEF Reads
  <2>2. CASE i # k
    BY <2>2, <1>3 DEF Reads, Alone, Held
  <2> QED
    BY <2>1, <2>2
<1>4. ASSUME NEW k \in Ids, Writes(k)
      PROVE  /\ DOMAIN Task(i)' = {"stage", "price"}
             /\ Task(i)'.stage \in {"none", "write", "publish"}
             /\ Held(Task(i))' \subseteq Stored
             /\ \A l \in Listings :
                  Published(i, l)' => l \in (crossed \cup broken)' \/ score'[l] = Task(i)'.price[l]
  <2>1. CASE i = k
    BY <2>1, <1>4 DEF Writes, Held, Written
  <2>2. CASE i # k
    <3>1. Task(i)' = Task(i) /\ Held(Task(i))' = Held(Task(i))
      BY <2>2, <1>4 DEF Writes, Alone, Held
    <3>2. ASSUME NEW l \in Listings, Published(i, l)'
          PROVE  l \in (crossed \cup broken)' \/ score'[l] = Task(i)'.price[l]
      <4>1. CASE l \in Held(Task(k))
        BY <4>1, <3>1, <3>2, <2>2, <1>4 DEF Writes
      <4>2. CASE l \notin Held(Task(k))
        BY <4>2, <3>1, <3>2, <1>4 DEF Writes, Written
      <4> QED
        BY <4>1, <4>2
    <3> QED
      BY <3>1, <3>2
  <2> QED
    BY <2>1, <2>2
<1>5. ASSUME NEW k \in Ids, NEW ls, Publishes(k, ls)
      PROVE  /\ DOMAIN Task(i)' = {"stage", "price"}
             /\ Task(i)'.stage \in {"none", "write", "publish"}
             /\ Held(Task(i))' \subseteq Stored
             /\ \A l \in Listings :
                  Published(i, l)' => l \in (crossed \cup broken)' \/ score'[l] = Task(i)'.price[l]
  <2>1. CASE i = k
    BY <2>1, <1>5 DEF Publishes
  <2>2. CASE i # k
    BY <2>2, <1>5 DEF Publishes, Alone, Held
  <2> QED
    BY <2>1, <2>2
<1> QED
  BY <1>1, <1>2, <1>3, <1>4, <1>5 DEF TaskStep

\* A row only stops agreeing when a handler that has written it ends, whose
\* message will come again.
LEMMA AgreeStep ==
  ASSUME TasksOK, NEW p, TaskStep(p), NEW l \in Listings, Agree(l)
  PROVE  Agree(l)' \/ Resumed(p, <<p, "message">>, l)
<1> USE DEF Agree, Published
<1>1. CASE Keeps
  BY <1>1 DEF Keeps, Alone, Held
<1>2. ASSUME NEW I \in SUBSET Ids, Drops(p, I)
      PROVE  Agree(l)' \/ Resumed(p, <<p, "message">>, l)
  <2>1. ASSUME NEW i \in Ids, Published(i, l)
        PROVE  Agree(l)' \/ Resumed(p, <<p, "message">>, l)
    <3>1. CASE i \in I
      BY <3>1, <2>1, <1>2 DEF Drops, Resumed
    <3>2. CASE i \notin I
      BY <3>2, <2>1, <1>2 DEF Drops, Alone, Held
    <3> QED
      BY <3>1, <3>2
  <2> QED
    BY <2>1, <1>2 DEF Drops
<1>3. ASSUME NEW k \in Ids, Reads(k)
      PROVE  Agree(l)'
  BY <1>3 DEF Reads, Alone, Held
<1>4. ASSUME NEW k \in Ids, Writes(k)
      PROVE  Agree(l)'
  <2>1. CASE l \in Held(Task(k))
    BY <2>1, <1>4 DEF Writes, Held
  <2>2. CASE l \notin Held(Task(k))
    BY <2>2, <1>4 DEF Writes, Written, Alone, Held
  <2> QED
    BY <2>1, <2>2
<1>5. ASSUME NEW k \in Ids, NEW ls, Publishes(k, ls)
      PROVE  Agree(l)'
  <2>1. CASE l \in ls
    BY <2>1, <1>5 DEF Publishes, TasksOK
  <2>2. CASE l \notin ls
    <3>1. ASSUME NEW i \in Ids, Published(i, l)
          PROVE  Published(i, l)'
      <4>1. CASE i # k
        BY <4>1, <3>1, <1>5 DEF Publishes, Alone, Held
      <4>2. CASE i = k
        <5>1. l \in Held(Task(k))'
          BY <4>2, <3>1, <2>2, <1>5 DEF Publishes
        <5>2. Task(k)'.stage = "publish"
          BY <5>1, <1>5 DEF Publishes, Held
        <5> QED
          BY <4>2, <5>1, <5>2
      <4> QED
        BY <4>1, <4>2
    <3> QED
      BY <3>1, <2>2, <1>5 DEF Publishes
  <2> QED
    BY <2>1, <2>2
<1> QED
  BY <1>1, <1>2, <1>3, <1>4, <1>5 DEF TaskStep

\* Every step of the scorer changes one task, or publishes or loses what one has.
LEMMA ScoreTasks ==
  ASSUME Basics, TasksOK, HandsOK, NEW p \in Pods, ScoringStep(p), UNCHANGED table
  PROVE  TaskStep(p)
<1> USE DEF Basics, TasksOK
<1> DEFINE m == <<p, "message">>
           c == <<p, "call">>
<1>0. /\ m \in Ids /\ c \in Ids
      /\ Task(m) = scoring[p] /\ Task(c) = rpc[p]
      /\ Task(m)' = scoring'[p] /\ Task(c)' = rpc'[p]
      /\ \A i \in Ids : i = m \/ i = c \/ i[1] # p
      /\ \A i \in Ids : i[1] \in Pods /\ i[2] \in {"message", "call"}
  BY DEF Ids, Task
<1>1. ASSUME UNCHANGED rpc, NEW t, scoring' = [scoring EXCEPT ![p] = t]
      PROVE  Alone({m}) /\ Task(m)' = t
  BY <1>0, <1>1 DEF Alone, Task, Ids
<1>2. ASSUME UNCHANGED scoring, NEW t, rpc' = [rpc EXCEPT ![p] = t]
      PROVE  Alone({c}) /\ Task(c)' = t
  BY <1>0, <1>2 DEF Alone, Task, Ids
<1>s. Reached(cur[p]) \subseteq Stored /\ Stored' = Stored
  BY DEF Reached, RowOf, Stored, table
<1>3. CASE UNCHANGED <<results, scoring, rpc, crossed, broken>>
  <2>1. Keeps
    BY <1>3 DEF Keeps, Alone, Task, results
  <2> QED
    BY <2>1, <1>3 DEF TaskStep, Functions_, results
<1>4. CASE FetchRow(p)
  <2>1. CASE Reached(cur[p]) = {}
    BY <2>1, <1>3, <1>4 DEF FetchRow, Reached
  <2>2. CASE Reached(cur[p]) # {}
    <3> DEFINE t == [stage |-> "write", price |-> Prices_(Reached(cur[p]))]
    <3>1. scoring' = [scoring EXCEPT ![p] = t] /\ pc[p] = "call" /\ UNCHANGED <<results, rpc, crossed, broken>>
      BY <2>2, <1>4 DEF FetchRow, Reached
    <3>2. t.stage = "write" /\ DOMAIN t = {"stage", "price"} /\ Held(t) = Reached(cur[p])
      BY DEF Held, Prices_
    <3> HIDE DEF t
    <3>3. Task(m).stage = "none"
      BY <3>1, <1>0 DEF HandsOK
    <3>4. Held(Task(m))' = Held(t)
      BY <3>1, <1>1 DEF Held
    <3>5. Reads(m)
      BY <3>1, <3>2, <3>3, <3>4, <1>1, <1>s DEF Reads, results
    <3> QED
      BY <3>1, <3>5, <1>0 DEF TaskStep, Functions_, results
  <2> QED
    BY <2>1, <2>2
<1>5. CASE WriteScores(p)
  <2> DEFINE t == [scoring[p] EXCEPT !.stage = "publish"]
  <2>1. /\ scoring' = [scoring EXCEPT ![p] = t] /\ scoring[p].stage = "write"
        /\ score' = Written(scoring[p])
        /\ crossed' = crossed \cup (Held(scoring[p]) \cap Others(p))
        /\ UNCHANGED <<announced, rpc, broken>>
    BY <1>5 DEF WriteScores
  <2>2. t.stage = "publish" /\ DOMAIN t = {"stage", "price"} /\ t.price = scoring[p].price
    BY <1>0
  <2> HIDE DEF t
  <2>3. ASSUME NEW j \in Ids \ {m}
        PROVE  Held(Task(j)) \subseteq Others(p)
    <3>1. CASE j[2] = "message"
      BY <3>1, <1>0 DEF Others, Task, Ids
    <3>2. CASE j[2] = "call"
      <4>1. Task(j) = rpc[j[1]] /\ j[1] \in Pods
        BY <3>2, <1>0 DEF Task
      <4> QED
        BY <4>1 DEF Others
    <3> QED
      BY <3>1, <3>2, <1>0
  <2>4. Writes(m)
    BY <2>1, <2>2, <2>3, <1>0, <1>1 DEF Writes
  <2>5. score' = [l \in Listings |-> score'[l]]
    BY <2>1 DEF Written
  <2> QED
    BY <2>1, <2>4, <2>5, <1>0 DEF TaskStep, Functions_
<1>6. CASE PublishScored(p)
  <2>1. /\ scoring[p].stage = "publish" /\ scoring' = [scoring EXCEPT ![p] = Free]
        /\ announced' = [l \in Listings |-> IF l \in Held(scoring[p]) THEN scoring[p].price[l] ELSE announced[l]]
        /\ UNCHANGED <<score, rpc, crossed, broken>>
    BY <1>6 DEF PublishScored
  <2>2. Held(Free) = {} /\ DOMAIN Free = {"stage", "price"} /\ Free.stage = "none"
    BY DEF Held, Free
  <2>3. Held(Task(m))' = {}
    BY <2>1, <2>2, <1>1 DEF Held
  <2>4. Publishes(m, Held(Task(m)))
    BY <2>1, <2>2, <2>3, <1>0, <1>1 DEF Publishes
  <2> QED
    BY <2>1, <2>4, <1>0 DEF TaskStep, Functions_
<1>7. CASE ScoringError(p)
  <2>1. scoring' = [scoring EXCEPT ![p] = Free] /\ UNCHANGED <<results, rpc, crossed>> /\ broken \subseteq broken'
    BY <1>7 DEF ScoringError
  <2>2. HandlerStep(p, Handling)
    BY <1>7, ErrorEffect DEF ScoringError
  <2>3. ASSUME NEW l \in Listings, Published(m, l)
        PROVE  l \in broken' \/ Resumed(p, m, l)
    BY <2>2, <2>3, <1>0, <1>7 DEF ScoringError, LeftBy, Unpublished, Published, Resumed
  <2>4. Drops(p, {m})
    BY <2>1, <2>3, <1>1 DEF Drops, results
  <2> QED
    BY <2>1, <2>4, <1>0 DEF TaskStep, Functions_, results
<1>8. CASE RpcWriteScores(p)
  <2> DEFINE t == [rpc[p] EXCEPT !.stage = "publish"]
             others == (UNION {Held(scoring[q]) : q \in Pods}) \cup (UNION {Held(rpc[q]) : q \in Pods \ {p}})
  <2>1. /\ rpc' = [rpc EXCEPT ![p] = t] /\ rpc[p].stage = "write"
        /\ score' = Written(rpc[p])
        /\ crossed' = crossed \cup (Held(rpc[p]) \cap others)
        /\ UNCHANGED <<announced, scoring, broken>>
    BY <1>8 DEF RpcWriteScores
  <2>2. t.stage = "publish" /\ DOMAIN t = {"stage", "price"} /\ t.price = rpc[p].price
    BY <1>0
  <2> HIDE DEF t
  <2>3. ASSUME NEW j \in Ids \ {c}
        PROVE  Held(Task(j)) \subseteq others
    <3>1. CASE j[2] = "message"
      BY <3>1, <1>0 DEF Task, Ids
    <3>2. CASE j[2] = "call"
      <4>1. Task(j) = rpc[j[1]] /\ j[1] \in Pods \ {p}
        BY <3>2, <1>0 DEF Task
      <4> QED
        BY <4>1
    <3> QED
      BY <3>1, <3>2, <1>0
  <2> HIDE DEF others
  <2>4. Writes(c)
    BY <2>1, <2>2, <2>3, <1>0, <1>2 DEF Writes
  <2>5. score' = [l \in Listings |-> score'[l]]
    BY <2>1 DEF Written
  <2> QED
    BY <2>1, <2>4, <2>5, <1>0 DEF TaskStep, Functions_
<1>9. CASE RpcError(p)
  <2>1. rpc' = [rpc EXCEPT ![p] = Free] /\ UNCHANGED <<results, scoring, crossed>> /\ broken \subseteq broken'
    BY <1>9 DEF RpcError
  <2>2. ASSUME NEW l \in Listings, Published(c, l)
        PROVE  l \in broken'
    BY <2>2, <1>0, <1>9 DEF RpcError, Unpublished, Published
  <2>3. Drops(p, {c})
    BY <2>1, <2>2, <1>2 DEF Drops, results
  <2> QED
    BY <2>1, <2>3, <1>0 DEF TaskStep, Functions_, results
<1>10. ASSUME NEW l \in Listings, RpcPublish(p, l)
       PROVE  TaskStep(p)
  <2> DEFINE rest == Held(rpc[p]) \ {l}
             t == IF rest = {} THEN Free ELSE [rpc[p] EXCEPT !.price = [k \in rest |-> rpc[p].price[k]]]
  <2>1. /\ rpc[p].stage = "publish" /\ l \in Held(rpc[p])
        /\ rpc' = [rpc EXCEPT ![p] = t]
        /\ announced' = [announced EXCEPT ![l] = rpc[p].price[l]]
        /\ UNCHANGED <<score, scoring, crossed, broken>>
    BY <1>10 DEF RpcPublish
  <2>2. /\ DOMAIN t = {"stage", "price"} /\ t.stage \in {"none", "publish"}
        /\ Held(t) = rest
        /\ \A k \in rest : t.price[k] = rpc[p].price[k]
    <3>1. CASE rest = {}
      BY <3>1 DEF Free, Held
    <3>2. CASE rest # {}
      <4>1. t = [rpc[p] EXCEPT !.price = [k \in rest |-> rpc[p].price[k]]]
        BY <3>2
      <4>2. DOMAIN rpc[p] = {"stage", "price"}
        BY <1>0
      <4> HIDE DEF rest, t
      <4>3. DOMAIN t = {"stage", "price"} /\ t.stage = "publish" /\ t.price = [k \in rest |-> rpc[p].price[k]]
        BY <4>1, <4>2, <2>1
      <4> QED
        BY <4>3 DEF Held
    <3> QED
      BY <3>1, <3>2
  <2> HIDE DEF t
  <2>3. Held(Task(c))' = rest
    BY <2>1, <2>2, <1>2 DEF Held
  <2>4. announced' = [k \in Listings |-> IF k \in {l} THEN rpc[p].price[k] ELSE announced[k]]
    BY <2>1
  <2>5. Publishes(c, {l})
    BY <2>1, <2>2, <2>3, <2>4, <1>0, <1>2 DEF Publishes
  <2> QED
    BY <2>1, <2>4, <2>5, <1>0 DEF TaskStep, Functions_
<1>11. ASSUME NEW ls \in SUBSET Listings, ScoreBatch(p, ls)
       PROVE  TaskStep(p)
  <2> DEFINE t == [stage |-> "write", price |-> Prices_(ls)]
  <2>1. /\ rpc[p] = Free /\ ls \subseteq Stored /\ rpc' = [rpc EXCEPT ![p] = t]
        /\ UNCHANGED <<results, scoring, crossed, broken>>
    BY <1>11 DEF ScoreBatch
  <2>2. t.stage = "write" /\ DOMAIN t = {"stage", "price"} /\ Held(t) = ls
    BY DEF Held, Prices_
  <2> HIDE DEF t
  <2>3. Held(Task(c))' = ls
    BY <2>1, <2>2, <1>2 DEF Held
  <2>4. Task(c).stage = "none"
    BY <2>1, <1>0 DEF Free
  <2>5. Reads(c)
    BY <2>1, <2>2, <2>3, <2>4, <1>2 DEF Reads, results
  <2> QED
    BY <2>1, <2>5, <1>0 DEF TaskStep, Functions_, results
<1>12. CASE ScoringDie(p)
  <2>1. /\ scoring' = [scoring EXCEPT ![p] = Free] /\ rpc' = [rpc EXCEPT ![p] = Free]
        /\ UNCHANGED <<results, crossed>> /\ broken \subseteq broken'
    BY <1>12 DEF ScoringDie
  <2>2. Gone(p)
    BY <1>12 DEF ScoringDie, Escape, Crash
  <2>3. ASSUME NEW i \in {m, c}, NEW l \in Listings, Published(i, l)
        PROVE  l \in broken' \/ Resumed(p, i, l)
    BY <2>2, <2>3, <1>0, <1>12 DEF ScoringDie, LeftBy, Unpublished, Published, Resumed
  <2>4. Alone({m, c})
    BY <2>1, <1>0 DEF Alone, Task, Ids
  <2>5. Drops(p, {m, c})
    BY <2>1, <2>3, <2>4, <1>0 DEF Drops, results
  <2> QED
    BY <2>1, <2>5, <1>0 DEF TaskStep, Functions_, results
<1> QED
  BY <1>3, <1>4, <1>5, <1>6, <1>7, <1>8, <1>9, <1>10, <1>11, <1>12 DEF ScoringStep, ScoringGroup

\* The broker's part of a scoring step.
ScoringBroker(p) ==
  \/ Untouched /\ (UNCHANGED scoring \/ WriteScores(p))
  \/ pc[p] \in {"call", "wait"} /\ HandlerStep(p, Handling)
  \/ FetchRow(p) /\ Reached(cur[p]) = {} /\ HandlerStep(p, {"commit"})
  \/ PublishScored(p) /\ HandlerStep(p, {"commit"})
  \/ (Assign(p) \/ Rebalance(p) \/ StartPod(p) \/ LoopStep(p)) /\ ScoringGroup(p)
  \/ Gone(p)

\* What a step of the scorer does to the consume loop.
LEMMA ScoringEffect ==
  ASSUME Basics, HandsOK, NEW p \in Pods, ScoringStep(p)
  PROVE  BrokerStep(p) /\ ScoringBroker(p) /\ UNCHANGED logEnd
<1> USE DEF Basics
<1>1. CASE FetchRow(p)
  <2>1. CASE Reached(cur[p]) = {}
    BY <1>1, <2>1, ReturnEffect DEF FetchRow, ScoringBroker, Reached
  <2>2. CASE Reached(cur[p]) # {}
    BY <1>1, <2>2, WaitEffect DEF FetchRow, ScoringBroker, Reached
  <2> QED
    BY <2>1, <2>2
<1>2. CASE WriteScores(p)
  BY <1>2, StayEffect DEF WriteScores, ScoringBroker
<1>3. CASE PublishScored(p)
  <2>1. pc[p] = "wait"
    BY <1>3 DEF PublishScored, HandsOK
  <2> QED
    BY <2>1, <1>3, ReturnEffect DEF PublishScored, ScoringBroker
<1>4. CASE ScoringError(p)
  BY <1>4, ErrorEffect DEF ScoringError, ScoringBroker
<1>5. CASE RpcWriteScores(p) \/ (\E l \in Listings : RpcPublish(p, l))
           \/ \E ls \in SUBSET Listings : ScoreBatch(p, ls)
  BY <1>5, StayEffect DEF RpcWriteScores, RpcPublish, ScoreBatch, ScoringBroker
<1>6. CASE RpcError(p)
  <2>1. Untouched /\ UNCHANGED <<logEnd, scoring>> /\ faults' \in 0..MaxFaults
    BY <1>6, BoundsAssumption DEF RpcError, log_, group, reader, Untouched, Fault, BrokerOK, BrokerTypeOK
  <2> QED
    BY <2>1 DEF BrokerStep, ScoringBroker
<1>7. CASE ScoringGroup(p)
  BY <1>7, GroupEffect DEF ScoringGroup, ScoringBroker
<1>8. CASE ScoringDie(p)
  BY <1>8, DieEffect DEF ScoringDie, ScoringBroker
<1> QED
  BY <1>1, <1>2, <1>3, <1>4, <1>5, <1>6, <1>7, <1>8 DEF ScoringStep

\* A pod that holds a record has its task, and one that scores holds its record.
LEMMA HandsOKStep ==
  ASSUME Basics, TasksOK, HandsOK, NEW p \in Pods, ScoringStep(p), UNCHANGED table
  PROVE  HandsOK'
<1> USE DEF Basics
<1>1. BrokerStep(p)
  BY ScoringEffect
<1>2. /\ \A q \in Pods \ {p} : pc'[q] = pc[q] /\ cur'[q] = cur[q]
      /\ pc = [q \in Pods |-> pc[q]] /\ scoring = [q \in Pods |-> scoring[q]]
  BY <1>1 DEF BrokerStep, BrokerOK, BrokerTypeOK, AssignTo, StartPod, LoopStep, Fetch, DeadLetter,
     Commit, Gone, HandlerStep, Goto, Untouched, reader, TasksOK
<1>3. \A m : Reached(m)' = Reached(m)
  BY DEF Reached, RowOf, Stored, table
<1>4. ASSUME NEW q \in Pods, q # p
      PROVE  scoring'[q] = scoring[q]
  BY <1>4, <1>2 DEF ScoringStep, FetchRow, WriteScores, PublishScored, ScoringError, RpcWriteScores, RpcPublish,
     ScoreBatch, RpcError, ScoringGroup, ScoringDie
<1>5. ASSUME NEW q \in Pods, q # p
      PROVE  Held(scoring[q])' = Held(scoring[q])
  BY <1>5, <1>4 DEF Held
<1> SUFFICES IF pc'[p] = "wait" THEN Held(scoring[p])' = Reached(cur'[p]) /\ scoring'[p].stage # "none"
             ELSE scoring'[p].stage = "none"
  BY <1>2, <1>3, <1>4, <1>5 DEF HandsOK
<1> USE DEF HandsOK
<1>6. CASE UNCHANGED <<pc, cur, scoring>>
  <2>1. Held(scoring[p])' = Held(scoring[p])
    BY <1>6 DEF Held
  <2> QED
    BY <2>1, <1>6, <1>3
<1>7. CASE FetchRow(p)
  <2>1. CASE Reached(cur[p]) = {}
    BY <1>2, <1>7, <2>1 DEF FetchRow, Returned, Goto, Reached
  <2>2. CASE Reached(cur[p]) # {}
    <3>1. scoring'[p] = [stage |-> "write", price |-> Prices_(Reached(cur[p]))] /\ UNCHANGED cur
      BY <1>2, <1>7, <2>2 DEF FetchRow, reader, Reached
    <3>2. Held(scoring[p])' = Reached(cur[p])
      BY <3>1 DEF Held, Prices_
    <3> QED
      BY <1>2, <1>3, <1>7, <2>2, <3>1, <3>2 DEF FetchRow, Goto, Reached
  <2> QED
    BY <2>1, <2>2
<1>8. CASE WriteScores(p)
  <2>1. /\ UNCHANGED <<pc, cur>> /\ scoring[p].stage = "write"
        /\ scoring' = [scoring EXCEPT ![p].stage = "publish"]
    BY <1>8 DEF WriteScores, broker
  <2>2. DOMAIN scoring[p] = {"stage", "price"}
    <3>1. <<p, "message">> \in Ids /\ Task(<<p, "message">>) = scoring[p]
      BY DEF Ids, Task
    <3> QED
      BY <3>1 DEF TasksOK
  <2>3. scoring'[p].stage = "publish" /\ scoring'[p].price = scoring[p].price
    BY <2>1, <2>2, <1>2
  <2>4. Held(scoring[p])' = Held(scoring[p])
    BY <2>1, <2>3 DEF Held
  <2> QED
    BY <2>1, <2>3, <2>4, <1>3
<1>9. CASE PublishScored(p)
  BY <1>2, <1>9 DEF PublishScored, Returned, Goto, Free
<1>10. CASE ScoringError(p)
  <2>1. scoring' = [scoring EXCEPT ![p] = Free] /\ pc'[p] \in {"call", "deadletter"}
    BY <1>2, <1>10 DEF ScoringError, Raised, Goto
  <2> QED
    BY <2>1, <1>2 DEF Free
<1>11. CASE RpcWriteScores(p) \/ RpcError(p) \/ (\E l \in Listings : RpcPublish(p, l))
            \/ \E ls \in SUBSET Listings : ScoreBatch(p, ls)
  BY <1>6, <1>11 DEF RpcWriteScores, RpcError, RpcPublish, ScoreBatch, broker, reader
<1>12. CASE ScoringGroup(p)
  <2>1. AssignTo(p) \/ StartPod(p) \/ LoopStep(p)
    BY <1>12, GroupEffect DEF ScoringGroup
  <2>2. scoring' = scoring
    BY <1>12 DEF ScoringGroup
  <2>3. CASE AssignTo(p)
    BY <2>2, <2>3, <1>6 DEF AssignTo
  <2>4. CASE StartPod(p) \/ LoopStep(p)
    BY <2>2, <2>4, <1>2 DEF StartPod, LoopStep, Fetch, DeadLetter, Commit, Goto
  <2> QED
    BY <2>1, <2>3, <2>4
<1>13. CASE ScoringDie(p)
  BY <1>2, <1>13 DEF ScoringDie, Escape, Crash, Gone, Goto, Free
<1> QED
  BY <1>7, <1>8, <1>9, <1>10, <1>11, <1>12, <1>13 DEF ScoringStep

\* A step of the scorer settles a message only when its row was announced.
LEMMA ScoringSettles ==
  ASSUME Basics, TasksOK, HandsOK, SettledBehind(Announced_), NEW p \in Pods, ScoringStep(p),
         UNCHANGED table, NEW E, E = Announced_'
  PROVE  Settles(p, Announced_, E)
<1> USE DEF Basics
<1>1. BrokerStep(p) /\ ScoringBroker(p) /\ UNCHANGED logEnd
  BY ScoringEffect
<1>2. TaskStep(p)
  BY ScoreTasks
<1>3. dead \subseteq dead' /\ base' \in Int /\ base <= base' /\ base \in Int
  BY <1>1, HistoryGrows DEF BrokerOK, BrokerTypeOK
<1>4. \A m : Reached(m)' = Reached(m) /\ Reached(m) \subseteq Listings
  BY DEF Reached, RowOf, Stored, table
<1>5. \A m \in 1..logEnd : m <= base' \/ m \in dead' => m \in E
  BY <1>1 DEF Announced_
<1>6. ASSUME NEW m \in Announced_, m \notin E
      PROVE  \E l \in Reached(m) : Resumed(p, <<p, "message">>, l)
  <2>1. m \in 1..logEnd /\ ~(m <= base') /\ m \notin dead'
    BY <1>5, <1>6 DEF Announced_
  <2>2. \A l \in Reached(m) : Agree(l)
    BY <2>1, <1>3 DEF Announced_
  <2>3. PICK l \in Reached(m)' : ~Agree(l)'
    BY <2>1, <1>1, <1>6 DEF Announced_
  <2> QED
    BY <2>2, <2>3, <1>2, <1>4, AgreeStep
<1>7. ASSUME NEW l, Resumed(p, <<p, "message">>, l)
      PROVE  pc[p] = "wait" /\ l \in Reached(cur[p]) /\ ~Overtaken(p) /\ (Gone(p) \/ HandlerStep(p, Handling))
  BY <1>7 DEF Resumed, Published, Task, HandsOK
<1>8. CASE \E l : Resumed(p, <<p, "message">>, l)
  <2>1. /\ pc[p] = "wait" /\ ~Overtaken(p) /\ (Gone(p) \/ HandlerStep(p, Handling))
        /\ cur[p] \in 1..logEnd
    BY <1>7, <1>8 DEF BrokerOK, BrokerTypeOK, Busy
  <2>2. cur[p] \in Mine(p) \cup Ahead \/ cur[p] <= base
    <3>1. CASE owner = p
      BY <2>1, <3>1 DEF SettledBehind, Current, Mine, Ahead, Overtaken, Busy, BrokerOK, BrokerTypeOK, NoOffset
    <3>2. CASE owner # p
      BY <2>1, <3>2 DEF Ahead, Overtaken, BrokerOK, BrokerTypeOK, NoOffset
    <3> QED
      BY <3>1, <3>2
  <2>3. ASSUME NEW m \in Announced_, m \notin E
        PROVE  m = cur[p]
    BY <2>1, <2>3, <1>6, <1>7 DEF Reached, RowOf, Announced_, RowsOK
  <2>4. cur[p] <= base => cur[p] \in E
    BY <2>1, <1>3, <1>5
  <2>5. Announced_ \ (Mine(p) \cup Ahead) \subseteq E
    BY <2>2, <2>3, <2>4
  <2> QED
    BY <2>1, <2>5 DEF Settles
<1>9. CASE ~\E l : Resumed(p, <<p, "message">>, l)
  <2>1. Announced_ \subseteq E
    BY <1>6, <1>9
  <2>2. CASE FetchRow(p) /\ Reached(cur[p]) = {} /\ HandlerStep(p, {"commit"})
    <3>1. cur[p] \in E
      <4>1. cur[p] \in 1..logEnd
        BY <2>2 DEF HandlerStep, BrokerOK, BrokerTypeOK, Busy
      <4> QED
        BY <4>1, <2>2, <1>1, <1>4 DEF Announced_
    <3> QED
      BY <2>1, <2>2, <3>1 DEF Settles, Mine
  <2>3. CASE PublishScored(p) /\ HandlerStep(p, {"commit"})
    <3>1. cur[p] \in 1..logEnd /\ scoring[p].stage = "publish" /\ pc[p] = "wait"
      BY <2>3 DEF PublishScored, HandlerStep, HandsOK, BrokerOK, BrokerTypeOK, Busy
    <3>2. /\ <<p, "message">> \in Ids /\ Task(<<p, "message">>) = scoring[p]
          /\ Held(scoring[p]) = Reached(cur[p])
      BY <3>1 DEF Ids, Task, HandsOK
    <3>3. ASSUME NEW l \in Reached(cur[p])
          PROVE  Agree(l)'
      <4>1. Published(<<p, "message">>, l) /\ l \in Listings
        BY <3>1, <3>2, <1>4 DEF Published
      <4>2. l \in crossed \cup broken \/ score[l] = scoring[p].price[l]
        BY <4>1, <3>2 DEF TasksOK
      <4>3. announced'[l] = scoring[p].price[l] /\ UNCHANGED <<score, crossed, broken>>
        BY <4>1, <3>2, <2>3 DEF PublishScored
      <4> QED
        BY <4>2, <4>3 DEF Agree
    <3>4. cur[p] \in E
      BY <3>1, <3>3, <1>1, <1>4 DEF Announced_
    <3> QED
      BY <2>1, <2>3, <3>4 DEF Settles, Mine
  <2>4. CASE (Assign(p) \/ Rebalance(p) \/ StartPod(p) \/ LoopStep(p)) /\ ScoringGroup(p)
    BY <2>1, <2>4, <1>5, GroupSettles
  <2>5. CASE Untouched \/ HandlerStep(p, Handling) \/ Gone(p)
    BY <2>1, <2>5 DEF Settles
  <2> QED
    BY <2>2, <2>3, <2>4, <2>5, <1>1 DEF ScoringBroker
<1> QED
  BY <1>8, <1>9

\* A row that stops agreeing is in the hands of a handler, so a message names it.
LEMMA UnnamedAgreeStep ==
  ASSUME Basics, TasksOK, HandsOK, UnnamedAgree, NEW p \in Pods, ScoringStep(p), UNCHANGED table
  PROVE  UnnamedAgree'
<1> USE DEF Basics
<1>1. TaskStep(p)
  BY ScoreTasks
<1>2. UNCHANGED logEnd
  BY ScoringEffect
<1>3. \A m : Reached(m)' = Reached(m)
  BY DEF Reached, RowOf, Stored, table
<1>4. ASSUME NEW l \in Listings, \A m \in 1..logEnd : l \notin Reached(m)
      PROVE  Agree(l)'
  <2>1. Agree(l)' \/ Resumed(p, <<p, "message">>, l)
    BY <1>1, <1>4, AgreeStep DEF UnnamedAgree
  <2>2. ASSUME Resumed(p, <<p, "message">>, l)
        PROVE  cur[p] \in 1..logEnd /\ l \in Reached(cur[p])
    <3>1. pc[p] = "wait" /\ l \in Reached(cur[p])
      BY <2>2 DEF Resumed, Published, Task, HandsOK
    <3> QED
      BY <3>1 DEF BrokerOK, BrokerTypeOK, Busy
  <2> QED
    BY <2>1, <2>2, <1>4
<1> QED
  BY <1>2, <1>3, <1>4 DEF UnnamedAgree

\* Every step of the scorer keeps its invariant.
LEMMA ScoreInvStep ==
  ASSUME Basics, ScoreInv, Score
  PROVE  Basics' /\ ScoreInv' /\ scope' = scope /\ worker = "score"
<1> USE DEF Basics
<1>1. worker = "score" /\ scope' = scope /\ UNCHANGED table
  BY DEF Score
<1>2. PICK p \in Pods : ScoringStep(p)
  BY DEF Score
<1>3. TasksOK /\ HandsOK /\ UnnamedAgree /\ SettledBehind(Announced_)
  BY <1>1 DEF ScoreInv
<1>4. PICK E : E = Announced_'
  OBVIOUS
<1>5. BrokerStep(p) /\ UNCHANGED logEnd
  BY <1>2, <1>3, ScoringEffect
<1>6. Settles(p, Announced_, E)
  BY <1>1, <1>2, <1>3, <1>4, ScoringSettles
<1>7. BrokerOK' /\ SettledBehind(E)'
  BY <1>3, <1>5, <1>6, BrokerOKStep, SettledBehindStep
<1>8. RowsOK' /\ Stored' = Stored
  BY <1>1, <1>5, SameRows, RewritesStep
<1>9. TasksOK'
  BY <1>1, <1>2, <1>3, <1>8, ScoreTasks, TasksOKStep
<1>10. HandsOK'
  BY <1>1, <1>2, <1>3, HandsOKStep
<1>11. SettledBehind(Announced_)'
  BY <1>4, <1>7 DEF SettledBehind
<1>12. UnnamedAgree'
  BY <1>1, <1>2, <1>3, UnnamedAgreeStep
<1> QED
  BY <1>1, <1>7, <1>8, <1>9, <1>10, <1>11, <1>12 DEF ScoreInv

\* An upsert keeps the invariant of the scorer.
LEMMA ScoreNormalize ==
  ASSUME Basics, ScoreInv, worker = "score", NEW l, NEW price, Stores(l, price)
  PROVE  ScoreInv'
<1> USE DEF Basics
<1>1. /\ l \in Listings /\ Stored' = Stored \cup {l}
      /\ UNCHANGED <<broker, scope, results, scoring, rpc, calls, crossed, broken>>
  BY DEF Stores, scorer
<1>m. \A m \in 1..logEnd : Reached(m)' = Reached(m)
  BY StoresKeeps
<1>2. TasksOK /\ HandsOK /\ UnnamedAgree /\ SettledBehind(Announced_)
  BY DEF ScoreInv
<1>3. \A i : Task(i)' = Task(i) /\ Held(Task(i))' = Held(Task(i)) /\ \A k : Published(i, k)' = Published(i, k)
  BY <1>1 DEF Task, Held, Published
<1>4. \A k : Agree(k)' = Agree(k)
  BY <1>1, <1>3 DEF Agree, results
<1>5. TasksOK'
  BY <1>1, <1>2, <1>3 DEF TasksOK, results
<1>6. HandsOK'
  <2>1. ASSUME NEW q \in Pods
        PROVE  /\ UNCHANGED <<pc, cur, scoring>>
               /\ pc[q] = "wait" => Reached(cur[q])' = Reached(cur[q])
               /\ Held(scoring[q])' = Held(scoring[q])
    BY <1>1, <1>m DEF broker, Held, BrokerOK, BrokerTypeOK, Busy
  <2> QED
    BY <2>1, <1>2 DEF HandsOK
<1>7. SettledBehind(Announced_)'
  <2>1. PICK E : E = Announced_'
    OBVIOUS
  <2>2. Announced_ \subseteq E
    <3>1. ASSUME NEW m \in Announced_
          PROVE  m \in E
      <4>1. m \in 1..logEnd' /\ UNCHANGED <<base, dead>> /\ m \in 1..logEnd
        BY <1>1 DEF broker, Announced_
      <4>2. Reached(m)' = Reached(m)
        BY <4>1, <1>m
      <4> QED
        BY <2>1, <4>1, <4>2, <1>4 DEF Announced_
    <3> QED
      BY <3>1
  <2>3. SettledBehind(E)'
    BY <2>2, <1>1, <1>2, SettledBehindStays
  <2> QED
    BY <2>1, <2>3 DEF SettledBehind
<1>8. UnnamedAgree'
  BY <1>1, <1>2, <1>4, <1>m DEF UnnamedAgree, broker
<1> QED
  BY <1>5, <1>6, <1>7, <1>8 DEF ScoreInv

\* So does a publish.
LEMMA ScoreAnnounce ==
  ASSUME Basics, ScoreInv, worker = "score", NEW id, Announces(id)
  PROVE  ScoreInv'
<1> USE DEF Basics
<1>1. /\ Produce /\ logEnd' = logEnd + 1
      /\ UNCHANGED <<rows, scope, results, scoring, rpc, calls, crossed, broken>>
  BY DEF Announces, scorer
<1>m. \A m \in 1..logEnd : Reached(m)' = Reached(m)
  BY DEF Announces
<1>2. TasksOK /\ HandsOK /\ UnnamedAgree /\ SettledBehind(Announced_)
  BY DEF ScoreInv
<1>3. \A i : Task(i)' = Task(i) /\ Held(Task(i))' = Held(Task(i)) /\ \A k : Published(i, k)' = Published(i, k)
  BY <1>1 DEF Task, Held, Published
<1>4. \A k : Agree(k)' = Agree(k)
  BY <1>1, <1>3 DEF Agree, results
<1>5. TasksOK'
  BY <1>1, <1>2, <1>3 DEF TasksOK, results, Stored
<1>6. HandsOK'
  <2>1. ASSUME NEW q \in Pods
        PROVE  /\ UNCHANGED <<pc, cur, scoring>>
               /\ pc[q] = "wait" => Reached(cur[q])' = Reached(cur[q])
               /\ Held(scoring[q])' = Held(scoring[q])
    BY <1>1, <1>m DEF Produce, reader, Held, BrokerOK, BrokerTypeOK, Busy
  <2> QED
    BY <2>1, <1>2 DEF HandsOK
<1>7. SettledBehind(Announced_)'
  <2>1. PICK E : E = Announced_'
    OBVIOUS
  <2>2. Announced_ \subseteq E
    <3>1. ASSUME NEW m \in Announced_
          PROVE  m \in E
      <4>1. m \in 1..logEnd' /\ UNCHANGED <<base, dead>> /\ m \in 1..logEnd
        BY <1>1 DEF Produce, Announced_, BrokerOK, BrokerTypeOK
      <4>2. Reached(m)' = Reached(m)
        BY <4>1, <1>m
      <4> QED
        BY <2>1, <4>1, <4>2, <1>4 DEF Announced_
    <3> QED
      BY <3>1
  <2>3. SettledBehind(E)'
    BY <2>2, <1>1, <1>2, SettledBehindStep
  <2> QED
    BY <2>1, <2>3 DEF SettledBehind
<1>8. UnnamedAgree'
  BY <1>1, <1>2, <1>4, <1>m DEF UnnamedAgree, BrokerOK, BrokerTypeOK
<1> QED
  BY <1>5, <1>6, <1>7, <1>8 DEF ScoreInv

\* The property follows from the invariant of the scorer.
LEMMA ScoreProperty ==
  ASSUME Basics, ScoreInv
  PROVE  TableAgreesWithTopic
<1> USE DEF Basics
<1> SUFFICES ASSUME worker = "score", NEW l \in Stored, score[l] # announced[l],
                    l \notin crossed \cup broken,
                    \A m \in Naming(l) : ~(m > committed) /\ m \notin dead /\ ~(m <= base)
             PROVE  \E p \in Pods : l \in Held(scoring[p]) \cup Held(rpc[p])
  BY DEF TableAgreesWithTopic
<1>1. ASSUME NEW m \in 1..logEnd, l \in Reached(m)
      PROVE  Agree(l)
  <2>1. m \in Naming(l)
    BY <1>1 DEF Naming, Reached, RowOf, RowsOK
  <2>2. m \in 1..committed
    BY <2>1 DEF BrokerOK, BrokerTypeOK, NoOffset
  <2> QED
    BY <2>1, <2>2, <1>1 DEF ScoreInv, SettledBehind, Announced_
<1>2. l \in Listings
  BY DEF Stored
<1>3. Agree(l)
  BY <1>1, <1>2 DEF ScoreInv, UnnamedAgree
<1>4. PICK i \in Ids : Published(i, l)
  BY <1>3 DEF Agree
<1> QED
  BY <1>4 DEF Ids, Task, Published

-----------------------------------------------------------------------------
(* The deduplicator                                                         *)

\* The candidates have an earliest one.
LEMMA EarliestIsOne ==
  ASSUME NEW cands, cands # {}, \A c \in cands : c.id \in Nat
  PROVE  Earliest(cands) \in cands
<1> DEFINE ids == {c.id : c \in cands}
           R   == {ss \in Nat \X Nat : ss[1] < ss[2]}
<1>1. IsWellFoundedOn(R, Nat)
  BY NatLessThanWellFounded DEF OpToRel
<1>2. ids \subseteq Nat /\ ids # {}
  OBVIOUS
<1> HIDE DEF ids, R
<1>3. PICK i \in ids : \A j \in ids : ~(<<j, i>> \in R)
  BY <1>1, <1>2, WFMin
<1>4. ASSUME NEW j \in ids
      PROVE  i <= j
  <2>1. i \in Nat /\ j \in Nat
    BY <1>2
  <2>2. j < i => <<j, i>> \in R
    BY <2>1 DEF R
  <2> QED
    BY <1>3, <2>1, <2>2
<1>5. \E c \in cands : \A d \in cands : c.id <= d.id
  BY <1>4 DEF ids
<1> QED
  BY <1>5 DEF Earliest

\* A listing that some other one matches has an area and an address: it matches itself.
LEMMA MatchesItself ==
  ASSUME NEW c \in Listings, NEW l \in Listings, Matches(c, l)
  PROVE  Matches(l, l)
<1>1. Near(l, l)
  BY DEF Matches, Near
<1>2. Features[c].area \in Nat /\ Features[l].area \in Nat
  BY FeaturesAssumption
<1>3. Distance(Features[c].area, Features[l].area) * 100 < AreaTolerance * Features[l].area
  BY DEF Matches, FilterByFeatures
<1>4. Distance(Features[c].area, Features[l].area) \in Nat
  BY <1>2 DEF Distance
<1>5. Features[l].area > 0
  BY <1>2, <1>3, <1>4 DEF AreaTolerance
<1>6. Distance(Features[l].area, Features[l].area) = 0
  BY <1>2 DEF Distance
<1>7. FilterByFeatures(l, l)
  BY <1>2, <1>5, <1>6 DEF FilterByFeatures, AreaTolerance
<1>8. IsAddressMatch(l, l)
  BY DEF Matches, IsAddressMatch
<1> QED
  BY <1>1, <1>7, <1>8 DEF Matches

Grouped(x, y) == rows[x].canonical = rows[y].canonical /\ rows[x].canonical # NoId

\* A group has the id of one of its rows.
Roots ==
  \A y \in Stored : rows[y].canonical = NoId
     \/ \E x \in Stored : rows[y].canonical = rows[x].id /\ rows[x].canonical = rows[x].id

\* Nobody is in a group with others of whom none matches it.
Neighbours ==
  \A x, y \in Stored :
    x # y /\ Grouped(x, y) => \E z \in Stored \ {x} : Grouped(x, z) /\ Matches(z, x)

\* No group reaches beyond a country.
OneCountry ==
  \A x, y \in Stored : Grouped(x, y) => Features[x].country = Features[y].country

GroupsOK == Roots /\ Neighbours /\ OneCountry

\* The messages whose listing is in one group with the matches of earlier messages.
Deduplicated ==
  {m \in 1..logEnd : m <= base \/ m \in dead \/
     \A k \in 1..logEnd : k < m /\ ListingOf(k) # ListingOf(m) /\ Matches(ListingOf(k), ListingOf(m))
                            => Grouped(ListingOf(m), ListingOf(k))}

DedupInv ==
  worker = "dedup" /\ ~stale /\ ~Asymmetric => GroupsOK /\ SettledBehind(Deduplicated)

\* The group that a message's row and its candidates get, and the rows that get it.
GroupOf(own, cands) == IF cands = {} THEN own ELSE CanonicalOf(Earliest(cands))
GroupMoves(own, cands, l) ==
  LET ids == IF cands = {} THEN {} ELSE MergeIds(cands) \cup {GroupOf(own, cands)}
  IN  rows[l].id = own \/ rows[l].id \in ids \/ rows[l].canonical \in ids

\* What Regrouped does with the rows, when the candidates are what they were:
\* some groups as a whole, the message's row and the candidates become one.
LEMMA RegroupedRows ==
  ASSUME RowsOK, NEW own, NEW country, NEW cands
  PROVE  /\ Regrouped(own, country, cands) = [l \in Listings |-> Regrouped(own, country, cands)[l]]
         /\ \A l \in Listings \ Stored : Regrouped(own, country, cands)[l] = rows[l]
         /\ \A l \in Stored :
              /\ DOMAIN Regrouped(own, country, cands)[l] = DOMAIN rows[l]
              /\ Regrouped(own, country, cands)[l].id = rows[l].id
              /\ Regrouped(own, country, cands)[l].canonical =
                   IF Features[l].country = country /\ GroupMoves(own, cands, l)
                   THEN GroupOf(own, cands) ELSE rows[l].canonical
<1>1. Regrouped(own, country, cands) =
        [l \in Listings |-> IF l \in Stored /\ Features[l].country = country /\ GroupMoves(own, cands, l)
                            THEN [rows[l] EXCEPT !.canonical = GroupOf(own, cands)] ELSE rows[l]]
  BY DEF Regrouped, GroupMoves, GroupOf
<1>2. ASSUME NEW l \in Stored
      PROVE  /\ DOMAIN Regrouped(own, country, cands)[l] = DOMAIN rows[l]
             /\ Regrouped(own, country, cands)[l].id = rows[l].id
             /\ Regrouped(own, country, cands)[l].canonical =
                   IF Features[l].country = country /\ GroupMoves(own, cands, l)
                   THEN GroupOf(own, cands) ELSE rows[l].canonical
  <2>1. l \in Listings /\ RowFor(l)
    BY DEF Stored, RowsOK
  <2> QED
    BY <1>1, <2>1 DEF RowFor, RowColumns
<1> QED
  BY <1>1, <1>2 DEF Stored

\* A row has an id of its own, and a uuid is of one row.
LEMMA IdsAreUnique ==
  ASSUME RowsOK
  PROVE  /\ \A l \in Stored : l \in Listings /\ RowFor(l) /\ rows[l].id \in Nat /\ rows[l].id # NoId
         /\ \A x, y \in Stored : rows[x].id = rows[y].id => x = y
         /\ \A n, x : x \in RowOf(n) => x = upserts[n]
<1>1. ASSUME NEW l \in Stored
      PROVE  l \in Listings /\ RowFor(l) /\ rows[l].id \in Nat /\ rows[l].id # NoId
  <2>1. l \in Listings /\ RowFor(l)
    BY DEF Stored, RowsOK
  <2> QED
    BY <2>1, NoIdAssumption DEF RowsOK, RowFor
<1> QED
  BY <1>1 DEF RowFor, RowOf

\* The rows that a message's listing matches, their ids and groups, and the group of one of them.
MatchedBy(own) == {c \in Stored : rows[c].id # own /\ Matches(c, upserts[own])}
Merged(own)    == {rows[c].id : c \in MatchedBy(own)} \cup ({rows[c].canonical : c \in MatchedBy(own)} \ {NoId})
Root(c)        == IF rows[c].canonical = NoId THEN rows[c].id ELSE rows[c].canonical

\* What a resolved group takes with it is of the listing's country.
LEMMA MovedHaveCountry ==
  ASSUME RowsOK, GroupsOK, NEW own \in 1..Len(upserts), NEW l \in Stored,
         rows[l].id = own \/ rows[l].id \in Merged(own) \/ rows[l].canonical \in Merged(own)
  PROVE  Features[l].country = Features[upserts[own]].country
<1> USE DEF GroupsOK
<1>1. /\ \A x \in Stored : rows[x].id \in Nat /\ rows[x].id # NoId
      /\ \A x, y \in Stored : rows[x].id = rows[y].id => x = y
      /\ \A x \in Stored : rows[x].id = own => x = upserts[own]
  BY IdsAreUnique DEF RowOf
<1>2. ASSUME NEW c \in MatchedBy(own)
      PROVE  c \in Stored /\ Features[c].country = Features[upserts[own]].country
  BY <1>2 DEF MatchedBy, Matches, Near
<1>3. ASSUME NEW x \in Stored, NEW v \in Stored, rows[x].canonical = rows[v].id
      PROVE  Features[x].country = Features[v].country
  <2>1. PICK w \in Stored : rows[x].canonical = rows[w].id /\ rows[w].canonical = rows[w].id
    BY <1>1, <1>3 DEF Roots
  <2>2. w = v /\ rows[x].canonical # NoId
    BY <2>1, <1>1, <1>3
  <2> QED
    BY <2>1, <2>2 DEF Grouped, OneCountry
<1>4. ASSUME NEW c \in MatchedBy(own),
             \/ rows[l].id = rows[c].id
             \/ rows[l].id = rows[c].canonical
             \/ rows[l].canonical = rows[c].id
             \/ rows[l].canonical = rows[c].canonical /\ rows[c].canonical # NoId
      PROVE  Features[l].country = Features[c].country
  <2>1. c \in Stored
    BY <1>2
  <2>2. CASE rows[l].canonical = rows[c].canonical /\ rows[c].canonical # NoId
    BY <2>1, <2>2 DEF Grouped, OneCountry
  <2>3. CASE rows[l].id = rows[c].id \/ rows[l].id = rows[c].canonical \/ rows[l].canonical = rows[c].id
    BY <2>1, <2>3, <1>1, <1>3
  <2> QED
    BY <2>2, <2>3, <1>4
<1>5. CASE rows[l].id = own
  BY <1>1, <1>5
<1>6. CASE rows[l].id \in Merged(own) \/ rows[l].canonical \in Merged(own)
  <2>1. \E c \in MatchedBy(own) :
             \/ rows[l].id = rows[c].id
             \/ rows[l].id = rows[c].canonical
             \/ rows[l].canonical = rows[c].id
             \/ rows[l].canonical = rows[c].canonical /\ rows[c].canonical # NoId
    BY <1>6 DEF Merged
  <2> QED
    BY <2>1, <1>2, <1>4
<1> QED
  BY <1>5, <1>6

\* A group resolved without candidates: the message's row becomes one of its own.
LEMMA ResolvedAlone ==
  ASSUME RowsOK, GroupsOK, NEW own \in 1..Len(upserts), NEW S, S = upserts[own],
         \A c \in Stored : rows[c].id = own \/ ~Matches(c, S),
         Stored' = Stored,
         \A l \in Stored : /\ rows'[l].id = rows[l].id
                           /\ rows'[l].canonical = IF rows[l].id = own THEN own ELSE rows[l].canonical
  PROVE  /\ GroupsOK'
         /\ \A x, y \in Stored : x # y /\ Grouped(x, y) => Grouped(x, y)'
<1> USE DEF GroupsOK
<1>1. /\ \A l \in Stored : rows[l].id \in Nat /\ rows[l].id # NoId
      /\ \A x, y \in Stored : rows[x].id = rows[y].id => x = y
      /\ \A x \in Stored : rows[x].id = own => x = S
  BY IdsAreUnique DEF RowOf
\* The row that moves was in a group with nobody.
<1>2. ASSUME NEW x \in Stored, NEW y \in Stored, x # y, Grouped(x, y)
      PROVE  rows[x].id # own /\ rows[y].id # own
  <2>1. ASSUME NEW u \in Stored, NEW v \in Stored, u # v, Grouped(u, v), rows[u].id = own
        PROVE  FALSE
    <3>1. PICK z \in Stored \ {u} : Grouped(u, z) /\ Matches(z, u)
      BY <2>1 DEF Neighbours
    <3> QED
      BY <3>1, <2>1, <1>1
  <2> QED
    BY <1>2, <2>1 DEF Grouped
<1>3. \A x, y \in Stored : x # y /\ Grouped(x, y) => Grouped(x, y)'
  BY <1>2 DEF Grouped
\* Nor is anybody in the group that it gets.
<1>4. ASSUME NEW u \in Stored, rows[u].id # own, rows[u].canonical = own
      PROVE  FALSE
  <2>1. rows[u].canonical # NoId
    BY <1>4, NoIdAssumption
  <2>2. PICK v \in Stored : rows[u].canonical = rows[v].id /\ rows[v].canonical = rows[v].id
    BY <2>1 DEF Roots
  <2>3. u # v /\ Grouped(u, v)
    BY <2>1, <2>2, <1>4 DEF Grouped
  <2> QED
    BY <2>2, <2>3, <1>2, <1>4
<1>5. Roots'
  <2>1. ASSUME NEW y \in Stored, rows'[y].canonical # NoId
        PROVE  \E x \in Stored : rows'[y].canonical = rows'[x].id /\ rows'[x].canonical = rows'[x].id
    <3>1. CASE rows[y].id = own
      BY <3>1
    <3>2. CASE rows[y].id # own
      <4>1. PICK x \in Stored : rows[y].canonical = rows[x].id /\ rows[x].canonical = rows[x].id
        BY <3>2, <2>1 DEF Roots
      <4> QED
        BY <4>1, <3>2
    <3> QED
      BY <3>1, <3>2
  <2> QED
    BY <2>1 DEF Roots
<1>6. Neighbours'
  <2>1. ASSUME NEW x \in Stored, NEW y \in Stored, x # y, Grouped(x, y)'
        PROVE  \E z \in Stored \ {x} : Grouped(x, z)' /\ Matches(z, x)
    <3>1. rows[x].id # own /\ rows[y].id # own
      BY <2>1, <1>1, <1>4 DEF Grouped
    <3>2. Grouped(x, y)
      BY <2>1, <3>1 DEF Grouped
    <3>3. PICK z \in Stored \ {x} : Grouped(x, z) /\ Matches(z, x)
      BY <2>1, <3>2 DEF Neighbours
    <3> QED
      BY <3>3, <1>3
  <2> QED
    BY <2>1 DEF Neighbours
<1>7. OneCountry'
  <2>1. ASSUME NEW x \in Stored, NEW y \in Stored, x # y, Grouped(x, y)'
        PROVE  Grouped(x, y)
    <3>1. rows[x].id # own /\ rows[y].id # own
      BY <2>1, <1>1, <1>4 DEF Grouped
    <3> QED
      BY <2>1, <3>1 DEF Grouped
  <2> QED
    BY <2>1 DEF OneCountry
<1> QED
  BY <1>3, <1>5, <1>6, <1>7

\* A group resolved with candidates: their groups become one, as wholes.
LEMMA ResolvedTogether ==
  ASSUME RowsOK, GroupsOK, ~Asymmetric, NEW own \in 1..Len(upserts), NEW first \in MatchedBy(own),
         Stored' = Stored,
         \A l \in Stored : /\ rows'[l].id = rows[l].id
                           /\ rows'[l].canonical = IF rows[l].id = own \/ rows[l].id \in Merged(own)
                                                      \/ rows[l].canonical \in Merged(own)
                                                   THEN Root(first) ELSE rows[l].canonical
  PROVE  /\ GroupsOK'
         /\ \A x, y \in Stored : Grouped(x, y) => Grouped(x, y)'
         /\ \A l \in Stored, c \in MatchedBy(own) : l = upserts[own] => Grouped(l, c)'
<1> USE DEF GroupsOK
<1>a. upserts[own] \in Stored
  BY DEF RowsOK
<1>0. PICK S, X, ids, k :
        /\ S \in Stored /\ S = upserts[own]
        /\ X = MatchedBy(own) /\ X = {c \in Stored : rows[c].id # own /\ Matches(c, S)}
        /\ ids = Merged(own)
        /\ ids = {rows[c].id : c \in X} \cup ({rows[c].canonical : c \in X} \ {NoId})
        /\ k = Root(first)
        /\ k = IF rows[first].canonical = NoId THEN rows[first].id ELSE rows[first].canonical
  BY <1>a DEF MatchedBy, Merged, Root
<1>00. /\ first \in X
       /\ \A l \in Stored : /\ rows'[l].id = rows[l].id
                             /\ rows'[l].canonical = IF rows[l].id = own \/ rows[l].id \in ids \/ rows[l].canonical \in ids
                                                     THEN k ELSE rows[l].canonical
  BY <1>0
<1> DEFINE M == {l \in Stored : rows[l].id = own \/ rows[l].id \in ids \/ rows[l].canonical \in ids}
<1>1. /\ \A l \in Stored : l \in Listings /\ rows[l].id \in Nat /\ rows[l].id # NoId
      /\ \A x, y \in Stored : rows[x].id = rows[y].id => x = y
      /\ \A x \in Stored : rows[x].id = own => x = S
  BY <1>0, IdsAreUnique DEF RowOf
<1>2. k \in ids /\ k # NoId
  BY <1>0, <1>00, <1>1
<1>3. \A l \in Stored : rows'[l].id = rows[l].id /\ rows'[l].canonical = IF l \in M THEN k ELSE rows[l].canonical
  BY <1>00
<1>4. X \subseteq M /\ S \in M /\ X \subseteq Stored /\ M \subseteq Stored
  <2>1. X \subseteq M /\ X \subseteq Stored /\ M \subseteq Stored
    BY <1>0
  <2>2. CASE rows[S].id = own
    BY <2>1, <2>2, <1>0
  <2>3. CASE rows[S].id # own
    <3>1. first \in Listings /\ S \in Listings /\ Matches(first, S)
      BY <1>0, <1>00, <1>1
    <3>2. S \in X
      BY <3>1, <2>3, <1>0, MatchesItself
    <3> QED
      BY <2>1, <3>2, <1>0
  <2> QED
    BY <2>2, <2>3
\* A candidate and the row whose id its group has.
<1>5. ASSUME NEW x \in Stored, NEW v \in Stored, rows[x].canonical = rows[v].id
      PROVE  rows[v].canonical = rows[v].id /\ Grouped(x, v)
  <2>1. rows[x].canonical # NoId
    BY <1>5, <1>1
  <2>2. PICK w \in Stored : rows[x].canonical = rows[w].id /\ rows[w].canonical = rows[w].id
    BY <2>1 DEF Roots
  <2>3. w = v
    BY <2>2, <1>5, <1>1
  <2> QED
    BY <2>1, <2>2, <2>3 DEF Grouped
<1>6. ASSUME NEW x \in M, x # S, x \notin X
      PROVE  \E c \in X : Grouped(c, x)
  <2>1. rows[x].id # own
    BY <1>6, <1>1
  <2>2. CASE rows[x].id \in ids
    <3>1. PICK c \in X : rows[x].id = rows[c].canonical
      BY <2>2, <1>0, <1>6, <1>1, <1>4
    <3> QED
      BY <3>1, <1>4, <1>5
  <2>3. CASE rows[x].canonical \in ids
    <3>1. PICK c \in X : rows[x].canonical = rows[c].id \/ (rows[x].canonical = rows[c].canonical /\ rows[c].canonical # NoId)
      BY <2>3, <1>0
    <3>2. rows[x].canonical = rows[c].id => Grouped(x, c)
      BY <1>4, <1>5
    <3> QED
      BY <3>1, <3>2 DEF Grouped
  <2> QED
    BY <2>1, <2>2, <2>3
<1>7. ASSUME NEW x \in M, NEW y \in Stored, Grouped(x, y)
      PROVE  y \in M
  <2>1. CASE x \in X
    <3>1. rows[x].canonical \in ids
      BY <2>1, <1>0, <1>7 DEF Grouped
    <3> QED
      BY <3>1, <1>7 DEF Grouped
  <2>2. CASE x # S /\ x \notin X
    <3>1. PICK c \in X : Grouped(c, x)
      BY <2>2, <1>6
    <3>2. rows[c].canonical \in ids
      BY <3>1, <1>0 DEF Grouped
    <3> QED
      BY <3>1, <3>2, <1>7 DEF Grouped
  <2>3. CASE x = S /\ y # S
    <3>1. PICK z \in Stored \ {S} : Grouped(S, z) /\ Matches(z, S)
      BY <2>3, <1>7 DEF Neighbours
    <3>2. z \in X
      BY <3>1, <1>0, <1>1
    <3>3. rows[z].canonical \in ids
      BY <3>1, <3>2, <1>0 DEF Grouped
    <3> QED
      BY <3>1, <3>3, <2>3, <1>7 DEF Grouped
  <2> QED
    BY <2>1, <2>2, <2>3, <1>4
<1>c. \A x \in M : Features[x].country = Features[S].country
  BY <1>0, MovedHaveCountry
<1> HIDE DEF M
<1>8. ASSUME NEW x \in Stored, NEW y \in Stored, Grouped(x, y)
      PROVE  Grouped(x, y)' /\ (x \in M <=> y \in M)
  <2>1. Grouped(y, x)
    BY <1>8 DEF Grouped
  <2>2. x \in M <=> y \in M
    BY <2>1, <1>7, <1>8
  <2> QED
    BY <2>2, <1>2, <1>3, <1>8 DEF Grouped
<1>9. ASSUME NEW x \in M, NEW y \in M
      PROVE  Grouped(x, y)'
  BY <1>2, <1>3, <1>4 DEF Grouped
<1>10. \A l \in Stored \ M : rows[l].canonical \notin ids
  BY DEF M
<1>11. Roots'
  <2>1. ASSUME NEW y \in Stored, rows'[y].canonical # NoId
        PROVE  \E x \in Stored : rows'[y].canonical = rows'[x].id /\ rows'[x].canonical = rows'[x].id
    <3>1. CASE y \in M
      <4>1. rows'[y].canonical = k
        BY <3>1, <1>3
      <4>2. CASE rows[first].canonical = NoId
        BY <4>1, <4>2, <1>0, <1>00, <1>3, <1>4
      <4>3. CASE rows[first].canonical # NoId
        <5>1. PICK v \in Stored : rows[first].canonical = rows[v].id
          BY <4>3, <1>00, <1>4 DEF Roots
        <5>2. Grouped(first, v)
          BY <5>1, <1>00, <1>4, <1>5
        <5>3. v \in M
          BY <5>2, <1>00, <1>4, <1>7
        <5> QED
          BY <4>1, <4>3, <5>1, <5>3, <1>0, <1>3
      <4> QED
        BY <4>2, <4>3
    <3>2. CASE y \notin M
      <4>1. rows'[y].canonical = rows[y].canonical
        BY <3>2, <1>3
      <4>2. PICK v \in Stored : rows[y].canonical = rows[v].id /\ rows[v].canonical = rows[v].id
        BY <4>1, <2>1 DEF Roots
      <4>3. v \notin M
        BY <4>2, <3>2, <1>5, <1>8
      <4> QED
        BY <4>1, <4>2, <4>3, <1>3
    <3> QED
      BY <3>1, <3>2
  <2> QED
    BY <2>1 DEF Roots
<1>12. Neighbours'
  <2>1. ASSUME NEW x \in Stored, NEW y \in Stored, x # y, Grouped(x, y)'
        PROVE  \E z \in Stored \ {x} : Grouped(x, z)' /\ Matches(z, x)
    <3>1. ASSUME NEW u \in Stored, u # x, Grouped(x, u)
          PROVE  \E z \in Stored \ {x} : Grouped(x, z)' /\ Matches(z, x)
      <4>1. PICK z \in Stored \ {x} : Grouped(x, z) /\ Matches(z, x)
        BY <3>1 DEF Neighbours
      <4> QED
        BY <4>1, <1>8
    <3>2. CASE x \notin M
      <4>1. Grouped(x, y)
        BY <3>2, <2>1, <1>2, <1>3, <1>10 DEF Grouped
      <4> QED
        BY <4>1, <2>1, <3>1
    <3>3. CASE x \in X /\ x # S
      <4>1. Matches(S, x)
        BY <3>3, <1>0, <1>1, <1>4 DEF Asymmetric
      <4> QED
        BY <4>1, <3>3, <1>4, <1>9
    <3>4. CASE x \in M /\ x \notin X /\ x # S
      <4>1. PICK c \in X : Grouped(c, x)
        BY <3>4, <1>6
      <4>2. c # x /\ c \in Stored /\ Grouped(x, c)
        BY <4>1, <3>4, <1>4 DEF Grouped
      <4> QED
        BY <4>2, <3>1
    <3>5. CASE x = S
      <4>1. CASE \E z \in X : z # S
        BY <4>1, <3>5, <1>0, <1>4, <1>9
      <4>2. CASE X \subseteq {S}
        <5>1. y \in M
          BY <3>5, <2>1, <1>2, <1>3, <1>4, <1>10 DEF Grouped
        <5>2. PICK c \in X : Grouped(c, y)
          BY <5>1, <4>2, <3>5, <2>1, <1>6
        <5> QED
          BY <5>2, <4>2, <3>5, <2>1, <3>1
      <4> QED
        BY <4>1, <4>2
    <3> QED
      BY <3>2, <3>3, <3>4, <3>5
  <2> QED
    BY <2>1 DEF Neighbours
<1>13. OneCountry'
  <2>1. ASSUME NEW x \in Stored, NEW y \in Stored, Grouped(x, y)'
        PROVE  Features[x].country = Features[y].country
    <3>1. CASE x \in M /\ y \in M
      BY <3>1, <1>c
    <3>2. CASE x \notin M /\ y \notin M
      BY <3>2, <2>1, <1>3 DEF Grouped, OneCountry
    <3>3. x \in M <=> y \in M
      BY <2>1, <1>2, <1>3, <1>10 DEF Grouped
    <3> QED
      BY <3>1, <3>2, <3>3
  <2> QED
    BY <2>1 DEF OneCountry
<1> QED
  BY <1>0, <1>4, <1>8, <1>9, <1>11, <1>12, <1>13

\* The second transaction, with the candidates as the first one read them.
LEMMA ResolveStep ==
  ASSUME Basics, GroupsOK, ~Asymmetric, NEW p \in Pods, ResolveCanonicalId(p), ~stale',
         NEW S, S = ListingOf(cur[p])
  PROVE  /\ GroupsOK'
         /\ \A x, y \in Stored : x # y /\ Grouped(x, y) => Grouped(x, y)'
         /\ S \in Stored /\ \A y \in Stored : y # S /\ Matches(y, S) => Grouped(S, y)'
<1> USE DEF Basics
<1>0. /\ normalized[cur[p]] \in 1..Len(upserts) /\ ListingOf(cur[p]) \in Stored
      /\ found[p] = Candidates(normalized[cur[p]], ListingOf(cur[p]))
      /\ rows' = Regrouped(normalized[cur[p]], Features[ListingOf(cur[p])].country, found[p])
  <2>1. normalized[cur[p]] \in 1..Len(upserts)
    BY DEF ResolveCanonicalId, BrokerOK, BrokerTypeOK, Busy, RowsOK
  <2>2. ListingOf(cur[p]) \in Stored
    BY <2>1 DEF ListingOf, RowsOK
  <2> QED
    BY <2>1, <2>2 DEF ResolveCanonicalId, CandidatesOf
<1>1. PICK own, country, cands, X :
        /\ own = normalized[cur[p]] /\ country = Features[S].country /\ cands = found[p]
        /\ X = {c \in Stored : rows[c].id # own /\ Matches(c, S)}
        /\ own \in 1..Len(upserts) /\ S \in Stored /\ S = upserts[own]
        /\ cands = Candidates(own, S)
        /\ rows' = Regrouped(own, country, cands)
  BY <1>0 DEF ListingOf
<1>2. cands = {[id |-> rows[c].id, canonical |-> rows[c].canonical] : c \in X}
  BY <1>1 DEF Candidates
<1>c. /\ X \subseteq Stored
      /\ \A x \in X : \E c \in cands : c.id = rows[x].id /\ c.canonical = rows[x].canonical
      /\ \A c \in cands : \E x \in X : c.id = rows[x].id /\ c.canonical = rows[x].canonical
  <2>1. X \subseteq Stored
    BY <1>1
  <2>2. ASSUME NEW x \in X
        PROVE  \E c \in cands : c.id = rows[x].id /\ c.canonical = rows[x].canonical
    <3>1. [id |-> rows[x].id, canonical |-> rows[x].canonical] \in cands
      BY <1>2
    <3> QED
      BY <3>1
  <2>3. ASSUME NEW c \in cands
        PROVE  \E x \in X : c.id = rows[x].id /\ c.canonical = rows[x].canonical
    <3>1. PICK x \in X : c = [id |-> rows[x].id, canonical |-> rows[x].canonical]
      BY <1>2
    <3> QED
      BY <3>1
  <2> QED
    BY <2>1, <2>2, <2>3
<1>n. /\ Regrouped(own, country, cands) = [l \in Listings |-> Regrouped(own, country, cands)[l]]
      /\ \A l \in Listings \ Stored : Regrouped(own, country, cands)[l] = rows[l]
      /\ \A l \in Stored :
           /\ DOMAIN Regrouped(own, country, cands)[l] = DOMAIN rows[l]
           /\ Regrouped(own, country, cands)[l].id = rows[l].id
           /\ Regrouped(own, country, cands)[l].canonical =
                IF Features[l].country = country /\ GroupMoves(own, cands, l)
                THEN GroupOf(own, cands) ELSE rows[l].canonical
  BY RegroupedRows
<1>3. /\ \A l \in Stored : l \in Listings /\ rows[l].id \in Nat /\ rows[l].id # NoId
      /\ \A x, y \in Stored : rows[x].id = rows[y].id => x = y
  BY <1>1, IdsAreUnique
<1>4. /\ rows' = [l \in Listings |-> rows'[l]]
      /\ \A l \in Listings \ Stored : rows'[l] = rows[l]
      /\ \A l \in Stored : DOMAIN rows'[l] = DOMAIN rows[l] /\ rows'[l].id = rows[l].id
  BY <1>1, <1>n
<1>5. UNCHANGED <<upserts, normalized, logEnd>>
  BY DEF ResolveCanonicalId, log_
<1>6. Rewrites
  BY <1>4, <1>5 DEF Rewrites, Stored
<1>7. Stored' = Stored
  BY <1>6, RewritesStep
<1>m. \A y \in Stored : y # S /\ Matches(y, S) => y \in X
  <2>1. \A y \in Stored : rows[y].id = own => y = S
    BY <1>1, IdsAreUnique DEF RowOf
  <2> QED
    BY <2>1, <1>1
<1>g. X = MatchedBy(own) /\ Merged(own) = {rows[c].id : c \in X} \cup ({rows[c].canonical : c \in X} \ {NoId})
  BY <1>1 DEF MatchedBy, Merged
<1>8. \A l \in Stored :
        rows[l].id = own \/ rows[l].id \in Merged(own) \/ rows[l].canonical \in Merged(own)
          => Features[l].country = country
  BY <1>1, MovedHaveCountry
<1>9. CASE X = {}
  <2>1. cands = {}
    BY <1>2, <1>9
  <2>2. \A l \in Stored :
          rows'[l].canonical = IF rows[l].id = own THEN own ELSE rows[l].canonical
    BY <1>1, <2>1, <1>8, <1>n DEF GroupMoves, GroupOf
  <2>3. \A c \in Stored : rows[c].id = own \/ ~Matches(c, S)
    BY <1>1, <1>9
  <2>4. /\ GroupsOK'
        /\ \A x, y \in Stored : x # y /\ Grouped(x, y) => Grouped(x, y)'
    BY <1>1, <1>4, <1>7, <2>2, <2>3, ResolvedAlone
  <2> QED
    BY <2>4, <1>1, <1>m, <1>9
<1>10. CASE X # {}
  <2>1. cands # {} /\ \A c \in cands : c.id \in Nat
    BY <1>c, <1>3, <1>10
  <2>2. Earliest(cands) \in cands
    BY <2>1, EarliestIsOne
  <2>3. PICK first \in X : Earliest(cands) = [id |-> rows[first].id, canonical |-> rows[first].canonical]
    BY <2>2, <1>2
  <2>4. PICK k : k = IF rows[first].canonical = NoId THEN rows[first].id ELSE rows[first].canonical
    OBVIOUS
  <2>5. CanonicalOf(Earliest(cands)) = k
    BY <2>3, <2>4 DEF CanonicalOf
  <2>6. PICK ids : ids = {rows[c].id : c \in X} \cup ({rows[c].canonical : c \in X} \ {NoId})
    OBVIOUS
  <2>7. MergeIds(cands) = ids
    <3>1. {c.id : c \in cands} = {rows[c].id : c \in X}
      BY <1>c
    <3>2. {c.canonical : c \in cands} = {rows[c].canonical : c \in X}
      BY <1>c
    <3> QED
      BY <3>1, <3>2, <2>6 DEF MergeIds
  <2>8. k \in ids
    BY <2>3, <2>4, <2>6
  <2>9. MergeIds(cands) \cup {CanonicalOf(Earliest(cands))} = ids
    BY <2>5, <2>7, <2>8
  <2>10. \A l \in Stored :
           rows'[l].canonical = IF rows[l].id = own \/ rows[l].id \in ids \/ rows[l].canonical \in ids
                                THEN k ELSE rows[l].canonical
    BY <1>1, <1>8, <1>g, <2>1, <2>5, <2>6, <2>9, <1>n DEF GroupMoves, GroupOf
  <2>11. /\ X = MatchedBy(own) /\ k = Root(first) /\ ids = Merged(own)
    BY <1>g, <2>4, <2>6 DEF Root
  <2>12. /\ GroupsOK'
         /\ \A x, y \in Stored : Grouped(x, y) => Grouped(x, y)'
         /\ \A c \in X : Grouped(S, c)'
    <3>1. \A l \in Stored :
            /\ rows'[l].id = rows[l].id
            /\ rows'[l].canonical = IF rows[l].id = own \/ rows[l].id \in Merged(own)
                                       \/ rows[l].canonical \in Merged(own)
                                    THEN Root(first) ELSE rows[l].canonical
      BY <1>4, <2>10, <2>11
    <3>2. first \in MatchedBy(own) /\ own \in 1..Len(upserts)
      BY <1>1, <2>3, <2>11
    <3>3. /\ GroupsOK'
          /\ \A x, y \in Stored : Grouped(x, y) => Grouped(x, y)'
          /\ \A l \in Stored, c \in MatchedBy(own) : l = upserts[own] => Grouped(l, c)'
      BY <3>1, <3>2, <1>7, ResolvedTogether
    <3> QED
      BY <3>3, <1>1, <2>11
  <2> QED
    BY <2>12, <1>1, <1>m
<1> QED
  BY <1>1, <1>9, <1>10

\* What a step of the deduplicator does to the loop and to the rows, stale or not.
LEMMA DedupEffect ==
  ASSUME Basics, NEW p \in Pods, DedupStep(p)
  PROVE  BrokerStep(p) /\ Rewrites /\ (stale => stale')
<1> USE DEF Basics
<1>1. CASE FindCandidates(p) \/ HandleError(p)
  <2>1. BrokerStep(p) /\ UNCHANGED logEnd
    BY <1>1, WaitEffect, ErrorEffect DEF FindCandidates, HandleError
  <2>2. UNCHANGED <<table, stale>>
    BY <1>1 DEF FindCandidates, HandleError
  <2> QED
    BY <2>1, <2>2, SameRows
<1>2. CASE DedupGroup(p) \/ DedupDie(p)
  <2>1. BrokerStep(p) /\ UNCHANGED logEnd
    BY <1>2, GroupEffect, DieEffect DEF DedupGroup, DedupDie
  <2>2. UNCHANGED <<table, stale>>
    BY <1>2 DEF DedupGroup, DedupDie
  <2> QED
    BY <2>1, <2>2, SameRows
<1>3. CASE ResolveCanonicalId(p)
  <2>1. BrokerStep(p) /\ UNCHANGED logEnd
    BY <1>3, ReturnEffect DEF ResolveCanonicalId
  <2>2. PICK own, country, cands : rows' = Regrouped(own, country, cands)
    BY <1>3 DEF ResolveCanonicalId
  <2>3. (stale => stale') /\ UNCHANGED <<upserts, normalized>>
    BY <1>3 DEF ResolveCanonicalId
  <2>4. /\ Regrouped(own, country, cands) = [l \in Listings |-> Regrouped(own, country, cands)[l]]
        /\ \A l \in Listings \ Stored : Regrouped(own, country, cands)[l] = rows[l]
        /\ \A l \in Stored :
             /\ DOMAIN Regrouped(own, country, cands)[l] = DOMAIN rows[l]
             /\ Regrouped(own, country, cands)[l].id = rows[l].id
             /\ Regrouped(own, country, cands)[l].canonical =
                  IF Features[l].country = country /\ GroupMoves(own, cands, l)
                  THEN GroupOf(own, cands) ELSE rows[l].canonical
    BY RegroupedRows
  <2> QED
    BY <2>1, <2>2, <2>3, <2>4 DEF Rewrites, Stored
<1> QED
  BY <1>1, <1>2, <1>3 DEF DedupStep

\* What is resolved stays resolved while earlier pairs stay together.
LEMMA DeduplicatedGrows ==
  ASSUME Basics, Rewrites, dead \subseteq dead', base' \in Int, base <= base',
         \A x, y \in Stored : x # y /\ Grouped(x, y) => Grouped(x, y)'
  PROVE  \A m \in Deduplicated : m \in Deduplicated'
<1> USE DEF Basics
<1>1. UNCHANGED <<upserts, normalized, logEnd>>
  BY DEF Rewrites
<1>2. \A k \in 1..logEnd : ListingOf(k)' = ListingOf(k) /\ ListingOf(k) \in Stored
  BY <1>1 DEF ListingOf, RowsOK
<1>3. ASSUME NEW m \in Deduplicated
      PROVE  m \in Deduplicated'
  <2>1. m \in 1..logEnd' /\ (m <= base => m <= base') /\ (m \in dead => m \in dead')
    BY <1>1 DEF Deduplicated, BrokerOK, BrokerTypeOK
  <2>2. CASE \A k \in 1..logEnd : k < m /\ ListingOf(k) # ListingOf(m) /\ Matches(ListingOf(k), ListingOf(m))
                                   => Grouped(ListingOf(m), ListingOf(k))
    <3>1. ASSUME NEW k \in 1..logEnd, k < m, ListingOf(k) # ListingOf(m), Matches(ListingOf(k), ListingOf(m)),
                 NEW x, x = ListingOf(m), NEW y, y = ListingOf(k)
          PROVE  Grouped(x, y)'
      BY <3>1, <2>1, <2>2, <1>1, <1>2
    <3>2. \A k \in 1..logEnd : k < m /\ ListingOf(k)' # ListingOf(m)' /\ Matches(ListingOf(k)', ListingOf(m)')
                                   => Grouped(ListingOf(m), ListingOf(k))'
      BY <3>1, <2>1, <1>1, <1>2 DEF Grouped
    <3> QED
      BY <3>2, <1>1, <2>1 DEF Deduplicated
  <2> QED
    BY <2>1, <2>2 DEF Deduplicated
<1> QED
  BY <1>3

\* Every step of the deduplicator keeps its invariant.
LEMMA DedupInvStep ==
  ASSUME Basics, DedupInv, Deduplicate
  PROVE  Basics' /\ DedupInv' /\ scope' = scope /\ worker = "dedup"
<1> USE DEF Basics
<1>1. worker = "dedup" /\ scope' = scope
  BY DEF Deduplicate
<1>2. PICK p \in Pods : DedupStep(p)
  BY DEF Deduplicate
<1>3. BrokerStep(p) /\ Rewrites /\ (stale => stale')
  BY <1>2, DedupEffect
<1>4. BrokerOK' /\ RowsOK'
  BY <1>3, BrokerOKStep, RewritesStep
<1>5. Asymmetric' <=> Asymmetric
  BY DEF Asymmetric
<1>6. ASSUME ~stale', ~Asymmetric
      PROVE  (GroupsOK /\ SettledBehind(Deduplicated))'
  <2>1. GroupsOK /\ SettledBehind(Deduplicated)
    BY <1>1, <1>3, <1>6 DEF DedupInv
  <2>2. /\ GroupsOK'
        /\ \A x, y \in Stored : x # y /\ Grouped(x, y) => Grouped(x, y)'
    <3>1. CASE ResolveCanonicalId(p)
      BY <3>1, <2>1, <1>6, ResolveStep
    <3>2. CASE UNCHANGED rows
      <4>1. Stored' = Stored
        BY <3>2 DEF Stored
      <4> QED
        BY <3>2, <4>1, <2>1 DEF GroupsOK, Roots, Neighbours, OneCountry, Grouped
    <3> QED
      BY <1>2, <3>1, <3>2 DEF DedupStep, FindCandidates, HandleError, DedupGroup, DedupDie, table
  <2>3. dead \subseteq dead' /\ base' \in Int /\ base <= base'
    BY <1>3, HistoryGrows
  <2>4. PICK E : E = Deduplicated'
    OBVIOUS
  <2>5. Deduplicated \subseteq E
    BY <2>2, <2>3, <2>4, <1>3, DeduplicatedGrows
  <2>6. Settles(p, Deduplicated, E)
    <3>1. CASE FindCandidates(p) \/ HandleError(p)
      <4>1. HandlerStep(p, Handling)
        BY <3>1, WaitEffect, ErrorEffect DEF FindCandidates, HandleError
      <4> QED
        BY <4>1, <2>5 DEF Settles
    <3>2. CASE ResolveCanonicalId(p)
      <4>1. HandlerStep(p, {"commit"})
        BY <3>2, ReturnEffect DEF ResolveCanonicalId
      <4>2. PICK S : S = ListingOf(cur[p])
        OBVIOUS
      <4>3. S \in Stored /\ \A y \in Stored : y # S /\ Matches(y, S) => Grouped(S, y)'
        BY <3>2, <4>2, <2>1, <1>6, ResolveStep
      <4>4. /\ cur[p] \in 1..logEnd /\ UNCHANGED <<logEnd, cur, upserts, normalized>>
        BY <3>2, <1>3 DEF ResolveCanonicalId, BrokerOK, BrokerTypeOK, Busy, Rewrites, reader
      <4>5. \A k \in 1..logEnd : ListingOf(k)' = ListingOf(k) /\ ListingOf(k) \in Stored
        BY <4>4 DEF ListingOf, RowsOK
      <4>6. \A k \in 1..logEnd : ListingOf(k)' # ListingOf(cur[p])' /\ Matches(ListingOf(k)', ListingOf(cur[p])')
                                   => Grouped(ListingOf(cur[p]), ListingOf(k))'
        BY <4>2, <4>3, <4>4, <4>5 DEF Grouped
      <4>7. cur[p] \in E
        BY <4>4, <4>6, <2>4 DEF Deduplicated
      <4> QED
        BY <4>1, <4>7, <2>5 DEF Settles, Mine
    <3>3. CASE DedupGroup(p)
      <4>1. \A m \in 1..logEnd : m <= base' \/ m \in dead' => m \in E
        BY <2>4, <1>3 DEF Deduplicated, Rewrites
      <4> QED
        BY <4>1, <2>5, <3>3, GroupSettles DEF DedupGroup
    <3>4. CASE DedupDie(p)
      <4>1. Gone(p)
        BY <3>4, DieEffect DEF DedupDie
      <4> QED
        BY <4>1, <2>5 DEF Settles
    <3> QED
      BY <1>2, <3>1, <3>2, <3>3, <3>4 DEF DedupStep
  <2>7. SettledBehind(E)'
    BY <2>1, <2>6, SettledBehindStep
  <2> QED
    BY <2>2, <2>4, <2>7 DEF SettledBehind
<1> QED
  BY <1>1, <1>4, <1>5, <1>6 DEF DedupInv

\* A new row is in no group, and a row that is scraped again stays in its own.
LEMMA DedupNormalize ==
  ASSUME Basics, DedupInv, worker = "dedup", NEW l, NEW price, Stores(l, price)
  PROVE  DedupInv'
<1> USE DEF Basics
<1>1. /\ l \in Listings /\ Stored' = Stored \cup {l}
      /\ \A k \in Listings \ {l} : rows'[k] = rows[k]
      /\ UNCHANGED <<broker, scope, stale>>
  BY DEF Stores
<1>m. \A m \in 1..logEnd : ListingOf(m)' = ListingOf(m) /\ ListingOf(m) \in Stored
  BY StoresKeeps DEF ListingOf, RowsOK
<1>2. SUFFICES ASSUME ~stale', ~Asymmetric
               PROVE  (GroupsOK /\ SettledBehind(Deduplicated))'
  <2>1. Asymmetric' <=> Asymmetric
    BY DEF Asymmetric
  <2> QED
    BY <2>1 DEF DedupInv
<1>3. Roots /\ Neighbours /\ OneCountry /\ SettledBehind(Deduplicated)
  BY <1>1, <1>2 DEF DedupInv, GroupsOK, worker
<1>4. \A k \in Stored : /\ rows'[k].id = rows[k].id
                        /\ rows'[k].canonical = rows[k].canonical
  <2>1. ASSUME l \in Stored
        PROVE  rows'[l].id = rows[l].id /\ rows'[l].canonical = rows[l].canonical
    <3>1. RowFor(l)
      BY <2>1 DEF Stored, RowsOK
    <3> QED
      BY <2>1, <3>1 DEF Stores, Refreshed, RowFor, RowColumns
  <2> QED
    BY <2>1, <1>1 DEF Stored
<1>5. l \notin Stored => rows'[l].canonical = NoId
  BY <1>1 DEF Stores, NewRow
<1>6. ASSUME NEW x \in Stored', NEW y \in Stored', Grouped(x, y)'
      PROVE  x \in Stored /\ y \in Stored /\ Grouped(x, y)
  BY <1>6, <1>1, <1>4, <1>5 DEF Grouped
<1>7. \A x, y \in Stored : Grouped(x, y) => Grouped(x, y)'
  BY <1>4 DEF Grouped
<1>8. GroupsOK'
  <2>1. ASSUME NEW y \in Stored', rows'[y].canonical # NoId
        PROVE  \E x \in Stored' : rows'[y].canonical = rows'[x].id /\ rows'[x].canonical = rows'[x].id
    <3>1. y \in Stored /\ rows[y].canonical # NoId
      BY <2>1, <1>1, <1>4, <1>5
    <3>2. PICK x \in Stored : rows[y].canonical = rows[x].id /\ rows[x].canonical = rows[x].id
      BY <3>1, <1>3 DEF Roots
    <3> QED
      BY <3>1, <3>2, <1>1, <1>4
  <2>2. ASSUME NEW x \in Stored', NEW y \in Stored', x # y, Grouped(x, y)'
        PROVE  \E z \in Stored' \ {x} : Grouped(x, z)' /\ Matches(z, x)
    <3>1. PICK z \in Stored \ {x} : Grouped(x, z) /\ Matches(z, x)
      BY <2>2, <1>3, <1>6 DEF Neighbours
    <3> QED
      BY <2>2, <3>1, <1>1, <1>6, <1>7
  <2>3. OneCountry'
    BY <1>3, <1>6 DEF OneCountry
  <2> QED
    BY <2>1, <2>2, <2>3 DEF GroupsOK, Roots, Neighbours
<1>9. SettledBehind(Deduplicated)'
  <2>1. PICK E : E = Deduplicated'
    OBVIOUS
  <2>2. ASSUME NEW m \in Deduplicated
        PROVE  m \in E
    <3>1. m \in 1..logEnd /\ UNCHANGED <<base, dead, logEnd>>
      BY <1>1 DEF broker, Deduplicated
    <3>2. CASE \A k \in 1..logEnd : k < m /\ ListingOf(k) # ListingOf(m) /\ Matches(ListingOf(k), ListingOf(m))
                                     => Grouped(ListingOf(m), ListingOf(k))
      <4>1. ASSUME NEW k \in 1..logEnd, k < m, ListingOf(k)' # ListingOf(m)',
                   Matches(ListingOf(k)', ListingOf(m)')
            PROVE  Grouped(ListingOf(m), ListingOf(k))'
        BY <4>1, <3>1, <3>2, <1>m, <1>4 DEF Grouped
      <4> QED
        BY <4>1, <3>1, <2>1 DEF Deduplicated
    <3> QED
      BY <3>1, <3>2, <2>1, <2>2 DEF Deduplicated
  <2>3. SettledBehind(E)'
    BY <2>2, <1>1, <1>3, SettledBehindStays
  <2> QED
    BY <2>1, <2>3 DEF SettledBehind
<1> QED
  BY <1>8, <1>9

\* A publish changes no group.
LEMMA DedupAnnounce ==
  ASSUME Basics, DedupInv, worker = "dedup", NEW id, Announces(id)
  PROVE  DedupInv'
<1> USE DEF Basics
<1>1. /\ Produce /\ logEnd' = logEnd + 1
      /\ \A m \in 1..logEnd : ListingOf(m)' = ListingOf(m)
      /\ UNCHANGED <<rows, scope, stale>>
  BY DEF Announces
<1>2. SUFFICES ASSUME ~stale', ~Asymmetric
               PROVE  (GroupsOK /\ SettledBehind(Deduplicated))'
  <2>1. Asymmetric' <=> Asymmetric
    BY DEF Asymmetric
  <2> QED
    BY <2>1 DEF DedupInv
<1>3. GroupsOK /\ SettledBehind(Deduplicated)
  BY <1>1, <1>2 DEF DedupInv, worker
<1>4. GroupsOK' /\ (\A x, y : Grouped(x, y)' = Grouped(x, y))
  BY <1>1, <1>3 DEF GroupsOK, Roots, Neighbours, OneCountry, Grouped, Stored
<1>5. PICK E : E = Deduplicated'
  OBVIOUS
<1>6. ASSUME NEW m \in Deduplicated
      PROVE  m \in E
  <2>1. m \in 1..logEnd /\ m \in 1..logEnd' /\ UNCHANGED <<base, dead>>
    BY <1>1 DEF Produce, Deduplicated, BrokerOK, BrokerTypeOK
  <2>2. CASE \A k \in 1..logEnd : k < m /\ ListingOf(k) # ListingOf(m) /\ Matches(ListingOf(k), ListingOf(m))
                                   => Grouped(ListingOf(m), ListingOf(k))
    <3>1. ASSUME NEW k \in 1..logEnd', k < m, ListingOf(k)' # ListingOf(m)',
                 Matches(ListingOf(k)', ListingOf(m)')
          PROVE  Grouped(ListingOf(m), ListingOf(k))'
      <4>1. k \in 1..logEnd
        BY <3>1, <2>1, <1>1 DEF BrokerOK, BrokerTypeOK
      <4> QED
        BY <4>1, <3>1, <2>1, <2>2, <1>1 DEF Grouped
    <3> QED
      BY <3>1, <2>1, <1>5 DEF Deduplicated
  <2> QED
    BY <2>1, <2>2, <1>5, <1>6 DEF Deduplicated
<1>7. SettledBehind(E)'
  BY <1>1, <1>3, <1>6, SettledBehindStep
<1> QED
  BY <1>4, <1>5, <1>7 DEF SettledBehind

\* Of two listings that match, the later message found the listing of the earlier.
LEMMA DedupProperty ==
  ASSUME Basics, DedupInv
  PROVE  MatchesShareCanonical
<1> USE DEF Basics
<1>1. SUFFICES ASSUME worker = "dedup", ~stale, ~Asymmetric,
                      NEW x \in Stored, Resolved(x), NEW y \in Stored, Resolved(y), Matches(x, y), x # y
               PROVE  rows[x].canonical = rows[y].canonical
  BY DEF MatchesShareCanonical
<1>2. SettledBehind(Deduplicated)
  BY <1>1 DEF DedupInv
<1>3. ASSUME NEW m \in DOMAIN normalized, NEW k \in DOMAIN normalized, k < m,
             m <= committed, m > base, m \notin dead,
             ListingOf(k) # ListingOf(m), Matches(ListingOf(k), ListingOf(m))
      PROVE  Grouped(ListingOf(m), ListingOf(k))
  <2>1. m \in 1..logEnd /\ k \in 1..logEnd
    BY DEF RowsOK
  <2>2. m \in Deduplicated
    BY <2>1, <1>2, <1>3 DEF SettledBehind, BrokerOK, BrokerTypeOK, NoOffset
  <2> QED
    BY <2>1, <2>2, <1>3 DEF Deduplicated, BrokerOK, BrokerTypeOK
<1>4. PICK mx \in DOMAIN normalized : ListingOf(mx) = x /\ mx <= committed /\ mx > base /\ mx \notin dead
  BY <1>1 DEF Resolved
<1>5. PICK my \in DOMAIN normalized : ListingOf(my) = y /\ my <= committed /\ my > base /\ my \notin dead
  BY <1>1 DEF Resolved
<1>6. Matches(y, x)
  BY <1>1 DEF Asymmetric, Stored
<1>7. mx < my \/ my < mx
  BY <1>1, <1>4, <1>5 DEF RowsOK
<1> QED
  BY <1>1, <1>3, <1>4, <1>5, <1>6, <1>7 DEF Grouped

-----------------------------------------------------------------------------
(* The change detector                                                      *)

CycleFields == {"stage", "at", "ids", "active", "delisted", "previous", "todo", "row"}
Entries     == [old : Prices \cup {0}, new : Prices, at : Int]

CycleTyped(t) ==
  /\ DOMAIN cycle[t] = CycleFields
  /\ cycle[t].at \in Int
  /\ Active(t) \subseteq Stored /\ cycle[t].delisted \subseteq Stored
  /\ \A l \in Active(t) : cycle[t].active[l].price \in Prices
  /\ \A l \in DOMAIN cycle[t].previous : cycle[t].previous[l] \in Prices
  /\ cycle[t].todo \subseteq Active(t)
  /\ cycle[t].stage \in {"idle", "ids", "active"} => cycle[t].todo = {}
  /\ cycle[t].stage \in {"update", "publish"} => cycle[t].row \in Active(t) \cap DOMAIN cycle[t].previous
  /\ At(t, "writeText") => cycle[t].row.listing \in Active(t)

DetectTyped ==
  /\ now \in Nat /\ errors \in Nat /\ kills \in Nat /\ event.at \in Int
  /\ cycle = [t \in Tasks |-> cycle[t]]
  /\ touched = [t \in Tasks |-> touched[t]]
  /\ history \in [Listings -> Seq(Entries)]
  /\ \A l \in Stored : rows[l].status \in {"active", "delisted"} /\ rows[l].price \in Prices
  /\ \A t \in Tasks : CycleTyped(t)

\* A cycle that a step leaves alone keeps its type.
LEMMA CycleStays ==
  ASSUME NEW u, CycleTyped(u), cycle'[u] = cycle[u], Stored \subseteq Stored'
  PROVE  CycleTyped(u)'
BY DEF CycleTyped, Active, At

\* What a step does to the rows: nothing, or one column of rows that the cycle read.
LEMMA CycleRewrites ==
  ASSUME Basics, DetectTyped, DetectorStep, UNCHANGED broker
  PROVE  /\ Rewrites
         /\ now' = now
         /\ \A l \in Stored : rows'[l].status \in {"active", "delisted"} /\ rows'[l].price \in Prices
<1> USE DEF Basics
<1>1. /\ \A l \in Stored : l \in Listings /\ DOMAIN rows[l] = RowColumns
      /\ rows = [l \in Listings |-> rows[l]]
      /\ \A l \in Listings : rows[l] # NoRow <=> l \in Stored
      /\ \A l \in Stored : rows[l].status \in {"active", "delisted"} /\ rows[l].price \in Prices
      /\ logEnd' = logEnd
  BY DEF Stored, RowsOK, RowFor, DetectTyped, broker
<1>2. CASE UNCHANGED table
  BY <1>1, <1>2 DEF Rewrites, table
<1>3. ASSUME NEW ls, NEW s \in {"active", "delisted"}, ls \subseteq Stored, Marked(ls, s), UNCHANGED <<upserts, normalized>>
      PROVE  /\ Rewrites
             /\ \A l \in Stored : rows'[l].status \in {"active", "delisted"} /\ rows'[l].price \in Prices
  <2>1. /\ rows' = [l \in Listings |-> IF l \in ls THEN [rows[l] EXCEPT !.status = s] ELSE rows[l]]
        /\ rows' = [l \in Listings |-> rows'[l]]
    BY <1>3 DEF Marked
  <2>2. ASSUME NEW l \in Stored
        PROVE  /\ DOMAIN rows'[l] = DOMAIN rows[l] /\ rows'[l].id = rows[l].id
               /\ rows'[l].status \in {"active", "delisted"} /\ rows'[l].price = rows[l].price
    BY <2>1, <1>1 DEF RowColumns
  <2>3. \A l \in Listings \ Stored : rows'[l] = rows[l]
    BY <2>1, <1>3
  <2> QED
    BY <2>1, <2>2, <2>3, <1>1, <1>3 DEF Rewrites
<1>4. ASSUME NEW t \in Tasks, MarkDelisted(t)
      PROVE  Marked(Active(t) \ cycle[t].ids, "delisted") /\ UNCHANGED <<upserts, normalized, now>>
             /\ Active(t) \ cycle[t].ids \subseteq Stored
  BY <1>4 DEF MarkDelisted, DetectTyped, CycleTyped
<1>5. ASSUME NEW t \in Tasks, MarkRelisted(t)
      PROVE  Marked(cycle[t].delisted \cap cycle[t].ids, "active") /\ UNCHANGED <<upserts, normalized, now>>
             /\ cycle[t].delisted \cap cycle[t].ids \subseteq Stored
  BY <1>5 DEF MarkRelisted, DetectTyped, CycleTyped
<1>6. CASE \E t \in Tasks : MarkDelisted(t) \/ MarkRelisted(t)
  BY <1>6, <1>3, <1>4, <1>5
<1>7. ASSUME NEW t \in Tasks, UpdatePrice(t)
      PROVE  /\ Rewrites /\ now' = now
             /\ \A l \in Stored : rows'[l].status \in {"active", "delisted"} /\ rows'[l].price \in Prices
  <2>1. PICK l, price : /\ l = cycle[t].row /\ price = cycle[t].active[l].price
                        /\ rows' = [rows EXCEPT ![l].price = price]
    BY <1>7 DEF UpdatePrice
  <2>2. l \in Stored /\ price \in Prices
    BY <2>1, <1>7 DEF UpdatePrice, DetectTyped, CycleTyped, At
  <2>3. rows' = [rows EXCEPT ![l] = [rows[l] EXCEPT !.price = price]]
    BY <2>1, <2>2, <1>1
  <2>4. /\ DOMAIN rows'[l] = DOMAIN rows[l] /\ rows'[l].id = rows[l].id
        /\ rows'[l].status = rows[l].status /\ rows'[l].price = price
    BY <2>2, <2>3, <1>1 DEF RowColumns
  <2>5. rows' = [k \in Listings |-> rows'[k]] /\ \A k \in Listings \ {l} : rows'[k] = rows[k]
    BY <2>2, <2>3, <1>1
  <2>6. UNCHANGED <<upserts, normalized, now>>
    BY <1>7 DEF UpdatePrice
  <2> QED
    BY <2>2, <2>4, <2>5, <2>6, <1>1 DEF Rewrites
<1>8. ASSUME NEW t \in Tasks, WriteText(t)
      PROVE  /\ Rewrites /\ now' = now
             /\ \A l \in Stored : rows'[l].status \in {"active", "delisted"} /\ rows'[l].price \in Prices
  <2>1. PICK l, text : /\ l = cycle[t].row.listing
                       /\ rows' = [rows EXCEPT ![l].text = text]
    BY <1>8 DEF WriteText
  <2>2. l \in Stored
    BY <2>1, <1>8 DEF WriteText, DetectTyped, CycleTyped
  <2>3. rows' = [rows EXCEPT ![l] = [rows[l] EXCEPT !.text = text]]
    BY <2>1, <2>2, <1>1
  <2>4. /\ DOMAIN rows'[l] = DOMAIN rows[l] /\ rows'[l].id = rows[l].id
        /\ rows'[l].status = rows[l].status /\ rows'[l].price = rows[l].price
    BY <2>2, <2>3, <1>1 DEF RowColumns
  <2>5. rows' = [k \in Listings |-> rows'[k]] /\ \A k \in Listings \ {l} : rows'[k] = rows[k]
    BY <2>2, <2>3, <1>1
  <2>6. UNCHANGED <<upserts, normalized, now>>
    BY <1>8 DEF WriteText
  <2> QED
    BY <2>2, <2>4, <2>5, <2>6, <1>1 DEF Rewrites
<1>9. UNCHANGED table \/ \E t \in Tasks : MarkDelisted(t) \/ MarkRelisted(t) \/ UpdatePrice(t) \/ WriteText(t)
  <2>1. ASSUME NEW t \in Tasks, RunCycle(t)
        PROVE  UNCHANGED table \/ MarkDelisted(t) \/ MarkRelisted(t) \/ UpdatePrice(t) \/ WriteText(t)
    BY <2>1 DEF RunCycle, ResolveCycleIds, FetchActive, FetchDelisted, FetchPreviousPrices, InsertHistory, PublishDrop,
       PricesDone, ReadText, TextsDone, CycleError
  <2> QED
    BY <2>1 DEF DetectorStep, SeedHistory, HandleMessage, RunFallbackCycle, FallbackNothing, Killed, Redelivered
<1> QED
  BY <1>1, <1>2, <1>6, <1>7, <1>8, <1>9 DEF table

\* A step of one cycle leaves the other's alone.
Only(t) == /\ cycle' = [u \in Tasks |-> cycle'[u]]
           /\ \A u \in Tasks \ {t} : cycle'[u] = cycle[u]

\* A cycle that starts has the type of a cycle.
LEMMA StartCycleTyped ==
  ASSUME DetectTyped, NEW t \in Tasks, NEW at \in Int, NEW ids, StartCycle(t, at, ids), Stored' = Stored
  PROVE  Only(t) /\ CycleTyped(t)' /\ cycle'[t].stage = "ids"
<1>1. cycle'[t] = [stage |-> "ids", at |-> at, ids |-> ids, active |-> <<>>, delisted |-> {},
                   previous |-> <<>>, todo |-> {}, row |-> 0]
  BY DEF DetectTyped, StartCycle, IdleCycle
<1>2. Only(t)
  BY DEF DetectTyped, StartCycle, Only
<1>3. DOMAIN cycle'[t].active = {} /\ DOMAIN cycle'[t].previous = {}
  BY <1>1
<1> QED
  BY <1>1, <1>2, <1>3 DEF CycleTyped, CycleFields, Active, At

\* So has one that ends.
LEMMA IdleTyped ==
  ASSUME DetectTyped, NEW t \in Tasks, cycle' = [cycle EXCEPT ![t] = IdleCycle], Stored' = Stored
  PROVE  Only(t) /\ CycleTyped(t)' /\ cycle'[t].stage = "idle"
<1>1. cycle'[t] = [stage |-> "idle", at |-> 0, ids |-> {}, active |-> <<>>, delisted |-> {},
                   previous |-> <<>>, todo |-> {}, row |-> 0]
  BY DEF DetectTyped, IdleCycle
<1>2. Only(t)
  BY DEF DetectTyped, Only
<1>3. DOMAIN cycle'[t].active = {} /\ DOMAIN cycle'[t].previous = {}
  BY <1>1
<1> QED
  BY <1>1, <1>2, <1>3 DEF CycleTyped, CycleFields, Active, At

\* So has one that goes on.
LEMMA RunCycleTyped ==
  ASSUME DetectTyped, NEW t \in Tasks, RunCycle(t), Stored' = Stored, Stored \subseteq Listings
  PROVE  Only(t) /\ CycleTyped(t)'
<1>1. /\ CycleTyped(t) /\ DOMAIN cycle[t] = CycleFields /\ cycle = [u \in Tasks |-> cycle[u]]
      /\ \A l \in Stored : rows[l].price \in Prices
      /\ history \in [Listings -> Seq(Entries)]
  BY DEF DetectTyped, CycleTyped
<1>2. CASE ResolveCycleIds(t)
  BY <1>1, <1>2 DEF ResolveCycleIds, CycleTyped, CycleFields, Only, Active, At
<1>3. CASE FetchActive(t)
  <2>1. PICK active : /\ active = [l \in WithStatus("active") |-> [price |-> rows[l].price, text |-> rows[l].text]]
                      /\ cycle' = [cycle EXCEPT ![t].stage = "delisted", ![t].active = active]
    BY <1>3 DEF FetchActive
  <2>2. /\ DOMAIN active \subseteq Stored /\ \A l \in DOMAIN active : active[l].price \in Prices
        /\ At(t, "active")
    BY <2>1, <1>1, <1>3 DEF FetchActive, WithStatus
  <2>3. /\ Only(t) /\ DOMAIN cycle'[t] = CycleFields
        /\ cycle'[t] = [cycle[t] EXCEPT !.stage = "delisted", !.active = active]
    BY <2>1, <1>1 DEF CycleFields, Only
  <2>4. cycle[t].todo = {}
    BY <2>2, <1>1 DEF CycleTyped, At
  <2> QED
    BY <1>1, <2>2, <2>3, <2>4 DEF CycleTyped, CycleFields, Active, At
<1>4. CASE FetchDelisted(t)
  BY <1>1, <1>4 DEF FetchDelisted, WithStatus, CycleTyped, CycleFields, Only, Active, At
<1>5. CASE MarkDelisted(t)
  BY <1>1, <1>5 DEF MarkDelisted, Enter, CycleTyped, CycleFields, Only, Active, At
<1>6. CASE MarkRelisted(t)
  BY <1>1, <1>6 DEF MarkRelisted, CycleTyped, CycleFields, Only, Active, At
<1>7. CASE FetchPreviousPrices(t)
  <2> DEFINE known == {l \in cycle[t].todo : history[l] # <<>>}
  <2>1. PICK pick : /\ \A l \in known : pick[l] \in Latest(l)
                    /\ cycle' = [cycle EXCEPT ![t].stage = "price",
                                              ![t].previous = [l \in known |-> history[l][pick[l]].new]]
    BY <1>7 DEF FetchPreviousPrices
  <2>2. PICK previous : previous = [l \in known |-> history[l][pick[l]].new]
    OBVIOUS
  <2>3. \A l \in DOMAIN previous : previous[l] \in Prices
    <3>1. ASSUME NEW l \in known
          PROVE  history[l][pick[l]].new \in Prices
      <4>1. l \in Listings /\ pick[l] \in DOMAIN history[l]
        BY <1>1, <2>1 DEF Latest, CycleTyped
      <4>2. history[l] \in Seq(Entries)
        BY <4>1, <1>1
      <4>3. history[l][pick[l]] \in Entries
        BY <4>1, <4>2
      <4> QED
        BY <4>3 DEF Entries
    <3> QED
      BY <3>1, <2>2
  <2> HIDE DEF known
  <2> QED
    BY <1>1, <2>1, <2>2, <2>3 DEF CycleTyped, CycleFields, Only, Active, At
<1>8. CASE InsertHistory(t)
  <2>1. PICK l \in Changed(t) : cycle' = [cycle EXCEPT ![t].stage = "update", ![t].row = l]
    BY <1>8 DEF InsertHistory
  <2>2. l \in Active(t) \cap DOMAIN cycle[t].previous
    BY <2>1, <1>1 DEF Changed, CycleTyped
  <2> QED
    BY <1>1, <2>1, <2>2 DEF CycleTyped, CycleFields, Only, Active, At
<1>9. CASE UpdatePrice(t)
  BY <1>1, <1>9 DEF UpdatePrice, CycleTyped, CycleFields, Only, Active, At
<1>10. CASE PublishDrop(t)
  BY <1>1, <1>10 DEF PublishDrop, CycleTyped, CycleFields, Only, Active, At
<1>11. CASE PricesDone(t)
  BY <1>1, <1>11 DEF PricesDone, CycleTyped, CycleFields, Only, Active, At
<1>12. CASE ReadText(t)
  <2>1. PICK l \in cycle[t].todo :
          \/ cycle' = [cycle EXCEPT ![t].todo = @ \ {l}] /\ At(t, "text")
          \/ cycle' = [cycle EXCEPT ![t].stage = "writeText", ![t].row = [listing |-> l, text |-> rows[l].text]]
    BY <1>12 DEF ReadText
  <2>2. l \in Active(t)
    BY <2>1, <1>1 DEF CycleTyped
  <2>3. CASE cycle' = [cycle EXCEPT ![t].todo = @ \ {l}] /\ At(t, "text")
    BY <1>1, <2>3 DEF CycleTyped, CycleFields, Only, Active, At
  <2>4. ASSUME NEW w, w.listing = l, cycle' = [cycle EXCEPT ![t].stage = "writeText", ![t].row = w]
        PROVE  Only(t) /\ CycleTyped(t)'
    BY <1>1, <2>2, <2>4 DEF CycleTyped, CycleFields, Only, Active, At
  <2>5. [listing |-> l, text |-> rows[l].text].listing = l
    OBVIOUS
  <2> QED
    BY <2>1, <2>3, <2>4, <2>5
<1>13. CASE WriteText(t)
  BY <1>1, <1>13 DEF WriteText, CycleTyped, CycleFields, Only, Active, At
<1>14. CASE TextsDone(t)
  BY <1>14, IdleTyped DEF TextsDone, CycleDone
<1>15. CASE CycleError(t)
  <2>1. CASE cycle' = [cycle EXCEPT ![t] = IdleCycle]
    BY <2>1, IdleTyped
  <2>2. CASE StartCycle(t, event.at, event.ids)
    <3>1. event.at \in Int
      BY DEF DetectTyped
    <3> QED
      BY <2>2, <3>1, StartCycleTyped
  <2> QED
    BY <1>15, <2>1, <2>2 DEF CycleError
<1> QED
  BY <1>2, <1>3, <1>4, <1>5, <1>6, <1>7, <1>8, <1>9, <1>10, <1>11, <1>12, <1>13, <1>14, <1>15 DEF RunCycle

\* Every step of the change detector keeps the types of its cycles and of the rows.
LEMMA DetectTypedStep ==
  ASSUME Basics, DetectTyped, DetectorStep, UNCHANGED broker
  PROVE  DetectTyped' /\ Rewrites
<1> USE DEF Basics
<1>1. /\ Rewrites /\ now' = now /\ Stored' = Stored
      /\ \A l \in Stored : rows'[l].status \in {"active", "delisted"} /\ rows'[l].price \in Prices
  BY CycleRewrites, RewritesStep
<1>2. Stored \subseteq Listings
  BY DEF Stored
<1>3. /\ cycle' = [t \in Tasks |-> cycle'[t]]
      /\ \A t \in Tasks : CycleTyped(t)'
  <2>1. ASSUME NEW t \in Tasks, Only(t), CycleTyped(t)'
        PROVE  /\ cycle' = [u \in Tasks |-> cycle'[u]]
               /\ \A u \in Tasks : CycleTyped(u)'
    <3>1. ASSUME NEW u \in Tasks \ {t}
          PROVE  CycleTyped(u)'
      BY <2>1, <3>1, <1>1, CycleStays DEF Only, DetectTyped
    <3> QED
      BY <2>1, <3>1 DEF Only
  <2>2. CASE UNCHANGED cycle
    BY <2>2, <1>1, CycleStays DEF DetectTyped
  <2>3. ASSUME NEW t \in Tasks, NEW at \in Int, NEW ids, StartCycle(t, at, ids)
        PROVE  Only(t) /\ CycleTyped(t)'
    BY <2>3, <1>1, StartCycleTyped
  <2>4. CASE \E at \in 0..MaxTime, ids \in {{}, Stored} : HandleMessage(at, ids)
    <3>1. PICK at \in 0..MaxTime, ids \in {{}, Stored} : StartCycle("message", at, ids)
      BY <2>4 DEF HandleMessage
    <3> QED
      BY <3>1, <2>1, <2>3 DEF Tasks
  <2>5. CASE RunFallbackCycle
    <3>1. StartCycle("fallback", now, {}) /\ now \in Int
      BY <2>5 DEF RunFallbackCycle, DetectTyped
    <3> QED
      BY <3>1, <2>1, <2>3 DEF Tasks
  <2>6. CASE \E t \in Tasks : RunCycle(t)
    BY <2>6, <2>1, <1>1, <1>2, RunCycleTyped
  <2>7. CASE FallbackNothing \/ \E l \in Listings : SeedHistory(l)
    BY <2>7, <2>2 DEF FallbackNothing, SeedHistory
  <2>8. CASE Killed
    <3>1. /\ cycle' = [u \in Tasks |-> cycle'[u]]
          /\ \A u \in Tasks : cycle'[u] = IdleCycle
      BY <2>8 DEF Killed
    <3>2. ASSUME NEW u \in Tasks
          PROVE  CycleTyped(u)'
      <4>1. cycle'[u] = [stage |-> "idle", at |-> 0, ids |-> {}, active |-> <<>>, delisted |-> {},
                         previous |-> <<>>, todo |-> {}, row |-> 0]
        BY <3>1 DEF IdleCycle
      <4>2. DOMAIN cycle'[u].active = {} /\ DOMAIN cycle'[u].previous = {}
        BY <4>1
      <4> QED
        BY <4>1, <4>2 DEF CycleTyped, CycleFields, Active, At
    <3> QED
      BY <3>1, <3>2
  <2>9. CASE Redelivered
    <3>1. StartCycle("message", event.at, event.ids) /\ event.at \in Int
      BY <2>9 DEF Redelivered, DetectTyped
    <3> QED
      BY <3>1, <2>1, <2>3 DEF Tasks
  <2> QED
    BY <2>4, <2>5, <2>6, <2>7, <2>8, <2>9 DEF DetectorStep
<1>4. errors' \in Nat /\ kills' \in Nat /\ event'.at \in Int /\ touched' = [t \in Tasks |-> touched'[t]]
  <2> USE DEF DetectTyped
  <2>1. CASE \E at \in 0..MaxTime, ids \in {{}, Stored} : HandleMessage(at, ids)
    <3>1. PICK at \in 0..MaxTime, ids \in {{}, Stored} : HandleMessage(at, ids)
      BY <2>1
    <3>2. event' = [at |-> at, ids |-> ids, attempt |-> 1] /\ UNCHANGED <<errors, kills>>
      BY <3>1 DEF HandleMessage
    <3>3. touched' = [touched EXCEPT !["message"] = FALSE]
      BY <3>1 DEF HandleMessage, StartCycle
    <3>4. event'.at = at
      BY <3>2
    <3>5. touched' = [u \in Tasks |-> touched'[u]]
      BY <3>3
    <3> QED
      BY <3>2, <3>4, <3>5
  <2>2. CASE RunFallbackCycle \/ FallbackNothing \/ \E l \in Listings : SeedHistory(l)
    BY <2>2 DEF RunFallbackCycle, FallbackNothing, SeedHistory, StartCycle
  <2>3. ASSUME NEW t \in Tasks, CycleError(t)
        PROVE  errors' \in Nat /\ kills' \in Nat /\ event'.at \in Int /\ touched' = [u \in Tasks |-> touched'[u]]
    <3>1. errors' \in Nat /\ kills' \in Nat
      BY <2>3 DEF CycleError
    <3>2. touched' = [u \in Tasks |-> touched'[u]]
      BY <2>3 DEF CycleError, StartCycle
    <3>3. event' = NoEvent \/ event' = event \/ event' = [event EXCEPT !.attempt = @ + 1]
      BY <2>3 DEF CycleError
    <3>4. event' = [event EXCEPT !.attempt = @ + 1] => event'.at = event.at
      OBVIOUS
    <3> QED
      BY <3>1, <3>2, <3>3, <3>4 DEF NoEvent
  <2>4. ASSUME NEW t \in Tasks, TextsDone(t)
        PROVE  errors' \in Nat /\ kills' \in Nat /\ event'.at \in Int /\ touched' = [u \in Tasks |-> touched'[u]]
    <3>1. (event' = NoEvent \/ event' = event) /\ UNCHANGED <<errors, kills>>
      BY <2>4 DEF TextsDone, CycleDone
    <3>2. touched' = [touched EXCEPT ![t] = FALSE]
      BY <2>4 DEF TextsDone, CycleDone
    <3>3. touched' = [u \in Tasks |-> touched'[u]]
      BY <3>2
    <3>4. NoEvent.at = 0
      BY DEF NoEvent
    <3> QED
      BY <3>1, <3>3, <3>4
  <2>5. ASSUME NEW t \in Tasks, MarkDelisted(t) \/ MarkRelisted(t)
        PROVE  errors' \in Nat /\ kills' \in Nat /\ event'.at \in Int /\ touched' = [u \in Tasks |-> touched'[u]]
    BY <2>5 DEF MarkDelisted, MarkRelisted, Touch
  <2>6. ASSUME NEW t \in Tasks, RunCycle(t)
        PROVE  \/ UNCHANGED <<errors, kills, event, touched>>
               \/ MarkDelisted(t) \/ MarkRelisted(t) \/ TextsDone(t) \/ CycleError(t)
    BY <2>6 DEF RunCycle, ResolveCycleIds, FetchActive, FetchDelisted, FetchPreviousPrices, InsertHistory, UpdatePrice,
       PublishDrop, PricesDone, ReadText, WriteText
  <2>7. CASE Killed
    <3>1. errors' \in Nat /\ kills' \in Nat /\ touched' = [u \in Tasks |-> touched'[u]]
      BY <2>7 DEF Killed
    <3>2. event' = NoEvent \/ event' = [event EXCEPT !.attempt = 1]
      BY <2>7 DEF Killed
    <3>3. event' = [event EXCEPT !.attempt = 1] => event'.at = event.at
      OBVIOUS
    <3> QED
      BY <3>1, <3>2, <3>3 DEF NoEvent
  <2>8. CASE Redelivered
    BY <2>8 DEF Redelivered, StartCycle
  <2> QED
    BY <2>1, <2>2, <2>3, <2>4, <2>5, <2>6, <2>7, <2>8 DEF DetectorStep
<1>5. history' \in [Listings -> Seq(Entries)]
  <2>0. /\ history \in [Listings -> Seq(Entries)] /\ now \in Int
        /\ \A l \in Stored : rows[l].price \in Prices
    BY DEF DetectTyped
  <2>1. ASSUME NEW l \in Listings, SeedHistory(l)
        PROVE  history' \in [Listings -> Seq(Entries)]
    <3>1. [old |-> 0, new |-> rows[l].price, at |-> now] \in Entries
      BY <2>0, <2>1 DEF SeedHistory, Entries
    <3> QED
      BY <3>1, <2>0, <2>1 DEF SeedHistory
  <2>2. ASSUME NEW t \in Tasks, InsertHistory(t)
        PROVE  history' \in [Listings -> Seq(Entries)]
    <3>1. PICK l \in Changed(t) : history' = [history EXCEPT ![l] = Append(@,
            [old |-> cycle[t].previous[l], new |-> cycle[t].active[l].price, at |-> cycle[t].at])]
      BY <2>2 DEF InsertHistory
    <3>2. /\ l \in Listings /\ cycle[t].at \in Int
          /\ cycle[t].previous[l] \in Prices /\ cycle[t].active[l].price \in Prices
      BY <3>1, <1>2 DEF Changed, DetectTyped, CycleTyped
    <3>3. [old |-> cycle[t].previous[l], new |-> cycle[t].active[l].price, at |-> cycle[t].at] \in Entries
      BY <3>2 DEF Entries
    <3>4. Append(history[l], [old |-> cycle[t].previous[l], new |-> cycle[t].active[l].price,
                              at |-> cycle[t].at]) \in Seq(Entries)
      BY <3>2, <3>3, <2>0
    <3> QED
      BY <3>1, <3>2, <3>4, <2>0
  <2>3. ASSUME NEW t \in Tasks, RunCycle(t)
        PROVE  InsertHistory(t) \/ UNCHANGED history
    BY <2>3 DEF RunCycle, ResolveCycleIds, FetchActive, FetchDelisted, MarkDelisted, MarkRelisted, FetchPreviousPrices,
       UpdatePrice, PublishDrop, PricesDone, ReadText, WriteText, TextsDone, CycleError
  <2> QED
    BY <2>0, <2>1, <2>2, <2>3 DEF DetectorStep, HandleMessage, RunFallbackCycle, FallbackNothing, Killed, Redelivered
<1> QED
  BY <1>1, <1>3, <1>4, <1>5 DEF DetectTyped

\* While nobody else writes, a cycle that has read the active rows has read them
\* all, and each of its marks does what is left of its job.
CycleExact(t) ==
  ~touched[t] =>
    /\ At(t, "delisted") => Active(t) = WithStatus("active")
    /\ At(t, "delist")   => Active(t) = WithStatus("active") /\ cycle[t].delisted = WithStatus("delisted")
    /\ At(t, "relist")   => /\ WithStatus("active") = Active(t) \cap cycle[t].ids
                            /\ Stored \subseteq Active(t) \cup cycle[t].delisted
    /\ At(t, "previous") => \A l \in Stored : rows[l].status = "active" <=> l \in cycle[t].ids

SameStatus == Stored' = Stored /\ \A l \in Stored : rows'[l].status = rows[l].status

\* A cycle that a step leaves alone is as exact as before.
LEMMA ExactStays ==
  ASSUME NEW u, CycleExact(u), cycle'[u] = cycle[u], touched[u] => touched'[u], SameStatus
  PROVE  CycleExact(u)'
<1>1. WithStatus("active")' = WithStatus("active") /\ WithStatus("delisted")' = WithStatus("delisted")
  BY DEF SameStatus, WithStatus
<1> QED
  BY <1>1 DEF CycleExact, SameStatus, At, Active

\* A mark that changes a row disturbs the other cycle, if there is one.
LEMMA MarkEffect ==
  ASSUME Basics, DetectTyped, NEW t \in Tasks, NEW ls \in SUBSET Stored, NEW s, Marked(ls, s),
         Touch(IF ls = {} THEN {} ELSE {Other(t)}), Stored' = Stored
  PROVE  /\ touched[t] => touched'[t]
         /\ \A l \in Stored : rows'[l].status = IF l \in ls THEN s ELSE rows[l].status
         /\ \A u \in Tasks \ {t} : /\ touched[u] => touched'[u]
                                   /\ SameStatus \/ touched'[u] \/ At(u, "idle")
<1>1. Other(t) \in Tasks \ {t} /\ \A u \in Tasks \ {t} : u = Other(t)
  BY DEF Other, Tasks
<1>2. \A u \in Tasks : touched'[u] = (touched[u] \/ (u \in (IF ls = {} THEN {} ELSE {Other(t)}) /\ cycle[u].stage # "idle"))
  BY DEF Touch
<1>3. touched[t] => touched'[t]
  BY <1>2
<1>4. ASSUME NEW l \in Stored
      PROVE  rows'[l].status = IF l \in ls THEN s ELSE rows[l].status
  <2>1. l \in Listings /\ DOMAIN rows[l] = RowColumns
    BY DEF Basics, Stored, RowsOK, RowFor
  <2> QED
    BY <2>1 DEF Marked, RowColumns
<1> QED
  BY <1>1, <1>2, <1>3, <1>4 DEF SameStatus, At

\* Every step keeps what an undisturbed cycle knows of the rows exact.
LEMMA ExactStep ==
  ASSUME Basics, DetectTyped, DetectorStep, UNCHANGED broker,
         \A t \in Tasks : CycleExact(t)
  PROVE  \A t \in Tasks : CycleExact(t)'
<1>1. /\ Stored' = Stored /\ Stored \subseteq Listings
      /\ cycle = [u \in Tasks |-> cycle[u]] /\ touched = [u \in Tasks |-> touched[u]]
      /\ \A l \in Stored : rows[l].status \in {"active", "delisted"}
      /\ \A u \in Tasks : DOMAIN cycle[u] = CycleFields /\ Active(u) \subseteq Stored /\ cycle[u].delisted \subseteq Stored
  <2>1. Stored' = Stored
    BY CycleRewrites, RewritesStep DEF Basics
  <2> QED
    BY <2>1 DEF DetectTyped, CycleTyped, Stored
<1>2. ASSUME UNCHANGED rows
      PROVE  SameStatus
  BY <1>2, <1>1 DEF SameStatus
\* A task that begins or ends is at none of the stages.
<1>3. ASSUME NEW u \in Tasks, cycle'[u].stage \notin {"delisted", "delist", "relist", "previous"}
      PROVE  CycleExact(u)'
  BY <1>3 DEF CycleExact, At
<1>4. ASSUME NEW t \in Tasks, NEW at, NEW ids, StartCycle(t, at, ids), UNCHANGED rows
      PROVE  \A u \in Tasks : CycleExact(u)'
  <2>1. cycle'[t].stage = "ids"
    BY <1>4, <1>1 DEF StartCycle, IdleCycle
  <2>2. \A u \in Tasks \ {t} : cycle'[u] = cycle[u] /\ touched'[u] = touched[u]
    BY <1>4, <1>1 DEF StartCycle
  <2> QED
    BY <2>1, <2>2, <1>2, <1>3, <1>4, ExactStays
<1>5. CASE \E at \in 0..MaxTime, ids \in {{}, Stored} : HandleMessage(at, ids)
  BY <1>5, <1>4 DEF HandleMessage, table, Tasks
<1>6. CASE RunFallbackCycle
  BY <1>6, <1>4 DEF RunFallbackCycle, table, Tasks
<1>7. CASE FallbackNothing \/ \E l \in Listings : SeedHistory(l)
  BY <1>7, <1>2, ExactStays DEF FallbackNothing, SeedHistory, table
<1>8. ASSUME NEW t \in Tasks, RunCycle(t)
      PROVE  \A u \in Tasks : CycleExact(u)'
  <2>1. Only(t)
    BY <1>1, <1>8, RunCycleTyped
  <2>2. ASSUME NEW u \in Tasks \ {t}, touched[u] => touched'[u], SameStatus \/ touched'[u] \/ At(u, "idle")
        PROVE  CycleExact(u)'
    <3>1. cycle'[u] = cycle[u]
      BY <2>1 DEF Only
    <3>2. CASE SameStatus
      BY <3>1, <3>2, <2>2, ExactStays
    <3>3. CASE touched'[u]
      BY <3>3 DEF CycleExact
    <3>4. CASE At(u, "idle")
      BY <3>1, <3>4, <1>3 DEF At
    <3> QED
      BY <2>2, <3>2, <3>3, <3>4
  <2>3. CASE MarkDelisted(t)
    <3> DEFINE ls == Active(t) \ cycle[t].ids
    <3>1. /\ Marked(ls, "delisted") /\ Touch(IF ls = {} THEN {} ELSE {Other(t)})
          /\ At(t, "delist") /\ cycle' = [cycle EXCEPT ![t].stage = "relist"]
      BY <2>3 DEF MarkDelisted, Enter
    <3>2. PICK L : L = ls
      OBVIOUS
    <3>3. /\ touched[t] => touched'[t]
          /\ \A l \in Stored : rows'[l].status = IF l \in L THEN "delisted" ELSE rows[l].status
          /\ \A u \in Tasks \ {t} : /\ touched[u] => touched'[u]
                                    /\ SameStatus \/ touched'[u] \/ At(u, "idle")
      <4>1. L \in SUBSET Stored
        BY <3>2, <1>1
      <4>2. Marked(L, "delisted") /\ Touch(IF L = {} THEN {} ELSE {Other(t)})
        BY <3>1, <3>2
      <4> QED
        BY <4>1, <4>2, <1>1, MarkEffect
    <3>4. /\ cycle'[t].stage = "relist" /\ Active(t)' = Active(t)
          /\ cycle'[t].ids = cycle[t].ids /\ cycle'[t].delisted = cycle[t].delisted
      BY <3>1, <1>1 DEF CycleFields, Active
    <3>5. CycleExact(t)'
      <4>1. SUFFICES ASSUME ~touched[t]
                     PROVE  /\ WithStatus("active")' = Active(t) \cap cycle[t].ids
                            /\ Stored \subseteq Active(t) \cup cycle[t].delisted
        BY <3>3, <3>4, <1>1 DEF CycleExact, At
      <4>2. Active(t) = WithStatus("active") /\ cycle[t].delisted = WithStatus("delisted")
        BY <4>1, <3>1 DEF CycleExact
      <4> QED
        BY <4>2, <3>2, <3>3, <1>1 DEF WithStatus
    <3> QED
      BY <3>3, <3>5, <2>2
  <2>4. CASE MarkRelisted(t)
    <3> DEFINE ls == cycle[t].delisted \cap cycle[t].ids
    <3>1. /\ Marked(ls, "active") /\ Touch(IF ls = {} THEN {} ELSE {Other(t)})
          /\ At(t, "relist")
          /\ cycle' = [cycle EXCEPT ![t].stage = "previous", ![t].todo = Active(t) \cap cycle[t].ids]
      BY <2>4 DEF MarkRelisted
    <3>2. PICK L : L = ls
      OBVIOUS
    <3>3. /\ touched[t] => touched'[t]
          /\ \A l \in Stored : rows'[l].status = IF l \in L THEN "active" ELSE rows[l].status
          /\ \A u \in Tasks \ {t} : /\ touched[u] => touched'[u]
                                    /\ SameStatus \/ touched'[u] \/ At(u, "idle")
      <4>1. L \in SUBSET Stored
        BY <3>2, <1>1
      <4>2. Marked(L, "active") /\ Touch(IF L = {} THEN {} ELSE {Other(t)})
        BY <3>1, <3>2
      <4> QED
        BY <4>1, <4>2, <1>1, MarkEffect
    <3>4. cycle'[t].stage = "previous" /\ cycle'[t].ids = cycle[t].ids
      BY <3>1, <1>1 DEF CycleFields
    <3>5. CycleExact(t)'
      <4>1. SUFFICES ASSUME ~touched[t]
                     PROVE  \A l \in Stored : rows'[l].status = "active" <=> l \in cycle[t].ids
        BY <3>3, <3>4, <1>1 DEF CycleExact, At
      <4>2. /\ WithStatus("active") = Active(t) \cap cycle[t].ids
            /\ Stored \subseteq Active(t) \cup cycle[t].delisted
        BY <4>1, <3>1 DEF CycleExact
      <4> QED
        BY <4>2, <3>2, <3>3 DEF WithStatus
    <3> QED
      BY <3>3, <3>5, <2>2
  <2>5. ASSUME SameStatus, \A u \in Tasks \ {t} : touched'[u] = touched[u], CycleExact(t)'
        PROVE  \A u \in Tasks : CycleExact(u)'
    BY <2>2, <2>5
  <2>6. CASE ResolveCycleIds(t)
    <3>1. UNCHANGED <<rows, touched>> /\ cycle'[t].stage = "active"
      BY <2>6, <1>1 DEF ResolveCycleIds, table, CycleFields
    <3> QED
      BY <3>1, <2>5, <1>2, <1>3
  <2>7. CASE FetchActive(t)
    <3>1. UNCHANGED <<rows, touched>> /\ cycle'[t].stage = "delisted" /\ Active(t)' = WithStatus("active")
      BY <2>7, <1>1 DEF FetchActive, table, CycleFields, Active
    <3>2. CycleExact(t)'
      BY <3>1, <1>1 DEF CycleExact, At, WithStatus
    <3> QED
      BY <3>1, <3>2, <2>5, <1>2
  <2>8. CASE FetchDelisted(t)
    <3>1. /\ UNCHANGED <<rows, touched>> /\ cycle'[t].stage = "delist" /\ Active(t)' = Active(t)
          /\ cycle'[t].delisted = WithStatus("delisted") /\ At(t, "delisted")
      BY <2>8, <1>1 DEF FetchDelisted, table, CycleFields, Active
    <3>2. CycleExact(t)'
      BY <3>1, <1>1 DEF CycleExact, At, WithStatus
    <3> QED
      BY <3>1, <3>2, <2>5, <1>2
  <2>9. CASE FetchPreviousPrices(t) \/ InsertHistory(t) \/ PublishDrop(t) \/ PricesDone(t) \/ ReadText(t)
    <3>1. UNCHANGED <<rows, touched>>
      BY <2>9 DEF FetchPreviousPrices, InsertHistory, PublishDrop, PricesDone, ReadText, table
    <3>2. cycle'[t].stage \in {"price", "update", "text", "writeText"}
      <4>1. CASE FetchPreviousPrices(t)
        <5>1. PICK previous : cycle' = [cycle EXCEPT ![t].stage = "price", ![t].previous = previous]
          BY <4>1 DEF FetchPreviousPrices
        <5> QED
          BY <5>1, <1>1 DEF CycleFields
      <4>2. CASE InsertHistory(t)
        <5>1. PICK l : cycle' = [cycle EXCEPT ![t].stage = "update", ![t].row = l]
          BY <4>2 DEF InsertHistory
        <5> QED
          BY <5>1, <1>1 DEF CycleFields
      <4>3. CASE PublishDrop(t) \/ PricesDone(t)
        BY <4>3, <1>1 DEF PublishDrop, PricesDone, CycleFields
      <4>4. CASE ReadText(t)
        <5>1. PICK l, w : \/ cycle' = [cycle EXCEPT ![t].todo = @ \ {l}] /\ At(t, "text")
                          \/ cycle' = [cycle EXCEPT ![t].stage = "writeText", ![t].row = w]
          BY <4>4 DEF ReadText
        <5> QED
          BY <5>1, <1>1 DEF CycleFields, At
      <4> QED
        BY <2>9, <4>1, <4>2, <4>3, <4>4
    <3> QED
      BY <3>1, <3>2, <2>5, <1>2, <1>3
  <2>10. CASE UpdatePrice(t) \/ WriteText(t)
    <3>1. touched' = touched /\ cycle'[t].stage \in {"price", "publish", "text"}
      BY <2>10, <1>1 DEF UpdatePrice, WriteText, CycleFields
    <3>2. SameStatus
      <4>1. ASSUME NEW l \in Stored
            PROVE  rows'[l].status = rows[l].status
        <5>1. l \in Listings /\ DOMAIN rows[l] = RowColumns /\ rows = [k \in Listings |-> rows[k]]
          BY DEF Basics, Stored, RowsOK, RowFor
        <5> QED
          BY <2>10, <5>1 DEF UpdatePrice, WriteText, RowColumns
      <4> QED
        BY <4>1, <1>1 DEF SameStatus
    <3> QED
      BY <3>1, <3>2, <2>5, <1>3
  <2>11. CASE TextsDone(t)
    <3>1. /\ UNCHANGED rows /\ cycle'[t].stage = "idle"
          /\ \A u \in Tasks \ {t} : touched'[u] = touched[u]
      BY <2>11, <1>1 DEF TextsDone, CycleDone, table, IdleCycle
    <3> QED
      BY <3>1, <2>5, <1>2, <1>3
  <2>12. CASE CycleError(t)
    <3>1. UNCHANGED rows
      BY <2>12 DEF CycleError, table
    <3>2. \/ StartCycle(t, event.at, event.ids)
          \/ /\ cycle'[t].stage = "idle"
             /\ \A u \in Tasks \ {t} : touched'[u] = touched[u]
      BY <2>12, <1>1 DEF CycleError, IdleCycle
    <3> QED
      BY <3>1, <3>2, <2>5, <1>2, <1>3, <1>4
  <2> QED
    BY <1>8, <2>3, <2>4, <2>6, <2>7, <2>8, <2>9, <2>10, <2>11, <2>12 DEF RunCycle
<1>9. CASE Killed
  <2>1. \A u \in Tasks : cycle'[u] = IdleCycle
    BY <1>9 DEF Killed
  <2> QED
    BY <2>1, <1>3 DEF IdleCycle
<1>10. CASE Redelivered
  BY <1>10, <1>4 DEF Redelivered, table, Tasks
<1> QED
  BY <1>5, <1>6, <1>7, <1>8, <1>9, <1>10 DEF DetectorStep

\* A cycle between the row of price_history and its announcement.
InFlight(t) == cycle[t].stage \in {"update", "publish"}
EntryOf(t)  == [old |-> cycle[t].previous[cycle[t].row], new |-> cycle[t].active[cycle[t].row].price,
                at |-> cycle[t].at]

\* Each drop in price_history that was not announced is in the hands of the cycle
\* that inserted it, at the index that idx remembers, or is charged to an error or to a
\* kill, which takes at most one from each task.
Accounted(Lost, idx) ==
  /\ IsFiniteSet(Lost) /\ Cardinality(Lost) <= errors + 2 * kills
  /\ idx \in [Tasks -> Nat]
  /\ \A t \in Tasks : InFlight(t) =>
       idx[t] \in DOMAIN history[cycle[t].row] /\ history[cycle[t].row][idx[t]] = EntryOf(t)
  /\ \A l \in Listings : \A i \in DOMAIN history[l] :
       history[l][i].new < history[l][i].old /\ Drop(l, history[l][i]) \notin drops =>
         <<l, i>> \in Lost \/ \E t \in Tasks : InFlight(t) /\ cycle[t].row = l /\ idx[t] = i

\* What is accounted for stays so when no drop is written, announced or lost.
LEMMA AccountedStays ==
  ASSUME NEW Lost, NEW idx, Accounted(Lost, idx), UNCHANGED <<history, drops, errors, kills>>,
         \A u \in Tasks : cycle'[u] = cycle[u] \/ (~InFlight(u) /\ ~InFlight(u)')
  PROVE  Accounted(Lost, idx)'
<1>1. \A u \in Tasks : InFlight(u) <=> InFlight(u)'
  BY DEF InFlight
<1>2. \A u \in Tasks : InFlight(u) => cycle'[u].row = cycle[u].row /\ EntryOf(u)' = EntryOf(u)
  BY DEF EntryOf
<1> QED
  BY <1>1, <1>2 DEF Accounted

\* There are no more unannounced drops than the faults that account for them.
LEMMA AccountedProperty ==
  ASSUME DetectTyped, NEW Lost, NEW idx, Accounted(Lost, idx)
  PROVE  LostDropNeedsFault
<1>1. Unannounced \subseteq Lost
  <2>1. ASSUME NEW e \in Unannounced
        PROVE  e \in Lost
    <3>1. PICK l \in Listings : e \in {l} \X DOMAIN history[l]
      BY DEF Unannounced
    <3>2. PICK i \in DOMAIN history[l] : e = <<l, i>>
      BY <3>1
    <3>3. /\ history[l][i].new < history[l][i].old
          /\ Drop(l, history[l][i]) \notin drops
          /\ ~Announcing(l, history[l][i])
      BY <3>2 DEF Unannounced
    <3>4. ASSUME NEW t \in Tasks, InFlight(t), cycle[t].row = l, idx[t] = i
          PROVE  FALSE
      <4>1. history[l][i] = EntryOf(t)
        BY <3>4 DEF Accounted
      <4> QED
        BY <4>1, <3>3, <3>4 DEF Announcing, EntryOf, InFlight
    <3> QED
      BY <3>2, <3>3, <3>4 DEF Accounted
  <2> QED
    BY <2>1
<1>2. IsFiniteSet(Lost) /\ Cardinality(Lost) <= errors + 2 * kills /\ errors \in Nat /\ kills \in Nat
  BY DEF Accounted, DetectTyped
<1>3. Cardinality(Unannounced) <= Cardinality(Lost) /\ IsFiniteSet(Unannounced)
  BY <1>1, <1>2, FS_Subset
<1>4. Cardinality(Unannounced) \in Nat /\ Cardinality(Lost) \in Nat
  BY <1>2, <1>3, FS_CardinalityType
<1> QED
  BY <1>2, <1>3, <1>4 DEF LostDropNeedsFault

\* The message task has a cycle only for an event that it holds.
EventHeld ==
  /\ event \in [at : Int, ids : SUBSET Listings, attempt : Nat]
  /\ event = NoEvent => At("message", "idle")

\* An event that the task holds stays there until its cycle ends, raises or is killed.
LEMMA EventHeldStep ==
  ASSUME Basics, DetectTyped, EventHeld, DetectorStep, UNCHANGED broker
  PROVE  EventHeld'
<1>1. /\ cycle = [u \in Tasks |-> cycle[u]] /\ Stored \subseteq Listings /\ Stored' = Stored
      /\ "message" \in Tasks
  <2>1. Stored' = Stored
    BY CycleRewrites, RewritesStep DEF Basics
  <2> QED
    BY <2>1 DEF DetectTyped, Stored, Tasks
<1>2. CASE \E at \in 0..MaxTime, ids \in {{}, Stored} : HandleMessage(at, ids)
  <2>1. PICK at \in 0..MaxTime, ids \in {{}, Stored} : event' = [at |-> at, ids |-> ids, attempt |-> 1]
    BY <1>2 DEF HandleMessage
  <2>2. event'.attempt = 1 /\ NoEvent.attempt = 0
    BY <2>1 DEF NoEvent
  <2>3. event' # NoEvent
    BY <2>2
  <2>4. event' \in [at : Int, ids : SUBSET Listings, attempt : Nat]
    BY <2>1, <1>1
  <2> QED
    BY <2>3, <2>4 DEF EventHeld
<1>3. ASSUME UNCHANGED event, cycle'["message"] = cycle["message"]
      PROVE  EventHeld'
  BY <1>3 DEF EventHeld, At
<1>4. CASE RunFallbackCycle
  <2>1. UNCHANGED event /\ cycle'["message"] = cycle["message"]
    BY <1>4, <1>1 DEF RunFallbackCycle, StartCycle
  <2> QED
    BY <2>1, <1>3
<1>5. CASE FallbackNothing \/ \E l \in Listings : SeedHistory(l)
  BY <1>5, <1>3 DEF FallbackNothing, SeedHistory
<1>6. ASSUME event' = NoEvent, cycle'["message"] = IdleCycle
      PROVE  EventHeld'
  BY <1>6 DEF EventHeld, At, NoEvent, IdleCycle
<1>7. ASSUME NEW t \in Tasks, CycleError(t)
      PROVE  EventHeld'
  <2>1. CASE t = "message" /\ event.attempt < CycleRetries
    <3>1. event' = [event EXCEPT !.attempt = @ + 1]
      BY <1>7, <2>1 DEF CycleError
    <3>2. /\ event' \in [at : Int, ids : SUBSET Listings, attempt : Nat]
          /\ event'.attempt # 0
      BY <3>1 DEF EventHeld
    <3>3. event' # NoEvent
      BY <3>2 DEF NoEvent
    <3> QED
      BY <3>2, <3>3 DEF EventHeld
  <2>2. CASE ~(t = "message" /\ event.attempt < CycleRetries)
    <3>1. /\ cycle' = [cycle EXCEPT ![t] = IdleCycle]
          /\ event' = IF t = "message" THEN NoEvent ELSE event
      BY <1>7, <2>2 DEF CycleError
    <3>2. CASE t = "message"
      BY <3>1, <3>2, <1>1, <1>6
    <3>3. CASE t # "message"
      BY <3>1, <3>3, <1>1, <1>3
    <3> QED
      BY <3>2, <3>3
  <2> QED
    BY <2>1, <2>2
<1>8. ASSUME NEW t \in Tasks, TextsDone(t)
      PROVE  EventHeld'
  <2>1. /\ cycle' = [cycle EXCEPT ![t] = IdleCycle]
        /\ event' = IF t = "message" THEN NoEvent ELSE event
    BY <1>8 DEF TextsDone, CycleDone
  <2>2. CASE t = "message"
    BY <2>1, <2>2, <1>1, <1>6
  <2>3. CASE t # "message"
    BY <2>1, <2>3, <1>1, <1>3
  <2> QED
    BY <2>2, <2>3
<1>9. ASSUME NEW t \in Tasks, RunCycle(t), ~TextsDone(t), ~CycleError(t)
      PROVE  EventHeld'
  <2>1. UNCHANGED event /\ ~At(t, "idle")
    BY <1>9 DEF RunCycle, ResolveCycleIds, FetchActive, FetchDelisted, MarkDelisted, MarkRelisted,
       FetchPreviousPrices, InsertHistory, UpdatePrice, PublishDrop, PricesDone, ReadText, WriteText, At
  <2>2. CASE t = "message"
    BY <2>1, <2>2 DEF EventHeld
  <2>3. CASE t # "message"
    <3>1. Only(t)
      BY <1>9, <1>1, RunCycleTyped
    <3> QED
      BY <2>1, <2>3, <3>1, <1>1, <1>3 DEF Only
  <2> QED
    BY <2>2, <2>3
<1>10. CASE Killed
  <2>1. cycle'["message"] = IdleCycle /\ (event' = NoEvent \/ event' = [event EXCEPT !.attempt = 1])
    BY <1>10, <1>1 DEF Killed
  <2>2. CASE event' = [event EXCEPT !.attempt = 1]
    <3>1. event' \in [at : Int, ids : SUBSET Listings, attempt : Nat]
      BY <2>2 DEF EventHeld
    <3> QED
      BY <2>1, <3>1 DEF EventHeld, At, IdleCycle
  <2> QED
    BY <2>1, <2>2, <1>6
<1>11. CASE Redelivered
  BY <1>11 DEF Redelivered, EventHeld
<1> QED
  BY <1>2, <1>4, <1>5, <1>7, <1>8, <1>9, <1>10, <1>11 DEF DetectorStep

\* Every step keeps the account: an error takes the drop in the hands of one cycle, a
\* kill those of both.
LEMMA AccountedStep ==
  ASSUME Basics, DetectTyped, EventHeld, DetectorStep, UNCHANGED broker, NEW Lost, NEW idx, Accounted(Lost, idx)
  PROVE  \E L, i : Accounted(L, i)'
<1>1. /\ cycle = [u \in Tasks |-> cycle[u]] /\ Stored' = Stored /\ Stored \subseteq Listings
      /\ history \in [Listings -> Seq(Entries)] /\ errors \in Nat /\ kills \in Nat
      /\ \A u \in Tasks : DOMAIN cycle[u] = CycleFields
      /\ \A l \in Stored : rows[l].price \in Prices
  <2>1. Stored' = Stored
    BY CycleRewrites, RewritesStep DEF Basics
  <2> QED
    BY <2>1 DEF DetectTyped, CycleTyped, Stored
<1>2. ASSUME UNCHANGED <<history, drops, errors, kills>>,
             \A u \in Tasks : cycle'[u] = cycle[u] \/ (~InFlight(u) /\ ~InFlight(u)')
      PROVE  \E L, i : Accounted(L, i)'
  BY <1>2, AccountedStays
<1>3. ASSUME NEW t \in Tasks, NEW at, NEW ids, StartCycle(t, at, ids)
      PROVE  cycle'[t].stage = "ids" /\ \A u \in Tasks \ {t} : cycle'[u] = cycle[u]
  BY <1>3, <1>1 DEF StartCycle, IdleCycle
<1>4. CASE \E at \in 0..MaxTime, ids \in {{}, Stored} : HandleMessage(at, ids)
  <2>1. /\ UNCHANGED <<history, drops, errors, kills>> /\ At("message", "idle")
        /\ \E at, ids : StartCycle("message", at, ids)
    BY <1>4 DEF HandleMessage, EventHeld
  <2> QED
    BY <2>1, <1>2, <1>3 DEF InFlight, At, Tasks
<1>5. CASE RunFallbackCycle
  <2>1. At("fallback", "idle") /\ StartCycle("fallback", now, {}) /\ UNCHANGED <<history, drops, errors, kills>>
    BY <1>5 DEF RunFallbackCycle, FallbackDue
  <2> QED
    BY <2>1, <1>2, <1>3 DEF InFlight, At, Tasks
<1>6. CASE FallbackNothing
  BY <1>6, <1>2 DEF FallbackNothing
\* The first row of a history is no drop, for prices are positive.
<1>7. ASSUME NEW l \in Listings, SeedHistory(l)
      PROVE  Accounted(Lost, idx)'
  <2> DEFINE entry == [old |-> 0, new |-> rows[l].price, at |-> now]
  <2>1. /\ history[l] = <<>> /\ history' = [history EXCEPT ![l] = <<entry>>]
        /\ UNCHANGED <<cycle, drops, errors, kills>> /\ l \in Stored
    BY <1>7 DEF SeedHistory
  <2>2. history'[l] = <<entry>> /\ \A k \in Listings \ {l} : history'[k] = history[k]
    BY <2>1, <1>1
  <2>3. ~(entry.new < entry.old)
    BY <2>1, <1>1, PricesAssumption
  <2>4. \A t \in Tasks : InFlight(t) => cycle[t].row \in Listings \ {l}
    <3>1. ASSUME NEW t \in Tasks, InFlight(t)
          PROVE  cycle[t].row \in Listings \ {l}
      <4>1. cycle[t].row \in Stored
        BY <3>1 DEF DetectTyped, CycleTyped, InFlight
      <4>2. DOMAIN history[l] = {}
        BY <2>1
      <4> QED
        BY <3>1, <4>1, <4>2, <1>1 DEF Accounted
    <3> QED
      BY <3>1
  <2>5. \A t \in Tasks : EntryOf(t)' = EntryOf(t) /\ (InFlight(t)' <=> InFlight(t))
    BY <2>1 DEF EntryOf, InFlight
  <2>6. \A i \in DOMAIN <<entry>> : <<entry>>[i] = entry
    OBVIOUS
  <2> HIDE DEF entry
  <2>7. \A k \in Listings : \A i \in DOMAIN history'[k] :
          history'[k][i].new < history'[k][i].old => k # l
    BY <2>2, <2>3, <2>6
  <2> QED
    BY <2>1, <2>2, <2>4, <2>5, <2>7 DEF Accounted
<1>8. ASSUME NEW t \in Tasks, InsertHistory(t)
      PROVE  \E L, i : Accounted(L, i)'
  <2>1. PICK l \in Changed(t) :
          /\ history' = [history EXCEPT ![l] = Append(@,
               [old |-> cycle[t].previous[l], new |-> cycle[t].active[l].price, at |-> cycle[t].at])]
          /\ cycle' = [cycle EXCEPT ![t].stage = "update", ![t].row = l]
    BY <1>8 DEF InsertHistory
  <2>2. PICK entry : entry = [old |-> cycle[t].previous[l], new |-> cycle[t].active[l].price, at |-> cycle[t].at]
    OBVIOUS
  <2>3. l \in Listings /\ UNCHANGED <<drops, errors, kills>> /\ ~InFlight(t)
    BY <2>1, <1>1, <1>8 DEF InsertHistory, Changed, DetectTyped, CycleTyped, InFlight, At
  <2>4. /\ cycle'[t].row = l /\ EntryOf(t)' = entry /\ InFlight(t)'
        /\ \A u \in Tasks \ {t} : cycle'[u] = cycle[u]
    BY <2>1, <2>2, <1>1 DEF CycleFields, EntryOf, InFlight
  <2>5. PICK n : n = Len(history[l]) + 1
    OBVIOUS
  <2>6. history[l] \in Seq(Entries)
    BY <2>3, <1>1
  <2>6a. Len(history[l]) \in Nat
    BY <2>6
  <2>6b. history'[l] = Append(history[l], entry)
    BY <2>1, <2>2, <2>3, <1>1
  <2>7. /\ n \in Nat /\ DOMAIN history'[l] = DOMAIN history[l] \cup {n} /\ n \notin DOMAIN history[l]
        /\ history'[l][n] = entry
        /\ \A i \in DOMAIN history[l] : history'[l][i] = history[l][i]
    BY <2>5, <2>6, <2>6a, <2>6b
  <2>8. \A k \in Listings \ {l} : history'[k] = history[k]
    BY <2>1, <1>1
  <2>9. \A k \in Listings : /\ DOMAIN history[k] \subseteq DOMAIN history'[k]
                            /\ \A i \in DOMAIN history[k] : history'[k][i] = history[k][i]
    BY <2>7, <2>8
  <2>10. PICK jdx : jdx = [idx EXCEPT ![t] = n]
    OBVIOUS
  <2>11. /\ jdx \in [Tasks -> Nat] /\ jdx[t] = n /\ \A u \in Tasks \ {t} : jdx[u] = idx[u]
    BY <2>7, <2>10 DEF Accounted
  <2>12. \A u \in Tasks : InFlight(u)' =>
           jdx[u] \in DOMAIN history'[cycle'[u].row] /\ history'[cycle'[u].row][jdx[u]] = EntryOf(u)'
    <3>1. ASSUME NEW u \in Tasks \ {t}, InFlight(u)'
          PROVE  jdx[u] \in DOMAIN history'[cycle'[u].row] /\ history'[cycle'[u].row][jdx[u]] = EntryOf(u)'
      <4>1. InFlight(u) /\ cycle'[u] = cycle[u] /\ EntryOf(u)' = EntryOf(u)
        BY <3>1, <2>4 DEF InFlight, EntryOf
      <4>2. cycle[u].row \in Listings
        BY <4>1, <1>1 DEF DetectTyped, CycleTyped, InFlight
      <4> QED
        BY <4>1, <4>2, <2>9, <2>11 DEF Accounted
    <3> QED
      BY <3>1, <2>4, <2>7, <2>11
  <2>13. ASSUME NEW k \in Listings, NEW i \in DOMAIN history'[k],
                history'[k][i].new < history'[k][i].old, Drop(k, history'[k][i]) \notin drops
         PROVE  <<k, i>> \in Lost \/ \E u \in Tasks : InFlight(u)' /\ cycle'[u].row = k /\ jdx[u] = i
    <3>1. CASE k = l /\ i = n
      BY <3>1, <2>4, <2>11
    <3>2. CASE ~(k = l /\ i = n)
      <4>1. i \in DOMAIN history[k] /\ history'[k][i] = history[k][i]
        BY <3>2, <2>7, <2>8, <2>13
      <4>2. <<k, i>> \in Lost \/ \E u \in Tasks : InFlight(u) /\ cycle[u].row = k /\ idx[u] = i
        BY <4>1, <2>13 DEF Accounted
      <4>3. ASSUME NEW u \in Tasks, InFlight(u), cycle[u].row = k, idx[u] = i
            PROVE  InFlight(u)' /\ cycle'[u].row = k /\ jdx[u] = i
        BY <4>3, <2>3, <2>4, <2>11 DEF InFlight
      <4> QED
        BY <4>2, <4>3
    <3> QED
      BY <3>1, <3>2
  <2>14. Accounted(Lost, jdx)'
    BY <2>3, <2>11, <2>12, <2>13 DEF Accounted
  <2> QED
    BY <2>14
\* A row that is no drop is done with when the price is updated, a drop when it is published.
<1>9. ASSUME NEW t \in Tasks, UpdatePrice(t) \/ PublishDrop(t), ~InFlight(t)'
      PROVE  Accounted(Lost, idx)'
  <2>1. /\ UNCHANGED <<history, errors, kills>> /\ drops \subseteq drops' /\ InFlight(t)
        /\ \A u \in Tasks \ {t} : cycle'[u] = cycle[u]
    BY <1>9, <1>1 DEF UpdatePrice, PublishDrop, InFlight, At
  <2>2. ~(EntryOf(t).new < EntryOf(t).old) \/ Drop(cycle[t].row, EntryOf(t)) \in drops'
    <3>1. CASE UpdatePrice(t)
      <4>1. ~(cycle[t].active[cycle[t].row].price < cycle[t].previous[cycle[t].row])
        BY <3>1, <1>9, <1>1 DEF UpdatePrice, InFlight, CycleFields
      <4> QED
        BY <4>1 DEF EntryOf
    <3>2. CASE PublishDrop(t)
      BY <3>2 DEF PublishDrop, EntryOf
    <3> QED
      BY <1>9, <3>1, <3>2
  <2>3. \A u \in Tasks \ {t} : (InFlight(u)' <=> InFlight(u)) /\ EntryOf(u)' = EntryOf(u)
    BY <2>1 DEF InFlight, EntryOf
  <2>4. ASSUME NEW l \in Listings, NEW i \in DOMAIN history[l],
               history[l][i].new < history[l][i].old, Drop(l, history[l][i]) \notin drops'
        PROVE  <<l, i>> \in Lost \/ \E u \in Tasks : InFlight(u)' /\ cycle'[u].row = l /\ idx[u] = i
    <3>1. <<l, i>> \in Lost \/ \E u \in Tasks : InFlight(u) /\ cycle[u].row = l /\ idx[u] = i
      BY <2>1, <2>4 DEF Accounted
    <3>2. ~(cycle[t].row = l /\ idx[t] = i)
      BY <2>1, <2>2, <2>4 DEF Accounted
    <3> QED
      BY <3>1, <3>2, <2>1, <2>3
  <2> QED
    BY <1>9, <2>1, <2>3, <2>4 DEF Accounted
<1>10. ASSUME NEW t \in Tasks, UpdatePrice(t), InFlight(t)'
       PROVE  Accounted(Lost, idx)'
  <2>1. /\ UNCHANGED <<history, errors, kills, drops>> /\ InFlight(t)
        /\ \A u \in Tasks \ {t} : cycle'[u] = cycle[u]
        /\ cycle'[t].row = cycle[t].row /\ cycle'[t].previous = cycle[t].previous
        /\ cycle'[t].active = cycle[t].active /\ cycle'[t].at = cycle[t].at
    BY <1>10, <1>1 DEF UpdatePrice, InFlight, At, CycleFields
  <2>2. \A u \in Tasks : (InFlight(u)' <=> InFlight(u)) /\ EntryOf(u)' = EntryOf(u) /\ cycle'[u].row = cycle[u].row
    BY <1>10, <2>1 DEF InFlight, EntryOf
  <2> QED
    BY <2>1, <2>2 DEF Accounted
<1>11. ASSUME NEW t \in Tasks, CycleError(t)
       PROVE  \E L, i : Accounted(L, i)'
  <2>1. /\ UNCHANGED <<history, drops, kills>> /\ errors' = errors + 1
        /\ ~InFlight(t)' /\ \A u \in Tasks \ {t} : cycle'[u] = cycle[u]
    BY <1>11, <1>1, <1>3 DEF CycleError, InFlight, IdleCycle
  <2>2. PICK L : L = Lost \cup {<<cycle[t].row, idx[t]>>}
    OBVIOUS
  <2>3. /\ IsFiniteSet(L) /\ Cardinality(L) <= errors' + 2 * kills
    <3>1. IsFiniteSet(Lost) /\ Cardinality(Lost) \in Nat /\ Cardinality(Lost) <= errors + 2 * kills
      BY FS_CardinalityType DEF Accounted
    <3>2. IsFiniteSet(L) /\ (Cardinality(L) = Cardinality(Lost) \/ Cardinality(L) = Cardinality(Lost) + 1)
      BY <3>1, <2>2, FS_AddElement
    <3> QED
      BY <3>1, <3>2, <2>1, <1>1
  <2>4. \A u \in Tasks \ {t} : (InFlight(u)' <=> InFlight(u)) /\ EntryOf(u)' = EntryOf(u)
    BY <2>1 DEF InFlight, EntryOf
  <2>5. ASSUME NEW l \in Listings, NEW i \in DOMAIN history[l],
               history[l][i].new < history[l][i].old, Drop(l, history[l][i]) \notin drops
        PROVE  <<l, i>> \in L \/ \E u \in Tasks : InFlight(u)' /\ cycle'[u].row = l /\ idx[u] = i
    <3>1. <<l, i>> \in Lost \/ \E u \in Tasks : InFlight(u) /\ cycle[u].row = l /\ idx[u] = i
      BY <2>5 DEF Accounted
    <3> QED
      BY <3>1, <2>1, <2>2, <2>4
  <2>6. Accounted(L, idx)'
    BY <2>1, <2>3, <2>4, <2>5 DEF Accounted
  <2> QED
    BY <2>6
<1>12. ASSUME NEW t \in Tasks, RunCycle(t), ~InsertHistory(t), ~UpdatePrice(t), ~PublishDrop(t), ~CycleError(t)
       PROVE  \E L, i : Accounted(L, i)'
  <2>1. Only(t)
    BY <1>12, <1>1, RunCycleTyped
  <2>2. UNCHANGED <<history, drops, errors, kills>>
    BY <1>12 DEF RunCycle, ResolveCycleIds, FetchActive, FetchDelisted, MarkDelisted, MarkRelisted,
       FetchPreviousPrices, PricesDone, ReadText, WriteText, TextsDone
  <2>3. ~InFlight(t)
    BY <1>12 DEF RunCycle, ResolveCycleIds, FetchActive, FetchDelisted, MarkDelisted, MarkRelisted,
       FetchPreviousPrices, PricesDone, ReadText, WriteText, TextsDone, InFlight, At
  <2>4. ~InFlight(t)'
    <3>1. CASE FetchPreviousPrices(t)
      <4>1. PICK previous : cycle' = [cycle EXCEPT ![t].stage = "price", ![t].previous = previous]
        BY <3>1 DEF FetchPreviousPrices
      <4> QED
        BY <4>1, <1>1 DEF CycleFields, InFlight
    <3>2. CASE ReadText(t)
      <4>1. PICK l, w : \/ cycle' = [cycle EXCEPT ![t].todo = @ \ {l}] /\ At(t, "text")
                        \/ cycle' = [cycle EXCEPT ![t].stage = "writeText", ![t].row = w]
        BY <3>2 DEF ReadText
      <4> QED
        BY <4>1, <1>1 DEF CycleFields, At, InFlight
    <3>3. CASE ResolveCycleIds(t) \/ FetchActive(t) \/ FetchDelisted(t) \/ MarkDelisted(t) \/ MarkRelisted(t)
      BY <3>3, <1>1 DEF ResolveCycleIds, FetchActive, FetchDelisted, MarkDelisted, MarkRelisted, Enter,
         CycleFields, InFlight
    <3>4. CASE PricesDone(t) \/ WriteText(t)
      BY <3>4, <1>1 DEF PricesDone, WriteText, CycleFields, InFlight
    <3>5. CASE TextsDone(t)
      BY <3>5, <1>1 DEF TextsDone, CycleDone, IdleCycle, InFlight
    <3> QED
      BY <1>12, <3>1, <3>2, <3>3, <3>4, <3>5 DEF RunCycle
  <2> QED
    BY <2>1, <2>2, <2>3, <2>4, <1>2 DEF Only
<1>13. ASSUME NEW t \in Tasks, RunCycle(t)
       PROVE  \E L, i : Accounted(L, i)'
  <2>1. CASE PublishDrop(t)
    <3>1. ~InFlight(t)'
      BY <2>1, <1>1 DEF PublishDrop, CycleFields, InFlight
    <3> QED
      BY <2>1, <3>1, <1>9
  <2> QED
    BY <1>13, <2>1, <1>8, <1>9, <1>10, <1>11, <1>12
<1>14. CASE Killed
  <2>1. /\ UNCHANGED <<history, drops, errors>> /\ kills' = kills + 1
        /\ \A u \in Tasks : ~InFlight(u)'
    BY <1>14 DEF Killed, InFlight, IdleCycle
  <2>2. PICK M : M = Lost \cup {<<cycle["message"].row, idx["message"]>>}
    OBVIOUS
  <2>3. PICK L : L = M \cup {<<cycle["fallback"].row, idx["fallback"]>>}
    OBVIOUS
  <2>4. IsFiniteSet(L) /\ Cardinality(L) <= errors + 2 * (kills + 1)
    <3>1. IsFiniteSet(Lost) /\ Cardinality(Lost) \in Nat /\ Cardinality(Lost) <= errors + 2 * kills
      BY FS_CardinalityType DEF Accounted
    <3>2. IsFiniteSet(M) /\ (Cardinality(M) = Cardinality(Lost) \/ Cardinality(M) = Cardinality(Lost) + 1)
      BY <3>1, <2>2, FS_AddElement
    <3>3. IsFiniteSet(L) /\ (Cardinality(L) = Cardinality(M) \/ Cardinality(L) = Cardinality(M) + 1)
      BY <3>2, <2>3, FS_AddElement
    <3> QED
      BY <3>1, <3>2, <3>3, <1>1
  <2>5. ASSUME NEW l \in Listings, NEW i \in DOMAIN history[l],
               history[l][i].new < history[l][i].old, Drop(l, history[l][i]) \notin drops
        PROVE  <<l, i>> \in L
    <3>1. <<l, i>> \in Lost \/ \E u \in Tasks : InFlight(u) /\ cycle[u].row = l /\ idx[u] = i
      BY <2>5 DEF Accounted
    <3> QED
      BY <3>1, <2>2, <2>3 DEF Tasks
  <2>6. Accounted(L, idx)'
    BY <2>1, <2>4, <2>5 DEF Accounted
  <2> QED
    BY <2>6
<1>15. CASE Redelivered
  <2>1. At("message", "idle") /\ StartCycle("message", event.at, event.ids)
        /\ UNCHANGED <<history, drops, errors, kills>>
    BY <1>15 DEF Redelivered
  <2> QED
    BY <2>1, <1>2, <1>3 DEF InFlight, At, Tasks
<1> QED
  BY <1>4, <1>5, <1>6, <1>7, <1>13, <1>14, <1>15 DEF DetectorStep

\* The detector's cycles, or none while another worker is explored.
DetectInv ==
  /\ worker = "detect" => /\ DetectTyped /\ EventHeld
                          /\ \A t \in Tasks : CycleExact(t)
                          /\ \E Lost, idx : Accounted(Lost, idx)
  /\ worker # "detect" => /\ cycle = [t \in Tasks |-> IdleCycle]
                          /\ history = [l \in Listings |-> <<>>]
                          /\ errors = 0 /\ kills = 0

\* Every step of the change detector keeps its invariant.
LEMMA DetectInvStep ==
  ASSUME Basics, DetectInv, DetectChanges \/ Time
  PROVE  Basics' /\ DetectInv' /\ scope' = scope /\ worker = "detect"
<1> USE DEF Basics
<1>1. worker = "detect" /\ scope' = scope /\ UNCHANGED broker
  BY DEF DetectChanges, Time
<1>1a. worker' = worker /\ scope' \in Scope
  BY <1>1 DEF worker
<1>2. /\ DetectTyped /\ EventHeld
      /\ \A t \in Tasks : CycleExact(t)
      /\ \E Lost, idx : Accounted(Lost, idx)
  BY <1>1 DEF DetectInv
<1>3. BrokerOK'
  BY <1>1 DEF BrokerOK, BrokerTypeOK, broker, Busy
<1>4. CASE DetectChanges
  <2>1. DetectorStep
    BY <1>4 DEF DetectChanges
  <2>2. DetectTyped' /\ Rewrites
    BY <2>1, <1>1, <1>2, DetectTypedStep
  <2>3. EventHeld' /\ \A t \in Tasks : CycleExact(t)'
    BY <2>1, <1>1, <1>2, EventHeldStep, ExactStep
  <2>4. \E L, i : Accounted(L, i)'
    BY <2>1, <1>1, <1>2, AccountedStep
  <2>5. RowsOK'
    BY <2>2, RewritesStep
  <2> QED
    BY <1>1, <1>1a, <1>3, <2>2, <2>3, <2>4, <2>5 DEF DetectInv
<1>5. CASE Time
  <2>1. now' = now + Hours /\ UNCHANGED <<rows, upserts, normalized, detector>>
    BY <1>5 DEF Time, Tick
  <2>2. UNCHANGED <<cycle, event, history, drops, touched, errors, kills>>
    BY <2>1 DEF detector
  <2>3. RowsOK' /\ Stored' = Stored
    <3>1. Rewrites
      BY <2>1, <1>1 DEF Rewrites, RowsOK, broker
    <3> QED
      BY <3>1, RewritesStep
  <2>4. DetectTyped'
    <3>1. \A t \in Tasks : CycleTyped(t)'
      BY <2>2, <2>3, <1>2, CycleStays DEF DetectTyped
    <3> QED
      BY <2>1, <2>2, <2>3, <3>1, <1>2, HoursAssumption DEF DetectTyped
  <2>5. EventHeld'
    BY <2>2, <1>2 DEF EventHeld, At
  <2>6. \A t \in Tasks : CycleExact(t)'
    BY <2>1, <2>2, <2>3, <1>2, ExactStays DEF SameStatus
  <2>7. \E L, i : Accounted(L, i)'
    BY <2>2, <1>2, AccountedStays
  <2> QED
    BY <1>1, <1>1a, <1>3, <2>3, <2>4, <2>5, <2>6, <2>7 DEF DetectInv
<1> QED
  BY <1>4, <1>5

\* The normalizer disturbs every cycle, and adds rows that no cycle has read.
LEMMA DetectNormalize ==
  ASSUME Basics, DetectInv, NEW l, NEW price, Stores(l, price)
  PROVE  DetectInv'
<1> USE DEF Basics
<1>1. /\ l \in Listings /\ price \in Prices /\ Stored' = Stored \cup {l}
      /\ \A k \in Listings \ {l} : rows'[k] = rows[k]
      /\ l \notin Stored => rows'[l] = NewRow(l, Len(upserts) + 1, price)
      /\ l \in Stored => rows'[l] = Refreshed(l, Len(upserts) + 1, price)
      /\ UNCHANGED <<scope, cycle, event, history, drops, errors, kills>>
      /\ Touch(Tasks)
      /\ now' = now
  BY DEF Stores, Upsert
<1>1a. worker' = worker
  BY <1>1 DEF worker
<1>2. CASE worker # "detect"
  BY <1>1, <1>1a, <1>2 DEF DetectInv
<1>3. CASE worker = "detect"
  <2>1. /\ DetectTyped /\ EventHeld
        /\ \A t \in Tasks : CycleExact(t)
        /\ \E Lost, idx : Accounted(Lost, idx)
    BY <1>3 DEF DetectInv
  <2>2. rows'[l].status \in {"active", "delisted"} /\ rows'[l].price \in Prices
    <3>1. CASE l \in Stored
      <4>1. RowFor(l) /\ rows[l].status \in {"active", "delisted"}
        BY <3>1, <2>1 DEF DetectTyped, Stored, RowsOK
      <4> QED
        BY <3>1, <4>1, <1>1 DEF Refreshed, RowFor, RowColumns
    <3>2. CASE l \notin Stored
      BY <3>2, <1>1 DEF NewRow
    <3> QED
      BY <3>1, <3>2
  <2>3. touched' = [t \in Tasks |-> touched'[t]]
    BY <1>1 DEF Touch
  <2>4. DetectTyped'
    <3>1. \A t \in Tasks : CycleTyped(t)'
      BY <2>1, <1>1, CycleStays DEF DetectTyped
    <3>2. \A k \in Stored' : rows'[k].status \in {"active", "delisted"} /\ rows'[k].price \in Prices
      BY <2>1, <2>2, <1>1 DEF DetectTyped, Stored
    <3> QED
      BY <2>1, <2>3, <3>1, <3>2, <1>1 DEF DetectTyped
  <2>5. EventHeld'
    BY <2>1, <1>1 DEF EventHeld, At
  <2>6. ASSUME NEW t \in Tasks
        PROVE  CycleExact(t)'
    <3>1. touched'[t] \/ At(t, "idle")
      BY <1>1 DEF Touch, At
    <3> QED
      BY <3>1, <1>1 DEF CycleExact, At
  <2>7. \E L, i : Accounted(L, i)'
    BY <2>1, <1>1, AccountedStays
  <2> QED
    BY <1>1, <1>1a, <1>3, <2>4, <2>5, <2>6, <2>7 DEF DetectInv
<1> QED
  BY <1>2, <1>3

\* The properties follow from the invariant of the change detector.
LEMMA DetectProperties ==
  ASSUME DetectInv
  PROVE  UndisturbedCycleExact /\ LostDropNeedsFault
<1>1. CASE worker = "detect"
  <2>1. UndisturbedCycleExact
    BY <1>1 DEF DetectInv, CycleExact, UndisturbedCycleExact
  <2> QED
    BY <1>1, <2>1, AccountedProperty DEF DetectInv
<1>2. CASE worker # "detect"
  <2>1. UndisturbedCycleExact
    BY <1>2 DEF DetectInv, UndisturbedCycleExact, At, IdleCycle
  <2>2. Unannounced = {}
    <3>1. \A l \in Listings : DOMAIN history[l] = {}
      BY <1>2 DEF DetectInv
    <3> QED
      BY <3>1 DEF Unannounced
  <2> QED
    BY <1>2, <2>1, <2>2, FS_EmptySet DEF DetectInv, LostDropNeedsFault
<1> QED
  BY <1>1, <1>2

-----------------------------------------------------------------------------
(* The composition                                                          *)

\* What each worker keeps while it is explored beside the normalizer.
PipelineInv ==
  /\ Basics
  /\ NothingAnnounced
  /\ DedupInv
  /\ EnrichInv
  /\ ScoreInv
  /\ DetectInv

\* The pipeline starts in the invariant.
LEMMA PipelineInit ==
  ASSUME Init
  PROVE  PipelineInv
<1> USE PodsAssumption, RetryAssumption, BoundsAssumption
    DEF Init, RowsInit, BrokerInit, DedupInit, EnricherInit, ScoringInit, DetectorInit
<1>1. BrokerOK
  BY DEF BrokerOK, BrokerTypeOK, NoOffset, Loop, Messages, Busy
<1>2. /\ Stored = {} /\ RowsOK /\ scope \in Scope
  BY DEF Stored, RowsOK, NoRow
<1>3. ASSUME NEW D
      PROVE  SettledBehind(D)
  BY DEF SettledBehind, NoOffset
<1>4. NothingAnnounced
  BY DEF NothingAnnounced
<1>5. DedupInv
  BY <1>2, <1>3 DEF DedupInv, GroupsOK, Roots, Neighbours, OneCountry
<1>6. EnrichInv
  <2>1. Scraped
    BY <1>2 DEF Scraped
  <2>2. WorkOK
    BY DEF WorkOK, NoWork, Working
  <2> QED
    BY <2>1, <2>2, <1>3 DEF EnrichInv, AnnouncedYears
<1>7. ScoreInv
  <2>1. \A p \in Pods : /\ DOMAIN scoring[p] = {"stage", "price"} /\ DOMAIN rpc[p] = {"stage", "price"}
                        /\ scoring[p].stage = "none" /\ rpc[p].stage = "none"
    BY DEF Free
  <2>2. \A i \in Ids : DOMAIN Task(i) = {"stage", "price"} /\ Task(i).stage = "none" /\ Held(Task(i)) = {}
    BY <2>1 DEF Ids, Task, Held
  <2>3. TasksOK
    BY <2>2 DEF TasksOK, Published
  <2>4. HandsOK
    BY <2>1 DEF HandsOK
  <2>5. UnnamedAgree
    BY DEF UnnamedAgree, Agree
  <2> QED
    BY <2>3, <2>4, <2>5, <1>3 DEF ScoreInv
<1>8. DetectInv
  <2>1. \A t \in Tasks : /\ cycle[t].stage = "idle" /\ cycle[t].at = 0 /\ cycle[t].delisted = {}
                         /\ cycle[t].todo = {} /\ DOMAIN cycle[t] = CycleFields
                         /\ DOMAIN cycle[t].active = {} /\ DOMAIN cycle[t].previous = {}
    BY DEF IdleCycle, CycleFields
  <2>2. DetectTyped
    BY <2>1, <1>2 DEF DetectTyped, CycleTyped, Active, At, NoEvent
  <2>3. EventHeld
    BY <2>1 DEF EventHeld, NoEvent, At, Tasks
  <2>4. \A t \in Tasks : CycleExact(t)
    BY <2>1 DEF CycleExact, At
  <2>5. Accounted({}, [t \in Tasks |-> 0])
    BY <2>1, FS_EmptySet DEF Accounted, InFlight
  <2> QED
    BY <2>2, <2>3, <2>4, <2>5 DEF DetectInv
<1> QED
  BY <1>1, <1>2, <1>4, <1>5, <1>6, <1>7, <1>8 DEF PipelineInv, Basics

\* An upsert disturbs none of them.
LEMMA PipelineNormalize ==
  ASSUME PipelineInv, Normalize
  PROVE  PipelineInv'
<1> USE DEF PipelineInv
<1>1. PICK l, price : Stores(l, price)
  BY NormalizeStores
<1>2. Basics' /\ scope' = scope /\ enriched' = enriched
  BY <1>1 DEF Stores
<1>3. worker' = worker
  BY <1>2 DEF worker
<1>4. NothingAnnounced'
  BY <1>2, <1>3 DEF NothingAnnounced
<1>5. DedupInv'
  BY <1>1, <1>3, DedupNormalize DEF DedupInv
<1>6. EnrichInv'
  BY <1>1, <1>3, EnrichNormalize DEF EnrichInv
<1>7. ScoreInv'
  BY <1>1, <1>3, ScoreNormalize DEF ScoreInv
<1>8. DetectInv'
  BY <1>1, DetectNormalize
<1> QED
  BY <1>2, <1>4, <1>5, <1>6, <1>7, <1>8

\* Nor does its message.
LEMMA PipelineAnnounce ==
  ASSUME PipelineInv, Announce
  PROVE  PipelineInv'
<1> USE DEF PipelineInv
<1>1. PICK id : Announces(id)
  BY AnnounceAnnounces
<1>2. Basics' /\ scope' = scope /\ enriched' = enriched /\ worker # "detect" /\ UNCHANGED detector
  BY <1>1 DEF Announces
<1>3. worker' = worker
  BY <1>2 DEF worker
<1>4. NothingAnnounced'
  BY <1>2, <1>3 DEF NothingAnnounced
<1>5. DedupInv'
  BY <1>1, <1>3, DedupAnnounce DEF DedupInv
<1>6. EnrichInv'
  BY <1>1, <1>3, EnrichAnnounce DEF EnrichInv
<1>7. ScoreInv'
  BY <1>1, <1>3, ScoreAnnounce DEF ScoreInv
<1>8. DetectInv'
  BY <1>2, <1>3 DEF DetectInv, detector
<1> QED
  BY <1>2, <1>4, <1>5, <1>6, <1>7, <1>8

\* A step of one worker keeps its own invariant; the others are not explored.
LEMMA PipelineStep ==
  ASSUME PipelineInv, Next
  PROVE  PipelineInv'
<1> USE DEF PipelineInv
<1>1. CASE Normalize
  BY <1>1, PipelineNormalize
<1>1a. CASE Announce
  BY <1>1a, PipelineAnnounce
<1>2. ASSUME worker # "enrich", enriched' = enriched, worker' = worker
      PROVE  NothingAnnounced'
  BY <1>2 DEF NothingAnnounced
<1>3. ASSUME worker # "detect", UNCHANGED detector, worker' = worker
      PROVE  DetectInv'
  BY <1>3 DEF DetectInv, detector
<1>4. CASE Deduplicate
  <2>1. Basics' /\ DedupInv' /\ scope' = scope /\ worker = "dedup"
    BY <1>4, DedupInvStep
  <2>1a. worker' = worker
    BY <2>1 DEF worker
  <2>2. enriched' = enriched /\ UNCHANGED detector
    BY <1>4 DEF Deduplicate
  <2> QED
    BY <2>1, <2>1a, <2>2, <1>2, <1>3 DEF EnrichInv, ScoreInv
<1>5. CASE Enrich
  <2>1. Basics' /\ EnrichInv' /\ scope' = scope /\ worker = "enrich"
    BY <1>5, EnrichInvStep
  <2>1a. worker' = worker
    BY <2>1 DEF worker
  <2>2. UNCHANGED detector
    BY <1>5 DEF Enrich
  <2> QED
    BY <2>1, <2>1a, <2>2, <1>3 DEF DedupInv, ScoreInv, NothingAnnounced
<1>6. CASE Score
  <2>1. Basics' /\ ScoreInv' /\ scope' = scope /\ worker = "score"
    BY <1>6, ScoreInvStep
  <2>1a. worker' = worker
    BY <2>1 DEF worker
  <2>2. enriched' = enriched /\ UNCHANGED detector
    BY <1>6 DEF Score
  <2> QED
    BY <2>1, <2>1a, <2>2, <1>2, <1>3 DEF DedupInv, EnrichInv
<1>7. CASE DetectChanges \/ Time
  <2>1. Basics' /\ DetectInv' /\ scope' = scope /\ worker = "detect"
    BY <1>7, DetectInvStep
  <2>1a. worker' = worker
    BY <2>1 DEF worker
  <2>2. enriched' = enriched
    BY <1>7 DEF DetectChanges, Time
  <2> QED
    BY <2>1, <2>1a, <2>2, <1>2 DEF DedupInv, EnrichInv, ScoreInv
<1> QED
  BY <1>1, <1>1a, <1>4, <1>5, <1>6, <1>7 DEF Next

\* The invariant speaks of the variables of the pipeline only.
LEMMA PipelineStutter ==
  ASSUME PipelineInv, UNCHANGED vars
  PROVE  PipelineInv'
<1> USE DEF PipelineInv
<1>1. UNCHANGED <<rows, upserts, normalized, now, broker, found, stale, work, enriched, score, announced, scoring,
                  rpc, crossed, broken, cycle, event, history, drops, touched, errors, kills, scope>>
  BY DEF vars, table, scorer, results, detector
<1>2. UNCHANGED <<logEnd, committed, owner, generation, pc, pos, cur, taken, attempt, dead, base, faults>>
  BY <1>1 DEF broker
<1>2a. worker' = worker
  BY <1>1 DEF worker
<1>3. /\ Basics' /\ Stored' = Stored
      /\ \A m : Reached(m)' = Reached(m)
      /\ \A m : ListingOf(m)' = ListingOf(m)
  <2>1. RowsOK' /\ Stored' = Stored /\ \A m : Reached(m)' = Reached(m)
    BY <1>1, <1>2, SameRows, RewritesStep DEF Basics, table
  <2>2. \A m : ListingOf(m)' = ListingOf(m)
    BY <1>1 DEF ListingOf
  <2> QED
    BY <1>1, <1>2, <2>1, <2>2 DEF Basics, BrokerOK, BrokerTypeOK
<1>4. ASSUME NEW D, NEW E, SettledBehind(D), D = E
      PROVE  SettledBehind(E)'
  BY <1>2, <1>4 DEF SettledBehind, Current, Mine
<1>5. NothingAnnounced'
  BY <1>1, <1>2a DEF NothingAnnounced
<1>6. DedupInv'
  <2>1. PICK E : E = Deduplicated'
    OBVIOUS
  <2>2. Deduplicated = E
    BY <2>1, <1>1, <1>2, <1>3 DEF Deduplicated, Grouped
  <2>3. SettledBehind(Deduplicated) => SettledBehind(Deduplicated)'
    <3>1. SettledBehind(Deduplicated) => SettledBehind(E)'
      BY <2>2, <1>4
    <3> QED
      BY <2>1, <3>1 DEF SettledBehind
  <2>4. GroupsOK => GroupsOK'
    BY <1>1, <1>3 DEF GroupsOK, Roots, Neighbours, OneCountry, Grouped
  <2>5. Asymmetric' <=> Asymmetric
    BY DEF Asymmetric
  <2> QED
    BY <1>1, <1>2a, <2>3, <2>4, <2>5 DEF DedupInv
<1>7. EnrichInv'
  <2>1. PICK E : E = Enriched_'
    OBVIOUS
  <2>2. Enriched_ = E
    BY <2>1, <1>1, <1>2, <1>3 DEF Enriched_
  <2>3. SettledBehind(Enriched_) => SettledBehind(Enriched_)'
    <3>1. SettledBehind(Enriched_) => SettledBehind(E)'
      BY <2>2, <1>4
    <3> QED
      BY <2>1, <3>1 DEF SettledBehind
  <2>4. (Scraped => Scraped') /\ (AnnouncedYears => AnnouncedYears')
    BY <1>1, <1>3 DEF Scraped, AnnouncedYears, Official
  <2>5. WorkOK => WorkOK'
    <3>1. \A p \in Pods : /\ Columns(p)' = Columns(p) /\ Reached(cur[p])' = Reached(cur[p])
                          /\ Working(p, "publish")' <=> Working(p, "publish")
      BY <1>1, <1>2, <1>3 DEF Columns, Working
    <3>2. \A l \in Listings : Official(l)' <=> Official(l)
      BY <1>1 DEF Official
    <3> QED
      BY <1>1, <3>1, <3>2 DEF WorkOK, Reached, RowOf, Stored
  <2> QED
    BY <1>1, <1>2a, <2>3, <2>4, <2>5 DEF EnrichInv
<1>8. ScoreInv'
  <2>1. \A i \in Ids : Task(i)' = Task(i) /\ Held(Task(i))' = Held(Task(i))
    BY <1>1 DEF Task, Held
  <2>2. \A i \in Ids, l \in Listings : Published(i, l)' <=> Published(i, l)
    BY <2>1 DEF Published
  <2>3. \A l \in Listings : Agree(l)' <=> Agree(l)
    BY <1>1, <2>2 DEF Agree
  <2>4. TasksOK => TasksOK'
    BY <1>1, <1>3, <2>1, <2>2 DEF TasksOK
  <2>5. HandsOK => HandsOK'
    <3>1. \A p \in Pods : Reached(cur[p])' = Reached(cur[p]) /\ Held(scoring[p])' = Held(scoring[p])
      BY <1>1, <1>2, <1>3 DEF Held
    <3> QED
      BY <1>1, <1>2, <3>1 DEF HandsOK
  <2>6. PICK E : E = Announced_'
    OBVIOUS
  <2>7. Announced_ = E
    <3>1. \A m : Reached(m) \subseteq Listings
      BY DEF Reached, RowOf, Stored
    <3> QED
      BY <2>3, <2>6, <3>1, <1>2, <1>3 DEF Announced_
  <2>8. SettledBehind(Announced_) => SettledBehind(Announced_)'
    <3>1. SettledBehind(Announced_) => SettledBehind(E)'
      BY <2>7, <1>4
    <3> QED
      BY <2>6, <3>1 DEF SettledBehind
  <2>9. UnnamedAgree => UnnamedAgree'
    BY <1>2, <1>3, <2>3 DEF UnnamedAgree
  <2> QED
    BY <1>1, <1>2a, <2>4, <2>5, <2>8, <2>9 DEF ScoreInv
<1>9. DetectInv'
  <2>1. DetectTyped => DetectTyped'
    <3>1. \A t \in Tasks : CycleTyped(t) => CycleTyped(t)'
      BY <1>1, <1>3, CycleStays
    <3> QED
      BY <1>1, <1>3, <3>1 DEF DetectTyped
  <2>2. EventHeld => EventHeld'
    BY <1>1 DEF EventHeld, At
  <2>3. \A t \in Tasks : CycleExact(t) => CycleExact(t)'
    BY <1>1, <1>3, ExactStays DEF SameStatus
  <2>4. \A Lost, idx : Accounted(Lost, idx) => Accounted(Lost, idx)'
    BY <1>1, AccountedStays
  <2> QED
    BY <1>1, <1>2a, <2>1, <2>2, <2>3, <2>4 DEF DetectInv
<1> QED
  BY <1>3, <1>5, <1>6, <1>7, <1>8, <1>9

\* Whichever worker is explored, it keeps its own invariant, and the rows and the
\* consume loop keep theirs; the others have done nothing.
THEOREM PipelineInvariant == Spec => []PipelineInv
<1>1. Init => PipelineInv
  BY PipelineInit
<1>2. PipelineInv /\ [Next]_vars => PipelineInv'
  BY PipelineStep, PipelineStutter
<1> QED
  BY <1>1, <1>2, PTL DEF Spec

\* Two matching listings, both resolved, are in one group - for any listings and
\* countries, matches, pods, faults and order of messages.  Only rows of one country
\* match, and a group never reaches beyond a country.
THEOREM DedupGroups == Spec => []MatchesShareCanonical
<1>1. PipelineInv => MatchesShareCanonical
  BY DedupProperty DEF PipelineInv
<1> QED
  BY <1>1, PipelineInvariant, PTL

\* A row behind the enricher's offset is pending only when its message was given up
\* or skipped, or when the uuid of its first upsert was never published.
THEOREM EnrichmentComes == Spec => []PendingNeedsCause
<1>1. PipelineInv => PendingNeedsCause
  BY EnrichProperties DEF PipelineInv
<1> QED
  BY <1>1, PipelineInvariant, PTL

\* The announced year of construction is the row's, unless the listing was stored
\* again, by a later scrape or by another attempt at the same one.
THEOREM YearStays == Spec => []YearLostToScrape
<1>1. PipelineInv => YearLostToScrape
  BY EnrichProperties DEF PipelineInv
<1> QED
  BY <1>1, PipelineInvariant, PTL

\* The score in the table is the one on the topic, in spite of crashes, failures
\* and redeliveries.
THEOREM ScoresAgree == Spec => []TableAgreesWithTopic
<1>1. PipelineInv => TableAgreesWithTopic
  BY ScoreProperty DEF PipelineInv
<1> QED
  BY <1>1, PipelineInvariant, PTL

\* A cycle that nobody disturbed marks exactly what it saw.
THEOREM MarksExact == Spec => []UndisturbedCycleExact
<1>1. PipelineInv => UndisturbedCycleExact
  BY DetectProperties DEF PipelineInv
<1> QED
  BY <1>1, PipelineInvariant, PTL

\* There are no more unannounced drops than failed calls and two for each kill, which
\* may find both cycles between price_history and price-changes.
THEOREM DropsAccounted == Spec => []LostDropNeedsFault
<1>1. PipelineInv => LostDropNeedsFault
  BY DetectProperties DEF PipelineInv
<1> QED
  BY <1>1, PipelineInvariant, PTL

=============================================================================
