------------------------- MODULE KafkaConsumerProofs -------------------------
(***************************************************************************)
(* Proofs about KafkaConsumer for every number of readers, pods, messages, *)
(* retries and faults: no committed offset ever passes an unsettled        *)
(* message, who works on a message has the earlier ones settled, and the   *)
(* runtime implements the safety part of AtLeastOnce.                      *)
(***************************************************************************)
EXTENDS KafkaConsumer, TLAPS

\* Every offset lies within the log, and what is in hand is a message.
Bounded ==
  /\ committed <= logEnd
  /\ base <= logEnd
  /\ committed # NoOffset => committed >= 1
  /\ \A r \in Readers :
       /\ pos[r] <= logEnd
       /\ stash[r] <= logEnd
       /\ stash[r] # NoOffset => stash[r] >= 1
       /\ pc[r] \in Busy => cur[r] >= 1 /\ cur[r] <= logEnd

\* What a reader is about to commit is settled.
CommitSettled == \A r \in Readers : pc[r] = "commit" => Settled(cur[r])

\* The owner runs, and it has skipped nothing: what it fetched is settled or in
\* its hands.
OwnerSkipsNothing ==
  \A r \in Readers : owner = r =>
    /\ pc[r] # "stopped"
    /\ \A m \in 1..pos[r] : Settled(m) \/ (pc[r] \in Busy /\ m = cur[r])

Basics == TypeOK /\ Bounded

IInv ==
  /\ Basics
  /\ CommittedSettled
  /\ EarlierSettled
  /\ CommitSettled
  /\ OwnerSkipsNothing

-----------------------------------------------------------------------------
\* Types and bounds: the message in hand is a published one.
LEMMA BasicsInvariant == Spec => []Basics
<1> USE ReadersAssumption, RetriesAssumption, BoundsAssumption
    DEF Basics, TypeOK, Bounded, Offsets, Messages, Stages, Busy, NoOffset
<1>1. Init => Basics
  BY DEF Init
<1>2. Basics /\ [Next]_vars => Basics'
  <2> SUFFICES ASSUME Basics, [Next]_vars PROVE Basics'
    OBVIOUS
  <2> USE DEF group, outcomes, history
  <2>1. CASE Publish
    BY <2>1 DEF Publish
  <2>2. ASSUME NEW p \in Processes, StartPod(p) PROVE Basics'
    BY <2>2 DEF StartPod
  <2>3. ASSUME NEW p \in Processes, Crash(p) PROVE Basics'
    BY <2>3 DEF Crash, Fault
  <2>4. ASSUME NEW p \in Processes, Terminate(p) PROVE Basics'
    BY <2>4 DEF Terminate, Fault
  <2>5. ASSUME NEW r \in Readers, ReaderStep(r) PROVE Basics'
    <3>1. CASE Assign(r)
      BY <3>1 DEF Assign, AssignTo
    <3>2. CASE Rebalance(r)
      BY <3>2 DEF Rebalance, AssignTo, Fault
    <3>3. CASE Flush(r)
      BY <3>3 DEF Flush
    <3>4. CASE Fetch(r)
      BY <3>4 DEF Fetch, Goto
    <3>5. CASE FetchCancelled(r)
      BY <3>5 DEF FetchCancelled, Return, Goto
    <3>6. CASE FetchError(r)
      BY <3>6 DEF FetchError, ReturnError, Return, Goto, Fault
    <3>7. CASE HandleOk(r)
      <4>1. cur[r] \in 1..MaxMessages
        BY <3>7 DEF HandleOk
      <4>2. handled' \subseteq 1..MaxMessages
        BY <4>1, <3>7 DEF HandleOk
      <4> QED
        BY <4>2, <3>7 DEF HandleOk, Goto
    <3>8. CASE HandleError(r)
      BY <3>8 DEF HandleError, Goto
    <3>9. CASE DeadLetter(r)
      <4>1. cur[r] \in 1..MaxMessages
        BY <3>9 DEF DeadLetter
      <4>2. dead' \subseteq 1..MaxMessages
        BY <4>1, <3>9 DEF DeadLetter
      <4> QED
        BY <4>2, <3>9 DEF DeadLetter, Goto
    <3>10. CASE DeadLetterError(r)
      BY <3>10 DEF DeadLetterError, ReturnError, Return, Goto, Fault
    <3>11. CASE Commit(r)
      BY <3>11 DEF Commit, Goto
    <3>12. CASE CommitCancelled(r)
      BY <3>12 DEF CommitCancelled, ReturnError, Return, Goto
    <3> QED
      BY <2>5, <3>1, <3>2, <3>3, <3>4, <3>5, <3>6, <3>7, <3>8, <3>9, <3>10, <3>11, <3>12
      DEF ReaderStep
  <2>6. CASE UNCHANGED vars
    BY <2>6 DEF vars
  <2> QED
    BY <2>1, <2>2, <2>3, <2>4, <2>5, <2>6 DEF Next, PodStep
<1> QED
  BY <1>1, <1>2, PTL DEF Spec

\* The state of the model always has its type.
THEOREM TypeCorrect == Spec => []TypeOK
<1>1. Basics => TypeOK
  BY DEF Basics
<1> QED
  BY <1>1, BasicsInvariant, PTL

-----------------------------------------------------------------------------
\* A settled message stays settled: the outcomes only grow, and the start of
\* consumption only moves forward.
LEMMA SettledStays ==
  ASSUME Basics, [Next]_vars
  PROVE  \A m \in Nat : Settled(m) => Settled(m)'
<1> USE DEF Basics, TypeOK, Bounded, Offsets, NoOffset, Settled, Resolved,
            group, outcomes, history
<1> SUFFICES base <= base' /\ handled \subseteq handled' /\ dead \subseteq dead'
             /\ base' \in Int
  BY BoundsAssumption
<1>1. CASE Publish
  BY <1>1, BoundsAssumption DEF Publish
<1>2. ASSUME NEW p \in Processes, PodStep(p)
      PROVE  base' = base /\ handled' = handled /\ dead' = dead
  BY <1>2 DEF PodStep, StartPod, Crash, Terminate
<1>3. ASSUME NEW r \in Readers, Assign(r) \/ Rebalance(r)
      PROVE  base <= base' /\ handled' = handled /\ dead' = dead /\ base' \in Int
  BY <1>3, BoundsAssumption DEF Assign, Rebalance, AssignTo
<1>4. ASSUME NEW r \in Readers, ReaderStep(r), ~Assign(r), ~Rebalance(r)
      PROVE  base' = base /\ handled \subseteq handled' /\ dead \subseteq dead'
  BY <1>4 DEF ReaderStep, Flush, Fetch, FetchCancelled, FetchError, HandleOk, HandleError,
              DeadLetter, DeadLetterError, Commit, CommitCancelled, ReturnError, Return
<1>5. CASE UNCHANGED vars
  BY <1>5, BoundsAssumption DEF vars
<1> QED
  BY <1>1, <1>2, <1>3, <1>4, <1>5, BoundsAssumption DEF Next

\* The strengthening of CommittedSettled and EarlierSettled is inductive.
LEMMA InvariantStep ==
  ASSUME IInv, [Next]_vars, Basics'
  PROVE  IInv'
<1> USE ReadersAssumption, BoundsAssumption
    DEF IInv, Basics, TypeOK, Bounded, CommittedSettled, EarlierSettled, CommitSettled,
        OwnerSkipsNothing, Offsets, Stages, Busy, NoOffset, group, outcomes, history
<1>1. \A m \in Nat : Settled(m) => Settled(m)'
  BY SettledStays
<1>2. \A m \in Nat : (m <= base \/ m \in handled \/ m \in dead => Settled(m))'
  BY DEF Settled, Resolved
<1>3. IInv'
  <2>1. CASE Publish
    BY <2>1, <1>1, <1>2 DEF Publish
  <2>2. ASSUME NEW p \in Processes, StartPod(p) PROVE IInv'
    <3>1. \A r \in Readers : pc'[r] \in Busy => pc'[r] = pc[r]
      BY <2>2 DEF StartPod, ReadersOf
    <3>2. \A r \in Readers : owner = r => pc'[r] = pc[r]
      BY <2>2 DEF StartPod, ReadersOf
    <3>3. UNCHANGED <<logEnd, group, pos, cur, attempt, stash, outcomes, history, faults>>
      BY <2>2 DEF StartPod
    <3>4. CommittedSettled'
      BY <3>3, <1>1
    <3>5. EarlierSettled' /\ CommitSettled'
      BY <3>1, <3>3, <1>1
    <3>6. OwnerSkipsNothing'
      BY <3>2, <3>3, <1>1
    <3> QED
      BY <3>4, <3>5, <3>6
  <2>3. ASSUME NEW p \in Processes, Crash(p) PROVE IInv'
    <3>1. \A r \in Readers : pc'[r] \in Busy => pc'[r] = pc[r]
      BY <2>3 DEF Crash
    <3>2. \A r \in Readers : stash'[r] = stash[r] \/ stash'[r] = NoOffset
      BY <2>3 DEF Crash
    <3>3. \A r \in Readers : owner' = r => owner = r /\ pc'[r] = pc[r]
      BY <2>3 DEF Crash, ReadersOf
    <3>4. UNCHANGED <<logEnd, committed, pos, cur, attempt, outcomes, cancelled, history>>
      BY <2>3 DEF Crash
    <3>5. CommittedSettled'
      BY <3>2, <3>4, <1>1
    <3>6. EarlierSettled' /\ CommitSettled'
      BY <3>1, <3>4, <1>1
    <3>7. OwnerSkipsNothing'
      BY <3>3, <3>4, <1>1
    <3> QED
      BY <3>5, <3>6, <3>7
  <2>4. ASSUME NEW p \in Processes, Terminate(p) PROVE IInv'
    BY <2>4, <1>1, <1>2 DEF Terminate
  <2>5. ASSUME NEW r \in Readers, ReaderStep(r) PROVE IInv'
    <3>1. ASSUME AssignTo(r) PROVE IInv'
      <4>1. CommittedSettled'
        BY <3>1, <1>1 DEF AssignTo
      <4>2. EarlierSettled' /\ CommitSettled'
        BY <3>1, <1>1 DEF AssignTo
      <4>3. \A m \in 1..pos'[r] : Settled(m)'
        <5>1. CASE committed = NoOffset
          BY <5>1, <3>1, <1>2 DEF AssignTo
        <5>2. CASE committed # NoOffset
          BY <5>2, <3>1, <1>1 DEF AssignTo
        <5> QED
          BY <5>1, <5>2
      <4>4. OwnerSkipsNothing'
        BY <4>3, <3>1 DEF AssignTo
      <4> QED
        BY <4>1, <4>2, <4>4
    <3>2. CASE Assign(r) \/ Rebalance(r)
      BY <3>1, <3>2 DEF Assign, Rebalance
    <3>3. CASE Flush(r)
      BY <3>3, <1>1, <1>2 DEF Flush
    <3>4. CASE Fetch(r)
      BY <3>4, <1>1, <1>2 DEF Fetch, Goto
    <3>5. CASE FetchCancelled(r)
      BY <3>5, <1>1, <1>2 DEF FetchCancelled, Return, Goto
    <3>6. CASE FetchError(r)
      BY <3>6, <1>1, <1>2 DEF FetchError, ReturnError, Return, Goto
    <3>7. CASE HandleOk(r)
      <4>1. cur[r] \in Nat /\ Settled(cur[r])'
        BY <3>7, <1>2 DEF HandleOk
      <4>2. CommittedSettled'
        BY <3>7, <1>1 DEF HandleOk
      <4>3. EarlierSettled'
        BY <3>7, <1>1 DEF HandleOk, Goto
      <4>4. CommitSettled'
        BY <3>7, <4>1, <1>1 DEF HandleOk, Goto
      <4>5. OwnerSkipsNothing'
        BY <3>7, <1>1 DEF HandleOk, Goto
      <4> QED
        BY <4>2, <4>3, <4>4, <4>5
    <3>8. CASE HandleError(r)
      BY <3>8, <1>1, <1>2 DEF HandleError, Goto
    <3>9. CASE DeadLetter(r)
      <4>1. cur[r] \in Nat /\ Settled(cur[r])'
        BY <3>9, <1>2 DEF DeadLetter
      <4>2. CommittedSettled'
        BY <3>9, <1>1 DEF DeadLetter
      <4>3. EarlierSettled'
        BY <3>9, <1>1 DEF DeadLetter, Goto
      <4>4. CommitSettled'
        BY <3>9, <4>1, <1>1 DEF DeadLetter, Goto
      <4>5. OwnerSkipsNothing'
        BY <3>9, <1>1 DEF DeadLetter, Goto
      <4> QED
        BY <4>2, <4>3, <4>4, <4>5
    <3>10. CASE DeadLetterError(r)
      BY <3>10, <1>1, <1>2 DEF DeadLetterError, ReturnError, Return, Goto
    <3>11. CASE Commit(r)
      BY <3>11, <1>1, <1>2 DEF Commit, Goto
    <3>12. CASE CommitCancelled(r)
      BY <3>12, <1>1, <1>2 DEF CommitCancelled, ReturnError, Return, Goto
    <3> QED
      BY <2>5, <3>1, <3>2, <3>3, <3>4, <3>5, <3>6, <3>7, <3>8, <3>9, <3>10, <3>11, <3>12
      DEF ReaderStep
  <2>6. CASE UNCHANGED vars
    BY <2>6, <1>1, <1>2 DEF vars
  <2> QED
    BY <2>1, <2>2, <2>3, <2>4, <2>5, <2>6 DEF Next, PodStep
<1> QED
  BY <1>3

LEMMA Invariant == Spec => []IInv
<1>1. Init => IInv
  <2> USE ReadersAssumption, BoundsAssumption
  <2>1. Init => Basics
    BY RetriesAssumption
    DEF Init, Basics, TypeOK, Bounded, Offsets, Messages, Stages, Busy, NoOffset
  <2>2. Init => CommittedSettled /\ EarlierSettled /\ CommitSettled /\ OwnerSkipsNothing
    BY DEF Init, CommittedSettled, EarlierSettled, CommitSettled, OwnerSkipsNothing,
           NoOffset, Busy
  <2> QED
    BY <2>1, <2>2 DEF IInv
<1>2. IInv /\ [Next]_vars /\ Basics' => IInv'
  BY InvariantStep
<1> QED
  BY <1>1, <1>2, BasicsInvariant, PTL DEF Spec

\* For any number of readers, pods, messages and faults, no committed or stashed
\* offset passes an unsettled message.
THEOREM CommittedIsSettled == Spec => []CommittedSettled
<1>1. IInv => CommittedSettled
  BY DEF IInv
<1> QED
  BY <1>1, Invariant, PTL

\* ... and no reader works on a message while an earlier one is unsettled.
THEOREM HeadOfLine == Spec => []EarlierSettled
<1>1. IInv => EarlierSettled
  BY DEF IInv
<1> QED
  BY <1>1, Invariant, PTL

-----------------------------------------------------------------------------
\* The step that moves the committed offset is an acknowledgement of settled,
\* published messages.
LEMMA CommitAcknowledges ==
  ASSUME IInv, NEW r \in Readers, stash[r] # NoOffset, committed' = stash[r],
         UNCHANGED <<logEnd, base, handled, dead>>
  PROVE  \E m \in Abs!Messages : Abs!Acknowledge(m)
<1> USE DEF IInv, Basics, TypeOK, Bounded, Offsets, NoOffset
<1>1. stash[r] \in 1..MaxMessages /\ stash[r] <= logEnd
  BY BoundsAssumption
<1>2. Abs!Covered(stash[r])
  BY DEF CommittedSettled, Settled, Resolved, Abs!Covered
<1> QED
  BY <1>1, <1>2 DEF Abs!Acknowledge, Abs!Messages

\* The runtime implements at-least-once delivery: every step of the readers, the
\* pods and the coordinator is a step of AtLeastOnce or leaves it unchanged.
THEOREM AtLeastOnceDelivery == Spec => ImplementsAtLeastOnce
<1>1. Init => Abs!Init
  BY DEF Init, Abs!Init, NoOffset
<1>2. ASSUME IInv, [Next]_vars PROVE [Abs!Next]_(Abs!vars)
  <2> USE DEF group, outcomes, history
  <2>1. CASE Publish
    BY <2>1 DEF Publish, Abs!Next, Abs!Publish
  <2>2. ASSUME NEW p \in Processes, PodStep(p) PROVE UNCHANGED Abs!vars
    BY <2>2 DEF PodStep, StartPod, Crash, Terminate, Abs!vars
  <2>3. ASSUME NEW r \in Readers, ReaderStep(r) PROVE [Abs!Next]_(Abs!vars)
    <3>1. CASE Assign(r) \/ Rebalance(r)
      <4>1. CASE committed = NoOffset
        BY <3>1, <4>1 DEF Assign, Rebalance, AssignTo, NoOffset, Abs!Next, Abs!StartAtEnd
      <4>2. CASE committed # NoOffset
        BY <3>1, <4>2 DEF Assign, Rebalance, AssignTo, Abs!vars
      <4> QED
        BY <4>1, <4>2
    <3>2. CASE Flush(r)
      BY <3>2, <1>2, CommitAcknowledges DEF Flush, Abs!Next, Abs!vars
    <3>3. ASSUME Return(r), UNCHANGED outcomes PROVE [Abs!Next]_(Abs!vars)
      BY <3>3, <1>2, CommitAcknowledges DEF Return, Abs!Next, Abs!vars
    <3>4. CASE FetchCancelled(r) \/ FetchError(r) \/ DeadLetterError(r) \/ CommitCancelled(r)
      BY <3>3, <3>4
      DEF FetchCancelled, FetchError, DeadLetterError, CommitCancelled, ReturnError
    <3>5. CASE HandleOk(r) \/ DeadLetter(r)
      <4>1. cur[r] \in Abs!Messages /\ cur[r] <= logEnd
        BY <3>5, <1>2, BoundsAssumption
        DEF HandleOk, DeadLetter, IInv, Basics, TypeOK, Bounded, Busy, Offsets, Abs!Messages
      <4>2. Abs!Handle(cur[r]) \/ Abs!GiveUp(cur[r])
        BY <3>5, <4>1 DEF HandleOk, DeadLetter, Abs!Handle, Abs!GiveUp
      <4> QED
        BY <4>1, <4>2 DEF Abs!Next
    <3>6. CASE Fetch(r) \/ HandleError(r) \/ Commit(r)
      BY <3>6 DEF Fetch, HandleError, Commit, Abs!vars
    <3> QED
      BY <2>3, <3>1, <3>2, <3>4, <3>5, <3>6 DEF ReaderStep
  <2>4. CASE UNCHANGED vars
    BY <2>4 DEF vars, Abs!vars
  <2> QED
    BY <1>2, <2>1, <2>2, <2>3, <2>4 DEF Next
<1> QED
  BY <1>1, <1>2, Invariant, PTL DEF Spec, ImplementsAtLeastOnce, Abs!Spec

=============================================================================
