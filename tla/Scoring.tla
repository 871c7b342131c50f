------------------------------ MODULE Scoring ------------------------------
(***************************************************************************)
(* How the ml scorer's results reach the listings table and the topic      *)
(* scored-listings: scorer/kafka_consumer.py, servicer.py, db_writer.py.   *)
(* The pods consume enriched-listings (PyConsumer), whose events carry the *)
(* uuids of normalized-listings in their order, and answer ScoreListing    *)
(* and ScoreBatch.  Both read rows, write the scores and then publish      *)
(* them, and nothing keeps two of them off one row.                        *)
(*                                                                         *)
(* A score is what it was computed from: the price the row was read with.  *)
(***************************************************************************)
EXTENDS PyConsumer, ListingRows

CONSTANTS
  NoScore,  \* a row that was never scored
  MaxCalls  \* bound of the model: calls of ScoreListing and ScoreBatch

VARIABLES
  score,      \* the scorer's columns of each row, which no upsert touches
  announced,  \* the last score of each listing on scored-listings
  scoring,    \* handle_message of each pod: how far it is, the rows it read
  rpc,        \* the call each pod is answering
  calls,      \* how many were made
  crossed,    \* history: rows that two of them had at a time
  broken      \* history: rows that were written, and announced by nobody, when a call
              \* or the pod of an old generation ended in between

results == <<score, announced>>
scorings == <<broker, results, scoring, rpc, calls, crossed, broken>>

Free == [stage |-> "none", price |-> <<>>]

ScoringInit ==
  /\ BrokerInit
  /\ score = [l \in Listings |-> NoScore]
  /\ announced = [l \in Listings |-> NoScore]
  /\ scoring = [p \in Pods |-> Free]
  /\ rpc = [p \in Pods |-> Free]
  /\ calls = 0
  /\ crossed = {}
  /\ broken = {}

\* The listings a task has read and is not done with.
Held(task) == IF task.stage = "none" THEN {} ELSE DOMAIN task.price
Prices_(listings) == [l \in listings |-> rows[l].price]

\* write_scores updates the rows by id in one statement.
Written(task) == [l \in Listings |-> IF l \in Held(task) THEN task.price[l] ELSE score[l]]

-----------------------------------------------------------------------------
(* kafka_consumer.py                                                        *)

\* _fetch_row: an unknown id is logged and done with, and the id of every upsert
\* but the first is unknown, for the row kept the first.
FetchRow(p) ==
  /\ pc[p] = "call"
  /\ IF RowOf(normalized[cur[p]]) = {}
     THEN Returned(p) /\ UNCHANGED scoring
     ELSE /\ Goto(p, "wait") /\ UNCHANGED attempt
          /\ scoring' = [scoring EXCEPT ![p] = [stage |-> "write", price |-> Prices_(RowOf(normalized[cur[p]]))]]
  /\ UNCHANGED <<log_, group, reader, dead, faults, results, rpc, calls, crossed, broken>>

Others(p) == (UNION {Held(scoring[q]) : q \in Pods \ {p}}) \cup (UNION {Held(rpc[q]) : q \in Pods})

WriteScores(p) ==
  /\ scoring[p].stage = "write"
  /\ score' = Written(scoring[p])
  /\ scoring' = [scoring EXCEPT ![p].stage = "publish"]
  /\ crossed' = crossed \cup (Held(scoring[p]) \cap Others(p))
  /\ UNCHANGED <<broker, announced, rpc, calls, broken>>

PublishScored(p) ==
  /\ scoring[p].stage = "publish"
  /\ announced' = [l \in Listings |-> IF l \in Held(scoring[p]) THEN scoring[p].price[l] ELSE announced[l]]
  /\ scoring' = [scoring EXCEPT ![p] = Free]
  /\ Returned(p)
  /\ UNCHANGED <<log_, group, reader, dead, faults, score, rpc, calls, crossed, broken>>

\* Mutated form: the error is logged, and the message counts as handled.
ScoringErrorLogged(p) ==
  /\ pc[p] \in {"call", "wait"}
  /\ Returned(p) /\ Fault
  /\ scoring' = [scoring EXCEPT ![p] = Free]
  /\ UNCHANGED <<log_, group, reader, dead, results, rpc, calls, crossed, broken>>

\* What ends between its write and its last publish leaves these rows behind.
Unpublished(task) == IF task.stage = "publish" THEN Held(task) ELSE {}

\* The group is past the message of p, or has given it to another pod: it need not
\* come again.
Overtaken(p) == cur[p] <= committed \/ (owner \in Pods \ {p} /\ cur[p] <= pos[owner])
LeftBy(p)    == IF Overtaken(p) THEN Unpublished(scoring[p]) ELSE {}

\* A query, the scoring, the write or the publish raises: consume() tries again
\* from the row.
ScoringError(p) ==
  /\ pc[p] \in {"call", "wait"}
  /\ Raised(p) /\ Fault
  /\ scoring' = [scoring EXCEPT ![p] = Free]
  /\ broken' = broken \cup LeftBy(p)
  /\ UNCHANGED <<log_, group, reader, dead, results, rpc, calls, crossed>>

-----------------------------------------------------------------------------
(* servicer.py                                                              *)

\* ScoreListing and ScoreBatch: the rows that are found; none is NOT_FOUND.
ScoreBatch(p, listings) ==
  /\ pc[p] # "down" /\ rpc[p] = Free
  /\ listings # {} /\ listings \subseteq Stored
  /\ calls < MaxCalls /\ calls' = calls + 1
  /\ rpc' = [rpc EXCEPT ![p] = [stage |-> "write", price |-> Prices_(listings)]]
  /\ UNCHANGED <<broker, results, scoring, crossed, broken>>

RpcWriteScores(p) ==
  /\ rpc[p].stage = "write"
  /\ score' = Written(rpc[p])
  /\ rpc' = [rpc EXCEPT ![p].stage = "publish"]
  /\ crossed' = crossed \cup (Held(rpc[p]) \cap
                  ((UNION {Held(scoring[q]) : q \in Pods}) \cup (UNION {Held(rpc[q]) : q \in Pods \ {p}})))
  /\ UNCHANGED <<broker, announced, scoring, calls, broken>>

\* _publish_result, one listing after the other.
RpcPublish(p, l) ==
  /\ rpc[p].stage = "publish" /\ l \in Held(rpc[p])
  /\ announced' = [announced EXCEPT ![l] = rpc[p].price[l]]
  /\ LET rest == Held(rpc[p]) \ {l}
     IN  rpc' = [rpc EXCEPT ![p] = IF rest = {} THEN Free
                                   ELSE [@ EXCEPT !.price = [k \in rest |-> rpc[p].price[k]]]]
  /\ UNCHANGED <<broker, score, scoring, calls, crossed, broken>>

\* Any error aborts the call, and so does a client that leaves.
RpcError(p) ==
  /\ rpc[p] # Free
  /\ broken' = broken \cup Unpublished(rpc[p])
  /\ rpc' = [rpc EXCEPT ![p] = Free]
  /\ Fault
  /\ UNCHANGED <<log_, group, pc, reader, attempt, dead, results, scoring, calls, crossed>>

-----------------------------------------------------------------------------
ScoringGroup(p) ==
  /\ Assign(p) \/ Rebalance(p) \/ StartPod(p) \/ LoopStep(p)
  /\ UNCHANGED <<results, scoring, rpc, calls, crossed, broken>>

ScoringDie(p) ==
  /\ Escape(p) \/ Crash(p)
  /\ broken' = broken \cup Unpublished(rpc[p]) \cup LeftBy(p)
  /\ scoring' = [scoring EXCEPT ![p] = Free]
  /\ rpc' = [rpc EXCEPT ![p] = Free]
  /\ UNCHANGED <<results, calls, crossed>>

ScoringStep(p) ==
  \/ FetchRow(p) \/ WriteScores(p) \/ PublishScored(p) \/ ScoringError(p)
  \/ RpcWriteScores(p) \/ RpcError(p)
  \/ \E l \in Listings : RpcPublish(p, l)
  \/ \E listings \in SUBSET Listings : ScoreBatch(p, listings)
  \/ ScoringGroup(p) \/ ScoringDie(p)

=============================================================================
