------------------------------- MODULE Scorer -------------------------------
(***************************************************************************)
(* The ml scorer: scorer/__main__.py, server.py, model_registry.py,        *)
(* comparables.py, kafka_consumer.py, servicer.py, inference.py.           *)
(*                                                                         *)
(* A pod is one event loop: the poll loop swaps a country's bundle when    *)
(* the registry names another version, the refresh loop rebuilds the index *)
(* of comparable listings with the bundle of the moment, and the consumer  *)
(* of enriched listings and the gRPC server score with both.  Each runs    *)
(* while another awaits the database, S3 or Kafka; nobody awaits the tasks *)
(* themselves, so a loop that raises is gone and the pod serves on.        *)
(***************************************************************************)
EXTENDS Trainer

CONSTANTS
  Pods,
  Indexed,     \* countries with active listings that have a zone
  MaxStarts,   \* bound of the model: starts of pods
  MaxFaults    \* bound of the model: crashes and failed calls

VARIABLES
  phase,      \* of a pod: "down", "starting" or "serving"
  bundle,     \* ModelRegistry.bundles
  poller,     \* the task that loads bundles
  index,      \* ComparablesFinder._indices: the width of a country's index; 0: none
  refresher,  \* the task that builds them
  refused,    \* countries of which a listing could not be scored
  starts,
  faults,
  swaps       \* history: bundles replaced by another version's

scorer == <<phase, bundle, poller, index, refresher, refused, starts, faults, swaps>>

\* What ModelRegistry.bundles holds for a country, and Nothing is none of it.
Bundles == [tag : Tags, point : Artifacts, engineer : Artifacts,
            confidence : {"full", "transfer", "insufficient_data"}]

ASSUME BundlesAssumption == Nothing \notin Bundles

Off  == [at |-> "off", startup |-> TRUE, rows |-> [c \in Countries |-> Nothing],
         got |-> [k \in Kinds |-> Nothing], todo |-> Kinds]
Rest == [at |-> "off", todo |-> {}, country |-> Nothing, width |-> 0]

ScorerInit ==
  /\ phase = [p \in Pods |-> "down"]
  /\ bundle = [p \in Pods |-> [c \in Countries |-> Nothing]]
  /\ poller = [p \in Pods |-> Off]
  /\ index = [p \in Pods |-> [c \in Countries |-> 0]]
  /\ refresher = [p \in Pods |-> Rest]
  /\ refused = {}
  /\ starts = 0
  /\ faults = 0
  /\ swaps = 0

Fault == faults < MaxFaults /\ faults' = faults + 1

Served(p)  == {c \in Countries : bundle[p][c] # Nothing}
Others == UNCHANGED <<phase, refused, starts>>

\* The process ends: its memory is gone.
ProcessGone(p) ==
  /\ phase' = [phase EXCEPT ![p] = "down"]
  /\ bundle' = [bundle EXCEPT ![p] = [c \in Countries |-> Nothing]]
  /\ poller' = [poller EXCEPT ![p] = Off]
  /\ index' = [index EXCEPT ![p] = [c \in Countries |-> 0]]
  /\ refresher' = [refresher EXCEPT ![p] = Rest]
  /\ UNCHANGED <<refused, starts, swaps>>

Crash(p) == phase[p] # "down" /\ ProcessGone(p) /\ Fault

\* main(): the models are loaded first.
StartScorer(p) ==
  /\ phase[p] = "down"
  /\ starts < MaxStarts /\ starts' = starts + 1
  /\ phase' = [phase EXCEPT ![p] = "starting"]
  /\ poller' = [poller EXCEPT ![p] = [Off EXCEPT !.at = "sleep"]]
  /\ UNCHANGED <<bundle, index, refresher, refused, faults, swaps>>

-----------------------------------------------------------------------------
(* model_registry.py                                                        *)

\* _fetch_active_versions, at startup and after each sleep.
FetchActiveVersions(p) ==
  /\ poller[p].at = "sleep"
  /\ poller' = [poller EXCEPT ![p].at = "load",
                              ![p].rows = [c \in Countries |-> IF ActiveTags(c) = {} THEN Nothing ELSE Max(ActiveTags(c))]]
  /\ UNCHANGED <<bundle, index, refresher, faults, swaps>> /\ Others

\* Mutated form: only a country without a bundle is loaded.
OutdatedMissing(p) == {c \in Countries : poller[p].rows[c] # Nothing /\ bundle[p][c] = Nothing}

\* The countries whose row names a version that is not loaded.
Outdated(p) ==
  {c \in Countries : /\ poller[p].rows[c] # Nothing
                     /\ bundle[p][c] = Nothing \/ bundle[p][c].tag # poller[p].rows[c]}

\* One after the other, by country code.
Reloading(p) == CHOOSE c \in Outdated(p) : TRUE

\* Whatever a reload raises leaves load_active_models, and main() with it, or
\* poll_loop: nobody awaits that task, the pod serves on without it.
ReloadFails(p) ==
  IF poller[p].startup
  THEN ProcessGone(p)
  ELSE /\ poller' = [poller EXCEPT ![p] = [Off EXCEPT !.at = "dead", !.startup = FALSE]]
       /\ UNCHANGED <<bundle, index, refresher, swaps>> /\ Others

\* _materialize_artifacts gathers the objects, in any order.
GetObject(p, kind) ==
  /\ poller[p].at = "load" /\ Outdated(p) # {} /\ kind \in poller[p].todo
  /\ LET c == Reloading(p)
     IN  poller' = [poller EXCEPT ![p].todo = @ \ {kind}, ![p].got[kind] = objects[c][poller[p].rows[c]][kind]]
  /\ UNCHANGED <<bundle, index, refresher, faults, swaps>> /\ Others

\* It asks for the quantile models and the booster as well (_q05.onnx, _q95.onnx,
\* .lgb), which the trainer never uploads: whoever puts them there may not have.
ObjectMissing(p) == poller[p].at = "load" /\ Outdated(p) # {} /\ ReloadFails(p) /\ UNCHANGED faults

\* The database or S3 fails.
GetObjectFails(p) == poller[p].at \in {"sleep", "load"} /\ ReloadFails(p) /\ Fault

\* Mutated form: the engineer of the country is kept.
LoadedWithOldEngineer(p) ==
  LET c == Reloading(p)
      got == poller[p].got
  IN  [tag |-> poller[p].rows[c], point |-> got["onnx"],
       engineer |-> IF bundle[p][c] = Nothing THEN got["engineer"] ELSE bundle[p][c].engineer,
       confidence |-> versions[c][poller[p].rows[c]].confidence]

\* _load_bundle_from_paths: the confidence is the row's, and rows keep it.
Loaded(p) ==
  LET c == Reloading(p)
      got == poller[p].got
  IN  [tag |-> poller[p].rows[c], point |-> got["onnx"],
       engineer |-> got["engineer"], confidence |-> versions[c][poller[p].rows[c]].confidence]

SwapBundle(p) ==
  LET c == Reloading(p)
  IN  /\ poller[p].at = "load" /\ Outdated(p) # {} /\ poller[p].todo = {}
      /\ bundle' = [bundle EXCEPT ![p][c] = Loaded(p)]
      /\ poller' = [poller EXCEPT ![p].at = "load", ![p].rows[c] = Nothing,
                                  ![p].todo = Kinds, ![p].got = Off.got]
      /\ swaps' = IF bundle[p][c] = Nothing THEN swaps ELSE swaps + 1
      /\ UNCHANGED <<index, refresher, faults>> /\ Others

\* After the last row the loop sleeps; at startup a pod without a bundle exits and
\* the others build their indices.
ReloadsDone(p) ==
  /\ poller[p].at = "load" /\ Outdated(p) = {}
  /\ IF ~poller[p].startup
     THEN poller' = [poller EXCEPT ![p] = [Off EXCEPT !.at = "sleep", !.startup = FALSE]]
          /\ UNCHANGED <<bundle, index, refresher, faults, swaps>> /\ Others
     ELSE IF Served(p) = {}
     THEN ProcessGone(p) /\ UNCHANGED faults
     ELSE /\ poller' = [poller EXCEPT ![p] = Off]
          /\ refresher' = [refresher EXCEPT ![p] = [Rest EXCEPT !.at = "take", !.todo = Served(p)]]
          /\ UNCHANGED <<bundle, index, faults, swaps>> /\ Others

-----------------------------------------------------------------------------
(* comparables.py                                                           *)

RefreshTick(p) ==
  /\ refresher[p].at = "sleep" /\ phase[p] # "starting"
  /\ refresher' = [refresher EXCEPT ![p].at = "take", ![p].todo = Served(p)]
  /\ UNCHANGED <<bundle, poller, index, faults, swaps>> /\ Others

\* Mutated form: every index is built with one country's engineer.
TakenFromBase(p, todo) ==
  IF todo = {} THEN [Rest EXCEPT !.at = "sleep"]
  ELSE LET c == CHOOSE d \in todo : TRUE
           b == CHOOSE d \in Served(p) : TRUE
       IN  [at |-> "build", todo |-> todo \ {c}, country |-> c, width |-> bundle[p][b].engineer.width]

\* The bundle is taken before the listings are read.
Taken(p, todo) ==
  IF todo = {} THEN [Rest EXCEPT !.at = "sleep"]
  ELSE LET c == CHOOSE d \in todo : TRUE
       IN  [at |-> "build", todo |-> todo \ {c}, country |-> c, width |-> bundle[p][c].engineer.width]

TakeBundle(p) ==
  /\ refresher[p].at = "take"
  /\ refresher' = [refresher EXCEPT ![p] = Taken(p, @.todo)]
  /\ UNCHANGED <<bundle, poller, index, faults, swaps>> /\ Others

\* The next country's bundle is taken at once.
BuildIndex(p) ==
  LET c == refresher[p].country
  IN  /\ refresher[p].at = "build"
      /\ index' = [index EXCEPT ![p][c] = IF c \in Indexed THEN refresher[p].width ELSE 0]
      /\ refresher' = [refresher EXCEPT ![p] = Taken(p, @.todo)]
      /\ UNCHANGED <<bundle, poller, faults, swaps>> /\ Others

\* The first refresh is main()'s, and serve() follows it: the server and the tasks
\* start.
Serve(p) ==
  /\ phase[p] = "starting" /\ refresher[p].at = "sleep"
  /\ phase' = [phase EXCEPT ![p] = "serving"]
  /\ poller' = [poller EXCEPT ![p] = [Off EXCEPT !.at = "sleep", !.startup = FALSE]]
  /\ UNCHANGED <<bundle, index, refresher, refused, starts, faults, swaps>>

\* The query fails: main() ends, or refresh_loop does and the index stays as it is.
RefreshFails(p) ==
  /\ refresher[p].at = "build"
  /\ Fault
  /\ IF phase[p] = "starting"
     THEN ProcessGone(p)
     ELSE /\ refresher' = [refresher EXCEPT ![p] = [Rest EXCEPT !.at = "dead"]]
          /\ UNCHANGED <<bundle, poller, index, swaps>> /\ Others

-----------------------------------------------------------------------------
(* Scoring: kafka_consumer.py and servicer.py                               *)

ByModel(p, c)  == bundle[p][c] # Nothing /\ bundle[p][c].confidence # "insufficient_data"

\* onnxruntime refuses a vector of another width than the model's, the scaler of
\* the index one of another width than the index.
Fits(p, c) ==
  LET b == bundle[p][c]
  IN  /\ b.point.width = b.engineer.width
      /\ index[p][c] \in {0, b.engineer.width}

\* handle_message, ScoreListing and ScoreBatch, from the row to its result: without
\* a model, or with too poor a one, the heuristic gives a score.  Otherwise
\* score_listing or get_comparables may raise: the consumer's retries find the same
\* bundle and index and the listing is dead-lettered, a gRPC call ends INTERNAL.
ScoreRow(p, c) ==
  /\ phase[p] = "serving"
  /\ ByModel(p, c) /\ ~Fits(p, c)
  /\ refused' = refused \cup {c}
  /\ UNCHANGED <<phase, bundle, poller, index, refresher, starts, faults, swaps>>

-----------------------------------------------------------------------------
PollerStep(p) ==
  \/ FetchActiveVersions(p) \/ ObjectMissing(p) \/ SwapBundle(p) \/ ReloadsDone(p)
  \/ \E kind \in Kinds : GetObject(p, kind)
RefresherStep(p) == RefreshTick(p) \/ TakeBundle(p) \/ BuildIndex(p) \/ Serve(p)
PodFails(p)      == Crash(p) \/ GetObjectFails(p) \/ RefreshFails(p)

ScorerStep ==
  \E p \in Pods :
    \/ StartScorer(p) \/ PollerStep(p) \/ RefresherStep(p) \/ PodFails(p)
    \/ \E c \in Countries : ScoreRow(p, c)

=============================================================================
