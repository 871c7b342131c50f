--------------------------- MODULE ModelLifecycle ---------------------------
(***************************************************************************)
(* The life of a price model: training jobs register and promote versions, *)
(* the scorer's pods load what is active and score with it.  The two share *)
(* the model_versions table and the bucket, and nothing else: a promotion  *)
(* is noticed by polling.                                                  *)
(***************************************************************************)
EXTENDS Scorer

vars == <<trainer, scorer>>

Init == TrainerInit /\ ScorerInit

Next ==
  \/ \E j \in Jobs : JobStep(j) /\ UNCHANGED scorer
  \/ \E j \in Jobs : /\ JobFails(j) \/ LoggingFails(j)
                     /\ Fault
                     /\ UNCHANGED <<phase, bundle, poller, index, refresher, refused, starts, swaps>>
  \/ ScorerStep /\ UNCHANGED trainer

Spec == Init /\ [][Next]_vars

\* A pod's event loop runs each of its tasks when the call it awaits has returned.
FairSpec ==
  /\ Spec
  /\ \A p \in Pods : /\ WF_vars(PollerStep(p) /\ UNCHANGED trainer)
                     /\ WF_vars(RefresherStep(p) /\ UNCHANGED trainer)

-----------------------------------------------------------------------------
(* Properties                                                               *)

\* A pod serves the model and the engineer of one training, the one the registry
\* recorded, except where two jobs trained under one tag: they upload to the same
\* keys, and the loser's objects stay under the winner's row.
MixedNeedsCollision ==
  \A p \in Pods, c \in Countries :
    LET b == bundle[p][c]
    IN  b # Nothing /\ (b.point.run # b.engineer.run \/ b.point.run # versions[c][b.tag].run)
          => <<c, b.tag>> \in collided

\* Without jobs that overlap, every listing can be scored until a bundle is swapped:
\* from then to the next refresh the comparables index has the old engineer's width,
\* and every listing of the country whose new vectors have another width is refused.
RefusalNeedsSwap == refused # {} => swaps > 0 \/ collided # {}

\* When the trainings are over, a pod whose two loops are alive comes to serve every
\* active version, with an index its vectors fit: polling makes up for the missing
\* notification, and refreshing for the swap the index does not hear of.
LoopsConverge ==
  \A p \in Pods :
    <>[](poller[p].at \notin {"off", "dead"} /\ ~poller[p].startup /\ refresher[p].at # "dead" =>
           \A c \in Countries : ActiveTags(c) # {} =>
             /\ bundle[p][c] # Nothing
             /\ bundle[p][c].tag \in ActiveTags(c)
             /\ index[p][c] = IF c \in Indexed THEN bundle[p][c].engineer.width ELSE 0)

\* "the failed reload is logged and retried on the next cycle"
\* (specs/034-s3-migration/spec.md:62).
FailedReloadRetried == \A p \in Pods : poller[p].at = "dead" ~> poller[p].at # "dead"

=============================================================================
