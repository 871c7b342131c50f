-------------------------- MODULE MCModelLifecycle --------------------------
(* Two jobs on a country with a full model, one of them on a second country *)
(* with a transferred one, and a scorer pod.                                *)
EXTENDS ModelLifecycle

CONSTANTS es, pt, j1, j2

MCSize      == es :> "full" @@ pt :> "transfer"
MCArguments == j1 :> Everything @@ j2 :> es
MCRow       == {"asking_price_eur", "built_area_m2"}
MCTrainings == {[rows |-> {MCRow}, mape |-> 20],
                [rows |-> {MCRow, MCRow \cup {"floor_number"}}, mape |-> 10]}
MCRules     == {"energy_cert"}

\* The engineer's columns, the split and the promotion rule on small inputs.
ASSUME Cardinality({o.width : o \in Outcomes}) = 2
ASSUME \A n \in 3..60 : LET s == SplitSizes(n)
                        IN  s.train >= 1 /\ s.test >= 1 /\ s.val >= 0 /\ s.train + s.val + s.test = n
ASSUME LET counts == [a |-> 2, b |-> 3, other |-> 1, big |-> 40]
       IN  Strata(counts, 10) = [big |-> 40, other |-> 6]
ASSUME LET stats == [zones |-> 1 :> 5, cities |-> 7 :> 6, country |-> 9]
       IN  <<ResolveZoneStats(stats, 1, 7), ResolveZoneStats(stats, 2, 7), ResolveZoneStats(stats, 2, 8)>> = <<5, 6, 9>>
ASSUME \A estimated, asking \in 0..20 : Explained(DealScore(estimated, asking)) => asking < estimated
=============================================================================
