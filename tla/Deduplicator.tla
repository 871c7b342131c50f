---------------------------- MODULE Deduplicator ----------------------------
(***************************************************************************)
(* The pipeline's deduplicator: deduplicator/consumer.py and matcher.py.   *)
(* The pods of its group consume normalized-listings (PyConsumer), read    *)
(* the listings near the message's and, in a second transaction, give the  *)
(* listing and its matches one canonical_id.                               *)
(***************************************************************************)
EXTENDS PyConsumer, ListingRows

VARIABLES
  found,  \* the matched candidates of a pod, as it read them
  stale   \* history: a group was resolved with candidates that had changed

dedup == <<broker, found, stale>>

DedupInit ==
  /\ BrokerInit
  /\ found = [p \in Pods |-> {}]
  /\ stale = FALSE

Distance(a, b) == IF a > b THEN a - b ELSE b - a

\* filter_by_features: the tolerance is relative to the area of the listing, not
\* of the candidate, so the relation is not symmetric.
AreaTolerance == 10
FilterByFeatures(c, l) ==
  /\ Distance(Features[c].area, Features[l].area) * 100 < AreaTolerance * Features[l].area
  /\ Features[c].bedrooms = Features[l].bedrooms
  /\ Features[c].type = Features[l].type

\* is_address_match: the ratio of the normalized addresses, as a class of the
\* fuzzy match; an empty address matches nothing.
IsAddressMatch(c, l) == Features[c].address # {} /\ Features[c].address \cap Features[l].address # {}

\* ST_DWithin over the locations of one country; a listing without one is not found.
Near(c, l) ==
  /\ Features[c].country = Features[l].country
  /\ Features[c].located /\ Features[l].located
  /\ Features[c].place = Features[l].place

Matches(c, l) == Near(c, l) /\ FilterByFeatures(c, l) /\ IsAddressMatch(c, l)

\* What find_proximity_candidates and the filters return for a message about l.
\* Only the message's own uuid is excluded: a listing that was stored before
\* finds its own row.
Candidates(own, l) ==
  {[id |-> rows[c].id, canonical |-> rows[c].canonical] :
     c \in {x \in Stored : rows[x].id # own /\ Matches(x, l)}}

CandidatesOf(p) == Candidates(normalized[cur[p]], ListingOf(cur[p]))

FindCandidates(p) ==
  /\ pc[p] = "call"
  /\ found' = [found EXCEPT ![p] = CandidatesOf(p)]
  /\ Goto(p, "wait")
  /\ UNCHANGED <<log_, group, reader, attempt, dead, faults, stale, table>>

\* A row's created_at grows with its id, so the earliest candidate has the least.
Earliest(cands) == CHOOSE c \in cands : \A d \in cands : c.id <= d.id
CanonicalOf(c)  == IF c.canonical = NoId THEN c.id ELSE c.canonical

MergeIds(cands) == {c.id : c \in cands} \cup ({c.canonical : c \in cands} \ {NoId})

\* Mutated form: the groups of the candidates are not moved with them.
RegroupedAlone(own, country, cands) ==
  LET canonical == IF cands = {} THEN own ELSE CanonicalOf(Earliest(cands))
      moved(r)  == r.id \in {own} \cup (IF cands = {} THEN {} ELSE {c.id : c \in cands} \cup {canonical})
  IN  [l \in Listings |->
         IF l \in Stored /\ Features[l].country = country /\ moved(rows[l])
         THEN [rows[l] EXCEPT !.canonical = canonical] ELSE rows[l]]

\* resolve_canonical_id: one transaction updates the listing's own row, by the
\* message's uuid, and every row of the candidates' groups, in the message's country.
Regrouped(own, country, cands) ==
  LET canonical == IF cands = {} THEN own ELSE CanonicalOf(Earliest(cands))
      ids       == IF cands = {} THEN {} ELSE MergeIds(cands) \cup {canonical}
      moved(r)  == r.id = own \/ r.id \in ids \/ r.canonical \in ids
  IN  [l \in Listings |->
         IF l \in Stored /\ Features[l].country = country /\ moved(rows[l])
         THEN [rows[l] EXCEPT !.canonical = canonical] ELSE rows[l]]

ResolveCanonicalId(p) ==
  /\ pc[p] = "wait"
  /\ rows' = Regrouped(normalized[cur[p]], Features[ListingOf(cur[p])].country, found[p])
  /\ stale' = (stale \/ found[p] # CandidatesOf(p))
  /\ found' = [found EXCEPT ![p] = {}]
  /\ Returned(p)
  /\ UNCHANGED <<log_, group, reader, dead, faults, upserts, normalized, now>>

\* A failed query or transaction is logged and raised again to consume().
HandleError(p) ==
  /\ pc[p] \in {"call", "wait"}
  /\ Raised(p)
  /\ Fault
  /\ found' = [found EXCEPT ![p] = {}]
  /\ UNCHANGED <<log_, group, reader, dead, stale, table>>

DedupGroup(p) ==
  /\ Assign(p) \/ Rebalance(p) \/ StartPod(p) \/ LoopStep(p)
  /\ UNCHANGED <<found, stale, table>>

DedupDie(p) ==
  /\ Escape(p) \/ Crash(p)
  /\ found' = [found EXCEPT ![p] = {}]
  /\ UNCHANGED <<stale, table>>

DedupStep(p) ==
  \/ FindCandidates(p) \/ ResolveCanonicalId(p) \/ HandleError(p)
  \/ DedupGroup(p) \/ DedupDie(p)

-----------------------------------------------------------------------------
(* What the composition states properties about                             *)

\* A message about l is behind the group's offset, and was neither skipped nor given up.
Resolved(l) ==
  \E m \in DOMAIN normalized : ListingOf(m) = l /\ m <= committed /\ m > base /\ m \notin dead

Asymmetric == \E a, b \in Listings : a # b /\ Matches(a, b) # Matches(b, a)

=============================================================================
