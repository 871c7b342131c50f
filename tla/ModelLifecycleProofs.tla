------------------------- MODULE ModelLifecycleProofs -------------------------
(***************************************************************************)
(* Proofs about ModelLifecycle, for any countries, jobs, trainings, pods   *)
(* and faults: a country has one active version, a pod serves the objects  *)
(* of the training the registry names, and a listing is refused only after *)
(* a bundle was swapped.                                                   *)
(***************************************************************************)
EXTENDS ModelLifecycle, FiniteSetTheorems, TLAPS

-----------------------------------------------------------------------------
(* Types of the trainer                                                     *)

Working == {"train", "engineer", "select", "blocked", "locked"}
Stages  == {"country", "done"} \cup Working

JobSet == [stage : Stages, todo : Seq(Countries), tag : 0..MaxTags,
           mape : {0} \cup {o.mape : o \in Outcomes}, width : {0} \cup Widths,
           confidence : {"full", "transfer", "insufficient_data"},
           champion : Tags \cup {Nothing}, base : BOOLEAN]

\* A job has a country in its hands until it is done, and a tag while it works.
JobOK(r) ==
  /\ r \in JobSet
  /\ r.stage = "done" <=> r.todo = <<>>
  /\ r.stage \in Working => r.tag \in Tags
  /\ r.stage \in {"engineer", "select", "blocked", "locked"} =>
       r.mape \in {o.mape : o \in Outcomes} /\ r.width \in Widths

TrainerType ==
  /\ versions \in [Countries -> [Tags -> VersionRows \cup {Nothing}]]
  /\ objects \in [Countries -> [Tags -> [Kinds -> Artifacts \cup {Nothing}]]]
  /\ job \in [Jobs -> JobSet]
  /\ \A j \in Jobs : JobOK(job[j])
  /\ \A j \in Jobs : job[j].stage \in {"blocked", "locked"} /\ job[j].champion # Nothing =>
       versions[Country(j)][job[j].champion] # Nothing

TrainerStep(j) ==
  \/ JobStep(j) \/ LoggingFails(j)
  \/ job[j].stage # "done" /\ Fails(j) /\ UNCHANGED <<versions, objects, collided>>

\* The order in which a set is gone through is a sequence of its elements.
LEMMA OrderType ==
  ASSUME NEW S, IsFiniteSet(S)
  PROVE  SetToSeq(S) \in Seq(S)
<1>1. Cardinality(S) \in Nat /\ \E f : f \in [1..Cardinality(S) -> S] /\ IsInjective(f)
  BY FS_CardinalityType DEF ExistsBijection, Bijection, Injection
<1>2. SetToSeq(S) \in [1..Cardinality(S) -> S]
  BY <1>1 DEF SetToSeq
<1> QED
  BY <1>1, <1>2

LEMMA PlanType ==
  ASSUME NEW argument \in Countries \cup {Everything}
  PROVE  Plan(argument) \in Seq(Countries)
<1> USE CountriesAssumption
<1>1. ASSUME NEW S \in SUBSET Countries
      PROVE  SetToSeq(S) \in Seq(Countries)
  <2>1. IsFiniteSet(S)
    BY FS_Subset
  <2>2. SetToSeq(S) \in Seq(S)
    BY <2>1, OrderType
  <2> QED
    BY <2>2
<1>2. CASE argument = Everything
  <2> DEFINE enough == {c \in Countries : Size[c] # "few"}
  <2>1. Plan(argument) = SetToSeq(enough \cap {Base}) \o SetToSeq(enough \ {Base})
    BY <1>2 DEF Plan
  <2>2. enough \cap {Base} \in SUBSET Countries /\ enough \ {Base} \in SUBSET Countries
    OBVIOUS
  <2>3. SetToSeq(enough \cap {Base}) \in Seq(Countries) /\ SetToSeq(enough \ {Base}) \in Seq(Countries)
    BY <1>1, <2>2
  <2>4. \A a, b \in Seq(Countries) : a \o b \in Seq(Countries)
    OBVIOUS
  <2> HIDE DEF enough
  <2> QED
    BY <2>1, <2>3, <2>4
<1>3. CASE argument # Everything
  BY <1>3 DEF Plan
<1> QED
  BY <1>2, <1>3
\* The job has let go of its tag.
Turned(j) ==
  /\ job' = [job EXCEPT ![j] = job'[j]]
  /\ JobOK(job'[j])
  /\ job'[j].tag = 0
  /\ job'[j].stage \in {"country", "done"}

LEMMA FreshType == NoJob \in JobSet /\ NoJob.tag = 0 /\ NoJob.todo = <<>>
<1>1. 0 \in 0..MaxTags /\ <<>> \in Seq(Countries)
  BY TagsAssumption
<1> QED
  BY <1>1 DEF NoJob, JobSet, Stages

LEMMA NextCountryEffect ==
  ASSUME TrainerType, NEW j \in Jobs, job[j].stage # "done", NEW trained \in BOOLEAN,
         NextCountry(j, trained)
  PROVE  Turned(j)
<1>1. job[j].todo \in Seq(Countries) /\ job[j].todo # <<>> /\ job[j].base \in BOOLEAN
  BY DEF TrainerType, JobOK, JobSet
<1> DEFINE rest  == Tail(job[j].todo)
           stage == IF rest = <<>> THEN "done" ELSE "country"
           base  == IF Country(j) = Base THEN trained ELSE job[j].base
           r     == [NoJob EXCEPT !.stage = stage, !.todo = rest, !.base = base]
<1>2. job' = [job EXCEPT ![j] = r]
  BY DEF NextCountry
<1>3. job'[j] = r
  BY <1>2 DEF TrainerType
<1>4. /\ rest \in Seq(Countries) /\ stage \in {"country", "done"} /\ base \in BOOLEAN
      /\ stage = "done" <=> rest = <<>>
  BY <1>1
<1> HIDE DEF rest, stage, base
<1>5. r \in JobSet /\ r.tag = 0 /\ r.stage = stage /\ r.todo = rest
  BY <1>4, FreshType DEF JobSet, Stages
<1> HIDE DEF r
<1>6. JobOK(r)
  BY <1>4, <1>5 DEF JobOK, Working
<1> QED
  BY <1>2, <1>3, <1>4, <1>5, <1>6 DEF Turned

LEMMA FailsEffect ==
  ASSUME TrainerType, NEW j \in Jobs, job[j].stage # "done", Fails(j)
  PROVE  Turned(j)
<1>1. CASE Arguments[j] = Everything
  BY <1>1, NextCountryEffect DEF Fails
<1>2. CASE Arguments[j] # Everything
  <2> DEFINE r == [NoJob EXCEPT !.stage = "done"]
  <2>1. job' = [job EXCEPT ![j] = r] /\ job'[j] = r
    BY <1>2 DEF Fails, TrainerType
  <2>2. r \in JobSet /\ r.tag = 0 /\ r.stage = "done" /\ r.todo = <<>>
    BY FreshType DEF JobSet, Stages
  <2> HIDE DEF r
  <2>3. JobOK(r)
    BY <2>2 DEF JobOK, Working
  <2> QED
    BY <2>1, <2>2, <2>3 DEF Turned
<1> QED
  BY <1>1, <1>2

\* The steps of a job, for the proofs that split on them.
TrainerCases(j) ==
  \/ Turned(j) /\ UNCHANGED <<versions, objects, collided>>
  \/ TakeVersionTag(j)
  \/ \E outcome \in Outcomes, confidence \in {"full", "transfer", "insufficient_data"} :
       JobAt(j, "train") /\ Evaluated(j, outcome, confidence)
  \/ UploadEngineer(j) \/ SelectChampion(j) \/ Unblock(j)
  \/ MaybePromote(j) /\ Turned(j)

LEMMA TrainerSplit ==
  ASSUME TrainerType, NEW j \in Jobs, TrainerStep(j)
  PROVE  TrainerCases(j)
<1>1. CASE SkipCountry(j) \/ TagTaken(j)
  <2>1. Fails(j) /\ OnlyJob /\ job[j].stage # "done"
    BY <1>1 DEF SkipCountry, TagTaken, JobAt
  <2> QED
    BY <2>1, FailsEffect DEF OnlyJob, TrainerCases
<1>2. CASE job[j].stage # "done" /\ Fails(j) /\ UNCHANGED <<versions, objects, collided>>
  BY <1>2, FailsEffect DEF TrainerCases
<1>3. CASE RunTraining(j)
  BY <1>3 DEF RunTraining, TrainerCases
<1>4. CASE RunTransferTraining(j)
  BY <1>4 DEF RunTransferTraining, TrainerCases
<1>5. CASE CompleteTraining(j) \/ LoggingFails(j)
  <2>1. MaybePromote(j) /\ job[j].stage # "done"
    BY <1>5 DEF CompleteTraining, LoggingFails, MaybePromote, JobAt
  <2>2. NextCountry(j, TRUE) \/ Fails(j)
    BY <1>5 DEF CompleteTraining, LoggingFails
  <2> QED
    BY <2>1, <2>2, NextCountryEffect, FailsEffect DEF TrainerCases
<1>6. CASE TakeVersionTag(j) \/ UploadEngineer(j) \/ SelectChampion(j) \/ Unblock(j)
  BY <1>6 DEF TrainerCases
<1> QED
  BY <1>1, <1>2, <1>3, <1>4, <1>5, <1>6 DEF TrainerStep, JobStep

\* What the steps need to know of the job and its country.
LEMMA JobTypes ==
  ASSUME TrainerType, NEW j \in Jobs
  PROVE  /\ job[j] \in JobSet /\ JobOK(job[j])
         /\ job[j].stage # "done" => Country(j) \in Countries /\ job[j].todo # <<>>
         /\ job[j].stage \in Working => job[j].tag \in Tags
<1>1. job[j] \in JobSet /\ JobOK(job[j])
  BY DEF TrainerType
<1>2. job[j].todo \in Seq(Countries)
  BY <1>1 DEF JobSet
<1>3. ASSUME job[j].stage # "done"
      PROVE  job[j].todo # <<>>
  BY <1>1, <1>3 DEF JobOK
<1>4. job[j].todo # <<>> => Head(job[j].todo) \in Countries
  BY <1>2
<1> QED
  BY <1>1, <1>3, <1>4 DEF Country, JobOK

\* What a promotion makes of the country's rows: rows are added and retired, never
\* removed, and keep the run they are of.
Promotion(j, c, tag, champion) ==
  /\ versions[c][tag] = Nothing
  /\ \A d \in Countries \ {c} : versions'[d] = versions[d]
  /\ versions'[c][tag].run = j
  /\ \A t \in Tags \ {tag} :
       /\ versions'[c][t] = Nothing <=> versions[c][t] = Nothing
       /\ versions[c][t] # Nothing => versions'[c][t].run = versions[c][t].run
  /\ \A t \in Tags \ {tag, champion} : versions'[c][t] = versions[c][t]
  /\ versions'[c][tag].status = "active" \/ champion # Nothing
  /\ champion # Nothing =>
       \/ versions'[c][tag].status = "active" /\ versions'[c][champion].status = "retired"
       \/ versions'[c][tag].status = "retired" /\ versions'[c][champion] = versions[c][champion]

LEMMA PromotionEffect ==
  ASSUME TrainerType, NEW j \in Jobs, MaybePromote(j)
  PROVE  /\ Promotion(j, Country(j), job[j].tag, job[j].champion)
         /\ Country(j) \in Countries /\ job[j].tag \in Tags
         /\ versions' \in [Countries -> [Tags -> VersionRows \cup {Nothing}]]
         /\ versions'[Country(j)][job[j].tag] \in VersionRows
<1> DEFINE c == Country(j)
           tag == job[j].tag
           champion == job[j].champion
           promoted == champion = Nothing \/ Improves(job[j].mape, versions[c][champion].mape)
           row == [status |-> IF promoted THEN "active" ELSE "retired", mape |-> job[j].mape,
                   run |-> j, confidence |-> job[j].confidence]
<1>1. /\ c \in Countries /\ tag \in Tags /\ champion \in Tags \cup {Nothing}
      /\ versions[c][tag] = Nothing
  BY JobTypes DEF MaybePromote, JobAt, Working, JobSet
<1>2. row \in VersionRows /\ row.run = j
  <2>1. /\ job[j].mape \in {o.mape : o \in Outcomes}
        /\ job[j].confidence \in {"full", "transfer", "insufficient_data"}
    BY JobTypes DEF MaybePromote, JobAt, JobOK, JobSet
  <2> HIDE DEF promoted
  <2> QED
    BY <2>1 DEF VersionRows
<1>3. row.status = IF promoted THEN "active" ELSE "retired"
  OBVIOUS
<1>4. versions' = [versions EXCEPT ![c] =
                     IF promoted /\ champion # Nothing
                     THEN [@ EXCEPT ![tag] = row, ![champion].status = "retired"]
                     ELSE [@ EXCEPT ![tag] = row]]
  BY DEF MaybePromote
<1>5. /\ versions \in [Countries -> [Tags -> VersionRows \cup {Nothing}]]
      /\ versions[c] \in [Tags -> VersionRows \cup {Nothing}]
  BY <1>1 DEF TrainerType
<1>6. /\ Nothing \notin VersionRows /\ Nothing \notin Tags
      /\ champion # Nothing => versions[c][champion] # Nothing
  BY NothingAssumption DEF TrainerType, MaybePromote, JobAt
<1> HIDE DEF row, promoted, c, tag, champion
<1> DEFINE Goal == /\ Promotion(j, c, tag, champion)
                   /\ versions' \in [Countries -> [Tags -> VersionRows \cup {Nothing}]]
                   /\ versions'[c][tag] \in VersionRows
<1> SUFFICES Goal
  BY <1>1 DEF c, tag, champion
<1>7. ASSUME NEW rows \in [Tags -> VersionRows \cup {Nothing}],
             versions' = [versions EXCEPT ![c] = rows]
      PROVE  /\ versions' \in [Countries -> [Tags -> VersionRows \cup {Nothing}]]
             /\ versions'[c] = rows
             /\ \A d \in Countries \ {c} : versions'[d] = versions[d]
  BY <1>1, <1>5, <1>7
<1>8. CASE ~(promoted /\ champion # Nothing)
  <2> DEFINE rows == [versions[c] EXCEPT ![tag] = row]
  <2>1. versions' = [versions EXCEPT ![c] = rows]
    BY <1>4, <1>8
  <2>2. /\ rows \in [Tags -> VersionRows \cup {Nothing}]
        /\ rows[tag] = row /\ \A t \in Tags \ {tag} : rows[t] = versions[c][t]
    BY <1>1, <1>2, <1>5
  <2> HIDE DEF rows
  <2>3. /\ versions'[c] = rows /\ \A d \in Countries \ {c} : versions'[d] = versions[d]
        /\ versions' \in [Countries -> [Tags -> VersionRows \cup {Nothing}]]
    BY <1>7, <2>1, <2>2
  <2>4. IF champion = Nothing THEN row.status = "active" ELSE row.status = "retired"
    BY <1>3, <1>8 DEF promoted
  <2>5. champion # Nothing => champion \in Tags \ {tag}
    BY <1>1, <1>6
  <2>6. \A t \in Tags \ {tag} : versions'[c][t] = versions[c][t]
    BY <2>2, <2>3
  <2>7. versions'[c][tag] = row
    BY <2>2, <2>3
  <2>8. /\ versions'[c][tag].run = j
        /\ versions'[c][tag].status = "active" \/ champion # Nothing
    BY <1>2, <2>4, <2>7
  <2>9. champion # Nothing => versions'[c][tag].status = "retired" /\ versions'[c][champion] = versions[c][champion]
    BY <2>4, <2>5, <2>6, <2>7
  <2>10. versions'[c][tag] \in VersionRows
    BY <1>2, <2>7
  <2> QED
    BY <1>1, <2>3, <2>6, <2>8, <2>9, <2>10 DEF Promotion
<1>9. CASE promoted /\ champion # Nothing
  <2> DEFINE rows == [versions[c] EXCEPT ![tag] = row, ![champion].status = "retired"]
             retired == [versions[c][champion] EXCEPT !.status = "retired"]
  <2>1. versions' = [versions EXCEPT ![c] = rows]
    BY <1>4, <1>9
  <2>2. champion \in Tags \ {tag} /\ versions[c][champion] \in VersionRows
    BY <1>1, <1>5, <1>6, <1>9
  <2>3. /\ retired \in VersionRows /\ retired.status = "retired"
        /\ retired.run = versions[c][champion].run
    BY <2>2 DEF VersionRows
  <2>4. rows = [[versions[c] EXCEPT ![tag] = row] EXCEPT ![champion] = retired]
    BY <1>1, <1>5, <2>2
  <2> HIDE DEF rows, retired
  <2>5. /\ rows \in [Tags -> VersionRows \cup {Nothing}]
        /\ rows[tag] = row /\ rows[champion] = retired
        /\ \A t \in Tags \ {tag, champion} : rows[t] = versions[c][t]
    BY <1>1, <1>2, <1>5, <2>2, <2>3, <2>4
  <2>6. /\ versions'[c] = rows /\ \A d \in Countries \ {c} : versions'[d] = versions[d]
        /\ versions' \in [Countries -> [Tags -> VersionRows \cup {Nothing}]]
    BY <1>7, <2>1, <2>5
  <2>7. row.status = "active"
    BY <1>3, <1>9
  <2>8. /\ versions'[c][tag] = row /\ versions'[c][champion] = retired
        /\ \A t \in Tags \ {tag, champion} : versions'[c][t] = versions[c][t]
    BY <2>5, <2>6
  <2>9. /\ retired # Nothing /\ versions[c][champion] # Nothing
        /\ versions'[c][champion].run = versions[c][champion].run
    BY <1>6, <2>2, <2>3, <2>8
  <2>10. \A t \in Tags \ {tag} :
           /\ versions'[c][t] = Nothing <=> versions[c][t] = Nothing
           /\ versions[c][t] # Nothing => versions'[c][t].run = versions[c][t].run
    BY <2>8, <2>9
  <2>11. /\ versions'[c][tag].run = j /\ versions'[c][tag].status = "active"
         /\ versions'[c][champion].status = "retired" /\ versions'[c][tag] \in VersionRows
    BY <1>2, <2>3, <2>7, <2>8
  <2> QED
    BY <1>1, <2>6, <2>8, <2>10, <2>11 DEF Promotion
<1> QED
  BY <1>8, <1>9

-----------------------------------------------------------------------------
(* The steps keep the types                                                 *)

\* A step concerns one job, whose new record is JobOK; a blocked or locked job keeps
\* its country, and the champion it has read is a row of it.
JobEffect(j) ==
  /\ job' = [job EXCEPT ![j] = job'[j]]
  /\ JobOK(job'[j])
  /\ job'[j].stage \in {"blocked", "locked"} /\ job'[j].champion # Nothing =>
       /\ versions' = versions
       /\ versions[Country(j)][job'[j].champion] # Nothing
       /\ job'[j].todo = job[j].todo

LEMMA TakeEffect ==
  ASSUME TrainerType, NEW j \in Jobs, TakeVersionTag(j)
  PROVE  /\ job' = [job EXCEPT ![j] = job'[j]] /\ JobOK(job'[j])
         /\ job'[j] = [job[j] EXCEPT !.stage = "train", !.tag = NextVersionTag(Country(j))]
         /\ job'[j].stage = "train" /\ job'[j].todo = job[j].todo
         /\ job'[j].tag = NextVersionTag(Country(j)) /\ job'[j].tag \in Tags
         /\ job[j].stage = "country" /\ UNCHANGED <<versions, objects>>
<1> DEFINE tag == NextVersionTag(Country(j))
           r   == [job[j] EXCEPT !.stage = "train", !.tag = tag]
<1>1. /\ job[j].stage = "country" /\ tag \in Tags /\ UNCHANGED <<versions, objects>>
      /\ job' = [job EXCEPT ![j].stage = "train", ![j].tag = tag]
  BY DEF TakeVersionTag, JobAt
<1> HIDE DEF tag
<1>2. job[j] \in JobSet /\ JobOK(job[j]) /\ job \in [Jobs -> JobSet]
  BY JobTypes DEF TrainerType
<1>3. job' = [job EXCEPT ![j] = r] /\ job'[j] = r
  BY <1>1, <1>2 DEF JobSet
<1>4. tag \in 0..MaxTags
  BY <1>1, TagsAssumption DEF Tags
<1>5. r \in JobSet /\ r.stage = "train" /\ r.tag = tag /\ r.todo = job[j].todo
  BY <1>2, <1>4 DEF JobSet, Stages, Working
<1>6. JobOK(r)
  BY <1>1, <1>2, <1>5 DEF JobOK, Working
<1> QED
  BY <1>1, <1>3, <1>5, <1>6 DEF tag

LEMMA EvaluatedEffect ==
  ASSUME TrainerType, NEW j \in Jobs, NEW outcome \in Outcomes,
         NEW confidence \in {"full", "transfer", "insufficient_data"},
         JobAt(j, "train"), Evaluated(j, outcome, confidence)
  PROVE  /\ job' = [job EXCEPT ![j] = job'[j]] /\ JobOK(job'[j])
         /\ job'[j].stage = "engineer" /\ job'[j].todo = job[j].todo /\ job'[j].tag = job[j].tag
         /\ job'[j].width = outcome.width /\ job'[j].champion = job[j].champion
         /\ job[j].stage = "train" /\ UNCHANGED <<versions, collided>>
<1> DEFINE r == [job[j] EXCEPT !.stage = "engineer", !.mape = outcome.mape, !.width = outcome.width,
                               !.confidence = confidence]
<1>1. /\ job[j].stage = "train" /\ UNCHANGED <<versions, collided>>
      /\ job' = [job EXCEPT ![j].stage = "engineer", ![j].mape = outcome.mape, ![j].width = outcome.width,
                            ![j].confidence = confidence]
  BY DEF Evaluated, JobAt
<1>2. job[j] \in JobSet /\ JobOK(job[j]) /\ job \in [Jobs -> JobSet]
  BY JobTypes DEF TrainerType
<1>3. job' = [job EXCEPT ![j] = r] /\ job'[j] = r
  BY <1>1, <1>2 DEF JobSet
<1>4. outcome.mape \in {o.mape : o \in Outcomes} /\ outcome.width \in Widths
  BY DEF Widths
<1>5. /\ r \in JobSet /\ r.stage = "engineer" /\ r.tag = job[j].tag /\ r.todo = job[j].todo
      /\ r.mape = outcome.mape /\ r.width = outcome.width /\ r.champion = job[j].champion
  BY <1>2, <1>4 DEF JobSet, Stages, Working
<1>6. JobOK(r)
  BY <1>1, <1>2, <1>4, <1>5 DEF JobOK, Working
<1> QED
  BY <1>1, <1>3, <1>5, <1>6

LEMMA UploadEffect ==
  ASSUME TrainerType, NEW j \in Jobs, UploadEngineer(j)
  PROVE  /\ job' = [job EXCEPT ![j] = job'[j]] /\ JobOK(job'[j])
         /\ job'[j].stage = "select" /\ job'[j].todo = job[j].todo /\ job'[j].tag = job[j].tag
         /\ job'[j].width = job[j].width /\ job'[j].champion = job[j].champion
         /\ job[j].stage = "engineer" /\ UNCHANGED <<versions, collided>>
<1> DEFINE r == [job[j] EXCEPT !.stage = "select"]
<1>1. /\ job[j].stage = "engineer" /\ UNCHANGED <<versions, collided>>
      /\ job' = [job EXCEPT ![j].stage = "select"]
  BY DEF UploadEngineer, JobAt
<1>2. job[j] \in JobSet /\ JobOK(job[j]) /\ job \in [Jobs -> JobSet]
  BY JobTypes DEF TrainerType
<1>3. job' = [job EXCEPT ![j] = r] /\ job'[j] = r
  BY <1>1, <1>2 DEF JobSet
<1>5. /\ r \in JobSet /\ r.stage = "select" /\ r.tag = job[j].tag /\ r.todo = job[j].todo
      /\ r.mape = job[j].mape /\ r.width = job[j].width /\ r.champion = job[j].champion
  BY <1>2 DEF JobSet, Stages, Working
<1>6. JobOK(r)
  BY <1>1, <1>2, <1>5 DEF JobOK, Working
<1> QED
  BY <1>1, <1>3, <1>5, <1>6

LEMMA ChampionEffect ==
  ASSUME TrainerType, NEW j \in Jobs, NEW stage \in {"blocked", "locked"}, NEW champion \in Tags \cup {Nothing},
         job[j].stage \in {"select", "blocked"},
         job' = [job EXCEPT ![j].champion = champion, ![j].stage = stage]
  PROVE  /\ job' = [job EXCEPT ![j] = job'[j]] /\ JobOK(job'[j])
         /\ job'[j].stage = stage /\ job'[j].todo = job[j].todo /\ job'[j].tag = job[j].tag
         /\ job'[j].width = job[j].width /\ job'[j].champion = champion
<1> DEFINE r == [job[j] EXCEPT !.champion = champion, !.stage = stage]
<1>2. job[j] \in JobSet /\ JobOK(job[j]) /\ job \in [Jobs -> JobSet]
  BY JobTypes DEF TrainerType
<1>3. job' = [job EXCEPT ![j] = r] /\ job'[j] = r
  BY <1>2 DEF JobSet
<1>5. /\ r \in JobSet /\ r.stage = stage /\ r.tag = job[j].tag /\ r.todo = job[j].todo
      /\ r.mape = job[j].mape /\ r.width = job[j].width /\ r.champion = champion
  BY <1>2 DEF JobSet, Stages, Working
<1>6. JobOK(r)
  BY <1>2, <1>5 DEF JobOK, Working
<1> QED
  BY <1>3, <1>5, <1>6

-----------------------------------------------------------------------------
(* The registry                                                             *)

\* The rows of a country are numbered without a gap, and once there are any exactly
\* one is active.
Registry(c) ==
  /\ \E n \in 0..MaxTags : Registered(c) = 1..n
  /\ Registered(c) # {} => ActiveTags(c) # {}
  /\ \A t, u \in ActiveTags(c) : t = u

\* Nobody works on a tag beyond the next one: that is why one insert at most finds
\* its tag free, whoever holds the lock.
TagNext(j) == job[j].stage \in Working => \A t \in 1..(job[j].tag - 1) : t \in Registered(Country(j))

\* What a job has read of the champion is out of date only when its tag is taken.
ChampionKnown(j) ==
  job[j].stage \in {"blocked", "locked"} =>
    \/ job[j].tag \in Registered(Country(j))
    \/ IF job[j].champion = Nothing THEN ActiveTags(Country(j)) = {} ELSE job[j].champion \in ActiveTags(Country(j))
BlockedKnows(j) == job[j].stage = "blocked" => job[j].champion # Nothing

RegistryInv ==
  /\ \A c \in Countries : Registry(c)
  /\ \A j \in Jobs : TagNext(j) /\ ChampionKnown(j) /\ BlockedKnows(j)

LEMMA MaxIs ==
  ASSUME NEW S, NEW n \in S, n \in Int, \A t \in S : t \in Int /\ t <= n
  PROVE  Max(S) = n
<1>1. \A y \in S : n >= y
  OBVIOUS
<1>2. Max(S) \in S /\ \A y \in S : Max(S) >= y
  <2> DEFINE Top(x) == \A y \in S : x >= y
  <2>1. Max(S) = CHOOSE x \in S : Top(x)
    BY DEF Max
  <2>2. \E x \in S : Top(x)
    BY <1>1
  <2> HIDE DEF Top
  <2>3. Max(S) \in S /\ Top(Max(S))
    BY <2>1, <2>2
  <2> QED
    BY <2>3 DEF Top
<1> DEFINE m == Max(S)
<1>3. m \in Int /\ m <= n /\ m >= n
  BY <1>2
<1> HIDE DEF m
<1>4. m = n
  BY <1>3
<1> QED
  BY <1>4 DEF m

\* The youngest row, and the row that is active.
LEMMA Youngest ==
  ASSUME NEW c \in Countries, Registry(c)
  PROVE  /\ \E n \in 0..MaxTags : Registered(c) = 1..n /\ NextVersionTag(c) = n + 1
         /\ ActiveTags(c) # {} => Max(ActiveTags(c)) \in ActiveTags(c)
<1>1. PICK n \in 0..MaxTags : Registered(c) = 1..n
  BY DEF Registry
<1>2. n \in Nat
  BY TagsAssumption
<1>3. CASE n = 0
  <2>1. Registered(c) = {}
    BY <1>1, <1>3
  <2> QED
    BY <1>1, <1>3, <2>1 DEF NextVersionTag, ActiveTags
<1>4. CASE n # 0
  <2>1. n \in Registered(c) /\ \A t \in Registered(c) : t \in Int /\ t <= n
    BY <1>1, <1>2, <1>4
  <2>2. Max(Registered(c)) = n
    BY <1>2, <2>1, MaxIs
  <2>3. NextVersionTag(c) = n + 1
    <3>1. Registered(c) # {}
      BY <2>1
    <3> QED
      BY <2>2, <3>1 DEF NextVersionTag
  <2>4. ASSUME NEW a \in ActiveTags(c)
        PROVE  Max(ActiveTags(c)) \in ActiveTags(c)
    <3>1. ActiveTags(c) = {a} /\ a \in Int
      BY <2>1, <2>4 DEF Registry, ActiveTags
    <3>2. Max({a}) = a
      BY <3>1, MaxIs
    <3> QED
      BY <3>1, <3>2
  <2> QED
    BY <1>1, <2>3, <2>4
<1> QED
  BY <1>3, <1>4

LEMMA RowSets ==
  ASSUME TrainerType, NEW c \in Countries
  PROVE  /\ Registered(c) \subseteq Tags /\ ActiveTags(c) \subseteq Registered(c)
         /\ Nothing \notin Registered(c)
BY NothingAssumption DEF Registered, ActiveTags

LEMMA SelectEffect ==
  ASSUME TrainerType, RegistryInv, NEW j \in Jobs, SelectChampion(j)
  PROVE  \E stage \in {"blocked", "locked"}, champion \in Tags \cup {Nothing} :
           /\ job[j].stage = "select" /\ OnlyJob
           /\ job' = [job EXCEPT ![j].champion = champion, ![j].stage = stage]
           /\ IF champion = Nothing THEN ActiveTags(Country(j)) = {} ELSE champion \in ActiveTags(Country(j))
           /\ stage = "blocked" => champion # Nothing
<1> DEFINE c == Country(j)
           found == IF ActiveTags(c) = {} THEN Nothing ELSE Max(ActiveTags(c))
           stage == IF found # Nothing /\ Holder(c) # {} THEN "blocked" ELSE "locked"
<1>1. /\ job[j].stage = "select" /\ OnlyJob
      /\ job' = [job EXCEPT ![j].champion = found, ![j].stage = stage]
  BY DEF SelectChampion, JobAt
<1>2. c \in Countries
  BY <1>1, JobTypes
<1>3. ActiveTags(c) # {} => Max(ActiveTags(c)) \in ActiveTags(c)
  BY <1>2, Youngest DEF RegistryInv
<1>4. /\ found \in Tags \cup {Nothing}
      /\ IF found = Nothing THEN ActiveTags(c) = {} ELSE found \in ActiveTags(c)
  BY <1>2, <1>3, RowSets
<1>5. stage \in {"blocked", "locked"} /\ (stage = "blocked" => found # Nothing)
  OBVIOUS
<1> HIDE DEF stage, found
<1> QED
  BY <1>1, <1>4, <1>5 DEF c

LEMMA UnblockEffect ==
  ASSUME TrainerType, RegistryInv, NEW j \in Jobs, Unblock(j)
  PROVE  \E champion \in Tags \cup {Nothing} :
           /\ job[j].stage = "blocked" /\ OnlyJob
           /\ job' = [job EXCEPT ![j].champion = champion, ![j].stage = "locked"]
           /\ \/ job[j].tag \in Registered(Country(j))
              \/ IF champion = Nothing THEN ActiveTags(Country(j)) = {} ELSE champion \in ActiveTags(Country(j))
           /\ champion = Nothing \/ champion \in ActiveTags(Country(j))
<1> DEFINE c == Country(j)
           champion == IF job[j].champion \in ActiveTags(c) THEN job[j].champion ELSE Nothing
<1>1. job[j].stage = "blocked" /\ OnlyJob /\ job[j] \in JobSet /\ job \in [Jobs -> JobSet]
  BY DEF Unblock, JobAt, TrainerType
<1>2. job' = [job EXCEPT ![j].champion = champion, ![j].stage = "locked"]
  <2>1. job' = [job EXCEPT ![j].stage = "locked",
                           ![j].champion = IF @ \in ActiveTags(c) THEN @ ELSE Nothing]
    BY DEF Unblock
  <2> QED
    BY <1>1, <2>1 DEF JobSet
<1>3. c \in Countries
  BY <1>1, JobTypes
<1>4. champion \in Tags \cup {Nothing} /\ (champion = Nothing \/ champion \in ActiveTags(c))
  BY <1>3, RowSets
<1>5. job[j].tag \in Registered(c) \/ champion \in ActiveTags(c)
  BY <1>1 DEF RegistryInv, ChampionKnown, BlockedKnows
<1>6. champion \in ActiveTags(c) => champion # Nothing
  BY <1>3, RowSets
<1> HIDE DEF champion
<1> QED
  BY <1>1, <1>2, <1>4, <1>5, <1>6 DEF c

\* A step of one job that leaves the rows alone: what has to be shown of the job.
JobFits(j) ==
  /\ TagNext(j) /\ ChampionKnown(j) /\ BlockedKnows(j)
  /\ job[j].stage \in {"blocked", "locked"} /\ job[j].champion # Nothing =>
       versions[Country(j)][job[j].champion] # Nothing

LEMMA QuietStep ==
  ASSUME TrainerType, RegistryInv, NEW j \in Jobs, versions' = versions,
         objects' \in [Countries -> [Tags -> [Kinds -> Artifacts \cup {Nothing}]]],
         job' = [job EXCEPT ![j] = job'[j]], JobOK(job'[j]), JobFits(j)'
  PROVE  TrainerType' /\ RegistryInv'
<1>1. job \in [Jobs -> JobSet] /\ job'[j] \in JobSet
  BY DEF TrainerType, JobOK
<1>2. job' \in [Jobs -> JobSet] /\ \A i \in Jobs \ {j} : job'[i] = job[i]
  BY <1>1
<1>3. \A i \in Jobs : JobOK(job'[i])
  BY <1>2 DEF TrainerType
<1>4. \A i \in Jobs : job'[i].stage \in {"blocked", "locked"} /\ job'[i].champion # Nothing =>
                        versions'[Country(i)'][job'[i].champion] # Nothing
  <2> TAKE i \in Jobs
  <2>1. CASE i = j
    BY <2>1 DEF JobFits
  <2>2. CASE i # j
    <3>1. job'[i] = job[i] /\ Country(i)' = Country(i)
      BY <1>2, <2>2 DEF Country
    <3> QED
      BY <3>1 DEF TrainerType
  <2> QED
    BY <2>1, <2>2
<1>5. TrainerType'
  <2>1. versions' \in [Countries -> [Tags -> VersionRows \cup {Nothing}]]
    BY DEF TrainerType
  <2> QED
    BY <1>2, <1>3, <1>4, <2>1 DEF TrainerType
<1>6. \A c \in Countries : Registered(c)' = Registered(c) /\ ActiveTags(c)' = ActiveTags(c)
  BY DEF Registered, ActiveTags
<1>7. ASSUME NEW c \in Countries
      PROVE  Registry(c)'
  BY <1>6 DEF RegistryInv, Registry
<1>8. ASSUME NEW i \in Jobs
      PROVE  (TagNext(i) /\ ChampionKnown(i) /\ BlockedKnows(i))'
  <2>1. CASE i = j
    BY <2>1 DEF JobFits
  <2>2. CASE i # j
    <3>1. job'[i] = job[i] /\ Country(i)' = Country(i)
      BY <1>2, <2>2 DEF Country
    <3>2. job[i].stage \in Working => Country(i) \in Countries
      BY JobTypes DEF Working
    <3>3. TagNext(i)'
      BY <1>6, <3>1, <3>2 DEF RegistryInv, TagNext
    <3>4. ChampionKnown(i)'
      BY <1>6, <3>1, <3>2 DEF RegistryInv, ChampionKnown, Working
    <3>5. BlockedKnows(i)'
      BY <3>1 DEF RegistryInv, BlockedKnows
    <3> QED
      BY <3>3, <3>4, <3>5
  <2> QED
    BY <2>1, <2>2
<1> QED
  BY <1>5, <1>7, <1>8 DEF RegistryInv

\* A job that is neither at the lock nor beyond its tag's turn.
LEMMA Unlocked ==
  ASSUME NEW j \in Jobs, job'[j].stage \notin {"blocked", "locked"},
         job'[j].stage \in Working => job'[j].tag = job[j].tag /\ Country(j)' = Country(j)
                                      /\ TagNext(j) /\ job[j].stage \in Working /\ Registered(Country(j))' = Registered(Country(j))
  PROVE  JobFits(j)'
BY DEF JobFits, TagNext, ChampionKnown, BlockedKnows

LEMMA PutType ==
  ASSUME TrainerType, NEW j \in Jobs, job[j].stage \in Working, NEW kind \in Kinds, NEW width \in Widths,
         Put(j, kind, width)
  PROVE  /\ objects' \in [Countries -> [Tags -> [Kinds -> Artifacts \cup {Nothing}]]]
         /\ objects'[Country(j)][job[j].tag][kind] = [run |-> j, width |-> width]
         /\ \A c \in Countries, t \in Tags, k \in Kinds :
              <<c, t, k>> # <<Country(j), job[j].tag, kind>> => objects'[c][t][k] = objects[c][t][k]
<1> DEFINE c == Country(j)
           t == job[j].tag
           o == [run |-> j, width |-> width]
<1>1. c \in Countries /\ t \in Tags
  BY JobTypes DEF Working
<1>2. o \in Artifacts
  BY DEF Artifacts
<1>3. objects' = [objects EXCEPT ![c][t][kind] = o]
  BY DEF Put
<1>4. objects \in [Countries -> [Tags -> [Kinds -> Artifacts \cup {Nothing}]]]
  BY DEF TrainerType
<1> HIDE DEF o, c, t
<1>5. /\ objects' \in [Countries -> [Tags -> [Kinds -> Artifacts \cup {Nothing}]]]
      /\ objects'[c][t][kind] = o
  BY <1>1, <1>2, <1>3, <1>4
<1>6. ASSUME NEW d \in Countries, NEW u \in Tags, NEW k \in Kinds, d # c \/ u # t \/ k # kind
      PROVE  objects'[d][u][k] = objects[d][u][k]
  BY <1>1, <1>3, <1>4, <1>6
<1> QED
  BY <1>5, <1>6 DEF c, t, o

\* The steps that insert no row.
LEMMA QuietCases ==
  ASSUME TrainerType, RegistryInv, NEW j \in Jobs, TrainerCases(j), ~MaybePromote(j)
  PROVE  TrainerType' /\ RegistryInv'
<1>1. objects \in [Countries -> [Tags -> [Kinds -> Artifacts \cup {Nothing}]]]
  BY DEF TrainerType
<1>2. versions' = versions => \A c : Registered(c)' = Registered(c) /\ ActiveTags(c)' = ActiveTags(c)
  BY DEF Registered, ActiveTags
<1>3. CASE Turned(j) /\ UNCHANGED <<versions, objects, collided>>
  <2>1. job' = [job EXCEPT ![j] = job'[j]] /\ JobOK(job'[j]) /\ job'[j].stage \notin Working
    BY <1>3 DEF Turned, Working
  <2>2. JobFits(j)'
    BY <2>1, Unlocked DEF Working
  <2> QED
    BY <1>1, <1>3, <2>1, <2>2, QuietStep
<1>4. CASE TakeVersionTag(j)
  <2> DEFINE c == Country(j)
  <2>1. /\ job' = [job EXCEPT ![j] = job'[j]] /\ JobOK(job'[j])
        /\ job'[j].stage = "train" /\ job'[j].todo = job[j].todo
        /\ job'[j].tag = NextVersionTag(c) /\ job[j].stage = "country" /\ UNCHANGED <<versions, objects>>
    BY <1>4, TakeEffect
  <2>2. c \in Countries /\ Country(j)' = c
    BY <2>1, JobTypes DEF Country
  <2>3. PICK n \in 0..MaxTags : Registered(c) = 1..n /\ NextVersionTag(c) = n + 1
    BY <2>2, Youngest DEF RegistryInv
  <2>4. n \in Nat /\ 1..(n + 1 - 1) = 1..n
    BY TagsAssumption
  <2>5. TagNext(j)'
    BY <1>2, <2>1, <2>2, <2>3, <2>4 DEF TagNext
  <2>6. JobFits(j)'
    BY <2>1, <2>5 DEF JobFits, ChampionKnown, BlockedKnows
  <2> QED
    BY <1>1, <2>1, <2>6, QuietStep
<1>5. ASSUME NEW outcome \in Outcomes, NEW confidence \in {"full", "transfer", "insufficient_data"},
             JobAt(j, "train"), Evaluated(j, outcome, confidence)
      PROVE  TrainerType' /\ RegistryInv'
  <2>1. /\ job' = [job EXCEPT ![j] = job'[j]] /\ JobOK(job'[j])
        /\ job'[j].stage = "engineer" /\ job'[j].todo = job[j].todo /\ job'[j].tag = job[j].tag
        /\ job[j].stage = "train" /\ UNCHANGED <<versions, collided>>
    BY <1>5, EvaluatedEffect
  <2>2. Put(j, "onnx", outcome.width) /\ outcome.width \in Widths
    BY <1>5 DEF Evaluated, Widths
  <2>3. objects' \in [Countries -> [Tags -> [Kinds -> Artifacts \cup {Nothing}]]]
    BY <2>1, <2>2, PutType DEF Working, Kinds
  <2>4. JobFits(j)'
    BY <1>2, <2>1, Unlocked DEF Working, Country, RegistryInv
  <2> QED
    BY <2>1, <2>3, <2>4, QuietStep
<1>6. CASE UploadEngineer(j)
  <2>1. /\ job' = [job EXCEPT ![j] = job'[j]] /\ JobOK(job'[j])
        /\ job'[j].stage = "select" /\ job'[j].todo = job[j].todo /\ job'[j].tag = job[j].tag
        /\ job[j].stage = "engineer" /\ UNCHANGED <<versions, collided>>
    BY <1>6, UploadEffect
  <2>2. Put(j, "engineer", job[j].width) /\ job[j].width \in Widths
    BY <1>6, <2>1, JobTypes DEF UploadEngineer, JobOK
  <2>3. objects' \in [Countries -> [Tags -> [Kinds -> Artifacts \cup {Nothing}]]]
    BY <2>1, <2>2, PutType DEF Working, Kinds
  <2>4. JobFits(j)'
    BY <1>2, <2>1, Unlocked DEF Working, Country, RegistryInv
  <2> QED
    BY <2>1, <2>3, <2>4, QuietStep
<1>7. ASSUME NEW stage \in {"blocked", "locked"}, NEW champion \in Tags \cup {Nothing},
             job[j].stage \in {"select", "blocked"}, OnlyJob,
             job' = [job EXCEPT ![j].champion = champion, ![j].stage = stage],
             champion = Nothing \/ champion \in ActiveTags(Country(j)),
             \/ job[j].tag \in Registered(Country(j))
             \/ IF champion = Nothing THEN ActiveTags(Country(j)) = {} ELSE champion \in ActiveTags(Country(j)),
             stage = "blocked" => champion # Nothing
      PROVE  TrainerType' /\ RegistryInv'
  <2> DEFINE c == Country(j)
  <2>1. /\ job' = [job EXCEPT ![j] = job'[j]] /\ JobOK(job'[j])
        /\ job'[j].stage = stage /\ job'[j].todo = job[j].todo /\ job'[j].tag = job[j].tag
        /\ job'[j].champion = champion
    BY <1>7, ChampionEffect
  <2>2. versions' = versions /\ objects' = objects
    BY <1>7 DEF OnlyJob
  <2>3. c \in Countries /\ Country(j)' = c /\ job[j].stage \in Working
    BY <1>7, <2>1, JobTypes DEF Country, Working
  <2>4. TagNext(j)'
    BY <1>2, <2>1, <2>2, <2>3 DEF TagNext, RegistryInv
  <2>5. ChampionKnown(j)' /\ BlockedKnows(j)'
    BY <1>2, <1>7, <2>1, <2>2, <2>3 DEF ChampionKnown, BlockedKnows
  <2>6. champion # Nothing => versions[c][champion] # Nothing
    BY <1>7 DEF ActiveTags, Registered
  <2>7. JobFits(j)'
    BY <2>1, <2>2, <2>3, <2>4, <2>5, <2>6 DEF JobFits
  <2> QED
    BY <1>1, <2>1, <2>2, <2>7, QuietStep
<1>8. CASE SelectChampion(j)
  <2>1. PICK stage \in {"blocked", "locked"}, champion \in Tags \cup {Nothing} :
           /\ job[j].stage = "select" /\ OnlyJob
           /\ job' = [job EXCEPT ![j].champion = champion, ![j].stage = stage]
           /\ IF champion = Nothing THEN ActiveTags(Country(j)) = {} ELSE champion \in ActiveTags(Country(j))
           /\ stage = "blocked" => champion # Nothing
    BY <1>8, SelectEffect
  <2> QED
    BY <1>7, <2>1
<1>9. CASE Unblock(j)
  <2>1. PICK champion \in Tags \cup {Nothing} :
           /\ job[j].stage = "blocked" /\ OnlyJob
           /\ job' = [job EXCEPT ![j].champion = champion, ![j].stage = "locked"]
           /\ \/ job[j].tag \in Registered(Country(j))
              \/ IF champion = Nothing THEN ActiveTags(Country(j)) = {} ELSE champion \in ActiveTags(Country(j))
           /\ champion = Nothing \/ champion \in ActiveTags(Country(j))
    BY <1>9, UnblockEffect
  <2> QED
    BY <1>7, <2>1
<1> QED
  BY <1>3, <1>4, <1>5, <1>6, <1>8, <1>9 DEF TrainerCases

\* The insert of a version: its tag is the next one, so the champion is the one read.
LEMMA InsertStep ==
  ASSUME TrainerType, RegistryInv, NEW j \in Jobs, MaybePromote(j), Turned(j),
         NEW c \in Countries, NEW tag \in Tags, NEW champion \in Tags \cup {Nothing},
         c = Country(j), tag = job[j].tag, champion = job[j].champion
  PROVE  /\ TrainerType' /\ RegistryInv'
         /\ \A d \in Countries, t \in Tags : versions[d][t] # Nothing =>
              versions'[d][t] # Nothing /\ versions'[d][t].run = versions[d][t].run
         /\ versions'[c][tag] # Nothing /\ versions'[c][tag].run = j
         /\ \A d \in Countries : Registered(d)' = IF d = c THEN Registered(d) \cup {tag} ELSE Registered(d)
<1>1. /\ Promotion(j, c, tag, champion)
      /\ c \in Countries /\ tag \in Tags
      /\ versions' \in [Countries -> [Tags -> VersionRows \cup {Nothing}]]
      /\ versions'[c][tag] \in VersionRows
  BY PromotionEffect
<1>2. /\ job[j].stage = "locked" /\ objects' = objects /\ versions[c][tag] = Nothing
      /\ job[j] \in JobSet
  BY DEF MaybePromote, JobAt, TrainerType
<1>3. /\ TagNext(j) /\ ChampionKnown(j) /\ Registry(c)
  BY <1>1 DEF RegistryInv
<1>4. /\ job \in [Jobs -> JobSet] /\ job'[j] \in JobSet /\ JobOK(job'[j])
      /\ job' = [job EXCEPT ![j] = job'[j]] /\ job'[j].stage \in {"country", "done"}
  BY DEF TrainerType, Turned, JobOK
<1>5. job' \in [Jobs -> JobSet] /\ \A i \in Jobs \ {j} : job'[i] = job[i] /\ Country(i)' = Country(i)
  BY <1>4 DEF Country
<1>6. Nothing \notin VersionRows /\ versions'[c][tag] # Nothing /\ versions'[c][tag].run = j
  BY <1>1, NothingAssumption DEF Promotion
<1>7. PICK n \in 0..MaxTags : Registered(c) = 1..n
  BY <1>3 DEF Registry
<1>8. n \in Nat /\ tag \in 1..MaxTags /\ tag \notin Registered(c) /\ MaxTags \in Nat
  BY <1>1, <1>2, TagsAssumption DEF Tags, Registered
<1>9. \A t \in 1..(tag - 1) : t \in 1..n
  BY <1>2, <1>3, <1>7 DEF TagNext, Working
<1>10. tag = n + 1
  <2>1. tag >= n + 1
    BY <1>7, <1>8
  <2>2. ~(n + 1 <= tag - 1)
    <3>1. SUFFICES ASSUME n + 1 <= tag - 1
                   PROVE  FALSE
      OBVIOUS
    <3>2. n + 1 \in 1..(tag - 1)
      BY <1>8, <3>1
    <3>3. n + 1 \in 1..n
      BY <1>9, <3>2
    <3> QED
      BY <1>8, <3>3
  <2> QED
    BY <1>8, <2>1, <2>2
<1>11. /\ Registered(c)' = Registered(c) \cup {tag}
       /\ \A d \in Countries \ {c} : Registered(d)' = Registered(d) /\ ActiveTags(d)' = ActiveTags(d)
  <2>1. \A t \in Tags \ {tag} : versions'[c][t] = Nothing <=> versions[c][t] = Nothing
    BY <1>1 DEF Promotion
  <2>2. \A d \in Countries \ {c} : versions'[d] = versions[d]
    BY <1>1 DEF Promotion
  <2> QED
    BY <1>1, <1>6, <2>1, <2>2 DEF Registered, ActiveTags
<1>12. ActiveTags(c)' = {tag} \/ (champion # Nothing /\ ActiveTags(c)' = {champion})
  <2>1. CASE champion = Nothing
    <3>1. ActiveTags(c) = {}
      BY <1>2, <1>3, <1>8, <2>1 DEF ChampionKnown
    <3>2. \A t \in Tags \ {tag} : versions'[c][t] = versions[c][t]
      BY <1>8, <2>1, <1>1, NothingAssumption DEF Promotion
    <3>3. versions'[c][tag].status = "active"
      BY <1>1, <2>1 DEF Promotion
    <3>4. tag \in ActiveTags(c)' /\ ActiveTags(c)' \subseteq {tag}
      BY <1>1, <1>6, <3>1, <3>2, <3>3 DEF ActiveTags, Registered
    <3> QED
      BY <3>4
  <2>2. CASE champion # Nothing
    <3>1. champion \in ActiveTags(c) /\ \A t \in ActiveTags(c) : t = champion
      BY <1>2, <1>3, <1>8, <2>2 DEF ChampionKnown, Registry
    <3>2. champion \in Registered(c) /\ champion \in Tags /\ champion # tag
      BY <1>8, <3>1 DEF ActiveTags, Registered
    <3>3. versions[c][champion].status = "active" /\ versions[c][champion] # Nothing
      BY <3>1 DEF ActiveTags, Registered
    <3>4. \A t \in Tags \ {tag, champion} : versions'[c][t] = versions[c][t]
      BY <1>1 DEF Promotion
    <3>5. versions'[c][champion] # Nothing
      BY <1>1, <3>2, <3>3 DEF Promotion
    <3>6. \A t \in Tags \ {tag, champion} : t \notin ActiveTags(c)'
      BY <3>1, <3>4 DEF ActiveTags, Registered
    <3>7. ActiveTags(c)' \subseteq {tag, champion}
      BY <3>6 DEF ActiveTags, Registered
    <3>8. \/ versions'[c][tag].status = "active" /\ versions'[c][champion].status = "retired"
          \/ versions'[c][tag].status = "retired" /\ versions'[c][champion] = versions[c][champion]
      BY <1>1, <2>2 DEF Promotion
    <3>9. \/ tag \in ActiveTags(c)' /\ champion \notin ActiveTags(c)'
          \/ tag \notin ActiveTags(c)' /\ champion \in ActiveTags(c)'
      BY <1>1, <1>6, <3>2, <3>3, <3>5, <3>8 DEF ActiveTags, Registered
    <3> QED
      BY <2>2, <3>7, <3>9
  <2> QED
    BY <2>1, <2>2
<1>13. ASSUME NEW d \in Countries
       PROVE  Registry(d)'
  <2>1. CASE d = c
    <3>1. Registered(c)' = 1..(n + 1) /\ n + 1 \in 0..MaxTags
      BY <1>7, <1>8, <1>10, <1>11
    <3> QED
      BY <1>12, <2>1, <3>1 DEF Registry
  <2>2. CASE d # c
    BY <1>11, <2>2 DEF RegistryInv, Registry
  <2> QED
    BY <2>1, <2>2
<1>14. ASSUME NEW i \in Jobs
       PROVE  (TagNext(i) /\ ChampionKnown(i) /\ BlockedKnows(i))'
  <2>1. CASE i = j
    BY <1>4, <2>1 DEF TagNext, ChampionKnown, BlockedKnows, Working
  <2>2. CASE i # j
    <3>1. job'[i] = job[i] /\ Country(i)' = Country(i)
      BY <1>5, <2>2
    <3>2. job[i].stage \in Working => Country(i) \in Countries /\ job[i].tag \in Tags
      BY JobTypes DEF Working
    <3>3. TagNext(i)'
      BY <1>11, <3>1, <3>2 DEF RegistryInv, TagNext
    <3>4. BlockedKnows(i)'
      BY <3>1 DEF RegistryInv, BlockedKnows
    <3>5. ChampionKnown(i)'
      <4>1. CASE Country(i) = c /\ job[i].stage \in Working
        <5>1. job[i].tag \in Nat \ {0} /\ \A t \in 1..(job[i].tag - 1) : t \in 1..n
          BY <1>7, <3>2, <4>1, TagsAssumption DEF RegistryInv, TagNext, Tags
        <5>2. ~(n + 1 <= job[i].tag - 1)
          <6>1. SUFFICES ASSUME n + 1 <= job[i].tag - 1
                         PROVE  FALSE
            OBVIOUS
          <6>2. n + 1 \in 1..(job[i].tag - 1)
            BY <1>8, <5>1, <6>1
          <6>3. n + 1 \in 1..n
            BY <5>1, <6>2
          <6> QED
            BY <1>8, <6>3
        <5>3. job[i].tag \in 1..(n + 1)
          BY <1>8, <5>1, <5>2
        <5>4. job[i].tag \in Registered(c)'
          BY <1>7, <1>8, <1>10, <1>11, <5>3
        <5> QED
          BY <3>1, <4>1, <5>4 DEF ChampionKnown
      <4>2. CASE Country(i) # c \/ job[i].stage \notin Working
        BY <1>11, <3>1, <3>2, <4>2 DEF RegistryInv, ChampionKnown, Working
      <4> QED
        BY <4>1, <4>2
    <3> QED
      BY <3>3, <3>4, <3>5
  <2> QED
    BY <2>1, <2>2
<1>15. \A d \in Countries, t \in Tags : versions[d][t] # Nothing =>
          versions'[d][t] # Nothing /\ versions'[d][t].run = versions[d][t].run
  BY <1>1 DEF Promotion
<1>16. TrainerType'
  <2>1. \A i \in Jobs : JobOK(job'[i])
    BY <1>4, <1>5 DEF TrainerType
  <2>2. \A i \in Jobs : job'[i].stage \in {"blocked", "locked"} /\ job'[i].champion # Nothing =>
                          versions'[Country(i)'][job'[i].champion] # Nothing
    <3> TAKE i \in Jobs
    <3>1. CASE i = j
      BY <1>4, <3>1
    <3>2. CASE i # j /\ job[i].stage \in {"blocked", "locked"} /\ job[i].champion # Nothing
      <4>1. job'[i] = job[i] /\ Country(i)' = Country(i)
        BY <1>5, <3>2
      <4>2. Country(i) \in Countries /\ job[i].champion \in Tags
        BY <3>2, JobTypes DEF JobSet
      <4>3. versions[Country(i)][job[i].champion] # Nothing
        BY <3>2 DEF TrainerType
      <4> QED
        BY <1>15, <4>1, <4>2, <4>3
    <3> QED
      BY <1>5, <3>1, <3>2
  <2>3. objects' \in [Countries -> [Tags -> [Kinds -> Artifacts \cup {Nothing}]]]
    BY <1>2 DEF TrainerType
  <2> QED
    BY <1>1, <1>5, <2>1, <2>2, <2>3 DEF TrainerType
<1>17. \A d \in Countries : Registered(d)' = IF d = c THEN Registered(d) \cup {tag} ELSE Registered(d)
  BY <1>11
<1> QED
  BY <1>1, <1>6, <1>13, <1>14, <1>15, <1>16, <1>17 DEF RegistryInv

-----------------------------------------------------------------------------
(* One active version                                                       *)

LEMMA RegistryInit == Init => TrainerType /\ RegistryInv
<1> SUFFICES ASSUME Init PROVE TrainerType /\ RegistryInv
  OBVIOUS
<1> DEFINE first(j) == [NoJob EXCEPT !.stage = IF Plan(Arguments[j]) = <<>> THEN "done" ELSE "country",
                                     !.todo = Plan(Arguments[j])]
<1>1. /\ versions = [c \in Countries |-> [t \in Tags |-> Nothing]]
      /\ objects = [c \in Countries |-> [t \in Tags |-> [k \in Kinds |-> Nothing]]]
      /\ job = [j \in Jobs |-> first(j)]
  BY DEF Init, TrainerInit
<1>2. ASSUME NEW j \in Jobs
      PROVE  /\ first(j) \in JobSet /\ JobOK(first(j))
             /\ first(j).stage \in {"country", "done"}
  <2> DEFINE plan  == Plan(Arguments[j])
             stage == IF plan = <<>> THEN "done" ELSE "country"
             r     == [NoJob EXCEPT !.stage = stage, !.todo = plan]
  <2>1. plan \in Seq(Countries)
    BY PlanType, CountriesAssumption
  <2>2. stage \in {"country", "done"} /\ (stage = "done" <=> plan = <<>>)
    OBVIOUS
  <2>3. first(j) = r
    OBVIOUS
  <2> HIDE DEF plan, stage, first
  <2>4. r \in JobSet /\ r.stage = stage /\ r.todo = plan
    BY <2>1, <2>2, FreshType DEF JobSet, Stages
  <2> HIDE DEF r
  <2> QED
    BY <2>2, <2>3, <2>4 DEF JobOK, Working
<1> HIDE DEF first
<1>3. \A j \in Jobs : job[j] \in JobSet /\ JobOK(job[j]) /\ job[j].stage \in {"country", "done"}
  BY <1>1, <1>2
<1>4. TrainerType
  <2>1. job \in [Jobs -> JobSet]
    BY <1>1, <1>2
  <2> QED
    BY <1>1, <1>3, <2>1 DEF TrainerType
<1>5. \A c \in Countries : Registered(c) = {} /\ ActiveTags(c) = {}
  BY <1>1 DEF Registered, ActiveTags
<1>6. \A c \in Countries : Registry(c)
  <2>1. 0 \in 0..MaxTags /\ 1..0 = {}
    BY TagsAssumption
  <2> QED
    BY <1>5, <2>1 DEF Registry
<1>7. \A j \in Jobs : TagNext(j) /\ ChampionKnown(j) /\ BlockedKnows(j)
  BY <1>3 DEF TagNext, ChampionKnown, BlockedKnows, Working
<1> QED
  BY <1>4, <1>6, <1>7 DEF RegistryInv

\* Only the trainer touches the registry and the bucket.
LEMMA TrainerOnly ==
  ASSUME Next
  PROVE  (\E j \in Jobs : TrainerStep(j)) \/ UNCHANGED trainer
<1>1. CASE \E j \in Jobs : JobStep(j) /\ UNCHANGED scorer
  BY <1>1 DEF TrainerStep
<1>2. CASE \E j \in Jobs : JobFails(j) \/ LoggingFails(j)
  BY <1>2 DEF TrainerStep, JobFails
<1>3. CASE ScorerStep /\ UNCHANGED trainer
  BY <1>3
<1> QED
  BY <1>1, <1>2, <1>3 DEF Next

LEMMA InsertCase ==
  ASSUME TrainerType, RegistryInv, NEW j \in Jobs, MaybePromote(j), Turned(j)
  PROVE  \E c \in Countries, tag \in Tags :
           /\ c = Country(j) /\ tag = job[j].tag
           /\ job[j].stage = "locked" /\ versions[c][tag] = Nothing
           /\ objects' = objects /\ collided' = collided
           /\ TrainerType' /\ RegistryInv'
           /\ \A d \in Countries, t \in Tags : versions[d][t] # Nothing =>
                versions'[d][t] # Nothing /\ versions'[d][t].run = versions[d][t].run
           /\ versions'[c][tag] # Nothing /\ versions'[c][tag].run = j
           /\ \A d \in Countries : Registered(d)' = IF d = c THEN Registered(d) \cup {tag} ELSE Registered(d)
<1>1. PICK c \in Countries, tag \in Tags, champion \in Tags \cup {Nothing} :
        c = Country(j) /\ tag = job[j].tag /\ champion = job[j].champion
  BY PromotionEffect, JobTypes DEF JobSet
<1>2. /\ job[j].stage = "locked" /\ versions[c][tag] = Nothing
      /\ objects' = objects /\ collided' = collided
  BY <1>1 DEF MaybePromote, JobAt
<1>3. /\ TrainerType' /\ RegistryInv'
      /\ \A d \in Countries, t \in Tags : versions[d][t] # Nothing =>
           versions'[d][t] # Nothing /\ versions'[d][t].run = versions[d][t].run
      /\ versions'[c][tag] # Nothing /\ versions'[c][tag].run = j
      /\ \A d \in Countries : Registered(d)' = IF d = c THEN Registered(d) \cup {tag} ELSE Registered(d)
  BY <1>1, InsertStep
<1> QED
  BY <1>1, <1>2, <1>3

LEMMA RegistryStep ==
  ASSUME TrainerType, RegistryInv, [Next]_vars
  PROVE  TrainerType' /\ RegistryInv'
<1>1. CASE UNCHANGED trainer
  <2>1. versions' = versions /\ objects' = objects /\ job' = job
    BY <1>1 DEF trainer
  <2>2. TrainerType'
    BY <2>1 DEF TrainerType, Country
  <2>3. RegistryInv'
    BY <2>1 DEF RegistryInv, Registry, TagNext, ChampionKnown, BlockedKnows, Registered, ActiveTags, Country
  <2> QED
    BY <2>2, <2>3
<1>2. CASE \E j \in Jobs : TrainerStep(j)
  <2>1. PICK j \in Jobs : TrainerStep(j)
    BY <1>2
  <2>2. TrainerCases(j)
    BY <2>1, TrainerSplit
  <2>3. CASE MaybePromote(j)
    <3>1. Turned(j)
      <4>1. job[j].stage = "locked" /\ versions[Country(j)][job[j].tag] = Nothing
        BY <2>3 DEF MaybePromote, JobAt
      <4>2. NextCountry(j, TRUE) \/ Fails(j)
        BY <2>1, <4>1 DEF TrainerStep, JobStep, SkipCountry, TakeVersionTag, RunTraining, RunTransferTraining,
             UploadEngineer, SelectChampion, Unblock, CompleteTraining, LoggingFails, TagTaken, JobAt
      <4> QED
        BY <4>1, <4>2, NextCountryEffect, FailsEffect
    <3> QED
      BY <2>3, <3>1, InsertCase
  <2>4. CASE ~MaybePromote(j)
    BY <2>2, <2>4, QuietCases
  <2> QED
    BY <2>3, <2>4
<1>3. UNCHANGED vars => UNCHANGED trainer
  BY DEF vars
<1> QED
  BY <1>1, <1>2, <1>3, TrainerOnly

\* The registry is sound whatever the scorer does.
LEMMA RegistryInvariant == Spec => [](TrainerType /\ RegistryInv)
<1>1. Init => TrainerType /\ RegistryInv
  BY RegistryInit
<1>2. (TrainerType /\ RegistryInv) /\ [Next]_vars => (TrainerType /\ RegistryInv)'
  BY RegistryStep
<1> QED
  BY <1>1, <1>2, PTL DEF Spec

\* maybe_promote never leaves a country with two active versions, whatever jobs
\* overlap and whoever holds the champion's lock: the job that waited for the lock has
\* the tag of the one that held it, and its insert is refused.
THEOREM OneActive == Spec => []OneActiveVersion
<1>1. TrainerType /\ RegistryInv => OneActiveVersion
  <2> SUFFICES ASSUME RegistryInv, NEW c \in Countries
               PROVE  Cardinality(ActiveTags(c)) <= 1
    BY DEF OneActiveVersion
  <2>1. \A t, u \in ActiveTags(c) : t = u
    BY DEF RegistryInv, Registry
  <2>2. CASE ActiveTags(c) = {}
    BY <2>2, FS_EmptySet
  <2>3. CASE ActiveTags(c) # {}
    <3>1. PICK a : ActiveTags(c) = {a}
      BY <2>1, <2>3
    <3>2. Cardinality({a}) = 1
      BY FS_Singleton
    <3> QED
      BY <3>1, <3>2
  <2> QED
    BY <2>2, <2>3
<1> QED
  BY <1>1, RegistryInvariant, PTL

-----------------------------------------------------------------------------
(* The objects of a version                                                 *)

Taker(j, c, t) == job[j].stage \in Working /\ Country(j) = c /\ job[j].tag = t
Uploaded(j)    == job[j].stage \in {"engineer", "select", "blocked", "locked"}
Finished(j)    == job[j].stage \in {"select", "blocked", "locked"}

\* Whoever works on a tag has uploaded what it says it has, and a version has both
\* of its objects.
Stored(c, t) ==
  /\ versions[c][t] # Nothing => objects[c][t]["onnx"] # Nothing /\ objects[c][t]["engineer"] # Nothing
  /\ \A j \in Jobs : Taker(j, c, t) =>
       /\ Uploaded(j) => objects[c][t]["onnx"] # Nothing
       /\ Finished(j) => objects[c][t]["engineer"] # Nothing

\* A tag that two runs never shared has one job working on it until it is registered
\* and none after; the objects are that job's.
Held(c, t) ==
  /\ \A i, j \in Jobs : Taker(i, c, t) /\ Taker(j, c, t) => i = j
  /\ \A j \in Jobs : Taker(j, c, t) =>
       /\ versions[c][t] = Nothing
       /\ Uploaded(j) => objects[c][t]["onnx"] = [run |-> j, width |-> job[j].width]
       /\ Finished(j) => objects[c][t]["engineer"] = [run |-> j, width |-> job[j].width]
  /\ versions[c][t] # Nothing =>
       /\ objects[c][t]["onnx"].run = versions[c][t].run
       /\ objects[c][t]["engineer"] = objects[c][t]["onnx"]

HoldersInv == \A c \in Countries, t \in Tags : Stored(c, t) /\ (<<c, t>> \notin collided => Held(c, t))

\* A job that does not change hands of a tag.
Keeps(i, c, t) ==
  Taker(i, c, t)' =>
    /\ Taker(i, c, t) /\ job'[i].width = job[i].width
    /\ Uploaded(i)' => Uploaded(i)
    /\ Finished(i)' => Finished(i)

LEMMA HeldKept ==
  ASSUME NEW c \in Countries, NEW t \in Tags, objects'[c][t] = objects[c][t],
         versions'[c][t] = Nothing <=> versions[c][t] = Nothing,
         versions[c][t] # Nothing => versions'[c][t].run = versions[c][t].run,
         \A i \in Jobs : Keeps(i, c, t)
  PROVE  (Held(c, t) => Held(c, t)') /\ (Stored(c, t) => Stored(c, t)')
<1>1. Stored(c, t) => Stored(c, t)'
  BY DEF Stored, Keeps
<1>2. ASSUME Held(c, t)
      PROVE  Held(c, t)'
  <2>1. \A i, j \in Jobs : Taker(i, c, t)' /\ Taker(j, c, t)' => i = j
    BY <1>2 DEF Held, Keeps
  <2>2. \A j \in Jobs : Taker(j, c, t)' =>
          /\ versions'[c][t] = Nothing
          /\ Uploaded(j)' => objects'[c][t]["onnx"] = [run |-> j, width |-> job'[j].width]
          /\ Finished(j)' => objects'[c][t]["engineer"] = [run |-> j, width |-> job'[j].width]
    BY <1>2 DEF Held, Keeps
  <2>3. versions'[c][t] # Nothing =>
          /\ objects'[c][t]["onnx"].run = versions'[c][t].run
          /\ objects'[c][t]["engineer"] = objects'[c][t]["onnx"]
    BY <1>2 DEF Held
  <2> QED
    BY <2>1, <2>2, <2>3 DEF Held
<1> QED
  BY <1>1, <1>2

\* A step of job j leaves the other jobs as they are.
LEMMA OthersKeep ==
  ASSUME TrainerType, NEW j \in Jobs, job' = [job EXCEPT ![j] = job'[j]], NEW i \in Jobs, i # j,
         NEW c, NEW t
  PROVE  Keeps(i, c, t) /\ (Taker(i, c, t)' <=> Taker(i, c, t)) /\ job'[i] = job[i]
<1>1. job'[i] = job[i]
  BY DEF TrainerType
<1> QED
  BY <1>1 DEF Keeps, Taker, Uploaded, Finished, Country

LEMMA HoldersInit == Init => HoldersInv
<1> SUFFICES ASSUME Init PROVE HoldersInv
  OBVIOUS
<1>1. \A c \in Countries, t \in Tags : versions[c][t] = Nothing
  BY DEF Init, TrainerInit
<1>2. \A j \in Jobs : job[j].stage \notin Working
  <2>1. ASSUME NEW j \in Jobs
        PROVE  job[j].stage \in {"country", "done"}
    <3>1. job = [i \in Jobs |-> [NoJob EXCEPT !.stage = IF Plan(Arguments[i]) = <<>> THEN "done" ELSE "country",
                                              !.todo = Plan(Arguments[i])]]
      BY DEF Init, TrainerInit
    <3> QED
      BY <3>1 DEF NoJob
  <2> QED
    BY <2>1 DEF Working
<1> QED
  BY <1>1, <1>2 DEF HoldersInv, Held, Stored, Taker

\* What a step of the trainer may do to the rest of the registry and the bucket.
Steady ==
  /\ collided \subseteq collided'
  /\ \A c \in Countries, t \in Tags :
       versions[c][t] # Nothing =>
         /\ versions'[c][t] # Nothing /\ versions'[c][t].run = versions[c][t].run
         /\ <<c, t>> \notin collided' => objects'[c][t] = objects[c][t]

\* A job lets go of its tag, or reads the champion: nothing is written.
LEMMA ReadStep ==
  ASSUME TrainerType, HoldersInv, NEW j \in Jobs, UNCHANGED <<versions, objects, collided>>,
         job' = [job EXCEPT ![j] = job'[j]],
         \A c \in Countries, t \in Tags : Keeps(j, c, t)
  PROVE  HoldersInv' /\ Steady
<1>1. ASSUME NEW c \in Countries, NEW t \in Tags
      PROVE  Stored(c, t)' /\ (<<c, t>> \notin collided' => Held(c, t)')
  <2>1. \A i \in Jobs : Keeps(i, c, t)
    BY OthersKeep
  <2>2. objects'[c][t] = objects[c][t] /\ versions'[c][t] = versions[c][t]
    OBVIOUS
  <2>3. (Held(c, t) => Held(c, t)') /\ (Stored(c, t) => Stored(c, t)')
    BY <2>1, <2>2, HeldKept
  <2> QED
    BY <2>3 DEF HoldersInv
<1> QED
  BY <1>1 DEF HoldersInv, Steady

LEMMA TakeHolds ==
  ASSUME TrainerType, RegistryInv, HoldersInv, NEW j \in Jobs, TakeVersionTag(j)
  PROVE  HoldersInv' /\ Steady
<1>1. PICK c \in Countries : c = Country(j)
  BY TakeEffect, JobTypes
<1>2. PICK n \in 0..MaxTags : Registered(c) = 1..n /\ NextVersionTag(c) = n + 1
  BY <1>1, Youngest DEF RegistryInv
<1>3. PICK tag \in Tags : tag = n + 1
  BY <1>1, <1>2, TakeEffect
<1>4. /\ job' = [job EXCEPT ![j] = job'[j]] /\ job'[j].stage = "train" /\ job'[j].tag = tag
      /\ Country(j)' = c /\ job[j].stage = "country" /\ UNCHANGED <<versions, objects>>
  BY <1>1, <1>2, <1>3, TakeEffect DEF Country
<1>5. versions[c][tag] = Nothing
  <2>1. n \in Nat /\ n + 1 \notin 1..n
    BY TagsAssumption
  <2> QED
    BY <1>2, <1>3, <2>1 DEF Registered
<1>6. /\ collided \subseteq collided'
      /\ <<c, tag>> \notin collided' => \A i \in Jobs \ {j} : ~Taker(i, c, tag)
  <2>1. collided' = IF \E i \in Jobs \ {j} : job[i].todo # <<>> /\ Country(i) = c /\ job[i].tag = tag
                    THEN collided \cup {<<c, tag>>} ELSE collided
    BY <1>1, <1>2, <1>3 DEF TakeVersionTag
  <2>2. \A i \in Jobs : job[i].stage \in Working => job[i].todo # <<>>
    BY JobTypes DEF Working
  <2> QED
    BY <2>1, <2>2 DEF Taker
<1>7. ASSUME NEW d \in Countries, NEW t \in Tags
      PROVE  Stored(d, t)' /\ (<<d, t>> \notin collided' => Held(d, t)')
  <2>1. Stored(d, t) /\ (<<d, t>> \notin collided' => Held(d, t))
    BY <1>6 DEF HoldersInv
  <2>2. \A i \in Jobs \ {j} : Keeps(i, d, t) /\ (Taker(i, d, t)' <=> Taker(i, d, t)) /\ job'[i] = job[i]
    BY <1>4, OthersKeep
  <2>3. CASE <<d, t>> # <<c, tag>>
    <3>1. ~Taker(j, d, t)'
      BY <1>4, <2>3 DEF Taker
    <3>2. \A i \in Jobs : Keeps(i, d, t)
      BY <2>2, <3>1 DEF Keeps
    <3> QED
      BY <1>4, <2>1, <3>2, HeldKept
  <2>4. CASE d = c /\ t = tag
    <3>1. ~Uploaded(j)' /\ ~Finished(j)'
      BY <1>4 DEF Uploaded, Finished
    <3>2. \A i \in Jobs \ {j} : Uploaded(i)' = Uploaded(i) /\ Finished(i)' = Finished(i)
      BY <2>2 DEF Uploaded, Finished
    <3>3. Stored(d, t)'
      BY <1>4, <2>1, <2>2, <3>1, <3>2 DEF Stored
    <3>4. <<d, t>> \notin collided' => \A i \in Jobs \ {j} : ~Taker(i, d, t)'
      BY <1>6, <2>2, <2>4
    <3>5. <<d, t>> \notin collided' => Held(d, t)'
      BY <1>4, <1>5, <2>1, <2>4, <3>1, <3>4 DEF Held
    <3> QED
      BY <3>3, <3>5
  <2> QED
    BY <2>3, <2>4
<1> QED
  BY <1>4, <1>6, <1>7 DEF HoldersInv, Steady

LEMMA PutHolds ==
  ASSUME TrainerType, HoldersInv, NEW j \in Jobs, NEW kind \in Kinds, NEW width \in Widths,
         Put(j, kind, width), UNCHANGED <<versions, collided>>,
         job' = [job EXCEPT ![j] = job'[j]], job'[j].todo = job[j].todo, job'[j].tag = job[j].tag,
         job'[j].width = width,
         \/ kind = "onnx" /\ job[j].stage = "train" /\ job'[j].stage = "engineer"
         \/ kind = "engineer" /\ job[j].stage = "engineer" /\ job'[j].stage = "select" /\ width = job[j].width
  PROVE  HoldersInv' /\ Steady
<1>1. PICK c \in Countries, tag \in Tags : c = Country(j) /\ tag = job[j].tag
  BY JobTypes DEF Working
<1>2. PICK o : o = [run |-> j, width |-> width]
  OBVIOUS
<1>3. o \in Artifacts /\ o # Nothing
  BY <1>2, NothingAssumption DEF Artifacts
<1>4. /\ objects' \in [Countries -> [Tags -> [Kinds -> Artifacts \cup {Nothing}]]]
      /\ objects'[c][tag][kind] = o
      /\ \A d \in Countries, t \in Tags, k \in Kinds :
           <<d, t, k>> # <<c, tag, kind>> => objects'[d][t][k] = objects[d][t][k]
  BY <1>1, <1>2, PutType DEF Working
<1>5. ASSUME NEW d \in Countries, NEW t \in Tags, <<d, t>> # <<c, tag>>
      PROVE  objects'[d][t] = objects[d][t]
  <2>1. \A k \in Kinds : objects'[d][t][k] = objects[d][t][k]
    BY <1>4, <1>5
  <2>2. objects'[d][t] \in [Kinds -> Artifacts \cup {Nothing}] /\ objects[d][t] \in [Kinds -> Artifacts \cup {Nothing}]
    BY <1>4 DEF TrainerType
  <2> QED
    BY <2>1, <2>2
<1>6. Country(j)' = c /\ Taker(j, c, tag) /\ Taker(j, c, tag)'
  BY <1>1 DEF Country, Taker, Working
<1>7. \A d \in Countries, t \in Tags : <<d, t>> # <<c, tag>> => ~Taker(j, d, t)'
  BY <1>1, <1>6 DEF Taker
<1>8. "onnx" \in Kinds /\ "engineer" \in Kinds
  BY DEF Kinds
<1>9. ASSUME NEW d \in Countries, NEW t \in Tags
      PROVE  Stored(d, t)' /\ (<<d, t>> \notin collided' => Held(d, t)')
  <2>1. Stored(d, t) /\ (<<d, t>> \notin collided' => Held(d, t))
    BY DEF HoldersInv
  <2>2. \A i \in Jobs \ {j} : Keeps(i, d, t) /\ (Taker(i, d, t)' <=> Taker(i, d, t)) /\ job'[i] = job[i]
    BY OthersKeep
  <2>3. CASE <<d, t>> # <<c, tag>>
    <3>1. \A i \in Jobs : Keeps(i, d, t)
      BY <1>7, <2>2, <2>3 DEF Keeps
    <3> QED
      BY <1>5, <2>1, <2>3, <3>1, HeldKept
  <2>4. CASE d = c /\ t = tag
    <3>1. \A i \in Jobs \ {j} : Uploaded(i)' = Uploaded(i) /\ Finished(i)' = Finished(i)
      BY <2>2 DEF Uploaded, Finished
    <3>2. \A k \in Kinds : objects[c][tag][k] # Nothing => objects'[c][tag][k] # Nothing
      BY <1>3, <1>4
    <3>3. versions'[c][tag] # Nothing => objects'[c][tag]["onnx"] # Nothing /\ objects'[c][tag]["engineer"] # Nothing
      BY <1>8, <2>1, <2>4, <3>2 DEF Stored
    <3>4. /\ Uploaded(j)' => objects'[c][tag]["onnx"] # Nothing
          /\ Finished(j)' => objects'[c][tag]["engineer"] # Nothing
      <4>1. CASE kind = "onnx"
        BY <1>3, <1>4, <4>1 DEF Finished
      <4>2. CASE kind = "engineer"
        <5>1. objects[c][tag]["onnx"] # Nothing
          BY <1>6, <2>1, <2>4, <4>2 DEF Stored, Uploaded
        <5> QED
          BY <1>3, <1>4, <1>8, <3>2, <4>2, <5>1
      <4> QED
        BY <4>1, <4>2
    <3>5. \A i \in Jobs : Taker(i, c, tag)' =>
             /\ Uploaded(i)' => objects'[c][tag]["onnx"] # Nothing
             /\ Finished(i)' => objects'[c][tag]["engineer"] # Nothing
      BY <1>8, <2>1, <2>2, <2>4, <3>1, <3>2, <3>4 DEF Stored
    <3>6. Stored(d, t)'
      BY <2>4, <3>3, <3>5 DEF Stored
    <3>7. ASSUME <<c, tag>> \notin collided'
          PROVE  Held(c, tag)'
      <4>1. /\ \A i \in Jobs : Taker(i, c, tag)' => i = j
            /\ versions'[c][tag] = Nothing
        BY <1>6, <2>1, <2>2, <2>4, <3>7 DEF Held
      <4>2. /\ Uploaded(j)' => objects'[c][tag]["onnx"] = [run |-> j, width |-> job'[j].width]
            /\ Finished(j)' => objects'[c][tag]["engineer"] = [run |-> j, width |-> job'[j].width]
        <5>1. CASE kind = "onnx"
          BY <1>2, <1>4, <5>1 DEF Finished
        <5>2. CASE kind = "engineer"
          <6>1. objects[c][tag]["onnx"] = [run |-> j, width |-> width]
            BY <1>6, <2>1, <2>4, <3>7, <5>2 DEF Held, Uploaded
          <6>2. objects'[c][tag]["onnx"] = objects[c][tag]["onnx"]
            BY <1>4, <1>8, <5>2
          <6> QED
            BY <1>2, <1>4, <5>2, <6>1, <6>2
        <5> QED
          BY <5>1, <5>2
      <4> QED
        BY <4>1, <4>2 DEF Held
    <3> QED
      BY <2>4, <3>6, <3>7
  <2> QED
    BY <2>3, <2>4
<1>10. ASSUME NEW d \in Countries, NEW t \in Tags, versions[d][t] # Nothing, <<d, t>> \notin collided'
       PROVE  objects'[d][t] = objects[d][t]
  <2>1. Held(d, t)
    BY <1>10 DEF HoldersInv
  <2>2. <<d, t>> # <<c, tag>>
    BY <1>6, <1>10, <2>1 DEF Held
  <2> QED
    BY <1>5, <2>2
<1> QED
  BY <1>9, <1>10 DEF HoldersInv, Steady

LEMMA InsertHolds ==
  ASSUME TrainerType, RegistryInv, HoldersInv, NEW j \in Jobs, MaybePromote(j), Turned(j)
  PROVE  HoldersInv' /\ Steady
<1>1. PICK c \in Countries, tag \in Tags :
           /\ c = Country(j) /\ tag = job[j].tag
           /\ job[j].stage = "locked" /\ versions[c][tag] = Nothing
           /\ objects' = objects /\ collided' = collided
           /\ TrainerType' /\ RegistryInv'
           /\ \A d \in Countries, t \in Tags : versions[d][t] # Nothing =>
                versions'[d][t] # Nothing /\ versions'[d][t].run = versions[d][t].run
           /\ versions'[c][tag] # Nothing /\ versions'[c][tag].run = j
           /\ \A d \in Countries : Registered(d)' = IF d = c THEN Registered(d) \cup {tag} ELSE Registered(d)
  BY InsertCase
<1>2. \A d \in Countries, t \in Tags : <<d, t>> # <<c, tag>> =>
        (versions'[d][t] = Nothing <=> versions[d][t] = Nothing)
  BY <1>1 DEF Registered
<1>3. Taker(j, c, tag) /\ Uploaded(j) /\ Finished(j)
  BY <1>1 DEF Taker, Working, Uploaded, Finished
<1>4. /\ job' = [job EXCEPT ![j] = job'[j]]
      /\ \A d \in Countries, t \in Tags : ~Taker(j, d, t)'
  BY DEF Turned, Taker, Working
<1>5. ASSUME NEW d \in Countries, NEW t \in Tags
      PROVE  Stored(d, t)' /\ (<<d, t>> \notin collided' => Held(d, t)')
  <2>1. Stored(d, t) /\ (<<d, t>> \notin collided' => Held(d, t))
    BY <1>1 DEF HoldersInv
  <2>2. \A i \in Jobs \ {j} : Keeps(i, d, t) /\ (Taker(i, d, t)' <=> Taker(i, d, t)) /\ job'[i] = job[i]
    BY <1>4, OthersKeep
  <2>3. CASE <<d, t>> # <<c, tag>>
    <3>1. \A i \in Jobs : Keeps(i, d, t)
      BY <1>4, <2>2 DEF Keeps
    <3>2. /\ versions'[d][t] = Nothing <=> versions[d][t] = Nothing
          /\ versions[d][t] # Nothing => versions'[d][t].run = versions[d][t].run
      BY <1>1, <1>2, <2>3
    <3> QED
      BY <1>1, <2>1, <3>1, <3>2, HeldKept
  <2>4. CASE d = c /\ t = tag
    <3>1. \A i \in Jobs \ {j} : Uploaded(i)' = Uploaded(i) /\ Finished(i)' = Finished(i)
      BY <2>2 DEF Uploaded, Finished
    <3>2. Stored(c, tag)'
      BY <1>1, <1>3, <1>4, <2>1, <2>2, <2>4, <3>1 DEF Stored
    <3>3. ASSUME <<c, tag>> \notin collided'
          PROVE  Held(c, tag)'
      <4>1. /\ \A i \in Jobs : Taker(i, c, tag) => i = j
            /\ objects[c][tag]["onnx"] = [run |-> j, width |-> job[j].width]
            /\ objects[c][tag]["engineer"] = [run |-> j, width |-> job[j].width]
        BY <1>3, <2>1, <2>4, <3>3 DEF Held
      <4>2. \A i \in Jobs : ~Taker(i, c, tag)'
        BY <1>4, <2>2, <2>4, <4>1
      <4>3. /\ objects'[c][tag]["onnx"].run = j
            /\ objects'[c][tag]["engineer"] = objects'[c][tag]["onnx"]
        BY <1>1, <4>1
      <4> QED
        BY <1>1, <4>2, <4>3 DEF Held
    <3> QED
      BY <2>4, <3>2, <3>3
  <2> QED
    BY <2>3, <2>4
<1> QED
  BY <1>1, <1>5 DEF HoldersInv, Steady

LEMMA HoldersStep ==
  ASSUME TrainerType, RegistryInv, HoldersInv, [Next]_vars
  PROVE  HoldersInv' /\ Steady
<1>1. CASE UNCHANGED trainer
  <2>1. versions' = versions /\ objects' = objects /\ job' = job /\ collided' = collided
    BY <1>1 DEF trainer
  <2>2. ASSUME NEW c \in Countries, NEW t \in Tags
        PROVE  (Held(c, t) => Held(c, t)') /\ (Stored(c, t) => Stored(c, t)')
    <3>1. \A i \in Jobs : Keeps(i, c, t)
      BY <2>1 DEF Keeps, Taker, Uploaded, Finished, Country
    <3> QED
      BY <2>1, <3>1, HeldKept
  <2> QED
    BY <2>1, <2>2 DEF HoldersInv, Steady
<1>2. CASE \E j \in Jobs : TrainerStep(j)
  <2>1. PICK j \in Jobs : TrainerStep(j)
    BY <1>2
  <2>2. TrainerCases(j)
    BY <2>1, TrainerSplit
  <2>3. CASE Turned(j) /\ UNCHANGED <<versions, objects, collided>>
    <3>1. job' = [job EXCEPT ![j] = job'[j]] /\ \A c \in Countries, t \in Tags : Keeps(j, c, t)
      BY <2>3 DEF Turned, Keeps, Taker, Working
    <3> QED
      BY <2>3, <3>1, ReadStep
  <2>4. CASE TakeVersionTag(j)
    BY <2>4, TakeHolds
  <2>5. ASSUME NEW outcome \in Outcomes, NEW confidence \in {"full", "transfer", "insufficient_data"},
               JobAt(j, "train"), Evaluated(j, outcome, confidence)
        PROVE  HoldersInv' /\ Steady
    <3>1. /\ job' = [job EXCEPT ![j] = job'[j]]
          /\ job'[j].stage = "engineer" /\ job'[j].todo = job[j].todo /\ job'[j].tag = job[j].tag
          /\ job'[j].width = outcome.width /\ job[j].stage = "train" /\ UNCHANGED <<versions, collided>>
      BY <2>5, EvaluatedEffect
    <3>2. Put(j, "onnx", outcome.width) /\ outcome.width \in Widths /\ "onnx" \in Kinds
      BY <2>5 DEF Evaluated, Widths, Kinds
    <3> QED
      BY <3>1, <3>2, PutHolds
  <2>6. CASE UploadEngineer(j)
    <3>1. /\ job' = [job EXCEPT ![j] = job'[j]]
          /\ job'[j].stage = "select" /\ job'[j].todo = job[j].todo /\ job'[j].tag = job[j].tag
          /\ job'[j].width = job[j].width /\ job[j].stage = "engineer" /\ UNCHANGED <<versions, collided>>
      BY <2>6, UploadEffect
    <3>2. Put(j, "engineer", job[j].width) /\ job[j].width \in Widths /\ "engineer" \in Kinds
      BY <2>6, <3>1, JobTypes DEF UploadEngineer, JobOK, Kinds
    <3> QED
      BY <3>1, <3>2, PutHolds
  <2>7. ASSUME NEW stage \in {"blocked", "locked"}, NEW champion \in Tags \cup {Nothing},
               job[j].stage \in {"select", "blocked"}, OnlyJob,
               job' = [job EXCEPT ![j].champion = champion, ![j].stage = stage]
        PROVE  HoldersInv' /\ Steady
    <3>1. /\ job' = [job EXCEPT ![j] = job'[j]]
          /\ job'[j].stage = stage /\ job'[j].todo = job[j].todo /\ job'[j].tag = job[j].tag
          /\ job'[j].width = job[j].width
      BY <2>7, ChampionEffect
    <3>2. \A c \in Countries, t \in Tags : Keeps(j, c, t)
      BY <2>7, <3>1 DEF Keeps, Taker, Working, Uploaded, Finished, Country
    <3> QED
      BY <2>7, <3>1, <3>2, ReadStep DEF OnlyJob
  <2>8. CASE SelectChampion(j)
    BY <2>7, <2>8, SelectEffect
  <2>9. CASE Unblock(j)
    BY <2>7, <2>9, UnblockEffect
  <2>10. CASE MaybePromote(j) /\ Turned(j)
    BY <2>10, InsertHolds
  <2> QED
    BY <2>2, <2>3, <2>4, <2>5, <2>6, <2>8, <2>9, <2>10 DEF TrainerCases
<1>3. UNCHANGED vars => UNCHANGED trainer
  BY DEF vars
<1> QED
  BY <1>1, <1>2, <1>3, TrainerOnly

-----------------------------------------------------------------------------
(* The scorer's pods                                                        *)

PollerSet == [at : {"off", "sleep", "load", "dead"}, startup : BOOLEAN,
              rows : [Countries -> Tags \cup {Nothing}], got : [Kinds -> Artifacts \cup {Nothing}],
              todo : SUBSET Kinds]
RefresherSet == [at : {"off", "sleep", "take", "build", "dead"}, todo : SUBSET Countries,
                 country : Countries \cup {Nothing}, width : {0} \cup Widths]

ScorerType ==
  /\ bundle \in [Pods -> [Countries -> Bundles \cup {Nothing}]]
  /\ poller \in [Pods -> PollerSet]
  /\ index \in [Pods -> [Countries -> {0} \cup Widths]]
  /\ refresher \in [Pods -> RefresherSet]
  /\ swaps \in Nat

\* The objects of a version that a pod has, or has in part, are those in the bucket,
\* if the tag is not shared.
RowsKnown(p) == \A c \in Countries : poller[p].rows[c] # Nothing => versions[c][poller[p].rows[c]] # Nothing
GotTrue(p) ==
  /\ poller[p].at # "load" \/ Outdated(p) = {} => poller[p].todo = Kinds
  /\ poller[p].at = "load" /\ Outdated(p) # {} =>
       LET c == Reloading(p)
           t == poller[p].rows[c]
       IN  \A k \in Kinds \ poller[p].todo :
             /\ poller[p].got[k] \in Artifacts
             /\ <<c, t>> \notin collided => poller[p].got[k] = objects[c][t][k]
BundleTrue(p, c) ==
  bundle[p][c] # Nothing =>
    /\ versions[c][bundle[p][c].tag] # Nothing
    /\ <<c, bundle[p][c].tag>> \notin collided =>
         /\ bundle[p][c].point = objects[c][bundle[p][c].tag]["onnx"]
         /\ bundle[p][c].engineer = objects[c][bundle[p][c].tag]["engineer"]

\* Indices are built of bundles, and until one is swapped they have its width.
IndexTrue(p) ==
  /\ refresher[p].todo \subseteq Served(p)
  /\ refresher[p].at = "build" => refresher[p].country \in Served(p)
  /\ swaps = 0 =>
       /\ \A c \in Countries : index[p][c] # 0 =>
            bundle[p][c] # Nothing /\ index[p][c] = bundle[p][c].engineer.width
       /\ refresher[p].at = "build" => refresher[p].width = bundle[p][refresher[p].country].engineer.width

PodTrue(p) == RowsKnown(p) /\ GotTrue(p) /\ (\A c \in Countries : BundleTrue(p, c)) /\ IndexTrue(p)
ScorerInv == ScorerType /\ \A p \in Pods : PodTrue(p)

LEMMA ScorerInit0 == Init => ScorerInv
<1> SUFFICES ASSUME Init PROVE ScorerInv
  OBVIOUS
<1> USE DEF Init, ScorerInit
<1>1. Off \in PollerSet /\ Rest \in RefresherSet
  BY DEF Off, Rest, PollerSet, RefresherSet
<1>2. ScorerType
  BY <1>1 DEF ScorerType
<1>3. ASSUME NEW p \in Pods
      PROVE  PodTrue(p)
  <2>1. poller[p] = Off /\ refresher[p] = Rest
    OBVIOUS
  <2>2. RowsKnown(p) /\ GotTrue(p)
    BY <2>1 DEF RowsKnown, GotTrue, Off
  <2>3. IndexTrue(p)
    BY <2>1 DEF IndexTrue, Rest
  <2>4. \A c \in Countries : BundleTrue(p, c)
    BY DEF BundleTrue
  <2> QED
    BY <2>2, <2>3, <2>4 DEF PodTrue
<1> QED
  BY <1>2, <1>3 DEF ScorerInv

\* What a pod is loading is a row it was told of.
LEMMA ReloadingRow ==
  ASSUME ScorerType, NEW p \in Pods, Outdated(p) # {}
  PROVE  /\ Reloading(p) \in Outdated(p) /\ Reloading(p) \in Countries
         /\ poller[p].rows[Reloading(p)] # Nothing /\ poller[p].rows[Reloading(p)] \in Tags
<1>1. Reloading(p) \in Outdated(p)
  BY DEF Reloading
<1>2. poller[p] \in PollerSet
  BY DEF ScorerType
<1>3. poller[p].rows \in [Countries -> Tags \cup {Nothing}]
  BY <1>2 DEF PollerSet
<1> QED
  BY <1>1, <1>3 DEF Outdated

\* The trainer's steps, seen from a pod; and the steps of other pods.
LEMMA PodKept ==
  ASSUME ScorerType, NEW p \in Pods, PodTrue(p), Steady,
         bundle'[p] = bundle[p], poller'[p] = poller[p], index'[p] = index[p], refresher'[p] = refresher[p],
         swaps' = swaps \/ swaps' = swaps + 1
  PROVE  PodTrue(p)'
<1>1. poller[p] \in PollerSet /\ bundle[p] \in [Countries -> Bundles \cup {Nothing}]
  BY DEF ScorerType
<1>2. poller[p].rows \in [Countries -> Tags \cup {Nothing}]
  BY <1>1 DEF PollerSet
<1>3. Outdated(p)' = Outdated(p)
  BY DEF Outdated
<1>4. Reloading(p)' = Reloading(p)
  <2> DEFINE First(S) == CHOOSE c \in S : TRUE
  <2>1. Reloading(p) = First(Outdated(p)) /\ Reloading(p)' = First(Outdated(p)')
    BY DEF Reloading
  <2> HIDE DEF First
  <2> QED
    BY <1>3, <2>1
<1>5. RowsKnown(p)'
  <2>1. ASSUME NEW c \in Countries, poller[p].rows[c] # Nothing
        PROVE  versions'[c][poller[p].rows[c]] # Nothing
    <3>1. poller[p].rows[c] \in Tags /\ versions[c][poller[p].rows[c]] # Nothing
      BY <1>2, <2>1 DEF PodTrue, RowsKnown
    <3> QED
      BY <3>1 DEF Steady
  <2> QED
    BY <2>1 DEF RowsKnown
<1>6. GotTrue(p)'
  <2>1. poller'[p].at # "load" \/ Outdated(p)' = {} => poller'[p].todo = Kinds
    BY <1>3 DEF PodTrue, GotTrue
  <2>2. ASSUME poller[p].at = "load", Outdated(p) # {}, NEW c, c = Reloading(p), NEW t, t = poller[p].rows[c],
               NEW k \in Kinds \ poller[p].todo
        PROVE  /\ poller[p].got[k] \in Artifacts
               /\ <<c, t>> \notin collided' => poller[p].got[k] = objects'[c][t][k]
    <3>1. c \in Countries /\ t \in Tags /\ versions[c][t] # Nothing
      BY <2>2, ReloadingRow DEF PodTrue, RowsKnown
    <3>2. /\ poller[p].got[k] \in Artifacts
          /\ <<c, t>> \notin collided => poller[p].got[k] = objects[c][t][k]
      BY <2>2 DEF PodTrue, GotTrue
    <3> QED
      BY <3>1, <3>2 DEF Steady
  <2>3. poller'[p].at = "load" /\ Outdated(p)' # {} =>
          LET c == Reloading(p)
              t == poller[p].rows[c]
          IN  \A k \in Kinds \ poller[p].todo :
                /\ poller[p].got[k] \in Artifacts
                /\ <<c, t>> \notin collided' => poller[p].got[k] = objects'[c][t][k]
    BY <1>3, <2>2
  <2> QED
    BY <1>4, <2>1, <2>3 DEF GotTrue
<1>7. ASSUME NEW c \in Countries
      PROVE  BundleTrue(p, c)'
  <2>1. BundleTrue(p, c)
    BY DEF PodTrue
  <2>2. bundle[p][c] # Nothing => bundle[p][c].tag \in Tags
    BY <1>1 DEF Bundles
  <2> QED
    BY <2>1, <2>2 DEF BundleTrue, Steady
<1>8. IndexTrue(p)'
  <2>1. swaps' = 0 => swaps = 0
    BY DEF ScorerType
  <2>2. Served(p)' = Served(p)
    BY DEF Served
  <2> QED
    BY <2>1, <2>2 DEF PodTrue, IndexTrue
<1> QED
  BY <1>5, <1>6, <1>7, <1>8 DEF PodTrue

LEMMA WorldStep ==
  ASSUME ScorerInv, Steady, UNCHANGED <<bundle, poller, index, refresher, swaps>>
  PROVE  ScorerInv'
<1>1. ScorerType'
  BY DEF ScorerInv, ScorerType
<1>2. Steady /\ ScorerType
  BY DEF ScorerInv
<1>3. ASSUME NEW p \in Pods
      PROVE  PodTrue(p)'
  <2>1. PodTrue(p)
    BY DEF ScorerInv
  <2> QED
    BY <1>2, <2>1, PodKept
<1> QED
  BY <1>1, <1>3 DEF ScorerInv

\* A step of one pod: what has to be shown of that pod.
PodType(b, r, i, f) ==
  /\ b \in [Countries -> Bundles \cup {Nothing}]
  /\ r \in PollerSet
  /\ i \in [Countries -> {0} \cup Widths]
  /\ f \in RefresherSet

LEMMA PodStep ==
  ASSUME ScorerInv, UNCHANGED trainer, NEW p \in Pods, NEW b, NEW r, NEW i, NEW f, PodType(b, r, i, f),
         bundle' = [bundle EXCEPT ![p] = b], poller' = [poller EXCEPT ![p] = r],
         index' = [index EXCEPT ![p] = i], refresher' = [refresher EXCEPT ![p] = f],
         swaps' = swaps \/ swaps' = swaps + 1,
         PodTrue(p)'
  PROVE  ScorerInv'
<1>1. ScorerType
  BY DEF ScorerInv
<1>2. ScorerType'
  BY <1>1 DEF ScorerType, PodType
<1>3. Steady
  BY DEF trainer, Steady
<1>4. ASSUME NEW q \in Pods
      PROVE  PodTrue(q)'
  <2>1. CASE q = p
    BY <2>1
  <2>2. CASE q # p
    <3>1. bundle'[q] = bundle[q] /\ poller'[q] = poller[q] /\ index'[q] = index[q] /\ refresher'[q] = refresher[q]
      BY <1>1, <2>2 DEF ScorerType
    <3> QED
      BY <1>1, <1>3, <3>1, PodKept DEF ScorerInv
  <2> QED
    BY <2>1, <2>2
<1> QED
  BY <1>2, <1>4 DEF ScorerInv

\* The poller's steps, but for the swap.
LEMMA PollerOnly ==
  ASSUME ScorerInv, UNCHANGED trainer, NEW p \in Pods, NEW r \in PollerSet,
         UNCHANGED <<bundle, index, refresher, swaps>>, poller' = [poller EXCEPT ![p] = r],
         (RowsKnown(p) /\ GotTrue(p))'
  PROVE  ScorerInv'
<1>1. ScorerType /\ PodTrue(p)
  BY DEF ScorerInv
<1>2. PodType(bundle[p], r, index[p], refresher[p])
  BY <1>1 DEF ScorerType, PodType
<1>3. /\ bundle' = [bundle EXCEPT ![p] = bundle[p]] /\ index' = [index EXCEPT ![p] = index[p]]
      /\ refresher' = [refresher EXCEPT ![p] = refresher[p]]
  BY <1>1 DEF ScorerType
<1>4. ASSUME NEW c \in Countries
      PROVE  BundleTrue(p, c)'
  BY <1>1 DEF PodTrue, BundleTrue, trainer
<1>5. IndexTrue(p)'
  BY <1>1 DEF PodTrue, IndexTrue, Served
<1>6. PodTrue(p)'
  BY <1>4, <1>5 DEF PodTrue
<1> QED
  BY <1>2, <1>3, <1>6, PodStep

\* Nothing is being loaded.
LEMMA IdlePoller ==
  ASSUME ScorerInv, UNCHANGED trainer, NEW p \in Pods, NEW r \in PollerSet,
         UNCHANGED <<bundle, index, refresher, swaps>>, poller' = [poller EXCEPT ![p] = r],
         r.at # "load", r.todo = Kinds, \A c \in Countries : r.rows[c] = Nothing
  PROVE  ScorerInv'
<1>1. poller'[p] = r
  BY DEF ScorerInv, ScorerType
<1>2. (RowsKnown(p) /\ GotTrue(p))'
  BY <1>1 DEF RowsKnown, GotTrue
<1> QED
  BY <1>2, PollerOnly

LEMMA RefresherOnly ==
  ASSUME ScorerInv, UNCHANGED trainer, NEW p \in Pods, NEW f \in RefresherSet, NEW i \in [Countries -> {0} \cup Widths],
         UNCHANGED <<bundle, poller, swaps>>, index' = [index EXCEPT ![p] = i],
         refresher' = [refresher EXCEPT ![p] = f], IndexTrue(p)'
  PROVE  ScorerInv'
<1>1. ScorerType /\ PodTrue(p)
  BY DEF ScorerInv
<1>2. PodType(bundle[p], poller[p], i, f)
  BY <1>1 DEF ScorerType, PodType
<1>3. bundle' = [bundle EXCEPT ![p] = bundle[p]] /\ poller' = [poller EXCEPT ![p] = poller[p]]
  BY <1>1 DEF ScorerType
<1>4. ASSUME NEW c \in Countries
      PROVE  BundleTrue(p, c)'
  BY <1>1 DEF PodTrue, BundleTrue, trainer
<1>5. RowsKnown(p)' /\ GotTrue(p)'
  <2>1. versions' = versions /\ objects' = objects /\ collided' = collided /\ poller' = poller /\ bundle' = bundle
    BY DEF trainer
  <2>2. Outdated(p)' = Outdated(p)
    BY <2>1 DEF Outdated
  <2>3. Reloading(p)' = Reloading(p)
    BY <2>1 DEF Reloading, Outdated
  <2>4. RowsKnown(p)'
    BY <1>1, <2>1 DEF PodTrue, RowsKnown
  <2>5. GotTrue(p)'
    BY <1>1, <2>1, <2>2, <2>3 DEF PodTrue, GotTrue
  <2> QED
    BY <2>4, <2>5
<1>6. PodTrue(p)'
  BY <1>4, <1>5 DEF PodTrue
<1> QED
  BY <1>2, <1>3, <1>6, PodStep

\* A process that is gone knows nothing.
LEMMA GoneStep ==
  ASSUME ScorerInv, UNCHANGED trainer, NEW p \in Pods, ProcessGone(p)
  PROVE  ScorerInv'
<1> DEFINE b == [c \in Countries |-> Nothing]
           i == [c \in Countries |-> 0]
<1>1. Off \in PollerSet /\ Rest \in RefresherSet
  BY DEF Off, Rest, PollerSet, RefresherSet
<1>2. PodType(b, Off, i, Rest)
  BY <1>1 DEF PodType
<1>3. /\ bundle' = [bundle EXCEPT ![p] = b] /\ poller' = [poller EXCEPT ![p] = Off]
      /\ index' = [index EXCEPT ![p] = i] /\ refresher' = [refresher EXCEPT ![p] = Rest] /\ swaps' = swaps
  BY DEF ProcessGone
<1>4. bundle'[p] = b /\ poller'[p] = Off /\ index'[p] = i /\ refresher'[p] = Rest
  BY <1>3 DEF ScorerInv, ScorerType
<1>5. RowsKnown(p)' /\ GotTrue(p)'
  BY <1>4 DEF RowsKnown, GotTrue, Off
<1>6. \A c \in Countries : BundleTrue(p, c)'
  BY <1>4 DEF BundleTrue
<1>7. IndexTrue(p)'
  BY <1>4 DEF IndexTrue, Rest
<1>8. PodTrue(p)'
  BY <1>5, <1>6, <1>7 DEF PodTrue
<1> QED
  BY <1>2, <1>3, <1>8, PodStep

\* The records the poller is reset to.
LEMMA Resets ==
  ASSUME NEW at \in {"off", "sleep", "dead"}, NEW startup \in BOOLEAN
  PROVE  /\ [Off EXCEPT !.at = at, !.startup = startup] \in PollerSet
         /\ [Off EXCEPT !.at = at] \in PollerSet /\ Off \in PollerSet
         /\ \A r \in {[Off EXCEPT !.at = at, !.startup = startup], [Off EXCEPT !.at = at]} :
              r.at = at /\ r.todo = Kinds /\ \A c \in Countries : r.rows[c] = Nothing
         /\ Off.at = "off" /\ Off.todo = Kinds /\ \A c \in Countries : Off.rows[c] = Nothing
BY DEF Off, PollerSet

LEMMA ReloadFailsStep ==
  ASSUME ScorerInv, UNCHANGED trainer, NEW p \in Pods, ReloadFails(p)
  PROVE  ScorerInv'
<1>1. CASE poller[p].startup
  BY <1>1, GoneStep DEF ReloadFails
<1>2. CASE ~poller[p].startup
  <2> DEFINE r == [Off EXCEPT !.at = "dead", !.startup = FALSE]
  <2>1. poller' = [poller EXCEPT ![p] = r] /\ UNCHANGED <<bundle, index, refresher, swaps>>
    BY <1>2 DEF ReloadFails
  <2>2. r \in PollerSet /\ r.at = "dead" /\ r.todo = Kinds /\ \A c \in Countries : r.rows[c] = Nothing
    BY Resets
  <2> HIDE DEF r
  <2> QED
    BY <2>1, <2>2, IdlePoller
<1> QED
  BY <1>1, <1>2

LEMMA FetchStep ==
  ASSUME TrainerType, RegistryInv, ScorerInv, UNCHANGED trainer, NEW p \in Pods, FetchActiveVersions(p)
  PROVE  ScorerInv'
<1> DEFINE rows == [c \in Countries |-> IF ActiveTags(c) = {} THEN Nothing ELSE Max(ActiveTags(c))]
           r == [poller[p] EXCEPT !.at = "load", !.rows = rows]
<1>1. poller[p] \in PollerSet /\ poller \in [Pods -> PollerSet] /\ PodTrue(p)
  BY DEF ScorerInv, ScorerType
<1>2. /\ poller[p].at = "sleep"
      /\ poller' = [poller EXCEPT ![p].at = "load", ![p].rows = rows]
      /\ UNCHANGED <<bundle, index, refresher, swaps>>
  BY DEF FetchActiveVersions
<1>3. \A c \in Countries : rows[c] # Nothing => rows[c] \in Tags /\ versions[c][rows[c]] # Nothing
  <2> TAKE c \in Countries
  <2>1. ActiveTags(c) # {} => Max(ActiveTags(c)) \in ActiveTags(c)
    BY Youngest DEF RegistryInv
  <2> QED
    BY <2>1 DEF ActiveTags, Registered
<1>4. rows \in [Countries -> Tags \cup {Nothing}]
  BY <1>3
<1> HIDE DEF rows
<1>5. poller' = [poller EXCEPT ![p] = r]
  BY <1>1, <1>2 DEF PollerSet
<1>6. poller[p].todo = Kinds
  BY <1>1, <1>2 DEF PodTrue, GotTrue
<1>7. r \in PollerSet /\ r.rows = rows /\ r.todo = Kinds
  BY <1>1, <1>4, <1>6 DEF PollerSet
<1> HIDE DEF r
<1>8. poller'[p] = r
  BY <1>1, <1>5
<1>9. RowsKnown(p)'
  BY <1>3, <1>7, <1>8 DEF RowsKnown, trainer
<1>10. GotTrue(p)'
  BY <1>7, <1>8 DEF GotTrue
<1> QED
  BY <1>2, <1>5, <1>7, <1>9, <1>10, PollerOnly

LEMMA GetStep ==
  ASSUME TrainerType, HoldersInv, ScorerInv, UNCHANGED trainer, NEW p \in Pods, NEW kind \in Kinds, GetObject(p, kind)
  PROVE  ScorerInv'
<1>1. poller[p] \in PollerSet /\ poller \in [Pods -> PollerSet] /\ PodTrue(p) /\ ScorerType
  BY DEF ScorerInv, ScorerType
<1>2. poller[p].at = "load" /\ Outdated(p) # {} /\ kind \in poller[p].todo
  BY DEF GetObject
<1>3. PICK c \in Countries, t \in Tags : c = Reloading(p) /\ t = poller[p].rows[c]
  BY <1>1, <1>2, ReloadingRow
<1>4. PICK o : o = objects[c][t][kind]
  OBVIOUS
<1>5. versions[c][t] # Nothing
  BY <1>1, <1>2, <1>3, ReloadingRow DEF PodTrue, RowsKnown
<1>6. o \in Artifacts
  <2>1. o # Nothing
    BY <1>4, <1>5 DEF HoldersInv, Stored, Kinds
  <2> QED
    BY <1>4, <2>1 DEF TrainerType
<1> DEFINE r == [poller[p] EXCEPT !.todo = @ \ {kind}, !.got[kind] = o]
<1>7. /\ poller' = [poller EXCEPT ![p] = r] /\ UNCHANGED <<bundle, index, refresher, swaps>>
  <2>1. /\ poller' = [poller EXCEPT ![p].todo = @ \ {kind}, ![p].got[kind] = o]
        /\ UNCHANGED <<bundle, index, refresher, swaps>>
    BY <1>3, <1>4 DEF GetObject
  <2>2. [poller EXCEPT ![p].todo = @ \ {kind}, ![p].got[kind] = o] = [poller EXCEPT ![p] = r]
    BY <1>1 DEF PollerSet
  <2> QED
    BY <2>1, <2>2
<1>8. /\ r \in PollerSet /\ r.rows = poller[p].rows /\ r.todo = poller[p].todo \ {kind}
      /\ r.got[kind] = o /\ \A k \in Kinds \ {kind} : r.got[k] = poller[p].got[k]
      /\ r.at = "load"
  BY <1>1, <1>2, <1>6 DEF PollerSet
<1> HIDE DEF r
<1>9. poller'[p] = r
  BY <1>1, <1>7
<1>10. Outdated(p)' = Outdated(p)
  BY <1>7, <1>8, <1>9 DEF Outdated
<1>11. Reloading(p)' = Reloading(p)
  <2> DEFINE First(S) == CHOOSE d \in S : TRUE
  <2>1. Reloading(p) = First(Outdated(p)) /\ Reloading(p)' = First(Outdated(p)')
    BY DEF Reloading
  <2> HIDE DEF First
  <2> QED
    BY <1>10, <2>1
<1>12. RowsKnown(p)'
  BY <1>1, <1>8, <1>9 DEF PodTrue, RowsKnown, trainer
<1>13. GotTrue(p)'
  <2>1. \A k \in Kinds \ r.todo : r.got[k] \in Artifacts /\ (<<c, t>> \notin collided => r.got[k] = objects[c][t][k])
    <3> TAKE k \in Kinds \ r.todo
    <3>1. CASE k = kind
      BY <1>4, <1>6, <1>8, <3>1
    <3>2. CASE k # kind
      <4>1. k \in Kinds \ poller[p].todo /\ r.got[k] = poller[p].got[k]
        BY <1>8, <3>2
      <4> QED
        BY <1>1, <1>2, <1>3, <4>1 DEF PodTrue, GotTrue
    <3> QED
      BY <3>1, <3>2
  <2>2. poller'[p].rows[Reloading(p)'] = t /\ Reloading(p)' = c
    BY <1>3, <1>8, <1>9, <1>11
  <2>3. poller'[p].at = "load" /\ Outdated(p)' # {}
    BY <1>2, <1>8, <1>9, <1>10
  <2> QED
    BY <1>9, <2>1, <2>2, <2>3 DEF GotTrue, trainer
<1> QED
  BY <1>7, <1>8, <1>12, <1>13, PollerOnly

LEMMA SwapStep ==
  ASSUME TrainerType, HoldersInv, ScorerInv, UNCHANGED trainer, NEW p \in Pods, SwapBundle(p)
  PROVE  ScorerInv'
<1>1. poller[p] \in PollerSet /\ poller \in [Pods -> PollerSet] /\ PodTrue(p) /\ ScorerType
  BY DEF ScorerInv, ScorerType
<1>2. poller[p].at = "load" /\ Outdated(p) # {} /\ poller[p].todo = {}
  BY DEF SwapBundle
<1>3. PICK c \in Countries, t \in Tags : c = Reloading(p) /\ t = poller[p].rows[c]
  BY <1>1, <1>2, ReloadingRow
<1>4. PICK new : new = Loaded(p)
  OBVIOUS
<1>5. versions[c][t] # Nothing
  BY <1>1, <1>2, <1>3, ReloadingRow DEF PodTrue, RowsKnown
<1>6. \A k \in Kinds : /\ poller[p].got[k] \in Artifacts
                       /\ <<c, t>> \notin collided => poller[p].got[k] = objects[c][t][k]
  BY <1>1, <1>2, <1>3 DEF PodTrue, GotTrue
<1>7. /\ new \in Bundles /\ new.tag = t
      /\ <<c, t>> \notin collided => new.point = objects[c][t]["onnx"] /\ new.engineer = objects[c][t]["engineer"]
  <2>1. versions[c][t].confidence \in {"full", "transfer", "insufficient_data"}
    BY <1>5 DEF TrainerType, VersionRows
  <2>2. new = [tag |-> t, point |-> poller[p].got["onnx"], engineer |-> poller[p].got["engineer"],
               confidence |-> versions[c][t].confidence]
    BY <1>3, <1>4 DEF Loaded
  <2>3. "onnx" \in Kinds /\ "engineer" \in Kinds
    BY DEF Kinds
  <2> QED
    BY <1>6, <2>1, <2>2, <2>3 DEF Bundles
<1>8. new # Nothing
  BY <1>7, BundlesAssumption
<1> DEFINE r == [poller[p] EXCEPT !.at = "load", !.rows[c] = Nothing, !.todo = Kinds, !.got = Off.got]
           b == [bundle[p] EXCEPT ![c] = new]
<1>9. /\ poller' = [poller EXCEPT ![p] = r] /\ bundle' = [bundle EXCEPT ![p] = b]
      /\ swaps' = IF bundle[p][c] = Nothing THEN swaps ELSE swaps + 1
      /\ index' = index /\ refresher' = refresher
  <2>1. /\ poller' = [poller EXCEPT ![p].at = "load", ![p].rows[c] = Nothing, ![p].todo = Kinds, ![p].got = Off.got]
        /\ bundle' = [bundle EXCEPT ![p][c] = new]
        /\ swaps' = IF bundle[p][c] = Nothing THEN swaps ELSE swaps + 1
        /\ index' = index /\ refresher' = refresher
    BY <1>3, <1>4 DEF SwapBundle
  <2>2. [poller EXCEPT ![p].at = "load", ![p].rows[c] = Nothing, ![p].todo = Kinds, ![p].got = Off.got]
        = [poller EXCEPT ![p] = r]
    BY <1>1 DEF PollerSet
  <2>3. [bundle EXCEPT ![p][c] = new] = [bundle EXCEPT ![p] = b]
    BY <1>1 DEF ScorerType
  <2> QED
    BY <2>1, <2>2, <2>3
<1>10. /\ r \in PollerSet /\ r.todo = Kinds
       /\ r.rows[c] = Nothing /\ \A d \in Countries \ {c} : r.rows[d] = poller[p].rows[d]
  BY <1>1 DEF PollerSet, Off
<1>11. /\ b \in [Countries -> Bundles \cup {Nothing}]
       /\ b[c] = new /\ \A d \in Countries \ {c} : b[d] = bundle[p][d]
  BY <1>1, <1>7 DEF ScorerType
<1> HIDE DEF r, b
<1>12. poller'[p] = r /\ bundle'[p] = b
  BY <1>1, <1>9 DEF ScorerType
<1>13. RowsKnown(p)'
  BY <1>1, <1>10, <1>12 DEF PodTrue, RowsKnown, trainer
<1>14. GotTrue(p)'
  BY <1>10, <1>12 DEF GotTrue
<1>15. ASSUME NEW d \in Countries
       PROVE  BundleTrue(p, d)'
  <2>1. CASE d = c
    BY <1>5, <1>7, <1>11, <1>12, <2>1 DEF BundleTrue, trainer
  <2>2. CASE d # c
    BY <1>1, <1>11, <1>12, <2>2 DEF PodTrue, BundleTrue, trainer
  <2> QED
    BY <2>1, <2>2
<1>16. IndexTrue(p)'
  <2>1. Served(p) \subseteq Served(p)'
    BY <1>8, <1>11, <1>12 DEF Served
  <2>2. refresher'[p].todo \subseteq Served(p)'
    BY <1>1, <1>9, <2>1 DEF PodTrue, IndexTrue
  <2>3. refresher'[p].at = "build" => refresher'[p].country \in Served(p)'
    BY <1>1, <1>9, <2>1 DEF PodTrue, IndexTrue
  <2>4. ASSUME swaps' = 0
        PROVE  /\ \A d \in Countries : index'[p][d] # 0 =>
                    bundle'[p][d] # Nothing /\ index'[p][d] = bundle'[p][d].engineer.width
               /\ refresher'[p].at = "build" => refresher'[p].width = bundle'[p][refresher'[p].country].engineer.width
    <3>1. swaps = 0 /\ bundle[p][c] = Nothing
      BY <1>1, <1>9, <2>4 DEF ScorerType
    <3>2. \A d \in Countries : bundle[p][d] # Nothing => bundle'[p][d] = bundle[p][d]
      BY <1>11, <1>12, <3>1
    <3>3. \A d \in Countries : index[p][d] # 0 => bundle[p][d] # Nothing /\ index[p][d] = bundle[p][d].engineer.width
      BY <1>1, <3>1 DEF PodTrue, IndexTrue
    <3>4. refresher[p].at = "build" => refresher[p].country \in Served(p)
                                       /\ refresher[p].width = bundle[p][refresher[p].country].engineer.width
      BY <1>1, <3>1 DEF PodTrue, IndexTrue
    <3>5. \A d \in Served(p) : d \in Countries /\ bundle[p][d] # Nothing
      BY DEF Served
    <3> QED
      BY <1>9, <3>2, <3>3, <3>4, <3>5
  <2> QED
    BY <2>2, <2>3, <2>4 DEF IndexTrue
<1>17. PodTrue(p)'
  BY <1>13, <1>14, <1>15, <1>16 DEF PodTrue
<1>18. PodType(b, r, index[p], refresher[p])
  BY <1>1, <1>10, <1>11 DEF ScorerType, PodType
<1>19. /\ index' = [index EXCEPT ![p] = index[p]] /\ refresher' = [refresher EXCEPT ![p] = refresher[p]]
       /\ swaps' = swaps \/ swaps' = swaps + 1
  BY <1>1, <1>9 DEF ScorerType
<1> QED
  BY <1>9, <1>17, <1>18, <1>19, PodStep

\* A refresher that has taken nothing.
LEMMA RestedRefresher ==
  ASSUME ScorerInv, UNCHANGED trainer, NEW p \in Pods, NEW f \in RefresherSet,
         UNCHANGED <<bundle, poller, index, swaps>>, refresher' = [refresher EXCEPT ![p] = f],
         f.at # "build", f.todo \subseteq Served(p)
  PROVE  ScorerInv'
<1>1. ScorerType /\ PodTrue(p)
  BY DEF ScorerInv
<1>2. refresher'[p] = f /\ index' = [index EXCEPT ![p] = index[p]] /\ index[p] \in [Countries -> {0} \cup Widths]
  BY <1>1 DEF ScorerType
<1>3. IndexTrue(p)'
  BY <1>1, <1>2 DEF PodTrue, IndexTrue, Served
<1> QED
  BY <1>2, <1>3, RefresherOnly

LEMMA DoneStep ==
  ASSUME ScorerInv, UNCHANGED trainer, NEW p \in Pods, ReloadsDone(p)
  PROVE  ScorerInv'
<1>1. CASE ~poller[p].startup
  <2> DEFINE r == [Off EXCEPT !.at = "sleep", !.startup = FALSE]
  <2>1. poller' = [poller EXCEPT ![p] = r] /\ UNCHANGED <<bundle, index, refresher, swaps>>
    BY <1>1 DEF ReloadsDone
  <2>2. r \in PollerSet /\ r.at = "sleep" /\ r.todo = Kinds /\ \A c \in Countries : r.rows[c] = Nothing
    BY Resets
  <2> HIDE DEF r
  <2> QED
    BY <2>1, <2>2, IdlePoller
<1>2. CASE poller[p].startup /\ Served(p) = {}
  BY <1>2, GoneStep DEF ReloadsDone
<1>3. CASE poller[p].startup /\ Served(p) # {}
  <2> DEFINE f == [Rest EXCEPT !.at = "take", !.todo = Served(p)]
  <2>1. /\ poller' = [poller EXCEPT ![p] = Off] /\ refresher' = [refresher EXCEPT ![p] = f]
        /\ UNCHANGED <<bundle, index, swaps>>
    BY <1>3 DEF ReloadsDone
  <2>2. ScorerType /\ PodTrue(p)
    BY DEF ScorerInv
  <2>3. f \in RefresherSet /\ f.at = "take" /\ f.todo = Served(p)
    BY DEF Rest, RefresherSet, Served
  <2> HIDE DEF f
  <2>4. poller'[p] = Off /\ refresher'[p] = f
    BY <2>1, <2>2 DEF ScorerType
  <2>5. RowsKnown(p)' /\ GotTrue(p)'
    BY <2>4, Resets DEF RowsKnown, GotTrue
  <2>6. \A c \in Countries : BundleTrue(p, c)'
    BY <2>1, <2>2 DEF PodTrue, BundleTrue, trainer
  <2>7. IndexTrue(p)'
    BY <2>1, <2>2, <2>3, <2>4 DEF PodTrue, IndexTrue, Served
  <2>8. PodTrue(p)'
    BY <2>5, <2>6, <2>7 DEF PodTrue
  <2>9. PodType(bundle[p], Off, index[p], f)
    BY <2>2, <2>3, Resets DEF ScorerType, PodType
  <2>10. bundle' = [bundle EXCEPT ![p] = bundle[p]] /\ index' = [index EXCEPT ![p] = index[p]]
    BY <2>1, <2>2 DEF ScorerType
  <2> QED
    BY <2>1, <2>8, <2>9, <2>10, PodStep
<1> QED
  BY <1>1, <1>2, <1>3

\* The bundle that is taken is one of the moment.
LEMMA TakenEffect ==
  ASSUME ScorerInv, NEW p \in Pods, NEW todo, todo \subseteq Served(p)
  PROVE  /\ Taken(p, todo) \in RefresherSet /\ Taken(p, todo).todo \subseteq Served(p)
         /\ Taken(p, todo).at = "build" =>
              /\ Taken(p, todo).country \in Served(p)
              /\ Taken(p, todo).width = bundle[p][Taken(p, todo).country].engineer.width
<1>1. CASE todo = {}
  <2>1. Taken(p, todo) = [Rest EXCEPT !.at = "sleep"]
    BY <1>1 DEF Taken
  <2> QED
    BY <2>1 DEF Rest, RefresherSet
<1>2. CASE todo # {}
  <2>1. PICK c \in todo :
          Taken(p, todo) = [at |-> "build", todo |-> todo \ {c}, country |-> c, width |-> bundle[p][c].engineer.width]
    <3> DEFINE d == CHOOSE x \in todo : TRUE
    <3>1. d \in todo
      BY <1>2
    <3>2. Taken(p, todo) = [at |-> "build", todo |-> todo \ {d}, country |-> d, width |-> bundle[p][d].engineer.width]
      BY <1>2 DEF Taken
    <3> HIDE DEF d
    <3> QED
      BY <3>1, <3>2
  <2>2. c \in Countries /\ c \in Served(p) /\ bundle[p][c] \in Bundles
    BY DEF Served, ScorerInv, ScorerType
  <2>3. bundle[p][c].engineer.width \in Widths
    BY <2>2 DEF Bundles, Artifacts
  <2>4. todo \ {c} \subseteq Countries
    BY DEF Served
  <2> QED
    BY <2>1, <2>2, <2>3, <2>4 DEF RefresherSet
<1> QED
  BY <1>1, <1>2

LEMMA TickStep ==
  ASSUME ScorerInv, UNCHANGED trainer, NEW p \in Pods, RefreshTick(p)
  PROVE  ScorerInv'
<1> DEFINE f == [refresher[p] EXCEPT !.at = "take", !.todo = Served(p)]
<1>1. refresher[p] \in RefresherSet /\ refresher \in [Pods -> RefresherSet]
  BY DEF ScorerInv, ScorerType
<1>2. refresher' = [refresher EXCEPT ![p] = f] /\ UNCHANGED <<bundle, poller, index, swaps>>
  <2>1. refresher' = [refresher EXCEPT ![p].at = "take", ![p].todo = Served(p)] /\ UNCHANGED <<bundle, poller, index, swaps>>
    BY DEF RefreshTick
  <2> QED
    BY <1>1, <2>1 DEF RefresherSet
<1>3. f \in RefresherSet /\ f.at = "take" /\ f.todo = Served(p)
  BY <1>1 DEF RefresherSet, Served
<1> HIDE DEF f
<1> QED
  BY <1>2, <1>3, RestedRefresher

LEMMA IndexStep ==
  ASSUME ScorerInv, UNCHANGED trainer, NEW p \in Pods, TakeBundle(p) \/ BuildIndex(p)
  PROVE  ScorerInv'
<1>1. ScorerType /\ PodTrue(p) /\ refresher[p] \in RefresherSet /\ index[p] \in [Countries -> {0} \cup Widths]
  BY DEF ScorerInv, ScorerType
<1> DEFINE f == Taken(p, refresher[p].todo)
<1>2. /\ f \in RefresherSet /\ f.todo \subseteq Served(p)
      /\ f.at = "build" => f.country \in Served(p) /\ f.width = bundle[p][f.country].engineer.width
  BY <1>1, TakenEffect DEF PodTrue, IndexTrue
<1>3. refresher' = [refresher EXCEPT ![p] = f] /\ UNCHANGED <<bundle, poller, swaps>>
  <2>1. refresher' = [refresher EXCEPT ![p] = Taken(p, @.todo)] /\ UNCHANGED <<bundle, poller, swaps>>
    BY DEF TakeBundle, BuildIndex
  <2> QED
    BY <1>1, <2>1
<1> HIDE DEF f
<1>4. refresher'[p] = f /\ Served(p)' = Served(p)
  BY <1>1, <1>3 DEF ScorerType, Served
<1>5. ASSUME NEW i \in [Countries -> {0} \cup Widths], index' = [index EXCEPT ![p] = i],
             swaps = 0 => \A c \in Countries : i[c] # 0 => bundle[p][c] # Nothing /\ i[c] = bundle[p][c].engineer.width
      PROVE  ScorerInv'
  <2>1. index'[p] = i
    BY <1>1, <1>5 DEF ScorerType
  <2>2. IndexTrue(p)'
    BY <1>2, <1>3, <1>4, <1>5, <2>1 DEF IndexTrue
  <2> QED
    BY <1>2, <1>3, <1>5, <2>2, RefresherOnly
<1>6. swaps = 0 => \A c \in Countries : index[p][c] # 0 => bundle[p][c] # Nothing /\ index[p][c] = bundle[p][c].engineer.width
  BY <1>1 DEF PodTrue, IndexTrue
<1>7. CASE TakeBundle(p)
  <2>1. index' = [index EXCEPT ![p] = index[p]]
    BY <1>1, <1>7 DEF TakeBundle, ScorerType
  <2> QED
    BY <1>1, <1>5, <1>6, <2>1
<1>8. CASE BuildIndex(p)
  <2>1. PICK c : c = refresher[p].country
    OBVIOUS
  <2>2. refresher[p].at = "build" /\ c \in Served(p) /\ c \in Countries /\ bundle[p][c] # Nothing
    BY <1>1, <1>8, <2>1 DEF BuildIndex, PodTrue, IndexTrue, Served
  <2> DEFINE w == IF c \in Indexed THEN refresher[p].width ELSE 0
             i == [index[p] EXCEPT ![c] = w]
  <2>3. index' = [index EXCEPT ![p] = i]
    <3>1. index' = [index EXCEPT ![p][c] = w]
      BY <1>8, <2>1 DEF BuildIndex
    <3> QED
      BY <1>1, <3>1 DEF ScorerType
  <2>4. w \in {0} \cup Widths /\ (w = 0 \/ w = refresher[p].width)
    BY <1>1 DEF RefresherSet
  <2>5. swaps = 0 => refresher[p].width = bundle[p][c].engineer.width
    BY <1>1, <2>1, <2>2 DEF PodTrue, IndexTrue
  <2> HIDE DEF w
  <2>6. i \in [Countries -> {0} \cup Widths] /\ i[c] = w /\ \A d \in Countries \ {c} : i[d] = index[p][d]
    BY <1>1, <2>2, <2>4
  <2> HIDE DEF i
  <2>7. swaps = 0 => \A d \in Countries : i[d] # 0 => bundle[p][d] # Nothing /\ i[d] = bundle[p][d].engineer.width
    BY <1>6, <2>2, <2>4, <2>5, <2>6
  <2> QED
    BY <1>5, <2>3, <2>6, <2>7
<1> QED
  BY <1>7, <1>8

LEMMA RefreshFailsStep ==
  ASSUME ScorerInv, UNCHANGED trainer, NEW p \in Pods, RefreshFails(p)
  PROVE  ScorerInv'
<1>1. CASE phase[p] = "starting"
  BY <1>1, GoneStep DEF RefreshFails
<1>2. CASE phase[p] # "starting"
  <2> DEFINE f == [Rest EXCEPT !.at = "dead"]
  <2>1. refresher' = [refresher EXCEPT ![p] = f] /\ UNCHANGED <<bundle, poller, index, swaps>>
    BY <1>2 DEF RefreshFails
  <2>2. f \in RefresherSet /\ f.at = "dead" /\ f.todo = {}
    BY DEF Rest, RefresherSet
  <2> HIDE DEF f
  <2> QED
    BY <2>1, <2>2, RestedRefresher
<1> QED
  BY <1>1, <1>2

\* Only a call that cannot be scored adds to the refused, and only swaps are counted.
Quiet == refused' = refused /\ (swaps' = swaps \/ swaps' = swaps + 1)

LEMMA PodSteps ==
  ASSUME TrainerType, RegistryInv, HoldersInv, ScorerInv, UNCHANGED trainer, ScorerStep
  PROVE  ScorerInv' /\ (Quiet \/ \E p \in Pods, c \in Countries : ScoreRow(p, c))
<1> PICK p \in Pods : \/ StartScorer(p) \/ PollerStep(p) \/ RefresherStep(p) \/ PodFails(p)
                      \/ \E c \in Countries : ScoreRow(p, c)
  BY DEF ScorerStep
<1>1. ProcessGone(p) => Quiet
  BY DEF ProcessGone, Quiet
<1>2. ReloadFails(p) => Quiet
  BY <1>1 DEF ReloadFails, Others, Quiet
<1>3. CASE StartScorer(p)
  <2>1. /\ poller' = [poller EXCEPT ![p] = [Off EXCEPT !.at = "sleep"]]
        /\ UNCHANGED <<bundle, index, refresher, swaps>> /\ Quiet
    BY <1>3 DEF StartScorer, Quiet
  <2> DEFINE r == [Off EXCEPT !.at = "sleep"]
  <2>2. r \in PollerSet /\ r.at = "sleep" /\ r.todo = Kinds /\ \A c \in Countries : r.rows[c] = Nothing
    BY Resets
  <2>3. poller' = [poller EXCEPT ![p] = r]
    BY <2>1
  <2> HIDE DEF r
  <2> QED
    BY <2>1, <2>2, <2>3, IdlePoller
<1>4. CASE FetchActiveVersions(p)
  BY <1>4, FetchStep DEF FetchActiveVersions, Others, Quiet
<1>5. CASE ObjectMissing(p) \/ GetObjectFails(p)
  BY <1>2, <1>5, ReloadFailsStep DEF ObjectMissing, GetObjectFails
<1>6. CASE SwapBundle(p)
  <2>1. Quiet
    BY <1>6 DEF SwapBundle, Others, Quiet
  <2> QED
    BY <1>6, <2>1, SwapStep
<1>7. CASE ReloadsDone(p)
  BY <1>1, <1>7, DoneStep DEF ReloadsDone, Others, Quiet
<1>8. ASSUME NEW kind \in Kinds, GetObject(p, kind)
      PROVE  ScorerInv' /\ Quiet
  <2>1. Quiet
    BY <1>8 DEF GetObject, Others, Quiet
  <2> QED
    BY <1>8, <2>1, GetStep
<1>9. CASE RefreshTick(p)
  BY <1>9, TickStep DEF RefreshTick, Others, Quiet
<1>10. CASE TakeBundle(p) \/ BuildIndex(p)
  BY <1>10, IndexStep DEF TakeBundle, BuildIndex, Others, Quiet
<1>11. CASE Serve(p)
  <2>1. /\ poller' = [poller EXCEPT ![p] = [Off EXCEPT !.at = "sleep", !.startup = FALSE]]
        /\ UNCHANGED <<bundle, index, refresher, swaps>> /\ Quiet
    BY <1>11 DEF Serve, Quiet
  <2> DEFINE r == [Off EXCEPT !.at = "sleep", !.startup = FALSE]
  <2>2. r \in PollerSet /\ r.at = "sleep" /\ r.todo = Kinds /\ \A c \in Countries : r.rows[c] = Nothing
    BY Resets
  <2>3. poller' = [poller EXCEPT ![p] = r]
    BY <2>1
  <2> HIDE DEF r
  <2> QED
    BY <2>1, <2>2, <2>3, IdlePoller
<1>12. CASE Crash(p)
  BY <1>1, <1>12, GoneStep DEF Crash
<1>13. CASE RefreshFails(p)
  BY <1>1, <1>13, RefreshFailsStep DEF RefreshFails, Others, Quiet
<1>14. ASSUME NEW c \in Countries, ScoreRow(p, c)
       PROVE  ScorerInv'
  <2>1. UNCHANGED <<bundle, poller, index, refresher, swaps>>
    BY <1>14 DEF ScoreRow
  <2>2. Steady
    BY DEF trainer, Steady
  <2> QED
    BY <2>1, <2>2, WorldStep
<1> QED
  BY <1>3, <1>4, <1>5, <1>6, <1>7, <1>8, <1>9, <1>10, <1>11, <1>12, <1>13, <1>14
  DEF PollerStep, RefresherStep, PodFails

LifecycleInv == TrainerType /\ RegistryInv /\ HoldersInv /\ ScorerInv

\* The bundle of a tag that is not shared is of one training, and its vectors have one
\* width.
LEMMA BundleWhole ==
  ASSUME LifecycleInv, NEW p \in Pods, NEW c \in Countries, bundle[p][c] # Nothing,
         <<c, bundle[p][c].tag>> \notin collided
  PROVE  bundle[p][c].point = bundle[p][c].engineer /\ bundle[p][c].point.run = versions[c][bundle[p][c].tag].run
<1>1. bundle[p][c].tag \in Tags
  BY DEF LifecycleInv, ScorerInv, ScorerType, Bundles
<1>2. BundleTrue(p, c) /\ Held(c, bundle[p][c].tag)
  BY <1>1 DEF LifecycleInv, ScorerInv, PodTrue, HoldersInv
<1> QED
  BY <1>2 DEF BundleTrue, Held

LEMMA LifecycleStep ==
  ASSUME LifecycleInv, RefusalNeedsSwap, [Next]_vars
  PROVE  LifecycleInv' /\ RefusalNeedsSwap'
<1>1. TrainerType' /\ RegistryInv' /\ HoldersInv' /\ Steady
  BY RegistryStep, HoldersStep DEF LifecycleInv
<1>2. ASSUME UNCHANGED <<phase, bundle, poller, index, refresher, refused, starts, swaps>>
      PROVE  ScorerInv' /\ Quiet
  BY <1>1, <1>2, WorldStep DEF LifecycleInv, Quiet
<1>3. ScorerInv' /\ (Quiet \/ \E p \in Pods, c \in Countries : ScoreRow(p, c))
  <2>1. CASE \E j \in Jobs : JobStep(j) /\ UNCHANGED scorer
    BY <1>2, <2>1 DEF scorer
  <2>2. CASE UNCHANGED <<phase, bundle, poller, index, refresher, refused, starts, swaps>>
    BY <1>2, <2>2
  <2>3. CASE ScorerStep /\ UNCHANGED trainer
    BY <2>3, PodSteps DEF LifecycleInv
  <2>4. CASE UNCHANGED vars
    BY <1>2, <2>4 DEF vars, scorer
  <2> QED
    BY <2>1, <2>2, <2>3, <2>4 DEF Next
<1>4. RefusalNeedsSwap'
  <2>1. CASE Quiet
    <3>1. swaps \in Nat /\ collided \subseteq collided'
      BY <1>1 DEF LifecycleInv, ScorerInv, ScorerType, Steady
    <3>2. swaps > 0 => swaps' > 0
      BY <2>1, <3>1 DEF Quiet
    <3>3. collided # {} => collided' # {}
      BY <3>1
    <3> QED
      BY <2>1, <3>2, <3>3 DEF Quiet, RefusalNeedsSwap
  <2>2. CASE \E p \in Pods, c \in Countries : ScoreRow(p, c)
    <3>1. PICK p \in Pods, c \in Countries : ScoreRow(p, c)
      BY <2>2
    <3>2. bundle[p][c] # Nothing /\ ~Fits(p, c) /\ swaps' = swaps
      BY <3>1 DEF ScoreRow, ByModel
    <3>3. swaps \in Nat /\ IndexTrue(p)
      BY DEF LifecycleInv, ScorerInv, ScorerType, PodTrue
    <3>4. CASE collided = {}
      <4>1. bundle[p][c].point = bundle[p][c].engineer
        BY <3>2, <3>4, BundleWhole
      <4>2. index[p][c] # 0 /\ index[p][c] # bundle[p][c].engineer.width
        BY <3>2, <4>1 DEF Fits
      <4>3. swaps # 0
        BY <3>3, <4>2 DEF IndexTrue
      <4> QED
        BY <3>2, <3>3, <4>3 DEF RefusalNeedsSwap
    <3>5. CASE collided # {}
      BY <1>1, <3>5 DEF Steady, RefusalNeedsSwap
    <3> QED
      BY <3>4, <3>5
  <2> QED
    BY <1>3, <2>1, <2>2
<1> QED
  BY <1>1, <1>3, <1>4 DEF LifecycleInv

LEMMA LifecycleInvariant == Spec => [](LifecycleInv /\ RefusalNeedsSwap)
<1>1. Init => LifecycleInv /\ RefusalNeedsSwap
  <2>1. Init => refused = {}
    BY DEF Init, ScorerInit
  <2> QED
    BY <2>1, RegistryInit, HoldersInit, ScorerInit0 DEF LifecycleInv, RefusalNeedsSwap
<1>2. (LifecycleInv /\ RefusalNeedsSwap) /\ [Next]_vars => (LifecycleInv /\ RefusalNeedsSwap)'
  BY LifecycleStep
<1> QED
  BY <1>1, <1>2, PTL DEF Spec

\* A pod scores with the model and the engineer of one training, the one the registry
\* names, unless two jobs took one tag: upload_artifacts writes under the tag alone.
THEOREM ServedWhole == Spec => []MixedNeedsCollision
<1>1. LifecycleInv => MixedNeedsCollision
  <2> SUFFICES ASSUME LifecycleInv, NEW p \in Pods, NEW c \in Countries, bundle[p][c] # Nothing,
                      <<c, bundle[p][c].tag>> \notin collided
               PROVE  ~(bundle[p][c].point.run # bundle[p][c].engineer.run
                        \/ bundle[p][c].point.run # versions[c][bundle[p][c].tag].run)
    BY DEF MixedNeedsCollision
  <2> QED
    BY BundleWhole
<1> QED
  BY <1>1, LifecycleInvariant, PTL

\* score_listing and get_comparables raise only after a bundle was replaced under the
\* index, or where a shared tag mixed the objects of two trainings.
THEOREM RefusalCaused == Spec => []RefusalNeedsSwap
BY LifecycleInvariant, PTL

=============================================================================
