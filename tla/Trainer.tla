------------------------------ MODULE Trainer ------------------------------
(***************************************************************************)
(* The ml trainer: trainer/__main__.py, train.py and registry.py.  A job   *)
(* trains one country after another.  For each it takes the next version   *)
(* tag, trains, uploads the model and the engineer under the tag and, in   *)
(* one transaction, registers the version and promotes it if it improves   *)
(* on the champion.  Scheduled and manual jobs may overlap: nothing but    *)
(* the unique index on the tag and the lock on the champion's row keeps    *)
(* them apart.                                                             *)
(***************************************************************************)
EXTENDS PriceModel, SequencesExt

CONSTANTS
  Countries,
  Base,         \* transfer_base_country
  Size,         \* Size[c]: "full", "transfer" or "few" listings
  Jobs,         \* runs of the trainer
  Everything,   \* --countries-all, as a job's argument
  Arguments,    \* Arguments[j]: a country or Everything
  Nothing,      \* no row, no version, no object
  TransferMax,  \* transfer_mape_max
  Trainings,    \* what a training may give: the rows it was fitted on and its error (MAPE, percent)
  Rules,        \* its encoding rules
  MaxTags       \* bound of the model: versions of a country

ASSUME CountriesAssumption ==
  /\ IsFiniteSet(Countries) /\ Base \in Countries
  /\ Arguments \in [Jobs -> Countries \cup {Everything}]
ASSUME TagsAssumption == MaxTags \in Nat

VARIABLES
  versions,   \* model_versions: the committed row of each country and tag
  objects,    \* the bucket: the job that wrote an object and the width of its vectors
  job,        \* what each job is doing
  collided    \* history: tags that two runs took

trainer == <<versions, objects, job, collided>>

Tags  == 1..MaxTags
Kinds == {"onnx", "engineer"}

NoJob == [stage |-> "country", todo |-> <<>>, tag |-> 0, mape |-> 0, width |-> 0,
          confidence |-> "full", champion |-> Nothing, base |-> FALSE]

\* The base country comes first; with one country as argument it is trained only
\* for a country that needs it, and has listings enough itself.
Plan(argument) ==
  IF argument = Everything
  THEN LET enough == {c \in Countries : Size[c] # "few"}
       IN  SetToSeq(enough \cap {Base}) \o SetToSeq(enough \ {Base})
  ELSE IF argument # Base /\ Size[argument] # "full" /\ Size[Base] = "full"
       THEN <<Base, argument>>
       ELSE <<argument>>

TrainerInit ==
  /\ versions = [c \in Countries |-> [t \in Tags |-> Nothing]]
  /\ objects = [c \in Countries |-> [t \in Tags |-> [k \in Kinds |-> Nothing]]]
  /\ job = [j \in Jobs |-> [NoJob EXCEPT !.stage = IF Plan(Arguments[j]) = <<>> THEN "done" ELSE "country",
                                          !.todo = Plan(Arguments[j])]]
  /\ collided = {}

Registered(c) == {t \in Tags : versions[c][t] # Nothing}
ActiveTags(c) == {t \in Registered(c) : versions[c][t].status = "active"}
Country(j)    == Head(job[j].todo)
JobAt(j, stage) == job[j].stage = stage
OnlyJob       == UNCHANGED <<versions, objects, collided>>

-----------------------------------------------------------------------------
(* __main__.py                                                              *)

\* The job turns to its next country; the booster of the base country is kept.
NextCountry(j, trained) ==
  LET rest == Tail(job[j].todo)
  IN  job' = [job EXCEPT ![j] = [NoJob EXCEPT
                !.stage = IF rest = <<>> THEN "done" ELSE "country",
                !.todo = rest,
                !.base = IF Country(j) = Base THEN trained ELSE job[j].base]]

\* A country that fails is logged, and the next one follows; with a single country
\* as argument the job ends.
Fails(j) ==
  IF Arguments[j] = Everything
  THEN NextCountry(j, FALSE)
  ELSE job' = [job EXCEPT ![j] = [NoJob EXCEPT !.stage = "done"]]

\* _run_for_country: too few listings, or no booster to start from.
Untrainable(j) ==
  LET c == Country(j)
  IN  c # Base /\ Size[c] # "full" /\ (Size[c] = "few" \/ ~job[j].base)

SkipCountry(j) ==
  /\ JobAt(j, "country")
  /\ Untrainable(j)
  /\ Fails(j)
  /\ OnlyJob

-----------------------------------------------------------------------------
(* train.py                                                                 *)

\* Mutated form: a sequence hands out the tags.
NextVersionTagSequence(c) ==
  Max({0} \cup Registered(c)
          \cup {job[j].tag : j \in {i \in Jobs : job[i].todo # <<>> /\ Country(i) = c}}) + 1

\* The number after that of the youngest row.
NextVersionTag(c) ==
  IF Registered(c) = {} THEN 1 ELSE Max(Registered(c)) + 1

\* _version_tag_for_country reads the registry before the training, in a
\* connection of its own: the lock on the champion ends with it.
TakeVersionTag(j) ==
  LET c == Country(j)
      tag == NextVersionTag(c)
  IN  /\ JobAt(j, "country")
      /\ ~Untrainable(j)
      /\ tag \in Tags
      /\ job' = [job EXCEPT ![j].stage = "train", ![j].tag = tag]
      /\ collided' = IF \E i \in Jobs \ {j} : job[i].todo # <<>> /\ Country(i) = c /\ job[i].tag = tag
                     THEN collided \cup {<<c, tag>>} ELSE collided
      /\ UNCHANGED <<versions, objects>>

\* The width depends on the columns the data filled.
Outcomes == {[width |-> Width(Fit(Rules, t.rows)), mape |-> t.mape] : t \in Trainings}

\* What the bucket and the table hold, and Nothing is none of it.
Widths      == {o.width : o \in Outcomes}
Artifacts   == [run : Jobs, width : Widths]
VersionRows == [status : {"active", "retired"}, mape : {o.mape : o \in Outcomes}, run : Jobs,
                confidence : {"full", "transfer", "insufficient_data"}]

ASSUME NothingAssumption == Nothing \notin Tags \cup Artifacts \cup VersionRows

\* upload_artifacts puts an object under the tag's key; it is known by the job.
Put(j, kind, width) ==
  objects' = [objects EXCEPT ![Country(j)][job[j].tag][kind] = [run |-> j, width |-> width]]

\* The trained model is evaluated, exported and uploaded.
Evaluated(j, outcome, confidence) ==
  /\ job' = [job EXCEPT ![j].stage = "engineer", ![j].mape = outcome.mape, ![j].width = outcome.width,
                     ![j].confidence = confidence]
  /\ Put(j, "onnx", outcome.width)
  /\ UNCHANGED <<versions, collided>>

\* run_training: tuned on the training split, fitted on it and the validation
\* split, evaluated on the test split.
RunTraining(j) ==
  /\ JobAt(j, "train")
  /\ Country(j) = Base \/ Size[Country(j)] = "full"
  /\ \E outcome \in Outcomes : Evaluated(j, outcome, "full")

\* run_transfer_training: a hundred rounds from the base booster.
RunTransferTraining(j) ==
  /\ JobAt(j, "train")
  /\ Country(j) # Base /\ Size[Country(j)] = "transfer"
  /\ \E outcome \in Outcomes :
       Evaluated(j, outcome, IF outcome.mape <= TransferMax THEN "transfer" ELSE "insufficient_data")

-----------------------------------------------------------------------------
(* registry.py                                                              *)

\* The engineer follows the model.
UploadEngineer(j) ==
  /\ JobAt(j, "engineer")
  /\ Put(j, "engineer", job[j].width)
  /\ job' = [job EXCEPT ![j].stage = "select"]
  /\ UNCHANGED <<versions, collided>>

\* SELECT ... FOR UPDATE of the active row, within the transaction.
Holder(c) == {j \in Jobs : JobAt(j, "locked") /\ job[j].todo # <<>> /\ Country(j) = c /\ job[j].champion # Nothing}

SelectChampion(j) ==
  LET c == Country(j)
      found == IF ActiveTags(c) = {} THEN Nothing ELSE Max(ActiveTags(c))
  IN  /\ JobAt(j, "select")
      /\ job' = [job EXCEPT ![j].champion = found,
                            ![j].stage = IF found # Nothing /\ Holder(c) # {} THEN "blocked" ELSE "locked"]
      /\ OnlyJob

\* When the holder is gone the row is read again; a row that is no longer active
\* drops out, and the new champion is not among the rows the statement began with.
Unblock(j) ==
  LET c == Country(j)
  IN  /\ JobAt(j, "blocked")
      /\ Holder(c) = {}
      /\ job' = [job EXCEPT ![j].stage = "locked",
                            ![j].champion = IF @ \in ActiveTags(c) THEN @ ELSE Nothing]
      /\ OnlyJob

\* The rest of maybe_promote, up to the commit: insert the challenger, unless its
\* tag is taken; without a champion, or with a worse one, promote it and retire the
\* champion, else retire the challenger.
MaybePromote(j) ==
  LET c == Country(j)
      champion == job[j].champion
      promoted == champion = Nothing \/ Improves(job[j].mape, versions[c][champion].mape)
      row == [status |-> IF promoted THEN "active" ELSE "retired", mape |-> job[j].mape,
              run |-> j, confidence |-> job[j].confidence]
      retires == promoted /\ champion # Nothing
  IN  /\ JobAt(j, "locked")
      /\ versions[c][job[j].tag] = Nothing
      /\ versions' = [versions EXCEPT ![c] =
                        IF retires THEN [@ EXCEPT ![job[j].tag] = row, ![champion].status = "retired"]
                        ELSE [@ EXCEPT ![job[j].tag] = row]]
      /\ UNCHANGED <<objects, collided>>

\* The run is logged to MLflow, and the booster is handed back.
CompleteTraining(j) == MaybePromote(j) /\ NextCountry(j, TRUE)

\* MLflow does not answer: the country failed for the job, although the version is
\* registered, and perhaps promoted; a booster of the base country is lost.
LoggingFails(j) == MaybePromote(j) /\ Fails(j)

TagTaken(j) ==
  /\ JobAt(j, "locked")
  /\ versions[Country(j)][job[j].tag] # Nothing
  /\ Fails(j)
  /\ OnlyJob

\* A step fails (so does every insert whose metrics the driver cannot encode), and
\* the transaction with it; the objects stay.
JobFails(j) ==
  /\ job[j].stage # "done"
  /\ Fails(j)
  /\ UNCHANGED <<versions, objects, collided>>

JobStep(j) ==
  \/ SkipCountry(j) \/ TakeVersionTag(j)
  \/ RunTraining(j) \/ RunTransferTraining(j)
  \/ UploadEngineer(j)
  \/ SelectChampion(j) \/ Unblock(j) \/ CompleteTraining(j) \/ TagTaken(j)

-----------------------------------------------------------------------------
(* Property                                                                 *)

\* A country never has two active versions, whatever jobs overlap: a job that waited
\* for the champion's lock finds no champion and would promote beside the new one,
\* but its tag is the new one's and the insert is refused.
OneActiveVersion == \A c \in Countries : Cardinality(ActiveTags(c)) <= 1

=============================================================================
