------------------------- MODULE AlertEngineProofs -------------------------
(***************************************************************************)
(* Proofs about AlertEngine, for any rules, users, listings and logs: a    *)
(* repeated notification has a cause, an acknowledged listing reached the  *)
(* users who want it, and a digest loses nothing unless something failed.  *)
(***************************************************************************)
EXTENDS AlertEngine, TLAPS

-----------------------------------------------------------------------------
(* Types                                                                    *)

Stages  == {"idle", "match", "route", "publish", "mark", "record", "list", "clear", "error", "commit"}
Jobs    == [todo : SUBSET Rules, matches : SUBSET Rules, rule : Rules \cup {None}, next : Nat]
Digests == [keys : SUBSET Digest, rule : Digest \cup {None}, items : SUBSET Listings, next : Nat]
Told    == Rules \X ChannelNames \X Listings

\* The parts of TypeOK: the readers, Redis and the tables, the compiler, the history.
ReadersType ==
  /\ pc \in [Readers -> Stages] /\ \A t \in Readers : event[t] \in Topic(t) \cup {None}
  /\ DOMAIN event = Readers /\ tries \in [Readers -> 0..MaxRetries]
  /\ job \in Jobs /\ users \subseteq Users
StoresType ==
  /\ sent \subseteq Users \X Listings /\ buffer \subseteq Digest \X Listings /\ overdue \subseteq Digest
  /\ history \subseteq Rules \X Listings /\ replica \subseteq history
  /\ active \subseteq Rules /\ active \subseteq cached /\ cached \subseteq Rules
CompilerType ==
  /\ cpc \in {"idle", "compile", "publish", "record"} /\ digest \in Digests
HistoryType ==
  /\ acked \subseteq Events /\ dead \subseteq Events /\ cut \subseteq Events
  /\ told \in [Told -> Nat] /\ added \subseteq Digest \X Listings /\ dropped \subseteq added /\ buffer \subseteq added
  /\ cleared \in [Users \X Listings -> Nat] /\ faults \in Nat
Types == ReadersType /\ StoresType /\ CompilerType /\ HistoryType

USE DEF topic, reader, redis, tables, rules, compile, ghosts, ScoredUnchanged, PriceUnchanged,
        CompilerUnchanged, WorldUnchanged, Goto, Fail, Fault, Outage, NoFault

\* Where the readers and the compiler are.
Shape ==
  /\ \A t \in Readers : (event[t] = None) <=> (pc[t] = "idle")
  /\ pc["scored"] \in {"idle", "match", "route", "publish", "mark", "record", "error", "commit"}
  /\ pc["price"] \in {"idle", "list", "clear", "error", "commit"}
  /\ pc["scored"] \in {"publish", "mark", "record"} => job.rule \in Rules
  /\ pc["scored"] = "publish" => job.rule \notin Digest /\ job.next \in 1..Len(Channels[job.rule])
  /\ pc["scored"] \in {"route", "publish", "mark", "record"} => job.todo = {}
  /\ pc["scored"] \in {"publish", "mark"} => job.rule \notin job.matches
  /\ pc["scored"] = "commit" => event["scored"] \in dead \/ (job.todo = {} /\ job.matches = {})
  /\ cpc \in {"idle", "compile"} => digest.rule = None
  /\ cpc \in {"publish", "record"} => digest.rule \in Digest /\ digest.next \in 1..Len(Channels[digest.rule])

LEMMA ListingType ==
  ASSUME Types, Shape, pc["scored"] # "idle"
  PROVE  event["scored"] \in Scored /\ Listing \in Listings
<1>1. event["scored"] \in Scored
  BY DEF Types, ReadersType, Shape, Readers, Scored
<1> QED
  BY <1>1, EventsAssumption DEF Listing, Events

LEMMA PriceType ==
  ASSUME Types, Shape, pc["price"] # "idle"
  PROVE  event["price"] \in Topic("price") /\ ListingOf[event["price"]] \in Listings
<1>1. event["price"] \in Topic("price")
  BY DEF Types, ReadersType, Shape, Readers
<1> QED
  BY <1>1, EventsAssumption DEF Events

LEMMA NoneType == NoJob \in Jobs /\ NoDigest \in Digests
BY DEF NoJob, Jobs, NoDigest, Digests

\* The rules a handler call begins with.
LEMMA JobType ==
  ASSUME Types, NEW l
  PROVE  [NoJob EXCEPT !.todo = {r \in cached : <<r, l>> \in Wants}] \in Jobs
<1>1. NoJob \in Jobs
  BY NoneType
<1>2. {r \in cached : <<r, l>> \in Wants} \in SUBSET Rules
  BY DEF Types, StoresType
<1> QED
  BY <1>1, <1>2 DEF Jobs

LEMMA ReadersStep ==
  ASSUME Types, Shape, Next
  PROVE  ReadersType'
<1>1. ASSUME NEW t \in Readers, NEW e \in Events, Receive(t, e)
      PROVE  ReadersType'
  <2>1. /\ e \in Topic(t) /\ event' = [event EXCEPT ![t] = e] /\ tries' = [tries EXCEPT ![t] = 1] /\ users' = users
        /\ pc' = [pc EXCEPT ![t] = IF t = "scored" THEN "match" ELSE "list"]
    BY <1>1 DEF Receive, Topic
  <2>2. job' \in Jobs
    BY <1>1, JobType DEF Receive, Types, ReadersType
  <2>3. 1 \in 0..MaxRetries
    BY LimitsAssumption
  <2> QED
    BY <2>1, <2>2, <2>3 DEF Types, ReadersType, Stages
<1>2. ASSUME NEW t \in Readers, Retry(t)
      PROVE  ReadersType'
  <2>1. job' \in Jobs
    <3>1. PICK l : l = Listing
      OBVIOUS
    <3>2. job' = job \/ job' = [NoJob EXCEPT !.todo = {r \in cached : <<r, l>> \in Wants}]
      BY <1>2, <3>1 DEF Retry
    <3>3. [NoJob EXCEPT !.todo = {r \in cached : <<r, l>> \in Wants}] \in Jobs
      BY JobType
    <3>4. job \in Jobs
      BY DEF Types, ReadersType
    <3> QED
      BY <3>2, <3>3, <3>4
  <2>2. tries' \in [Readers -> 0..MaxRetries]
    <3>1. tries[t] \in 0..MaxRetries /\ MaxRetries \in Nat
      BY LimitsAssumption DEF Types, ReadersType
    <3>2. tries[t] # MaxRetries => tries[t] + 1 \in 0..MaxRetries
      BY <3>1
    <3> QED
      BY <1>2, <3>2 DEF Retry, Types, ReadersType
  <2>3. pc' \in [Readers -> Stages] /\ event' = event /\ users' = users
    BY <1>2 DEF Retry, Types, ReadersType, Stages
  <2> QED
    BY <2>1, <2>2, <2>3 DEF Types, ReadersType
<1>3. ASSUME NEW t \in Readers, Commit(t)
      PROVE  ReadersType'
  <2>1. job' \in Jobs
    BY <1>3, NoneType DEF Commit, Types, ReadersType
  <2>2. 0 \in 0..MaxRetries
    BY LimitsAssumption
  <2> QED
    BY <1>3, <2>1, <2>2 DEF Commit, Types, ReadersType, Stages
<1>4. ASSUME NEW r \in Rules, Evaluate(r)
      PROVE  ReadersType'
  BY <1>4 DEF Evaluate, Types, ReadersType, Jobs, Chosen
<1>5. ASSUME NEW r \in Rules, EvaluateOpen(r)
      PROVE  ReadersType'
  BY <1>5 DEF EvaluateOpen, Types, ReadersType, Jobs, Chosen
<1>6. CASE MatchError
  BY <1>6 DEF MatchError, Types, ReadersType, Stages
<1>7. CASE Matched
  BY <1>7 DEF Matched, Types, ReadersType, Stages
<1>8. CASE AllRouted
  BY <1>8 DEF AllRouted, Types, ReadersType, Stages
<1>9. ASSUME NEW r \in Rules, RouteInstant(r)
      PROVE  ReadersType'
  BY <1>9 DEF RouteInstant, Types, ReadersType, Stages, Jobs
<1>10. CASE PublishInstant
  <2>1. job' \in Jobs
    BY <1>10 DEF PublishInstant, Types, ReadersType, Jobs
  <2>2. pc' \in [Readers -> Stages] /\ event' = event /\ tries' = tries /\ users' = users
    BY <1>10 DEF PublishInstant, Types, ReadersType, Stages
  <2> QED
    BY <2>1, <2>2 DEF Types, ReadersType
<1>11. CASE PublishError
  BY <1>11 DEF PublishError, Types, ReadersType, Stages
<1>12. ASSUME NEW r \in Rules, RouteDigest(r)
      PROVE  ReadersType'
  BY <1>12 DEF RouteDigest, Types, ReadersType, Stages, Jobs
<1>13. ASSUME NEW r \in Rules, RouteDigestError(r)
      PROVE  ReadersType'
  BY <1>13 DEF RouteDigestError, Types, ReadersType, Stages
<1>14. CASE MarkSent
  BY <1>14 DEF MarkSent, Types, ReadersType, Stages, AfterMark
<1>15. CASE MarkError
  BY <1>15 DEF MarkError, Types, ReadersType, Stages, AfterMark
<1>16. CASE Record
  BY <1>16 DEF Record, Types, ReadersType, Stages
<1>17. CASE RecordError
  BY <1>17 DEF RecordError, Types, ReadersType, Stages
<1>18. CASE ListUsers
  <2>1. users' \subseteq Users
    <3>1. \A p \in replica : Owner[p[1]] \in Users
      BY RulesAssumption DEF Types, StoresType
    <3> QED
      BY <1>18, <3>1 DEF ListUsers
  <2> QED
    BY <1>18, <2>1 DEF ListUsers, Types, ReadersType, Stages
<1>19. CASE ListUsersError
  BY <1>19 DEF ListUsersError, Types, ReadersType, Stages
<1>20. ASSUME NEW u \in Users, ClearSent(u)
      PROVE  ReadersType'
  BY <1>20 DEF ClearSent, Types, ReadersType
<1>21. CASE AllCleared
  BY <1>21 DEF AllCleared, Types, ReadersType, Stages
<1>22. CASE Tick
  BY <1>22 DEF Tick, Types, ReadersType
<1>23. ASSUME NEW r \in Digest, ExpireKey(r)
      PROVE  ReadersType'
  BY <1>23 DEF ExpireKey, Types, ReadersType
<1>24. ASSUME NEW r \in Digest, Flush(r)
      PROVE  ReadersType'
  BY <1>24 DEF Flush, Types, ReadersType
<1>25. CASE PublishDigest
  <2>1. UNCHANGED <<pc, event, tries, job, users>>
    BY <1>25 DEF PublishDigest
  <2> QED
    BY <2>1 DEF Types, ReadersType
<1>26. CASE RecordDigest
  BY <1>26 DEF RecordDigest, Types, ReadersType
<1>27. CASE CompileError
  BY <1>27 DEF CompileError, Types, ReadersType
<1>28. CASE Compiled
  BY <1>28 DEF Compiled, Types, ReadersType
<1>29. ASSUME NEW r \in Rules, Deactivate(r)
      PROVE  ReadersType'
  BY <1>29 DEF Deactivate, Types, ReadersType
<1>30. ASSUME NEW u \in Users, ExpireSent(u)
      PROVE  ReadersType'
  BY <1>30 DEF ExpireSent, Types, ReadersType
<1>31. CASE Refresh
  BY <1>31 DEF Refresh, Types, ReadersType
<1>32. CASE Replicate
  BY <1>32 DEF Replicate, Types, ReadersType
<1>33. CASE Restart
  <2>1. job' \in Jobs /\ users' = {}
    BY <1>33, NoneType DEF Restart
  <2>2. 0 \in 0..MaxRetries
    BY LimitsAssumption
  <2>3. /\ pc' = [t \in Readers |-> "idle"] /\ event' = [t \in Readers |-> None]
        /\ tries' = [t \in Readers |-> 0]
    BY <1>33 DEF Restart
  <2> QED
    BY <2>1, <2>2, <2>3 DEF ReadersType, Stages
<1> QED
  BY <1>1, <1>2, <1>3, <1>4, <1>5, <1>6, <1>7, <1>8, <1>9, <1>10, <1>11, <1>12, <1>13, <1>14,
     <1>15, <1>16, <1>17,
     <1>18, <1>19, <1>20, <1>21, <1>22, <1>23, <1>24, <1>25, <1>26, <1>27, <1>28, <1>29, <1>30, <1>31, <1>32, <1>33
     DEF Next, Handle, HandleError, Price, Compile

LEMMA StoresStep ==
  ASSUME Types, Shape, Next
  PROVE  StoresType'
<1>1. ASSUME NEW t \in Readers, NEW e \in Events, Receive(t, e)
      PROVE  StoresType'
  BY <1>1, ListingType DEF Receive, Types, StoresType
<1>2. ASSUME NEW t \in Readers, Retry(t)
      PROVE  StoresType'
  BY <1>2, ListingType DEF Retry, Types, StoresType
<1>3. ASSUME NEW t \in Readers, Commit(t)
      PROVE  StoresType'
  BY <1>3, ListingType DEF Commit, Types, StoresType
<1>4. ASSUME NEW r \in Rules, Evaluate(r)
      PROVE  StoresType'
  BY <1>4, ListingType DEF Evaluate, Types, StoresType
<1>5. ASSUME NEW r \in Rules, EvaluateOpen(r)
      PROVE  StoresType'
  BY <1>5, ListingType DEF EvaluateOpen, Types, StoresType
<1>6. CASE MatchError
  BY <1>6, ListingType DEF MatchError, Types, StoresType
<1>7. CASE Matched
  BY <1>7, ListingType DEF Matched, Types, StoresType
<1>8. CASE AllRouted
  BY <1>8, ListingType DEF AllRouted, Types, StoresType
<1>9. ASSUME NEW r \in Rules, RouteInstant(r)
      PROVE  StoresType'
  BY <1>9, ListingType DEF RouteInstant, Types, StoresType
<1>10. CASE PublishInstant
  BY <1>10, ListingType DEF PublishInstant, Types, StoresType
<1>11. CASE PublishError
  BY <1>11, ListingType DEF PublishError, Types, StoresType
<1>12. ASSUME NEW r \in Rules, RouteDigest(r)
      PROVE  StoresType'
  BY <1>12, ListingType DEF RouteDigest, Types, StoresType, Add
<1>13. ASSUME NEW r \in Rules, RouteDigestError(r)
      PROVE  StoresType'
  BY <1>13, ListingType DEF RouteDigestError, Types, StoresType, Add
<1>14. CASE MarkSent
  <2>1. <<Owner[job.rule], Listing>> \in Users \X Listings
    BY <1>14, ListingType, RulesAssumption DEF MarkSent, Shape
  <2> QED
    BY <1>14, <2>1 DEF MarkSent, Types, StoresType
<1>15. CASE MarkError
  <2>1. <<Owner[job.rule], Listing>> \in Users \X Listings
    BY <1>15, ListingType, RulesAssumption DEF MarkError, Shape
  <2> QED
    BY <1>15, <2>1 DEF MarkError, Types, StoresType
<1>16. CASE Record
  <2>1. <<job.rule, Listing>> \in Rules \X Listings
    BY <1>16, ListingType DEF Record, Shape
  <2> QED
    BY <1>16, <2>1 DEF Record, Types, StoresType
<1>17. CASE RecordError
  BY <1>17, ListingType DEF RecordError, Types, StoresType
<1>18. CASE ListUsers
  BY <1>18, ListingType DEF ListUsers, Types, StoresType
<1>19. CASE ListUsersError
  BY <1>19, ListingType DEF ListUsersError, Types, StoresType
<1>20. ASSUME NEW u \in Users, ClearSent(u)
      PROVE  StoresType'
  BY <1>20, ListingType DEF ClearSent, Types, StoresType
<1>21. CASE AllCleared
  BY <1>21, ListingType DEF AllCleared, Types, StoresType
<1>22. CASE Tick
  <2>1. KeysOf(buffer) \subseteq Digest
    BY DEF KeysOf, Types, StoresType
  <2> QED
    BY <1>22, <2>1 DEF Tick, Types, StoresType
<1>23. ASSUME NEW r \in Digest, ExpireKey(r)
      PROVE  StoresType'
  BY <1>23, ListingType DEF ExpireKey, Types, StoresType
<1>24. ASSUME NEW r \in Digest, Flush(r)
      PROVE  StoresType'
  BY <1>24, ListingType DEF Flush, Types, StoresType
<1>25. CASE PublishDigest
  BY <1>25, ListingType DEF PublishDigest, Types, StoresType
<1>26. CASE RecordDigest
  <2>1. history' \subseteq Rules \X Listings /\ history \subseteq history'
    BY <1>26, RulesAssumption DEF RecordDigest, Types, StoresType, CompilerType, Digests, Shape
  <2>2. UNCHANGED <<sent, buffer, overdue, replica, active, cached>>
    BY <1>26 DEF RecordDigest
  <2> QED
    BY <2>1, <2>2 DEF Types, StoresType
<1>27. CASE CompileError
  BY <1>27, ListingType DEF CompileError, Types, StoresType
<1>28. CASE Compiled
  BY <1>28, ListingType DEF Compiled, Types, StoresType
<1>29. ASSUME NEW r \in Rules, Deactivate(r)
      PROVE  StoresType'
  BY <1>29, ListingType DEF Deactivate, Types, StoresType
<1>30. ASSUME NEW u \in Users, ExpireSent(u)
      PROVE  StoresType'
  BY <1>30, ListingType DEF ExpireSent, Types, StoresType
<1>31. CASE Refresh
  BY <1>31, ListingType DEF Refresh, Types, StoresType
<1>32. CASE Replicate
  BY <1>32, ListingType DEF Replicate, Types, StoresType
<1>33. CASE Restart
  <2>1. KeysOf(buffer) \subseteq Digest
    BY DEF KeysOf, Types, StoresType
  <2> QED
    BY <1>33, <2>1 DEF Restart, Types, StoresType
<1> QED
  BY <1>1, <1>2, <1>3, <1>4, <1>5, <1>6, <1>7, <1>8, <1>9, <1>10, <1>11, <1>12, <1>13, <1>14,
     <1>15, <1>16, <1>17,
     <1>18, <1>19, <1>20, <1>21, <1>22, <1>23, <1>24, <1>25, <1>26, <1>27, <1>28, <1>29, <1>30, <1>31, <1>32, <1>33
     DEF Next, Handle, HandleError, Price, Compile

LEMMA CompilerStep ==
  ASSUME Types, Shape, Next
  PROVE  CompilerType'
<1>1. ASSUME NEW t \in Readers, NEW e \in Events, Receive(t, e)
      PROVE  CompilerType'
  BY <1>1 DEF Receive, Types, CompilerType
<1>2. ASSUME NEW t \in Readers, Retry(t)
      PROVE  CompilerType'
  BY <1>2 DEF Retry, Types, CompilerType
<1>3. ASSUME NEW t \in Readers, Commit(t)
      PROVE  CompilerType'
  BY <1>3 DEF Commit, Types, CompilerType
<1>4. ASSUME NEW r \in Rules, Evaluate(r)
      PROVE  CompilerType'
  BY <1>4 DEF Evaluate, Types, CompilerType
<1>5. ASSUME NEW r \in Rules, EvaluateOpen(r)
      PROVE  CompilerType'
  BY <1>5 DEF EvaluateOpen, Types, CompilerType
<1>6. CASE MatchError
  BY <1>6 DEF MatchError, Types, CompilerType
<1>7. CASE Matched
  BY <1>7 DEF Matched, Types, CompilerType
<1>8. CASE AllRouted
  BY <1>8 DEF AllRouted, Types, CompilerType
<1>9. ASSUME NEW r \in Rules, RouteInstant(r)
      PROVE  CompilerType'
  BY <1>9 DEF RouteInstant, Types, CompilerType
<1>10. CASE PublishInstant
  BY <1>10 DEF PublishInstant, Types, CompilerType
<1>11. CASE PublishError
  BY <1>11 DEF PublishError, Types, CompilerType
<1>12. ASSUME NEW r \in Rules, RouteDigest(r)
      PROVE  CompilerType'
  BY <1>12 DEF RouteDigest, Types, CompilerType
<1>13. ASSUME NEW r \in Rules, RouteDigestError(r)
      PROVE  CompilerType'
  BY <1>13 DEF RouteDigestError, Types, CompilerType
<1>14. CASE MarkSent
  BY <1>14 DEF MarkSent, Types, CompilerType
<1>15. CASE MarkError
  BY <1>15 DEF MarkError, Types, CompilerType
<1>16. CASE Record
  BY <1>16 DEF Record, Types, CompilerType
<1>17. CASE RecordError
  BY <1>17 DEF RecordError, Types, CompilerType
<1>18. CASE ListUsers
  BY <1>18 DEF ListUsers, Types, CompilerType
<1>19. CASE ListUsersError
  BY <1>19 DEF ListUsersError, Types, CompilerType
<1>20. ASSUME NEW u \in Users, ClearSent(u)
      PROVE  CompilerType'
  BY <1>20 DEF ClearSent, Types, CompilerType
<1>21. CASE AllCleared
  BY <1>21 DEF AllCleared, Types, CompilerType
<1>22. CASE Tick
  <2>1. KeysOf(buffer) \subseteq Digest
    BY DEF KeysOf, Types, StoresType
  <2> QED
    BY <1>22, <2>1, NoneType DEF Tick, CompilerType, Digests
<1>23. ASSUME NEW r \in Digest, ExpireKey(r)
      PROVE  CompilerType'
  BY <1>23 DEF ExpireKey, Types, CompilerType
<1>24. ASSUME NEW r \in Digest, Flush(r)
      PROVE  CompilerType'
  <2>1. \A items \in Best(ItemsOf(r)) : items \subseteq Listings
    BY DEF Best, ItemsOf
  <2>2. PICK items \in Best(ItemsOf(r)) :
          \/ digest' = [keys |-> digest.keys \ {r}, rule |-> r, items |-> items, next |-> 1] /\ cpc' = "publish"
          \/ digest' = [digest EXCEPT !.keys = @ \ {r}] /\ cpc' = "compile"
    BY <1>24 DEF Flush
  <2> QED
    BY <2>1, <2>2 DEF Types, CompilerType, Digests
<1>25. CASE PublishDigest
  BY <1>25 DEF PublishDigest, Types, CompilerType
<1>26. CASE RecordDigest
  BY <1>26, NoneType DEF RecordDigest, Types, CompilerType, Digests
<1>27. CASE CompileError
  BY <1>27, NoneType DEF CompileError, CompilerType
<1>28. CASE Compiled
  BY <1>28 DEF Compiled, Types, CompilerType
<1>29. ASSUME NEW r \in Rules, Deactivate(r)
      PROVE  CompilerType'
  BY <1>29 DEF Deactivate, Types, CompilerType
<1>30. ASSUME NEW u \in Users, ExpireSent(u)
      PROVE  CompilerType'
  BY <1>30 DEF ExpireSent, Types, CompilerType
<1>31. CASE Refresh
  BY <1>31 DEF Refresh, Types, CompilerType
<1>32. CASE Replicate
  BY <1>32 DEF Replicate, Types, CompilerType
<1>33. CASE Restart
  BY <1>33, NoneType DEF Restart, CompilerType
<1> QED
  BY <1>1, <1>2, <1>3, <1>4, <1>5, <1>6, <1>7, <1>8, <1>9, <1>10, <1>11, <1>12, <1>13, <1>14,
     <1>15, <1>16, <1>17,
     <1>18, <1>19, <1>20, <1>21, <1>22, <1>23, <1>24, <1>25, <1>26, <1>27, <1>28, <1>29, <1>30, <1>31, <1>32, <1>33
     DEF Next, Handle, HandleError, Price, Compile

LEMMA EventType ==
  ASSUME Types, NEW t \in Readers, event[t] # None
  PROVE  event[t] \in Topic(t) /\ event[t] \in Events
BY DEF Types, ReadersType, Events, Scored, Readers

\* What Tell does to the counts.
LEMMA TellEffect ==
  ASSUME told \in [Told -> Nat], NEW r, NEW i, NEW items, Tell(r, i, items)
  PROVE  /\ told' \in [Told -> Nat]
         /\ \A n \in Told : told[n] <= told'[n] /\ told'[n] <= told[n] + 1
         /\ \A n \in Told : n[1] = r /\ n[2] = Channels[r][i] /\ n[3] \in items => told'[n] > 0
         /\ \A n \in Told : ~(n[1] = r /\ n[2] = Channels[r][i] /\ n[3] \in items) => told'[n] = told[n]
<1>1. DOMAIN told = Told
  OBVIOUS
<1>2. \A n \in Told : told'[n] = IF n[1] = r /\ n[2] = Channels[r][i] /\ n[3] \in items THEN told[n] + 1 ELSE told[n]
  BY <1>1 DEF Tell
<1>3. DOMAIN told' = Told /\ told' = [n \in Told |-> told'[n]]
  BY <1>1 DEF Tell
<1>4. \A n \in Told : told[n] \in Nat /\ told'[n] \in Nat
  BY <1>2
<1> QED
  BY <1>2, <1>3, <1>4

LEMMA HistoryStep ==
  ASSUME Types, Shape, Next
  PROVE  HistoryType'
<1>1. ASSUME NEW t \in Readers, NEW e \in Events, Receive(t, e)
      PROVE  HistoryType'
  BY <1>1 DEF Receive, Types, HistoryType, StoresType
<1>2. ASSUME NEW t \in Readers, Retry(t)
      PROVE  HistoryType'
  <2>1. event[t] \in Events
    BY <1>2, EventType DEF Retry, Shape
  <2>2. dead' \subseteq Events /\ UNCHANGED <<acked, cut, told, added, dropped, cleared, buffer, faults>>
    BY <1>2, <2>1 DEF Retry, Types, HistoryType
  <2> QED
    BY <2>2 DEF Types, HistoryType
<1>3. ASSUME NEW t \in Readers, Commit(t)
      PROVE  HistoryType'
  <2>1. event[t] \in Events
    BY <1>3, EventType DEF Commit, Shape
  <2> QED
    BY <1>3, <2>1 DEF Commit, Types, HistoryType
<1>4. ASSUME NEW r \in Rules, Evaluate(r)
      PROVE  HistoryType'
  BY <1>4 DEF Evaluate, Types, HistoryType, StoresType
<1>5. ASSUME NEW r \in Rules, EvaluateOpen(r)
      PROVE  HistoryType'
  BY <1>5 DEF EvaluateOpen, Types, HistoryType, StoresType
<1>6. CASE MatchError
  BY <1>6 DEF MatchError, Types, HistoryType, StoresType
<1>7. CASE Matched
  BY <1>7 DEF Matched, Types, HistoryType, StoresType
<1>8. CASE AllRouted
  BY <1>8 DEF AllRouted, Types, HistoryType, StoresType
<1>9. ASSUME NEW r \in Rules, RouteInstant(r)
      PROVE  HistoryType'
  BY <1>9 DEF RouteInstant, Types, HistoryType, StoresType
<1>10. CASE PublishInstant
  <2>1. told' \in [Told -> Nat]
    BY <1>10, TellEffect DEF PublishInstant, Types, HistoryType
  <2> QED
    BY <1>10, <2>1 DEF PublishInstant, Types, HistoryType
<1>11. CASE PublishError
  <2>1. told' \in [Told -> Nat]
    BY <1>11, TellEffect DEF PublishError, Types, HistoryType
  <2>2. UNCHANGED <<acked, dead, cut, buffer, added, dropped, cleared>> /\ faults' = faults + 1
    BY <1>11 DEF PublishError
  <2> QED
    BY <2>1, <2>2 DEF Types, HistoryType
<1>12. ASSUME NEW r \in Rules, RouteDigest(r)
      PROVE  HistoryType'
  <2>1. <<r, Listing>> \in Digest \X Listings
    BY <1>12, ListingType DEF RouteDigest
  <2>2. /\ UNCHANGED <<acked, dead, cut, told, cleared, faults>>
        /\ buffer' = buffer \cup {<<r, Listing>>} /\ added' = added \cup {<<r, Listing>>}
        /\ dropped' = dropped \ {<<r, Listing>>}
    BY <1>12 DEF RouteDigest, Add
  <2> QED
    BY <2>1, <2>2 DEF Types, HistoryType
<1>13. ASSUME NEW r \in Rules, RouteDigestError(r)
      PROVE  HistoryType'
  <2>1. <<r, Listing>> \in Digest \X Listings
    BY <1>13, ListingType DEF RouteDigestError
  <2>2. UNCHANGED <<acked, dead, cut, told, cleared>> /\ faults' = faults + 1
    BY <1>13 DEF RouteDigestError
  <2>3. \/ UNCHANGED <<buffer, added, dropped>>
        \/ /\ buffer' = buffer \cup {<<r, Listing>>} /\ added' = added \cup {<<r, Listing>>}
           /\ dropped' = dropped \ {<<r, Listing>>}
    BY <1>13 DEF RouteDigestError, Add
  <2> QED
    BY <2>1, <2>2, <2>3 DEF Types, HistoryType
<1>14. CASE MarkSent
  BY <1>14 DEF MarkSent, Types, HistoryType, StoresType
<1>15. CASE MarkError
  BY <1>15 DEF MarkError, Types, HistoryType, StoresType
<1>16. CASE Record
  BY <1>16 DEF Record, Types, HistoryType, StoresType
<1>17. CASE RecordError
  BY <1>17 DEF RecordError, Types, HistoryType, StoresType
<1>18. CASE ListUsers
  BY <1>18 DEF ListUsers, Types, HistoryType, StoresType
<1>19. CASE ListUsersError
  BY <1>19 DEF ListUsersError, Types, HistoryType, StoresType
<1>20. ASSUME NEW u \in Users, ClearSent(u)
      PROVE  HistoryType'
  BY <1>20 DEF ClearSent, Types, HistoryType, StoresType
<1>21. CASE AllCleared
  BY <1>21 DEF AllCleared, Types, HistoryType, StoresType
<1>22. CASE Tick
  BY <1>22 DEF Tick, Types, HistoryType, StoresType
<1>23. ASSUME NEW r \in Digest, ExpireKey(r)
      PROVE  HistoryType'
  BY <1>23 DEF ExpireKey, Types, HistoryType, StoresType
<1>24. ASSUME NEW r \in Digest, Flush(r)
      PROVE  HistoryType'
  <2>1. \A items \in Best(ItemsOf(r)) : items \subseteq ItemsOf(r)
    BY DEF Best
  <2>2. \A l \in ItemsOf(r) : <<r, l>> \in buffer
    BY DEF ItemsOf
  <2>3. dropped' \subseteq dropped \cup {<<r, l>> : l \in ItemsOf(r)} /\ buffer' \subseteq buffer
    BY <1>24, <2>1 DEF Flush
  <2>4. UNCHANGED <<acked, dead, cut, told, added, cleared, faults>>
    BY <1>24 DEF Flush
  <2> QED
    BY <2>2, <2>3, <2>4 DEF Types, HistoryType
<1>25. CASE PublishDigest
  <2>1. told' \in [Told -> Nat]
    BY <1>25, TellEffect DEF PublishDigest, Types, HistoryType
  <2> QED
    BY <1>25, <2>1 DEF PublishDigest, Types, HistoryType
<1>26. CASE RecordDigest
  BY <1>26 DEF RecordDigest, Types, HistoryType, StoresType
<1>27. CASE CompileError
  <2>1. told' \in [Told -> Nat]
    BY <1>27, TellEffect DEF CompileError, Types, HistoryType
  <2>2. /\ UNCHANGED <<acked, dead, cut, added, dropped, cleared>> /\ faults' = faults + 1
        /\ buffer' \subseteq buffer
    BY <1>27 DEF CompileError
  <2> QED
    BY <2>1, <2>2 DEF Types, HistoryType
<1>28. CASE Compiled
  BY <1>28 DEF Compiled, Types, HistoryType, StoresType
<1>29. ASSUME NEW r \in Rules, Deactivate(r)
      PROVE  HistoryType'
  BY <1>29 DEF Deactivate, Types, HistoryType, StoresType
<1>30. ASSUME NEW u \in Users, ExpireSent(u)
      PROVE  HistoryType'
  BY <1>30 DEF ExpireSent, Types, HistoryType, StoresType
<1>31. CASE Refresh
  BY <1>31 DEF Refresh, Types, HistoryType, StoresType
<1>32. CASE Replicate
  BY <1>32 DEF Replicate, Types, HistoryType, StoresType
<1>33. CASE Restart
  <2>1. acked' \subseteq Events
    <3>1. PICK s \in 0..Len(Log["scored"]), p \in 0..Len(Log["price"]) :
            acked' = {Log["scored"][i] : i \in 1..s} \cup {Log["price"][i] : i \in 1..p}
      BY <1>33 DEF Restart
    <3>2. \A i \in 1..s : Log["scored"][i] \in Events
      BY EventsAssumption DEF Readers
    <3>3. \A i \in 1..p : Log["price"][i] \in Events
      BY EventsAssumption DEF Readers
    <3> QED
      BY <3>1, <3>2, <3>3
  <2>2. cut' \subseteq acked' /\ faults' = faults + 1 /\ UNCHANGED <<dead, told, added, dropped, cleared, buffer>>
    BY <1>33 DEF Restart
  <2> QED
    BY <2>1, <2>2 DEF Types, HistoryType
<1> QED
  BY <1>1, <1>2, <1>3, <1>4, <1>5, <1>6, <1>7, <1>8, <1>9, <1>10, <1>11, <1>12, <1>13, <1>14,
     <1>15, <1>16, <1>17,
     <1>18, <1>19, <1>20, <1>21, <1>22, <1>23, <1>24, <1>25, <1>26, <1>27, <1>28, <1>29, <1>30, <1>31, <1>32, <1>33
     DEF Next, Handle, HandleError, Price, Compile

LEMMA ShapeStep ==
  ASSUME Types, Shape, Next
  PROVE  Shape'
<1>1. ASSUME NEW t \in Readers, NEW e \in Events, Receive(t, e)
      PROVE  Shape'
  <2>1. /\ e \in Topic(t) /\ event' = [event EXCEPT ![t] = e] /\ e # None
        /\ pc' = [pc EXCEPT ![t] = IF t = "scored" THEN "match" ELSE "list"]
    BY <1>1, EventsAssumption DEF Receive, Topic
  <2>2. UNCHANGED <<compile, dead>> /\ pc[t] = "idle" /\ (t = "price" => job' = job)
    BY <1>1 DEF Receive
  <2> QED
    BY <2>1, <2>2 DEF Types, ReadersType, Shape, Readers
<1>2. ASSUME NEW t \in Readers, Retry(t)
      PROVE  Shape'
  BY <1>2 DEF Retry, Types, ReadersType, Shape, Readers
<1>3. ASSUME NEW t \in Readers, Commit(t)
      PROVE  Shape'
  BY <1>3 DEF Commit, Types, ReadersType, Shape
<1>4. ASSUME NEW r \in Rules, Evaluate(r)
      PROVE  Shape'
  BY <1>4 DEF Evaluate, Shape
<1>5. ASSUME NEW r \in Rules, EvaluateOpen(r)
      PROVE  Shape'
  BY <1>5 DEF EvaluateOpen, Shape
<1>6. CASE MatchError
  BY <1>6 DEF MatchError, Shape
<1>7. CASE Matched
  BY <1>7 DEF Matched, Shape
<1>8. CASE AllRouted
  BY <1>8 DEF AllRouted, Shape
<1>9. ASSUME NEW r \in Rules, RouteInstant(r)
      PROVE  Shape'
  BY <1>9 DEF RouteInstant, Shape
<1>10. CASE PublishInstant
  BY <1>10 DEF PublishInstant, Types, ReadersType, Jobs, Shape, Readers
<1>11. CASE PublishError
  BY <1>11 DEF PublishError, Shape
<1>12. ASSUME NEW r \in Rules, RouteDigest(r)
      PROVE  Shape'
  BY <1>12 DEF RouteDigest, Shape
<1>13. ASSUME NEW r \in Rules, RouteDigestError(r)
      PROVE  Shape'
  BY <1>13 DEF RouteDigestError, Shape
<1>14. CASE MarkSent
  <2>1. /\ pc' = [pc EXCEPT !["scored"] = IF job.rule \in Digest THEN "route" ELSE "record"]
        /\ UNCHANGED <<event, job, compile, dead>> /\ pc["scored"] = "mark"
    BY <1>14 DEF MarkSent, AfterMark
  <2> QED
    BY <2>1 DEF Types, ReadersType, Shape, Readers
<1>15. CASE MarkError
  <2>1. /\ pc' = [pc EXCEPT !["scored"] = IF job.rule \in Digest THEN "route" ELSE "record"]
        /\ UNCHANGED <<event, job, compile, dead>> /\ pc["scored"] = "mark"
    BY <1>15 DEF MarkError, AfterMark
  <2> QED
    BY <2>1 DEF Types, ReadersType, Shape, Readers
<1>16. CASE Record
  BY <1>16 DEF Record, Shape
<1>17. CASE RecordError
  BY <1>17 DEF RecordError, Shape
<1>18. CASE ListUsers
  BY <1>18 DEF ListUsers, Shape
<1>19. CASE ListUsersError
  BY <1>19 DEF ListUsersError, Shape
<1>20. ASSUME NEW u \in Users, ClearSent(u)
      PROVE  Shape'
  BY <1>20 DEF ClearSent, Shape
<1>21. CASE AllCleared
  BY <1>21 DEF AllCleared, Shape
<1>22. CASE Tick
  BY <1>22 DEF Tick, Shape, NoDigest
<1>23. ASSUME NEW r \in Digest, ExpireKey(r)
      PROVE  Shape'
  BY <1>23 DEF ExpireKey, Shape
<1>24. ASSUME NEW r \in Digest, Flush(r)
      PROVE  Shape'
  BY <1>24 DEF Flush, Types, CompilerType, Digests, Shape
<1>25. CASE PublishDigest
  BY <1>25 DEF PublishDigest, Shape
<1>26. CASE RecordDigest
  BY <1>26 DEF RecordDigest, Types, CompilerType, Digests, Shape, NoDigest
<1>27. CASE CompileError
  BY <1>27 DEF CompileError, Shape, NoDigest
<1>28. CASE Compiled
  BY <1>28 DEF Compiled, Shape
<1>29. ASSUME NEW r \in Rules, Deactivate(r)
      PROVE  Shape'
  BY <1>29 DEF Deactivate, Shape
<1>30. ASSUME NEW u \in Users, ExpireSent(u)
      PROVE  Shape'
  BY <1>30 DEF ExpireSent, Shape
<1>31. CASE Refresh
  BY <1>31 DEF Refresh, Shape
<1>32. CASE Replicate
  BY <1>32 DEF Replicate, Shape
<1>33. CASE Restart
  BY <1>33 DEF Restart, Shape, Readers, NoDigest
<1> QED
  BY <1>1, <1>2, <1>3, <1>4, <1>5, <1>6, <1>7, <1>8, <1>9, <1>10, <1>11, <1>12, <1>13, <1>14,
     <1>15, <1>16, <1>17,
     <1>18, <1>19, <1>20, <1>21, <1>22, <1>23, <1>24, <1>25, <1>26, <1>27, <1>28, <1>29, <1>30, <1>31, <1>32, <1>33
     DEF Next, Handle, HandleError, Price, Compile

\* What was told or added stays so.
LEMMA GrowsStep ==
  ASSUME Types, Shape, Next
  PROVE  (\A n \in Told : told[n] <= told'[n]) /\ added \subseteq added'
<1>1. ASSUME NEW t \in Readers, NEW e \in Events, Receive(t, e)
      PROVE  (\A n \in Told : told[n] <= told'[n]) /\ added \subseteq added'
  BY <1>1 DEF Receive, Types, HistoryType
<1>2. ASSUME NEW t \in Readers, Retry(t)
      PROVE  (\A n \in Told : told[n] <= told'[n]) /\ added \subseteq added'
  BY <1>2 DEF Retry, Types, HistoryType
<1>3. ASSUME NEW t \in Readers, Commit(t)
      PROVE  (\A n \in Told : told[n] <= told'[n]) /\ added \subseteq added'
  BY <1>3 DEF Commit, Types, HistoryType
<1>4. ASSUME NEW r \in Rules, Evaluate(r)
      PROVE  (\A n \in Told : told[n] <= told'[n]) /\ added \subseteq added'
  BY <1>4 DEF Evaluate, Types, HistoryType
<1>5. ASSUME NEW r \in Rules, EvaluateOpen(r)
      PROVE  (\A n \in Told : told[n] <= told'[n]) /\ added \subseteq added'
  BY <1>5 DEF EvaluateOpen, Types, HistoryType
<1>6. CASE MatchError
  BY <1>6 DEF MatchError, Types, HistoryType
<1>7. CASE Matched
  BY <1>7 DEF Matched, Types, HistoryType
<1>8. CASE AllRouted
  BY <1>8 DEF AllRouted, Types, HistoryType
<1>9. ASSUME NEW r \in Rules, RouteInstant(r)
      PROVE  (\A n \in Told : told[n] <= told'[n]) /\ added \subseteq added'
  BY <1>9 DEF RouteInstant, Types, HistoryType
<1>10. CASE PublishInstant
  BY <1>10, TellEffect DEF PublishInstant, Types, HistoryType
<1>11. CASE PublishError
  BY <1>11, TellEffect DEF PublishError, Types, HistoryType
<1>12. ASSUME NEW r \in Rules, RouteDigest(r)
      PROVE  (\A n \in Told : told[n] <= told'[n]) /\ added \subseteq added'
  BY <1>12 DEF RouteDigest, Types, HistoryType, Add
<1>13. ASSUME NEW r \in Rules, RouteDigestError(r)
      PROVE  (\A n \in Told : told[n] <= told'[n]) /\ added \subseteq added'
  BY <1>13 DEF RouteDigestError, Types, HistoryType, Add
<1>14. CASE MarkSent
  BY <1>14 DEF MarkSent, Types, HistoryType
<1>15. CASE MarkError
  BY <1>15 DEF MarkError, Types, HistoryType
<1>16. CASE Record
  BY <1>16 DEF Record, Types, HistoryType
<1>17. CASE RecordError
  BY <1>17 DEF RecordError, Types, HistoryType
<1>18. CASE ListUsers
  BY <1>18 DEF ListUsers, Types, HistoryType
<1>19. CASE ListUsersError
  BY <1>19 DEF ListUsersError, Types, HistoryType
<1>20. ASSUME NEW u \in Users, ClearSent(u)
      PROVE  (\A n \in Told : told[n] <= told'[n]) /\ added \subseteq added'
  BY <1>20 DEF ClearSent, Types, HistoryType
<1>21. CASE AllCleared
  BY <1>21 DEF AllCleared, Types, HistoryType
<1>22. CASE Tick
  BY <1>22 DEF Tick, Types, HistoryType
<1>23. ASSUME NEW r \in Digest, ExpireKey(r)
      PROVE  (\A n \in Told : told[n] <= told'[n]) /\ added \subseteq added'
  BY <1>23 DEF ExpireKey, Types, HistoryType
<1>24. ASSUME NEW r \in Digest, Flush(r)
      PROVE  (\A n \in Told : told[n] <= told'[n]) /\ added \subseteq added'
  BY <1>24 DEF Flush, Types, HistoryType
<1>25. CASE PublishDigest
  BY <1>25, TellEffect DEF PublishDigest, Types, HistoryType
<1>26. CASE RecordDigest
  BY <1>26 DEF RecordDigest, Types, HistoryType
<1>27. CASE CompileError
  BY <1>27, TellEffect DEF CompileError, Types, HistoryType
<1>28. CASE Compiled
  BY <1>28 DEF Compiled, Types, HistoryType
<1>29. ASSUME NEW r \in Rules, Deactivate(r)
      PROVE  (\A n \in Told : told[n] <= told'[n]) /\ added \subseteq added'
  BY <1>29 DEF Deactivate, Types, HistoryType
<1>30. ASSUME NEW u \in Users, ExpireSent(u)
      PROVE  (\A n \in Told : told[n] <= told'[n]) /\ added \subseteq added'
  BY <1>30 DEF ExpireSent, Types, HistoryType
<1>31. CASE Refresh
  BY <1>31 DEF Refresh, Types, HistoryType
<1>32. CASE Replicate
  BY <1>32 DEF Replicate, Types, HistoryType
<1>33. CASE Restart
  BY <1>33 DEF Restart, Types, HistoryType
<1> QED
  BY <1>1, <1>2, <1>3, <1>4, <1>5, <1>6, <1>7, <1>8, <1>9, <1>10, <1>11, <1>12, <1>13, <1>14,
     <1>15, <1>16, <1>17,
     <1>18, <1>19, <1>20, <1>21, <1>22, <1>23, <1>24, <1>25, <1>26, <1>27, <1>28, <1>29, <1>30, <1>31, <1>32, <1>33
     DEF Next, Handle, HandleError, Price, Compile

LEMMA ReachedStays ==
  ASSUME Types, Shape, Next, NEW u, NEW l \in Listings, Reached(u, l)
  PROVE  Reached(u, l)'
<1>1. PICK r \in Rules : Owner[r] = u /\ (<<r, l>> \in added \/ \E c \in ChannelNames : told[<<r, c, l>>] > 0)
  BY DEF Reached
<1>2. CASE <<r, l>> \in added
  BY <1>1, <1>2, GrowsStep DEF Reached
<1>3. CASE \E c \in ChannelNames : told[<<r, c, l>>] > 0
  <2>1. PICK c \in ChannelNames : told[<<r, c, l>>] > 0
    BY <1>3
  <2>2. told[<<r, c, l>>] \in Nat /\ told'[<<r, c, l>>] \in Nat /\ told[<<r, c, l>>] <= told'[<<r, c, l>>]
    BY GrowsStep, HistoryStep DEF Types, HistoryType, Told
  <2>3. told'[<<r, c, l>>] > 0
    BY <2>1, <2>2
  <2> QED
    BY <1>1, <2>3 DEF Reached
<1> QED
  BY <1>1, <1>2, <1>3

-----------------------------------------------------------------------------
(* Who was reached                                                          *)

\* Redis has the mark, or is about to get it.
Marked(u, l) ==
  <<u, l>> \in sent \/ (pc["scored"] \in {"mark", "record"} /\ Owner[job.rule] = u /\ Listing = l)
ReachedOK == \A u \in Users, l \in Listings : Marked(u, l) => Reached(u, l)

LEMMA ChannelType ==
  ASSUME NEW r \in Rules, NEW i \in 1..Len(Channels[r])
  PROVE  Channels[r][i] \in ChannelNames
BY RulesAssumption

LEMMA TellReaches ==
  ASSUME Types, NEW r \in Rules, NEW i \in 1..Len(Channels[r]), NEW items, NEW l \in Listings, l \in items,
         Tell(r, i, items)
  PROVE  Reached(Owner[r], l)'
<1>1. Channels[r][i] \in ChannelNames
  BY ChannelType
<1>2. <<r, Channels[r][i], l>> \in Told
  BY <1>1 DEF Told
<1>3. told'[<<r, Channels[r][i], l>>] > 0
  BY <1>2, TellEffect DEF Types, HistoryType
<1> QED
  BY <1>1, <1>3 DEF Reached

LEMMA ReachedStep ==
  ASSUME Types, Shape, ReachedOK, Next
  PROVE  ReachedOK'
<1> SUFFICES ASSUME NEW v \in Users, NEW l \in Listings, Marked(v, l)'
             PROVE  Reached(v, l)'
  BY DEF ReachedOK
<1>1. ASSUME NEW t \in Readers, NEW e \in Events, Receive(t, e)
      PROVE  Reached(v, l)'
  <2>1. Marked(v, l)
    BY <1>1 DEF Receive, Marked, Listing
  <2> QED
    BY <2>1, ReachedStays DEF ReachedOK
<1>2. ASSUME NEW t \in Readers, Retry(t)
      PROVE  Reached(v, l)'
  <2>1. Marked(v, l)
    BY <1>2 DEF Retry, Marked, Listing, Types, ReadersType, Readers
  <2> QED
    BY <2>1, ReachedStays DEF ReachedOK
<1>3. ASSUME NEW t \in Readers, Commit(t)
      PROVE  Reached(v, l)'
  <2>1. Marked(v, l)
    BY <1>3 DEF Commit, Marked, Listing
  <2> QED
    BY <2>1, ReachedStays DEF ReachedOK
<1>4. ASSUME NEW r \in Rules, Evaluate(r)
      PROVE  Reached(v, l)'
  <2>1. Marked(v, l)
    BY <1>4 DEF Evaluate, Marked
  <2> QED
    BY <2>1, ReachedStays DEF ReachedOK
<1>5. ASSUME NEW r \in Rules, EvaluateOpen(r)
      PROVE  Reached(v, l)'
  <2>1. Marked(v, l)
    BY <1>5 DEF EvaluateOpen, Marked
  <2> QED
    BY <2>1, ReachedStays DEF ReachedOK
<1>6. CASE MatchError
  <2>1. Marked(v, l)
    BY <1>6 DEF MatchError, Marked
  <2> QED
    BY <2>1, ReachedStays DEF ReachedOK
<1>7. CASE Matched
  <2>1. Marked(v, l)
    BY <1>7 DEF Matched, Marked
  <2> QED
    BY <2>1, ReachedStays DEF ReachedOK
<1>8. CASE AllRouted
  <2>1. Marked(v, l)
    BY <1>8 DEF AllRouted, Marked
  <2> QED
    BY <2>1, ReachedStays DEF ReachedOK
<1>9. ASSUME NEW r \in Rules, RouteInstant(r)
      PROVE  Reached(v, l)'
  <2>1. Marked(v, l)
    BY <1>9 DEF RouteInstant, Marked
  <2> QED
    BY <2>1, ReachedStays DEF ReachedOK
<1>10. CASE PublishInstant
  <2>1. CASE Marked(v, l)
    BY <2>1, ReachedStays DEF ReachedOK
  <2>2. CASE ~Marked(v, l)
    <3>1. v = Owner[job.rule] /\ l = Listing
      BY <1>10, <2>2 DEF PublishInstant, Marked, Listing, Types, ReadersType, Jobs
    <3>2. /\ Tell(job.rule, job.next, {Listing}) /\ job.rule \in Rules /\ job.next \in 1..Len(Channels[job.rule])
      BY <1>10 DEF PublishInstant, Shape
    <3>3. PICK x \in Rules : \E i \in 1..Len(Channels[x]) : x = job.rule /\ Tell(x, i, {l})
      BY <3>1, <3>2
    <3> QED
      BY <3>1, <3>3, TellReaches
  <2> QED
    BY <2>1, <2>2
<1>11. CASE PublishError
  <2>1. Marked(v, l)
    BY <1>11 DEF PublishError, Marked
  <2> QED
    BY <2>1, ReachedStays DEF ReachedOK
<1>12. ASSUME NEW r \in Rules, RouteDigest(r)
      PROVE  Reached(v, l)'
  <2>1. CASE Marked(v, l)
    BY <2>1, ReachedStays DEF ReachedOK
  <2>2. CASE ~Marked(v, l)
    <3>1. v = Owner[r] /\ <<r, l>> \in added'
      BY <1>12, <2>2 DEF RouteDigest, Add, Marked, Listing
    <3> QED
      BY <3>1 DEF Reached
  <2> QED
    BY <2>1, <2>2
<1>13. ASSUME NEW r \in Rules, RouteDigestError(r)
      PROVE  Reached(v, l)'
  <2>1. Marked(v, l)
    BY <1>13 DEF RouteDigestError, Marked
  <2> QED
    BY <2>1, ReachedStays DEF ReachedOK
<1>14. CASE MarkSent
  <2>1. Marked(v, l)
    BY <1>14 DEF MarkSent, Marked, Listing, AfterMark
  <2> QED
    BY <2>1, ReachedStays DEF ReachedOK
<1>15. CASE MarkError
  <2>1. Marked(v, l)
    BY <1>15 DEF MarkError, Marked, Listing, AfterMark
  <2> QED
    BY <2>1, ReachedStays DEF ReachedOK
<1>16. CASE Record
  <2>1. Marked(v, l)
    BY <1>16 DEF Record, Marked, Listing
  <2> QED
    BY <2>1, ReachedStays DEF ReachedOK
<1>17. CASE RecordError
  <2>1. Marked(v, l)
    BY <1>17 DEF RecordError, Marked, Listing
  <2> QED
    BY <2>1, ReachedStays DEF ReachedOK
<1>18. CASE ListUsers
  <2>1. Marked(v, l)
    BY <1>18 DEF ListUsers, Marked, Listing
  <2> QED
    BY <2>1, ReachedStays DEF ReachedOK
<1>19. CASE ListUsersError
  <2>1. Marked(v, l)
    BY <1>19 DEF ListUsersError, Marked, Listing
  <2> QED
    BY <2>1, ReachedStays DEF ReachedOK
<1>20. ASSUME NEW u \in Users, ClearSent(u)
      PROVE  Reached(v, l)'
  <2>1. Marked(v, l)
    BY <1>20 DEF ClearSent, Marked, Listing
  <2> QED
    BY <2>1, ReachedStays DEF ReachedOK
<1>21. CASE AllCleared
  <2>1. Marked(v, l)
    BY <1>21 DEF AllCleared, Marked, Listing
  <2> QED
    BY <2>1, ReachedStays DEF ReachedOK
<1>22. CASE Tick
  <2>1. Marked(v, l)
    BY <1>22 DEF Tick, Marked, Listing
  <2> QED
    BY <2>1, ReachedStays DEF ReachedOK
<1>23. ASSUME NEW r \in Digest, ExpireKey(r)
      PROVE  Reached(v, l)'
  <2>1. Marked(v, l)
    BY <1>23 DEF ExpireKey, Marked, Listing
  <2> QED
    BY <2>1, ReachedStays DEF ReachedOK
<1>24. ASSUME NEW r \in Digest, Flush(r)
      PROVE  Reached(v, l)'
  <2>1. Marked(v, l)
    BY <1>24 DEF Flush, Marked, Listing
  <2> QED
    BY <2>1, ReachedStays DEF ReachedOK
<1>25. CASE PublishDigest
  <2>1. Marked(v, l)
    BY <1>25 DEF PublishDigest, Marked, Listing
  <2> QED
    BY <2>1, ReachedStays DEF ReachedOK
<1>26. CASE RecordDigest
  <2>1. Marked(v, l)
    BY <1>26 DEF RecordDigest, Marked, Listing
  <2> QED
    BY <2>1, ReachedStays DEF ReachedOK
<1>27. CASE CompileError
  <2>1. Marked(v, l)
    BY <1>27 DEF CompileError, Marked, Listing
  <2> QED
    BY <2>1, ReachedStays DEF ReachedOK
<1>28. CASE Compiled
  <2>1. Marked(v, l)
    BY <1>28 DEF Compiled, Marked, Listing
  <2> QED
    BY <2>1, ReachedStays DEF ReachedOK
<1>29. ASSUME NEW r \in Rules, Deactivate(r)
      PROVE  Reached(v, l)'
  <2>1. Marked(v, l)
    BY <1>29 DEF Deactivate, Marked, Listing
  <2> QED
    BY <2>1, ReachedStays DEF ReachedOK
<1>30. ASSUME NEW u \in Users, ExpireSent(u)
      PROVE  Reached(v, l)'
  <2>1. Marked(v, l)
    BY <1>30 DEF ExpireSent, Marked, Listing
  <2> QED
    BY <2>1, ReachedStays DEF ReachedOK
<1>31. CASE Refresh
  <2>1. Marked(v, l)
    BY <1>31 DEF Refresh, Marked, Listing
  <2> QED
    BY <2>1, ReachedStays DEF ReachedOK
<1>32. CASE Replicate
  <2>1. Marked(v, l)
    BY <1>32 DEF Replicate, Marked, Listing
  <2> QED
    BY <2>1, ReachedStays DEF ReachedOK
<1>33. CASE Restart
  <2>1. Marked(v, l)
    BY <1>33 DEF Restart, Marked, Readers
  <2> QED
    BY <2>1, ReachedStays DEF ReachedOK
<1> QED
  BY <1>1, <1>2, <1>3, <1>4, <1>5, <1>6, <1>7, <1>8, <1>9, <1>10, <1>11, <1>12, <1>13, <1>14,
     <1>15, <1>16, <1>17,
     <1>18, <1>19, <1>20, <1>21, <1>22, <1>23, <1>24, <1>25, <1>26, <1>27, <1>28, <1>29, <1>30, <1>31, <1>32, <1>33
     DEF Next, Handle, HandleError, Price, Compile

\* A rule that wants the listing in hand is still to be evaluated or routed, or its
\* user has been reached.
Due(r, l)    == <<r, l>> \in Wants /\ Channels[r] # <<>>
InHand(l)    == pc["scored"] \notin {"idle", "error"} /\ event["scored"] \notin dead /\ Listing = l
Remaining(r) == r \in job.todo \cup job.matches \/ (pc["scored"] = "publish" /\ job.rule = r)
ProgressOK   ==
  \A r \in active, l \in Listings : InHand(l) /\ Due(r, l) => Remaining(r) \/ Reached(Owner[r], l)

LEMMA ActiveShrinks ==
  ASSUME Types, Next
  PROVE  active' \subseteq active
<1>1. ASSUME NEW t \in Readers, NEW e \in Events, Receive(t, e)
      PROVE  active' \subseteq active
  BY <1>1 DEF Receive, StoresType
<1>2. ASSUME NEW t \in Readers, Retry(t)
      PROVE  active' \subseteq active
  BY <1>2 DEF Retry, StoresType
<1>3. ASSUME NEW t \in Readers, Commit(t)
      PROVE  active' \subseteq active
  BY <1>3 DEF Commit, StoresType
<1>4. ASSUME NEW r \in Rules, Evaluate(r)
      PROVE  active' \subseteq active
  BY <1>4 DEF Evaluate, StoresType
<1>5. ASSUME NEW r \in Rules, EvaluateOpen(r)
      PROVE  active' \subseteq active
  BY <1>5 DEF EvaluateOpen, StoresType
<1>6. CASE MatchError
  BY <1>6 DEF MatchError, StoresType
<1>7. CASE Matched
  BY <1>7 DEF Matched, StoresType
<1>8. CASE AllRouted
  BY <1>8 DEF AllRouted, StoresType
<1>9. ASSUME NEW r \in Rules, RouteInstant(r)
      PROVE  active' \subseteq active
  BY <1>9 DEF RouteInstant, StoresType
<1>10. CASE PublishInstant
  BY <1>10 DEF PublishInstant, StoresType
<1>11. CASE PublishError
  BY <1>11 DEF PublishError, StoresType
<1>12. ASSUME NEW r \in Rules, RouteDigest(r)
      PROVE  active' \subseteq active
  BY <1>12 DEF RouteDigest, StoresType
<1>13. ASSUME NEW r \in Rules, RouteDigestError(r)
      PROVE  active' \subseteq active
  BY <1>13 DEF RouteDigestError, StoresType
<1>14. CASE MarkSent
  BY <1>14 DEF MarkSent, StoresType
<1>15. CASE MarkError
  BY <1>15 DEF MarkError, StoresType
<1>16. CASE Record
  BY <1>16 DEF Record, StoresType
<1>17. CASE RecordError
  BY <1>17 DEF RecordError, StoresType
<1>18. CASE ListUsers
  BY <1>18 DEF ListUsers, StoresType
<1>19. CASE ListUsersError
  BY <1>19 DEF ListUsersError, StoresType
<1>20. ASSUME NEW u \in Users, ClearSent(u)
      PROVE  active' \subseteq active
  BY <1>20 DEF ClearSent, StoresType
<1>21. CASE AllCleared
  BY <1>21 DEF AllCleared, StoresType
<1>22. CASE Tick
  BY <1>22 DEF Tick, StoresType
<1>23. ASSUME NEW r \in Digest, ExpireKey(r)
      PROVE  active' \subseteq active
  BY <1>23 DEF ExpireKey, StoresType
<1>24. ASSUME NEW r \in Digest, Flush(r)
      PROVE  active' \subseteq active
  BY <1>24 DEF Flush, StoresType
<1>25. CASE PublishDigest
  BY <1>25 DEF PublishDigest, StoresType
<1>26. CASE RecordDigest
  BY <1>26 DEF RecordDigest, StoresType
<1>27. CASE CompileError
  BY <1>27 DEF CompileError, StoresType
<1>28. CASE Compiled
  BY <1>28 DEF Compiled, StoresType
<1>29. ASSUME NEW r \in Rules, Deactivate(r)
      PROVE  active' \subseteq active
  BY <1>29 DEF Deactivate, StoresType
<1>30. ASSUME NEW u \in Users, ExpireSent(u)
      PROVE  active' \subseteq active
  BY <1>30 DEF ExpireSent, StoresType
<1>31. CASE Refresh
  BY <1>31 DEF Refresh, StoresType
<1>32. CASE Replicate
  BY <1>32 DEF Replicate, StoresType
<1>33. CASE Restart
  BY <1>33 DEF Restart, StoresType
<1> QED
  BY <1>1, <1>2, <1>3, <1>4, <1>5, <1>6, <1>7, <1>8, <1>9, <1>10, <1>11, <1>12, <1>13, <1>14,
     <1>15, <1>16, <1>17,
     <1>18, <1>19, <1>20, <1>21, <1>22, <1>23, <1>24, <1>25, <1>26, <1>27, <1>28, <1>29, <1>30, <1>31, <1>32, <1>33
     DEF Next, Handle, HandleError, Price, Compile

LEMMA ProgressStep ==
  ASSUME Types, Shape, ReachedOK, ProgressOK, Next
  PROVE  ProgressOK'
<1> SUFFICES ASSUME NEW x \in active', NEW l \in Listings, InHand(l)', Due(x, l), ~Remaining(x)'
             PROVE  Reached(Owner[x], l)'
  BY DEF ProgressOK, Due
<1>a. active' \subseteq active /\ active \subseteq cached /\ cached \subseteq Rules
  BY ActiveShrinks DEF Types, StoresType
<1>b. Reached(Owner[x], l) => Reached(Owner[x], l)'
  BY ReachedStays
<1>1. ASSUME NEW t \in Readers, NEW e \in Events, Receive(t, e)
      PROVE  Reached(Owner[x], l)'
  <2>1. CASE t = "scored"
    <3>1. ListingOf[e] = l /\ job' = [NoJob EXCEPT !.todo = {y \in cached : <<y, ListingOf[e]>> \in Wants}]
      BY <1>1, <2>1 DEF Receive, InHand, Listing, Types, ReadersType
    <3>2. x \in job'.todo
      BY <1>a, <3>1 DEF Due, NoJob
    <3> QED
      BY <3>2 DEF Remaining
  <2>2. CASE t = "price"
    <3>1. InHand(l) /\ ~Remaining(x)
      BY <1>1, <2>2 DEF Receive, InHand, Remaining, Listing
    <3> QED
      BY <1>a, <1>b, <3>1 DEF ProgressOK
  <2> QED
    BY <2>1, <2>2 DEF Readers
<1>2. ASSUME NEW t \in Readers, Retry(t)
      PROVE  Reached(Owner[x], l)'
  <2>1. CASE t = "scored"
    <3>1. Listing = l /\ event' = event
      BY <1>2, <2>1 DEF Retry, InHand, Listing
    <3>2. CASE tries[t] = MaxRetries
      BY <1>2, <2>1, <3>1, <3>2 DEF Retry, InHand
    <3>3. CASE tries[t] # MaxRetries
      <4>1. job' = [NoJob EXCEPT !.todo = {y \in cached : <<y, l>> \in Wants}]
        BY <1>2, <2>1, <3>1, <3>3 DEF Retry
      <4>2. x \in job'.todo
        BY <1>a, <4>1 DEF Due, NoJob
      <4> QED
        BY <4>2 DEF Remaining
    <3> QED
      BY <3>2, <3>3
  <2>2. CASE t = "price"
    <3>1. pc'["scored"] = pc["scored"] /\ event' = event /\ job' = job /\ dead \subseteq dead'
      BY <1>2, <2>2 DEF Retry, Types, ReadersType, Readers
    <3>2. InHand(l) /\ ~Remaining(x)
      BY <3>1 DEF InHand, Remaining, Listing
    <3> QED
      BY <1>a, <1>b, <3>2 DEF ProgressOK
  <2> QED
    BY <2>1, <2>2 DEF Readers
<1>3. ASSUME NEW t \in Readers, Commit(t)
      PROVE  Reached(Owner[x], l)'
  <2>1. InHand(l) /\ ~Remaining(x)
    BY <1>3 DEF Commit, InHand, Remaining, Listing, Types, ReadersType
  <2> QED
    BY <1>a, <1>b, <2>1 DEF ProgressOK
<1>4. ASSUME NEW r \in Rules, Evaluate(r)
      PROVE  Reached(Owner[x], l)'
  <2>1. InHand(l) /\ Listing = l
    BY <1>4 DEF Evaluate, InHand, Listing
  <2>2. CASE Remaining(x)
    <3>1. x = r /\ <<Owner[r], Listing>> \in sent
      BY <1>4, <2>2 DEF Evaluate, Chosen, Remaining
    <3> QED
      BY <1>b, <2>1, <3>1, RulesAssumption DEF ReachedOK, Marked
  <2>3. CASE ~Remaining(x)
    BY <1>a, <1>b, <2>1, <2>3 DEF ProgressOK
  <2> QED
    BY <2>2, <2>3
<1>5. ASSUME NEW r \in Rules, EvaluateOpen(r)
      PROVE  Reached(Owner[x], l)'
  <2>1. InHand(l) /\ ~Remaining(x)
    BY <1>5 DEF EvaluateOpen, InHand, Remaining, Listing, Chosen
  <2> QED
    BY <1>a, <1>b, <2>1 DEF ProgressOK
<1>6. CASE MatchError
  <2>1. InHand(l) /\ ~Remaining(x)
    BY <1>6 DEF MatchError, InHand, Remaining, Listing
  <2> QED
    BY <1>a, <1>b, <2>1 DEF ProgressOK
<1>7. CASE Matched
  <2>1. InHand(l) /\ ~Remaining(x)
    BY <1>7 DEF Matched, InHand, Remaining, Listing
  <2> QED
    BY <1>a, <1>b, <2>1 DEF ProgressOK
<1>8. CASE AllRouted
  <2>1. InHand(l) /\ ~Remaining(x)
    BY <1>8 DEF AllRouted, InHand, Remaining, Listing
  <2> QED
    BY <1>a, <1>b, <2>1 DEF ProgressOK
<1>9. ASSUME NEW r \in Rules, RouteInstant(r)
      PROVE  Reached(Owner[x], l)'
  <2>1. InHand(l) /\ Listing = l
    BY <1>9 DEF RouteInstant, InHand, Listing
  <2>2. ~Remaining(x)
    BY <1>9 DEF RouteInstant, Due, Remaining, Types, ReadersType, Readers
  <2> QED
    BY <1>a, <1>b, <2>1, <2>2 DEF ProgressOK
<1>10. CASE PublishInstant
  <2>1. InHand(l) /\ Listing = l
    BY <1>10 DEF PublishInstant, InHand, Listing
  <2>2. CASE Remaining(x)
    <3>1. x = job.rule
      BY <1>10, <2>2 DEF PublishInstant, Remaining, Types, ReadersType, Jobs
    <3>2. Tell(job.rule, job.next, {l}) /\ job.rule \in Rules /\ job.next \in 1..Len(Channels[job.rule])
      BY <1>10, <2>1 DEF PublishInstant, Shape
    <3>3. PICK y \in Rules : \E i \in 1..Len(Channels[y]) : y = job.rule /\ Tell(y, i, {l})
      BY <3>2
    <3> QED
      BY <3>1, <3>3, TellReaches
  <2>3. CASE ~Remaining(x)
    BY <1>a, <1>b, <2>1, <2>3 DEF ProgressOK
  <2> QED
    BY <2>2, <2>3
<1>11. CASE PublishError
  <2>1. InHand(l) /\ ~Remaining(x)
    BY <1>11 DEF PublishError, InHand, Remaining, Listing
  <2> QED
    BY <1>a, <1>b, <2>1 DEF ProgressOK
<1>12. ASSUME NEW r \in Rules, RouteDigest(r)
      PROVE  Reached(Owner[x], l)'
  <2>1. InHand(l) /\ Listing = l
    BY <1>12 DEF RouteDigest, InHand, Listing
  <2>2. CASE Remaining(x)
    <3>1. x = r /\ <<r, l>> \in added'
      BY <1>12, <2>1, <2>2 DEF RouteDigest, Add, Remaining
    <3> QED
      BY <3>1 DEF Reached
  <2>3. CASE ~Remaining(x)
    BY <1>a, <1>b, <2>1, <2>3 DEF ProgressOK
  <2> QED
    BY <2>2, <2>3
<1>13. ASSUME NEW r \in Rules, RouteDigestError(r)
      PROVE  Reached(Owner[x], l)'
  <2>1. InHand(l) /\ ~Remaining(x)
    BY <1>13 DEF RouteDigestError, InHand, Remaining, Listing
  <2> QED
    BY <1>a, <1>b, <2>1 DEF ProgressOK
<1>14. CASE MarkSent
  <2>1. InHand(l) /\ ~Remaining(x)
    BY <1>14 DEF MarkSent, InHand, Remaining, Listing, AfterMark
  <2> QED
    BY <1>a, <1>b, <2>1 DEF ProgressOK
<1>15. CASE MarkError
  <2>1. InHand(l) /\ ~Remaining(x)
    BY <1>15 DEF MarkError, InHand, Remaining, Listing, AfterMark
  <2> QED
    BY <1>a, <1>b, <2>1 DEF ProgressOK
<1>16. CASE Record
  <2>1. InHand(l) /\ ~Remaining(x)
    BY <1>16 DEF Record, InHand, Remaining, Listing
  <2> QED
    BY <1>a, <1>b, <2>1 DEF ProgressOK
<1>17. CASE RecordError
  <2>1. InHand(l) /\ ~Remaining(x)
    BY <1>17 DEF RecordError, InHand, Remaining, Listing
  <2> QED
    BY <1>a, <1>b, <2>1 DEF ProgressOK
<1>18. CASE ListUsers
  <2>1. InHand(l) /\ ~Remaining(x)
    BY <1>18 DEF ListUsers, InHand, Remaining, Listing
  <2> QED
    BY <1>a, <1>b, <2>1 DEF ProgressOK
<1>19. CASE ListUsersError
  <2>1. InHand(l) /\ ~Remaining(x)
    BY <1>19 DEF ListUsersError, InHand, Remaining, Listing
  <2> QED
    BY <1>a, <1>b, <2>1 DEF ProgressOK
<1>20. ASSUME NEW u \in Users, ClearSent(u)
      PROVE  Reached(Owner[x], l)'
  <2>1. InHand(l) /\ ~Remaining(x)
    BY <1>20 DEF ClearSent, InHand, Remaining, Listing
  <2> QED
    BY <1>a, <1>b, <2>1 DEF ProgressOK
<1>21. CASE AllCleared
  <2>1. InHand(l) /\ ~Remaining(x)
    BY <1>21 DEF AllCleared, InHand, Remaining, Listing
  <2> QED
    BY <1>a, <1>b, <2>1 DEF ProgressOK
<1>22. CASE Tick
  <2>1. InHand(l) /\ ~Remaining(x)
    BY <1>22 DEF Tick, InHand, Remaining, Listing
  <2> QED
    BY <1>a, <1>b, <2>1 DEF ProgressOK
<1>23. ASSUME NEW r \in Digest, ExpireKey(r)
      PROVE  Reached(Owner[x], l)'
  <2>1. InHand(l) /\ ~Remaining(x)
    BY <1>23 DEF ExpireKey, InHand, Remaining, Listing
  <2> QED
    BY <1>a, <1>b, <2>1 DEF ProgressOK
<1>24. ASSUME NEW r \in Digest, Flush(r)
      PROVE  Reached(Owner[x], l)'
  <2>1. InHand(l) /\ ~Remaining(x)
    BY <1>24 DEF Flush, InHand, Remaining, Listing
  <2> QED
    BY <1>a, <1>b, <2>1 DEF ProgressOK
<1>25. CASE PublishDigest
  <2>1. InHand(l) /\ ~Remaining(x)
    BY <1>25 DEF PublishDigest, InHand, Remaining, Listing
  <2> QED
    BY <1>a, <1>b, <2>1 DEF ProgressOK
<1>26. CASE RecordDigest
  <2>1. InHand(l) /\ ~Remaining(x)
    BY <1>26 DEF RecordDigest, InHand, Remaining, Listing
  <2> QED
    BY <1>a, <1>b, <2>1 DEF ProgressOK
<1>27. CASE CompileError
  <2>1. InHand(l) /\ ~Remaining(x)
    BY <1>27 DEF CompileError, InHand, Remaining, Listing
  <2> QED
    BY <1>a, <1>b, <2>1 DEF ProgressOK
<1>28. CASE Compiled
  <2>1. InHand(l) /\ ~Remaining(x)
    BY <1>28 DEF Compiled, InHand, Remaining, Listing
  <2> QED
    BY <1>a, <1>b, <2>1 DEF ProgressOK
<1>29. ASSUME NEW r \in Rules, Deactivate(r)
      PROVE  Reached(Owner[x], l)'
  <2>1. InHand(l) /\ ~Remaining(x)
    BY <1>29 DEF Deactivate, InHand, Remaining, Listing
  <2> QED
    BY <1>a, <1>b, <2>1 DEF ProgressOK
<1>30. ASSUME NEW u \in Users, ExpireSent(u)
      PROVE  Reached(Owner[x], l)'
  <2>1. InHand(l) /\ ~Remaining(x)
    BY <1>30 DEF ExpireSent, InHand, Remaining, Listing
  <2> QED
    BY <1>a, <1>b, <2>1 DEF ProgressOK
<1>31. CASE Refresh
  <2>1. InHand(l) /\ ~Remaining(x)
    BY <1>31 DEF Refresh, InHand, Remaining, Listing
  <2> QED
    BY <1>a, <1>b, <2>1 DEF ProgressOK
<1>32. CASE Replicate
  <2>1. InHand(l) /\ ~Remaining(x)
    BY <1>32 DEF Replicate, InHand, Remaining, Listing
  <2> QED
    BY <1>a, <1>b, <2>1 DEF ProgressOK
<1>33. CASE Restart
  <2>1. InHand(l) /\ ~Remaining(x)
    BY <1>33 DEF Restart, InHand, Remaining, Readers
  <2> QED
    BY <1>a, <1>b, <2>1 DEF ProgressOK
<1> QED
  BY <1>1, <1>2, <1>3, <1>4, <1>5, <1>6, <1>7, <1>8, <1>9, <1>10, <1>11, <1>12, <1>13, <1>14,
     <1>15, <1>16, <1>17,
     <1>18, <1>19, <1>20, <1>21, <1>22, <1>23, <1>24, <1>25, <1>26, <1>27, <1>28, <1>29, <1>30, <1>31, <1>32, <1>33
     DEF Next, Handle, HandleError, Price, Compile

\* What is acknowledged reached the users.
AckedOK ==
  \A e \in (acked \cap Scored) \ (dead \cup cut) : \A r \in active, l \in Listings :
    ListingOf[e] = l /\ Due(r, l) => Reached(Owner[r], l)

LEMMA AckedStep ==
  ASSUME Types, Shape, ReachedOK, ProgressOK, AckedOK, Next
  PROVE  AckedOK'
<1> SUFFICES ASSUME NEW e \in ((acked \cap Scored) \ (dead \cup cut))', NEW r \in active', NEW l \in Listings,
                    ListingOf[e] = l, Due(r, l)
             PROVE  Reached(Owner[r], l)'
  BY DEF AckedOK, Due
<1>1. r \in active /\ (Reached(Owner[r], l) => Reached(Owner[r], l)')
  BY ActiveShrinks, ReachedStays
<1>2. e \in acked' /\ e \in Scored /\ e \notin dead' /\ e \notin cut'
  BY DEF Scored, Topic
<1>3. CASE e \in acked /\ dead \subseteq dead' /\ e \notin cut
  BY <1>1, <1>2, <1>3 DEF AckedOK
<1>4. CASE UNCHANGED topic
  BY <1>2, <1>3, <1>4
<1>5. ASSUME NEW t \in Readers, Retry(t)
      PROVE  Reached(Owner[r], l)'
  BY <1>2, <1>3, <1>5 DEF Retry
<1>6. ASSUME NEW t \in Readers, Commit(t)
      PROVE  Reached(Owner[r], l)'
  <2>1. acked' = acked \cup {event[t]} /\ UNCHANGED <<dead, cut>> /\ pc[t] = "commit"
    BY <1>6 DEF Commit
  <2>2. CASE e \in acked
    BY <1>2, <1>3, <2>1, <2>2
  <2>3. CASE e \notin acked
    <3>1. e = event[t] /\ event[t] # None
      BY <1>2, <1>6, <2>1, <2>3 DEF Shape
    <3>2. t = "scored"
      BY <1>2, <3>1, EventType, EventsAssumption DEF Readers
    <3>3. InHand(l) /\ ~Remaining(r)
      BY <1>2, <2>1, <3>1, <3>2 DEF InHand, Listing, Remaining, Shape
    <3> QED
      BY <1>1, <3>3 DEF ProgressOK
  <2> QED
    BY <2>2, <2>3
<1>7. CASE Restart
  <2>1. cut' = acked' \cap (cut \cup (Scored \ acked)) /\ dead' = dead
    BY <1>7 DEF Restart
  <2> QED
    BY <1>2, <1>3, <2>1
<1>8. ASSUME NEW t \in Readers, NEW f \in Events, Receive(t, f)
      PROVE  UNCHANGED topic
  BY <1>8 DEF Receive
<1>9. CASE Handle \/ HandleError
  <2>1. UNCHANGED topic
    BY <1>9 DEF Handle, HandleError, Evaluate, EvaluateOpen, MatchError, Matched, AllRouted,
       RouteInstant, PublishInstant, PublishError, RouteDigest, RouteDigestError, MarkSent,
       MarkError, Record, RecordError
  <2> QED
    BY <1>4, <2>1
<1>10. CASE Price \/ ListUsersError
  <2>1. UNCHANGED topic
    BY <1>10 DEF Price, ListUsers, AllCleared, ClearSent, ListUsersError
  <2> QED
    BY <1>4, <2>1
<1>11. CASE Tick \/ Compile \/ CompileError \/ \E x \in Digest : ExpireKey(x)
  <2>1. UNCHANGED topic
    BY <1>11 DEF Tick, Compile, CompileError, ExpireKey, Compiled, PublishDigest, RecordDigest,
       Flush
  <2> QED
    BY <1>4, <2>1
<1>12. CASE (\E x \in Rules : Deactivate(x)) \/ (\E u \in Users : ExpireSent(u)) \/ Refresh \/ Replicate
  <2>1. UNCHANGED topic
    BY <1>12 DEF Deactivate, ExpireSent, Refresh, Replicate
  <2> QED
    BY <1>4, <2>1
<1> QED
  BY <1>4, <1>5, <1>6, <1>7, <1>8, <1>9, <1>10, <1>11, <1>12 DEF Next

-----------------------------------------------------------------------------
(* What a digest holds                                                      *)

\* The notification that is being recorded is out.
HeldOK ==
  faults > 0 \/ /\ \A p \in added : Held(p[1], p[2])
                /\ cpc = "record" =>
                     \A l \in digest.items : told[<<digest.rule, Channels[digest.rule][digest.next], l>>] > 0

\* The step keeps what is told and does not take a pair away.
LEMMA HeldFrom ==
  ASSUME Types, Shape, HeldOK, Next, faults' = faults, added' = added, digest' = digest,
         buffer \cup dropped \subseteq buffer' \cup dropped', cpc' = "record" => cpc = "record"
  PROVE  HeldOK'
<1> SUFFICES ASSUME ~(faults > 0)
             PROVE  HeldOK'
  BY DEF HeldOK
<1>1. ASSUME NEW n \in Told, told[n] > 0
      PROVE  told'[n] > 0
  <2>1. told[n] \in Nat /\ told'[n] \in Nat /\ told[n] <= told'[n]
    BY GrowsStep, HistoryStep DEF Types, HistoryType
  <2> QED
    BY <1>1, <2>1
<1>2. ASSUME NEW p \in added
      PROVE  Held(p[1], p[2])'
  <2>1. Held(p[1], p[2]) /\ p[1] \in Rules /\ p[2] \in Listings
    BY RulesAssumption DEF HeldOK, Types, HistoryType
  <2>2. ASSUME NEW c \in ChannelNames, told[<<p[1], c, p[2]>>] > 0
        PROVE  told'[<<p[1], c, p[2]>>] > 0
    BY <1>1, <2>1, <2>2 DEF Told
  <2> QED
    BY <2>1, <2>2 DEF Held
<1>3. ASSUME cpc' = "record", NEW l \in digest'.items
      PROVE  (told[<<digest.rule, Channels[digest.rule][digest.next], l>>] > 0)'
  <2>1. cpc = "record" /\ l \in digest.items /\ l \in Listings
    BY <1>3 DEF Types, CompilerType, Digests
  <2>2. digest.rule \in Rules /\ Channels[digest.rule][digest.next] \in ChannelNames
    BY <2>1, RulesAssumption DEF Shape
  <2> QED
    BY <1>1, <2>1, <2>2 DEF HeldOK, Told
<1> QED
  BY <1>2, <1>3 DEF HeldOK

LEMMA HeldStep ==
  ASSUME Types, Shape, HeldOK, Next
  PROVE  HeldOK'
<1>f. ASSUME faults' = faults + 1
      PROVE  HeldOK'
  <2>1. faults' > 0
    BY <1>f DEF Types, HistoryType
  <2> QED
    BY <2>1 DEF HeldOK
<1>1. ASSUME NEW t \in Readers, NEW e \in Events, Receive(t, e)
      PROVE  HeldOK'
  <2>1. /\ faults' = faults /\ added' = added /\ digest' = digest /\ buffer \cup dropped \subseteq buffer' \cup dropped'
        /\ cpc' = "record" => cpc = "record"
    BY <1>1 DEF Receive
  <2> QED
    BY <2>1, HeldFrom
<1>2. ASSUME NEW t \in Readers, Retry(t)
      PROVE  HeldOK'
  <2>1. /\ faults' = faults /\ added' = added /\ digest' = digest /\ buffer \cup dropped \subseteq buffer' \cup dropped'
        /\ cpc' = "record" => cpc = "record"
    BY <1>2 DEF Retry
  <2> QED
    BY <2>1, HeldFrom
<1>3. ASSUME NEW t \in Readers, Commit(t)
      PROVE  HeldOK'
  <2>1. /\ faults' = faults /\ added' = added /\ digest' = digest /\ buffer \cup dropped \subseteq buffer' \cup dropped'
        /\ cpc' = "record" => cpc = "record"
    BY <1>3 DEF Commit
  <2> QED
    BY <2>1, HeldFrom
<1>4. ASSUME NEW r \in Rules, Evaluate(r)
      PROVE  HeldOK'
  <2>1. /\ faults' = faults /\ added' = added /\ digest' = digest /\ buffer \cup dropped \subseteq buffer' \cup dropped'
        /\ cpc' = "record" => cpc = "record"
    BY <1>4 DEF Evaluate
  <2> QED
    BY <2>1, HeldFrom
<1>5. ASSUME NEW r \in Rules, EvaluateOpen(r)
      PROVE  HeldOK'
  <2>1. faults' = faults + 1
    BY <1>5 DEF EvaluateOpen
  <2> QED
    BY <1>f, <2>1
<1>6. CASE MatchError
  <2>1. faults' = faults + 1
    BY <1>6 DEF MatchError
  <2> QED
    BY <1>f, <2>1
<1>7. CASE Matched
  <2>1. /\ faults' = faults /\ added' = added /\ digest' = digest /\ buffer \cup dropped \subseteq buffer' \cup dropped'
        /\ cpc' = "record" => cpc = "record"
    BY <1>7 DEF Matched
  <2> QED
    BY <2>1, HeldFrom
<1>8. CASE AllRouted
  <2>1. /\ faults' = faults /\ added' = added /\ digest' = digest /\ buffer \cup dropped \subseteq buffer' \cup dropped'
        /\ cpc' = "record" => cpc = "record"
    BY <1>8 DEF AllRouted
  <2> QED
    BY <2>1, HeldFrom
<1>9. ASSUME NEW r \in Rules, RouteInstant(r)
      PROVE  HeldOK'
  <2>1. /\ faults' = faults /\ added' = added /\ digest' = digest /\ buffer \cup dropped \subseteq buffer' \cup dropped'
        /\ cpc' = "record" => cpc = "record"
    BY <1>9 DEF RouteInstant
  <2> QED
    BY <2>1, HeldFrom
<1>10. CASE PublishInstant
  <2>1. /\ faults' = faults /\ added' = added /\ digest' = digest /\ buffer \cup dropped \subseteq buffer' \cup dropped'
        /\ cpc' = "record" => cpc = "record"
    BY <1>10 DEF PublishInstant
  <2> QED
    BY <2>1, HeldFrom
<1>11. CASE PublishError
  <2>1. faults' = faults + 1
    BY <1>11 DEF PublishError
  <2> QED
    BY <1>f, <2>1
<1>12. ASSUME NEW r \in Rules, RouteDigest(r)
      PROVE  HeldOK'
  <2>1. /\ UNCHANGED <<faults, digest, told, cpc>> /\ added' = added \cup {<<r, Listing>>}
        /\ buffer' = buffer \cup {<<r, Listing>>} /\ dropped' = dropped \ {<<r, Listing>>}
    BY <1>12 DEF RouteDigest, Add
  <2>2. ASSUME NEW p \in added', ~(faults > 0)
        PROVE  Held(p[1], p[2])'
    <3>1. <<p[1], p[2]>> = p
      BY HistoryStep DEF Types, HistoryType
    <3>2. CASE p = <<r, Listing>>
      BY <2>1, <3>1, <3>2 DEF Held
    <3>3. CASE p # <<r, Listing>>
      <4>1. Held(p[1], p[2])
        BY <2>1, <2>2, <3>3 DEF HeldOK
      <4> QED
        BY <2>1, <3>1, <3>3, <4>1 DEF Held
    <3> QED
      BY <3>2, <3>3
  <2> QED
    BY <2>1, <2>2 DEF HeldOK
<1>13. ASSUME NEW r \in Rules, RouteDigestError(r)
      PROVE  HeldOK'
  <2>1. faults' = faults + 1
    BY <1>13 DEF RouteDigestError
  <2> QED
    BY <1>f, <2>1
<1>14. CASE MarkSent
  <2>1. /\ faults' = faults /\ added' = added /\ digest' = digest /\ buffer \cup dropped \subseteq buffer' \cup dropped'
        /\ cpc' = "record" => cpc = "record"
    BY <1>14 DEF MarkSent
  <2> QED
    BY <2>1, HeldFrom
<1>15. CASE MarkError
  <2>1. faults' = faults + 1
    BY <1>15 DEF MarkError
  <2> QED
    BY <1>f, <2>1
<1>16. CASE Record
  <2>1. /\ faults' = faults /\ added' = added /\ digest' = digest /\ buffer \cup dropped \subseteq buffer' \cup dropped'
        /\ cpc' = "record" => cpc = "record"
    BY <1>16 DEF Record
  <2> QED
    BY <2>1, HeldFrom
<1>17. CASE RecordError
  <2>1. faults' = faults + 1
    BY <1>17 DEF RecordError
  <2> QED
    BY <1>f, <2>1
<1>18. CASE ListUsers
  <2>1. /\ faults' = faults /\ added' = added /\ digest' = digest /\ buffer \cup dropped \subseteq buffer' \cup dropped'
        /\ cpc' = "record" => cpc = "record"
    BY <1>18 DEF ListUsers
  <2> QED
    BY <2>1, HeldFrom
<1>19. CASE ListUsersError
  <2>1. faults' = faults + 1
    BY <1>19 DEF ListUsersError
  <2> QED
    BY <1>f, <2>1
<1>20. ASSUME NEW u \in Users, ClearSent(u)
      PROVE  HeldOK'
  <2>1. CASE faults' = faults + 1
    BY <1>f, <2>1
  <2>2. CASE faults' = faults
    <3>1. UNCHANGED <<added, digest, buffer, dropped, cpc>>
      BY <1>20 DEF ClearSent
    <3> QED
      BY <2>2, <3>1, HeldFrom
  <2> QED
    BY <1>20, <2>1, <2>2 DEF ClearSent
<1>21. CASE AllCleared
  <2>1. /\ faults' = faults /\ added' = added /\ digest' = digest /\ buffer \cup dropped \subseteq buffer' \cup dropped'
        /\ cpc' = "record" => cpc = "record"
    BY <1>21 DEF AllCleared
  <2> QED
    BY <2>1, HeldFrom
<1>22. CASE Tick
  <2>1. /\ UNCHANGED <<faults, added, buffer, dropped, told>> /\ cpc' = "compile" /\ digest.rule = None
    BY <1>22 DEF Tick, Shape
  <2>2. ASSUME NEW p \in added', ~(faults > 0)
        PROVE  Held(p[1], p[2])'
    <3>1. Held(p[1], p[2]) /\ p[1] \in Rules
      BY <2>1, <2>2, RulesAssumption DEF HeldOK, Types, HistoryType
    <3>2. p[1] # None
      BY <3>1, EventsAssumption
    <3> QED
      BY <2>1, <3>1, <3>2 DEF Held
  <2> QED
    BY <2>1, <2>2 DEF HeldOK
<1>23. ASSUME NEW r \in Digest, ExpireKey(r)
      PROVE  HeldOK'
  <2>1. /\ faults' = faults /\ added' = added /\ digest' = digest /\ buffer \cup dropped \subseteq buffer' \cup dropped'
        /\ cpc' = "record" => cpc = "record"
    BY <1>23 DEF ExpireKey
  <2> QED
    BY <2>1, HeldFrom
<1>24. ASSUME NEW r \in Digest, Flush(r)
      PROVE  HeldOK'
  <2>1. PICK items \in Best(ItemsOf(r)) :
          \/ /\ digest' = [keys |-> digest.keys \ {r}, rule |-> r, items |-> items, next |-> 1]
             /\ cpc' = "publish" /\ dropped' = dropped \cup {<<r, l>> : l \in ItemsOf(r) \ items}
          \/ /\ cpc' = "compile" /\ dropped' = dropped \cup {<<r, l>> : l \in ItemsOf(r)}
    BY <1>24 DEF Flush
  <2>2. /\ UNCHANGED <<faults, added, told>> /\ buffer' = {p \in buffer : p[1] # r} /\ digest.rule = None
    BY <1>24 DEF Flush, Shape
  <2>3. ASSUME NEW p \in added', ~(faults > 0)
        PROVE  Held(p[1], p[2])'
    <3>1. Held(p[1], p[2]) /\ p[1] \in Rules /\ p[2] \in Listings
      BY <2>2, <2>3, RulesAssumption DEF HeldOK, Types, HistoryType
    <3>2. p[1] # digest.rule
      BY <2>2, <3>1, EventsAssumption
    <3>3. CASE <<p[1], p[2]>> \in buffer
      <4>1. CASE p[1] = r
        <5>1. p[2] \in ItemsOf(r)
          BY <3>1, <3>3, <4>1 DEF ItemsOf
        <5> QED
          BY <2>1, <4>1, <5>1 DEF Held
      <4>2. CASE p[1] # r
        BY <2>2, <3>3, <4>2 DEF Held
      <4> QED
        BY <4>1, <4>2
    <3>4. CASE <<p[1], p[2]>> \in dropped
      BY <2>1, <3>4 DEF Held
    <3>5. CASE \E c \in ChannelNames : told[<<p[1], c, p[2]>>] > 0
      BY <2>2, <3>5 DEF Held
    <3> QED
      BY <3>1, <3>2, <3>3, <3>4, <3>5 DEF Held
  <2> QED
    BY <2>1, <2>2, <2>3 DEF HeldOK
<1>25. CASE PublishDigest
  <2>1. /\ UNCHANGED <<faults, added, buffer, dropped, digest>> /\ Tell(digest.rule, digest.next, digest.items)
        /\ digest.rule \in Digest /\ digest.next \in 1..Len(Channels[digest.rule])
    BY <1>25 DEF PublishDigest, Shape
  <2>2. \A n \in Told : told[n] \in Nat /\ told'[n] \in Nat /\ told[n] <= told'[n]
    BY GrowsStep, HistoryStep DEF Types, HistoryType
  <2>3. ASSUME NEW p \in added', ~(faults > 0)
        PROVE  Held(p[1], p[2])'
    <3>1. Held(p[1], p[2]) /\ p[1] \in Rules /\ p[2] \in Listings
      BY <2>1, <2>3, RulesAssumption DEF HeldOK, Types, HistoryType
    <3>2. ASSUME NEW c \in ChannelNames, told[<<p[1], c, p[2]>>] > 0
          PROVE  told'[<<p[1], c, p[2]>>] > 0
      <4>1. <<p[1], c, p[2]>> \in Told
        BY <3>1 DEF Told
      <4>2. PICK n \in Told : n = <<p[1], c, p[2]>>
        BY <4>1
      <4>3. told[n] > 0
        BY <3>2, <4>2
      <4>4. told'[n] > 0
        BY <2>2, <4>3
      <4> QED
        BY <4>2, <4>4
    <3> QED
      BY <2>1, <3>1, <3>2 DEF Held
  <2>4. ASSUME NEW l \in digest.items
        PROVE  told'[<<digest.rule, Channels[digest.rule][digest.next], l>>] > 0
    <3>1. l \in Listings /\ digest.rule \in Rules
      BY <2>1, RulesAssumption DEF Types, CompilerType, Digests
    <3>2. Channels[digest.rule][digest.next] \in ChannelNames
      BY <2>1, <3>1, RulesAssumption
    <3>3. <<digest.rule, Channels[digest.rule][digest.next], l>> \in Told
      BY <3>1, <3>2 DEF Told
    <3> QED
      BY <2>1, <3>3, TellEffect DEF Types, HistoryType
  <2> QED
    BY <2>1, <2>3, <2>4 DEF HeldOK
<1>26. CASE RecordDigest
  <2>1. /\ UNCHANGED <<added, buffer, dropped, told>> /\ cpc = "record" /\ cpc' # "record"
        /\ (digest'.rule = digest.rule /\ digest'.items = digest.items) \/ digest'.rule = None
        /\ digest.rule \in Digest /\ digest.next \in 1..Len(Channels[digest.rule])
    BY <1>26 DEF RecordDigest, Shape, Types, CompilerType, Digests, NoDigest
  <2>2. CASE faults' = faults + 1
    BY <1>f, <2>2
  <2>3. CASE faults' = faults
    <3>1. ASSUME NEW p \in added', ~(faults > 0)
          PROVE  Held(p[1], p[2])'
      <4>1. Held(p[1], p[2]) /\ p[1] \in Rules
        BY <2>1, <3>1, RulesAssumption DEF HeldOK, Types, HistoryType
      <4>2. CASE digest.rule = p[1] /\ p[2] \in digest.items
        <5>1. Channels[p[1]][digest.next] \in ChannelNames
          BY <2>1, <4>1, <4>2, RulesAssumption
        <5>2. told[<<p[1], Channels[p[1]][digest.next], p[2]>>] > 0
          BY <2>1, <3>1, <4>2 DEF HeldOK
        <5> QED
          BY <2>1, <5>1, <5>2 DEF Held
      <4>3. CASE ~(digest.rule = p[1] /\ p[2] \in digest.items)
        BY <2>1, <4>1, <4>3 DEF Held
      <4> QED
        BY <4>2, <4>3
    <3> QED
      BY <2>1, <2>3, <3>1 DEF HeldOK
  <2> QED
    BY <1>26, <2>2, <2>3 DEF RecordDigest
<1>27. CASE CompileError
  <2>1. faults' = faults + 1
    BY <1>27 DEF CompileError
  <2> QED
    BY <1>f, <2>1
<1>28. CASE Compiled
  <2>1. /\ faults' = faults /\ added' = added /\ digest' = digest /\ buffer \cup dropped \subseteq buffer' \cup dropped'
        /\ cpc' = "record" => cpc = "record"
    BY <1>28 DEF Compiled
  <2> QED
    BY <2>1, HeldFrom
<1>29. ASSUME NEW r \in Rules, Deactivate(r)
      PROVE  HeldOK'
  <2>1. /\ faults' = faults /\ added' = added /\ digest' = digest /\ buffer \cup dropped \subseteq buffer' \cup dropped'
        /\ cpc' = "record" => cpc = "record"
    BY <1>29 DEF Deactivate
  <2> QED
    BY <2>1, HeldFrom
<1>30. ASSUME NEW u \in Users, ExpireSent(u)
      PROVE  HeldOK'
  <2>1. faults' = faults + 1
    BY <1>30 DEF ExpireSent
  <2> QED
    BY <1>f, <2>1
<1>31. CASE Refresh
  <2>1. /\ faults' = faults /\ added' = added /\ digest' = digest /\ buffer \cup dropped \subseteq buffer' \cup dropped'
        /\ cpc' = "record" => cpc = "record"
    BY <1>31 DEF Refresh
  <2> QED
    BY <2>1, HeldFrom
<1>32. CASE Replicate
  <2>1. /\ faults' = faults /\ added' = added /\ digest' = digest /\ buffer \cup dropped \subseteq buffer' \cup dropped'
        /\ cpc' = "record" => cpc = "record"
    BY <1>32 DEF Replicate
  <2> QED
    BY <2>1, HeldFrom
<1>33. CASE Restart
  <2>1. faults' = faults + 1
    BY <1>33 DEF Restart
  <2> QED
    BY <1>f, <2>1
<1> QED
  BY <1>1, <1>2, <1>3, <1>4, <1>5, <1>6, <1>7, <1>8, <1>9, <1>10, <1>11, <1>12, <1>13, <1>14,
     <1>15, <1>16, <1>17,
     <1>18, <1>19, <1>20, <1>21, <1>22, <1>23, <1>24, <1>25, <1>26, <1>27, <1>28, <1>29, <1>30, <1>31, <1>32, <1>33
     DEF Next, Handle, HandleError, Price, Compile

-----------------------------------------------------------------------------
(* What may still be told                                                   *)

\* One of the channels from the n-th on.
ToCome(r, c, n) == \E i \in DOMAIN Channels[r] : i >= n /\ Channels[r][i] = c

\* The handler is telling, or has told and not marked.
Telling(r, l) == pc["scored"] \in {"publish", "mark"} /\ Listing = l /\ job.rule = r

\* Who may tell channel c of listing l for rule r: a scored listing that dedup lets
\* pass or has let pass, the buffer, and the digest that is being published.
Awaited(r, c, l) ==
  IF Telling(r, l)
  THEN pc["scored"] = "publish" /\ ToCome(r, c, job.next)
  ELSE <<Owner[r], l>> \notin sent \/ (pc["scored"] # "idle" /\ Listing = l /\ r \in job.matches)
Buffered(r, l)    == <<r, l>> \in buffer
InDigest(r, c, l) ==
  digest.rule = r /\ l \in digest.items /\ ToCome(r, c, IF cpc = "publish" THEN digest.next ELSE digest.next + 1)

Count(b) == IF b THEN 1 ELSE 0
Paid(r, c, l) ==
  told[<<r, c, l>>] + Count(Awaited(r, c, l)) + Count(Buffered(r, l)) + Count(InDigest(r, c, l))
    <= 1 + cleared[<<Owner[r], l>>] + faults
BudgetOK == \A r \in Rules, c \in ChannelNames, l \in Listings : Paid(r, c, l)

LEMMA Pays ==
  ASSUME HistoryType, HistoryType', BudgetOK, NEW r \in Rules, NEW c \in ChannelNames, NEW l \in Listings,
         told'[<<r, c, l>>] + Count(Awaited(r, c, l))' + Count(Buffered(r, l))' + Count(InDigest(r, c, l))'
           + cleared[<<Owner[r], l>>] + faults
         <= told[<<r, c, l>>] + Count(Awaited(r, c, l)) + Count(Buffered(r, l)) + Count(InDigest(r, c, l))
           + cleared'[<<Owner[r], l>>] + faults'
  PROVE  Paid(r, c, l)'
<1> DEFINE n == told[<<r, c, l>>]
           m == told'[<<r, c, l>>]
           a == Count(Awaited(r, c, l)) + Count(Buffered(r, l)) + Count(InDigest(r, c, l))
           b == Count(Awaited(r, c, l))' + Count(Buffered(r, l))' + Count(InDigest(r, c, l))'
           x == cleared[<<Owner[r], l>>] + faults
           y == cleared'[<<Owner[r], l>>] + faults'
<1>1. Owner[r] \in Users
  BY RulesAssumption
<1>2. n \in Nat /\ m \in Nat /\ x \in Nat /\ y \in Nat
  BY <1>1 DEF HistoryType, Told
<1>3. a \in Nat /\ b \in Nat
  BY DEF Count
<1>4. n + a <= 1 + x
  <2>1. Paid(r, c, l)
    BY DEF BudgetOK
  <2>2. /\ Count(Awaited(r, c, l)) \in Nat /\ Count(Buffered(r, l)) \in Nat /\ Count(InDigest(r, c, l)) \in Nat
        /\ cleared[<<Owner[r], l>>] \in Nat /\ faults \in Nat
    BY <1>1 DEF HistoryType, Count
  <2> QED
    BY <1>2, <2>1, <2>2 DEF Paid
<1>5. m + b + x <= n + a + y
  <2>1. /\ Count(Awaited(r, c, l)) \in Nat /\ Count(Buffered(r, l)) \in Nat /\ Count(InDigest(r, c, l)) \in Nat
        /\ Count(Awaited(r, c, l))' \in Nat /\ Count(Buffered(r, l))' \in Nat /\ Count(InDigest(r, c, l))' \in Nat
    BY DEF Count
  <2>2. cleared[<<Owner[r], l>>] \in Nat /\ faults \in Nat /\ cleared'[<<Owner[r], l>>] \in Nat /\ faults' \in Nat
    BY <1>1 DEF HistoryType
  <2> QED
    BY <1>2, <2>1, <2>2
<1> HIDE DEF n, m, a, b, x, y
<1>6. m + b <= 1 + y
  BY <1>2, <1>3, <1>4, <1>5
<1>7. /\ Count(Awaited(r, c, l))' \in Nat /\ Count(Buffered(r, l))' \in Nat /\ Count(InDigest(r, c, l))' \in Nat
      /\ cleared'[<<Owner[r], l>>] \in Nat /\ faults' \in Nat
  BY <1>1 DEF HistoryType, Count
<1> QED
  BY <1>2, <1>6, <1>7 DEF Paid, m, b, y

\* Nothing is told, and no claim is new.
LEMMA PaidStill ==
  ASSUME HistoryType, HistoryType', BudgetOK, NEW r \in Rules, NEW c \in ChannelNames, NEW l \in Listings,
         told'[<<r, c, l>>] = told[<<r, c, l>>],
         cleared'[<<Owner[r], l>>] = cleared[<<Owner[r], l>>], faults' = faults,
         Awaited(r, c, l)' => Awaited(r, c, l), Buffered(r, l)' => Buffered(r, l),
         InDigest(r, c, l)' => InDigest(r, c, l)
  PROVE  Paid(r, c, l)'
<1>1. /\ told'[<<r, c, l>>] = told[<<r, c, l>>] /\ told[<<r, c, l>>] \in Nat
      /\ cleared[<<Owner[r], l>>] \in Nat /\ faults \in Nat
  BY RulesAssumption DEF HistoryType, Told
<1>2. /\ Count(Awaited(r, c, l))' <= Count(Awaited(r, c, l)) /\ Count(Buffered(r, l))' <= Count(Buffered(r, l))
      /\ Count(InDigest(r, c, l))' <= Count(InDigest(r, c, l))
      /\ Count(Awaited(r, c, l)) \in Nat /\ Count(Buffered(r, l)) \in Nat /\ Count(InDigest(r, c, l)) \in Nat
      /\ Count(Awaited(r, c, l))' \in Nat /\ Count(Buffered(r, l))' \in Nat /\ Count(InDigest(r, c, l))' \in Nat
  BY DEF Count
<1> QED
  BY <1>1, <1>2, Pays

\* A fault or a price drop pays for one claim, or for one notification.
LEMMA PaidMore ==
  ASSUME HistoryType, HistoryType', BudgetOK, NEW r \in Rules, NEW c \in ChannelNames, NEW l \in Listings,
         \/ cleared' = cleared /\ faults' = faults + 1
         \/ cleared'[<<Owner[r], l>>] = cleared[<<Owner[r], l>>] + 1 /\ faults' = faults,
         \/ /\ told'[<<r, c, l>>] = told[<<r, c, l>>]
            /\ Buffered(r, l)' => Buffered(r, l)
            /\ InDigest(r, c, l)' => InDigest(r, c, l)
         \/ /\ told'[<<r, c, l>>] = told[<<r, c, l>>]
            /\ Awaited(r, c, l)' => Awaited(r, c, l)
            /\ InDigest(r, c, l)' => InDigest(r, c, l)
         \/ /\ told'[<<r, c, l>>] <= told[<<r, c, l>>] + 1
            /\ Awaited(r, c, l)' => Awaited(r, c, l)
            /\ Buffered(r, l)' => Buffered(r, l)
            /\ InDigest(r, c, l)' => InDigest(r, c, l)
  PROVE  Paid(r, c, l)'
<1>1. /\ told[<<r, c, l>>] \in Nat /\ told'[<<r, c, l>>] \in Nat
      /\ cleared[<<Owner[r], l>>] \in Nat /\ faults \in Nat
      /\ cleared'[<<Owner[r], l>>] \in Nat /\ faults' \in Nat
  BY RulesAssumption DEF HistoryType, Told
<1>2. /\ Count(Awaited(r, c, l)) \in {0, 1} /\ Count(Buffered(r, l)) \in {0, 1} /\ Count(InDigest(r, c, l)) \in {0, 1}
      /\ Count(Awaited(r, c, l))' \in {0, 1} /\ Count(Buffered(r, l))' \in {0, 1}
      /\ Count(InDigest(r, c, l))' \in {0, 1}
      /\ (Awaited(r, c, l)' => Awaited(r, c, l)) => Count(Awaited(r, c, l))' <= Count(Awaited(r, c, l))
      /\ (Buffered(r, l)' => Buffered(r, l)) => Count(Buffered(r, l))' <= Count(Buffered(r, l))
      /\ (InDigest(r, c, l)' => InDigest(r, c, l)) => Count(InDigest(r, c, l))' <= Count(InDigest(r, c, l))
  BY DEF Count
<1>3. cleared'[<<Owner[r], l>>] + faults' = cleared[<<Owner[r], l>>] + faults + 1
  BY <1>1
<1>4. told'[<<r, c, l>>] + Count(Awaited(r, c, l))' + Count(Buffered(r, l))' + Count(InDigest(r, c, l))'
        <= told[<<r, c, l>>] + Count(Awaited(r, c, l)) + Count(Buffered(r, l)) + Count(InDigest(r, c, l)) + 1
  BY <1>1, <1>2
<1> QED
  BY <1>1, <1>2, <1>3, <1>4, Pays

\* A claim is spent on a notification, or becomes the next one's.
LEMMA PaidBefore ==
  ASSUME HistoryType, HistoryType', BudgetOK, NEW r \in Rules, NEW c \in ChannelNames, NEW l \in Listings,
         UNCHANGED <<cleared, faults>>,
         \/ /\ told'[<<r, c, l>>] <= told[<<r, c, l>>] + 1 /\ Awaited(r, c, l) /\ ~Awaited(r, c, l)'
            /\ Buffered(r, l)' => Buffered(r, l)
            /\ InDigest(r, c, l)' => InDigest(r, c, l)
         \/ /\ told'[<<r, c, l>>] <= told[<<r, c, l>>] + 1 /\ InDigest(r, c, l) /\ ~InDigest(r, c, l)'
            /\ Awaited(r, c, l)' => Awaited(r, c, l)
            /\ Buffered(r, l)' => Buffered(r, l)
         \/ /\ told'[<<r, c, l>>] = told[<<r, c, l>>] /\ Awaited(r, c, l) /\ ~Awaited(r, c, l)'
            /\ InDigest(r, c, l)' => InDigest(r, c, l)
         \/ /\ told'[<<r, c, l>>] = told[<<r, c, l>>] /\ Buffered(r, l) /\ ~Buffered(r, l)'
            /\ Awaited(r, c, l)' => Awaited(r, c, l)
  PROVE  Paid(r, c, l)'
<1>1. /\ told[<<r, c, l>>] \in Nat /\ told'[<<r, c, l>>] \in Nat
      /\ cleared[<<Owner[r], l>>] \in Nat /\ faults \in Nat
      /\ cleared' = cleared /\ faults' = faults
  BY RulesAssumption DEF HistoryType, Told
<1>2. /\ Count(Awaited(r, c, l)) \in {0, 1} /\ Count(Buffered(r, l)) \in {0, 1} /\ Count(InDigest(r, c, l)) \in {0, 1}
      /\ Count(Awaited(r, c, l))' \in {0, 1} /\ Count(Buffered(r, l))' \in {0, 1}
      /\ Count(InDigest(r, c, l))' \in {0, 1}
      /\ (Awaited(r, c, l)' => Awaited(r, c, l)) => Count(Awaited(r, c, l))' <= Count(Awaited(r, c, l))
      /\ (Buffered(r, l)' => Buffered(r, l)) => Count(Buffered(r, l))' <= Count(Buffered(r, l))
      /\ (InDigest(r, c, l)' => InDigest(r, c, l)) => Count(InDigest(r, c, l))' <= Count(InDigest(r, c, l))
      /\ Awaited(r, c, l) /\ ~Awaited(r, c, l)' => Count(Awaited(r, c, l)) = 1 /\ Count(Awaited(r, c, l))' = 0
      /\ Buffered(r, l) /\ ~Buffered(r, l)' => Count(Buffered(r, l)) = 1 /\ Count(Buffered(r, l))' = 0
      /\ InDigest(r, c, l) /\ ~InDigest(r, c, l)' => Count(InDigest(r, c, l)) = 1 /\ Count(InDigest(r, c, l))' = 0
  BY DEF Count
<1>3. told'[<<r, c, l>>] + Count(Awaited(r, c, l))' + Count(Buffered(r, l))' + Count(InDigest(r, c, l))'
        <= told[<<r, c, l>>] + Count(Awaited(r, c, l)) + Count(Buffered(r, l)) + Count(InDigest(r, c, l))
  BY <1>1, <1>2
<1> QED
  BY <1>1, <1>2, <1>3, Pays

\* The channels of a rule are told one after the other, each once.
LEMMA ToComeNext ==
  ASSUME NEW r \in Rules, NEW i \in 1..Len(Channels[r]), NEW c
  PROVE  /\ ToCome(r, Channels[r][i], i) /\ ~ToCome(r, Channels[r][i], i + 1)
         /\ ToCome(r, c, i + 1) => ToCome(r, c, i)
         /\ i = Len(Channels[r]) => ~ToCome(r, c, i + 1)
<1>1. Channels[r] \in Seq(ChannelNames) /\ IsInjective(Channels[r])
  BY RulesAssumption
<1>2. DOMAIN Channels[r] = 1..Len(Channels[r]) /\ Len(Channels[r]) \in Nat
  BY <1>1
<1>3. \A j \in DOMAIN Channels[r] : Channels[r][j] = Channels[r][i] => j = i
  BY <1>1, <1>2 DEF IsInjective
<1> QED
  BY <1>2, <1>3 DEF ToCome

LEMMA BudgetStep ==
  ASSUME Types, Shape, BudgetOK, Next
  PROVE  BudgetOK'
<1> SUFFICES ASSUME NEW x \in Rules, NEW c \in ChannelNames, NEW l \in Listings
             PROVE  Paid(x, c, l)'
  BY DEF BudgetOK
<1>h. HistoryType /\ HistoryType'
  BY HistoryStep DEF Types
<1>n. x # None /\ Owner[x] \in Users
  BY RulesAssumption, EventsAssumption
<1>1. ASSUME NEW t \in Readers, NEW e \in Events, Receive(t, e)
      PROVE  Paid(x, c, l)'
  <2>1. UNCHANGED <<told, cleared, faults, buffer, digest, cpc, sent>> /\ pc[t] = "idle"
    BY <1>1 DEF Receive
  <2>2. Awaited(x, c, l)' => Awaited(x, c, l)
    <3>1. CASE t = "scored"
      <4>1. pc["scored"] = "idle" /\ pc'["scored"] = "match" /\ job'.matches = {}
        BY <1>1, <3>1 DEF Receive, NoJob, Types, ReadersType
      <4> QED
        BY <2>1, <4>1 DEF Awaited, Telling, Listing
    <3>2. CASE t = "price"
      <4>1. pc'["scored"] = pc["scored"] /\ job' = job /\ event'["scored"] = event["scored"]
        BY <1>1, <3>2 DEF Receive
      <4> QED
        BY <2>1, <4>1 DEF Awaited, Telling, Listing
    <3> QED
      BY <3>1, <3>2 DEF Readers
  <2>3. (Buffered(x, l)' => Buffered(x, l)) /\ (InDigest(x, c, l)' => InDigest(x, c, l))
    BY <2>1 DEF Buffered, InDigest
  <2> QED
    BY <1>h, <2>1, <2>2, <2>3, PaidStill
<1>2. ASSUME NEW t \in Readers, Retry(t)
      PROVE  Paid(x, c, l)'
  <2>1. UNCHANGED <<told, cleared, faults, buffer, digest, cpc, event, sent>> /\ pc[t] = "error"
    BY <1>2 DEF Retry
  <2>2. Awaited(x, c, l)' => Awaited(x, c, l)
    <3>1. CASE t = "scored"
      <4>1. pc["scored"] = "error" /\ pc'["scored"] \in {"commit", "match"} /\ job'.matches \subseteq job.matches
        BY <1>2, <3>1 DEF Retry, NoJob, Types, ReadersType
      <4> QED
        BY <2>1, <4>1 DEF Awaited, Telling, Listing
    <3>2. CASE t = "price"
      <4>1. pc'["scored"] = pc["scored"] /\ job' = job
        BY <1>2, <3>2 DEF Retry, Types, ReadersType, Readers
      <4> QED
        BY <2>1, <4>1 DEF Awaited, Telling, Listing
    <3> QED
      BY <3>1, <3>2 DEF Readers
  <2>3. (Buffered(x, l)' => Buffered(x, l)) /\ (InDigest(x, c, l)' => InDigest(x, c, l))
    BY <2>1 DEF Buffered, InDigest
  <2> QED
    BY <1>h, <2>1, <2>2, <2>3, PaidStill
<1>3. ASSUME NEW t \in Readers, Commit(t)
      PROVE  Paid(x, c, l)'
  <2>1. UNCHANGED <<told, cleared, faults, buffer, digest, cpc, sent>> /\ pc[t] = "commit"
    BY <1>3 DEF Commit
  <2>2. Awaited(x, c, l)' => Awaited(x, c, l)
    <3>1. CASE t = "scored"
      <4>1. pc["scored"] = "commit" /\ pc'["scored"] = "idle"
        BY <1>3, <3>1 DEF Commit, NoJob, Types, ReadersType
      <4> QED
        BY <2>1, <4>1 DEF Awaited, Telling, Listing
    <3>2. CASE t = "price"
      <4>1. pc'["scored"] = pc["scored"] /\ job' = job /\ event'["scored"] = event["scored"]
        BY <1>3, <3>2 DEF Commit
      <4> QED
        BY <2>1, <4>1 DEF Awaited, Telling, Listing
    <3> QED
      BY <3>1, <3>2 DEF Readers
  <2>3. (Buffered(x, l)' => Buffered(x, l)) /\ (InDigest(x, c, l)' => InDigest(x, c, l))
    BY <2>1 DEF Buffered, InDigest
  <2> QED
    BY <1>h, <2>1, <2>2, <2>3, PaidStill
<1>4. ASSUME NEW r \in Rules, Evaluate(r)
      PROVE  Paid(x, c, l)'
  <2>1. UNCHANGED <<told, cleared, faults>>
    BY <1>4 DEF Evaluate
  <2>2. Awaited(x, c, l)' => Awaited(x, c, l)
    BY <1>4 DEF Evaluate, Awaited, Telling, Listing, Chosen
  <2>3. (Buffered(x, l)' => Buffered(x, l)) /\ (InDigest(x, c, l)' => InDigest(x, c, l))
    BY <1>4 DEF Evaluate, Buffered, InDigest
  <2> QED
    BY <1>h, <2>1, <2>2, <2>3, PaidStill
<1>5. ASSUME NEW r \in Rules, EvaluateOpen(r)
      PROVE  Paid(x, c, l)'
  <2>1. told' = told /\ cleared' = cleared /\ faults' = faults + 1
    BY <1>5 DEF EvaluateOpen
  <2>2. (Buffered(x, l)' => Buffered(x, l)) /\ (InDigest(x, c, l)' => InDigest(x, c, l))
    BY <1>5 DEF EvaluateOpen, Buffered, InDigest
  <2> QED
    BY <1>h, <2>1, <2>2, PaidMore
<1>6. CASE MatchError
  <2>1. told' = told /\ cleared' = cleared /\ faults' = faults + 1
    BY <1>6 DEF MatchError
  <2>2. (Buffered(x, l)' => Buffered(x, l)) /\ (InDigest(x, c, l)' => InDigest(x, c, l))
    BY <1>6 DEF MatchError, Buffered, InDigest
  <2> QED
    BY <1>h, <2>1, <2>2, PaidMore
<1>7. CASE Matched
  <2>1. UNCHANGED <<told, cleared, faults>>
    BY <1>7 DEF Matched
  <2>2. Awaited(x, c, l)' => Awaited(x, c, l)
    BY <1>7 DEF Matched, Awaited, Telling, Listing
  <2>3. (Buffered(x, l)' => Buffered(x, l)) /\ (InDigest(x, c, l)' => InDigest(x, c, l))
    BY <1>7 DEF Matched, Buffered, InDigest
  <2> QED
    BY <1>h, <2>1, <2>2, <2>3, PaidStill
<1>8. CASE AllRouted
  <2>1. UNCHANGED <<told, cleared, faults>>
    BY <1>8 DEF AllRouted
  <2>2. Awaited(x, c, l)' => Awaited(x, c, l)
    BY <1>8 DEF AllRouted, Awaited, Telling
  <2>3. (Buffered(x, l)' => Buffered(x, l)) /\ (InDigest(x, c, l)' => InDigest(x, c, l))
    BY <1>8 DEF AllRouted, Buffered, InDigest
  <2> QED
    BY <1>h, <2>1, <2>2, <2>3, PaidStill
<1>9. ASSUME NEW r \in Rules, RouteInstant(r)
      PROVE  Paid(x, c, l)'
  <2>1. UNCHANGED <<told, cleared, faults>>
    BY <1>9 DEF RouteInstant
  <2>2. Awaited(x, c, l)' => Awaited(x, c, l)
    BY <1>9 DEF RouteInstant, Awaited, Telling, Listing
  <2>3. (Buffered(x, l)' => Buffered(x, l)) /\ (InDigest(x, c, l)' => InDigest(x, c, l))
    BY <1>9 DEF RouteInstant, Buffered, InDigest
  <2> QED
    BY <1>h, <2>1, <2>2, <2>3, PaidStill
<1>10. CASE PublishInstant
  <2>1. /\ UNCHANGED <<cleared, faults, buffer, digest, cpc, event, sent>> /\ pc["scored"] = "publish"
        /\ Tell(job.rule, job.next, {Listing}) /\ job.rule \in Rules /\ job.next \in 1..Len(Channels[job.rule])
    BY <1>10 DEF PublishInstant, Shape
  <2>2. /\ job'.rule = job.rule /\ job'.matches = job.matches
        /\ \/ pc'["scored"] = "mark" /\ job.next = Len(Channels[job.rule])
           \/ pc'["scored"] = "publish" /\ job'.next = job.next + 1
    BY <1>10 DEF PublishInstant, Types, ReadersType, Jobs, Readers
  <2>3. (Buffered(x, l)' => Buffered(x, l)) /\ (InDigest(x, c, l)' => InDigest(x, c, l))
    BY <2>1 DEF Buffered, InDigest
  <2>4. <<x, c, l>> \in Told
    BY DEF Told
  <2>5. CASE x = job.rule /\ l = Listing
    <3>1. Telling(x, l) /\ Telling(x, l)'
      BY <2>1, <2>2, <2>5 DEF Telling, Listing
    <3>2. PICK i \in 1..Len(Channels[x]) : i = job.next
      BY <2>1, <2>5
    <3>3. /\ ToCome(x, Channels[x][i], i) /\ ~ToCome(x, Channels[x][i], i + 1)
          /\ ToCome(x, c, i + 1) => ToCome(x, c, i)
      BY ToComeNext
    <3>4. (Awaited(x, c, l) <=> ToCome(x, c, i)) /\ (Awaited(x, c, l)' => ToCome(x, c, i + 1))
      BY <2>1, <2>2, <3>1, <3>2 DEF Awaited
    <3>5. CASE c = Channels[x][i]
      <4>1. told'[<<x, c, l>>] <= told[<<x, c, l>>] + 1
        BY <1>h, <2>1, <2>4, TellEffect DEF HistoryType
      <4> QED
        BY <1>h, <2>1, <2>3, <3>3, <3>4, <3>5, <4>1, PaidBefore
    <3>6. CASE c # Channels[x][i]
      <4>1. told'[<<x, c, l>>] = told[<<x, c, l>>]
        BY <1>h, <2>1, <2>4, <2>5, <3>2, <3>6, TellEffect DEF HistoryType
      <4> QED
        BY <1>h, <2>1, <2>3, <3>3, <3>4, <4>1, PaidStill
    <3> QED
      BY <3>5, <3>6
  <2>6. CASE ~(x = job.rule /\ l = Listing)
    <3>1. told'[<<x, c, l>>] = told[<<x, c, l>>]
      BY <1>h, <2>1, <2>4, <2>6, TellEffect DEF HistoryType
    <3>2. Awaited(x, c, l)' => Awaited(x, c, l)
      BY <2>1, <2>2, <2>6 DEF Awaited, Telling, Listing
    <3> QED
      BY <1>h, <2>1, <2>3, <3>1, <3>2, PaidStill
  <2> QED
    BY <2>5, <2>6
<1>11. CASE PublishError
  <2>1. /\ UNCHANGED <<cleared, buffer, digest, cpc, event, sent, job>> /\ pc["scored"] = "publish" /\ faults' = faults + 1
        /\ UNCHANGED told \/ Tell(job.rule, job.next, {Listing})
        /\ job.rule \in Rules /\ job.next \in 1..Len(Channels[job.rule])
    BY <1>11 DEF PublishError, Shape
  <2>2. pc'["scored"] = "error"
    BY <1>11 DEF PublishError, Types, ReadersType, Readers
  <2>3. (Buffered(x, l)' => Buffered(x, l)) /\ (InDigest(x, c, l)' => InDigest(x, c, l))
    BY <2>1 DEF Buffered, InDigest
  <2>4. <<x, c, l>> \in Told
    BY DEF Told
  <2>5. CASE told'[<<x, c, l>>] = told[<<x, c, l>>]
    BY <1>h, <2>1, <2>3, <2>5, PaidMore
  <2>6. CASE told'[<<x, c, l>>] # told[<<x, c, l>>]
    <3>1. /\ told'[<<x, c, l>>] <= told[<<x, c, l>>] + 1
          /\ x = job.rule /\ l = Listing /\ c = Channels[job.rule][job.next]
      BY <1>h, <2>1, <2>4, <2>6, TellEffect DEF HistoryType
    <3>2. PICK i \in 1..Len(Channels[x]) : i = job.next
      BY <2>1, <3>1
    <3>3. ToCome(x, c, job.next)
      BY <3>1, <3>2, ToComeNext
    <3>4. Awaited(x, c, l)
      BY <2>1, <3>1, <3>3 DEF Awaited, Telling
    <3> QED
      BY <1>h, <2>1, <2>3, <3>1, <3>4, PaidMore
  <2> QED
    BY <2>5, <2>6
<1>12. ASSUME NEW r \in Rules, RouteDigest(r)
      PROVE  Paid(x, c, l)'
  <2>1. /\ UNCHANGED <<told, cleared, faults, digest, cpc, event, sent>> /\ pc["scored"] = "route" /\ r \in job.matches
        /\ buffer' = buffer \cup {<<r, Listing>>}
    BY <1>12 DEF RouteDigest, Add
  <2>2. pc'["scored"] = "mark" /\ job'.rule = r /\ job'.matches \subseteq job.matches
    BY <1>12 DEF RouteDigest, Types, ReadersType, Readers
  <2>3. InDigest(x, c, l)' => InDigest(x, c, l)
    BY <2>1 DEF InDigest
  <2>4. CASE x = r /\ l = Listing
    <3>1. Awaited(x, c, l) /\ ~Awaited(x, c, l)'
      BY <2>1, <2>2, <2>4 DEF Awaited, Telling, Listing
    <3> QED
      BY <1>h, <2>1, <2>3, <3>1, PaidBefore
  <2>5. CASE ~(x = r /\ l = Listing)
    <3>1. Awaited(x, c, l)' => Awaited(x, c, l)
      BY <2>1, <2>2, <2>5 DEF Awaited, Telling, Listing
    <3>2. Buffered(x, l)' => Buffered(x, l)
      BY <2>1, <2>5 DEF Buffered
    <3> QED
      BY <1>h, <2>1, <2>3, <3>1, <3>2, PaidStill
  <2> QED
    BY <2>4, <2>5
<1>13. ASSUME NEW r \in Rules, RouteDigestError(r)
      PROVE  Paid(x, c, l)'
  <2>1. /\ UNCHANGED <<told, cleared, digest, cpc, event, sent, job>> /\ pc["scored"] = "route" /\ faults' = faults + 1
    BY <1>13 DEF RouteDigestError, Add
  <2>2. pc'["scored"] = "error"
    BY <1>13 DEF RouteDigestError, Types, ReadersType, Readers
  <2>3. Awaited(x, c, l)' => Awaited(x, c, l)
    BY <2>1, <2>2 DEF Awaited, Telling, Listing
  <2>4. InDigest(x, c, l)' => InDigest(x, c, l)
    BY <2>1 DEF InDigest
  <2> QED
    BY <1>h, <2>1, <2>3, <2>4, PaidMore
<1>14. CASE MarkSent
  <2>1. UNCHANGED <<told, cleared, faults>>
    BY <1>14 DEF MarkSent
  <2>2. Awaited(x, c, l)' => Awaited(x, c, l)
    BY <1>14 DEF MarkSent, Awaited, Telling, Listing, Shape, AfterMark
  <2>3. (Buffered(x, l)' => Buffered(x, l)) /\ (InDigest(x, c, l)' => InDigest(x, c, l))
    BY <1>14 DEF MarkSent, Buffered, InDigest
  <2> QED
    BY <1>h, <2>1, <2>2, <2>3, PaidStill
<1>15. CASE MarkError
  <2>1. told' = told /\ cleared' = cleared /\ faults' = faults + 1
    BY <1>15 DEF MarkError
  <2>2. (Buffered(x, l)' => Buffered(x, l)) /\ (InDigest(x, c, l)' => InDigest(x, c, l))
    BY <1>15 DEF MarkError, Buffered, InDigest
  <2> QED
    BY <1>h, <2>1, <2>2, PaidMore
<1>16. CASE Record
  <2>1. UNCHANGED <<told, cleared, faults>>
    BY <1>16 DEF Record
  <2>2. Awaited(x, c, l)' => Awaited(x, c, l)
    BY <1>16 DEF Record, Awaited, Telling, Listing
  <2>3. (Buffered(x, l)' => Buffered(x, l)) /\ (InDigest(x, c, l)' => InDigest(x, c, l))
    BY <1>16 DEF Record, Buffered, InDigest
  <2> QED
    BY <1>h, <2>1, <2>2, <2>3, PaidStill
<1>17. CASE RecordError
  <2>1. told' = told /\ cleared' = cleared /\ faults' = faults + 1
    BY <1>17 DEF RecordError
  <2>2. (Buffered(x, l)' => Buffered(x, l)) /\ (InDigest(x, c, l)' => InDigest(x, c, l))
    BY <1>17 DEF RecordError, Buffered, InDigest
  <2> QED
    BY <1>h, <2>1, <2>2, PaidMore
<1>18. CASE ListUsers
  <2>1. UNCHANGED <<told, cleared, faults>>
    BY <1>18 DEF ListUsers
  <2>2. Awaited(x, c, l)' => Awaited(x, c, l)
    BY <1>18 DEF ListUsers, Awaited, Telling, Listing
  <2>3. (Buffered(x, l)' => Buffered(x, l)) /\ (InDigest(x, c, l)' => InDigest(x, c, l))
    BY <1>18 DEF ListUsers, Buffered, InDigest
  <2> QED
    BY <1>h, <2>1, <2>2, <2>3, PaidStill
<1>19. CASE ListUsersError
  <2>1. told' = told /\ cleared' = cleared /\ faults' = faults + 1
    BY <1>19 DEF ListUsersError
  <2>2. (Buffered(x, l)' => Buffered(x, l)) /\ (InDigest(x, c, l)' => InDigest(x, c, l))
    BY <1>19 DEF ListUsersError, Buffered, InDigest
  <2> QED
    BY <1>h, <2>1, <2>2, PaidMore
<1>20. ASSUME NEW u \in Users, ClearSent(u)
      PROVE  Paid(x, c, l)'
  <2>1. UNCHANGED <<told, buffer, digest, cpc, event, job, pc>>
    BY <1>20 DEF ClearSent
  <2>2. (Buffered(x, l)' => Buffered(x, l)) /\ (InDigest(x, c, l)' => InDigest(x, c, l))
    BY <2>1 DEF Buffered, InDigest
  <2>3. CASE cleared' = cleared /\ faults' = faults + 1
    BY <1>h, <2>1, <2>2, <2>3, PaidMore
  <2> DEFINE p == <<u, ListingOf[event["price"]]>>
  <2>4. CASE sent' = sent \ {p} /\ cleared' = [cleared EXCEPT ![p] = @ + 1] /\ faults' = faults
    <3>1. <<Owner[x], l>> \in Users \X Listings
      BY <1>n
    <3>2. CASE p = <<Owner[x], l>>
      <4>1. cleared'[<<Owner[x], l>>] = cleared[<<Owner[x], l>>] + 1
        BY <1>h, <2>4, <3>1, <3>2 DEF HistoryType
      <4> QED
        BY <1>h, <2>1, <2>2, <2>4, <4>1, PaidMore
    <3>3. CASE p # <<Owner[x], l>>
      <4>1. cleared'[<<Owner[x], l>>] = cleared[<<Owner[x], l>>]
        BY <1>h, <2>4, <3>1, <3>3 DEF HistoryType
      <4>2. Awaited(x, c, l)' => Awaited(x, c, l)
        BY <2>1, <2>4, <3>3 DEF Awaited, Telling, Listing
      <4> QED
        BY <1>h, <2>1, <2>2, <2>4, <4>1, <4>2, PaidStill
    <3> QED
      BY <3>2, <3>3
  <2> QED
    BY <1>20, <2>3, <2>4 DEF ClearSent
<1>21. CASE AllCleared
  <2>1. UNCHANGED <<told, cleared, faults>>
    BY <1>21 DEF AllCleared
  <2>2. Awaited(x, c, l)' => Awaited(x, c, l)
    BY <1>21 DEF AllCleared, Awaited, Telling, Listing
  <2>3. (Buffered(x, l)' => Buffered(x, l)) /\ (InDigest(x, c, l)' => InDigest(x, c, l))
    BY <1>21 DEF AllCleared, Buffered, InDigest
  <2> QED
    BY <1>h, <2>1, <2>2, <2>3, PaidStill
<1>22. CASE Tick
  <2>1. UNCHANGED <<told, cleared, faults>>
    BY <1>22 DEF Tick
  <2>2. Awaited(x, c, l)' => Awaited(x, c, l)
    BY <1>22 DEF Tick, Awaited, Telling, Listing
  <2>3. (Buffered(x, l)' => Buffered(x, l)) /\ (InDigest(x, c, l)' => InDigest(x, c, l))
    BY <1>22 DEF Tick, Buffered, InDigest, NoDigest
  <2> QED
    BY <1>h, <2>1, <2>2, <2>3, PaidStill
<1>23. ASSUME NEW r \in Digest, ExpireKey(r)
      PROVE  Paid(x, c, l)'
  <2>1. UNCHANGED <<told, cleared, faults>>
    BY <1>23 DEF ExpireKey
  <2>2. Awaited(x, c, l)' => Awaited(x, c, l)
    BY <1>23 DEF ExpireKey, Awaited, Telling, Listing
  <2>3. (Buffered(x, l)' => Buffered(x, l)) /\ (InDigest(x, c, l)' => InDigest(x, c, l))
    BY <1>23 DEF ExpireKey, Buffered, InDigest
  <2> QED
    BY <1>h, <2>1, <2>2, <2>3, PaidStill
<1>24. ASSUME NEW r \in Digest, Flush(r)
      PROVE  Paid(x, c, l)'
  <2>1. /\ UNCHANGED <<told, cleared, faults, pc, job, event, sent>> /\ buffer' = {p \in buffer : p[1] # r}
        /\ digest.rule = None
    BY <1>24 DEF Flush, Shape
  <2>2. Awaited(x, c, l)' => Awaited(x, c, l)
    BY <2>1 DEF Awaited, Telling, Listing
  <2>3. Buffered(x, l)' => Buffered(x, l)
    BY <2>1 DEF Buffered
  <2>4. PICK items \in Best(ItemsOf(r)) :
          \/ digest' = [keys |-> digest.keys \ {r}, rule |-> r, items |-> items, next |-> 1] /\ cpc' = "publish"
          \/ digest' = [digest EXCEPT !.keys = @ \ {r}] /\ cpc' = "compile"
    BY <1>24 DEF Flush
  <2>5. items \subseteq ItemsOf(r)
    BY DEF Best
  <2>6. CASE InDigest(x, c, l)'
    <3>1. x = r /\ l \in items
      BY <1>n, <2>1, <2>4, <2>6 DEF InDigest, Types, CompilerType, Digests
    <3>2. Buffered(x, l) /\ ~Buffered(x, l)'
      BY <2>1, <2>5, <3>1 DEF Buffered, ItemsOf
    <3> QED
      BY <1>h, <2>1, <2>2, <3>2, PaidBefore
  <2>7. CASE ~InDigest(x, c, l)'
    BY <1>h, <2>1, <2>2, <2>3, <2>7, PaidStill
  <2> QED
    BY <2>6, <2>7
<1>25. CASE PublishDigest
  <2>1. /\ UNCHANGED <<cleared, faults, pc, job, event, sent, buffer, digest>> /\ cpc = "publish" /\ cpc' = "record"
        /\ Tell(digest.rule, digest.next, digest.items)
        /\ digest.rule \in Rules /\ digest.next \in 1..Len(Channels[digest.rule])
    BY <1>25, RulesAssumption DEF PublishDigest, Shape
  <2>2. (Awaited(x, c, l)' => Awaited(x, c, l)) /\ (Buffered(x, l)' => Buffered(x, l))
    BY <2>1 DEF Awaited, Telling, Listing, Buffered
  <2>3. <<x, c, l>> \in Told
    BY DEF Told
  <2>4. CASE x = digest.rule /\ l \in digest.items
    <3>1. PICK i \in 1..Len(Channels[x]) : i = digest.next
      BY <2>1, <2>4
    <3>2. /\ ToCome(x, Channels[x][i], i) /\ ~ToCome(x, Channels[x][i], i + 1)
          /\ ToCome(x, c, i + 1) => ToCome(x, c, i)
      BY ToComeNext
    <3>3. (InDigest(x, c, l) <=> ToCome(x, c, i)) /\ (InDigest(x, c, l)' => ToCome(x, c, i + 1))
      BY <2>1, <2>4, <3>1 DEF InDigest
    <3>4. CASE c = Channels[x][i]
      <4>1. told'[<<x, c, l>>] <= told[<<x, c, l>>] + 1
        BY <1>h, <2>1, <2>3, TellEffect DEF HistoryType
      <4> QED
        BY <1>h, <2>1, <2>2, <3>2, <3>3, <3>4, <4>1, PaidBefore
    <3>5. CASE c # Channels[x][i]
      <4>1. told'[<<x, c, l>>] = told[<<x, c, l>>]
        BY <1>h, <2>1, <2>3, <2>4, <3>1, <3>5, TellEffect DEF HistoryType
      <4> QED
        BY <1>h, <2>1, <2>2, <3>2, <3>3, <4>1, PaidStill
    <3> QED
      BY <3>4, <3>5
  <2>5. CASE ~(x = digest.rule /\ l \in digest.items)
    <3>1. told'[<<x, c, l>>] = told[<<x, c, l>>]
      BY <1>h, <2>1, <2>3, <2>5, TellEffect DEF HistoryType
    <3>2. InDigest(x, c, l)' => InDigest(x, c, l)
      BY <2>1, <2>5 DEF InDigest
    <3> QED
      BY <1>h, <2>1, <2>2, <3>1, <3>2, PaidStill
  <2> QED
    BY <2>4, <2>5
<1>26. CASE RecordDigest
  <2>1. UNCHANGED <<told, cleared, pc, job, event, sent, buffer>> /\ cpc = "record" /\ digest.next \in Nat
    BY <1>26 DEF RecordDigest, Types, CompilerType, Digests
  <2>2. (Awaited(x, c, l)' => Awaited(x, c, l)) /\ (Buffered(x, l)' => Buffered(x, l))
    BY <2>1 DEF Awaited, Telling, Listing, Buffered
  <2>3. InDigest(x, c, l)' => InDigest(x, c, l)
    <3>1. CASE digest' = [NoDigest EXCEPT !.keys = digest.keys]
      BY <1>n, <3>1 DEF InDigest, NoDigest
    <3>2. CASE digest' = [digest EXCEPT !.next = @ + 1] /\ cpc' = "publish"
      BY <2>1, <3>2 DEF InDigest, Types, CompilerType, Digests
    <3> QED
      BY <1>26, <3>1, <3>2 DEF RecordDigest
  <2>4. faults' = faults \/ faults' = faults + 1
    BY <1>26 DEF RecordDigest
  <2> QED
    BY <1>h, <2>1, <2>2, <2>3, <2>4, PaidStill, PaidMore
<1>27. CASE CompileError
  <2>1. /\ UNCHANGED <<cleared, pc, job, event, sent>> /\ faults' = faults + 1 /\ digest' = NoDigest
        /\ buffer' \subseteq buffer
        /\ UNCHANGED told \/ Tell(digest.rule, digest.next, digest.items)
    BY <1>27 DEF CompileError
  <2>2. /\ Awaited(x, c, l)' => Awaited(x, c, l)
        /\ Buffered(x, l)' => Buffered(x, l)
        /\ InDigest(x, c, l)' => InDigest(x, c, l)
    BY <1>n, <2>1 DEF Awaited, Telling, Listing, Buffered, InDigest, NoDigest
  <2>3. told'[<<x, c, l>>] <= told[<<x, c, l>>] + 1
    <3>1. <<x, c, l>> \in Told
      BY DEF Told
    <3>2. told[<<x, c, l>>] \in Nat
      BY <1>h, <3>1 DEF HistoryType
    <3> QED
      BY <1>h, <2>1, <3>1, <3>2, TellEffect DEF HistoryType
  <2> QED
    BY <1>h, <2>1, <2>2, <2>3, PaidMore
<1>28. CASE Compiled
  <2>1. UNCHANGED <<told, cleared, faults>>
    BY <1>28 DEF Compiled
  <2>2. Awaited(x, c, l)' => Awaited(x, c, l)
    BY <1>28 DEF Compiled, Awaited, Telling, Listing
  <2>3. (Buffered(x, l)' => Buffered(x, l)) /\ (InDigest(x, c, l)' => InDigest(x, c, l))
    BY <1>28 DEF Compiled, Buffered, InDigest
  <2> QED
    BY <1>h, <2>1, <2>2, <2>3, PaidStill
<1>29. ASSUME NEW r \in Rules, Deactivate(r)
      PROVE  Paid(x, c, l)'
  <2>1. UNCHANGED <<told, cleared, faults>>
    BY <1>29 DEF Deactivate
  <2>2. Awaited(x, c, l)' => Awaited(x, c, l)
    BY <1>29 DEF Deactivate, Awaited, Telling, Listing
  <2>3. (Buffered(x, l)' => Buffered(x, l)) /\ (InDigest(x, c, l)' => InDigest(x, c, l))
    BY <1>29 DEF Deactivate, Buffered, InDigest
  <2> QED
    BY <1>h, <2>1, <2>2, <2>3, PaidStill
<1>30. ASSUME NEW u \in Users, ExpireSent(u)
      PROVE  Paid(x, c, l)'
  <2>1. told' = told /\ cleared' = cleared /\ faults' = faults + 1
    BY <1>30 DEF ExpireSent
  <2>2. (Buffered(x, l)' => Buffered(x, l)) /\ (InDigest(x, c, l)' => InDigest(x, c, l))
    BY <1>30 DEF ExpireSent, Buffered, InDigest
  <2> QED
    BY <1>h, <2>1, <2>2, PaidMore
<1>31. CASE Refresh
  <2>1. UNCHANGED <<told, cleared, faults>>
    BY <1>31 DEF Refresh
  <2>2. Awaited(x, c, l)' => Awaited(x, c, l)
    BY <1>31 DEF Refresh, Awaited, Telling, Listing
  <2>3. (Buffered(x, l)' => Buffered(x, l)) /\ (InDigest(x, c, l)' => InDigest(x, c, l))
    BY <1>31 DEF Refresh, Buffered, InDigest
  <2> QED
    BY <1>h, <2>1, <2>2, <2>3, PaidStill
<1>32. CASE Replicate
  <2>1. UNCHANGED <<told, cleared, faults>>
    BY <1>32 DEF Replicate
  <2>2. Awaited(x, c, l)' => Awaited(x, c, l)
    BY <1>32 DEF Replicate, Awaited, Telling, Listing
  <2>3. (Buffered(x, l)' => Buffered(x, l)) /\ (InDigest(x, c, l)' => InDigest(x, c, l))
    BY <1>32 DEF Replicate, Buffered, InDigest
  <2> QED
    BY <1>h, <2>1, <2>2, <2>3, PaidStill
<1>33. CASE Restart
  <2>1. told' = told /\ cleared' = cleared /\ faults' = faults + 1
    BY <1>33 DEF Restart
  <2>2. (Buffered(x, l)' => Buffered(x, l)) /\ (InDigest(x, c, l)' => InDigest(x, c, l))
    BY <1>33 DEF Restart, Buffered, InDigest, NoDigest
  <2> QED
    BY <1>h, <2>1, <2>2, PaidMore
<1> QED
  BY <1>1, <1>2, <1>3, <1>4, <1>5, <1>6, <1>7, <1>8, <1>9, <1>10, <1>11, <1>12, <1>13, <1>14,
     <1>15, <1>16, <1>17,
     <1>18, <1>19, <1>20, <1>21, <1>22, <1>23, <1>24, <1>25, <1>26, <1>27, <1>28, <1>29, <1>30, <1>31, <1>32, <1>33
     DEF Next, Handle, HandleError, Price, Compile

-----------------------------------------------------------------------------
(* The invariant and the theorems                                           *)

EngineInv == Types /\ Shape /\ ReachedOK /\ ProgressOK /\ AckedOK /\ HeldOK /\ BudgetOK

LEMMA InitInv == Init => EngineInv
<1> SUFFICES ASSUME Init
             PROVE  EngineInv
  OBVIOUS
<1>1. Types
  <2>1. ReadersType
    BY NoneType, LimitsAssumption DEF Init, ReadersType, Stages, Readers
  <2>2. StoresType /\ CompilerType
    BY NoneType DEF Init, StoresType, CompilerType
  <2>3. HistoryType
    BY DEF Init, HistoryType, Told
  <2> QED
    BY <2>1, <2>2, <2>3 DEF Types
<1>2. Shape
  BY DEF Init, Shape, NoDigest, Readers
<1>3. pc["scored"] = "idle" /\ cpc = "idle"
  BY DEF Init, Readers
<1>4. ReachedOK /\ ProgressOK /\ AckedOK /\ HeldOK
  BY <1>3 DEF Init, ReachedOK, Marked, ProgressOK, InHand, AckedOK, HeldOK
<1>5. BudgetOK
  <2> SUFFICES ASSUME NEW r \in Rules, NEW c \in ChannelNames, NEW l \in Listings
               PROVE  Paid(r, c, l)
    BY DEF BudgetOK
  <2>1. told[<<r, c, l>>] = 0 /\ cleared[<<Owner[r], l>>] = 0 /\ faults = 0
    BY RulesAssumption DEF Init
  <2>2. ~Buffered(r, l) /\ ~InDigest(r, c, l)
    BY EventsAssumption DEF Init, Buffered, InDigest, NoDigest
  <2>3. Count(Awaited(r, c, l)) \in {0, 1} /\ Count(Buffered(r, l)) = 0 /\ Count(InDigest(r, c, l)) = 0
    BY <2>2 DEF Count
  <2> QED
    BY <2>1, <2>3 DEF Paid
<1> QED
  BY <1>1, <1>2, <1>4, <1>5 DEF EngineInv

LEMMA Inductive == Spec => []EngineInv
<1>1. Init => EngineInv
  BY InitInv
<1>2. EngineInv /\ [Next]_vars => EngineInv'
  <2> SUFFICES ASSUME EngineInv, [Next]_vars
               PROVE  EngineInv'
    OBVIOUS
  <2>1. CASE Next
    <3>1. Types /\ Shape /\ ReachedOK /\ ProgressOK /\ AckedOK /\ HeldOK /\ BudgetOK
      BY DEF EngineInv
    <3>2. Types'
      BY <2>1, <3>1, ReadersStep, StoresStep, CompilerStep, HistoryStep DEF Types
    <3>3. Shape' /\ ReachedOK' /\ ProgressOK'
      BY <2>1, <3>1, ShapeStep, ReachedStep, ProgressStep
    <3>4. AckedOK' /\ HeldOK' /\ BudgetOK'
      BY <2>1, <3>1, AckedStep, HeldStep, BudgetStep
    <3> QED
      BY <3>2, <3>3, <3>4 DEF EngineInv
  <2>2. CASE UNCHANGED vars
    <3>1. Types' /\ Shape'
      BY <2>2 DEF EngineInv, vars, Types, ReadersType, StoresType, CompilerType, HistoryType, Shape
    <3>2. ReachedOK' /\ ProgressOK' /\ AckedOK'
      <4>1. \A u \in Users, l \in Listings : Reached(u, l)' <=> Reached(u, l)
        BY <2>2 DEF vars, Reached
      <4>2. ReachedOK'
        BY <2>2, <4>1 DEF EngineInv, vars, ReachedOK, Marked, Listing
      <4>3. ProgressOK'
        <5>1. ASSUME NEW r \in active', NEW l \in Listings, InHand(l)', Due(r, l), ~Remaining(r)'
              PROVE  Reached(Owner[r], l)'
          <6>1. InHand(l) /\ ~Remaining(r) /\ r \in active
            BY <2>2, <5>1 DEF vars, InHand, Listing, Remaining
          <6>2. Reached(Owner[r], l)
            BY <5>1, <6>1 DEF EngineInv, ProgressOK
          <6> QED
            BY <2>2, <6>2 DEF vars, Reached
        <5> QED
          BY <5>1 DEF ProgressOK, Due
      <4>4. AckedOK'
        BY <2>2 DEF EngineInv, vars, AckedOK, Due, Reached
      <4> QED
        BY <4>2, <4>3, <4>4
    <3>3. HeldOK'
      BY <2>2 DEF EngineInv, vars, HeldOK, Held
    <3>4. BudgetOK'
      <4> SUFFICES ASSUME NEW r \in Rules, NEW c \in ChannelNames, NEW l \in Listings
                   PROVE  Paid(r, c, l)'
        BY DEF BudgetOK
      <4>1. HistoryType /\ HistoryType' /\ BudgetOK
        BY <3>1 DEF EngineInv, Types
      <4>2. /\ told'[<<r, c, l>>] = told[<<r, c, l>>]
            /\ cleared'[<<Owner[r], l>>] = cleared[<<Owner[r], l>>] /\ faults' = faults
        BY <2>2 DEF vars
      <4>3. /\ Awaited(r, c, l)' => Awaited(r, c, l)
            /\ Buffered(r, l)' => Buffered(r, l)
            /\ InDigest(r, c, l)' => InDigest(r, c, l)
        BY <2>2 DEF vars, Awaited, Telling, Listing, Buffered, InDigest
      <4> QED
        BY <4>1, <4>2, <4>3, PaidStill
    <3> QED
      BY <3>1, <3>2, <3>3, <3>4 DEF EngineInv
  <2> QED
    BY <2>1, <2>2
<1> QED
  BY <1>1, <1>2, PTL DEF Spec

\* Every variable keeps its type.
THEOREM TypeCorrect == Spec => []TypeOK
<1>1. EngineInv => TypeOK
  BY DEF EngineInv, Types, ReadersType, StoresType, CompilerType, HistoryType, TypeOK, Stages,
     Jobs, Digests, Told
<1> QED
  BY <1>1, Inductive, PTL

\* A repeated notification was paid for by a price drop's ClearSent or by a fault:
\* RouteInstant, RouteDigest and the compiler tell a channel of a listing once for
\* each time that the dedup set, the retry loop or Redis lets it pass.
THEOREM RepeatsPaid == Spec => []RepeatNeedsCause
<1>1. ASSUME EngineInv
      PROVE  RepeatNeedsCause
  <2> SUFFICES ASSUME NEW r \in Rules, NEW c \in ChannelNames, NEW l \in Listings
               PROVE  told[<<r, c, l>>] <= 1 + cleared[<<Owner[r], l>>] + faults
    BY DEF RepeatNeedsCause
  <2>1. Paid(r, c, l)
    BY <1>1 DEF EngineInv, BudgetOK
  <2>2. told[<<r, c, l>>] \in Nat /\ cleared[<<Owner[r], l>>] \in Nat /\ faults \in Nat
    BY <1>1, RulesAssumption DEF EngineInv, Types, HistoryType, Told
  <2>3. Count(Awaited(r, c, l)) \in Nat /\ Count(Buffered(r, l)) \in Nat /\ Count(InDigest(r, c, l)) \in Nat
    BY DEF Count
  <2> QED
    BY <2>1, <2>2, <2>3 DEF Paid
<1> QED
  BY <1>1, Inductive, PTL

\* HandleScoredListing returns nil only when the users of the rules that match were
\* told, have the listing in a digest, or carry a mark of someone who was.
THEOREM AckedReached == Spec => []AckedUsersTold
<1>1. ASSUME EngineInv
      PROVE  AckedUsersTold
  <2> SUFFICES ASSUME NEW e \in (acked \cap Scored) \ (dead \cup cut), NEW r \in active,
                      <<r, ListingOf[e]>> \in Wants, Channels[r] # <<>>
               PROVE  Reached(Owner[r], ListingOf[e])
    BY DEF AckedUsersTold
  <2>1. ListingOf[e] \in Listings
    BY EventsAssumption DEF Events
  <2> QED
    BY <1>1, <2>1 DEF EngineInv, AckedOK, Due
<1> QED
  BY <1>1, Inductive, PTL

\* Flush takes and deletes a key in one transaction, and what RouteDigest adds
\* meanwhile stays for the next digest: only faults lose a listing.
THEOREM DigestsHold == Spec => []DigestLossNeedsFault
<1>1. EngineInv => DigestLossNeedsFault
  BY DEF EngineInv, HeldOK, DigestLossNeedsFault
<1> QED
  BY <1>1, Inductive, PTL

=============================================================================
