----------------------------- MODULE AlertEngine -----------------------------
(***************************************************************************)
(* alert-engine: scored listings are matched against the active rules and   *)
(* become notifications (worker/, matcher/, router/), at most once per user *)
(* and listing (dedup/); digest rules collect them in Redis until a ticker  *)
(* compiles the digests (digest/); a price drop forgets who was told.       *)
(*                                                                         *)
(* One pod (the chart's default) runs four threads: a reader of the scored- *)
(* listings topic, a reader of price-changes, the compiler's ticker and the *)
(* refresh of the rule cache.  The two readers are ConsumeReader loops: an  *)
(* event is acknowledged after the handler returned nil, or dead-lettered   *)
(* after MaxRetries calls.                                                  *)
(***************************************************************************)
EXTENDS Integers, FiniteSets, Sequences, Functions

CONSTANTS
  Rules, Users, Listings,
  Owner,        \* the user of a rule
  Digest,       \* the rules of one digest frequency, hourly or daily (the two
                \* compilers share no key)
  Channels,     \* the sequence of channels of a rule
  Wants,        \* the pairs <<rule, listing>> that pass category, zones and filter
  Log,          \* the partition of each topic: a sequence of scored listings, and
                \* one of price changes (those with a lower price)
  ListingOf,    \* the listing of an event
  DigestLimit,  \* listings in a digest (20)
  MaxRetries,   \* handler calls of the broker's retry loop
  MaxFaults     \* bound of the model: crashes, outages of Redis, Kafka or Postgres,
                \* expired dedup sets and deactivated rules, taken together

None == "none"
Readers == {"scored", "price"}
Topic(t) == {Log[t][i] : i \in DOMAIN Log[t]}
Scored == Topic("scored")
Events == Scored \cup Topic("price")
ChannelNames == UNION {{Channels[r][i] : i \in DOMAIN Channels[r]} : r \in Rules}

\* A channel is an entry of a rule's list, a type and an address.
ASSUME RulesAssumption ==
  /\ Owner \in [Rules -> Users] /\ Digest \subseteq Rules /\ Wants \subseteq Rules \X Listings
  /\ Channels \in [Rules -> Seq(ChannelNames)] /\ \A r \in Rules : IsInjective(Channels[r])
ASSUME EventsAssumption ==
  /\ ListingOf \in [Events -> Listings] /\ None \notin Events \cup Rules
  /\ \A t \in Readers : Log[t] \in Seq(Events) /\ IsInjective(Log[t])
  /\ Scored \cap Topic("price") = {}
ASSUME LimitsAssumption ==
  DigestLimit \in Nat \ {0} /\ MaxRetries \in Nat \ {0} /\ MaxFaults \in Nat

VARIABLES
  acked, dead,       \* events committed; events on the dead-letter topic
  pc, event, tries,  \* the readers "scored" and "price"
  job,     \* HandleScoredListing: rules to evaluate, matches, the rule being routed
  users,   \* HandlePriceChange: users to clear
  sent,    \* Redis: alerts:sent:<user>, as pairs <<user, listing>>
  buffer,  \* Redis: alerts:digest:<user>:<rule>:<frequency>, as pairs <<rule, listing>>
  overdue, \* rules whose buffer key has reached its TTL
  history, replica,  \* <<rule, listing>> of alert_history, on the primary and a replica
  active, cached,    \* active rules in Postgres, and in the RuleCache
  cpc, digest,       \* Compiler: its stage; the keys left, the digest being published
  told,    \* history: notifications published per rule, channel and listing
  added,   \* history: pairs <<rule, listing>> ever buffered
  dropped, \* history: those dropped by the TTL, the limit, or a rule that is gone
  cleared, \* history: times ClearSent was called per user and listing
  cut,     \* history: events acknowledged by a handler that a shutdown cut short
  faults   \* how many faults happened so far, every error of an outage included

vars    == <<acked, dead, pc, event, tries, job, users, sent, buffer, overdue, history, replica,
             active, cached, cpc, digest, told, added, dropped, cleared, cut, faults>>
topic   == <<acked, dead, cut>>
reader  == <<pc, event, tries>>
redis   == <<sent, buffer, overdue>>
tables  == <<history, replica>>
rules   == <<active, cached>>
compile == <<cpc, digest>>
ghosts  == <<told, added, dropped, cleared>>

NoJob    == [todo |-> {}, matches |-> {}, rule |-> None, next |-> 0]
NoDigest == [keys |-> {}, rule |-> None, items |-> {}, next |-> 0]

TypeOK ==
  /\ acked \subseteq Events /\ dead \subseteq Events /\ cut \subseteq Events
  /\ pc \in [Readers -> {"idle", "match", "route", "publish", "mark", "record",
                         "list", "clear", "error", "commit"}]
  /\ \A t \in Readers : event[t] \in Topic(t) \cup {None}
  /\ tries \in [Readers -> 0..MaxRetries]
  /\ job \in [todo : SUBSET Rules, matches : SUBSET Rules, rule : Rules \cup {None}, next : Nat]
  /\ users \subseteq Users
  /\ sent \subseteq Users \X Listings
  /\ buffer \subseteq Digest \X Listings /\ overdue \subseteq Digest
  /\ history \subseteq Rules \X Listings /\ replica \subseteq history
  /\ active \subseteq Rules /\ active \subseteq cached
  /\ cpc \in {"idle", "compile", "publish", "record"}
  /\ digest \in [keys : SUBSET Digest, rule : Digest \cup {None},
                 items : SUBSET Listings, next : Nat]
  /\ told \in [Rules \X ChannelNames \X Listings -> Nat]
  /\ added \subseteq Digest \X Listings /\ dropped \subseteq added
  /\ cleared \in [Users \X Listings -> Nat]
  /\ faults \in Nat

Init ==
  /\ acked = {} /\ dead = {} /\ cut = {}
  /\ pc = [t \in Readers |-> "idle"]
  /\ event = [t \in Readers |-> None]
  /\ tries = [t \in Readers |-> 0]
  /\ job = NoJob /\ users = {}
  /\ sent = {} /\ buffer = {} /\ overdue = {}
  /\ history = {} /\ replica = {}
  /\ active = Rules /\ cached = Rules
  /\ cpc = "idle" /\ digest = NoDigest
  /\ told = [n \in Rules \X ChannelNames \X Listings |-> 0]
  /\ added = {} /\ dropped = {}
  /\ cleared = [p \in Users \X Listings |-> 0]
  /\ faults = 0

Disturbable == faults + Cardinality(Rules \ active) < MaxFaults
Fault == Disturbable /\ faults' = faults + 1
\* What failed the first call of a handler may fail its retries as well: such an
\* outage takes one fault of the bound, and every error of it is counted.
Outage(t) == (Disturbable \/ tries[t] > 1) /\ faults' = faults + 1
NoFault == UNCHANGED faults
Goto(t, stage) == pc' = [pc EXCEPT ![t] = stage]
Fail(t) == Goto(t, "error") /\ UNCHANGED <<event, tries>>
Listing == ListingOf[event["scored"]]
Tell(r, i, items) ==
  told' = [n \in DOMAIN told |->
             IF n[1] = r /\ n[2] = Channels[r][i] /\ n[3] \in items THEN told[n] + 1 ELSE told[n]]

-----------------------------------------------------------------------------
(* ConsumeReader                                                            *)

Receive(t, e) ==
  /\ pc[t] = "idle"
  /\ \E i \in DOMAIN Log[t] :
       e = Log[t][i] /\ e \notin acked /\ \A j \in 1..(i - 1) : Log[t][j] \in acked
  /\ event' = [event EXCEPT ![t] = e]
  /\ tries' = [tries EXCEPT ![t] = 1]
  /\ Goto(t, IF t = "scored" THEN "match" ELSE "list")
  /\ job' = IF t = "scored"
            THEN [NoJob EXCEPT !.todo = {r \in cached : <<r, ListingOf[e]>> \in Wants}]
            ELSE job
  /\ NoFault
  /\ UNCHANGED <<topic, users, redis, tables, rules, compile, ghosts>>

\* The handler returned an error: it is called again, or the event is dead-lettered.
Retry(t) ==
  /\ pc[t] = "error"
  /\ IF tries[t] = MaxRetries
     THEN /\ dead' = dead \cup {event[t]}
          /\ Goto(t, "commit")
          /\ UNCHANGED <<tries, job>>
     ELSE /\ tries' = [tries EXCEPT ![t] = @ + 1]
          /\ Goto(t, IF t = "scored" THEN "match" ELSE "list")
          /\ job' = IF t = "scored"
                    THEN [NoJob EXCEPT !.todo = {r \in cached : <<r, Listing>> \in Wants}]
                    ELSE job
          /\ UNCHANGED dead
  /\ NoFault
  /\ UNCHANGED <<acked, cut, event, users, redis, tables, rules, compile, ghosts>>

Commit(t) ==
  /\ pc[t] = "commit"
  /\ acked' = acked \cup {event[t]}
  /\ event' = [event EXCEPT ![t] = None]
  /\ tries' = [tries EXCEPT ![t] = 0]
  /\ job' = IF t = "scored" THEN NoJob ELSE job
  /\ Goto(t, "idle")
  /\ NoFault
  /\ UNCHANGED <<dead, cut, users, redis, tables, rules, compile, ghosts>>

-----------------------------------------------------------------------------
(* HandleScoredListing                                                      *)

ScoredUnchanged == UNCHANGED <<topic, event, tries, users, replica, rules, compile>>

Chosen(r) == [job EXCEPT !.todo = @ \ {r}, !.matches = @ \cup {r}]

\* Mutated form: dedup is not asked.
EvaluateAlways(r) ==
  /\ pc["scored"] = "match"
  /\ r \in job.todo
  /\ job' = Chosen(r)
  /\ NoFault
  /\ ScoredUnchanged /\ UNCHANGED <<pc, redis, history, ghosts>>

\* Mutated form: the check marks the pair, before anything was published.
EvaluateAndMark(r) ==
  /\ pc["scored"] = "match"
  /\ r \in job.todo
  /\ job' = IF <<Owner[r], Listing>> \in sent THEN [job EXCEPT !.todo = @ \ {r}] ELSE Chosen(r)
  /\ sent' = sent \cup {<<Owner[r], Listing>>}
  /\ NoFault
  /\ ScoredUnchanged /\ UNCHANGED <<pc, buffer, overdue, history, ghosts>>

\* evaluateRule, one goroutine per rule: dedup is asked when the goroutine runs.
Evaluate(r) ==
  /\ pc["scored"] = "match"
  /\ r \in job.todo
  /\ job' = IF <<Owner[r], Listing>> \in sent THEN [job EXCEPT !.todo = @ \ {r}] ELSE Chosen(r)
  /\ NoFault
  /\ ScoredUnchanged /\ UNCHANGED <<pc, redis, history, ghosts>>

\* Redis does not answer: the notification is allowed.
EvaluateOpen(r) ==
  /\ pc["scored"] = "match"
  /\ r \in job.todo
  /\ Fault
  /\ job' = Chosen(r)
  /\ ScoredUnchanged /\ UNCHANGED <<pc, redis, history, ghosts>>

\* The zones of a rule cannot be read: Match returns the error.
MatchError ==
  /\ pc["scored"] = "match"
  /\ job.todo # {}
  /\ Outage("scored")
  /\ Fail("scored")
  /\ UNCHANGED <<topic, job, users, redis, tables, rules, compile, ghosts>>

Matched ==
  /\ pc["scored"] = "match"
  /\ job.todo = {}
  /\ Goto("scored", "route")
  /\ NoFault
  /\ ScoredUnchanged /\ UNCHANGED <<job, redis, history, ghosts>>

AllRouted ==
  /\ pc["scored"] = "route"
  /\ job.matches = {}
  /\ Goto("scored", "commit")
  /\ NoFault
  /\ ScoredUnchanged /\ UNCHANGED <<job, redis, history, ghosts>>

\* RouteInstant begins; a rule without channels is skipped.
RouteInstant(r) ==
  /\ pc["scored"] = "route"
  /\ r \in job.matches \ Digest
  /\ job' = [job EXCEPT !.matches = @ \ {r}, !.rule = r, !.next = 1]
  /\ Goto("scored", IF Channels[r] = <<>> THEN "route" ELSE "publish")
  /\ NoFault
  /\ ScoredUnchanged /\ UNCHANGED <<redis, history, ghosts>>

PublishInstant ==
  /\ pc["scored"] = "publish"
  /\ Tell(job.rule, job.next, {Listing})
  /\ IF job.next = Len(Channels[job.rule])
     THEN job' = [job EXCEPT !.next = 1] /\ Goto("scored", "mark")
     ELSE job' = [job EXCEPT !.next = @ + 1] /\ UNCHANGED pc
  /\ NoFault
  /\ ScoredUnchanged /\ UNCHANGED <<redis, history, added, dropped, cleared>>

\* Kafka returns an error; the notification may be on the topic all the same.
PublishError ==
  /\ pc["scored"] = "publish"
  /\ Outage("scored")
  /\ UNCHANGED told \/ Tell(job.rule, job.next, {Listing})
  /\ Fail("scored")
  /\ UNCHANGED <<topic, job, users, redis, tables, rules, compile, added, dropped, cleared>>

Add(r) ==
  /\ buffer' = buffer \cup {<<r, Listing>>}
  /\ added' = added \cup {<<r, Listing>>}
  /\ dropped' = dropped \ {<<r, Listing>>}

\* RouteDigest: ZADD, then EXPIRE.
RouteDigest(r) ==
  /\ pc["scored"] = "route"
  /\ r \in job.matches \cap Digest
  /\ Add(r)
  /\ overdue' = overdue \ {r}
  /\ job' = [job EXCEPT !.matches = @ \ {r}, !.rule = r]
  /\ Goto("scored", "mark")
  /\ NoFault
  /\ ScoredUnchanged /\ UNCHANGED <<sent, history, told, cleared>>

RouteDigestError(r) ==
  /\ pc["scored"] = "route"
  /\ r \in job.matches \cap Digest
  /\ Outage("scored")
  /\ UNCHANGED <<buffer, added, dropped>> \/ Add(r)
  /\ Fail("scored")
  /\ UNCHANGED <<topic, job, users, sent, overdue, tables, rules, compile, told, cleared>>

AfterMark == Goto("scored", IF job.rule \in Digest THEN "route" ELSE "record")

MarkSent ==
  /\ pc["scored"] = "mark"
  /\ sent' = sent \cup {<<Owner[job.rule], Listing>>}
  /\ AfterMark
  /\ NoFault
  /\ ScoredUnchanged /\ UNCHANGED <<job, buffer, overdue, history, ghosts>>

\* Logged and ignored; the pair may be marked.
MarkError ==
  /\ pc["scored"] = "mark"
  /\ Fault
  /\ sent' \in {sent, sent \cup {<<Owner[job.rule], Listing>>}}
  /\ AfterMark
  /\ ScoredUnchanged /\ UNCHANGED <<job, buffer, overdue, history, ghosts>>

\* InsertHistory for every channel of an instant rule.
Record ==
  /\ pc["scored"] = "record"
  /\ history' = history \cup {<<job.rule, Listing>>}
  /\ Goto("scored", "route")
  /\ NoFault
  /\ ScoredUnchanged /\ UNCHANGED <<job, redis, ghosts>>

\* Logged and ignored.
RecordError ==
  /\ pc["scored"] = "record"
  /\ Fault
  /\ Goto("scored", "route")
  /\ ScoredUnchanged /\ UNCHANGED <<job, redis, history, ghosts>>

Handle ==
  \/ \E r \in Rules : Evaluate(r) \/ RouteInstant(r) \/ RouteDigest(r)
  \/ Matched \/ PublishInstant \/ MarkSent \/ Record \/ AllRouted

HandleError ==
  \/ \E r \in Rules : EvaluateOpen(r) \/ RouteDigestError(r)
  \/ MatchError \/ PublishError \/ MarkError \/ RecordError

-----------------------------------------------------------------------------
(* HandlePriceChange                                                        *)

PriceUnchanged == UNCHANGED <<topic, event, tries, job, buffer, overdue, tables, rules, compile>>

\* The users of the replica's alert_history rows for the listing.
ListUsers ==
  /\ pc["price"] = "list"
  /\ users' = {Owner[p[1]] : p \in {q \in replica : q[2] = ListingOf[event["price"]]}}
  /\ Goto("price", "clear")
  /\ NoFault
  /\ PriceUnchanged /\ UNCHANGED <<sent, ghosts>>

ListUsersError ==
  /\ pc["price"] = "list"
  /\ Outage("price")
  /\ Fail("price")
  /\ UNCHANGED <<topic, job, users, redis, tables, rules, compile, ghosts>>

ClearSent(u) ==
  LET p == <<u, ListingOf[event["price"]]>>
  IN  /\ pc["price"] = "clear"
      /\ u \in users
      /\ users' = users \ {u}
      /\ \/ sent' = sent \ {p} /\ cleared' = [cleared EXCEPT ![p] = @ + 1] /\ NoFault
         \/ Fault /\ UNCHANGED <<sent, cleared>>       \* logged and ignored
      /\ PriceUnchanged /\ UNCHANGED <<pc, told, added, dropped>>

AllCleared ==
  /\ pc["price"] = "clear"
  /\ users = {}
  /\ Goto("price", "commit")
  /\ NoFault
  /\ PriceUnchanged /\ UNCHANGED <<users, sent, ghosts>>

Price == ListUsers \/ AllCleared \/ \E u \in Users : ClearSent(u)

-----------------------------------------------------------------------------
(* Compiler                                                                 *)

CompilerUnchanged ==
  UNCHANGED <<topic, reader, job, users, sent, replica, rules, cleared>>

KeysOf(pairs) == {p[1] : p \in pairs}
ItemsOf(r) == {l \in Listings : <<r, l>> \in buffer}

\* ZREVRANGE 0 limit-1: the listings with the highest scores, whichever they are.
Best(items) ==
  IF Cardinality(items) <= DigestLimit THEN {items}
  ELSE {s \in SUBSET items : Cardinality(s) = DigestLimit}

\* The ticker fires: SCAN finds the keys.  The interval is also the keys' TTL: a
\* key that was not touched since the last tick may go before it is compiled.
Tick ==
  /\ cpc = "idle"
  /\ buffer # {}
  /\ cpc' = "compile"
  /\ digest' = [NoDigest EXCEPT !.keys = KeysOf(buffer)]
  /\ overdue' = KeysOf(buffer)
  /\ NoFault
  /\ CompilerUnchanged /\ UNCHANGED <<buffer, history, told, added, dropped>>

ExpireKey(r) ==
  /\ r \in overdue
  /\ dropped' = dropped \cup {p \in buffer : p[1] = r}
  /\ buffer' = {p \in buffer : p[1] # r}
  /\ overdue' = overdue \ {r}
  /\ NoFault
  /\ CompilerUnchanged /\ UNCHANGED <<compile, history, told, added>>

\* Mutated form: the key of a rule that is gone is left alone.
FlushKeepsOrphan(r) ==
  /\ cpc = "compile"
  /\ r \in digest.keys
  /\ buffer' = IF r \in cached THEN {p \in buffer : p[1] # r} ELSE buffer
  /\ overdue' = overdue \ {r}
  /\ IF r \in cached /\ ItemsOf(r) # {}
     THEN /\ digest' = [keys |-> digest.keys \ {r}, rule |-> r, items |-> ItemsOf(r), next |-> 1]
          /\ cpc' = "publish"
     ELSE /\ digest' = [digest EXCEPT !.keys = @ \ {r}]
          /\ cpc' = "compile"
  /\ NoFault
  /\ CompilerUnchanged /\ UNCHANGED <<history, told, added, dropped>>

\* compileKey up to the first notification: Flush returns the best DigestLimit
\* listings and deletes the key in one transaction.
Flush(r) ==
  /\ cpc = "compile"
  /\ r \in digest.keys
  /\ buffer' = {p \in buffer : p[1] # r}
  /\ overdue' = overdue \ {r}
  /\ \E items \in Best(ItemsOf(r)) :
          IF r \in cached /\ items # {} /\ Channels[r] # <<>>
          THEN /\ digest' = [keys |-> digest.keys \ {r}, rule |-> r, items |-> items, next |-> 1]
               /\ cpc' = "publish"
               /\ dropped' = dropped \cup {<<r, l>> : l \in ItemsOf(r) \ items}
          ELSE /\ digest' = [digest EXCEPT !.keys = @ \ {r}]
               /\ cpc' = "compile"
               /\ dropped' = dropped \cup {<<r, l>> : l \in ItemsOf(r)}
  /\ NoFault
  /\ CompilerUnchanged /\ UNCHANGED <<history, told, added>>

\* Mutated form: the key is deleted when the digest is out, with what was added since.
PublishThenDelete ==
  /\ cpc = "publish"
  /\ Tell(digest.rule, digest.next, digest.items)
  /\ buffer' = {p \in buffer : p[1] # digest.rule}
  /\ cpc' = "record"
  /\ NoFault
  /\ CompilerUnchanged /\ UNCHANGED <<digest, overdue, history, added, dropped>>

\* The notification of one channel is published to alerts-notifications.
PublishDigest ==
  /\ cpc = "publish"
  /\ Tell(digest.rule, digest.next, digest.items)
  /\ cpc' = "record"
  /\ NoFault
  /\ CompilerUnchanged /\ UNCHANGED <<digest, buffer, overdue, history, added, dropped>>

\* InsertHistory for every listing of the digest, then the next channel.
RecordDigest ==
  /\ cpc = "record"
  /\ \/ history' = history \cup {<<digest.rule, l>> : l \in digest.items} /\ NoFault
     \/ Fault /\ UNCHANGED history                     \* logged and ignored
  /\ IF digest.next = Len(Channels[digest.rule])
     THEN digest' = [NoDigest EXCEPT !.keys = digest.keys] /\ cpc' = "compile"
     ELSE digest' = [digest EXCEPT !.next = @ + 1] /\ cpc' = "publish"
  /\ CompilerUnchanged /\ UNCHANGED <<buffer, overdue, told, added, dropped>>

\* Compile returns at the first error: of Redis (the key may be deleted), of the
\* summaries' query, or of Kafka (the notification may be out).  What was flushed
\* is gone, and the keys that are left wait for the next tick.
CompileError ==
  /\ cpc \in {"compile", "publish"}
  /\ Fault
  /\ \/ UNCHANGED <<buffer, overdue, told>>
     \/ /\ cpc = "compile"
        /\ \E r \in digest.keys :
             buffer' = {p \in buffer : p[1] # r} /\ overdue' = overdue \ {r}
        /\ UNCHANGED told
     \/ /\ cpc = "publish"
        /\ Tell(digest.rule, digest.next, digest.items)
        /\ UNCHANGED <<buffer, overdue>>
  /\ cpc' = "idle"
  /\ digest' = NoDigest
  /\ CompilerUnchanged /\ UNCHANGED <<history, added, dropped>>

Compiled ==
  /\ cpc = "compile"
  /\ digest.keys = {}
  /\ cpc' = "idle"
  /\ NoFault
  /\ CompilerUnchanged /\ UNCHANGED <<digest, buffer, overdue, history, told, added, dropped>>

Compile == Compiled \/ PublishDigest \/ RecordDigest \/ \E r \in Digest : Flush(r)

-----------------------------------------------------------------------------
(* Rules, replication, restarts                                             *)

WorldUnchanged == UNCHANGED <<reader, job, users, compile, ghosts>>

\* The user deactivates a rule through the api-gateway.
Deactivate(r) ==
  /\ r \in active
  /\ Disturbable
  /\ active' = active \ {r}
  /\ NoFault
  /\ WorldUnchanged /\ UNCHANGED <<topic, redis, tables, cached>>

\* RuleCache.Load
Refresh ==
  /\ cached # active
  /\ cached' = active
  /\ NoFault
  /\ WorldUnchanged /\ UNCHANGED <<topic, redis, tables, active>>

\* Seven days without a mark: the set of the user reaches its TTL.  Counted as a
\* fault, which keeps it to a few times.
ExpireSent(u) ==
  /\ \E l \in Listings : <<u, l>> \in sent
  /\ Fault
  /\ sent' = {p \in sent : p[1] # u}
  /\ WorldUnchanged /\ UNCHANGED <<topic, buffer, overdue, tables, rules>>

Replicate ==
  /\ replica # history
  /\ replica' = history
  /\ NoFault
  /\ WorldUnchanged /\ UNCHANGED <<topic, redis, history, rules>>

\* How many events of a topic are acknowledged: they are always the first ones.
Position(t) == Cardinality(acked \cap Topic(t))

\* On SIGTERM the context of the handlers is cancelled, and with it the loop of
\* Match ends early without an error: at once when no rule matched so far, or in
\* the retry that follows a failed call.  Such events, and those that FetchMessage
\* still hands out, look processed, and CommitMessages may still take them.
Swallowing ==
  \/ pc["scored"] = "idle"
  \/ pc["scored"] = "match" /\ job.todo # {} /\ job.matches = {}
  \/ pc["scored"] \notin {"idle", "commit"} /\ tries["scored"] < MaxRetries

\* Where a topic goes on: before the offset that died in the commit loop's stash,
\* or after events that the shutdown swallowed (ClearSent's errors are ignored).
ResumesAt(t, n) ==
  \/ n <= Position(t)
  \/ t = "scored" /\ Swallowing
  \/ t = "price" /\ pc["price"] = "clear" /\ n = Position(t) + 1

\* The pod dies and starts again: the cache is loaded and the ticker starts anew,
\* with its first tick no earlier than the TTL of every key that is there.
Restart ==
  /\ Fault
  /\ \E s \in 0..Len(Log["scored"]), p \in 0..Len(Log["price"]) :
       /\ ResumesAt("scored", s)
       /\ ResumesAt("price", p)
       /\ acked' = {Log["scored"][i] : i \in 1..s} \cup {Log["price"][i] : i \in 1..p}
  /\ cut' = acked' \cap (cut \cup (Scored \ acked))
  /\ pc' = [t \in Readers |-> "idle"]
  /\ event' = [t \in Readers |-> None]
  /\ tries' = [t \in Readers |-> 0]
  /\ job' = NoJob /\ users' = {}
  /\ cpc' = "idle" /\ digest' = NoDigest
  /\ overdue' = KeysOf(buffer)
  /\ cached' = active
  /\ UNCHANGED <<dead, sent, buffer, tables, active, ghosts>>

-----------------------------------------------------------------------------
Next ==
  \/ \E t \in Readers : Retry(t) \/ Commit(t) \/ \E e \in Events : Receive(t, e)
  \/ Handle \/ HandleError
  \/ Price \/ ListUsersError
  \/ Tick \/ Compile \/ CompileError \/ \E r \in Digest : ExpireKey(r)
  \/ (\E r \in Rules : Deactivate(r)) \/ (\E u \in Users : ExpireSent(u))
  \/ Refresh \/ Replicate \/ Restart

Spec == Init /\ [][Next]_vars

\* The readers are given what is not acknowledged and run their handlers to the
\* end; the ticker ticks and the compiler goes on.
Fairness ==
  /\ \A t \in Readers : WF_vars(Retry(t) \/ Commit(t) \/ \E e \in Events : Receive(t, e))
  /\ WF_vars(Handle) /\ WF_vars(Price)
  /\ WF_vars(Tick) /\ WF_vars(Compile)

FairSpec == Spec /\ Fairness

-----------------------------------------------------------------------------
(* Properties                                                               *)

\* A rule notifies a channel of a listing once: every repetition was paid for by a
\* price drop's ClearSent of that user and listing, or by a fault (at-least-once
\* redelivery, a lost answer, a mark that was not written or has expired).
RepeatNeedsCause ==
  \A r \in Rules, c \in ChannelNames, l \in Listings :
    told[<<r, c, l>>] <= 1 + cleared[<<Owner[r], l>>] + faults

\* When a scored listing is acknowledged and neither dead-lettered nor cut short,
\* every user who wants it was told or has it in a digest: neither the dedup marks
\* of an earlier failed attempt nor those of the user's other rules lose an alert.
Reached(u, l) ==
  \E r \in Rules : /\ Owner[r] = u
                   /\ <<r, l>> \in added \/ \E c \in ChannelNames : told[<<r, c, l>>] > 0
AckedUsersTold ==
  \A e \in (acked \cap Scored) \ (dead \cup cut) : \A r \in active :
    <<r, ListingOf[e]>> \in Wants /\ Channels[r] # <<>> => Reached(Owner[r], ListingOf[e])

Held(r, l) ==
  \/ <<r, l>> \in buffer \cup dropped
  \/ digest.rule = r /\ l \in digest.items
  \/ \E c \in ChannelNames : told[<<r, c, l>>] > 0

\* A listing that was added to a digest is in the buffer, in the digest that is
\* being published, was told, or was dropped by the TTL, the limit or a rule that
\* is gone.  Only errors and crashes between the flush and the publishing lose one:
\* what is added while its digest is being compiled waits for the next one.
DigestLossNeedsFault == faults > 0 \/ \A p \in added : Held(p[1], p[2])

\* Every event is acknowledged and every buffered digest compiled in the end, those
\* of deactivated rules included.
EventuallyDrained == <>[](acked = Events /\ buffer = {})

=============================================================================
