-------------------------------- MODULE Spider --------------------------------
(***************************************************************************)
(* The spider workers: estategap_spiders/consumer.py and the portal        *)
(* spiders over the runtime of PyConsumer.  A command sweeps the search    *)
(* pages of a portal zone by zone ("full" and every other mode), or        *)
(* detects what is new there (mode "detect_new"): the search pages of a    *)
(* zone, minus what the Redis set of the zone has, are scraped one by one, *)
(* published on raw-listings and then marked as seen.                      *)
(*                                                                         *)
(* The portal is alive meanwhile: homes appear anywhere in its search      *)
(* order and vanish from it between two pages.  What a page says of a home *)
(* is abstracted to the identifiers from which external_id is taken.       *)
(***************************************************************************)
EXTENDS SpiderState, SequencesExt

portal == <<orders, site, shown, gone>>
redis  == <<seen, quarantine>>
vars   == <<broker, portal, task, redis, told>>

-----------------------------------------------------------------------------
Stages == {"none", "page", "read", "publish", "detect", "filter", "detail", "tell", "mark"}

\* todo is what is left of a page or of the urls, in whatever order they are taken,
\* kept what was read of a page, home the one in hand, and html says that the API
\* refused.  The rest is history: the homes on the zone's pages since its sweep
\* began, those the sweep published and passed over, and whether its pages moved.
NoTask == [stage |-> "none", zones |-> <<>>, page |-> 1, html |-> FALSE, todo |-> {}, kept |-> {},
           home |-> Absent, steady |-> {}, sent |-> {}, skipped |-> {}, moved |-> FALSE]

Tasks == [stage : Stages, zones : Seq(Zones), page : Nat \ {0}, html : BOOLEAN, todo : SUBSET Homes,
          kept : SUBSET Homes, home : Homes \cup {Absent}, steady : SUBSET Homes,
          sent : SUBSET Homes, skipped : SUBSET Homes, moved : BOOLEAN]

TypeOK ==
  /\ BrokerTypeOK
  /\ orders \in Seq(Commands) /\ Len(orders) = logEnd
  /\ site \in Portals
  /\ shown \in Seq(Homes \ gone) /\ gone \subseteq Homes
  /\ \A i, j \in DOMAIN shown : shown[i] = shown[j] => i = j
  /\ task \in [Pods -> Tasks]
  /\ \A p \in Pods : /\ (task[p].stage = "none") <=> (pc[p] # "wait")
                     /\ pc[p] = "wait" => task[p].zones # <<>>
                     /\ task[p].stage \in {"tell", "mark"} => task[p].home \in Homes
  /\ seen \in [Zones -> SUBSET {DetailId(h) : h \in Homes}]
  /\ quarantine \subseteq Homes \cup Zones
  /\ told \in [Zones -> [Homes -> Nat]]

Init ==
  /\ BrokerInit
  /\ orders = <<>>
  /\ site \in Portals
  /\ shown = <<>>
  /\ gone = {}
  /\ task = [p \in Pods |-> NoTask]
  /\ seen = [z \in Zones |-> {}]
  /\ quarantine = {}
  /\ told = [z \in Zones |-> [h \in Homes |-> 0]]

Still == UNCHANGED broker

-----------------------------------------------------------------------------
(* The environment: the orchestrator, the portal, Kafka and the pods        *)

Order(c) ==
  /\ Produce
  /\ orders' = Append(orders, c)
  /\ UNCHANGED <<site, shown, gone, task, redis, told>>

\* An advertisement appears at any place of the search order.
Appear(h) ==
  /\ h \notin Listed \cup gone
  /\ \E i \in 1..Len(shown) + 1 : shown' = InsertAt(shown, i, h)
  /\ Still /\ UNCHANGED <<orders, site, gone, task, redis, told>>

Vanish(h) ==
  /\ \E i \in DOMAIN shown : shown[i] = h /\ shown' = RemoveAt(shown, i)
  /\ gone' = gone \cup {h}
  /\ task' = [p \in Pods |-> IF task[p].stage \in {"page", "read", "publish"}
                           THEN [task[p] EXCEPT !.steady = @ \ {h}, !.moved = TRUE]
                           ELSE task[p]]
  /\ Still /\ UNCHANGED <<orders, site, redis, told>>

Runtime(p) ==
  /\ Assign(p) \/ Rebalance(p) \/ StartPod(p) \/ LoopStep(p)
  /\ UNCHANGED <<portal, task, redis, told>>

Die(p) ==
  /\ Escape(p) \/ Crash(p)
  /\ task' = [task EXCEPT ![p] = NoTask]
  /\ UNCHANGED <<portal, redis, told>>

-----------------------------------------------------------------------------
(* process_message                                                          *)

\* What the handler leaves to the broker's loop, and what a command's step keeps.
LoopVars == <<log_, group, reader, dead>>

Become(p, j) == task' = [task EXCEPT ![p] = j]

\* The first search page of the next zone; without one the handler returns.  A token
\* which the API refused is not tried again, and such a sweep promises nothing.
OpenZone(zones, stage, html) ==
  [NoTask EXCEPT !.stage = stage, !.zones = zones, !.html = html, !.moved = html,
                !.steady = IF stage = "page" THEN Results(Head(zones)) ELSE {}]

NoToken(p) == task[p].html /\ ~site.falls

\* Mutated form: the page counter is set up once for all zones.
NextZoneSamePage(p, stage) ==
  LET rest == Tail(task[p].zones)
  IN  IF rest = <<>>
      THEN Returned(p) /\ Become(p, NoTask)
      ELSE /\ Become(p, [OpenZone(rest, stage, NoToken(p)) EXCEPT !.page = task[p].page])
           /\ UNCHANGED <<pc, attempt>>

NextZone(p, stage) ==
  LET rest == Tail(task[p].zones)
  IN  IF rest = <<>>
      THEN Returned(p) /\ Become(p, NoTask)
      ELSE Become(p, OpenZone(rest, stage, NoToken(p))) /\ UNCHANGED <<pc, attempt>>

\* The command is parsed and its spider is made; it raises when it is no command
\* or the portal has no spider.
ProcessMessage(p) ==
  LET c == orders[cur[p]]
  IN  /\ pc[p] = "call"
      /\ IF c.valid
         THEN /\ Goto(p, "wait") /\ UNCHANGED attempt
              /\ LET stage == IF c.mode = "detect_new" THEN "detect" ELSE "page"
                 IN  Become(p, OpenZone(c.zones, stage, FALSE))
         ELSE Raised(p) /\ UNCHANGED task
      /\ UNCHANGED <<LoopVars, faults, portal, redis, told>>

\* Every other exception closes the spider and leaves the handler: the next
\* attempt begins with the first zone.
Fails(p) ==
  /\ pc[p] = "wait"
  /\ Raised(p)
  /\ Become(p, NoTask)
  /\ Fault
  /\ UNCHANGED <<LoopVars, portal, redis, told>>

\* Three attempts of a request failed, or the portal answered 4xx, be it for a
\* search page or for a home's page that belongs to it: the search URL is
\* quarantined and the rest of the zone is given up.
GiveUp(p) ==
  /\ quarantine' = quarantine \cup {Zone(p)}
  /\ NextZone(p, IF task[p].stage = "detect" THEN "detect" ELSE "page")

Refused(p) ==
  /\ pc[p] = "wait" /\ task[p].stage \in {"page", "read", "detect"}
  /\ GiveUp(p)
  /\ Fault
  /\ UNCHANGED <<LoopVars, portal, seen, told>>

\* The API answers 401 or 403, or no JSON: HTML has to do, for the page or, without
\* the token, for the rest of the command.  Its pages are others than the API's.
RefuseApi(p) ==
  /\ pc[p] = "wait" /\ task[p].stage \in {"page", "detect"}
  /\ site.api /\ ~task[p].html
  /\ Become(p, [task[p] EXCEPT !.html = TRUE, !.moved = TRUE])
  /\ Fault
  /\ UNCHANGED <<pc, attempt, LoopVars, portal, redis, told>>

-----------------------------------------------------------------------------
(* _run_full_scrape                                                         *)

\* The listings of a search page, or what is left of them; none end the zone.
OrNextZone(p, homes, j) ==
  IF homes = {}
  THEN NextZone(p, "page")
  ELSE Become(p, j) /\ UNCHANGED <<pc, attempt>>

Publish(j, homes) == [j EXCEPT !.stage = "publish", !.todo = homes, !.kept = {}]

\* The next page may be asked from the API again.
Paged(p) == [task[p] EXCEPT !.html = NoToken(p)]

ScrapeSearchPage(p) ==
  LET homes == OnPage(p)
  IN  /\ Running(p, "page")
      /\ \/ /\ Mode(p) = "cards"
            /\ OrNextZone(p, homes, Publish(Paged(p), homes))
         \/ /\ Mode(p) = "homes"
            /\ OrNextZone(p, homes, [Paged(p) EXCEPT !.stage = "read", !.todo = homes])
         \/ /\ Mode(p) = "first"
            /\ \E one \in {{}} \cup {{h} : h \in homes} :
                 LET j == [Paged(p) EXCEPT !.skipped = @ \cup (homes \ one)]
                 IN  OrNextZone(p, one, Publish(j, one))
      /\ UNCHANGED <<LoopVars, faults, portal, redis, told>>

\* The homes of a search page are read one by one, and published after the last one.
HomeRead(p, j) ==
  IF j.todo = {} THEN OrNextZone(p, j.kept, Publish(j, j.kept)) ELSE OrNextZone(p, j.todo, j)

ReadHome(p) ==
  /\ Running(p, "read")
  /\ \E h \in task[p].todo :
       LET j == [task[p] EXCEPT !.todo = @ \ {h}]
       IN  \/ h \notin gone /\ HomeRead(p, [j EXCEPT !.kept = @ \cup {h}]) /\ UNCHANGED quarantine
           \/ /\ IF h \in gone THEN site.browser ELSE site.blank
              /\ HomeRead(p, [j EXCEPT !.skipped = @ \cup {h}])
              /\ UNCHANGED quarantine
           \/ h \in gone /\ ~site.browser /\ GiveUp(p)
  /\ UNCHANGED <<LoopVars, faults, portal, seen, told>>

\* A listing of the page is published; after the last one comes the next page.
PublishScraped(p) ==
  /\ Running(p, "publish")
  /\ \E h \in task[p].todo :
       LET rest == task[p].todo \ {h}
           j    == [task[p] EXCEPT !.todo = rest, !.sent = @ \cup {h}]
       IN  Become(p, IF rest = {} THEN [j EXCEPT !.stage = "page", !.page = @ + 1] ELSE j)
  /\ Still /\ UNCHANGED <<portal, redis, told>>

-----------------------------------------------------------------------------
(* _run_detect_new                                                          *)

\* detect_new_listings reads its search pages one by one; a page that states one
\* listing at most is no list of urls.
DetectPage(p) ==
  LET found == task[p].todo \cup IF Mode(p) = "first" THEN {} ELSE OnPage(p)
  IN  /\ Running(p, "detect")
      /\ Become(p, IF task[p].page = site.pages
                   THEN [Paged(p) EXCEPT !.todo = found, !.stage = "filter"]
                   ELSE [Paged(p) EXCEPT !.todo = found, !.page = @ + 1])
      /\ Still /\ UNCHANGED <<portal, redis, told>>

\* What remains to be done: the next url, or the next zone.
Remaining(p, urls) ==
  IF urls = {}
  THEN NextZone(p, "detect")
  ELSE /\ Become(p, [task[p] EXCEPT !.todo = urls, !.stage = "detail"])
       /\ UNCHANGED <<pc, attempt>>

\* _filter_new drops the ids which the zone's set has; without the token they are
\* those of the HTML pages, which have the ids of the homes' own pages.
SearchId(p, h) == IF task[p].html THEN DetailId(h) ELSE FoundId(h)

FilterNew(p) ==
  LET new == {h \in task[p].todo : site.filtered => SearchId(p, h) \notin seen[Zone(p)]}
  IN  /\ Running(p, "filter")
      /\ Remaining(p, new)
      /\ UNCHANGED <<LoopVars, faults, portal, redis, told>>

\* Mutated form: the listing is marked once its page is read.
ScrapeDetailMarks(p) ==
  /\ Running(p, "detail")
  /\ \E h \in task[p].todo :
       LET rest == task[p].todo \ {h}
       IN  \/ /\ h \notin gone
              /\ seen' = [seen EXCEPT ![Zone(p)] = @ \cup {DetailId(h)}]
              /\ Become(p, [task[p] EXCEPT !.stage = "tell", !.todo = rest, !.home = h])
              /\ UNCHANGED <<pc, attempt, quarantine>>
           \/ /\ IF h \in gone THEN site.browser ELSE site.blank
              /\ Remaining(p, rest)
              /\ UNCHANGED <<quarantine, seen>>
           \/ /\ h \in gone /\ ~site.browser
              /\ quarantine' = quarantine \cup {h}
              /\ Remaining(p, rest)
              /\ UNCHANGED seen
  /\ UNCHANGED <<LoopVars, faults, portal, told>>

\* The page of a home is read, or it states no listing.  That of a home which is gone
\* is a 404, which quarantines its url, or states none: both go on with the next url.
ScrapeDetail(p) ==
  /\ Running(p, "detail")
  /\ \E h \in task[p].todo :
       LET rest == task[p].todo \ {h}
       IN  \/ /\ h \notin gone
              /\ Become(p, [task[p] EXCEPT !.stage = "tell", !.todo = rest, !.home = h])
              /\ UNCHANGED <<pc, attempt, quarantine>>
           \/ /\ IF h \in gone THEN site.browser ELSE site.blank
              /\ Remaining(p, rest)
              /\ UNCHANGED quarantine
           \/ /\ h \in gone /\ ~site.browser
              /\ quarantine' = quarantine \cup {h}
              /\ Remaining(p, rest)
  /\ UNCHANGED <<LoopVars, faults, portal, seen, told>>

\* The portal refuses the page of a home.
RefuseDetail(p) ==
  /\ Running(p, "detail")
  /\ \E h \in task[p].todo : quarantine' = quarantine \cup {h} /\ Remaining(p, task[p].todo \ {h})
  /\ Fault
  /\ UNCHANGED <<LoopVars, portal, seen, told>>

PublishListing(p) ==
  /\ Running(p, "tell")
  /\ told' = [told EXCEPT ![Zone(p)][task[p].home] = @ + 1]
  /\ Become(p, [task[p] EXCEPT !.stage = "mark"])
  /\ Still /\ UNCHANGED <<portal, redis>>

\* _mark_seen adds the id of the listing, not the id by which it was found.
MarkSeen(p) ==
  /\ Running(p, "mark")
  /\ seen' = [seen EXCEPT ![Zone(p)] = @ \cup {DetailId(task[p].home)}]
  /\ Remaining(p, task[p].todo)
  /\ UNCHANGED <<LoopVars, faults, portal, quarantine, told>>

-----------------------------------------------------------------------------
Work(p) ==
  \/ ProcessMessage(p) \/ ScrapeSearchPage(p) \/ ReadHome(p) \/ PublishScraped(p)
  \/ DetectPage(p) \/ FilterNew(p) \/ ScrapeDetail(p) \/ PublishListing(p) \/ MarkSeen(p)

Next ==
  \/ \E c \in Commands : Order(c)
  \/ \E h \in Homes : Appear(h) \/ Vanish(h)
  \/ \E p \in Pods : Runtime(p) \/ Die(p) \/ Fails(p) \/ Work(p)
                      \/ Refused(p) \/ RefuseApi(p) \/ RefuseDetail(p)

Spec == Init /\ [][Next]_vars

=============================================================================
