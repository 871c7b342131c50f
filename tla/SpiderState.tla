----------------------------- MODULE SpiderState -----------------------------
(***************************************************************************)
(* The state of the spider workers (Spider): the portal, what each pod is  *)
(* doing with its command, the sets in Redis, and what must be true of     *)
(* them.                                                                   *)
(***************************************************************************)
EXTENDS PyConsumer, Sequences, FiniteSets

CONSTANTS
  Homes,     \* what the portal may list
  Info,      \* Homes -> [zone, code, mls, number, url]: what its pages say
  Zones,
  Absent,    \* a page does not say it
  PageSize,  \* homes on a search page, of most portals
  Commands,  \* what the orchestrator may publish on scraper-commands
  Portals    \* the spiders to check

\* An empty zone filter stands for the zone "default".
ASSUME PortalAssumption  == \A s \in Portals : s.size \in Nat \ {0}
ASSUME CommandAssumption == \A c \in Commands : c.valid => c.zones \in Seq(Zones) \ {<<>>}

VARIABLES
  orders,      \* the commands
  site,        \* the spider of the commands' portal
  shown,       \* the homes on the portal, in search order
  gone,        \* those which have been taken off it
  task,        \* the command that is being executed by each pod
  seen,        \* Redis: the ids of seen:<portal>:<country>:<zone>
  quarantine,  \* Redis: homes, or zones whose search URL was refused
  told         \* history: how often detect_new published a home for a zone

-----------------------------------------------------------------------------
(* The portal spiders                                                       *)

\* Where a spider takes external_id from: the first of these its page states.
\* "number" is a URL's last segment if it is numeric, "url" its last segment.
\* What it reads: the search pages of the portal's HTML, for the whole search URL,
\* or those of its API, for the zone, and HTML where the API gives nothing.  "cards"
\* are listings themselves; "homes" are links to pages that are read one by one; and
\* "first" is the one listing a search page may state in its JSON-LD.
\* blank: a page without listing data is passed over.  A page that is gone is a 404;
\* the browser's spiders find no listing in it.
Spider_(found, detail, pages) ==
  [found |-> found, detail |-> detail, pages |-> pages, size |-> PageSize, zoned |-> FALSE,
   api |-> FALSE, html |-> "cards", falls |-> FALSE, blank |-> TRUE, browser |-> FALSE,
   filtered |-> TRUE]

ByUrl == <<"number", "url">>

\* With an API token: a refused one (401, 403) is gone for the rest of the command.
EsIdealista     == [Spider_(<<"code">> \o ByUrl, ByUrl, 3) EXCEPT
                      !.zoned = TRUE, !.api = TRUE, !.html = "homes", !.blank = FALSE]
EsIdealistaHtml == [Spider_(ByUrl, ByUrl, 3) EXCEPT !.html = "homes", !.blank = FALSE]
EsFotocasa      == [Spider_(<<"code", "url">>, <<"code", "url">>, 3) EXCEPT !.blank = FALSE]
FrBienIci       == Spider_(ByUrl, ByUrl, 1)
FrLeBonCoin     == [Spider_(ByUrl, ByUrl, 1) EXCEPT !.browser = TRUE]
FrSeLoger       == [Spider_(ByUrl, ByUrl, 1) EXCEPT !.browser = TRUE, !.html = "homes"]
GbRightmove     == Spider_(ByUrl, ByUrl, 1)
\* Both ask the API for every page anew, and take the HTML page of the same number
\* when the API's is empty or refused.
ItIdealista     == [Spider_(ByUrl, ByUrl, 1) EXCEPT
                      !.zoned = TRUE, !.api = TRUE, !.falls = TRUE, !.html = "first"]
ItIdealistaHtml == [Spider_(ByUrl, ByUrl, 1) EXCEPT !.html = "first"]
ItImmobiliare   == [Spider_(ByUrl, ByUrl, 3) EXCEPT !.zoned = TRUE, !.api = TRUE, !.falls = TRUE]
NlFunda         == Spider_(ByUrl, ByUrl, 1)
UsRealtor       == Spider_(ByUrl, <<"mls", "number", "url">>, 1)
UsRedfin        == Spider_(<<"code", "number", "url">>, <<"code", "number", "url">>, 1)
UsZillow        == [UsRedfin EXCEPT !.browser = TRUE]
\* The fixtures are on one page, and ignore Redis: they are new at every detection.
Fixture         == [Spider_(<<"code">>, <<"code">>, 1) EXCEPT
                      !.size = Cardinality(Homes) + 1, !.zoned = TRUE, !.blank = FALSE,
                      !.browser = TRUE, !.filtered = FALSE]

ExternalId(fields, h) ==
  Info[h][fields[CHOOSE i \in DOMAIN fields :
                   /\ Info[h][fields[i]] # Absent
                   /\ \A j \in 1..i - 1 : Info[h][fields[j]] = Absent]]

FoundId(h)  == ExternalId(site.found, h)
DetailId(h) == ExternalId(site.detail, h)

\* What the portal shows for a zone, in search order: a spider that drops the zone
\* asks for its whole search URL.
Listed        == {shown[i] : i \in DOMAIN shown}
Results(zone) == {h \in Listed : site.zoned => Info[h].zone = zone}
Ahead(g, h)   == \E i, j \in DOMAIN shown : i < j /\ shown[i] = g /\ shown[j] = h
Rank(zone, h) == Cardinality({g \in Results(zone) : Ahead(g, h)})

\* The homes of a search page; those after the last one are empty.
Page(zone, page) ==
  {h \in Results(zone) : /\ (page - 1) * site.size <= Rank(zone, h)
                         /\ Rank(zone, h) < page * site.size}

\* The page of the whole search in HTML, which an API's spider falls back on.
HtmlPage(page) ==
  {h \in Listed : \E n \in (page - 1) * site.size..page * site.size - 1 :
                   Cardinality({g \in Listed : Ahead(g, h)}) = n}

\* Where a pod is in its command, and the zone it is at.
Running(p, stage) == pc[p] = "wait" /\ task[p].stage = stage
Zone(p)           == Head(task[p].zones)

\* A page is taken from HTML instead of the API: it was refused, or it is empty and
\* the spider falls back.
Fallen(p) == site.api /\ (task[p].html \/ (site.falls /\ Page(Zone(p), task[p].page) = {}))
OnPage(p) == IF Fallen(p) THEN HtmlPage(task[p].page) ELSE Page(Zone(p), task[p].page)
Mode(p)   == IF site.api /\ ~Fallen(p) THEN "cards" ELSE site.html

\* The spiders that have only links, or only one listing, of a search page.
Skips == ~site.api /\ site.html # "cards"

-----------------------------------------------------------------------------
(* Properties                                                               *)

\* A sweep that meets the empty page of a zone has published every home that was
\* on the zone's pages all along, however homes came in between its pages.  Excused
\* are a sweep whose pages moved up (a home vanished, or the API refused a page), and,
\* of a spider that takes one home of each page or reads the homes' own pages, the
\* homes it passed over.  Such a spider may also end a zone before its empty page,
\* when a page gave it no listing, or a home's page was gone: nothing is said of that.
SweepComplete ==
  \A p \in Pods :
    (Running(p, "page") /\ Page(Zone(p), task[p].page) = {}) =>
      \/ task[p].moved
      \/ task[p].steady \subseteq task[p].sent
      \/ Skips /\ task[p].steady \subseteq task[p].sent \cup task[p].skipped

\* For a zone, detect_new publishes a home at least once before its id is seen, and
\* once more only after a failure, or on a portal whose detail page has another id
\* than the search page (or, in test mode, from the fixtures).  A portal that ignores
\* zones shows a home to each of them: it is then published once per zone.
DetectPublishesOnce ==
  \A z \in Zones :
    /\ \A id \in seen[z] : \E h \in Homes : DetailId(h) = id /\ told[z][h] > 0
    /\ \A h \in Homes :
         told[z][h] > 1 => faults > 0 \/ FoundId(h) # DetailId(h) \/ ~site.filtered

============================================================================
