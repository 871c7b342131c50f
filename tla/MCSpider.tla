------------------------------ MODULE MCSpider ------------------------------
(* Two homes, each of its own zone; the portal with the pages, the fields and *)
(* the identifiers of each spider in turn; sweeps and detections of two pods. *)
EXTENDS Spider

CONSTANTS p1, p2, h1, h2, north, south

Home(zone, n) == [zone |-> zone, code |-> <<"code", n>>, mls |-> <<"mls", n>>,
                  number |-> <<"code", n>>, url |-> <<"code", n>>]

\* The last segment of h2's URL is no number.
MCInfo == [h \in Homes |->
             IF h = h1 THEN Home(north, 1)
             ELSE [Home(north, 2) EXCEPT !.number = Absent, !.url = <<"slug", 2>>]]

Command(valid, mode, zones) == [valid |-> valid, mode |-> mode, zones |-> zones]

MCCommands == {Command(TRUE, "full", <<south, north>>),
               Command(TRUE, "detect_new", <<north, south>>),
               Command(FALSE, "full", <<north>>)}

\* FrBienIci, GbRightmove and NlFunda are left out, which go the ways of UsRedfin, and
\* FrLeBonCoin and UsZillow, which go those of UsRedfin and, at a home's page, of
\* FrSeLoger.  The portals whose pages are read in part have both homes on one page.
MCPortals == {EsIdealista, EsIdealistaHtml, EsFotocasa, ItIdealista, ItImmobiliare,
              UsRealtor, UsRedfin, Fixture} \cup
             {[s EXCEPT !.size = 2] : s \in {FrSeLoger, ItIdealistaHtml}}

Symmetric == Permutations(Pods)
=============================================================================
