----------------------------- MODULE Enrichment -----------------------------
(***************************************************************************)
(* The pure part of the enricher: the plugins of enricher/catastro.py,     *)
(* nl_bag.py, fr_dvf.py, it_omi.py and gb_land_registry.py, poi.py with    *)
(* poi_loader.py, and _resolve_overall_status of service.py.               *)
(*                                                                         *)
(* A plugin gets a listing and what its register answered, and returns a   *)
(* status with the columns it sets.  Values of columns are left out, but   *)
(* for those that decide which columns are set.                            *)
(***************************************************************************)
EXTENDS Integers, Sequences, SequencesExt, FiniteSets

CONSTANTS
  Missing,  \* a value the register does not have
  Refused   \* the register cannot be reached, or its answer cannot be read

Result(status, columns) == [status |-> status, columns |-> columns]
NoMatch   == Result("no_match", {})
Failed_   == Result("failed", {})
Given(column, value) == IF value = Missing THEN {} ELSE {column}

\* catastro.py: the parcels around the listing that have a reference, nearest
\* first; a year is taken only when the portal gave none.
ExtractFeatureRecords(parcels) ==
  SortSeq(SelectSeq(parcels, LAMBDA parcel : parcel.ref # Missing),
          LAMBDA a, b : a.distance < b.distance)

CatastroColumns(parcel, listing) ==
  {"cadastral_ref"}
    \cup Given("official_built_area_m2", parcel.area)
    \cup Given("building_geometry_wkt", parcel.geometry)
    \cup (IF listing.year THEN {} ELSE Given("year_built", parcel.year))
    \cup (IF parcel.area # Missing /\ parcel.area > 0 THEN {"area_discrepancy_flag"} ELSE {})

Catastro(listing, answer) ==
  IF ~listing.located THEN NoMatch
  ELSE IF answer = Refused THEN Failed_
  ELSE IF ExtractFeatureRecords(answer) = <<>> THEN NoMatch
  ELSE Result("completed", CatastroColumns(Head(ExtractFeatureRecords(answer)), listing))

\* nl_bag.py: the building by its id, or by postal code and street; its year
\* replaces the portal's.
BagColumns(building, listing) ==
  (IF listing.bag THEN {"bag_id"} ELSE Given("bag_id", building.ref))
    \cup Given("year_built", building.year)
    \cup Given("official_area_m2", building.area)
    \cup Given("building_geometry_wkt", building.geometry)

Bag(listing, answer) ==
  IF ~listing.bag /\ ~listing.addressed THEN NoMatch
  ELSE IF answer = Refused THEN Failed_
  ELSE IF answer = <<>> THEN NoMatch
  ELSE Result("completed", BagColumns(Head(answer), listing))

\* fr_dvf.py: the latest transactions nearby of the listing's type, at most five.
DvfTypes == [residential |-> {"appartement", "maison"},
             commercial  |-> {"local", "bureau", "dependance"},
             industrial  |-> {"dependance", "atelier"},
             land        |-> {"terrain"}]

FilterRowsByPropertyType(sales, type) ==
  LET kept == IF type \in DOMAIN DvfTypes
              THEN SelectSeq(sales, LAMBDA sale : sale.type \in DvfTypes[type])
              ELSE sales
  IN  SubSeq(kept, 1, IF Len(kept) > 5 THEN 5 ELSE Len(kept))

HasMedianPrice(sales) ==
  \E i \in DOMAIN sales : sales[i].price # Missing /\ sales[i].surface \notin {Missing, 0}

Dvf(listing, answer) ==
  LET sales == FilterRowsByPropertyType(answer, listing.type)
  IN  IF ~listing.located THEN NoMatch
      ELSE IF answer = Refused THEN Failed_
      ELSE IF sales = <<>> THEN Result("no_match", {"dvf_nearby_count"})
      ELSE IF HasMedianPrice(sales) THEN Result("completed", {"dvf_nearby_count", "dvf_median_price_m2"})
      ELSE Result("completed", {"dvf_nearby_count"})

\* it_omi.py: the price band of the zone around the listing.
Omi(listing, answer) ==
  LET columns  == {"omi_zone_code", "omi_price_min_eur_m2", "omi_price_max_eur_m2", "omi_period"}
      zone     == Head(answer)
      compared == zone.min # Missing /\ zone.max # Missing /\ listing.area > 0 /\ zone.min + zone.max > 0
  IN  IF ~listing.located THEN NoMatch
      ELSE IF answer = Refused THEN Failed_
      ELSE IF answer = <<>> THEN NoMatch
      ELSE Result("completed", columns \cup (IF compared THEN {"price_vs_omi"} ELSE {}))

\* gb_land_registry.py: the sales of the postal code at the listing's address, up
\* to spelling.
LandRegistry(listing, answer) ==
  LET matches == SelectSeq(answer, LAMBDA sale : sale.address \in listing.address)
  IN  IF ~listing.addressed THEN NoMatch
      ELSE IF answer = Refused THEN Failed_
      ELSE IF matches = <<>> THEN Result("no_match", {"uk_lr_match_count"})
      ELSE Result("completed", {"uk_lr_match_count", "uk_lr_last_price_gbp", "uk_lr_last_date"})

\* The registry of base.py: one plugin per country, none for the others.
Plugins == {"ES", "NL", "FR", "IT", "GB"}

Enriched(listing, answer) ==
  CASE listing.country = "ES" -> {Catastro(listing, answer)}
    [] listing.country = "NL" -> {Bag(listing, answer)}
    [] listing.country = "FR" -> {Dvf(listing, answer)}
    [] listing.country = "IT" -> {Omi(listing, answer)}
    [] listing.country = "GB" -> {LandRegistry(listing, answer)}
    [] OTHER                  -> {}

-----------------------------------------------------------------------------
(* Points of interest                                                       *)

\* poi_loader.py: the category of an OSM node, by the first tag that has one.
ClassifyTags(tags) ==
  IF tags.amenity = "subway_entrance" \/ tags.railway = "subway_station" THEN "metro"
  ELSE IF tags.railway = "station" THEN "train"
  ELSE IF tags.aeroway = "aerodrome" THEN "airport"
  ELSE IF tags.leisure = "park" THEN "park"
  ELSE IF tags.natural = "beach" THEN "beach"
  ELSE Missing

\* The loader inserts the nodes that have a category and a valid location.
LoadPois(country, nodes) ==
  {[country |-> country, category |-> ClassifyTags(node.tags), distance |-> node.distance] :
     node \in {n \in nodes : ClassifyTags(n.tags) # Missing /\ n.valid}}

\* Overpass: the nearest of the elements with a position, none when the call fails.
\* The answer is kept for five minutes, a failed one too.
OverpassFallback(reply) ==
  LET distances == IF reply = Refused THEN {} ELSE {e.distance : e \in {x \in reply : x.positioned}}
  IN  IF distances = {} THEN Missing ELSE Min(distances)

\* calculate: the table first, Overpass for the categories it does not have.
PoiColumn == [metro |-> "dist_metro_m", train |-> "dist_train_m", airport |-> "dist_airport_m",
              park |-> "dist_park_m", beach |-> "dist_beach_m"]

Calculate(listing, pois, replies) ==
  LET known(category) == \E poi \in pois : poi.country = listing.country /\ poi.category = category
  IN  IF ~listing.located THEN {}
      ELSE {PoiColumn[category] :
              category \in {c \in DOMAIN PoiColumn : known(c) \/ OverpassFallback(replies[c]) # Missing}}

-----------------------------------------------------------------------------
(* service.py                                                               *)

ResolveOverallStatus(results, poiColumns) ==
  LET statuses == {r.status : r \in results}
      updated  == poiColumns # {} \/ \E r \in results : r.columns # {}
  IN  IF results = {} THEN IF updated THEN "completed" ELSE "no_match"
      ELSE IF "failed" \in statuses THEN IF updated \/ statuses # {"failed"} THEN "partial" ELSE "failed"
      ELSE IF statuses = {"no_match"} THEN IF poiColumns # {} THEN "partial" ELSE "no_match"
      ELSE IF "no_match" \in statuses THEN "partial"
      ELSE "completed"

=============================================================================
