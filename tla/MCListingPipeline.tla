------------------------- MODULE MCListingPipeline -------------------------
(* Four listings of one street; a matches b, b matches c and c matches d.  The  *)
(* enricher meets listings of three countries, with a register each.           *)
EXTENDS ListingPipeline

CONSTANTS a, b, c, d, e, f, p1, p2

Home(address, country) ==
  [place |-> "street", address |-> address, area |-> 100, bedrooms |-> 2,
   type |-> "residential", country |-> country, located |-> TRUE, addressed |-> TRUE,
   year |-> FALSE, bag |-> FALSE]

MCFeatures == (a :> Home({"x"}, "ES")) @@ (b :> Home({"x", "y"}, "ES")) @@ (c :> Home({"y", "z"}, "ES"))
                @@ (d :> Home({"z"}, "ES")) @@ (e :> Home({"x"}, "NL")) @@ (f :> Home({"x"}, "FR"))

Meets(who, listings, prices, requests, disturbances) ==
  [worker |-> who, listings |-> listings, prices |-> prices, requests |-> requests,
   disturbances |-> disturbances]

MCScope ==
  {Meets("dedup", {a, b, c, d}, {1}, 4, 0), Meets("dedup", {a, b, c}, {1}, 3, 1),
   Meets("enrich", {a, e, f}, {1}, 2, 2), Meets("enrich", {a, e}, {1}, 3, 1),
   Meets("score", {a, b}, {1, 2}, 3, 1), Meets("score", {a}, {1, 2}, 3, 2),
   Meets("detect", {a, b}, {1, 2}, 2, 1)}

Parcel(ref, distance, area, year) ==
  [ref |-> ref, distance |-> distance, area |-> area, year |-> year, geometry |-> Missing]

MCAnswers ==
  [ES |-> {Refused, <<>>, <<Parcel(Missing, 1, 90, 1950), Parcel("r2", 9, 80, 1960), Parcel("r1", 3, 90, 1950)>>},
   NL |-> {Refused, <<[ref |-> "b1", year |-> 1970, area |-> Missing, geometry |-> Missing]>>},
   FR |-> {<<[type |-> "terrain", price |-> 9, surface |-> 0]>>}]

Tags(railway, leisure) ==
  [amenity |-> Missing, railway |-> railway, aeroway |-> Missing, leisure |-> leisure, natural |-> Missing]

MCPois == LoadPois("FR", {[tags |-> Tags("station", Missing), valid |-> TRUE, distance |-> 4],
                          [tags |-> Tags(Missing, "park"), valid |-> FALSE, distance |-> 2],
                          [tags |-> Tags(Missing, Missing), valid |-> TRUE, distance |-> 3]})

MCReplies == {Refused}
Symmetric == Permutations(Pods)

=============================================================================
