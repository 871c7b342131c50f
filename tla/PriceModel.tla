----------------------------- MODULE PriceModel -----------------------------
(***************************************************************************)
(* The pure part of the ml services: features/engineer.py, zone_stats.py,  *)
(* trainer/data_export.py, the promotion rule of trainer/registry.py and   *)
(* the arithmetic of scorer/inference.py and kafka_consumer.py.            *)
(*                                                                         *)
(* What a fitted engineer is to the rest of the system is the set of       *)
(* columns it puts out: two models whose training data filled different    *)
(* columns have feature spaces of different width.                         *)
(***************************************************************************)
EXTENDS Integers, Sequences, FiniteSets, FiniteSetsExt

-----------------------------------------------------------------------------
(* features/engineer.py: a row is the set of columns it has a value in      *)

Aliases == [energy_rating |-> "energy_cert", year_built |-> "building_year",
            images_count |-> "photo_count", published_at |-> "listed_at"]
NormaliseColumns(row) == {IF c \in DOMAIN Aliases THEN Aliases[c] ELSE c : c \in row}

\* Columns that are numbers already, with or without a value.
Copied == {"lat", "lon", "dist_metro_m", "dist_train_m", "dist_beach_m", "built_area_m2",
           "usable_area_m2", "bedrooms", "bathrooms", "floor_number", "total_floors",
           "has_lift", "parking_spaces", "community_fees_eur", "photo_count",
           "omi_zone_min_price_eur_m2", "omi_zone_max_price_eur_m2",
           "hoa_fees_monthly_usd", "lot_size_m2", "tax_assessed_value_usd",
           "school_rating", "zestimate_reference_usd"}

\* Columns that get a value from any row; zone_avg_income gets one from none.
Computed == {"zone_median_price_m2", "zone_median_price_eur_m2", "zone_listing_density",
             "building_age_years", "month_sin", "month_cos", "usable_built_ratio", "has_photos",
             "data_completeness", "has_energy_cert", "property_type_encoded",
             "is_new_construction", "has_elevator", "leasehold_flag", "pieces_count"}

\* Columns that need their sources.
Derived == [price_per_m2_eur       |-> {"asking_price_eur", "built_area_m2"},
            area_m2                |-> {"built_area_m2"},
            dist_to_center_km      |-> {"dist_metro_m"},
            community_fees_monthly |-> {"community_fees_eur"},
            land_registry_last_price_gbp_m2     |-> {"uk_lr_last_price_gbp", "built_area_m2"},
            dvf_median_transaction_price_eur_m2 |-> {"dvf_median_price_m2"}]

\* _encode_series: an encoding without categories gives no value, one with
\* categories gives every row one.
Encoded == [energy_cert |-> "energy_cert_encoded", orientation |-> "orientation_encoded",
            ape_rating |-> "ape_rating", dpe_rating |-> "dpe_rating",
            council_tax_band |-> "council_tax_band_encoded", epc_rating |-> "epc_rating"]

PrepareFrame(rules, raw) ==
  LET row == NormaliseColumns(raw)
  IN  Computed
        \cup (row \cap Copied)
        \cup {c \in DOMAIN Derived : Derived[c] \subseteq row}
        \cup {Encoded[rule] : rule \in rules \cap DOMAIN Encoded}
        \cup (IF row \cap {"dist_metro_m", "dist_train_m"} # {} THEN {"dist_to_transit_km"} ELSE {})

\* fit: the imputer drops a column that no row has a value in.  Energy, condition
\* and the six property types follow in every engineer.
Fit(rules, rows) == UNION {PrepareFrame(rules, row) : row \in rows}

\* transform: whatever the row, the vector has the engineer's width.
Width(columns) == Cardinality(columns) + 8

\* _resolve_zone_stats: the zone, else the city, else the country.
ResolveZoneStats(stats, zone, city) ==
  IF zone \in DOMAIN stats.zones THEN stats.zones[zone]
  ELSE IF city \in DOMAIN stats.cities THEN stats.cities[city]
  ELSE stats.country

-----------------------------------------------------------------------------
(* trainer                                                                  *)

\* export_training_data: sold, delisted or long on the market, with price and area.
Exported(listing) ==
  /\ listing.status \in {"sold", "delisted"} \/ listing.daysOnMarket > 30
  /\ {"asking_price_eur", "built_area_m2"} \subseteq listing.row

\* round() goes to the even neighbour from the middle.
RoundPct(n, pct) ==
  LET whole == (n * pct) \div 100
      rest  == (n * pct) % 100
  IN  IF rest > 50 \/ (rest = 50 /\ whole % 2 = 1) THEN whole + 1 ELSE whole

\* stratified_split of a stratum: at least one row to train on, and one to test on
\* when there are three.
SplitSizes(n) ==
  LET train == IF RoundPct(n, 70) > 1 THEN RoundPct(n, 70) ELSE 1
      upTo  == train + RoundPct(n, 15)
      cut   == IF upTo >= n /\ n >= 3 THEN n - 1 ELSE upTo
  IN  [train |-> train, val |-> cut - train, test |-> n - cut]

\* Strata with fewer rows than the threshold are one stratum.
Strata(counts, rare) ==
  LET few == {s \in DOMAIN counts : counts[s] < rare}
      all == (DOMAIN counts \ few) \cup (IF few = {} THEN {} ELSE {"other"})
  IN  [s \in all |-> IF s \in few \cup {"other"}
                     THEN MapThenSumSet(LAMBDA f : counts[f], few \cup ({"other"} \cap DOMAIN counts))
                     ELSE counts[s]]

\* maybe_promote: the challenger's error, in percent, must be two percent smaller.
ImprovementPct == 2
Improves(mape, champion) == mape * 100 < champion * (100 - ImprovementPct)

-----------------------------------------------------------------------------
(* scorer                                                                   *)

DealScore(estimated, asking) ==
  IF estimated = 0 THEN 0 ELSE ((estimated - asking) * 100) \div estimated

DealTier(score) ==
  IF score >= 15 THEN "great_deal"
  ELSE IF score >= 5 THEN "good_deal"
  ELSE IF score >= 0 - 5 THEN "fair"
  ELSE "overpriced"

\* _heuristic_result: the median price per square metre of the zone, or the
\* listing's own when the zone has none.
HeuristicEstimate(row, zoneMedian) ==
  IF row.area > 0 /\ zoneMedian > 0 THEN zoneMedian * row.area ELSE row.asking

\* score_listing explains deals only.
Explained(score) == DealTier(score) \in {"great_deal", "good_deal"}

=============================================================================
