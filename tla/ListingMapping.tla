--------------------------- MODULE ListingMapping ---------------------------
(***************************************************************************)
(* The pure part of the normalizer: normalizer/mapper.py, transforms.py,   *)
(* _build_normalized_listing of consumer.py, compute_completeness of       *)
(* writer.py and the validators of models/listing.py.  A raw payload and   *)
(* the exchange rates go in; a normalized listing or the reason why the    *)
(* listing is quarantined comes out.                                       *)
(*                                                                         *)
(* Amounts are small integers, and a factor for square feet replaces the   *)
(* decimal constant: what matters is which inputs are refused.             *)
(***************************************************************************)
EXTENDS Integers, Sequences, FiniteSets, FiniteSetsExt

CONSTANTS
  None,     \* a missing value
  Junk,     \* a value that is no number
  Failure   \* the operator raised

Failed(v) == v = Failure

-----------------------------------------------------------------------------
(* mapper.py: the mapping files                                             *)

\* A file is refused unless portal, country and every field rule are well-formed;
\* a later file of the same country and portal replaces an earlier one.
LoadAll(files) ==
  IF \E i \in DOMAIN files : ~files[i].wellFormed
  THEN Failure
  ELSE [key \in {<<files[i].country, files[i].portal>> : i \in DOMAIN files} |->
          files[Max({i \in DOMAIN files : <<files[i].country, files[i].portal>> = key})]]

HasMapping(mappings, country, portal) == <<country, portal>> \in DOMAIN mappings

-----------------------------------------------------------------------------
(* transforms.py                                                            *)

CurrencyConvert(amount, currency, rates) ==
  IF currency = "EUR" THEN amount
  ELSE IF currency \in DOMAIN rates THEN amount * rates[currency]
  ELSE Failure

SqftPerM2 == 10

AreaToM2(value, unit) ==
  IF unit = "m2" THEN value
  ELSE IF unit \in {"sqft", "ft2"} THEN value \div SqftPerM2
  ELSE Failure

MapPropertyType(type, typeMap) == IF type \in DOMAIN typeMap THEN typeMap[type] ELSE Failure
MapCondition(cond, condMap)    == IF cond \in DOMAIN condMap THEN condMap[cond] ELSE None
PiecesToBedrooms(pieces)       == IF pieces > 1 THEN pieces - 1 ELSE 0

-----------------------------------------------------------------------------
(* mapper.py: apply                                                         *)

Numeric == {"asking_price", "built_area", "bedrooms", "_lat", "_lon"}

Extract(raw, field) == IF field \in DOMAIN raw THEN raw[field] ELSE None

\* Decimal() and int() raise on anything but numbers.
Coerce(target, value) == IF target \in Numeric /\ value = Junk THEN Failure ELSE value

\* One rule of the mapping: extracted, coerced, transformed.
RuleValue(mapping, rule, raw) ==
  LET value == Coerce(rule.target, Extract(raw, rule.source))
  IN  IF value = None \/ Failed(value) THEN value
      ELSE IF rule.transform = None THEN value
      ELSE IF rule.transform = "map_property_type" THEN MapPropertyType(value, mapping.types)
      ELSE IF rule.transform = "map_condition" THEN MapCondition(value, mapping.conditions)
      ELSE Failure

\* The rules run in the order of the file; the last one with a value wins.
RuleFails(mapping, raw) ==
  \E i \in DOMAIN mapping.rules : Failed(RuleValue(mapping, mapping.rules[i], raw))

MappedValue(mapping, raw, target) ==
  LET hits == {i \in DOMAIN mapping.rules :
                 /\ mapping.rules[i].target = target
                 /\ Extract(raw, mapping.rules[i].source) # None}
  IN  IF hits = {} THEN None ELSE RuleValue(mapping, mapping.rules[Max(hits)], raw)

\* The translated payload, or Failure when a rule, the currency or the unit is
\* refused.  A listing without a price or an area passes here.
Apply(mapping, raw, rates) ==
  LET value(t) == MappedValue(mapping, raw, t)
      default(field, d) == LET v == Extract(raw, field) IN IF v = None THEN d ELSE v
      currency == default(mapping.currencyField, "EUR")
      price    == value("asking_price")
      area     == value("built_area")
      rooms    == value("bedrooms")
      eur == IF price = None THEN None ELSE CurrencyConvert(price, currency, rates)
      m2  == IF area = None THEN None ELSE AreaToM2(area, default(mapping.unitField, "m2"))
  IN  IF RuleFails(mapping, raw) \/ Failed(eur) \/ Failed(m2)
      THEN Failure
      ELSE [asking_price     |-> price,
            asking_price_eur |-> eur,
            built_area_m2    |-> m2,
            currency         |-> currency,
            bedrooms         |-> IF mapping.pieces /\ rooms # None THEN PiecesToBedrooms(rooms) ELSE rooms,
            property_type    |-> value("property_type"),
            condition        |-> value("condition"),
            source_url       |-> value("source_url"),
            address          |-> value("address"),
            located          |-> value("_lat") # None /\ value("_lon") # None,
            per_m2           |-> IF eur = None \/ m2 = None \/ m2 = 0 THEN None ELSE eur \div m2]

-----------------------------------------------------------------------------
(* models/listing.py and consumer.py                                        *)

Categories == {"residential", "commercial", "industrial", "land"}
ISO_3166   == {"ES", "US"}
ISO_4217   == {"EUR", "USD"}

\* RawListing: the envelope every spider publishes.
ValidRaw(m) == m.body = "object" /\ m.complete /\ m.country \in ISO_3166

\* NormalizedListing: the mandatory fields, the enumerations, the positive decimals.
ValidNormalized(l) ==
  /\ l.source_url # None
  /\ l.asking_price # None /\ l.asking_price > 0
  /\ l.built_area_m2 # None /\ l.built_area_m2 > 0
  /\ l.currency \in ISO_4217
  /\ l.property_type \in Categories \cup {None}

CompletenessFields ==
  {"asking_price", "asking_price_eur", "built_area_m2", "bedrooms", "property_type",
   "condition", "address", "located", "per_m2"}

Present(l, f) == IF f = "located" THEN l.located ELSE l[f] # None
Completeness(l) == Cardinality({f \in CompletenessFields : Present(l, f)})

\* What the batch loop decides about one message before anything is written:
\* "accept", the reason of its quarantine, or "raise" when the exception is none
\* that the loop catches (a JSON value without .get, bytes that are no text).
Verdict(mappings, m, rates) ==
  IF m.body \in {"undecodable", "not_object"} THEN "raise"
  ELSE IF m.body = "bad_json" THEN "invalid_json"
  ELSE IF ~ValidRaw(m) THEN "validation_error"
  ELSE IF ~HasMapping(mappings, m.country, m.portal) THEN "no_mapping_config"
  ELSE
         LET l == Apply(mappings[<<m.country, m.portal>>], m.fields, rates)
         IN  IF Failed(l) THEN "validation_error"
             ELSE IF l.asking_price \in {None, 0} THEN "invalid_price"
             ELSE IF ~l.located /\ l.address = None THEN "missing_location"
             ELSE IF ~ValidNormalized(l) THEN "validation_error"
             ELSE "accept"

\* The listing that is stored and published for an accepted message.
Normalized(mappings, m, rates) == Apply(mappings[<<m.country, m.portal>>], m.fields, rates)

=============================================================================
