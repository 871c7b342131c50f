---------------------------- MODULE MCNormalizer ----------------------------
(* Two pods, two versions of one listing.  A content is accepted, or refused  *)
(* until its currency is known, or no JSON object.                            *)
EXTENDS Normalizer

CONSTANTS p1, p2

Fields(price, area, currency, type, place) ==
  [precio |-> price, superficie |-> area, moneda |-> currency, tipologia |-> type,
   direccion |-> place, url |-> "url", habitaciones |-> 3]

Good == Fields(8, 4, "EUR", "piso", "calle")
Message(body, portal, fields) ==
  [body |-> body, complete |-> TRUE, country |-> "ES", portal |-> portal,
   source_id |-> "a", fields |-> fields]

MCContents ==
  {Message("object", "idealista", Good),
   Message("object", "idealista", Fields(9, 4, "USD", "piso", "calle")),
   Message("not_object", "idealista", Good)}

Rule(source, target, transform) == [source |-> source, target |-> target, transform |-> transform]

MCMappingFiles ==
  <<[wellFormed |-> TRUE, country |-> "ES", portal |-> "idealista",
     currencyField |-> "moneda", unitField |-> "unidad", pieces |-> FALSE,
     types |-> [piso |-> "residential"], conditions |-> [nuevo |-> "new"],
     rules |-> <<Rule("precio", "asking_price", None),
                 Rule("superficie", "built_area", None),
                 Rule("habitaciones", "bedrooms", None),
                 Rule("tipologia", "property_type", "map_property_type"),
                 Rule("estado", "condition", "map_condition"),
                 Rule("direccion", "address", None),
                 Rule("latitud", "_lat", None),
                 Rule("longitud", "_lon", None),
                 Rule("url", "source_url", None)>>]>>

MCOldRates == [EUR |-> 1]
MCNewRates == [EUR |-> 1, USD |-> 2]

\* Every reason occurs: the mapping of these is checked once, when TLC starts.
ASSUME VerdictsAssumption ==
  LET verdict(portal, fields) == Verdict(Mappings, Message("object", portal, fields), MCOldRates)
  IN  /\ verdict("idealista", Good) = "accept"
      /\ verdict("other", Good) = "no_mapping_config"
      /\ verdict("idealista", Fields(None, 4, "EUR", "piso", "calle")) = "invalid_price"
      /\ verdict("idealista", Fields(8, 4, "EUR", "piso", None)) = "missing_location"
      /\ \A fields \in {Fields(Junk, 4, "EUR", "piso", "calle"),
                        Fields(8, 0, "EUR", "piso", "calle"),
                        Fields(8, None, "EUR", "piso", "calle"),
                        Fields(8, 4, "USD", "piso", "calle"),
                        Fields(8, 4, "EUR", "castillo", "calle"),
                        Fields(0 - 8, 4, "EUR", "piso", "calle")} :
           verdict("idealista", fields) = "validation_error"

=============================================================================
