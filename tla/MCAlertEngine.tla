---------------------------- MODULE MCAlertEngine ----------------------------
(* One user with an instant rule of two channels and a digest rule; a listing  *)
(* that both rules want, scored twice, with a price drop; and a second listing *)
(* that only the digest rule wants.                                            *)
EXTENDS AlertEngine

MCRules    == {"r1", "r2"}
MCUsers    == {"u1"}
MCListings == {"l1", "l2"}
MCOwner    == [r \in MCRules |-> "u1"]
MCDigest   == {"r2"}
MCChannels == [r \in MCRules |-> IF r = "r1" THEN <<"email", "push">> ELSE <<"email">>]
MCWants    == (MCRules \X {"l1"}) \cup {<<"r2", "l2">>}
MCLog      == [t \in {"scored", "price"} |->
                 IF t = "scored" THEN <<"e1", "e2", "e3">> ELSE <<"d1">>]
MCListingOf == [e \in {"e1", "e2", "e3", "d1"} |-> IF e = "e3" THEN "l2" ELSE "l1"]

=============================================================================
