-------------------------- MODULE MCTokenEndpoint --------------------------
(* One caller that may send anything beside one that sends what Arcade does. *)
EXTENDS TokenEndpoint

CONSTANTS any, arcade, c1

MCRequests == {any, arcade}
MCClient == [id |-> "arcade", secret |-> "s1"]

Pairs == {Null, MCClient, [id |-> "arcade", secret |-> "s2"], [id |-> "other", secret |-> "s1"]}
Lists(values) == {<<>>} \cup {<<v>> : v \in values} \cup {<<v, v>> : v \in values}

Credentials ==
  {<<"none", Null>>, <<"bearer", Null>>} \cup {<<"basic", pair>> : pair \in Pairs}

Anything ==
  {[scheme |-> cred[1], pair |-> cred[2], ids |-> ids, secrets |-> secrets,
    assertion |-> assertion, code |-> code] :
     cred \in Credentials, ids \in Lists({"arcade", "other"}), secrets \in Lists({"s1", "s2"}),
     assertion \in BOOLEAN, code \in {c1, Null}}

\* The dashboard's template: Basic, and the same pair in the body; the code once
\* issued, or one this service never did.
AsArcadeDoes ==
  {[scheme |-> "basic", pair |-> MCClient, ids |-> <<"arcade">>, secrets |-> <<"s1">>,
    assertion |-> FALSE, code |-> code] : code \in {c1, "forged"}}

MCSends == [r \in MCRequests |-> IF r = any THEN Anything ELSE AsArcadeDoes]
=============================================================================
