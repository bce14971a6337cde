------------------------- MODULE MCSubscriptionTree -------------------------
(***************************************************************************)
(* Instances of SubscriptionTree for TLC: topics and filters of up to      *)
(* three levels in which every wildcard, an empty first and last level,    *)
(* "$" topics and a level that is a prefix of another one occur.           *)
(***************************************************************************)
EXTENDS SubscriptionTree

MCFilters == {<<"a">>, <<"a", "/", "#">>, <<"+", "/", "#">>,
              <<"+", "/", "+">>, <<"/", "a">>, <<"$", "S", "Y", "S", "/", "#">>}
MCTopicNames == {<<"a">>, <<"a", "/">>, <<"b">>, <<"/", "a">>,
                 <<"$", "S", "Y", "S", "/", "a">>}
=============================================================================
