--------------------------- MODULE MCServiceArea ---------------------------
(* Instances of ServiceArea: two feeds of one operator, three areas, one of *)
(* them in two municipalities and one in none.                              *)
EXTENDS ServiceArea

CONSTANTS here, both, sea, m1, m2, op

TheAreas == {here, both, sea}
TheMunicipalitiesOf == (here :> {m1}) @@ (both :> {m1, m2}) @@ (sea :> {})
TheOperatorOf == [f \in Feeds |-> op]

Rule(start, end) == [start |-> start, end |-> end, speed |-> FALSE]
Zone(area, list) == [area |-> area, rules |-> "list", list |-> list]
Unreadable(area) == [area |-> area, rules |-> "unreadable", list |-> <<>>]
Plain(area) == [area |-> area, rules |-> "none", list |-> <<>>]
Offer(global, zones) == [global |-> global, zones |-> zones]

NoParking == Rule("unset", "no")
Closed == Rule("no", "no")
Open == Rule("yes", "yes")

(* Everything; only what overrules the feed's rules; only what its own rules *)
(* allow in the end.                                                         *)
TheOffersOf ==
    (1 :> {Offer(<<Open>>, {Plain(here), Unreadable(both), Plain(sea)}),
           Offer(<<Closed>>, {Plain(here), Zone(here, <<NoParking>>), Zone(both, <<Open>>)}),
           Offer(<<Open>>, {Zone(here, <<Closed, Rule("yes", "unset"), Rule("unset", "yes")>>),
                            Zone(both, <<[Open EXCEPT !.speed = TRUE]>>),
                            Zone(both, <<NoParking>>)})})
    @@ (2 :> {Offer(<<>>, {}), Offer(<<>>, {Plain(here)})})
=============================================================================
