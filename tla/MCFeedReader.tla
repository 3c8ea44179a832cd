---------------------------- MODULE MCFeedReader ----------------------------
(* Instances of FeedReader: every reader, the pages without a token, and    *)
(* every way to authenticate with one or two users.                         *)
EXTENDS FeedReader

CONSTANTS v1, v2, v3, v4

TheVehicles == {v1, v2, v3, v4}
TheFleets == {SubSeq(<<v1, v2, v3, v4>>, 1, n) : n \in 0..4}

Feed(kinds, schemes, lives) == [kind : kinds, scheme : schemes, life : lives]
TheSetups == Feed({"full", "paged", "linked"}, {"token"}, {0})
             \cup Feed({"pair"}, {"oauth2"}, {5})
             \cup Feed({"single"}, {"moveyou", "dott"}, {6})
             \cup Feed({"trips"}, {"oauth2", "moveyou", "dott"}, {4, 6})
=============================================================================
