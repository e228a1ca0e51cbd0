---------------------------- MODULE MCAlertRules ----------------------------
EXTENDS AlertRules

\* Owners are pairs <<tenant, subject>>: the same subject in two tenants.
MCOwners == {<<"acme", "ann">>, <<"beta", "ann">>}

\* Two requests of one owner and one of the other, whose keys collide.
CONSTANT Stranger
MCOwnerOf ==
    [r \in Requests |-> IF r = Stranger THEN <<"beta", "ann">> ELSE <<"acme", "ann">>]
MCKeys == {"key"}
CollidingKeys == [o \in MCOwners |-> "key"]
=============================================================================
