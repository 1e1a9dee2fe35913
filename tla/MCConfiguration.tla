-------------------------- MODULE MCConfiguration --------------------------
(* Two commands of either kind over a stored connector and one being added *)
(* by the other command, and a third that orders or removes a provider.    *)
EXTENDS Configuration

Act(op, id) == [op |-> op, id |-> id, authorized |-> TRUE]
Add(credential) == [op |-> "add", credential |-> credential,
                    kind |-> "fixture", authorized |-> TRUE]
Configuring(credential, valid) ==
    [op |-> "configure", id |-> "p", credential |-> credential,
     valid |-> valid, authorized |-> TRUE]
Ordering(ids) == [op |-> "order", ids |-> ids, authorized |-> TRUE]

MCConnectorCommands ==
    [c1 |-> {Add(TRUE), [Add(FALSE) EXCEPT !.authorized = FALSE],
             Act("disable", "k"), Act("remove", "k"), Act("test", "k")},
     c2 |-> {Act("enable", "k"), Act("remove", "k"), Act("test", "k"),
             Act("remove", "c1")},
     c3 |-> {}]

Reading(family, valid) ==
    [op |-> "read", family |-> family, kind |-> "remote", id |-> "k",
     valid |-> valid, authorized |-> TRUE]

MCReadCommands ==
    [c1 |-> {Reading("observability", TRUE), Reading("cloud", FALSE)},
     c2 |-> {}, c3 |-> {}]

MCProviderCommands ==
    [c1 |-> {Configuring(TRUE, TRUE), Configuring(FALSE, FALSE)},
     c2 |-> {Ordering(<<"p">>), Ordering(<<"p", "p">>)},
     c3 |-> {Act("probe_provider", "p"), Act("remove_provider", "p")}]
=============================================================================
