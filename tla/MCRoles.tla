------------------------------ MODULE MCRoles -------------------------------
(* Small instances of Roles: two routers and an access point. *)
EXTENDS Roles

Router == {[wan |-> w, hop |-> Nobody, wifi |-> FALSE] : w \in BOOLEAN}
Ap     == {[wan |-> FALSE, hop |-> h, wifi |-> TRUE] : h \in {1, 2}}

Hosts3  == {1, 2, 3}
Answers3 == [h \in Hosts3 |-> IF h = 3 THEN Ap ELSE Router]

Row(h, r) == [host |-> h, role |-> r]
Configs == {<<Row(1, NoRole), Row(2, NoRole), Row(3, NoRole)>>,
            <<Row(2, "gateway"), Row(3, NoRole)>>,
            <<Row(2, "gateway"), Row(1, "gateway")>>,
            <<Row(1, "ap"), Row(2, NoRole)>>}
=============================================================================
