------------------------------ MODULE MCPolicy ------------------------------
(* Instances of PolicyController for TLC. *)
EXTENDS PolicyController

Usable == [found |-> TRUE, source |-> "Secret", secretRef |-> TRUE, secret |-> "complete"]
FromEnvironment ==
    [found |-> TRUE, source |-> "Environment", secretRef |-> FALSE, secret |-> "missing"]

TwoConfigs == {Usable, FromEnvironment}
=============================================================================
