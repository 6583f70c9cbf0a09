------------------------------- MODULE MCUser -------------------------------
(* Instances of UserController for TLC. *)
EXTENDS UserController, TLC

Usable  == [found |-> TRUE,  source |-> "Secret", secretRef |-> TRUE, secret |-> "complete"]
Missing == [found |-> TRUE,  source |-> "Secret", secretRef |-> TRUE, secret |-> "missing"]

OneConfig == {Usable}
TwoConfigs == {Usable, Missing}

Symmetry == Permutations(Procs)
=============================================================================
