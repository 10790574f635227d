---------------------------- MODULE MCOperations ----------------------------
(* Two branches, one kind of finding, three moments: a morning, an evening and the next morning. *)
EXTENDS Operations

MCBranches == <<"growth", "value">>
=============================================================================
