---------------------------- MODULE MCUploadIntake ----------------------------
(* Model values for UploadIntake. *)
EXTENDS UploadIntake
CONSTANTS first, again, click
Callbacks == {first, again}
ByHand == {click}
Redelivered == {<<{first, again}, "visitor", {"stop", "parse", "delete"}>>,
                <<{first, click}, "account", {"stop", "refuse", "parse", "delete"}>>,
                <<{first, again}, "visitor", {"refuse", "lose"}>>,
                <<{first, click}, "account", {"lose"}>>,
                <<{first}, "visitor", {"lose", "delete"}>>,
                <<{first}, "account", {"lose", "delete"}>>}
=============================================================================
