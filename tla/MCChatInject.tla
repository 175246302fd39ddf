----------------------------- MODULE MCChatInject -----------------------------
(***************************************************************************)
(* The accounts of the players in the run of ChatInject: on Xbox with an   *)
(* id that needs trimming, elsewhere with digits that only the net id      *)
(* brings into a form that is known.                                       *)
(***************************************************************************)
EXTENDS ChatInject

MCAccountName == [p \in Players |-> IF p \in Xbox THEN <<" ", "gdk_", "1">> ELSE <<"2">>]
MCNetId       == [p \in Players |-> IF p \in Xbox THEN <<>> ELSE <<"steam_", "2">>]
=============================================================================
