---------------------------- MODULE MCGameThread ----------------------------
(***************************************************************************)
(* The lines typed in the run of GameThread: public lines of an Xbox       *)
(* player, who sees a line only if it can be attributed, and lines of the  *)
(* other player that match a pattern.                                      *)
(***************************************************************************)
EXTENDS GameThread

Typed(p, kind) == [player |-> p, kind |-> kind, category |-> "global", uid |-> TRUE,
                   name |-> FALSE, writable |-> TRUE]

MCInputs == {Typed(p, "clean") : p \in Xbox} \cup {Typed(p, "bad") : p \in Players \ Xbox}

(* The game spells accounts in several ways.                               *)
MCAccountName == [p \in Players |-> IF p \in Xbox THEN <<" ", "gdk_", "1">> ELSE <<"steam:", "2">>]
MCNetId       == [p \in Players |-> IF p \in Xbox THEN <<"gdk_", "1">> ELSE <<"steam_", "2">>]
=============================================================================
