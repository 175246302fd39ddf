---------------------------- MODULE MCChatCapture ----------------------------
(***************************************************************************)
(* The lines typed in the runs of ChatCapture.  As on a dedicated server,  *)
(* the uid can be read in the hook and the PlayerName property is empty.   *)
(* The players are interchangeable.                                        *)
(***************************************************************************)
EXTENDS ChatCapture, TLC

Typed(p, kind, category) == [player |-> p, kind |-> kind, category |-> category,
                             uid |-> TRUE, name |-> FALSE, writable |-> TRUE]

MCInputs == UNION {{Typed(p, "clean", "global"), Typed(p, "clean", "guild"),
                    Typed(p, "bad", "global"), Typed(p, "command", "global"),
                    Typed(p, "setdiscord", "global")} : p \in Players}

MCCommands == {Typed(p, kind, "global") : p \in Players, kind \in {"command", "bad command"}}

ASSUME InputsAreSteady == OwnKeys /\ SteadyNames

Symmetry == Permutations(Players)
=============================================================================
