---------------------------- MODULE MCEventCommands ----------------------------
(* One alert, two recipients of which each may be reached over two channels. *)
EXTENDS EventCommands, TLC

MCSymmetry == Permutations(Command) \cup Permutations(Recipient)
                \cup Permutations(Channel)
==============================================================================
