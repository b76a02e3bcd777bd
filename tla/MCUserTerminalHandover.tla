----------------------- MODULE MCUserTerminalHandover -----------------------
(* Small instances of UserTerminalHandover for TLC. *)
EXTENDS UserTerminalHandover, TLC

(* Neither the terminals nor the satellites are told apart by the code     *)
(* once the selection and the sky are nondeterministic.                    *)
Symmetric == Permutations(UserTerminals) \union Permutations(Satellites)

=============================================================================
