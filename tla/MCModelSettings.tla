-------------------------- MODULE MCModelSettings --------------------------
(* ModelSettings on a small instance. *)
EXTENDS ModelSettings, TLC

CONSTANTS c1, c2, gemini, haiku

MCCallers == {c1, c2}
MCSelectable == {gemini, haiku}
MCConfig == [default |-> gemini, fallback |-> haiku]

\* A row that follows the config, an edit that swaps the default and switches
\* the fallback off, and a row that names a retired model.
MCRows == {[default |-> Null, fallback |-> Null],
           [default |-> haiku, fallback |-> Off],
           [default |-> Retired, fallback |-> gemini]}

Symmetry == Permutations(MCCallers)
=============================================================================
