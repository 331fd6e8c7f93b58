--------------------------- MODULE MCObservation ---------------------------
(***************************************************************************)
(* Small instances of Observation for TLC, and what the texts of the       *)
(* repository say of it that TLC refutes.                                  *)
(***************************************************************************)
EXTENDS Observation, TLC

Symmetric == Permutations(Refreshers)

\* The warning is "cleared when it becomes Plug&Charge or the entry is unloaded"
\* (CHANGELOG.md:107).  Refuted: a poll that is under way during the unload raises it
\* again, and a setup that fails after its first refresh leaves it behind.
WarningIsCleared == phase = "down" => issue = NoMode
=============================================================================
