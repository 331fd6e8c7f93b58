------------------------------ MODULE MCStorage ------------------------------
(***************************************************************************)
(* Small instances of Storage for TLC.                                     *)
(***************************************************************************)
EXTENDS Storage, TLC

I(enabled, latched, power) ==
    [enabled |-> enabled, latched |-> latched, stop |-> FALSE, power |-> power]

OnOff    == {I(TRUE, FALSE, 32), I(FALSE, FALSE, 32)}
OnOffTwo == {I(on, FALSE, p) : on \in BOOLEAN, p \in {16, 32}}
Latching == OnOff \cup {I(TRUE, TRUE, 16)}

NoPoll   == {}
Running  == {[prev |-> "running", rearm |-> FALSE]}
Starts   == {[prev |-> p, rearm |-> FALSE] : p \in {"running", "other"}}

NoOlder  == {}
AnyOlder == Session

Symmetric == Permutations(Writers)
=============================================================================
