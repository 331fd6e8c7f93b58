--------------------------- MODULE ChargeAuthority ---------------------------
(***************************************************************************)
(* What the charging controller promises its user: an abstract             *)
(* specification, which Controller implements.                             *)
(*                                                                         *)
(* Charging needs an authority.  Only an accepted enable gives it to a     *)
(* user who switched off; otherwise it comes from the session that follows *)
(* an unplugged cable, or from the record a start finds.  The              *)
(* charger is given a positive cap only while the authority stands, and    *)
(* then it is the level authorised at that very moment; no step both       *)
(* changes the authority and gives the charger a cap.                      *)
(***************************************************************************)
EXTENDS Integers

CONSTANT Levels  \* what may be authorised; 0: nothing at the moment

VARIABLES
    authority,  \* "down" (no program), "off" (a user pause stands), "none",
                \* "free" (the cable was unplugged: the next session counts) or "on"
    level,      \* the power authorised at this moment
    asked,      \* an enable has been accepted and is not settled yet
    given       \* the positive cap the last step gave the charger; 0: it gave none

vars == <<authority, level, asked, given>>

Init == authority = "down" /\ level = 0 /\ asked = FALSE /\ given = 0

(***************************************************************************)
(* The authority changes; the charger is given nothing.                    *)
(***************************************************************************)

Becomes(a, l) == authority' = a /\ level' = l /\ given' = 0

\* No enable is accepted by the step; those in flight may settle.
NotAsked == asked' \in {asked, FALSE}

TurnOn   == asked' /\ \E l \in Levels : Becomes("on", l)
TurnOff  == authority \in {"none", "on"} /\ Becomes("off", 0) /\ NotAsked
Unplug   == authority \in {"off", "none"} /\ Becomes("free", 0) /\ NotAsked
Adopt    == authority = "free" /\ (\E l \in Levels : Becomes("on", l)) /\ NotAsked
Rearm    == authority = "free" /\ Becomes("none", 0) /\ NotAsked
Withdraw == authority = "on" /\ (\E a \in {"none", "free"} : Becomes(a, 0)) /\ NotAsked
Adjust   == authority = "on" /\ (\E l \in Levels : Becomes("on", l)) /\ NotAsked
Start    == /\ authority = "down" /\ NotAsked
            /\ Becomes("none", 0) \/ \E l \in Levels : Becomes("on", l)
Die      == Becomes("down", 0) /\ NotAsked
Settle   == Becomes(authority, level) /\ NotAsked

(***************************************************************************)
(* The charger is given a cap; the authority does not change.              *)
(***************************************************************************)
Give == authority = "on" /\ level > 0 /\ given' = level /\ UNCHANGED <<authority, level, asked>>

Next ==
    \/ TurnOn \/ TurnOff \/ Unplug \/ Adopt \/ Rearm \/ Withdraw \/ Adjust \/ Start \/ Die
    \/ Settle \/ Give

Spec == Init /\ [][Next]_vars
==============================================================================
