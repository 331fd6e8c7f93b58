---------------------------- MODULE MCController ----------------------------
(***************************************************************************)
(* Small instances of Controller for TLC: the frames the charger answers   *)
(* and the records a start may find.                                       *)
(***************************************************************************)
EXTENDS Controller, TLC

F(status, cc, pw, fault) == [status |-> status, cc |-> cc, pw |-> pw, fault |-> fault]

Charging  == F(3, 1, 2, 0)
Starting  == F(2, 1, 0, 0)
Finished  == F(5, 1, 0, 0)
Unplugged == F(0, 0, 0, 0)
Fault     == F(6, 1, 0, 1)
Unknown   == F(None, None, 0, 0)
Masked    == F(None, None, None, 1)   \* a fault code in an otherwise invalid frame

R(enabled, power) == [Paused EXCEPT !.enabled = enabled, !.power = power]

FramesCharging == {Charging}
FramesPlugged  == {Charging, Finished}
FramesUnplug   == {Charging, Finished, Unplugged}
FramesFault    == {Charging, Starting, Finished, Fault, Unknown, Masked}

SavedPaused  == {R(FALSE, DeviceMax)}
SavedEnabled == {R(TRUE, DeviceMax)}
SavedAny     == {FirstInstall, R(TRUE, DeviceMax), R(FALSE, DeviceMax),
                 [R(TRUE, DeviceMax) EXCEPT !.latched = TRUE, !.comms = TRUE]}

Symmetric == Permutations(Callers)
=============================================================================
