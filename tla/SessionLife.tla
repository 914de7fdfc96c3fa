------------------------------ MODULE SessionLife ------------------------------
(***************************************************************************)
(* The life of a VPN session as whoever asked for it is told of it: the     *)
(* window of the GUI by TunnelStatus, NetworkManager by StateChanged.       *)
(* GuiEngine implements it where tasks do not overlap; NmPlugin's steps are *)
(* its steps but where an earlier session's signal is taken for this one's. *)
(***************************************************************************)
VARIABLE phase

Phases == {"off", "starting", "on", "stopping"}

Init == phase = "off"

Move(from, to) == phase \in from /\ phase' = to

Start     == Move({"off"}, "starting")
Establish == Move({"starting"}, "on")
Fail      == Move({"starting"}, "off")
Stop      == Move({"starting", "on"}, "stopping")
Stopped   == Move({"stopping"}, "off")

Next == Start \/ Establish \/ Fail \/ Stop \/ Stopped

\* No session is announced as on without having been announced as starting, none
\* ends twice, and one that ends is not on again before the next starts.
Life == Init /\ [][Next]_phase

\* A session announced as stopping is announced as stopped.
Closes == phase = "stopping" ~> phase = "off"
=============================================================================
