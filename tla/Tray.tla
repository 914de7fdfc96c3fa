---------------------------------- MODULE Tray ----------------------------------
(***************************************************************************)
(* The tray indicator: the monitor of NetworkManager and its watchers      *)
(* (networkmanagertray/src/nm_monitor.rs), the channels, tasks and main    *)
(* loop (main.rs) and what the menu shows and asks for (tray_impl.rs).     *)
(*                                                                         *)
(* NM is external: an activation is a path that it lists while the         *)
(* connection is up or coming up, and for a moment after its end; it tells *)
(* of its states by signals that only a subscribed watcher receives.  The  *)
(* bus does not fail.  The statistics are left out.                        *)
(***************************************************************************)
EXTENDS Naturals, Sequences, FiniteSets

CONSTANTS
    Paths, NoPath,    \* activations, in the order of their number; no path
    MaxEvents,      \* clicks in the menu, and changes of ActiveConnections for
                    \* other reasons, at most
    Together,       \* connections NM has at a time, at most
    Swift           \* TRUE: a watcher is done with what it has within the pause

ASSUME TrayConstants ==
    /\ Paths \subseteq Nat \ {0} /\ IsFiniteSet(Paths) /\ NoPath \notin Paths
    /\ MaxEvents \in Nat /\ Together \in Nat \ {0}
    /\ Swift \in BOOLEAN

VARIABLES
    life,           \* NM: what became of each activation
    stirs,          \* NM: changes for other reasons so far
    changes,        \* the stream of ActiveConnections has something
    monitor,        \* what the monitor does
    todo, found,    \* of a scan: paths to look at, found_draytek
    watched,        \* the paths that have a watcher
    watcher,        \* what the watcher of each path does
    leaving,        \* the watchers without a mark that have Disconnected to send
    known,          \* the state that it read or was told last
    told,           \* the signals of its stream
    state, fresh,   \* the watch channel: its value, not yet seen by the main loop
    main,           \* the state that the main loop has taken, NoPath if it waits
    connected_at,   \* the activation whose time the main loop keeps
    shown, time,    \* the tray: vpn_state and connected_at
    asked, wanted,  \* requests to disconnect a path, and to connect
    clicks,
    clicked,        \* observer: the paths shown at a click on Disconnect
    missed          \* observer: paths whose watcher was subscribed too late

manager  == <<life, stirs>>
scan     == <<monitor, todo, found>>
watch    == <<watched, watcher, leaving, known, missed>>
chan     == <<state, fresh>>
tray     == <<main, connected_at, shown, time>>
menu     == <<asked, wanted, clicks, clicked>>
trayVars == <<manager, changes, scan, watch, told, chan, tray, menu>>

Down == [kind |-> "Disconnected", path |-> NoPath]
Dialing(p) == [kind |-> "Connecting", path |-> p]
Up(p) == [kind |-> "Connected", path |-> p]
States == {Down} \cup {Dialing(p) : p \in Paths} \cup {Up(p) : p \in Paths}

Live     == {p \in Paths : life[p] \in {"connect", "activated"}}
Listed   == Live \cup {p \in Paths : life[p] = "ended"}
Lives    == {"none", "connect", "activated", "ended", "gone"}

\* handle_vpn_state: what a state of NM makes of the channel's value.
VpnState(p, l) == CASE l = "connect"   -> Dialing(p)
                    [] l = "activated" -> Up(p)
                    [] OTHER           -> Down

-----------------------------------------------------------------------------
TrayInit == /\ life \in {f \in [Paths -> {"none", "connect", "activated"}] :
                            Cardinality({p \in Paths : f[p] # "none"}) <= Together}
            /\ stirs = 0 /\ changes = FALSE
            /\ monitor = "start" /\ todo = {} /\ found = FALSE
            /\ watched = {} /\ watcher = [p \in Paths |-> "none"] /\ leaving = 0
            /\ known = [p \in Paths |-> "none"] /\ told = [p \in Paths |-> <<>>]
            /\ state = Down /\ fresh = FALSE
            /\ main = NoPath /\ connected_at = NoPath /\ shown = Down /\ time = NoPath
            /\ asked = {} /\ wanted = 0 /\ clicks = 0 /\ clicked = {}
            /\ missed = {}

(* NetworkManager.                                                          *)

\* A signal reaches the streams there are; a change of the list, the monitor's
\* stream, once there is one.
Tells(p, l) == told' = IF watcher[p] \in {"report", "wait"}
                         THEN [told EXCEPT ![p] = Append(@, l)] ELSE told
Stream       == changes' = (changes \/ monitor \notin {"start", "first"})

Becomes(p, l) == life' = [life EXCEPT ![p] = l]

\* The next path: a number is not given twice.
Begins == \E p \in Paths :
    /\ life[p] = "none" /\ Cardinality(Live) < Together
    /\ \A q \in Paths : q < p => life[q] # "none"
    /\ Becomes(p, "connect") /\ Tells(p, "connect") /\ Stream

Appears    == Begins /\ UNCHANGED <<stirs, scan, watch, chan, tray, menu>>
Comes(p)   == /\ life[p] = "connect" /\ Becomes(p, "activated") /\ Tells(p, "activated")
              /\ UNCHANGED <<stirs, changes, scan, watch, chan, tray, menu>>
Ends(p)    == p \in Live /\ Becomes(p, "ended") /\ Tells(p, "ended")
Drops(p)   == Ends(p) /\ UNCHANGED <<stirs, changes, scan, watch, chan, tray, menu>>
Unlists(p) == /\ life[p] = "ended" /\ Becomes(p, "gone") /\ Stream
              /\ UNCHANGED <<stirs, told, scan, watch, chan, tray, menu>>
Stirs      == /\ stirs + clicks < MaxEvents /\ stirs' = stirs + 1 /\ Stream
              /\ UNCHANGED <<life, told, scan, watch, chan, tray, menu>>

-----------------------------------------------------------------------------
(* The monitor: monitor_vpn and check_active_connections.                   *)

Keep == UNCHANGED <<manager, told, menu>>

Send(s) == state' = s /\ fresh' = TRUE

\* The end of the pause of 500 ms.
Calm(p) == watcher[p] = "none" \/ (watcher[p] = "wait" /\ told[p] = <<>>)
Paused  == monitor = "debounce" /\ (Swift => leaving = 0 /\ \A p \in Paths : Calm(p))

\* The first scan is before the subscription, the others are after it.
Begin(first) == /\ todo' = Listed /\ found' = FALSE
                /\ monitor' = IF first THEN "first" ELSE "scan"

Scans == /\ monitor = "start" /\ Begin(TRUE)
         /\ UNCHANGED <<changes, watch, chan, tray>> /\ Keep

\* A path that is not watched and still there gets a watcher.
Checks(p) ==
    /\ monitor \in {"first", "scan"} /\ p \in todo /\ todo' = todo \ {p}
    /\ LET new == p \notin watched /\ p \in Listed IN
       /\ found' = (found \/ new \/ p \in watched)
       /\ watched' = watched \cup (IF new THEN {p} ELSE {})
       /\ watcher' = IF new THEN [watcher EXCEPT ![p] = "read"] ELSE watcher
    /\ UNCHANGED <<changes, monitor, leaving, known, missed, chan, tray>> /\ Keep

\* The end of a scan.  A stream of zbus yields once when it is made.
Scanned ==
    /\ monitor \in {"first", "scan"} /\ todo = {}
    /\ monitor' = "wait" /\ found' = FALSE
    /\ IF ~found /\ state # Down THEN Send(Down) ELSE UNCHANGED chan
    /\ changes' = (changes \/ monitor = "first")
    /\ UNCHANGED <<todo, watch, tray>> /\ Keep

Wakes == /\ monitor = "wait" /\ changes /\ changes' = FALSE /\ monitor' = "debounce"
         /\ UNCHANGED <<todo, found, watch, chan, tray>> /\ Keep

\* Mutant: what came during the pause is taken for the event that started it.
Settles_Forgets ==
    /\ Paused /\ changes' = FALSE
    /\ IF watched # {} \/ changes THEN monitor' = "wait" /\ UNCHANGED <<todo, found>>
                                  ELSE Begin(FALSE)
    /\ UNCHANGED <<watch, chan, tray>> /\ Keep

\* After the pause: nothing to do while there is a watcher.
Settles == /\ Paused /\ changes' = FALSE
           /\ IF watched # {} THEN monitor' = "wait" /\ UNCHANGED <<todo, found>>
                              ELSE Begin(FALSE)
           /\ UNCHANGED <<watch, chan, tray>> /\ Keep

-----------------------------------------------------------------------------
(* A watcher: watch_vpn_connection and the task around it.                  *)

Moves(p, s) == watcher' = [watcher EXCEPT ![p] = s]
Rest       == UNCHANGED <<manager, changes, scan, tray, menu>>

\* The state of the connection now; reading what goes with it takes time.
Reads(p) == /\ watcher[p] = "read" /\ Moves(p, "first")
            /\ known' = [known EXCEPT ![p] = IF p \in Listed THEN life[p] ELSE "gone"]
            /\ UNCHANGED <<watched, leaving, missed, told, chan>> /\ Rest

\* The initial state is sent, then the signals are subscribed to.
First(p) == /\ watcher[p] = "first" /\ Moves(p, "subscribe") /\ Send(VpnState(p, known[p]))
            /\ UNCHANGED <<watched, leaving, known, missed, told>> /\ Rest

\* What NM signalled before is lost.
Subscribes(p) ==
    /\ watcher[p] = "subscribe" /\ Moves(p, "wait")
    /\ missed' = IF life[p] # known[p] \/ p \notin Live THEN missed \cup {p} ELSE missed
    /\ known' = [known EXCEPT ![p] = "none"]
    /\ UNCHANGED <<watched, leaving, told, chan>> /\ Rest

Hears(p) == /\ watcher[p] = "wait" /\ told[p] # <<>> /\ Moves(p, "report")
            /\ known' = [known EXCEPT ![p] = Head(told[p])]
            /\ told' = [told EXCEPT ![p] = Tail(@)]
            /\ UNCHANGED <<watched, leaving, missed, chan>> /\ Rest

Reports(p) == /\ watcher[p] = "report" /\ Send(VpnState(p, known[p]))
              /\ Moves(p, IF known[p] = "ended" THEN "end" ELSE "wait")
              /\ known' = [known EXCEPT ![p] = "none"]
              /\ UNCHANGED <<watched, leaving, missed, told>> /\ Rest

\* Mutant: the path stays in the set.
Leaves_Marked(p) == /\ watcher[p] = "end" /\ Moves(p, "none") /\ leaving' = leaving + 1
                    /\ UNCHANGED <<watched, known, missed, told, chan>> /\ Rest

\* The mark is taken away, and its lock released, before Disconnected is sent: a
\* scan in between may find the path still listed and have it watched again.
Leaves(p) == /\ watcher[p] = "end" /\ Moves(p, "none") /\ leaving' = leaving + 1
             /\ watched' = watched \ {p}
             /\ UNCHANGED <<known, missed, told, chan>> /\ Rest

Departs == /\ leaving > 0 /\ leaving' = leaving - 1 /\ Send(Down)
           /\ UNCHANGED <<watched, watcher, known, missed, told>> /\ Rest

-----------------------------------------------------------------------------
(* The main loop and the menu.                                              *)

Tasks == UNCHANGED <<changes, scan, watch, told>>

Since(s) == CASE s.kind = "Connected" /\ connected_at = NoPath -> s.path
              [] s = Down -> NoPath
              [] OTHER    -> connected_at

\* The latest value only: what was sent before it is not seen.
Takes == /\ main = NoPath /\ fresh /\ fresh' = FALSE /\ main' = state
         /\ connected_at' = Since(state)
         /\ UNCHANGED <<state, shown, time, manager, menu>> /\ Tasks

Shows == /\ main # NoPath /\ main' = NoPath /\ shown' = main /\ time' = connected_at
         /\ UNCHANGED <<connected_at, chan, manager, menu>> /\ Tasks

\* The items of the menu: Connect when disconnected, Disconnect when connected.
ClickConnect    == /\ stirs + clicks < MaxEvents /\ clicks' = clicks + 1
                   /\ shown = Down /\ wanted' = wanted + 1
                   /\ UNCHANGED <<asked, clicked, manager, chan, tray>> /\ Tasks
ClickDisconnect == /\ stirs + clicks < MaxEvents /\ clicks' = clicks + 1
                   /\ shown.kind = "Connected" /\ asked' = asked \cup {shown.path}
                   /\ clicked' = clicked \cup {shown.path}
                   /\ UNCHANGED <<wanted, manager, chan, tray>> /\ Tasks

\* connect_vpn: NM starts an activation or refuses.
ServeConnect == /\ wanted > 0 /\ wanted' = wanted - 1
                /\ \/ Begins
                   \/ UNCHANGED <<life, told, changes>>
                /\ UNCHANGED <<stirs, asked, clicks, clicked, scan, watch, chan, tray>>

\* Mutant: the path that is shown now is disconnected.
ServeDisconnect_Shown(p) ==
    /\ p \in asked /\ asked' = asked \ {p}
    /\ IF shown.path \in Live THEN Ends(shown.path) ELSE UNCHANGED <<life, told>>
    /\ UNCHANGED <<stirs, changes, wanted, clicks, clicked, scan, watch, chan, tray>>

\* disconnect_vpn: the path is deactivated, or it is gone and the call fails.
ServeDisconnect(p) ==
    /\ p \in asked /\ asked' = asked \ {p}
    /\ IF p \in Live THEN Ends(p) ELSE UNCHANGED <<life, told>>
    /\ UNCHANGED <<stirs, changes, wanted, clicks, clicked, scan, watch, chan, tray>>

-----------------------------------------------------------------------------
Manager  == Appears \/ Stirs \/ \E p \in Paths : Comes(p) \/ Drops(p)
Monitor  == Scans \/ Scanned \/ Wakes \/ Settles \/ \E p \in Paths : Checks(p)
Watch(p) == Reads(p) \/ First(p) \/ Subscribes(p) \/ Hears(p) \/ Reports(p) \/ Leaves(p)
Loop     == Takes \/ Shows
User     == ClickConnect \/ ClickDisconnect

\* The tasks of the indicator; Disconnect is served when NM has done it.
Runs == \/ Departs \/ Monitor \/ Loop
        \/ \E p \in Paths : Watch(p) \/ ServeDisconnect(p)

TrayNext == \/ Runs \/ Manager \/ ServeConnect \/ User
            \/ \E p \in Paths : Unlists(p)

TraySpec == TrayInit /\ [][TrayNext]_trayVars

\* The runtime goes on while some task can, and each of them comes to an end of what
\* it has to do; NM forgets what has ended.
TrayFairSpec == /\ TraySpec /\ WF_trayVars(Runs)
                /\ WF_trayVars(\E p \in Paths : Unlists(p))

-----------------------------------------------------------------------------
TrayTypeOK ==
    /\ life \in [Paths -> Lives] /\ stirs \in 0..MaxEvents /\ changes \in BOOLEAN
    /\ monitor \in {"start", "first", "wait", "debounce", "scan"}
    /\ todo \subseteq Paths /\ found \in BOOLEAN
    /\ watched \subseteq Paths /\ missed \subseteq Paths
    /\ watcher \in [Paths -> {"none", "read", "first", "subscribe", "wait", "report", "end"}]
    /\ leaving \in Nat /\ clicked \subseteq Paths
    /\ known \in [Paths -> Lives] /\ told \in [Paths -> Seq(Lives)]
    /\ state \in States /\ fresh \in BOOLEAN /\ shown \in States
    /\ main \in States \cup {NoPath}
    /\ connected_at \in Paths \cup {NoPath} /\ time \in Paths \cup {NoPath}
    /\ asked \subseteq Paths /\ wanted \in 0..MaxEvents /\ clicks \in 0..MaxEvents

\* What NM has is what the tray shows.
Matches == IF Live = {} THEN shown = Down
                        ELSE \E p \in Live : shown = VpnState(p, life[p])

\* Nothing is on its way: no task can go on.
Idle == /\ ~changes /\ monitor = "wait" /\ ~fresh /\ main = NoPath /\ leaving = 0
        /\ \A p \in Paths : Calm(p) /\ life[p] # "ended"

\* As long as every watcher subscribed in time, the tray comes to show what NM
\* has, for good once NM does nothing more (events coalesced by the pause of
\* 500 ms and by the watch channel, main.rs and nm_monitor.rs:153-182).
Follows == <>[](Matches \/ missed # {})

\* The mark of a connection that is over goes, so that the monitor scans again at
\* the next change, unless its watcher subscribed too late to be told of the end
\* (nm_monitor.rs:172-179, 221-239).
MarksEnd ==
    <>[](\A p \in watched : life[p] \in {"ended", "gone"} => p \in missed)

\* A request of the menu ends a connection that was shown as connected when the
\* user clicked, and no other, whatever has become of that one, whatever is shown
\* and whatever NM has begun by the time it is served (main.rs:108-114,
\* tray_impl.rs:248-260).
EndsWhatWasShown == [][asked' # asked => Live \ Live' \subseteq clicked]_trayVars

\* With nothing on its way the tray shows what NM has: "Skip if we already have a
\* watcher - no need to rescan" (nm_monitor.rs:172).
ShowsWhatIs == Idle => Matches

\* The same of two connections at once, with every watcher subscribed in time:
\* what is shown is then up, if any is (nm_monitor.rs:172, 238).
TwoAreShown == Idle /\ missed = {} => Matches

\* The time shown is that of the connection shown: "Unix epoch (seconds) when the
\* VPN connection was activated by NM" (tray_impl.rs:16).
TimeOfShown == shown.kind = "Connected" => time = shown.path
=============================================================================
