-------------------------------- MODULE NmPlugin --------------------------------
(***************************************************************************)
(* The NetworkManager service: the D-Bus object VpnPlugin                   *)
(* (networkmanager/src/plugin.rs) and the tunnel tasks it spawns            *)
(* (spawn_tunnel and run_tunnel of tunnel.rs), with NetworkManager as seen  *)
(* from them: it calls Connect and Disconnect, receives the signals in the  *)
(* order in which they were sent, and cannot tell which task sent one.      *)
(*                                                                          *)
(* A method of the object runs alone (it holds &mut self), but the tasks    *)
(* run between its awaits.  Each signal is one step.  The data loop is in   *)
(* DataLoop; here it ends by itself or by the permit of Notify.  The reason *)
(* that Failure gives is left out.                                          *)
(***************************************************************************)
EXTENDS Naturals, Sequences, FiniteSets

CONSTANTS
    Tunnels, None,  \* the tasks: their number bounds the activations
    MaxSignals      \* signals on their way, at most: a sender waits for room

ASSUME PluginConstants ==
    /\ None \notin Tunnels /\ IsFiniteSet(Tunnels)
    /\ MaxSignals \in Nat \ {0}

Signals == [name : {"STARTING", "Config", "Ip4Config", "STARTED", "STOPPING", "STOPPED",
                    "Failure"},
            from : Tunnels]

\* Where a task is: the signal it sends next, or what it waits for.
Stages == {"none", "connect", "negotiate", "create", "Config", "Ip4Config", "STARTED",
           "loop", "Failure", "STOPPING", "STOPPED", "done"}

VARIABLES
    tunnel,         \* the handle that the object holds
    vpn_state,      \* its State property
    method,         \* what is left to do of Disconnect, "none" if nothing
    task,           \* where each task is
    permit,         \* its Notify has a permit
    tun,            \* the task that has the TUN device
    signals,        \* sent, not yet received by NM
    phase,          \* NM: the phase of the activation
    current,        \* NM: the task of its last Connect
    orphaned        \* observer: tasks that NM gave up on the STOPPED of another

vars   == <<tunnel, vpn_state, method, task, permit, tun, signals, phase, current, orphaned>>
object == <<tunnel, vpn_state, method>>
nm     == <<phase, current, orphaned>>

Emit(name, t) == /\ Len(signals) < MaxSignals
                 /\ signals' = Append(signals, [name |-> name, from |-> t])
Quiet         == UNCHANGED signals

Running(t) == task[t] \notin {"none", "done"}

\* It has not come to the signals of its end.
ComesUp(t) == Running(t) /\ task[t] \notin {"Failure", "STOPPING", "STOPPED"}

-----------------------------------------------------------------------------
Init == /\ tunnel = None /\ vpn_state = "INIT" /\ method = "none"
        /\ task = [t \in Tunnels |-> "none"]
        /\ permit = [t \in Tunnels |-> FALSE]
        /\ tun = None /\ signals = <<>>
        /\ phase = "off" /\ current = None /\ orphaned = {}

(* The methods.                                                             *)

\* NM activates a connection once it was told the end of the one before, whose
\* task may still run.
Activates == phase = "off" /\ method = "none"

\* Mutant: a handle that is there is kept.
Connect_KeepsHandle(t) ==
    /\ Activates /\ task[t] = "none"
    /\ phase' = "starting" /\ current' = t
    /\ Emit("STARTING", t) /\ vpn_state' = "STARTING"
    /\ task' = [task EXCEPT ![t] = "connect"]
    /\ tunnel' = IF tunnel = None THEN t ELSE tunnel
    /\ UNCHANGED <<method, permit, tun, orphaned>>

\* do_connect: a handle that is there is replaced.
Connect(t) ==
    /\ Activates /\ task[t] = "none"
    /\ phase' = "starting" /\ current' = t
    /\ Emit("STARTING", t) /\ vpn_state' = "STARTING"
    /\ task' = [task EXCEPT ![t] = "connect"] /\ tunnel' = t
    /\ UNCHANGED <<method, permit, tun, orphaned>>

\* The settings are not usable: Failure and an error, no task.
ConnectRefused(t) ==
    /\ Activates /\ task[t] = "none"
    /\ Emit("Failure", t) /\ task' = [task EXCEPT ![t] = "done"]
    /\ UNCHANGED <<object, permit, tun, nm>>

\* Mutant: the permit is left to whoever waits now.
Disconnect_NotifyWaiters ==
    /\ phase \in {"starting", "on"} /\ method = "none"
    /\ phase' = "stopping" /\ method' = "STOPPING"
    /\ permit' = [t \in Tunnels |-> permit[t] \/ (t = tunnel /\ task[t] = "loop")]
    /\ tunnel' = None
    /\ UNCHANGED <<vpn_state, task, tun, signals, current, orphaned>>

\* disconnect: NM, its user or its timeout ends the activation.  The handle is
\* taken and notified, then the signals are sent.
Disconnect ==
    /\ phase \in {"starting", "on"} /\ method = "none"
    /\ phase' = "stopping" /\ method' = "STOPPING"
    /\ permit' = [t \in Tunnels |-> permit[t] \/ t = tunnel]
    /\ tunnel' = None
    /\ UNCHANGED <<vpn_state, task, tun, signals, current, orphaned>>

\* Mutant: STOPPED is left to the task.
DisconnectSignals_NoStopped ==
    /\ method \in {"STOPPING", "STOPPED"}
    /\ IF method = "STOPPING"
       THEN Emit("STOPPING", current) /\ method' = "STOPPED" /\ UNCHANGED vpn_state
       ELSE vpn_state' = "STOPPED" /\ method' = "none" /\ UNCHANGED signals
    /\ UNCHANGED <<tunnel, task, permit, tun, nm>>

DisconnectSignals ==
    /\ method \in {"STOPPING", "STOPPED"} /\ Emit(method, current)
    /\ IF method = "STOPPING"
       THEN method' = "STOPPED" /\ UNCHANGED vpn_state
       ELSE method' = "none" /\ vpn_state' = "STOPPED"
    /\ UNCHANGED <<tunnel, task, permit, tun, nm>>

-----------------------------------------------------------------------------
(* A task: run_tunnel.                                                      *)

Goes(t, to) == task' = [task EXCEPT ![t] = to]

\* connect has answered.
Connected(t) ==
    /\ task[t] = "connect" /\ Goes(t, "negotiate") /\ Quiet
    /\ UNCHANGED <<object, permit, tun, nm>>

\* A session given up by the server, or an error.
Fails(t) ==
    /\ task[t] \in {"connect", "negotiate"} /\ Goes(t, "Failure") /\ Quiet
    /\ UNCHANGED <<object, permit, tun, nm>>

Negotiated(t) ==
    /\ task[t] = "negotiate" /\ Goes(t, "create") /\ Quiet
    /\ UNCHANGED <<object, permit, tun, nm>>

\* The device has one owner; TUNSETIFF or an ip command may also fail.
CreateTun(t) ==
    /\ task[t] = "create" /\ Quiet
    /\ \/ tun = None /\ tun' = t /\ Goes(t, "Config")
       \/ Goes(t, "Failure") /\ UNCHANGED tun
    /\ UNCHANGED <<object, permit, nm>>

\* Mutant: a failure goes to STOPPED at once.
After_Shortcut(stage) == CASE stage = "Config"    -> "Ip4Config"
                           [] stage = "Ip4Config" -> "STARTED"
                           [] stage = "STARTED"   -> "loop"
                           [] stage \in {"Failure", "STOPPING"} -> "STOPPED"
                           [] stage = "STOPPED"   -> "done"

After(stage) == CASE stage = "Config"    -> "Ip4Config"
                  [] stage = "Ip4Config" -> "STARTED"
                  [] stage = "STARTED"   -> "loop"
                  [] stage = "Failure"   -> "STOPPING"
                  [] stage = "STOPPING"  -> "STOPPED"
                  [] stage = "STOPPED"   -> "done"

\* emit_config, emit_ip4_config, emit_state_changed, emit_failure.
Signal(t) ==
    /\ task[t] \in {"Config", "Ip4Config", "STARTED", "Failure", "STOPPING", "STOPPED"}
    /\ Emit(task[t], t) /\ Goes(t, After(task[t]))
    /\ UNCHANGED <<object, permit, tun, nm>>

\* The fd goes with the task's device.
LeaveLoop(t, to) ==
    /\ task[t] = "loop" /\ Goes(t, to) /\ tun' = None /\ Quiet
    /\ UNCHANGED <<object, nm>>

LoopEnds(t) == LeaveLoop(t, "STOPPING") /\ UNCHANGED permit
LoopFails(t) == LeaveLoop(t, "Failure") /\ UNCHANGED permit

\* shutdown.notified(); the last writes may fail.
LoopStopped(t) ==
    /\ permit[t] /\ permit' = [permit EXCEPT ![t] = FALSE]
    /\ \E to \in {"STOPPING", "Failure"} : LeaveLoop(t, to)

-----------------------------------------------------------------------------
(* NetworkManager receives a signal.  Without an activation it ignores it,  *)
(* and Failure always: "informational" in the words of tunnel.rs.           *)
Receive ==
    /\ signals # <<>> /\ signals' = Tail(signals)
    /\ LET s == Head(signals)
       IN  IF phase = "off" THEN UNCHANGED nm
           ELSE /\ phase' = CASE s.name = "STOPPED"                         -> "off"
                              [] s.name = "STOPPING"                        -> "stopping"
                              [] s.name = "STARTED" /\ phase = "starting"   -> "on"
                              [] OTHER                                      -> phase
                /\ orphaned' = IF s.name = "STOPPED" /\ s.from # current
                               THEN orphaned \cup {current} ELSE orphaned
                /\ UNCHANGED current
    /\ UNCHANGED <<object, task, permit, tun>>

-----------------------------------------------------------------------------
Step(t) == \/ Connected(t) \/ Fails(t) \/ Negotiated(t) \/ CreateTun(t) \/ Signal(t)
           \/ LoopEnds(t) \/ LoopFails(t) \/ LoopStopped(t)

Next == \/ \E t \in Tunnels : (Connect(t) \/ ConnectRefused(t) \/ Step(t))
        \/ Disconnect \/ DisconnectSignals \/ Receive

Spec == Init /\ [][Next]_vars

\* Signals are delivered, a method returns, and of a task everything but the TLS
\* handshake ends; the loop serves the permit.
Fairness ==
    /\ WF_vars(Receive) /\ WF_vars(DisconnectSignals)
    /\ \A t \in Tunnels :
        /\ WF_vars(Negotiated(t) \/ (task[t] = "negotiate" /\ Fails(t)))
        /\ WF_vars(CreateTun(t)) /\ WF_vars(Signal(t)) /\ WF_vars(LoopStopped(t))

FairSpec == Spec /\ Fairness

-----------------------------------------------------------------------------
TypeOK ==
    /\ tunnel \in Tunnels \cup {None} /\ vpn_state \in {"INIT", "STARTING", "STOPPED"}
    /\ method \in {"none", "STOPPING", "STOPPED"}
    /\ task \in [Tunnels -> Stages] /\ permit \in [Tunnels -> BOOLEAN]
    /\ tun \in Tunnels \cup {None}
    /\ signals \in Seq(Signals) /\ phase \in {"off", "starting", "on", "stopping"}
    /\ current \in Tunnels \cup {None} /\ orphaned \subseteq Tunnels

\* While NM has an activation that is not stopping, and no signal is on its way,
\* a Disconnect reaches the tunnel of that activation, and the tunnel is
\* alive, also when activations overlap (plugin.rs 93-109, 184-185).
HandleReaches ==
    phase \in {"starting", "on"} /\ signals = <<>> =>
        /\ tunnel = current
        /\ task[current] \notin {"none", "done"}

\* A tunnel that comes up or is up can still be ended, by the handle or by the
\* permit it has, unless NM took the STOPPED of another tunnel for its own: also
\* when a handle is replaced, Connect drops none but of a tunnel so lost
\* (plugin.rs 93-109, 184-185, tunnel.rs 195-197).
LostToAnother ==
    \A t \in Tunnels : ComesUp(t) => tunnel = t \/ permit[t] \/ t \in orphaned

\* What an activation's own signals tell NM, in the order in which the task and
\* Disconnect send them, is the life of a session.  Only a signal of an earlier
\* activation, which NM cannot tell from its own, breaks it; what comes when there
\* is no activation, as the second STOPPED of a task that Disconnect announced as
\* stopped, is ignored (plugin.rs 101-107, tunnel.rs 185-197).
Told == INSTANCE SessionLife
Stale == signals # <<>> /\ signals' = Tail(signals) /\ Head(signals).from # current
ToldInOrder == Told!Init /\ [][Told!Next \/ Stale]_phase

\* An activation that stops is announced as stopped (tunnel.rs 192-197).
ToldToTheEnd == Told!Closes

\* The tunnel of the activation for which NM calls Disconnect ends, wherever it is,
\* and whatever other tunnels there are, unless it hangs in its TLS handshake
\* (plugin.rs 93-109, tunnel.rs 553-563).
DisconnectEnds ==
    \A t \in Tunnels :
        method # "none" /\ current = t ~> ~Running(t) \/ [](task[t] = "connect")

\* An activation is torn down on the STOPPED of its own tunnel, or of the Disconnect
\* for it (tunnel.rs 192-194).
TornDownByOwn ==
    [][(/\ phase \in {"starting", "on"} /\ phase' \in {"stopping", "off"}
        /\ signals # <<>> /\ signals' = Tail(signals))
            => Head(signals).from = current]_vars
=============================================================================
