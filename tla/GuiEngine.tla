------------------------------- MODULE GuiEngine -------------------------------
(***************************************************************************)
(* The GUI: the main window and its connection view on the GTK thread       *)
(* (ui/window.rs, ui/connection_view.rs), and the tunnel tasks it spawns    *)
(* (tunnel/engine.rs), one for each click on Connect.  They exchange        *)
(* commands, on a channel of each task, and statuses, on one queue that the *)
(* window drains every 100 ms.                                              *)
(*                                                                          *)
(* A run of the privileged helper is one step here, Helper has its          *)
(* commands; the packets of a negotiation are in Negotiate and those of an  *)
(* established tunnel in DataLoop.  NegotiatingLcp, Authenticating and      *)
(* NegotiatingIpcp are one status: they change two labels.                  *)
(***************************************************************************)
EXTENDS Naturals, Sequences, FiniteSets

CONSTANTS
    Tunnels,        \* the tunnel tasks: their number bounds the connections
    None, Stale,    \* no tunnel; a tunnel of an earlier run of the GUI
    MaxCommands,    \* commands of the user waiting in a channel, at most
    Scenes          \* what the user and the machine may do, in each case considered

\* patient: Connect is clicked when no task is left; pings: profiles and the user
\* may turn the keepalive on; leftover: a stale device may be found at startup;
\* partial: a setup that fails may leave the device, and a teardown may fail;
\* closing: the window may be closed; relaunch: the GUI may be launched while it runs.
Scene == [patient : BOOLEAN, pings : BOOLEAN, leftover : BOOLEAN, partial : BOOLEAN,
          closing : BOOLEAN, relaunch : BOOLEAN]

ASSUME GuiConstants ==
    /\ None \notin Tunnels /\ Stale \notin Tunnels /\ None # Stale
    /\ MaxCommands \in Nat \ {0} /\ IsFiniteSet(Tunnels)
    /\ Scenes \subseteq Scene

TunnelStatus  == {"Connecting", "Handshaking", "Negotiating", "Connected",
                  "Disconnecting", "Disconnected", "Error", "AuthFailed"}
TunnelCommand == {"Disconnect", "KeepaliveOn", "KeepaliveOff"}

Stages == {"none", "spawned", "tcp", "tls", "negotiate", "setup", "open", "loop",
           "teardown", "done", "dropped"}

VARIABLES
    scene,      \* the case this behaviour is about
    app,        \* the GUI: running, closing (no window), exited (no runtime)
    view,       \* the widgets of ConnectionView
    profile_keepalive,
    tunnel_cmd_tx,  \* the task whose sender the window holds
    status_queue,   \* statuses sent and not drained
    task,       \* where each task is
    failing,    \* it will report an error once torn down
    commands,   \* its channel
    ping,       \* PingKeeper is enabled in its data loop
    device,     \* for whom the helper made draytek0
    routed,     \* the device is up and has its routes
    left,       \* observer: the tasks whose helper failed and left their device
    cleaning    \* the cleanup of a stale device is under way

vars == <<scene, app, view, profile_keepalive, tunnel_cmd_tx, status_queue, task,
          failing, commands, ping, device, routed, left, cleaning>>
window  == <<view, profile_keepalive, tunnel_cmd_tx>>
machine == <<device, routed, left>>
channel == <<commands, ping>>

Unfinished(t) == task[t] \notin {"none", "done", "dropped"}

\* Some task has the device open: the kernel neither deletes it nor opens it again.
Open == \E t \in Tunnels : task[t] = "loop"

Send(statuses) == status_queue' = status_queue \o statuses
Silent         == UNCHANGED status_queue

\* What the window sends goes to the task it holds the sender of, if it still
\* receives.
Command(sent) ==
    commands' = [t \in Tunnels |-> IF t = tunnel_cmd_tx /\ Unfinished(t)
                                   THEN commands[t] \o sent ELSE commands[t]]

-----------------------------------------------------------------------------
(* The connection view.                                                     *)

Buttons == [label : TunnelStatus, connect : BOOLEAN, disconnect : BOOLEAN,
            sensitive : BOOLEAN, keepalive : BOOLEAN, active : BOOLEAN]

\* update_status: the label, which buttons show, whether Disconnect can be
\* clicked, and whether the keepalive button shows and is on.
Shows(status, b) == [b EXCEPT !.label = status]

Failed(status, b) ==
    [Shows(status, b) EXCEPT !.connect = TRUE, !.disconnect = FALSE, !.keepalive = FALSE]

\* Mutant: Disconnected does not give the Disconnect button its sensitivity back.
update_status_Greyed(status, b) ==
    CASE status = "Connecting"    -> [Shows(status, b) EXCEPT !.connect = FALSE,
                                                              !.disconnect = TRUE]
      [] status = "Connected"     -> [Shows(status, b) EXCEPT !.connect = FALSE,
                              !.disconnect = TRUE, !.keepalive = TRUE, !.active = FALSE]
      [] status = "Disconnecting" -> [Shows(status, b) EXCEPT !.sensitive = FALSE]
      [] status \in {"Error", "AuthFailed", "Disconnected"} -> Failed(status, b)
      [] OTHER                    -> Shows(status, b)

\* Mutant: the keepalive button keeps its state from one connection to the next.
update_status_KeepsActive(status, b) ==
    CASE status = "Connecting"    -> [Shows(status, b) EXCEPT !.connect = FALSE,
                                                              !.disconnect = TRUE]
      [] status = "Connected"     -> [Shows(status, b) EXCEPT !.connect = FALSE,
                                                !.disconnect = TRUE, !.keepalive = TRUE]
      [] status = "Disconnecting" -> [Shows(status, b) EXCEPT !.sensitive = FALSE]
      [] status = "Disconnected"  -> [Failed(status, b) EXCEPT !.sensitive = TRUE]
      [] status \in {"Error", "AuthFailed"} -> Failed(status, b)
      [] OTHER                    -> Shows(status, b)

update_status(status, b) ==
    CASE status = "Connecting"    -> [Shows(status, b) EXCEPT !.connect = FALSE,
                                                              !.disconnect = TRUE]
      [] status = "Connected"     -> [Shows(status, b) EXCEPT !.connect = FALSE,
                              !.disconnect = TRUE, !.keepalive = TRUE, !.active = FALSE]
      [] status = "Disconnecting" -> [Shows(status, b) EXCEPT !.sensitive = FALSE]
      [] status = "Disconnected"  -> [Failed(status, b) EXCEPT !.sensitive = TRUE]
      [] status \in {"Error", "AuthFailed"} -> Failed(status, b)
      [] OTHER                    -> Shows(status, b)

\* The commands that the toggled handler sends while a status is shown: the button
\* goes off if it was on, and on again if the profile says so.
Toggles(status) ==
    IF status # "Connected" THEN <<>>
    ELSE (IF view.active THEN <<"KeepaliveOff">> ELSE <<>>)
         \o (IF profile_keepalive THEN <<"KeepaliveOn">> ELSE <<>>)

\* One status at a time: the window may find any number of them in the queue.
Drain ==
    /\ app = "running" /\ status_queue # <<>>
    /\ LET status == Head(status_queue)
           shown  == update_status(status, view)
       IN  /\ view' = IF status = "Connected" /\ profile_keepalive
                      THEN [shown EXCEPT !.active = TRUE] ELSE shown
           /\ Command(Toggles(status))
    /\ status_queue' = Tail(status_queue)
    /\ UNCHANGED <<scene, app, profile_keepalive, tunnel_cmd_tx, task, failing, ping, machine,
                   cleaning>>

-----------------------------------------------------------------------------
Init == /\ scene \in Scenes /\ app = "running"
        /\ view = [label |-> "Disconnected", connect |-> TRUE, disconnect |-> FALSE,
                   sensitive |-> TRUE, keepalive |-> FALSE, active |-> FALSE]
        /\ profile_keepalive = FALSE /\ tunnel_cmd_tx = None /\ status_queue = <<>>
        /\ task = [t \in Tunnels |-> "none"] /\ failing = [t \in Tunnels |-> FALSE]
        /\ commands = [t \in Tunnels |-> <<>>] /\ ping = [t \in Tunnels |-> FALSE]
        /\ device \in (IF scene.leftover THEN {None, Stale} ELSE {None}) /\ routed = FALSE /\ left = {}
        /\ cleaning \in {FALSE, device = Stale}

(* The user.                                                                *)

\* The sender of the task before is dropped, its channel closes.
ClickConnect(t) ==
    /\ app = "running" /\ view.connect /\ task[t] = "none"
    /\ scene.patient => \A u \in Tunnels : ~Unfinished(u)
    /\ profile_keepalive' \in {FALSE, scene.pings} /\ tunnel_cmd_tx' = t
    /\ task' = [task EXCEPT ![t] = "spawned"]
    /\ UNCHANGED <<scene, app, view, status_queue, failing, channel, machine, cleaning>>

Room == \A t \in Tunnels : Len(commands[t]) < MaxCommands

ClickDisconnect ==
    /\ app = "running" /\ view.disconnect /\ view.sensitive /\ Room
    /\ Command(<<"Disconnect">>)
    /\ UNCHANGED <<scene, app, window, status_queue, task, failing, ping, machine, cleaning>>

ClickKeepalive ==
    /\ app = "running" /\ view.keepalive /\ scene.pings /\ Room
    /\ view' = [view EXCEPT !.active = ~@]
    /\ Command(<<IF view.active THEN "KeepaliveOff" ELSE "KeepaliveOn">>)
    /\ UNCHANGED <<scene, app, profile_keepalive, tunnel_cmd_tx, status_queue, task, failing,
                   ping, machine, cleaning>>

\* GTK activates the application that runs, which opens another window; of that
\* one only its question about the device it finds is modelled, answered with
\* Clean Up.
Activate ==
    /\ scene.relaunch /\ app = "running" /\ device # None /\ ~cleaning /\ cleaning' = TRUE
    /\ UNCHANGED <<scene, app, window, status_queue, task, failing, channel, machine>>

\* The widgets go, and the sender with the closures that hold it.
CloseWindow ==
    /\ scene.closing /\ app = "running" /\ app' = "closing"
    /\ tunnel_cmd_tx' \in {None, tunnel_cmd_tx}
    /\ UNCHANGED <<scene, view, profile_keepalive, status_queue, task, failing, channel, machine,
                   cleaning>>

\* Runtime::shutdown_timeout waits for blocking work and drops every task at the
\* await where it is; a helper that was started goes on.
Exit ==
    /\ app = "closing" /\ app' = "exited"
    /\ task' = [t \in Tunnels |-> IF Unfinished(t) /\ task[t] \notin {"setup", "teardown"}
                                  THEN "dropped" ELSE task[t]]
    /\ UNCHANGED <<scene, window, status_queue, failing, channel, machine, cleaning>>

-----------------------------------------------------------------------------
(* A tunnel task.                                                           *)

Goes(t, to) == task' = [task EXCEPT ![t] = to]
Same        == UNCHANGED <<scene, app, window, cleaning>>

Reports(failed) == IF failed THEN <<"Error", "Disconnected">> ELSE <<"Disconnected">>

\* run_inner returns; run reports.
Returns(t, said) ==
    /\ Goes(t, "done") /\ Send(said \o Reports(TRUE))
    /\ Same /\ UNCHANGED <<failing, channel, machine>>

Moves(t, from, to, said) ==
    /\ task[t] = from /\ Goes(t, to) /\ Send(said)
    /\ Same /\ UNCHANGED <<failing, channel, machine>>

Begin(t)      == Moves(t, "spawned", "tcp", <<"Connecting">>)
Reached(t)    == Moves(t, "tcp", "tls", <<>>)
Shaken(t)     == Moves(t, "tls", "negotiate", <<"Handshaking">>)
Negotiated(t) == Moves(t, "negotiate", "setup", <<"Negotiating">>)

ConnectFails(t) == task[t] \in {"tcp", "tls"} /\ Returns(t, <<>>)

NegotiationFails(t) ==
    /\ task[t] = "negotiate"
    /\ \/ Returns(t, <<"Negotiating">>)
       \/ Returns(t, <<"Negotiating", "AuthFailed">>)

\* privilege::setup: a device that is not open is removed first.  When the GUI
\* is gone only the helper's part is left.
Setup(t) ==
    /\ task[t] = "setup" /\ ~Open
    /\ device' = t /\ routed' = TRUE /\ UNCHANGED left
    /\ Goes(t, IF app = "exited" THEN "dropped" ELSE "open") /\ Silent
    /\ Same /\ UNCHANGED <<failing, channel>>

\* The observer of a helper that failed.
Noted(t) == left' = IF device' = t THEN left \cup {t} ELSE left

Leftovers(t) == IF Open THEN {device}
                ELSE {device, None} \cup (IF scene.partial THEN {t} ELSE {})

\* pkexec refused, or a command of the helper failed; there is no teardown.
SetupFails(t) ==
    /\ task[t] = "setup"
    /\ device' \in Leftovers(t) /\ routed' = (routed /\ device' = device) /\ Noted(t)
    /\ IF app = "exited" THEN Goes(t, "dropped") /\ Silent
       ELSE Goes(t, "done") /\ Send(Reports(TRUE))
    /\ Same /\ UNCHANGED <<failing, channel>>

OpenTun(t) ==
    /\ task[t] = "open" /\ device # None /\ ~Open
    /\ Goes(t, "loop") /\ Send(<<"Connected">>)
    /\ Same /\ UNCHANGED <<failing, channel, machine>>

OpenTunFails(t) ==
    /\ task[t] = "open"
    /\ Goes(t, "teardown") /\ failing' = [failing EXCEPT ![t] = TRUE] /\ Silent
    /\ Same /\ UNCHANGED <<channel, machine>>

\* Mutant: only the loop says Disconnecting, when it was told to.
EndLoop_Quiet(t, said, failed) ==
    /\ Goes(t, "teardown") /\ Send(said)
    /\ failing' = [failing EXCEPT ![t] = failed]
    /\ Same /\ UNCHANGED <<ping, machine>>

\* Mutant: the teardown is spawned, not awaited.
EndLoop_Spawned(t, said, failed) ==
    /\ Goes(t, "done") /\ Send(said \o <<"Disconnecting">> \o Reports(failed))
    /\ cleaning' = TRUE
    /\ UNCHANGED <<scene, app, window, failing, ping, machine>>

\* The data loop ends and its fd is closed; the loop itself says Disconnecting
\* once more when it was told to.  A last write may fail.
EndLoop(t, said, failed) ==
    /\ Goes(t, "teardown") /\ Send(said \o <<"Disconnecting">>)
    /\ failing' = [failing EXCEPT ![t] = failed]
    /\ Same /\ UNCHANGED <<ping, machine>>

LoopEnds(t) ==
    /\ task[t] = "loop" /\ \E failed \in BOOLEAN : EndLoop(t, <<>>, failed)
    /\ UNCHANGED commands

\* Mutant: a Disconnect only stops the pings.
TakeCommand_Deaf(t) ==
    /\ task[t] = "loop" /\ commands[t] # <<>>
    /\ commands' = [commands EXCEPT ![t] = Tail(@)]
    /\ ping' = [ping EXCEPT ![t] = (Head(commands[t]) = "KeepaliveOn")]
    /\ Silent /\ Same /\ UNCHANGED <<task, failing, machine>>

\* The arm of cmd_rx.recv().
TakeCommand(t) ==
    /\ task[t] = "loop" /\ commands[t] # <<>>
    /\ LET command == Head(commands[t])
       IN  /\ commands' = [commands EXCEPT ![t] = Tail(@)]
           /\ IF command = "Disconnect"
              THEN \E failed \in BOOLEAN : EndLoop(t, <<"Disconnecting">>, failed)
              ELSE /\ ping' = [ping EXCEPT ![t] = (command = "KeepaliveOn")]
                   /\ Silent /\ Same /\ UNCHANGED <<task, failing, machine>>

\* Mutant: None is not an end.
ChannelCloses_Ignored(t) ==
    /\ task[t] = "loop" /\ commands[t] = <<>> /\ tunnel_cmd_tx # t
    /\ UNCHANGED vars

\* recv() gives None once the sender is dropped and the channel empty.
ChannelCloses(t) ==
    /\ task[t] = "loop" /\ commands[t] = <<>> /\ tunnel_cmd_tx # t
    /\ \E failed \in BOOLEAN : EndLoop(t, <<"Disconnecting">>, failed)
    /\ UNCHANGED commands

\* The task reports the end of the session, whether or not the helper was of use.
Ends(t) ==
    /\ IF app = "exited" THEN Goes(t, "dropped") /\ Silent
       ELSE Goes(t, "done") /\ Send(Reports(failing[t]))
    /\ Same /\ UNCHANGED <<failing, channel>>

\* privilege::teardown takes down whatever bears the name; the device stays while
\* some task has it open.
TakesDown == routed' = FALSE /\ device' = IF Open THEN device ELSE None

\* It is best-effort: the helper is not found, the prompt is refused, a command
\* fails; that is logged, and nobody is told.
TeardownFails == scene.partial /\ routed' \in {FALSE, routed} /\ UNCHANGED device

\* Mutant: the fd is still open when the helper runs.
Teardown_FdOpen(t) ==
    /\ task[t] = "teardown" /\ Ends(t)
    /\ \/ routed' = FALSE /\ UNCHANGED <<device, left>>
       \/ TeardownFails /\ Noted(t)

Teardown(t) ==
    /\ task[t] = "teardown" /\ Ends(t)
    /\ \/ TakesDown /\ UNCHANGED left
       \/ TeardownFails /\ Noted(t)

\* The teardown spawned by the stale device dialog.
CleanUp ==
    /\ cleaning /\ cleaning' = FALSE
    /\ TakesDown \/ TeardownFails
    /\ UNCHANGED <<scene, app, window, status_queue, task, failing, channel, left>>

-----------------------------------------------------------------------------
\* The runtime runs its tasks until it is shut down, helpers outlive it.
Alive == app # "exited"

Step(t) ==
    \/ Alive /\ (Begin(t) \/ Reached(t) \/ Shaken(t) \/ ConnectFails(t))
    \/ Alive /\ (Negotiated(t) \/ NegotiationFails(t))
    \/ Setup(t) \/ SetupFails(t)
    \/ Alive /\ (OpenTun(t) \/ OpenTunFails(t))
    \/ Alive /\ (TakeCommand(t) \/ ChannelCloses(t) \/ LoopEnds(t))
    \/ Teardown(t)

User == \/ \E t \in Tunnels : ClickConnect(t)
        \/ ClickDisconnect \/ ClickKeepalive \/ Activate \/ CloseWindow

Next == User \/ Drain \/ Exit \/ CleanUp \/ \E t \in Tunnels : Step(t)

Spec == Init /\ [][Next]_vars

\* The phases before and after the loop end by themselves, except the TLS
\* handshake, which has no timeout; the loop serves its commands.
Fairness ==
    /\ WF_vars(Drain)
    /\ \A t \in Tunnels :
        /\ WF_vars(Begin(t))
        /\ WF_vars(Negotiated(t) \/ NegotiationFails(t))
        /\ WF_vars(Setup(t) \/ SetupFails(t))
        /\ WF_vars(OpenTun(t) \/ OpenTunFails(t))
        /\ WF_vars(TakeCommand(t)) /\ WF_vars(ChannelCloses(t))
        /\ WF_vars(Teardown(t))

FairSpec == Spec /\ Fairness

-----------------------------------------------------------------------------
TypeOK ==
    /\ scene \in Scenes
    /\ app \in {"running", "closing", "exited"} /\ view \in Buttons
    /\ profile_keepalive \in BOOLEAN /\ tunnel_cmd_tx \in Tunnels \cup {None}
    /\ status_queue \in Seq(TunnelStatus)
    /\ task \in [Tunnels -> Stages] /\ failing \in [Tunnels -> BOOLEAN]
    /\ commands \in [Tunnels -> Seq(TunnelCommand)] /\ ping \in [Tunnels -> BOOLEAN]
    /\ device \in Tunnels \cup {None, Stale} /\ routed \in BOOLEAN
    /\ left \subseteq Tunnels
    /\ cleaning \in BOOLEAN

Settled == status_queue = <<>> /\ app = "running"

\* Once every task is over and its statuses are shown, the user can connect again:
\* whatever the tasks reported, and however they overlapped, no button stays hidden
\* or grey (connection_view.rs 190-342, engine.rs 68-78).
ViewSettles ==
    Settled /\ (\A t \in Tunnels : ~Unfinished(t))
        => view.connect /\ ~view.disconnect /\ view.sensitive

\* The keepalive button shows what the loop does, once both queues are empty: on
\* every connection, whatever it showed on the one before and whatever the profile
\* says (window.rs 273-306, connection_view.rs 272-276).
KeepaliveShown ==
    \A t \in Tunnels :
        Settled /\ task[t] = "loop" /\ commands[t] = <<>> => ping[t] = view.active

\* One connection at a time of a GUI launched once, on a machine where nothing was
\* left.
Quiet == scene.patient /\ ~scene.leftover /\ ~scene.relaunch

\* There the tunnel of a data loop is its own, up and routed: no setup, teardown
\* or cleanup took it away, and none that failed before left it another's
\* (engine.rs 131-200).
TunnelIntact ==
    Quiet => \A t \in Tunnels : task[t] = "loop" => device = t /\ routed

\* As long as the application runs, a task that is over leaves its device behind
\* only where a run of the helper failed for that task, which nobody is told:
\* whatever ended it, whatever the tasks before it left, and whatever device the
\* cleanup of another window takes for a stale one meanwhile (engine.rs 131,
\* 192-200, privilege.rs 213-260).
NothingLeft ==
    scene.patient /\ app # "exited" =>
        \A t \in Tunnels : device = t => Unfinished(t) \/ t \in left

\* Tearing down is given the time to finish when the window is closed (app.rs 58).
ExitTearsDown ==
    app = "exited" /\ (\A t \in Tunnels : ~Unfinished(t)) => device \notin Tunnels

\* "Check for stale tunnel device from a previous crashed session" (window.rs 336):
\* the cleanup is offered for such a device, not for that of a tunnel that is up.
StaleIsStale ==
    [][cleaning' /\ ~cleaning => \A t \in Tunnels : task[t] # "loop"]_vars

\* A Disconnect that reached the task is served before the privileged setup
\* (engine.rs 54-60).
NoSetupAfterDisconnect ==
    [][\A t \in Tunnels :
        "Disconnect" \in {commands[t][i] : i \in DOMAIN commands[t]}
            => ~(task[t] = "negotiate" /\ task'[t] = "setup")]_vars

\* Disconnected is shown of a tunnel that is disconnected (messages.rs 34).
DisconnectedIsDown ==
    Settled /\ view.label = "Disconnected" => \A t \in Tunnels : task[t] # "loop"

\* A Disconnect waiting in the channel of a task that passed its TLS handshake ends
\* that task, whatever phase it finds it in (engine.rs 346-362).
DisconnectServed ==
    \A t \in Tunnels :
        (/\ "Disconnect" \in {commands[t][i] : i \in DOMAIN commands[t]}
         /\ task[t] \in {"negotiate", "setup", "open", "loop", "teardown"})
            ~> ~Unfinished(t)

\* A tunnel whose sender the window replaced, by a second click on Connect, ends
\* by itself: nobody could disconnect it (engine.rs 346-362, window.rs 236-237).
OrphanEnds ==
    \A t \in Tunnels :
        task[t] \in {"negotiate", "setup", "open", "loop"} /\ tunnel_cmd_tx # t
            ~> ~Unfinished(t)

\* What the view tells of the session, where there is one at a time.
Phase ==
    CASE ~scene.patient \/ view.label \in {"Disconnected", "Error", "AuthFailed"} -> "off"
      [] scene.patient /\ view.label \in {"Connecting", "Handshaking", "Negotiating"} ->
            "starting"
      [] scene.patient /\ view.label = "Connected"     -> "on"
      [] scene.patient /\ view.label = "Disconnecting" -> "stopping"

Told == INSTANCE SessionLife WITH phase <- Phase

\* The window tells the life of one session after another (connection_view.rs).
ToldInOrder == Told!Life
=============================================================================
