---------------------------- MODULE GuiEngine_proofs ----------------------------
(***************************************************************************)
(* Theorems of GuiEngine: types for every choice of the constants, and, for *)
(* a GUI that connects when no task is left, that a tunnel in its data loop *)
(* keeps its device, that a task that is over leaves one only where the     *)
(* helper failed it, and that the window is told the life of one session    *)
(* after another.  Tasks may overlap in the rest: what the view shows is    *)
(* what the queue still has to say, and the keepalive button shows what the *)
(* tunnel does.                                                             *)
(***************************************************************************)
EXTENDS GuiEngine, TLAPS, SequenceTheorems

-----------------------------------------------------------------------------
(* Types.                                                                   *)

LEMMA StatusTyped ==
    ASSUME NEW status \in TunnelStatus, NEW b \in Buttons
    PROVE  update_status(status, b) \in Buttons
<1>1. Shows(status, b) \in Buttons
  BY DEF Shows, Buttons
<1>2. /\ [Shows(status, b) EXCEPT !.connect = FALSE, !.disconnect = TRUE] \in Buttons
      /\ [Shows(status, b) EXCEPT !.connect = FALSE, !.disconnect = TRUE,
                                  !.keepalive = TRUE, !.active = FALSE] \in Buttons
      /\ [Shows(status, b) EXCEPT !.sensitive = FALSE] \in Buttons
  BY <1>1 DEF Buttons
<1>3. Failed(status, b) \in Buttons /\ [Failed(status, b) EXCEPT !.sensitive = TRUE] \in Buttons
  BY <1>1 DEF Failed, Buttons
<1>4. QED
  BY <1>1, <1>2, <1>3 DEF update_status

LEMMA CommandTyped ==
    ASSUME TypeOK, NEW sent \in Seq(TunnelCommand), Command(sent)
    PROVE  commands' \in [Tunnels -> Seq(TunnelCommand)]
<1>1. \A t \in Tunnels : commands[t] \in Seq(TunnelCommand)
                         /\ commands[t] \o sent \in Seq(TunnelCommand)
  BY DEF TypeOK
<1>2. QED
  BY <1>1 DEF Command

LEMMA SendTyped ==
    ASSUME TypeOK, NEW said \in Seq(TunnelStatus), Send(said)
    PROVE  status_queue' \in Seq(TunnelStatus)
  BY DEF TypeOK, Send

LEMMA SaidTyped ==
    /\ <<>> \in Seq(TunnelStatus)
    /\ \A s \in TunnelStatus : <<s>> \in Seq(TunnelStatus)
    /\ \A failed \in BOOLEAN : Reports(failed) \in Seq(TunnelStatus)
    /\ <<"Error", "Disconnected">> \in Seq(TunnelStatus)
    /\ <<"Negotiating", "AuthFailed">> \in Seq(TunnelStatus)
<1>1. {"Error", "Disconnected", "Negotiating", "AuthFailed"} \subseteq TunnelStatus
  BY DEF TunnelStatus
<1>2. <<"Error", "Disconnected">> \in Seq(TunnelStatus) /\ <<"Disconnected">> \in Seq(TunnelStatus)
  BY <1>1
<1>3. <<"Negotiating", "AuthFailed">> \in Seq(TunnelStatus)
  BY <1>1
<1>4. \A failed \in BOOLEAN : Reports(failed) \in Seq(TunnelStatus)
  BY <1>2 DEF Reports
<1>5. <<>> \in Seq(TunnelStatus) /\ \A s \in TunnelStatus : <<s>> \in Seq(TunnelStatus)
  OBVIOUS
<1>6. QED
  BY <1>2, <1>3, <1>4, <1>5

LEMMA InitTyped == Init => TypeOK
<1> SUFFICES ASSUME Init
             PROVE  TypeOK
  OBVIOUS
<1>1. view \in Buttons
  BY DEF Init, Buttons, TunnelStatus
<1>2. cleaning \in BOOLEAN /\ device \in Tunnels \cup {None, Stale}
  BY DEF Init
<1>3. commands \in [Tunnels -> Seq(TunnelCommand)] /\ status_queue \in Seq(TunnelStatus)
  BY DEF Init
<1>4. QED
  BY <1>1, <1>2, <1>3 DEF Init, TypeOK, Stages

LEMMA UserTyped == TypeOK /\ User => TypeOK'
<1> SUFFICES ASSUME TypeOK, User
             PROVE  TypeOK'
  OBVIOUS
<1>1. ASSUME NEW t \in Tunnels, ClickConnect(t)
      PROVE  TypeOK'
  <2>1. profile_keepalive' \in BOOLEAN
    <3>1. scene.pings \in BOOLEAN
      BY GuiConstants DEF TypeOK, Scene
    <3>2. QED
      BY <1>1, <3>1 DEF ClickConnect
  <2>2. QED
    BY <1>1, <2>1 DEF ClickConnect, TypeOK, Stages, channel, machine
<1>2. CASE ClickDisconnect
  <2>1. <<"Disconnect">> \in Seq(TunnelCommand)
    BY DEF TunnelCommand
  <2>2. QED
    BY <1>2, <2>1, CommandTyped DEF ClickDisconnect, TypeOK, window, machine
<1>3. CASE ClickKeepalive
  <2>1. <<IF view.active THEN "KeepaliveOff" ELSE "KeepaliveOn">> \in Seq(TunnelCommand)
    BY DEF TunnelCommand
  <2>2. [view EXCEPT !.active = ~@] \in Buttons
    <3>1. view \in Buttons /\ (~view.active) \in BOOLEAN
      BY DEF TypeOK
    <3>2. QED
      BY <3>1 DEF Buttons
  <2>3. QED
    BY <1>3, <2>1, <2>2, CommandTyped DEF ClickKeepalive, TypeOK, machine
<1>4. CASE CloseWindow
  BY <1>4 DEF CloseWindow, TypeOK, channel, machine
<1>5. CASE Activate
  BY <1>5 DEF Activate, TypeOK, window, channel, machine
<1>6. QED
  BY <1>1, <1>2, <1>3, <1>4, <1>5 DEF User

LEMMA DrainTyped == TypeOK /\ Drain => TypeOK'
<1> SUFFICES ASSUME TypeOK, Drain
             PROVE  TypeOK'
  OBVIOUS
<1> DEFINE status == Head(status_queue)
           shown  == update_status(status, view)
<1>1. status \in TunnelStatus /\ Tail(status_queue) \in Seq(TunnelStatus)
  BY DEF TypeOK, Drain
<1>2. shown \in Buttons /\ [shown EXCEPT !.active = TRUE] \in Buttons
  <2>1. shown \in Buttons
    BY <1>1, StatusTyped DEF TypeOK
  <2>2. QED
    BY <2>1 DEF Buttons
<1>3. view' \in Buttons
  BY <1>2 DEF Drain
<1>4. Toggles(status) \in Seq(TunnelCommand)
  <2>1. <<>> \in Seq(TunnelCommand) /\ <<"KeepaliveOff">> \in Seq(TunnelCommand)
        /\ <<"KeepaliveOn">> \in Seq(TunnelCommand)
    BY DEF TunnelCommand
  <2> DEFINE off == IF view.active THEN <<"KeepaliveOff">> ELSE <<>>
             on  == IF profile_keepalive THEN <<"KeepaliveOn">> ELSE <<>>
  <2>2. off \in Seq(TunnelCommand) /\ on \in Seq(TunnelCommand)
    BY <2>1
  <2> HIDE DEF off, on
  <2>3. off \o on \in Seq(TunnelCommand)
    BY <2>2
  <2>4. QED
    BY <2>1, <2>3 DEF Toggles, off, on
<1>5. commands' \in [Tunnels -> Seq(TunnelCommand)]
  BY <1>4, CommandTyped DEF Drain
<1>6. QED
  BY <1>1, <1>3, <1>5 DEF Drain, TypeOK, machine

\* A step of a task.
LEMMA TaskTyped ==
    ASSUME TypeOK, NEW t \in Tunnels, NEW to \in Stages, Goes(t, to), Same,
           status_queue' \in Seq(TunnelStatus), failing' \in [Tunnels -> BOOLEAN],
           commands' \in [Tunnels -> Seq(TunnelCommand)], ping' \in [Tunnels -> BOOLEAN],
           device' \in Tunnels \cup {None, Stale}, routed' \in BOOLEAN,
           left' \subseteq Tunnels
    PROVE  TypeOK'
<1>1. task' \in [Tunnels -> Stages]
  BY DEF TypeOK, Goes
<1>2. UNCHANGED <<scene, app, view, profile_keepalive, tunnel_cmd_tx, cleaning>>
  BY DEF Same, window
<1>3. QED
  BY <1>1, <1>2 DEF TypeOK

\* One that changes neither its channel nor the machine.
LEMMA MovesTyped ==
    ASSUME TypeOK, NEW t \in Tunnels, NEW to \in Stages, Goes(t, to), Same,
           NEW said \in Seq(TunnelStatus), Send(said), UNCHANGED <<failing, channel, machine>>
    PROVE  TypeOK'
<1>1. status_queue' \in Seq(TunnelStatus)
  BY SendTyped
<1>2. /\ failing' \in [Tunnels -> BOOLEAN] /\ ping' \in [Tunnels -> BOOLEAN]
      /\ commands' \in [Tunnels -> Seq(TunnelCommand)]
      /\ device' \in Tunnels \cup {None, Stale} /\ routed' \in BOOLEAN
      /\ left' \subseteq Tunnels
  BY DEF TypeOK, channel, machine
<1>3. QED
  BY <1>1, <1>2, TaskTyped

LEMMA ReturnsTyped ==
    ASSUME TypeOK, NEW t \in Tunnels, NEW said \in Seq(TunnelStatus), Returns(t, said)
    PROVE  TypeOK'
<1>1. Reports(TRUE) \in Seq(TunnelStatus)
  BY SaidTyped
<1>2. \A a, b \in Seq(TunnelStatus) : a \o b \in Seq(TunnelStatus)
  OBVIOUS
<1>3. said \o Reports(TRUE) \in Seq(TunnelStatus) /\ "done" \in Stages
  BY <1>1, <1>2 DEF Stages
<1>4. QED
  BY <1>3, MovesTyped DEF Returns

LEMMA EndLoopTyped ==
    ASSUME TypeOK, NEW t \in Tunnels, NEW said \in Seq(TunnelStatus), NEW failed \in BOOLEAN,
           EndLoop(t, said, failed), commands' \in [Tunnels -> Seq(TunnelCommand)]
    PROVE  TypeOK'
<1>1. said \o <<"Disconnecting">> \in Seq(TunnelStatus) /\ "teardown" \in Stages
  BY DEF TunnelStatus, Stages
<1>2. failing' \in [Tunnels -> BOOLEAN]
  BY DEF EndLoop, TypeOK
<1>3. QED
  BY <1>1, <1>2, SendTyped, TaskTyped DEF EndLoop, TypeOK, machine

\* The end of a helper's run.
LEMMA HelperEndsTyped ==
    ASSUME TypeOK, NEW t \in Tunnels, NEW failed \in BOOLEAN,
           IF app = "exited" THEN Goes(t, "dropped") /\ Silent
                             ELSE Goes(t, "done") /\ Send(Reports(failed)),
           Same, UNCHANGED <<failing, channel>>,
           device' \in Tunnels \cup {None, Stale}, routed' \in BOOLEAN,
           left' \subseteq Tunnels
    PROVE  TypeOK'
<1>1. status_queue' \in Seq(TunnelStatus)
  BY SendTyped, SaidTyped DEF Silent, TypeOK
<1>2. (\E to \in Stages : Goes(t, to))
  BY DEF Stages
<1>3. QED
  BY <1>1, <1>2, TaskTyped DEF TypeOK, channel

LEMMA StepTyped == ASSUME TypeOK, NEW t \in Tunnels, Step(t) PROVE TypeOK'
<1>1. CASE Begin(t) \/ Reached(t) \/ Shaken(t) \/ Negotiated(t)
  BY <1>1, SaidTyped, MovesTyped
  DEF Begin, Reached, Shaken, Negotiated, Moves, Stages, TunnelStatus
<1>2. CASE ConnectFails(t) \/ NegotiationFails(t)
  BY <1>2, SaidTyped, ReturnsTyped DEF ConnectFails, NegotiationFails, TunnelStatus
<1>3. CASE Setup(t)
  <2>1. \E to \in Stages : Goes(t, to)
    BY <1>3 DEF Setup, Stages
  <2>2. QED
    BY <1>3, <2>1, TaskTyped DEF Setup, Silent, TypeOK, channel
<1>4. CASE SetupFails(t)
  <2>1. device' \in Tunnels \cup {None, Stale}
    BY <1>4 DEF SetupFails, Leftovers, TypeOK
  <2>2. routed' \in BOOLEAN
    BY <1>4 DEF SetupFails
  <2>3. left' \subseteq Tunnels
    BY <1>4 DEF SetupFails, Noted, TypeOK
  <2>4. QED
    BY <1>4, <2>1, <2>2, <2>3, HelperEndsTyped DEF SetupFails
<1>5. CASE OpenTun(t)
  BY <1>5, SaidTyped, MovesTyped DEF OpenTun, Stages, TunnelStatus
<1>6. CASE OpenTunFails(t)
  <2>1. failing' \in [Tunnels -> BOOLEAN]
    BY <1>6 DEF OpenTunFails, TypeOK
  <2>2. QED
    BY <1>6, <2>1, TaskTyped DEF OpenTunFails, Silent, TypeOK, channel, machine, Stages
<1>7. CASE TakeCommand(t)
  <2>1. commands[t] \in Seq(TunnelCommand) /\ Tail(commands[t]) \in Seq(TunnelCommand)
    BY <1>7 DEF TakeCommand, TypeOK
  <2>2. commands' \in [Tunnels -> Seq(TunnelCommand)]
    BY <1>7, <2>1 DEF TakeCommand, TypeOK
  <2>3. CASE \E failed \in BOOLEAN : EndLoop(t, <<"Disconnecting">>, failed)
    BY <2>2, <2>3, SaidTyped, EndLoopTyped DEF TunnelStatus
  <2>4. CASE /\ ping' = [ping EXCEPT ![t] = (Head(commands[t]) = "KeepaliveOn")]
             /\ Silent /\ Same /\ UNCHANGED <<task, failing, machine>>
    <3>1. ping' \in [Tunnels -> BOOLEAN]
      BY <2>4 DEF TypeOK
    <3>2. QED
      BY <2>2, <2>4, <3>1 DEF TypeOK, Silent, Same, window, machine
  <2>5. QED
    BY <1>7, <2>3, <2>4 DEF TakeCommand
<1>8. CASE ChannelCloses(t)
  BY <1>8, SaidTyped, EndLoopTyped DEF ChannelCloses, TypeOK, TunnelStatus
<1>9. CASE LoopEnds(t)
  BY <1>9, SaidTyped, EndLoopTyped DEF LoopEnds, TypeOK
<1>10. CASE Teardown(t)
  <2>1. /\ device' \in Tunnels \cup {None, Stale} /\ routed' \in BOOLEAN
        /\ left' \subseteq Tunnels /\ failing[t] \in BOOLEAN
    BY <1>10 DEF Teardown, TakesDown, TeardownFails, Noted, TypeOK
  <2>2. QED
    BY <1>10, <2>1, HelperEndsTyped DEF Teardown, Ends
<1>11. QED
  BY <1>1, <1>2, <1>3, <1>4, <1>5, <1>6, <1>7, <1>8, <1>9, <1>10 DEF Step

LEMMA InductiveTyped == TypeOK /\ [Next]_vars => TypeOK'
<1>1. TypeOK /\ Exit => TypeOK'
  <2> SUFFICES ASSUME TypeOK, Exit
               PROVE  TypeOK'
    OBVIOUS
  <2>1. task' \in [Tunnels -> Stages]
    BY DEF Exit, TypeOK, Stages
  <2>2. QED
    BY <2>1 DEF Exit, TypeOK, window, channel, machine
<1>2. TypeOK /\ CleanUp => TypeOK'
  BY DEF CleanUp, TakesDown, TeardownFails, TypeOK, window, channel
<1>3. TypeOK /\ UNCHANGED vars => TypeOK'
  BY DEF vars, TypeOK
<1>4. QED
  BY <1>1, <1>2, <1>3, UserTyped, DrainTyped, StepTyped DEF Next

\* Every variable keeps to its type.
THEOREM TypesKept == Spec => []TypeOK
<1>1. TypeOK /\ [Next]_vars => TypeOK'
  BY InductiveTyped
<1>2. QED
  BY InitTyped, <1>1, PTL DEF Spec

-----------------------------------------------------------------------------
(* One connection at a time of a GUI launched once, where nothing was left: *)
(* the device of a task that is past its setup is its own.                  *)

Single == \A t, u \in Tunnels : Unfinished(t) /\ Unfinished(u) => t = u

HasDevice == \A t \in Tunnels : task[t] \in {"open", "loop"} => device = t /\ routed

Alone == TypeOK /\ ~cleaning /\ Single /\ HasDevice

\* The one task goes on, or ends: no other comes.
LEMMA GoesKeepsSingle ==
    ASSUME TypeOK, Single, NEW t \in Tunnels, Unfinished(t), NEW to, Goes(t, to)
    PROVE  /\ Single'
           /\ task'[t] = to
           /\ \A u \in Tunnels \ {t} : task'[u] = task[u] /\ ~Unfinished(u) /\ ~Unfinished(u)'
  BY DEF TypeOK, Single, Goes, Unfinished

\* What any step of a task does to the tasks.
LEMMA StepGoes ==
    ASSUME TypeOK, NEW t \in Tunnels, Step(t)
    PROVE  /\ Unfinished(t) /\ UNCHANGED <<scene, app>>
           /\ \E to \in Stages : Goes(t, to)
           /\ UNCHANGED cleaning
<1>1. UNCHANGED task => Goes(t, task[t]) /\ task[t] \in Stages
  BY DEF TypeOK, Goes
<1>2. CASE Begin(t) \/ Reached(t) \/ Shaken(t) \/ Negotiated(t)
  BY <1>2 DEF Begin, Reached, Shaken, Negotiated, Moves, Same, Unfinished, Stages
<1>3. CASE ConnectFails(t) \/ NegotiationFails(t)
  BY <1>3 DEF ConnectFails, NegotiationFails, Returns, Same, Unfinished, Stages
<1>4. CASE Setup(t) \/ SetupFails(t) \/ Teardown(t)
  BY <1>4 DEF Setup, SetupFails, Teardown, Ends, Same, Unfinished, Stages
<1>5. CASE OpenTun(t) \/ OpenTunFails(t)
  BY <1>5 DEF OpenTun, OpenTunFails, Same, Unfinished, Stages
<1>6. CASE TakeCommand(t)
  <2>1. Unfinished(t)
    BY <1>6 DEF TakeCommand, Unfinished
  <2>2. CASE \E failed \in BOOLEAN : EndLoop(t, <<"Disconnecting">>, failed)
    BY <2>1, <2>2 DEF EndLoop, Same, Stages
  <2>3. CASE Same /\ UNCHANGED task
    BY <1>1, <2>1, <2>3 DEF Same
  <2>4. QED
    BY <1>6, <2>2, <2>3 DEF TakeCommand
<1>7. CASE ChannelCloses(t) \/ LoopEnds(t)
  BY <1>7 DEF ChannelCloses, LoopEnds, EndLoop, Same, Unfinished, Stages
<1>8. QED
  BY <1>2, <1>3, <1>4, <1>5, <1>6, <1>7 DEF Step

LEMMA StepKeepsView ==
    ASSUME NEW t \in Tunnels, Step(t)
    PROVE  UNCHANGED window
<1>1. CASE ~TakeCommand(t)
  BY <1>1 DEF Step, Begin, Reached, Shaken, Negotiated, Moves, ConnectFails, NegotiationFails,
         Returns, Setup, SetupFails, Teardown, Ends, OpenTun, OpenTunFails, ChannelCloses,
         LoopEnds, EndLoop, Same
<1>2. CASE TakeCommand(t)
  BY <1>2 DEF TakeCommand, EndLoop, Same
<1>3. QED
  BY <1>1, <1>2

\* A step other than a helper's leaves the device, and comes to no stage that needs
\* one but from the stage before.
LEMMA OwnSteps ==
    ASSUME TypeOK, NEW t \in Tunnels, Step(t), ~Setup(t), ~SetupFails(t), ~Teardown(t)
    PROVE  /\ UNCHANGED machine
           /\ task'[t] \in {"open", "loop"} => task[t] \in {"open", "loop"}
           /\ task[t] \in {"open", "loop", "teardown"}
                => task'[t] \in {"open", "loop", "teardown"}
<1>1. CASE Begin(t) \/ Reached(t) \/ Shaken(t) \/ Negotiated(t)
  BY <1>1 DEF TypeOK, Begin, Reached, Shaken, Negotiated, Moves, Goes
<1>2. CASE ConnectFails(t) \/ NegotiationFails(t)
  BY <1>2 DEF TypeOK, ConnectFails, NegotiationFails, Returns, Goes
<1>3. CASE OpenTun(t) \/ OpenTunFails(t)
  BY <1>3 DEF TypeOK, OpenTun, OpenTunFails, Goes
<1>4. CASE TakeCommand(t)
  <2>1. CASE \E failed \in BOOLEAN : EndLoop(t, <<"Disconnecting">>, failed)
    BY <2>1 DEF TypeOK, EndLoop, Goes
  <2>2. CASE UNCHANGED <<task, failing, machine>>
    BY <2>2
  <2>3. QED
    BY <1>4, <2>1, <2>2 DEF TakeCommand
<1>5. CASE ChannelCloses(t) \/ LoopEnds(t)
  BY <1>5 DEF TypeOK, ChannelCloses, LoopEnds, EndLoop, Goes
<1>6. QED
  BY <1>1, <1>2, <1>3, <1>4, <1>5 DEF Step

LEMMA InitAlone == Quiet /\ Init => Alone
<1> SUFFICES ASSUME Quiet, Init
             PROVE  Alone
  OBVIOUS
<1>1. ~cleaning
  BY GuiConstants DEF Init, Quiet
<1>2. \A t \in Tunnels : task[t] = "none"
  BY DEF Init
<1>3. QED
  BY <1>1, <1>2, InitTyped DEF Alone, Single, HasDevice, Unfinished

LEMMA StepAlone == ASSUME Alone, NEW t \in Tunnels, Step(t) PROVE Alone'
<1>1. PICK to \in Stages : Goes(t, to)
  BY StepGoes DEF Alone
<1>2. Unfinished(t) /\ ~cleaning'
  BY StepGoes DEF Alone
<1>3. Single' /\ \A u \in Tunnels \ {t} : ~Unfinished(u)'
  BY <1>1, <1>2, GoesKeepsSingle DEF Alone
<1>4. task'[t] \in {"open", "loop"} => device' = t /\ routed'
  <2>1. CASE Setup(t)
    BY <2>1 DEF Setup
  <2>2. CASE SetupFails(t) \/ Teardown(t)
    BY <2>2 DEF SetupFails, Teardown, Ends, Goes, Alone, TypeOK
  <2>3. CASE ~Setup(t) /\ ~SetupFails(t) /\ ~Teardown(t)
    BY <2>3, OwnSteps DEF Alone, HasDevice, machine
  <2>4. QED
    BY <2>1, <2>2, <2>3
<1>5. HasDevice'
  BY <1>3, <1>4 DEF HasDevice, Unfinished
<1>6. QED
  BY <1>2, <1>3, <1>5, StepTyped DEF Alone

\* Nothing but a task touches the device; the only click that makes a task waits
\* for the one before.
LEMMA OthersAlone ==
    ASSUME Quiet, Alone, User \/ Drain \/ Exit \/ CleanUp \/ UNCHANGED vars
    PROVE  Alone'
<1>1. TypeOK'
  BY InductiveTyped DEF Alone, Next
<1>2. CASE UNCHANGED <<task, machine, cleaning>>
  BY <1>1, <1>2 DEF Alone, Single, HasDevice, Unfinished, machine
<1>3. ASSUME NEW t \in Tunnels, ClickConnect(t)
      PROVE  Alone'
  <2>1. \A u \in Tunnels : ~Unfinished(u)
    BY <1>3 DEF ClickConnect, Quiet
  <2>2. \A u \in Tunnels : task'[u] = IF u = t THEN "spawned" ELSE task[u]
    BY <1>3 DEF ClickConnect, Alone, TypeOK
  <2>3. UNCHANGED <<machine, cleaning>>
    BY <1>3 DEF ClickConnect
  <2>4. \A u \in Tunnels : Unfinished(u)' => u = t
    BY <2>1, <2>2 DEF Unfinished
  <2>5. \A u \in Tunnels : task'[u] \notin {"open", "loop"}
    BY <2>1, <2>2 DEF Unfinished
  <2>6. QED
    BY <1>1, <2>3, <2>4, <2>5 DEF Alone, Single, HasDevice
<1>4. CASE Exit
  <2>1. \A u \in Tunnels : task'[u] = task[u] \/ task'[u] = "dropped"
    BY <1>4 DEF Exit, Alone, TypeOK
  <2>2. UNCHANGED <<machine, cleaning>>
    BY <1>4 DEF Exit
  <2>3. QED
    BY <1>1, <2>1, <2>2 DEF Alone, Single, HasDevice, Unfinished, machine
<1>5. CASE CleanUp
  BY <1>5 DEF CleanUp, Alone
<1>6. CASE ClickDisconnect \/ ClickKeepalive \/ CloseWindow \/ Drain \/ UNCHANGED vars
  <2>1. UNCHANGED <<task, machine, cleaning>>
    BY <1>6 DEF ClickDisconnect, ClickKeepalive, CloseWindow, Drain, vars, machine
  <2>2. QED
    BY <1>2, <2>1
<1>7. ~Activate
  BY DEF Activate, Quiet
<1>8. QED
  BY <1>3, <1>4, <1>5, <1>6, <1>7 DEF User

LEMMA InductiveAlone == Quiet /\ Alone /\ [Next]_vars => Alone'
<1>1. CASE \E t \in Tunnels : Step(t)
  BY <1>1, StepAlone
<1>2. CASE User \/ Drain \/ Exit \/ CleanUp \/ UNCHANGED vars
  BY <1>2, OthersAlone
<1>3. QED
  BY <1>1, <1>2 DEF Next

\* The scene of a behaviour stays what it is.
LEMMA SceneStays == TypeOK /\ [Next]_vars => UNCHANGED scene
<1> SUFFICES ASSUME TypeOK, [Next]_vars
             PROVE  scene' = scene
  OBVIOUS
<1>1. CASE \E t \in Tunnels : Step(t)
  BY <1>1, StepGoes
<1>2. CASE User
  BY <1>2 DEF User, ClickConnect, ClickDisconnect, ClickKeepalive, Activate, CloseWindow
<1>3. CASE Drain \/ Exit \/ CleanUp \/ UNCHANGED vars
  BY <1>3 DEF Drain, Exit, CleanUp, vars
<1>4. QED
  BY <1>1, <1>2, <1>3 DEF Next

LEMMA QuietStays == TypeOK /\ [Next]_vars /\ Quiet' => Quiet
  BY SceneStays DEF Quiet

\* A GUI launched once, whose user waits for a task to end before the next click on
\* Connect, with no device of an earlier run, never has the device of a running
\* data loop taken away or its routes removed, whatever setup or teardown failed
\* before.
THEOREM LoopKeepsTunnel == Spec => []TunnelIntact
<1>1. Init => (Quiet => Alone)
  BY InitAlone
<1>2. (Quiet => Alone) /\ TypeOK /\ [Next]_vars => (Quiet => Alone)'
  BY InductiveAlone, QuietStays
<1>3. (Quiet => Alone) => TunnelIntact
  BY DEF Alone, HasDevice, TunnelIntact
<1>4. QED
  BY TypesKept, <1>1, <1>2, <1>3, PTL DEF Spec

\* What leaves tasks, statuses and label alone leaves the line of a task alone.
LEMMA OtherSteps ==
    ASSUME TypeOK, ClickDisconnect \/ ClickKeepalive \/ Activate \/ CleanUp \/ UNCHANGED vars
    PROVE  UNCHANGED <<app, task, status_queue>> /\ view'.label = view.label
<1>1. CASE ClickKeepalive
  BY <1>1 DEF ClickKeepalive, TypeOK, Buttons
<1>2. CASE ClickDisconnect \/ Activate \/ CleanUp \/ UNCHANGED vars
  BY <1>2 DEF ClickDisconnect, Activate, CleanUp, window, vars
<1>3. QED
  BY <1>1, <1>2

OneTask == scene.patient => Single

LEMMA InductiveOneTask == TypeOK /\ OneTask /\ [Next]_vars => OneTask'
<1> SUFFICES ASSUME TypeOK, Single, scene.patient, [Next]_vars
             PROVE  Single'
  BY SceneStays DEF OneTask
<1>1. ASSUME NEW t \in Tunnels, Step(t)
      PROVE  Single'
  BY <1>1, StepGoes, GoesKeepsSingle
<1>2. ASSUME NEW t \in Tunnels, ClickConnect(t)
      PROVE  Single'
  BY <1>2 DEF ClickConnect, TypeOK, Single, Unfinished
<1>3. CASE Exit
  BY <1>3 DEF Exit, TypeOK, Single, Unfinished
<1>4. CASE UNCHANGED task
  BY <1>4 DEF Single, Unfinished
<1>5. QED
  BY <1>1, <1>2, <1>3, <1>4, OtherSteps DEF Next, User, CloseWindow, Drain

\* A task that has the device will still tear it down, or the helper failed it.
Kept == \A t \in Tunnels : device = t => task[t] \in {"open", "loop", "teardown"} \/ t \in left

LEMMA StepKept ==
    ASSUME TypeOK, Single, Kept, app # "exited", NEW t \in Tunnels, Step(t)
    PROVE  Kept'
<1>1. PICK to \in Stages : Goes(t, to)
  BY StepGoes
<1>2. Unfinished(t) /\ task'[t] = to
  BY <1>1, StepGoes, GoesKeepsSingle
<1>3. \A u \in Tunnels \ {t} : task'[u] = task[u] /\ ~Unfinished(u)
  BY <1>1, <1>2, GoesKeepsSingle
<1>4. \A u \in Tunnels \ {t} : device = u => u \in left
  BY <1>3 DEF Kept, Unfinished
<1>5. CASE Setup(t)
  BY <1>5 DEF Setup, Goes, Kept, TypeOK
<1>6. CASE SetupFails(t)
  <2>1. /\ device' = t => t \in left'
        /\ left \subseteq left' /\ device' \in {device, None, t}
    BY <1>6 DEF SetupFails, Leftovers, Noted
  <2>2. QED
    BY <1>4, <2>1, GuiConstants DEF Kept
<1>7. CASE Teardown(t)
  <2>1. ~Open
    BY <1>3, <1>7 DEF Teardown, Open, Unfinished
  <2>2. device' = None \/ (device' = device /\ (device' = t => t \in left'))
    BY <1>7, <2>1 DEF Teardown, TakesDown, TeardownFails, Noted
  <2>3. left \subseteq left'
    BY <1>7 DEF Teardown, Noted
  <2>4. QED
    BY <1>4, <2>2, <2>3, GuiConstants DEF Kept
<1>8. CASE ~Setup(t) /\ ~SetupFails(t) /\ ~Teardown(t)
  BY <1>3, <1>4, <1>8, OwnSteps DEF Kept, machine
<1>9. QED
  BY <1>5, <1>6, <1>7, <1>8

LEMMA InductiveKept ==
    ASSUME TypeOK, Single, app # "exited" => Kept, [Next]_vars
    PROVE  app' # "exited" => Kept'
<1>1. ASSUME NEW t \in Tunnels, Step(t)
      PROVE  app' # "exited" => Kept'
  <2>1. UNCHANGED app
    BY <1>1, StepGoes
  <2>2. QED
    BY <1>1, <2>1, StepKept
<1>2. ASSUME NEW t \in Tunnels, ClickConnect(t)
      PROVE  app' # "exited" => Kept'
  <2>1. UNCHANGED <<app, machine>> /\ task[t] = "none"
    BY <1>2 DEF ClickConnect
  <2>2. \A u \in Tunnels \ {t} : task'[u] = task[u]
    BY <1>2 DEF ClickConnect, TypeOK
  <2>3. QED
    BY <2>1, <2>2 DEF Kept, machine
<1>3. CASE ClickDisconnect \/ ClickKeepalive \/ Activate \/ Drain \/ UNCHANGED vars
  <2>1. UNCHANGED <<app, task, machine>>
    BY <1>3 DEF ClickDisconnect, ClickKeepalive, Activate, Drain, vars, machine
  <2>2. QED
    BY <2>1 DEF Kept, machine
<1>4. CASE CloseWindow
  BY <1>4, GuiConstants DEF CloseWindow, Kept, machine
<1>5. CASE Exit
  BY <1>5 DEF Exit
<1>6. CASE CleanUp
  <2>1. UNCHANGED <<app, task, left>> /\ device' \in {device, None}
    BY <1>6 DEF CleanUp, TakesDown, TeardownFails
  <2>2. QED
    BY <2>1, GuiConstants DEF Kept
<1>7. QED
  BY <1>1, <1>2, <1>3, <1>4, <1>5, <1>6 DEF Next, User

PatientKept == OneTask /\ (scene.patient /\ app # "exited" => Kept)

LEMMA InductivePatientKept == TypeOK /\ PatientKept /\ [Next]_vars => PatientKept'
<1> SUFFICES ASSUME TypeOK, PatientKept, [Next]_vars
             PROVE  PatientKept'
  OBVIOUS
<1>1. OneTask' /\ UNCHANGED scene
  BY InductiveOneTask, SceneStays DEF PatientKept
<1>2. CASE scene.patient
  BY <1>1, <1>2, InductiveKept DEF PatientKept, OneTask
<1>3. QED
  BY <1>1, <1>2 DEF PatientKept

\* Until the application ends, the device of a task that is over is one that a failed
\* run of the helper left, its setup's or its teardown's: whatever ended the task
\* after its setup, the teardown comes before the end.
THEOREM NoDeviceLeft == Spec => []NothingLeft
<1>1. Init => PatientKept
  <2>1. Init => \A t \in Tunnels : device # t /\ task[t] = "none"
    BY GuiConstants DEF Init
  <2>2. QED
    BY <2>1 DEF PatientKept, OneTask, Single, Kept, Unfinished
<1>2. PatientKept => NothingLeft
  BY DEF PatientKept, Kept, NothingLeft, Unfinished
<1>3. QED
  BY TypesKept, InductivePatientKept, <1>1, <1>2, PTL DEF Spec

-----------------------------------------------------------------------------
(* The statuses on their way.  What the label will tell of is a line: what  *)
(* it shows, then what waits in the queue.                                  *)

\* The last of the line.
LastOf(label, queue) == IF queue = <<>> THEN label ELSE queue[Len(queue)]

LEMMA LastSent ==
    ASSUME NEW label, NEW queue \in Seq(TunnelStatus), NEW s \in TunnelStatus
    PROVE  LastOf(label, queue \o <<s>>) = s
<1>1. <<s>> \in Seq(TunnelStatus) /\ Len(<<s>>) = 1 /\ <<s>>[1] = s
  OBVIOUS
<1>2. Len(queue \o <<s>>) = Len(queue) + 1 /\ (queue \o <<s>>)[Len(queue) + 1] = s
  BY <1>1, ConcatProperties, LenProperties
<1>3. queue \o <<s>> # <<>>
  BY <1>2, LenProperties
<1>4. QED
  BY <1>2, <1>3 DEF LastOf

LEMMA LastDrained ==
    ASSUME NEW label, NEW queue \in Seq(TunnelStatus), queue # <<>>
    PROVE  LastOf(Head(queue), Tail(queue)) = LastOf(label, queue)
<1>1. /\ Len(queue) \in Nat /\ Len(queue) >= 1 /\ Len(Tail(queue)) = Len(queue) - 1
      /\ \A i \in 1 .. Len(Tail(queue)) : Tail(queue)[i] = queue[i + 1]
  BY HeadTailProperties, LenProperties, EmptySeq
<1>2. Head(queue) = queue[1]
  OBVIOUS
<1>3. Tail(queue) = <<>> <=> Len(queue) = 1
  <2>1. Tail(queue) \in Seq(TunnelStatus)
    BY HeadTailProperties
  <2>2. Tail(queue) = <<>> <=> Len(Tail(queue)) = 0
    BY <2>1, EmptySeq
  <2>3. QED
    BY <1>1, <2>2
<1>4. QED
  BY <1>1, <1>2, <1>3 DEF LastOf

LEMMA TwoSaid ==
    ASSUME NEW a \in TunnelStatus, NEW b \in TunnelStatus
    PROVE  <<a>> \o <<b>> = <<a, b>>
<1>1. <<a>> \in Seq(TunnelStatus) /\ <<b>> \in Seq(TunnelStatus)
  OBVIOUS
<1>2. /\ Len(<<a>>) = 1 /\ <<a>>[1] = a /\ Len(<<b>>) = 1 /\ <<b>>[1] = b
      /\ <<a, b>> \in Seq(TunnelStatus) /\ Len(<<a, b>>) = 2
      /\ <<a, b>>[1] = a /\ <<a, b>>[2] = b
  OBVIOUS
<1> DEFINE ab == <<a>> \o <<b>>
<1>3. ab \in Seq(TunnelStatus) /\ Len(ab) = 2 /\ ab[1] = a /\ ab[2] = b
  BY <1>1, <1>2, ConcatProperties
<1> HIDE DEF ab
<1>4. \A i \in 1 .. Len(ab) : ab[i] = <<a, b>>[i]
  BY <1>2, <1>3
<1>5. ab = <<a, b>>
  BY <1>2, <1>3, <1>4, SeqEqual
<1>6. QED
  BY <1>5 DEF ab

\* One status after another.
LEMMA ThenOne ==
    ASSUME NEW queue \in Seq(TunnelStatus), NEW said \in Seq(TunnelStatus),
           NEW a \in TunnelStatus
    PROVE  queue \o (said \o <<a>>) = (queue \o said) \o <<a>>
<1>1. <<a>> \in Seq(TunnelStatus)
  OBVIOUS
<1>2. QED
  BY <1>1, ConcatAssociative

LEMMA ThenTwo ==
    ASSUME NEW queue \in Seq(TunnelStatus), NEW said \in Seq(TunnelStatus),
           NEW a \in TunnelStatus, NEW b \in TunnelStatus
    PROVE  queue \o (said \o <<a, b>>) = ((queue \o said) \o <<a>>) \o <<b>>
<1>1. <<a>> \in Seq(TunnelStatus) /\ said \o <<a>> \in Seq(TunnelStatus)
  OBVIOUS
<1>2. said \o <<a, b>> = said \o (<<a>> \o <<b>>)
  BY TwoSaid
<1>3. said \o (<<a>> \o <<b>>) = (said \o <<a>>) \o <<b>>
  BY <1>1, ThenOne
<1>4. queue \o ((said \o <<a>>) \o <<b>>) = (queue \o (said \o <<a>>)) \o <<b>>
  BY <1>1, ThenOne
<1>5. queue \o (said \o <<a>>) = (queue \o said) \o <<a>>
  BY ThenOne
<1>6. QED
  BY <1>2, <1>3, <1>4, <1>5

\* What a task of a running application sends with a step: nothing, one status, two
\* when the loop ends on a command, and when it is over what went wrong, then
\* Disconnected.
Silently(t) ==
    /\ UNCHANGED status_queue
    /\ <<task[t], task'[t]>> \in {<<"tcp", "tls">>, <<"setup", "open">>,
                                  <<"open", "teardown">>, <<"loop", "loop">>}

Says(t, s) ==
    /\ status_queue' = status_queue \o <<s>>
    /\ \/ task[t] = "spawned"   /\ s = "Connecting"    /\ task'[t] = "tcp"
       \/ task[t] = "tls"       /\ s = "Handshaking"   /\ task'[t] = "negotiate"
       \/ task[t] = "negotiate" /\ s = "Negotiating"   /\ task'[t] = "setup"
       \/ task[t] = "open"      /\ s = "Connected"     /\ task'[t] = "loop"
       \/ task[t] = "loop"      /\ s = "Disconnecting" /\ task'[t] = "teardown"

SaysTwice(t) ==
    /\ status_queue' = status_queue \o <<"Disconnecting", "Disconnecting">>
    /\ task[t] = "loop" /\ task'[t] = "teardown"

Before == {<<>>, <<"Negotiating">>, <<"Negotiating", "AuthFailed">>}

Finishes(t) ==
    /\ task[t] \in {"tcp", "tls", "negotiate", "setup", "teardown"} /\ task'[t] = "done"
    /\ \E said \in Before, failed \in BOOLEAN :
        /\ status_queue' = status_queue \o (said \o Reports(failed))
        /\ said # <<>> => task[t] = "negotiate"

LEMMA StepSays ==
    ASSUME TypeOK, NEW t \in Tunnels, Step(t), app # "exited"
    PROVE  Silently(t) \/ (\E s \in TunnelStatus : Says(t, s)) \/ SaysTwice(t) \/ Finishes(t)
<1>1. status_queue \in Seq(TunnelStatus)
  BY DEF TypeOK
<1>2. status_queue \o <<>> = status_queue
  BY <1>1, ConcatEmptySeq
<1>3. \A to : Goes(t, to) => task'[t] = to
  BY DEF Goes, TypeOK
<1>4. \A failed \in BOOLEAN : <<>> \o Reports(failed) = Reports(failed)
  BY SaidTyped, ConcatEmptySeq
<1>5. CASE Begin(t) \/ Shaken(t) \/ Negotiated(t)
  BY <1>3, <1>5 DEF Begin, Shaken, Negotiated, Moves, Send, Says, TunnelStatus
<1>6. CASE Reached(t)
  BY <1>2, <1>3, <1>6 DEF Reached, Moves, Send, Silently
<1>7. CASE ConnectFails(t)
  <2>1. Send(<<>> \o Reports(TRUE)) /\ task'[t] = "done" /\ task[t] \in {"tcp", "tls"}
    BY <1>3, <1>7 DEF ConnectFails, Returns
  <2>2. QED
    BY <2>1 DEF Send, Finishes, Before
<1>8. CASE NegotiationFails(t)
  <2>1. /\ task'[t] = "done" /\ task[t] = "negotiate"
        /\ \E said \in Before : Send(said \o Reports(TRUE))
    BY <1>3, <1>8 DEF NegotiationFails, Returns, Before
  <2>2. QED
    BY <2>1 DEF Send, Finishes
<1>9. CASE Setup(t)
  BY <1>3, <1>9 DEF Setup, Silent, Silently
<1>10. CASE SetupFails(t) \/ Teardown(t)
  <2>1. /\ task[t] \in {"setup", "teardown"} /\ task'[t] = "done"
        /\ \E failed \in BOOLEAN : Send(Reports(failed))
    BY <1>3, <1>10 DEF SetupFails, Teardown, Ends, TypeOK
  <2>2. \E failed \in BOOLEAN : status_queue' = status_queue \o (<<>> \o Reports(failed))
    BY <1>4, <2>1 DEF Send
  <2>3. QED
    BY <2>1, <2>2 DEF Finishes, Before
<1>11. CASE OpenTun(t)
  BY <1>3, <1>11 DEF OpenTun, Send, Says, TunnelStatus
<1>12. CASE OpenTunFails(t)
  BY <1>3, <1>12 DEF OpenTunFails, Silent, Silently
<1>13. CASE task[t] = "loop" /\ \E failed \in BOOLEAN : EndLoop(t, <<"Disconnecting">>, failed)
  <2>1. <<"Disconnecting">> \o <<"Disconnecting">> = <<"Disconnecting", "Disconnecting">>
    BY TwoSaid DEF TunnelStatus
  <2>2. QED
    BY <1>3, <1>13, <2>1 DEF EndLoop, Send, SaysTwice
<1>14. CASE LoopEnds(t)
  <2>1. <<>> \o <<"Disconnecting">> = <<"Disconnecting">>
    BY SaidTyped, ConcatEmptySeq DEF TunnelStatus
  <2>2. QED
    BY <1>3, <1>14, <2>1 DEF LoopEnds, EndLoop, Send, Says, TunnelStatus
<1>15. CASE TakeCommand(t)
  <2>1. CASE \E failed \in BOOLEAN : EndLoop(t, <<"Disconnecting">>, failed)
    BY <1>13, <1>15, <2>1 DEF TakeCommand
  <2>2. CASE Silent /\ UNCHANGED task
    BY <1>15, <2>2 DEF TakeCommand, Silent, Silently
  <2>3. QED
    BY <1>15, <2>1, <2>2 DEF TakeCommand
<1>16. CASE ChannelCloses(t)
  BY <1>13, <1>16 DEF ChannelCloses
<1>17. QED
  BY <1>5, <1>6, <1>7, <1>8, <1>9, <1>10, <1>11, <1>12, <1>14, <1>15, <1>16 DEF Step

-----------------------------------------------------------------------------
(* The buttons: when the last task is over, the status that gives them back *)
(* is the last of the line.                                                 *)

AllOver == \A t \in Tunnels : ~Unfinished(t)

Rests == view.connect /\ ~view.disconnect /\ view.sensitive

GivesBack ==
    app = "running" /\ AllOver =>
        IF status_queue = <<>> THEN Rests
        ELSE LastOf(view.label, status_queue) = "Disconnected"

\* A task that is over has said Disconnected last.
LEMMA OverSaid ==
    ASSUME TypeOK, NEW t \in Tunnels, Step(t), app # "exited", ~Unfinished(t)', NEW label
    PROVE  status_queue' # <<>> /\ LastOf(label, status_queue') = "Disconnected"
<1>1. Finishes(t)
  BY StepSays DEF Silently, Says, SaysTwice, Unfinished
<1>2. PICK said \in Before, failed \in BOOLEAN :
           status_queue' = status_queue \o (said \o Reports(failed))
  BY <1>1 DEF Finishes
<1>3. {"Error", "Disconnected", "Negotiating", "AuthFailed"} \subseteq TunnelStatus
  BY DEF TunnelStatus
<1>4. said \in Seq(TunnelStatus) /\ status_queue \in Seq(TunnelStatus)
  BY SaidTyped, <1>3 DEF Before, TypeOK
<1>5. \E queue \in Seq(TunnelStatus) : status_queue' = queue \o <<"Disconnected">>
  <2>1. status_queue \o said \in Seq(TunnelStatus)
        /\ (status_queue \o said) \o <<"Error">> \in Seq(TunnelStatus)
    BY <1>3, <1>4, ConcatProperties
  <2>2. \/ status_queue' = (status_queue \o said) \o <<"Disconnected">>
        \/ status_queue' = ((status_queue \o said) \o <<"Error">>) \o <<"Disconnected">>
    <3>1. "Error" \in TunnelStatus /\ "Disconnected" \in TunnelStatus
      BY <1>3
    <3>2. status_queue \o (said \o <<"Disconnected">>)
            = (status_queue \o said) \o <<"Disconnected">>
      BY <1>4, <3>1, ThenOne
    <3>3. status_queue \o (said \o <<"Error", "Disconnected">>)
            = ((status_queue \o said) \o <<"Error">>) \o <<"Disconnected">>
      BY <1>4, <3>1, ThenTwo
    <3>4. QED
      BY <1>2, <3>2, <3>3, Zenon DEF Reports
  <2>3. QED
    BY <2>1, <2>2
<1>6. PICK queue \in Seq(TunnelStatus) : status_queue' = queue \o <<"Disconnected">>
  BY <1>5
<1>7. Len(status_queue') = Len(queue) + 1 /\ Len(queue) \in Nat
  <2>1. <<"Disconnected">> \in Seq(TunnelStatus) /\ Len(<<"Disconnected">>) = 1
    BY <1>3
  <2>2. QED
    BY <1>6, <2>1, ConcatProperties, LenProperties
<1>8. QED
  BY <1>3, <1>6, <1>7, LastSent

\* The window shows a status: the label is that status, and after Disconnected the
\* buttons are back.
LEMMA StatusShown ==
    ASSUME TypeOK, Drain
    PROVE  /\ view'.label = Head(status_queue)
           /\ Head(status_queue) = "Disconnected" => Rests'
<1> DEFINE status == Head(status_queue)
           shown  == update_status(status, view)
<1>1. status \in TunnelStatus /\ view \in Buttons
  BY HeadTailProperties DEF TypeOK, Drain
<1>2. shown \in Buttons /\ shown.label = status
  <2>1. shown \in Buttons
    BY <1>1, StatusTyped
  <2>2. Shows(status, view).label = status /\ Shows(status, view) \in Buttons
    BY <1>1 DEF Shows, Buttons
  <2>3. shown.label = Shows(status, view).label
    BY <1>1, <2>2 DEF update_status, Failed, Buttons
  <2>4. QED
    BY <2>1, <2>2, <2>3
<1>3. view' = shown \/ (view' = [shown EXCEPT !.active = TRUE] /\ status = "Connected")
  BY DEF Drain
<1>4. view'.label = status
  BY <1>2, <1>3 DEF Buttons
<1>5. ASSUME status = "Disconnected"
      PROVE  Rests'
  <2>1. view' = [Failed(status, view) EXCEPT !.sensitive = TRUE]
    BY <1>3, <1>5 DEF update_status
  <2>2. QED
    BY <1>1, <2>1 DEF Failed, Shows, Buttons, Rests
<1>6. QED
  BY <1>4, <1>5

LEMMA InductiveGivesBack == TypeOK /\ GivesBack /\ [Next]_vars => GivesBack'
<1> SUFFICES ASSUME TypeOK, GivesBack, [Next]_vars, app' = "running", AllOver'
             PROVE  IF status_queue' = <<>> THEN Rests'
                    ELSE LastOf(view.label, status_queue)' = "Disconnected"
  BY DEF GivesBack
<1>1. ASSUME NEW t \in Tunnels, Step(t)
      PROVE  status_queue' # <<>> /\ LastOf(view.label, status_queue)' = "Disconnected"
  <2>1. app # "exited" /\ ~Unfinished(t)'
    BY <1>1, StepGoes DEF AllOver
  <2>2. QED
    BY <1>1, <2>1, OverSaid DEF LastOf
<1>2. CASE Drain
  <2>1. app = "running" /\ AllOver /\ status_queue # <<>> /\ status_queue' = Tail(status_queue)
    BY <1>2 DEF Drain, AllOver, Unfinished
  <2>2. LastOf(view.label, status_queue) = "Disconnected" /\ status_queue \in Seq(TunnelStatus)
    BY <2>1 DEF GivesBack, TypeOK
  <2>3. LastOf(Head(status_queue), Tail(status_queue)) = "Disconnected"
    BY <2>1, <2>2, LastDrained
  <2>4. CASE status_queue' = <<>>
    BY <1>2, <2>1, <2>3, <2>4, StatusShown DEF LastOf
  <2>5. CASE status_queue' # <<>>
    BY <2>1, <2>3, <2>5 DEF LastOf
  <2>6. QED
    BY <2>4, <2>5
<1>3. ASSUME NEW t \in Tunnels, ClickConnect(t)
      PROVE  FALSE
  BY <1>3 DEF ClickConnect, TypeOK, AllOver, Unfinished
<1>4. CASE ClickKeepalive
  <2>1. view' = [view EXCEPT !.active = ~@] /\ UNCHANGED <<app, task, status_queue>>
    BY <1>4 DEF ClickKeepalive
  <2>2. /\ view'.connect = view.connect /\ view'.disconnect = view.disconnect
        /\ view'.sensitive = view.sensitive /\ view'.label = view.label
    BY <2>1 DEF TypeOK, Buttons
  <2>3. QED
    BY <2>1, <2>2 DEF GivesBack, Rests, AllOver, Unfinished, LastOf
<1>5. CASE ClickDisconnect \/ Activate \/ CleanUp \/ UNCHANGED vars
  <2>1. UNCHANGED <<app, task, status_queue, view>>
    BY <1>5 DEF ClickDisconnect, Activate, CleanUp, window, vars
  <2>2. QED
    BY <2>1 DEF GivesBack, Rests, AllOver, Unfinished, LastOf
<1>6. ~CloseWindow /\ ~Exit
  BY DEF CloseWindow, Exit
<1>7. QED
  BY <1>1, <1>2, <1>3, <1>4, <1>5, <1>6 DEF Next, User

\* However many tasks there were and however they overlapped, once all are over and
\* every status is shown the window offers Connect, and neither hides nor greys a
\* button.
THEOREM WindowSettles == Spec => []ViewSettles
<1>1. Init => GivesBack
  BY DEF Init, GivesBack, Rests
<1>2. TypeOK /\ GivesBack /\ [Next]_vars => GivesBack'
  BY InductiveGivesBack
<1>3. GivesBack => ViewSettles
  BY DEF GivesBack, ViewSettles, Settled, AllOver, Rests
<1>4. QED
  BY TypesKept, <1>1, <1>2, <1>3, PTL DEF Spec

-----------------------------------------------------------------------------
(* The session as told: each status of the line is one that SessionLife     *)
(* allows behind the one before, and the last is where the task is.         *)

Tells(s) == CASE s \in {"Disconnected", "Error", "AuthFailed"}          -> "off"
              [] s \in {"Connecting", "Handshaking", "Negotiating"}     -> "starting"
              [] s = "Connected"                                        -> "on"
              [] s = "Disconnecting"                                    -> "stopping"

Follows(a, b) ==
    \/ Tells(a) = Tells(b)
    \/ <<Tells(a), Tells(b)>> \in {<<"off", "starting">>, <<"starting", "on">>,
            <<"starting", "off">>, <<"starting", "stopping">>, <<"on", "stopping">>,
            <<"stopping", "off">>}

InLine(label, queue) ==
    \A i \in 1 .. Len(queue) : Follows(IF i = 1 THEN label ELSE queue[i - 1], queue[i])

\* What the last status tells while a task is at a stage.
ToldBefore(stage) ==
    CASE stage = "spawned"  -> {"off"}
      [] stage = "loop"     -> {"on"}
      [] stage = "teardown" -> {"starting", "stopping"}
      [] OTHER              -> {"starting"}

LifeTold ==
    scene.patient /\ app = "running" =>
        LET last == LastOf(view.label, status_queue)
        IN  /\ InLine(view.label, status_queue)
            /\ AllOver => Tells(last) = "off"
            /\ \A t \in Tunnels : Unfinished(t) => Tells(last) \in ToldBefore(task[t])

LEMMA LineGrows ==
    ASSUME NEW label, NEW queue \in Seq(TunnelStatus), NEW s \in TunnelStatus,
           InLine(label, queue), Follows(LastOf(label, queue), s)
    PROVE  InLine(label, queue \o <<s>>) /\ queue \o <<s>> \in Seq(TunnelStatus)
<1>1. <<s>> \in Seq(TunnelStatus) /\ Len(<<s>>) = 1 /\ <<s>>[1] = s
  OBVIOUS
<1> DEFINE longer == queue \o <<s>>
<1>2. /\ longer \in Seq(TunnelStatus) /\ Len(longer) = Len(queue) + 1 /\ Len(queue) \in Nat
      /\ longer[Len(queue) + 1] = s /\ \A i \in 1 .. Len(queue) : longer[i] = queue[i]
  BY <1>1, ConcatProperties, LenProperties
<1> HIDE DEF longer
<1>3. queue = <<>> <=> Len(queue) = 0
  BY EmptySeq
<1>4. ASSUME NEW i \in 1 .. Len(longer)
      PROVE  Follows(IF i = 1 THEN label ELSE longer[i - 1], longer[i])
  <2>1. CASE i <= Len(queue)
    <3>1. i \in 1 .. Len(queue) /\ (i # 1 => i - 1 \in 1 .. Len(queue))
      BY <1>2, <2>1
    <3>2. longer[i] = queue[i] /\ (i # 1 => longer[i - 1] = queue[i - 1])
      BY <1>2, <3>1
    <3>3. QED
      BY <3>1, <3>2 DEF InLine
  <2>2. CASE i = Len(queue) + 1
    <3>1. longer[i] = s
      BY <1>2, <2>2
    <3>2. (IF i = 1 THEN label ELSE longer[i - 1]) = LastOf(label, queue)
      BY <1>2, <1>3, <2>2 DEF LastOf
    <3>3. QED
      BY <3>1, <3>2
  <2>3. QED
    BY <1>2, <2>1, <2>2
<1>5. InLine(label, longer)
  BY <1>4 DEF InLine
<1>6. QED
  BY <1>2, <1>5 DEF longer

LEMMA LineShrinks ==
    ASSUME NEW label, NEW queue \in Seq(TunnelStatus), queue # <<>>, InLine(label, queue)
    PROVE  InLine(Head(queue), Tail(queue)) /\ Follows(label, Head(queue))
<1>1. /\ Len(queue) \in Nat /\ Len(queue) >= 1 /\ Len(Tail(queue)) = Len(queue) - 1
      /\ \A i \in 1 .. Len(Tail(queue)) : Tail(queue)[i] = queue[i + 1]
  BY HeadTailProperties, LenProperties, EmptySeq
<1>2. Head(queue) = queue[1]
  OBVIOUS
<1>3. Follows(label, Head(queue))
  BY <1>1, <1>2 DEF InLine
<1>4. ASSUME NEW i \in 1 .. Len(Tail(queue))
      PROVE  Follows(IF i = 1 THEN Head(queue) ELSE Tail(queue)[i - 1], Tail(queue)[i])
  <2>1. i + 1 \in 1 .. Len(queue) /\ i + 1 # 1 /\ (i + 1) - 1 = i
    BY <1>1
  <2>2. Follows(queue[i], queue[i + 1])
    BY <2>1 DEF InLine
  <2>3. (IF i = 1 THEN Head(queue) ELSE Tail(queue)[i - 1]) = queue[i]
    BY <1>1, <1>2
  <2>4. QED
    BY <1>1, <2>2, <2>3
<1>5. QED
  BY <1>3, <1>4 DEF InLine

\* What a task sends continues the line, to where the task now is.
LEMMA StepInLine ==
    ASSUME TypeOK, NEW t \in Tunnels, Step(t), app # "exited", NEW label,
           InLine(label, status_queue),
           Tells(LastOf(label, status_queue)) \in ToldBefore(task[t])
    PROVE  /\ InLine(label, status_queue')
           /\ Unfinished(t)' => Tells(LastOf(label, status_queue')) \in ToldBefore(task'[t])
           /\ ~Unfinished(t)' => Tells(LastOf(label, status_queue')) = "off"
<1> DEFINE queue == status_queue
<1>1. queue \in Seq(TunnelStatus)
  BY DEF TypeOK
<1>2. /\ \A s \in {"Error", "AuthFailed", "Disconnected"} : Tells(s) = "off"
      /\ \A s \in {"Connecting", "Handshaking", "Negotiating"} : Tells(s) = "starting"
      /\ Tells("Connected") = "on" /\ Tells("Disconnecting") = "stopping"
  BY DEF Tells
<1>3. CASE Silently(t)
  BY <1>3 DEF Silently, ToldBefore, Unfinished
<1>4. ASSUME NEW s \in TunnelStatus, Says(t, s)
      PROVE  /\ InLine(label, status_queue')
             /\ Unfinished(t)' /\ Tells(LastOf(label, status_queue')) \in ToldBefore(task'[t])
  <2>1. Follows(LastOf(label, queue), s)
    BY <1>2, <1>4 DEF Says, ToldBefore, Follows
  <2>2. InLine(label, queue \o <<s>>) /\ LastOf(label, queue \o <<s>>) = s
    BY <1>1, <2>1, LineGrows, LastSent
  <2>3. QED
    BY <1>2, <1>4, <2>2 DEF Says, ToldBefore, Unfinished
<1>5. CASE SaysTwice(t)
  <2>1. "Disconnecting" \in TunnelStatus /\ Follows(LastOf(label, queue), "Disconnecting")
        /\ Follows("Disconnecting", "Disconnecting")
    BY <1>2, <1>5 DEF SaysTwice, ToldBefore, Follows, TunnelStatus
  <2> DEFINE once == queue \o <<"Disconnecting">>
  <2>2. InLine(label, once) /\ LastOf(label, once) = "Disconnecting" /\ once \in Seq(TunnelStatus)
    BY <1>1, <2>1, LineGrows, LastSent
  <2>3. InLine(label, once \o <<"Disconnecting">>)
        /\ LastOf(label, once \o <<"Disconnecting">>) = "Disconnecting"
    BY <2>1, <2>2, LineGrows, LastSent
  <2>4. status_queue' = once \o <<"Disconnecting">>
    <3>1. queue \o (<<>> \o <<"Disconnecting", "Disconnecting">>)
            = ((queue \o <<>>) \o <<"Disconnecting">>) \o <<"Disconnecting">>
      BY <1>1, <2>1, SaidTyped, ThenTwo
    <3>2. <<>> \o <<"Disconnecting", "Disconnecting">> = <<"Disconnecting", "Disconnecting">>
          /\ queue \o <<>> = queue
      <4>1. <<"Disconnecting", "Disconnecting">> \in Seq(TunnelStatus)
        BY <2>1
      <4>2. QED
        BY <1>1, <4>1, ConcatEmptySeq
    <3>3. QED
      BY <1>5, <3>1, <3>2 DEF SaysTwice
  <2>5. QED
    BY <1>2, <1>5, <2>3, <2>4 DEF SaysTwice, ToldBefore, Unfinished
<1>6. CASE Finishes(t)
  <2>1. PICK said \in Before, failed \in BOOLEAN :
            /\ status_queue' = queue \o (said \o Reports(failed))
            /\ said # <<>> => task[t] = "negotiate"
    BY <1>6 DEF Finishes
  <2>2. /\ "Error" \in TunnelStatus /\ "Disconnected" \in TunnelStatus
        /\ "Negotiating" \in TunnelStatus /\ "AuthFailed" \in TunnelStatus
    BY DEF TunnelStatus
  <2>3. Tells(LastOf(label, queue)) \in {"starting", "stopping"}
    BY <1>6 DEF Finishes, ToldBefore
  \* Behind what was said first.
  <2> DEFINE first == queue \o said
  <2>4. /\ first \in Seq(TunnelStatus) /\ InLine(label, first)
        /\ Tells(LastOf(label, first)) \in {"off", "starting", "stopping"}
    <3>1. CASE said = <<>>
      BY <1>1, <2>3, <3>1, ConcatEmptySeq
    <3> DEFINE one == queue \o <<"Negotiating">>
    <3>2. ASSUME said # <<>>
          PROVE  one \in Seq(TunnelStatus) /\ InLine(label, one)
                 /\ LastOf(label, one) = "Negotiating"
      <4>1. Follows(LastOf(label, queue), "Negotiating")
        BY <1>2, <2>1, <3>2 DEF ToldBefore, Follows
      <4>2. QED
        BY <1>1, <2>2, <4>1, LineGrows, LastSent
    <3>3. CASE said = <<"Negotiating">>
      BY <1>2, <3>2, <3>3
    <3>4. CASE said = <<"Negotiating", "AuthFailed">>
      <4>1. first = one \o <<"AuthFailed">>
        <5>1. said = <<"Negotiating">> \o <<"AuthFailed">>
          BY <2>2, <3>4, TwoSaid
        <5>2. <<"Negotiating">> \in Seq(TunnelStatus)
          BY <2>2
        <5>3. queue \o (<<"Negotiating">> \o <<"AuthFailed">>) = one \o <<"AuthFailed">>
          BY <1>1, <2>2, <5>2, ThenOne
        <5>4. QED
          BY <5>1, <5>3
      <4>2. Follows("Negotiating", "AuthFailed")
        BY <1>2 DEF Follows
      <4>3. one \in Seq(TunnelStatus) /\ InLine(label, one)
            /\ LastOf(label, one) = "Negotiating"
        BY <3>2, <3>4
      <4> HIDE DEF first, one
      <4>4. /\ first \in Seq(TunnelStatus) /\ InLine(label, first)
            /\ LastOf(label, first) = "AuthFailed"
        BY <2>2, <4>1, <4>2, <4>3, LineGrows, LastSent
      <4>5. QED
        BY <1>2, <4>4
    <3>5. QED
      BY <3>1, <3>3, <3>4 DEF Before
  <2>5. said \in Seq(TunnelStatus)
    BY <2>2, SaidTyped DEF Before
  <2> HIDE DEF first
  <2>6. \/ status_queue' = first \o <<"Disconnected">>
        \/ status_queue' = (first \o <<"Error">>) \o <<"Disconnected">>
    <3>1. queue \o (said \o <<"Disconnected">>) = first \o <<"Disconnected">>
      BY <1>1, <2>2, <2>5, ThenOne DEF first
    <3>2. queue \o (said \o <<"Error", "Disconnected">>)
            = (first \o <<"Error">>) \o <<"Disconnected">>
      BY <1>1, <2>2, <2>5, ThenTwo DEF first
    <3>3. QED
      BY <2>1, <3>1, <3>2, Zenon DEF Reports
  <2>7. \A a : Tells(a) \in {"off", "starting", "stopping"}
               => Follows(a, "Error") /\ Follows(a, "Disconnected")
    BY <1>2 DEF Follows
  <2>8. /\ InLine(label, first \o <<"Disconnected">>)
        /\ LastOf(label, first \o <<"Disconnected">>) = "Disconnected"
    BY <2>2, <2>4, <2>7, LineGrows, LastSent
  <2> DEFINE wrong == first \o <<"Error">>
  <2>9. /\ wrong \in Seq(TunnelStatus) /\ InLine(label, wrong)
        /\ LastOf(label, wrong) = "Error"
    BY <2>2, <2>4, <2>7, LineGrows, LastSent
  <2> HIDE DEF wrong
  <2>10. /\ InLine(label, wrong \o <<"Disconnected">>)
         /\ LastOf(label, wrong \o <<"Disconnected">>) = "Disconnected"
    <3>1. Follows("Error", "Disconnected")
      BY <1>2 DEF Follows
    <3>2. QED
      BY <2>2, <2>9, <3>1, LineGrows, LastSent
  <2>11. ~Unfinished(t)'
    BY <1>6 DEF Finishes, Unfinished
  <2>12. QED
    BY <1>2, <2>6, <2>8, <2>10, <2>11 DEF wrong
<1>7. QED
  BY <1>3, <1>4, <1>5, <1>6, StepSays

\* The window is not opened again.
LEMMA RunningBefore == TypeOK /\ [Next]_vars /\ app' = "running" => app = "running"
<1> SUFFICES ASSUME TypeOK, [Next]_vars
             PROVE  app' = app \/ app' # "running"
  OBVIOUS
<1>1. CASE \E t \in Tunnels : Step(t)
  BY <1>1, StepGoes
<1>2. CASE User
  BY <1>2 DEF User, ClickConnect, ClickDisconnect, ClickKeepalive, Activate, CloseWindow
<1>3. CASE Drain \/ Exit \/ CleanUp \/ UNCHANGED vars
  BY <1>3 DEF Drain, Exit, CleanUp, vars
<1>4. QED
  BY <1>1, <1>2, <1>3 DEF Next

LEMMA InductiveLifeTold == TypeOK /\ OneTask /\ LifeTold /\ [Next]_vars => LifeTold'
<1> DEFINE last == LastOf(view.label, status_queue)
<1> SUFFICES ASSUME TypeOK, OneTask, LifeTold, [Next]_vars, scene'.patient, app' = "running"
             PROVE  /\ InLine(view.label, status_queue)'
                    /\ AllOver' => Tells(last') = "off"
                    /\ \A t \in Tunnels : Unfinished(t)' => Tells(last') \in ToldBefore(task'[t])
  BY DEF LifeTold
<1>1. scene.patient /\ app = "running" /\ Single
  BY SceneStays, RunningBefore DEF OneTask
<1>2. /\ InLine(view.label, status_queue)
      /\ AllOver => Tells(last) = "off"
      /\ \A t \in Tunnels : Unfinished(t) => Tells(last) \in ToldBefore(task[t])
  BY <1>1 DEF LifeTold
<1>3. ASSUME NEW t \in Tunnels, Step(t)
      PROVE  /\ InLine(view.label, status_queue)'
             /\ AllOver' => Tells(last') = "off"
             /\ \A u \in Tunnels : Unfinished(u)' => Tells(last') \in ToldBefore(task'[u])
  <2>1. Unfinished(t) /\ \A u \in Tunnels : Unfinished(u)' => u = t
    BY <1>1, <1>3, StepGoes, GoesKeepsSingle
  <2>2. UNCHANGED view
    BY <1>3, StepKeepsView DEF window
  <2>3. /\ InLine(view.label, status_queue')
        /\ Unfinished(t)' => Tells(LastOf(view.label, status_queue')) \in ToldBefore(task'[t])
        /\ ~Unfinished(t)' => Tells(LastOf(view.label, status_queue')) = "off"
    BY <1>1, <1>2, <1>3, <2>1, StepInLine
  <2>4. QED
    BY <2>1, <2>2, <2>3 DEF AllOver
<1>4. CASE Drain
  <2>1. /\ status_queue \in Seq(TunnelStatus) /\ status_queue # <<>>
        /\ status_queue' = Tail(status_queue) /\ view'.label = Head(status_queue)
        /\ UNCHANGED task
    BY <1>4, StatusShown DEF Drain, TypeOK
  <2>2. InLine(view.label, status_queue)' /\ last' = last
    BY <1>2, <2>1, LineShrinks, LastDrained
  <2>3. QED
    BY <1>2, <2>1, <2>2 DEF AllOver, Unfinished
<1>5. ASSUME NEW t \in Tunnels, ClickConnect(t)
      PROVE  /\ InLine(view.label, status_queue)'
             /\ AllOver' => Tells(last') = "off"
             /\ \A u \in Tunnels : Unfinished(u)' => Tells(last') \in ToldBefore(task'[u])
  <2>1. AllOver /\ UNCHANGED <<view, status_queue>>
    BY <1>1, <1>5 DEF ClickConnect, AllOver
  <2>2. \A u \in Tunnels : task'[u] = IF u = t THEN "spawned" ELSE task[u]
    BY <1>5 DEF ClickConnect, TypeOK
  <2>3. QED
    BY <1>2, <2>1, <2>2 DEF AllOver, Unfinished, ToldBefore
<1>6. CASE ClickDisconnect \/ ClickKeepalive \/ Activate \/ CleanUp \/ UNCHANGED vars
  BY <1>2, <1>6, OtherSteps DEF AllOver, Unfinished
<1>7. ~CloseWindow /\ ~Exit
  BY DEF CloseWindow, Exit
<1>8. QED
  BY <1>3, <1>4, <1>5, <1>6, <1>7 DEF Next, User

\* The phase the window tells of changes when a status is shown, to that of the status.
LEMMA StepTold == TypeOK /\ LifeTold /\ [Next]_vars => [Told!Next]_Phase
<1> SUFFICES ASSUME TypeOK, LifeTold, [Next]_vars, Phase' # Phase
             PROVE  Told!Next
  OBVIOUS
<1>1. view.label \in TunnelStatus /\ UNCHANGED scene
  BY SceneStays DEF TypeOK, Buttons
<1>2. scene.patient
  BY <1>1 DEF Phase
<1>3. Phase = Tells(view.label) /\ (view'.label \in TunnelStatus => Phase' = Tells(view'.label))
  BY <1>1, <1>2 DEF Phase, Tells, TunnelStatus
<1>4. CASE Drain
  <2>1. status_queue \in Seq(TunnelStatus) /\ status_queue # <<>>
        /\ view'.label = Head(status_queue) /\ Head(status_queue) \in TunnelStatus
    BY <1>4, StatusShown, HeadTailProperties DEF Drain, TypeOK
  <2>2. Follows(view.label, view'.label)
    BY <1>2, <1>4, <2>1, LineShrinks DEF Drain, LifeTold
  <2>3. <<Phase, Phase'>> \in {<<"off", "starting">>, <<"starting", "on">>,
            <<"starting", "off">>, <<"starting", "stopping">>, <<"on", "stopping">>,
            <<"stopping", "off">>}
    BY <1>3, <2>1, <2>2 DEF Follows
  <2>4. QED
    BY <2>3 DEF Told!Next, Told!Start, Told!Establish, Told!Fail, Told!Stop, Told!Stopped,
                Told!Move
<1>5. view'.label = view.label \/ Drain
  <2>1. CASE \E t \in Tunnels : Step(t)
    BY <2>1, StepKeepsView DEF window
  <2>2. CASE User
    BY <2>2, OtherSteps DEF User, ClickConnect, CloseWindow
  <2>3. CASE Exit
    BY <2>3 DEF Exit, window
  <2>4. QED
    BY <2>1, <2>2, <2>3, OtherSteps DEF Next
<1>6. QED
  BY <1>1, <1>3, <1>4, <1>5

\* Where one connection follows another, the window implements SessionLife: whatever
\* fails and however late the statuses are drained, they are told in the order of the
\* life of one session after another.
THEOREM WindowImplementsLife == Spec => ToldInOrder
<1>1. Init => Told!Init /\ OneTask /\ LifeTold
  <2> SUFFICES ASSUME Init
               PROVE  Told!Init /\ OneTask /\ LifeTold
    OBVIOUS
  <2>1. view.label = "Disconnected" /\ status_queue = <<>> /\ \A t \in Tunnels : ~Unfinished(t)
    BY DEF Init, Unfinished
  <2>2. Told!Init
    BY <2>1 DEF Told!Init, Phase
  <2>3. LifeTold
    BY <2>1 DEF LifeTold, InLine, LastOf, Tells
  <2>4. QED
    BY <2>1, <2>2, <2>3 DEF OneTask, Single
<1>2. TypeOK /\ OneTask /\ [Next]_vars => OneTask'
  BY InductiveOneTask
<1>3. TypeOK /\ OneTask /\ LifeTold /\ [Next]_vars => LifeTold'
  BY InductiveLifeTold
<1>4. Spec => [](OneTask /\ LifeTold)
  BY TypesKept, <1>1, <1>2, <1>3, PTL DEF Spec
<1>5. QED
  BY TypesKept, <1>1, <1>4, StepTold, PTL DEF Spec, ToldInOrder, Told!Life

-----------------------------------------------------------------------------
(* The keepalive button and the pings of a loop, with commands between.     *)

Toggle(on) == IF on THEN "KeepaliveOn" ELSE "KeepaliveOff"

\* Whether a loop pings, once it has taken its commands.
EndsUp(pings, queue, on) ==
    \/ pings = on /\ \A i \in 1 .. Len(queue) : queue[i] = "Disconnect"
    \/ \E i \in 1 .. Len(queue) :
            queue[i] = Toggle(on) /\ \A j \in i + 1 .. Len(queue) : queue[j] = "Disconnect"

Underway(t) == task[t] \notin {"none", "teardown", "done", "dropped"}

\* A loop whose Connected was shown ends up as the button is; before that it ends up
\* off, or the button is on and will be sent off when Connected is shown.
AsShown ==
    scene.patient /\ app = "running" => \A t \in Tunnels :
        /\ task[t] = "none" => commands[t] = <<>> /\ ~ping[t]
        /\ Unfinished(t) => tunnel_cmd_tx = t
        /\ Underway(t) /\ ~view.active => EndsUp(ping[t], commands[t], FALSE)
        /\ task[t] = "loop" => \/ EndsUp(ping[t], commands[t], view.active)
                               \/ \E i \in 1 .. Len(status_queue) : status_queue[i] = "Connected"

LEMMA EndsUpSent ==
    ASSUME NEW pings, NEW queue \in Seq(TunnelCommand), NEW sent \in Seq(TunnelCommand),
           NEW on \in BOOLEAN, sent # <<>>, sent[Len(sent)] = Toggle(on)
    PROVE  EndsUp(pings, queue \o sent, on)
<1> DEFINE all == queue \o sent
<1>1. /\ Len(sent) \in Nat /\ Len(sent) >= 1 /\ Len(queue) \in Nat
      /\ Len(all) = Len(queue) + Len(sent)
      /\ \A i \in 1 .. Len(all) : all[i] = IF i <= Len(queue) THEN queue[i]
                                          ELSE sent[i - Len(queue)]
  BY ConcatProperties, LenProperties, EmptySeq
<1> HIDE DEF all
<1>2. Len(all) \in 1 .. Len(all) /\ all[Len(all)] = Toggle(on)
  BY <1>1
<1>3. QED
  BY <1>1, <1>2 DEF EndsUp, all

LEMMA EndsUpSame ==
    ASSUME NEW pings, NEW queue \in Seq(TunnelCommand), NEW on \in BOOLEAN,
           EndsUp(pings, queue, on)
    PROVE  EndsUp(pings, queue \o <<"Disconnect">>, on)
<1> DEFINE all == queue \o <<"Disconnect">>
<1>1. <<"Disconnect">> \in Seq(TunnelCommand) /\ Len(<<"Disconnect">>) = 1
      /\ <<"Disconnect">>[1] = "Disconnect"
  BY DEF TunnelCommand
<1>2. /\ Len(queue) \in Nat /\ Len(all) = Len(queue) + 1
      /\ \A i \in 1 .. Len(queue) : all[i] = queue[i]
      /\ all[Len(queue) + 1] = "Disconnect"
  BY <1>1, ConcatProperties, LenProperties
<1> HIDE DEF all
<1>3. QED
  BY <1>2 DEF EndsUp, all

LEMMA EndsUpTaken ==
    ASSUME NEW pings, NEW queue \in Seq(TunnelCommand), NEW on \in BOOLEAN,
           queue # <<>>, Head(queue) # "Disconnect", EndsUp(pings, queue, on)
    PROVE  EndsUp(Head(queue) = "KeepaliveOn", Tail(queue), on)
<1>1. /\ Len(queue) \in Nat /\ Len(queue) >= 1 /\ Len(Tail(queue)) = Len(queue) - 1
      /\ \A i \in 1 .. Len(Tail(queue)) : Tail(queue)[i] = queue[i + 1]
  BY HeadTailProperties, LenProperties, EmptySeq
<1>2. Head(queue) = queue[1]
  OBVIOUS
<1>3. PICK i \in 1 .. Len(queue) :
          queue[i] = Toggle(on) /\ \A j \in i + 1 .. Len(queue) : queue[j] = "Disconnect"
  BY <1>1, <1>2 DEF EndsUp
<1>4. CASE i = 1
  <2>1. (Head(queue) = "KeepaliveOn") = on
    BY <1>2, <1>3, <1>4 DEF Toggle
  <2>2. \A j \in 1 .. Len(Tail(queue)) : Tail(queue)[j] = "Disconnect"
    BY <1>1, <1>3, <1>4
  <2>3. QED
    BY <2>1, <2>2 DEF EndsUp
<1>5. CASE i # 1
  <2>1. i - 1 \in 1 .. Len(Tail(queue)) /\ Tail(queue)[i - 1] = Toggle(on)
    BY <1>1, <1>3, <1>5
  <2>2. \A j \in (i - 1) + 1 .. Len(Tail(queue)) : Tail(queue)[j] = "Disconnect"
    BY <1>1, <1>3, <1>5
  <2>3. QED
    BY <2>1, <2>2 DEF EndsUp
<1>6. QED
  BY <1>4, <1>5

\* What is drained makes the button what the commands it sends make of the pings.
LEMMA DrainAsShown ==
    ASSUME TypeOK, AsShown, scene.patient, Drain, NEW t \in Tunnels
    PROVE  /\ task[t] = "none" => commands'[t] = <<>>
           /\ Underway(t) /\ ~view'.active => EndsUp(ping[t], commands'[t], FALSE)
           /\ task[t] = "loop" => \/ EndsUp(ping[t], commands'[t], view'.active)
                                  \/ \E i \in 1 .. Len(status_queue') :
                                         status_queue'[i] = "Connected"
<1> DEFINE status == Head(status_queue)
<1>1. /\ app = "running" /\ status_queue \in Seq(TunnelStatus) /\ status_queue # <<>>
      /\ status_queue' = Tail(status_queue) /\ Command(Toggles(status))
  BY DEF Drain, TypeOK
<1>2. commands[t] \in Seq(TunnelCommand) /\ view \in Buttons /\ profile_keepalive \in BOOLEAN
      /\ status \in TunnelStatus
  BY <1>1, HeadTailProperties DEF TypeOK
<1>3. commands'[t] = IF t = tunnel_cmd_tx /\ Unfinished(t)
                     THEN commands[t] \o Toggles(status) ELSE commands[t]
  BY <1>1 DEF Command
<1>4. /\ task[t] = "none" => commands[t] = <<>>
      /\ Unfinished(t) => tunnel_cmd_tx = t
      /\ Underway(t) /\ ~view.active => EndsUp(ping[t], commands[t], FALSE)
      /\ task[t] = "loop" => \/ EndsUp(ping[t], commands[t], view.active)
                             \/ \E i \in 1 .. Len(status_queue) : status_queue[i] = "Connected"
  BY <1>1 DEF AsShown
<1>5. Underway(t) => Unfinished(t)
  BY DEF Underway, Unfinished
<1>6. commands[t] \o <<>> = commands[t]
  BY <1>2, ConcatEmptySeq
<1>7. CASE status # "Connected"
  <2>1. view'.active = view.active
    <3>1. view' = update_status(status, view)
      BY <1>7 DEF Drain
    <3>2. QED
      BY <1>2, <1>7, <3>1 DEF update_status, Failed, Shows, Buttons
  <2>2. commands'[t] = commands[t]
    BY <1>3, <1>6, <1>7 DEF Toggles
  <2>3. (\E i \in 1 .. Len(status_queue) : status_queue[i] = "Connected")
            => \E i \in 1 .. Len(status_queue') : status_queue'[i] = "Connected"
    <3>1. /\ Len(status_queue) \in Nat /\ Len(status_queue') = Len(status_queue) - 1
          /\ \A i \in 1 .. Len(status_queue') : status_queue'[i] = status_queue[i + 1]
      BY <1>1, HeadTailProperties, LenProperties
    <3>2. status = status_queue[1]
      BY <1>1
    <3>3. ASSUME NEW i \in 1 .. Len(status_queue), status_queue[i] = "Connected"
          PROVE  i - 1 \in 1 .. Len(status_queue') /\ status_queue'[i - 1] = "Connected"
      BY <1>7, <3>1, <3>2, <3>3
    <3>4. QED
      BY <3>3
  <2>4. QED
    BY <1>4, <2>1, <2>2, <2>3
<1>8. CASE status = "Connected"
  <2>1. view'.active = profile_keepalive
    <3>1. update_status(status, view) \in Buttons /\ update_status(status, view).active = FALSE
      <4>1. update_status(status, view) = [Shows(status, view) EXCEPT !.connect = FALSE,
                              !.disconnect = TRUE, !.keepalive = TRUE, !.active = FALSE]
        BY <1>8 DEF update_status
      <4>2. QED
        BY <1>2, <4>1 DEF Shows, Buttons
    <3>2. view' = IF profile_keepalive THEN [update_status(status, view) EXCEPT !.active = TRUE]
                  ELSE update_status(status, view)
      BY <1>8 DEF Drain
    <3>3. QED
      BY <1>2, <3>1, <3>2 DEF Buttons
  <2> DEFINE off == IF view.active THEN <<"KeepaliveOff">> ELSE <<>>
             on  == IF profile_keepalive THEN <<"KeepaliveOn">> ELSE <<>>
  <2>2. Toggles(status) = off \o on
    BY <1>8 DEF Toggles
  <2>3. /\ <<>> \in Seq(TunnelCommand)
        /\ \A c \in TunnelCommand : /\ <<c>> \in Seq(TunnelCommand) /\ Len(<<c>>) = 1
                                    /\ <<c>>[1] = c /\ <<c>> # <<>>
        /\ "KeepaliveOn" \in TunnelCommand /\ "KeepaliveOff" \in TunnelCommand
    BY DEF TunnelCommand
  <2>4. off \in Seq(TunnelCommand) /\ on \in Seq(TunnelCommand)
    BY <2>3
  <2>5. ASSUME Underway(t)
        PROVE  EndsUp(ping[t], commands'[t], profile_keepalive)
    <3>1. commands'[t] = commands[t] \o (off \o on)
      BY <1>3, <1>4, <1>5, <2>2, <2>5
    <3>2. CASE profile_keepalive
      <4> DEFINE sent == off \o on
      <4>1. on = <<"KeepaliveOn">> /\ profile_keepalive = TRUE
        BY <1>2, <3>2
      <4>2. /\ sent \in Seq(TunnelCommand) /\ Len(sent) = Len(off) + 1
            /\ Len(off) \in Nat /\ sent[Len(off) + 1] = "KeepaliveOn"
        <5> HIDE DEF off
        <5>1. QED
          BY <2>3, <2>4, <4>1, ConcatProperties, LenProperties
      <4> HIDE DEF sent
      <4>3. sent # <<>> /\ sent[Len(sent)] = Toggle(TRUE)
        BY <4>2, EmptySeq DEF Toggle
      <4>4. EndsUp(ping[t], commands[t] \o sent, TRUE)
        BY <1>2, <4>2, <4>3, EndsUpSent
      <4>5. commands'[t] = commands[t] \o sent
        BY <3>1 DEF sent
      <4>6. QED
        BY <4>1, <4>4, <4>5
    <3>3. CASE ~profile_keepalive /\ view.active
      <4>1. off \o on = <<"KeepaliveOff">>
        BY <2>3, <3>3, ConcatEmptySeq
      <4>2. EndsUp(ping[t], commands[t] \o <<"KeepaliveOff">>, FALSE)
        BY <1>2, <2>3, EndsUpSent DEF Toggle
      <4>3. profile_keepalive = FALSE
        BY <1>2, <3>3
      <4>4. commands'[t] = commands[t] \o <<"KeepaliveOff">>
        BY <3>1, <4>1
      <4>5. QED
        BY <4>2, <4>3, <4>4
    <3>4. CASE ~profile_keepalive /\ ~view.active
      <4>1. off \o on = <<>>
        BY <2>3, <3>4, ConcatEmptySeq
      <4>2. profile_keepalive = FALSE /\ commands'[t] = commands[t]
        BY <1>2, <1>6, <3>1, <3>4, <4>1
      <4>3. EndsUp(ping[t], commands[t], FALSE)
        BY <1>4, <2>5, <3>4
      <4>4. QED
        BY <4>2, <4>3
    <3>5. QED
      BY <1>2, <3>2, <3>3, <3>4
  <2>6. task[t] = "none" => commands'[t] = <<>>
    BY <1>3, <1>4 DEF Unfinished
  <2>7. task[t] = "loop" => Underway(t)
    BY DEF Underway
  <2>8. QED
    BY <1>2, <2>1, <2>5, <2>6, <2>7
<1>9. QED
  BY <1>7, <1>8

\* What a step of a task does to its commands and to its pings.
Serves(t) ==
    /\ commands[t] # <<>> /\ Head(commands[t]) # "Disconnect"
    /\ commands' = [commands EXCEPT ![t] = Tail(@)]
    /\ ping' = [ping EXCEPT ![t] = (Head(commands[t]) = "KeepaliveOn")]

Obeys(t) ==
    /\ UNCHANGED ping /\ task'[t] = "teardown"
    /\ commands[t] # <<>> /\ commands' = [commands EXCEPT ![t] = Tail(@)]

LEMMA StepServes ==
    ASSUME TypeOK, NEW t \in Tunnels, Step(t)
    PROVE  UNCHANGED channel \/ Serves(t) \/ Obeys(t)
<1>1. CASE TakeCommand(t)
  <2>1. CASE Head(commands[t]) = "Disconnect"
    <3>1. \E failed \in BOOLEAN : EndLoop(t, <<"Disconnecting">>, failed)
      BY <1>1, <2>1 DEF TakeCommand
    <3>2. UNCHANGED ping /\ task'[t] = "teardown"
      BY <3>1 DEF EndLoop, Goes, TypeOK
    <3>3. QED
      BY <1>1, <3>2 DEF TakeCommand, Obeys
  <2>2. CASE Head(commands[t]) # "Disconnect"
    BY <1>1, <2>2 DEF TakeCommand, Serves
  <2>3. QED
    BY <2>1, <2>2
<1>2. CASE ~TakeCommand(t)
  BY <1>2 DEF Step, Begin, Reached, Shaken, Negotiated, Moves, ConnectFails, NegotiationFails,
         Returns, Setup, SetupFails, Teardown, Ends, OpenTun, OpenTunFails, ChannelCloses,
         LoopEnds, EndLoop, channel
<1>3. QED
  BY <1>1, <1>2

\* A task under way was under way, and comes to its loop saying Connected.
LEMMA StepToLoop ==
    ASSUME TypeOK, NEW t \in Tunnels, Step(t), app # "exited"
    PROVE  /\ task'[t] # "none" /\ (Underway(t)' => Underway(t))
           /\ task'[t] = "loop" =>
                \/ task[t] = "loop" /\ UNCHANGED status_queue
                \/ \E i \in 1 .. Len(status_queue') : status_queue'[i] = "Connected"
<1>1. CASE Silently(t)
  BY <1>1 DEF Silently, Underway
<1>2. ASSUME NEW s \in TunnelStatus, Says(t, s)
      PROVE  task'[t] # "none" /\ (Underway(t)' => Underway(t))
             /\ (task'[t] = "loop" => s = "Connected")
  BY <1>2 DEF Says, Underway
<1>3. ASSUME NEW s \in TunnelStatus, Says(t, s), s = "Connected"
      PROVE  \E i \in 1 .. Len(status_queue') : status_queue'[i] = "Connected"
  <2>1. /\ status_queue' = status_queue \o <<s>> /\ status_queue \in Seq(TunnelStatus)
        /\ <<s>> \in Seq(TunnelStatus) /\ Len(<<s>>) = 1 /\ <<s>>[1] = s
    BY <1>3 DEF Says, TypeOK
  <2>2. /\ Len(status_queue) \in Nat /\ Len(status_queue') = Len(status_queue) + 1
        /\ status_queue'[Len(status_queue) + 1] = s
    BY <2>1, ConcatProperties, LenProperties
  <2>3. QED
    BY <1>3, <2>2
<1>4. CASE SaysTwice(t) \/ Finishes(t)
  BY <1>4 DEF SaysTwice, Finishes, Underway
<1>5. QED
  BY <1>1, <1>2, <1>3, <1>4, StepSays

LEMMA StepAsShown ==
    ASSUME TypeOK, AsShown, NEW t \in Tunnels, Step(t)
    PROVE  AsShown'
<1> SUFFICES ASSUME scene'.patient, app' = "running", NEW u \in Tunnels
             PROVE  /\ task'[u] = "none" => commands'[u] = <<>> /\ ~ping'[u]
                    /\ Unfinished(u)' => tunnel_cmd_tx' = u
                    /\ Underway(u)' /\ ~view'.active => EndsUp(ping'[u], commands'[u], FALSE)
                    /\ task'[u] = "loop" =>
                        \/ EndsUp(ping'[u], commands'[u], view'.active)
                        \/ \E i \in 1 .. Len(status_queue') : status_queue'[i] = "Connected"
  BY DEF AsShown, EndsUp, Toggle
<1>1. /\ scene.patient /\ app = "running" /\ Unfinished(t)
      /\ UNCHANGED <<view, profile_keepalive, tunnel_cmd_tx>>
      /\ \E to \in Stages : Goes(t, to)
  BY StepGoes, StepKeepsView DEF window
<1>2. \A w \in Tunnels :
        /\ task[w] = "none" => commands[w] = <<>> /\ ~ping[w]
        /\ Unfinished(w) => tunnel_cmd_tx = w
        /\ Underway(w) /\ ~view.active => EndsUp(ping[w], commands[w], FALSE)
        /\ task[w] = "loop" => \/ EndsUp(ping[w], commands[w], view.active)
                               \/ \E i \in 1 .. Len(status_queue) : status_queue[i] = "Connected"
  BY <1>1 DEF AsShown
<1>3. commands \in [Tunnels -> Seq(TunnelCommand)] /\ ping \in [Tunnels -> BOOLEAN]
      /\ view.active \in BOOLEAN
  BY DEF TypeOK, Buttons
<1>4. CASE u # t
  <2>1. task'[u] = task[u] /\ commands'[u] = commands[u] /\ ping'[u] = ping[u]
    BY <1>1, <1>3, <1>4, StepServes DEF Goes, TypeOK, Serves, Obeys, channel
  <2>2. ~Unfinished(u)
    BY <1>1, <1>2, <1>4
  <2>3. QED
    BY <1>2, <2>1, <2>2 DEF Unfinished, Underway
<1>5. CASE u = t
  <2>1. /\ task'[t] # "none" /\ (Underway(t)' => Underway(t))
        /\ task'[t] = "loop" =>
             \/ task[t] = "loop" /\ UNCHANGED status_queue
             \/ \E i \in 1 .. Len(status_queue') : status_queue'[i] = "Connected"
    BY <1>1, StepToLoop
  <2>2. ASSUME NEW on \in BOOLEAN, EndsUp(ping[t], commands[t], on), Underway(t)'
        PROVE  EndsUp(ping'[t], commands'[t], on)
    <3>1. CASE UNCHANGED channel
      BY <2>2, <3>1 DEF channel
    <3>2. CASE Serves(t)
      <4>1. /\ commands[t] \in Seq(TunnelCommand) /\ commands[t] # <<>>
            /\ Head(commands[t]) # "Disconnect"
            /\ commands'[t] = Tail(commands[t])
            /\ ping'[t] = (Head(commands[t]) = "KeepaliveOn")
        BY <1>3, <3>2 DEF Serves
      <4>2. EndsUp(Head(commands[t]) = "KeepaliveOn", Tail(commands[t]), on)
        BY <2>2, <4>1, EndsUpTaken
      <4>3. QED
        BY <4>1, <4>2
    <3>3. CASE Obeys(t)
      BY <2>2, <3>3 DEF Obeys, Underway
    <3>4. QED
      BY <3>1, <3>2, <3>3, StepServes
  <2>3. task'[t] = "loop" => Underway(t)'
    BY DEF Underway
  <2>4. Underway(t)' /\ ~view'.active => EndsUp(ping'[t], commands'[t], FALSE)
    BY <1>1, <1>2, <2>1, <2>2
  <2>5. task'[t] = "loop" /\ task[t] = "loop" /\ UNCHANGED status_queue =>
            \/ EndsUp(ping'[t], commands'[t], view'.active)
            \/ \E i \in 1 .. Len(status_queue') : status_queue'[i] = "Connected"
    BY <1>1, <1>2, <1>3, <2>2, <2>3
  <2>6. tunnel_cmd_tx' = t
    BY <1>1, <1>2
  <2>7. QED
    BY <1>5, <2>1, <2>4, <2>5, <2>6
<1>6. QED
  BY <1>4, <1>5

LEMMA ClickAsShown == TypeOK /\ AsShown /\ User => AsShown'
<1> SUFFICES ASSUME TypeOK, AsShown, User, scene'.patient, app' = "running", NEW t \in Tunnels
             PROVE  /\ task'[t] = "none" => commands'[t] = <<>> /\ ~ping'[t]
                    /\ Unfinished(t)' => tunnel_cmd_tx' = t
                    /\ Underway(t)' /\ ~view'.active => EndsUp(ping'[t], commands'[t], FALSE)
                    /\ task'[t] = "loop" =>
                        \/ EndsUp(ping'[t], commands'[t], view'.active)
                        \/ \E i \in 1 .. Len(status_queue') : status_queue'[i] = "Connected"
  BY DEF AsShown, EndsUp, Toggle
<1>1. scene.patient /\ app = "running" /\ ~CloseWindow
  BY DEF User, ClickConnect, ClickDisconnect, ClickKeepalive, Activate, CloseWindow
<1>2. /\ task[t] = "none" => commands[t] = <<>> /\ ~ping[t]
      /\ Unfinished(t) => tunnel_cmd_tx = t
      /\ Underway(t) /\ ~view.active => EndsUp(ping[t], commands[t], FALSE)
      /\ task[t] = "loop" => \/ EndsUp(ping[t], commands[t], view.active)
                             \/ \E i \in 1 .. Len(status_queue) : status_queue[i] = "Connected"
  BY <1>1 DEF AsShown
<1>3. commands[t] \in Seq(TunnelCommand) /\ ping[t] \in BOOLEAN /\ view.active \in BOOLEAN
  BY DEF TypeOK, Buttons
<1>4. Underway(t) => Unfinished(t)
  BY DEF Underway, Unfinished
<1>5. task[t] = "loop" => Underway(t)
  BY DEF Underway
<1>6. ASSUME NEW u \in Tunnels, ClickConnect(u)
      PROVE  /\ task'[t] = "none" => commands'[t] = <<>> /\ ~ping'[t]
             /\ Unfinished(t)' => tunnel_cmd_tx' = t
             /\ Underway(t)' /\ ~view'.active => EndsUp(ping'[t], commands'[t], FALSE)
             /\ task'[t] # "loop"
  <2>1. /\ ~Unfinished(t) /\ task' = [task EXCEPT ![u] = "spawned"] /\ tunnel_cmd_tx' = u
        /\ task[u] = "none" /\ commands' = commands /\ ping' = ping
    BY <1>1, <1>6 DEF ClickConnect, channel
  <2>2. CASE t = u
    <3>1. commands[t] = <<>> /\ ping[t] = FALSE /\ task'[t] = "spawned"
      BY <1>2, <1>3, <2>1, <2>2 DEF TypeOK
    <3>2. EndsUp(ping[t], commands[t], FALSE)
      BY <3>1 DEF EndsUp
    <3>3. QED
      BY <2>1, <2>2, <3>1, <3>2 DEF Underway, Unfinished
  <2>3. CASE t # u
    <3>1. task'[t] = task[t]
      BY <2>1, <2>3 DEF TypeOK
    <3>2. QED
      BY <1>2, <1>4, <1>5, <2>1, <3>1 DEF Underway, Unfinished
  <2>4. QED
    BY <2>2, <2>3
<1>7. CASE ClickDisconnect
  <2>1. UNCHANGED <<view, tunnel_cmd_tx, task, status_queue, ping>>
    BY <1>7 DEF ClickDisconnect, window
  <2>2. commands'[t] = IF t = tunnel_cmd_tx /\ Unfinished(t)
                       THEN commands[t] \o <<"Disconnect">> ELSE commands[t]
    BY <1>7 DEF ClickDisconnect, Command
  <2>3. \A on \in BOOLEAN : EndsUp(ping[t], commands[t], on) => EndsUp(ping[t], commands'[t], on)
    BY <1>3, <2>2, EndsUpSame
  <2>4. task[t] = "none" => commands'[t] = commands[t]
    BY <2>2 DEF Unfinished
  <2>5. Underway(t)' = Underway(t) /\ Unfinished(t)' = Unfinished(t)
    BY <2>1 DEF Underway, Unfinished
  <2>6. QED
    BY <1>2, <1>3, <2>1, <2>3, <2>4, <2>5
<1>8. CASE ClickKeepalive
  <2> DEFINE said == IF view.active THEN "KeepaliveOff" ELSE "KeepaliveOn"
  <2>1. /\ UNCHANGED <<tunnel_cmd_tx, task, status_queue, ping>>
        /\ view'.active = ~view.active
    BY <1>8 DEF ClickKeepalive, TypeOK, Buttons
  <2>2. commands'[t] = IF t = tunnel_cmd_tx /\ Unfinished(t)
                       THEN commands[t] \o <<said>> ELSE commands[t]
    BY <1>8 DEF ClickKeepalive, Command
  <2>3. view'.active \in BOOLEAN /\ said = Toggle(view'.active) /\ said \in TunnelCommand
    BY <1>3, <2>1 DEF Toggle, TunnelCommand
  <2> HIDE DEF said
  <2>4. <<said>> \in Seq(TunnelCommand) /\ <<said>> # <<>> /\ <<said>>[Len(<<said>>)] = said
    BY <2>3
  <2>5. EndsUp(ping[t], commands[t] \o <<said>>, view'.active)
    BY <1>3, <2>3, <2>4, EndsUpSent
  <2>6. Underway(t) => EndsUp(ping[t], commands'[t], view'.active)
    BY <1>2, <1>4, <2>2, <2>5
  <2>7. task[t] = "none" => commands'[t] = commands[t]
    BY <2>2 DEF Unfinished
  <2>8. Underway(t)' = Underway(t) /\ Unfinished(t)' = Unfinished(t)
    BY <2>1 DEF Underway, Unfinished
  <2>9. ~view'.active => view'.active = FALSE
    BY <2>3
  <2>10. QED
    BY <1>2, <1>5, <2>1, <2>6, <2>7, <2>8, <2>9
<1>9. CASE Activate
  BY <1>2, <1>9 DEF Activate, window, channel, Underway, Unfinished
<1>10. QED
  BY <1>1, <1>6, <1>7, <1>8, <1>9 DEF User

LEMMA InductiveAsShown == TypeOK /\ AsShown /\ [Next]_vars => AsShown'
<1> SUFFICES ASSUME TypeOK, AsShown, [Next]_vars
             PROVE  AsShown'
  OBVIOUS
<1>1. CASE \E t \in Tunnels : Step(t)
  BY <1>1, StepAsShown
<1>2. CASE User
  BY <1>2, ClickAsShown
<1>3. CASE Drain
  <2> SUFFICES ASSUME scene'.patient, app' = "running", NEW t \in Tunnels
               PROVE  /\ task'[t] = "none" => commands'[t] = <<>> /\ ~ping'[t]
                      /\ Unfinished(t)' => tunnel_cmd_tx' = t
                      /\ Underway(t)' /\ ~view'.active => EndsUp(ping'[t], commands'[t], FALSE)
                      /\ task'[t] = "loop" =>
                          \/ EndsUp(ping'[t], commands'[t], view'.active)
                          \/ \E i \in 1 .. Len(status_queue') : status_queue'[i] = "Connected"
    BY DEF AsShown, EndsUp, Toggle
  <2>1. scene.patient /\ app = "running" /\ UNCHANGED <<task, ping, tunnel_cmd_tx>>
    BY <1>3 DEF Drain
  <2>2. (task[t] = "none" => ~ping[t]) /\ (Unfinished(t) => tunnel_cmd_tx = t)
    BY <2>1 DEF AsShown
  <2>3. Underway(t)' = Underway(t) /\ Unfinished(t)' = Unfinished(t)
    BY <2>1 DEF Underway, Unfinished
  <2>4. QED
    BY <1>3, <2>1, <2>2, <2>3, DrainAsShown
<1>4. CASE Exit
  BY <1>4 DEF Exit, AsShown
<1>5. CASE CleanUp \/ UNCHANGED vars
  <2>1. UNCHANGED <<scene, app, view, tunnel_cmd_tx, status_queue, task, commands, ping>>
    BY <1>5 DEF CleanUp, vars, window, channel
  <2>2. QED
    BY <2>1 DEF AsShown, EndsUp, Toggle, Underway, Unfinished
<1>6. QED
  BY <1>1, <1>2, <1>3, <1>4, <1>5 DEF Next

-----------------------------------------------------------------------------
(* Where nobody turns the keepalive on, nothing ever pings.                 *)

OnlyDisconnects(queue) == \A i \in 1 .. Len(queue) : queue[i] = "Disconnect"

NothingPings ==
    ~scene.pings => /\ ~profile_keepalive /\ ~view.active
                    /\ \A t \in Tunnels : ~ping[t] /\ OnlyDisconnects(commands[t])

LEMMA InductiveNothingPings == TypeOK /\ NothingPings /\ [Next]_vars => NothingPings'
<1> SUFFICES ASSUME TypeOK, NothingPings, [Next]_vars, ~scene'.pings
             PROVE  /\ ~profile_keepalive' /\ ~view'.active
                    /\ \A t \in Tunnels : ~ping'[t] /\ OnlyDisconnects(commands'[t])
  BY DEF NothingPings, OnlyDisconnects
<1>1. ~scene.pings /\ scene.pings \in BOOLEAN
  BY SceneStays, GuiConstants DEF TypeOK, Scene
<1>2. /\ ~profile_keepalive /\ ~view.active
      /\ \A t \in Tunnels : ~ping[t] /\ OnlyDisconnects(commands[t])
  BY <1>1 DEF NothingPings
<1>3. /\ commands \in [Tunnels -> Seq(TunnelCommand)] /\ ping \in [Tunnels -> BOOLEAN]
      /\ view \in Buttons /\ profile_keepalive \in BOOLEAN
  BY DEF TypeOK
<1>4. ASSUME NEW t \in Tunnels, Step(t), NEW u \in Tunnels
      PROVE  ~ping'[u] /\ OnlyDisconnects(commands'[u])
  <2>1. commands[t] # <<>> =>
            /\ Head(commands[t]) = "Disconnect"
            /\ OnlyDisconnects(Tail(commands[t]))
    <3> SUFFICES ASSUME commands[t] # <<>>
                 PROVE  /\ Head(commands[t]) = "Disconnect"
                        /\ OnlyDisconnects(Tail(commands[t]))
      OBVIOUS
    <3> DEFINE queue == commands[t]
    <3>1. queue \in Seq(TunnelCommand) /\ queue # <<>> /\ OnlyDisconnects(queue)
      BY <1>2, <1>3
    <3> HIDE DEF queue
    <3>2. /\ Len(queue) \in Nat /\ Len(queue) >= 1 /\ Len(Tail(queue)) = Len(queue) - 1
          /\ Head(queue) = queue[1]
          /\ \A i \in 1 .. Len(Tail(queue)) : Tail(queue)[i] = queue[i + 1]
      BY <3>1, HeadTailProperties, LenProperties, EmptySeq
    <3>3. Head(queue) = "Disconnect" /\ OnlyDisconnects(Tail(queue))
      BY <3>1, <3>2 DEF OnlyDisconnects
    <3>4. QED
      BY <3>3 DEF queue
  <2>2. CASE u # t
    BY <1>2, <1>3, <1>4, <2>2, StepServes DEF Serves, Obeys, channel
  <2>3. CASE u = t
    BY <1>2, <1>3, <1>4, <2>1, <2>3, StepServes DEF Serves, Obeys, channel
  <2>4. QED
    BY <2>2, <2>3
<1>5. CASE \E t \in Tunnels : Step(t)
  BY <1>2, <1>4, <1>5, StepKeepsView DEF window
<1>6. ASSUME NEW t \in Tunnels, ClickConnect(t)
      PROVE  ~profile_keepalive' /\ UNCHANGED <<view, ping, commands>>
  BY <1>1, <1>6 DEF ClickConnect, channel
<1>7. CASE ClickDisconnect
  <2>1. UNCHANGED <<profile_keepalive, view, ping>>
    BY <1>7 DEF ClickDisconnect, window
  <2>2. ASSUME NEW t \in Tunnels
        PROVE  OnlyDisconnects(commands'[t])
    <3> DEFINE queue == commands[t]
               all   == queue \o <<"Disconnect">>
    <3>1. queue \in Seq(TunnelCommand) /\ OnlyDisconnects(queue)
      BY <1>2, <1>3
    <3>2. commands'[t] \in {queue, all}
      BY <1>7 DEF ClickDisconnect, Command
    <3>3. /\ <<"Disconnect">> \in Seq(TunnelCommand) /\ Len(<<"Disconnect">>) = 1
          /\ <<"Disconnect">>[1] = "Disconnect"
      BY DEF TunnelCommand
    <3> HIDE DEF queue
    <3>4. /\ Len(queue) \in Nat /\ Len(all) = Len(queue) + 1
          /\ \A i \in 1 .. Len(queue) : all[i] = queue[i]
          /\ all[Len(queue) + 1] = "Disconnect"
      BY <3>1, <3>3, ConcatProperties, LenProperties
    <3> HIDE DEF all
    <3>5. OnlyDisconnects(all)
      BY <3>1, <3>4 DEF OnlyDisconnects
    <3>6. QED
      BY <3>1, <3>2, <3>5
  <2>3. QED
    BY <1>2, <2>1, <2>2
<1>8. ~ClickKeepalive
  BY <1>1 DEF ClickKeepalive
<1>9. CASE Activate \/ CloseWindow \/ Exit \/ CleanUp \/ UNCHANGED vars
  BY <1>2, <1>9 DEF Activate, CloseWindow, Exit, CleanUp, vars, window, channel
<1>10. CASE Drain
  <2> DEFINE status == Head(status_queue)
  <2>1. /\ status \in TunnelStatus /\ UNCHANGED <<profile_keepalive, ping>>
        /\ view' = update_status(status, view) /\ Command(Toggles(status))
    <3>1. status_queue \in Seq(TunnelStatus) /\ status_queue # <<>>
      BY <1>10 DEF Drain, TypeOK
    <3>2. QED
      BY <1>2, <1>10, <3>1, HeadTailProperties DEF Drain
  <2>2. Toggles(status) = <<>>
    <3>1. <<>> \o <<>> = <<>>
      OBVIOUS
    <3>2. QED
      BY <1>2, <3>1 DEF Toggles
  <2>3. UNCHANGED commands
    <3>1. \A t \in Tunnels : commands[t] \o <<>> = commands[t]
      BY <1>3, ConcatEmptySeq
    <3>2. commands' = [t \in Tunnels |-> commands[t]]
      BY <2>1, <2>2, <3>1 DEF Command
    <3>3. QED
      BY <1>3, <3>2
  <2>4. ~view'.active
    BY <1>2, <1>3, <2>1 DEF update_status, Failed, Shows, Buttons
  <2>5. QED
    BY <1>2, <2>1, <2>3, <2>4
<1>11. CASE User
  BY <1>2, <1>6, <1>7, <1>8, <1>9, <1>11 DEF User
<1>12. QED
  BY <1>5, <1>9, <1>10, <1>11 DEF Next

\* In every case considered where the user may turn the keepalive on, one connection
\* follows another: then the button shows, once the statuses are drained and the
\* commands taken, whether the loop pings, however the clicks, the profile and the
\* state the button kept from the connection before were interleaved.
THEOREM ButtonShowsPings ==
    ASSUME \A s \in Scenes : s.patient \/ ~s.pings
    PROVE  Spec => []KeepaliveShown
<1>1. Init => AsShown /\ NothingPings
  <2> SUFFICES ASSUME Init
               PROVE  AsShown /\ NothingPings
    OBVIOUS
  <2>1. NothingPings
    BY DEF Init, NothingPings, OnlyDisconnects
  <2>2. AsShown
    BY DEF Init, AsShown, Unfinished, Underway
  <2>3. QED
    BY <2>1, <2>2
<1>2. TypeOK /\ AsShown /\ NothingPings => KeepaliveShown
  <2> SUFFICES ASSUME TypeOK, AsShown, NothingPings, NEW t \in Tunnels,
                      Settled, task[t] = "loop", commands[t] = <<>>
               PROVE  ping[t] = view.active
    BY DEF KeepaliveShown
  <2>1. scene \in Scenes /\ ping[t] \in BOOLEAN /\ view.active \in BOOLEAN
    BY DEF TypeOK, Buttons
  <2>2. CASE scene.patient
    <3>1. status_queue = <<>> /\ 1 .. Len(status_queue) = {} /\ 1 .. Len(commands[t]) = {}
      <4>1. status_queue = <<>> /\ Len(<<>>) = 0
        BY DEF Settled
      <4>2. QED
        BY <4>1
    <3>2. EndsUp(ping[t], commands[t], view.active)
      BY <2>2, <3>1 DEF AsShown, Settled
    <3>3. QED
      BY <2>1, <3>1, <3>2 DEF EndsUp
  <2>3. CASE ~scene.pings
    BY <2>1, <2>3 DEF NothingPings
  <2>4. QED
    BY <2>1, <2>2, <2>3
<1>3. Spec => [](AsShown /\ NothingPings)
  BY TypesKept, <1>1, InductiveAsShown, InductiveNothingPings, PTL DEF Spec
<1>4. QED
  BY TypesKept, <1>2, <1>3, PTL
=============================================================================
