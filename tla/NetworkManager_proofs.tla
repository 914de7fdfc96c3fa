-------------------------- MODULE NetworkManager_proofs --------------------------
(***************************************************************************)
(* Theorems of the two components that meet in NetworkManager.  NmPlugin,   *)
(* for every set of tasks, every number of signals on their way and however *)
(* activations overlap: a Disconnect reaches the activation's tunnel, no    *)
(* tunnel is lost but to the STOPPED of another, and what an activation's   *)
(* own signals tell is the life of a session.  Tray, for any number of      *)
(* activations, of connections at a time, of clicks and of changes that     *)
(* concern no VPN: a request ends what was shown at the click.              *)
(***************************************************************************)
EXTENDS NmPlugin, Tray, TLAPS

-----------------------------------------------------------------------------
(* The queue of signals.                                                    *)

Sig(name, t) == [name |-> name, from |-> t]

\* What is on its way.
Pending == {signals[i] : i \in 1 .. Len(signals)}

LEMMA SigTyped ==
    ASSUME NEW t \in Tunnels
    PROVE  \A n \in {"STARTING", "Config", "Ip4Config", "STARTED", "STOPPING", "STOPPED",
                     "Failure"} :
              Sig(n, t) \in Signals /\ Sig(n, t).name = n /\ Sig(n, t).from = t
  BY DEF Sig, Signals

LEMMA EmitShape ==
    ASSUME signals \in Seq(Signals), NEW name, NEW t, Sig(name, t) \in Signals, Emit(name, t)
    PROVE  /\ signals' \in Seq(Signals) /\ Len(signals') = Len(signals) + 1
           /\ Len(signals) \in Nat
           /\ \A i \in 1 .. Len(signals) : signals'[i] = signals[i]
           /\ signals'[Len(signals')] = Sig(name, t)
  BY DEF Emit, Sig

LEMMA TailShape ==
    ASSUME signals \in Seq(Signals), signals # <<>>, signals' = Tail(signals)
    PROVE  /\ signals' \in Seq(Signals) /\ Len(signals') = Len(signals) - 1
           /\ \A i \in 1 .. Len(signals') : signals'[i] = signals[i + 1]
           /\ Head(signals) = signals[1] /\ Head(signals) \in Signals
           /\ Len(signals) \in Nat /\ Len(signals) > 0
  OBVIOUS

LEMMA PendingTyped ==
    ASSUME signals \in Seq(Signals)
    PROVE  \A s \in Pending : s \in Signals /\ s.from \in Tunnels
<1>1. \A s \in Pending : s \in Signals
  BY DEF Pending
<1>2. QED
  BY <1>1 DEF Signals

LEMMA EmitPending ==
    ASSUME signals \in Seq(Signals), NEW name, NEW t, Sig(name, t) \in Signals, Emit(name, t)
    PROVE  Pending' = Pending \cup {Sig(name, t)}
<1>1. ASSUME NEW i \in 1 .. Len(signals')
      PROVE  signals'[i] \in Pending \cup {Sig(name, t)}
  <2>1. i \in 1 .. Len(signals) \/ i = Len(signals')
    BY EmitShape
  <2>2. QED
    BY <2>1, EmitShape DEF Pending
<1>2. ASSUME NEW i \in 1 .. Len(signals)
      PROVE  signals[i] \in Pending'
  <2>1. i \in 1 .. Len(signals') /\ signals'[i] = signals[i]
    BY EmitShape
  <2>2. QED
    BY <2>1 DEF Pending
<1>3. Sig(name, t) \in Pending'
  <2>1. Len(signals') \in 1 .. Len(signals')
    BY EmitShape
  <2>2. QED
    BY <2>1, EmitShape DEF Pending
<1>4. QED
  BY <1>1, <1>2, <1>3 DEF Pending

LEMMA TailPending ==
    ASSUME signals \in Seq(Signals), signals # <<>>, signals' = Tail(signals)
    PROVE  /\ Pending' \subseteq Pending /\ Pending \subseteq Pending' \cup {Head(signals)}
           /\ Head(signals) \in Pending
<1>1. ASSUME NEW i \in 1 .. Len(signals')
      PROVE  signals'[i] \in Pending
  <2>1. i + 1 \in 1 .. Len(signals) /\ signals'[i] = signals[i + 1]
    BY TailShape
  <2>2. QED
    BY <2>1 DEF Pending
<1>2. ASSUME NEW i \in 1 .. Len(signals)
      PROVE  signals[i] \in Pending' \cup {Head(signals)}
  <2>1. CASE i = 1
    BY <2>1, TailShape
  <2>2. CASE i # 1
    <3>1. i - 1 \in 1 .. Len(signals') /\ signals'[i - 1] = signals[i]
      BY <2>2, TailShape
    <3>2. QED
      BY <3>1 DEF Pending
  <2>3. QED
    BY <2>1, <2>2
<1>3. Head(signals) \in Pending
  BY TailShape DEF Pending
<1>4. QED
  BY <1>1, <1>2, <1>3 DEF Pending

-----------------------------------------------------------------------------
(* The inductive invariant.                                                 *)

\* NM has the tunnel of its last Connect, and the object its handle; a tunnel that
\* is done has told of it.
Reached ==
    /\ phase # "off" \/ method # "none" => current \in Tunnels /\ task[current] # "none"
    /\ phase \in {"starting", "on"} =>
         /\ tunnel = current /\ method = "none"
         /\ task[current] = "done" => Sig("STOPPED", current) \in Pending

\* Whatever signals, of the tunnel whose handle is held nobody but its task says
\* that it stopped.
Spoken ==
    \A s \in Pending : /\ task[s.from] # "none"
                       /\ s.name = "STOPPED" /\ s.from = tunnel => task[tunnel] = "done"

\* The handle is that of the last Connect, and goes with the Disconnect.  When NM has
\* no activation, a handle that is left is of no use, or NM was told wrong.
Handle ==
    tunnel # None =>
        /\ tunnel = current /\ method = "none" /\ task[tunnel] # "none"
        /\ phase = "off" => ~ComesUp(tunnel) \/ tunnel \in orphaned

IInv == TypeOK /\ Reached /\ Spoken /\ Handle /\ LostToAnother

LEMMA InitHolds == Init => IInv
<1> SUFFICES ASSUME Init
             PROVE  IInv
  OBVIOUS
<1>1. TypeOK
  BY DEF Init, TypeOK, Stages, Signals
<1>2. Pending = {}
  BY DEF Init, Pending
<1>3. QED
  BY <1>1, <1>2 DEF Init, IInv, Reached, Spoken, Handle, LostToAnother, ComesUp, Running

\* A step of a task, which may signal.
LEMMA TaskMoves ==
    ASSUME IInv, NEW t \in Tunnels, NEW to \in Stages \ {"none"},
           task[t] \notin {"none", "done"}, task' = [task EXCEPT ![t] = to],
           signals' \in Seq(Signals), Pending \subseteq Pending',
           \A s \in Pending' : s \in Pending \/ (s.from = t /\ (s.name = "STOPPED" => to = "done")),
           to = "done" => Sig("STOPPED", t) \in Pending',
           UNCHANGED <<object, nm>>, tun' \in Tunnels \cup {None},
           permit' \in [Tunnels -> BOOLEAN], \A s \in Tunnels \ {t} : permit'[s] = permit[s],
           ComesUp(t)' => ComesUp(t) /\ permit'[t] = permit[t]
    PROVE  IInv'
<1>1. TypeOK'
  BY DEF IInv, TypeOK, object, nm
<1>2. \A s \in Tunnels : task'[s] = IF s = t THEN to ELSE task[s]
  BY DEF IInv, TypeOK
<1>3. \A s \in Tunnels : ComesUp(s)' => ComesUp(s) /\ permit'[s] = permit[s]
  BY <1>2 DEF ComesUp, Running
<1>4. UNCHANGED <<tunnel, method, phase, current, orphaned>>
  BY DEF object, nm
<1>5. tunnel \in Tunnels \cup {None} /\ None \notin Tunnels
  BY PluginConstants DEF IInv, TypeOK
<1>6. Reached'
  BY <1>2, <1>4 DEF IInv, Reached
<1>7. Spoken'
  <2> SUFFICES ASSUME NEW s \in Pending'
               PROVE  /\ task'[s.from] # "none"
                      /\ s.name = "STOPPED" /\ s.from = tunnel => task'[tunnel] = "done"
    BY <1>4 DEF Spoken
  <2>1. s.from \in Tunnels
    <3>1. s \in Signals
      BY DEF Pending
    <3>2. QED
      BY <3>1 DEF Signals
  <2>2. CASE s \in Pending
    BY <1>2, <2>1, <2>2 DEF IInv, Spoken
  <2>3. CASE s.from = t /\ (s.name = "STOPPED" => to = "done")
    BY <1>2, <2>3
  <2>4. QED
    BY <2>2, <2>3
<1>8. Handle'
  BY <1>2, <1>3, <1>4, <1>5 DEF IInv, Handle
<1>9. LostToAnother'
  BY <1>3, <1>4 DEF IInv, LostToAnother
<1>10. QED
  BY <1>1, <1>6, <1>7, <1>8, <1>9 DEF IInv

LEMMA StepHolds == ASSUME IInv, NEW t \in Tunnels, Step(t) PROVE IInv'
<1> USE DEF Goes, Quiet
<1>1. /\ task \in [Tunnels -> Stages] /\ signals \in Seq(Signals)
      /\ permit \in [Tunnels -> BOOLEAN] /\ tun \in Tunnels \cup {None}
  BY DEF IInv, TypeOK
<1>2. ASSUME NEW to \in Stages \ {"none", "done"}, Goes(t, to), task[t] \notin {"none", "done"},
             signals' = signals, UNCHANGED <<object, nm>>, tun' \in Tunnels \cup {None},
             permit' \in [Tunnels -> BOOLEAN], \A s \in Tunnels \ {t} : permit'[s] = permit[s],
             ComesUp(t)' => ComesUp(t) /\ permit'[t] = permit[t]
      PROVE  IInv'
  <2>1. Pending' = Pending
    BY <1>2 DEF Pending
  <2>2. QED
    BY <1>1, <1>2, <2>1, TaskMoves
<1>3. CASE Connected(t) \/ Fails(t) \/ Negotiated(t)
  <2>1. PICK to \in {"negotiate", "Failure", "create"} : Goes(t, to) /\ (task[t] = "connect"
                                                               \/ task[t] = "negotiate")
    BY <1>3 DEF Connected, Fails, Negotiated
  <2>2. ComesUp(t)
    BY <2>1 DEF ComesUp, Running
  <2>3. QED
    BY <1>1, <1>2, <1>3, <2>1, <2>2 DEF Connected, Fails, Negotiated, Stages
<1>4. CASE CreateTun(t)
  <2>1. ComesUp(t)
    BY <1>4 DEF CreateTun, ComesUp, Running
  <2>2. QED
    BY <1>1, <1>2, <1>4, <2>1 DEF CreateTun, Stages
<1>5. CASE Signal(t)
  <2>1. /\ task[t] \in {"Config", "Ip4Config", "STARTED", "Failure", "STOPPING", "STOPPED"}
        /\ Emit(task[t], t) /\ UNCHANGED <<object, permit, tun, nm>>
        /\ task' = [task EXCEPT ![t] = After(task[t])]
    BY <1>5 DEF Signal
  <2>2. Sig(task[t], t) \in Signals /\ Sig(task[t], t).name = task[t] /\ Sig(task[t], t).from = t
    BY <2>1, SigTyped
  <2>3. signals' \in Seq(Signals) /\ Pending' = Pending \cup {Sig(task[t], t)}
    BY <1>1, <2>1, <2>2, EmitShape, EmitPending
  <2>4. /\ After(task[t]) \in Stages \ {"none"}
        /\ After(task[t]) = "done" <=> task[t] = "STOPPED"
        /\ After(task[t]) \notin {"Failure", "STOPPING", "STOPPED", "done"}
             => task[t] \in {"Config", "Ip4Config", "STARTED"}
    BY <2>1 DEF After, Stages
  <2>5. task'[t] = After(task[t])
    BY <1>1, <2>1
  <2>6. ComesUp(t)' => ComesUp(t)
    BY <2>4, <2>5 DEF ComesUp, Running
  <2> DEFINE to == After(task[t])
  <2>7. /\ to = "done" => Sig("STOPPED", t) \in Pending'
        /\ \A s \in Pending' : s \in Pending
                                \/ (s.from = t /\ (s.name = "STOPPED" => to = "done"))
    BY <2>2, <2>3, <2>4
  <2>8. to \in Stages \ {"none"} /\ task' = [task EXCEPT ![t] = to]
        /\ task[t] \notin {"none", "done"} /\ Pending \subseteq Pending'
    BY <2>1, <2>3, <2>4
  <2> HIDE DEF to
  <2>9. QED
    BY <1>1, <2>1, <2>3, <2>6, <2>7, <2>8, TaskMoves
<1>6. ASSUME NEW to \in {"STOPPING", "Failure"}, LeaveLoop(t, to),
             permit' \in [Tunnels -> BOOLEAN], \A s \in Tunnels \ {t} : permit'[s] = permit[s]
      PROVE  IInv'
  <2>1. task'[t] = to /\ task[t] = "loop"
    BY <1>1, <1>6 DEF LeaveLoop
  <2>2. ~ComesUp(t)'
    BY <2>1 DEF ComesUp
  <2>3. QED
    BY <1>1, <1>2, <1>6, <2>1, <2>2 DEF LeaveLoop, Stages
<1>7. CASE LoopEnds(t) \/ LoopFails(t)
  BY <1>1, <1>6, <1>7 DEF LoopEnds, LoopFails
<1>8. CASE LoopStopped(t)
  BY <1>1, <1>6, <1>8 DEF LoopStopped
<1>9. QED
  BY <1>3, <1>4, <1>5, <1>7, <1>8 DEF Step

LEMMA ConnectHolds == ASSUME IInv, NEW t \in Tunnels, Connect(t) PROVE IInv'
<1>1. Sig("STARTING", t) \in Signals /\ Sig("STARTING", t).name = "STARTING"
      /\ Sig("STARTING", t).from = t
  BY SigTyped
<1>2. signals' \in Seq(Signals) /\ Pending' = Pending \cup {Sig("STARTING", t)}
  BY <1>1, EmitShape, EmitPending DEF Connect, IInv, TypeOK
<1>3. TypeOK'
  BY <1>2 DEF Connect, IInv, TypeOK, Stages
<1>4. /\ \A u \in Tunnels : task'[u] = IF u = t THEN "connect" ELSE task[u]
      /\ task[t] = "none" /\ tunnel' = t /\ current' = t /\ method' = "none"
      /\ phase = "off" /\ phase' = "starting" /\ UNCHANGED <<permit, orphaned>>
  BY DEF Connect, Activates, IInv, TypeOK
<1>5. Reached'
  BY <1>4 DEF Reached
<1>6. Spoken'
  <2> SUFFICES ASSUME NEW s \in Pending'
               PROVE  task'[s.from] # "none" /\ ~(s.name = "STOPPED" /\ s.from = t)
    BY <1>4 DEF Spoken
  <2>1. CASE s \in Pending
    <3>1. task[s.from] # "none" /\ s.from # t
      BY <1>4, <2>1 DEF IInv, Spoken
    <3>2. s \in Signals
      BY <2>1 DEF Pending, IInv, TypeOK
    <3>3. QED
      BY <1>4, <3>1, <3>2 DEF Signals
  <2>2. CASE s = Sig("STARTING", t)
    BY <1>1, <1>4, <2>2
  <2>3. QED
    BY <1>2, <2>1, <2>2
<1>7. Handle'
  BY <1>4 DEF Handle
<1>8. LostToAnother'
  <2> SUFFICES ASSUME NEW u \in Tunnels, ComesUp(u)', u # t
               PROVE  permit[u] \/ u \in orphaned
    BY <1>4 DEF LostToAnother
  <2>1. ComesUp(u)
    BY <1>4 DEF ComesUp, Running
  <2>2. CASE tunnel = u
    BY <1>4, <2>1, <2>2, PluginConstants DEF IInv, Handle
  <2>3. QED
    BY <2>1, <2>2 DEF IInv, LostToAnother
<1>9. QED
  BY <1>3, <1>5, <1>6, <1>7, <1>8 DEF IInv

LEMMA RefusedHolds == ASSUME IInv, NEW t \in Tunnels, ConnectRefused(t) PROVE IInv'
<1>1. Sig("Failure", t) \in Signals /\ Sig("Failure", t).name = "Failure"
      /\ Sig("Failure", t).from = t
  BY SigTyped
<1>2. signals' \in Seq(Signals) /\ Pending' = Pending \cup {Sig("Failure", t)}
  BY <1>1, EmitShape, EmitPending DEF ConnectRefused, IInv, TypeOK
<1>3. /\ \A u \in Tunnels : task'[u] = IF u = t THEN "done" ELSE task[u]
      /\ task[t] = "none" /\ phase = "off" /\ method = "none"
      /\ UNCHANGED <<tunnel, vpn_state, method, permit, tun, phase, current, orphaned>>
  BY DEF ConnectRefused, Activates, object, nm, IInv, TypeOK
<1>4. task' \in [Tunnels -> Stages]
  BY DEF ConnectRefused, IInv, TypeOK, Stages
<1>5. TypeOK'
  BY <1>2, <1>3, <1>4 DEF IInv, TypeOK
<1>6. Reached'
  BY <1>3 DEF Reached
<1>7. tunnel # None => tunnel \in Tunnels /\ tunnel # t
  BY <1>3 DEF IInv, Handle, TypeOK
<1>8. Spoken'
  <2> SUFFICES ASSUME NEW s \in Pending'
               PROVE  /\ task'[s.from] # "none"
                      /\ s.name = "STOPPED" /\ s.from = tunnel => task'[tunnel] = "done"
    BY <1>3 DEF Spoken
  <2>1. CASE s \in Pending
    <3>1. s.from \in Tunnels /\ (s.from = tunnel => tunnel # t)
      BY <1>7, <2>1, PendingTyped, PluginConstants DEF IInv, TypeOK
    <3>2. QED
      BY <1>3, <2>1, <3>1 DEF IInv, Spoken
  <2>2. CASE s = Sig("Failure", t)
    BY <1>1, <1>3, <2>2
  <2>3. QED
    BY <1>2, <2>1, <2>2
<1>9. \A u \in Tunnels : ComesUp(u)' => ComesUp(u)
  BY <1>3 DEF ComesUp, Running
<1>10. Handle'
  BY <1>3, <1>7, <1>9 DEF IInv, Handle
<1>11. LostToAnother'
  BY <1>3, <1>9 DEF IInv, LostToAnother
<1>12. QED
  BY <1>5, <1>6, <1>8, <1>10, <1>11 DEF IInv

LEMMA DisconnectHolds == ASSUME IInv, Disconnect PROVE IInv'
<1>1. permit' = [t \in Tunnels |-> permit[t] \/ t = tunnel]
      /\ permit' \in [Tunnels -> BOOLEAN]
  <2>1. \A t \in Tunnels : (permit[t] \/ t = tunnel) \in BOOLEAN
    OBVIOUS
  <2>2. QED
    BY <2>1 DEF Disconnect
<1>2. /\ tunnel' = None /\ method' = "STOPPING" /\ phase' = "stopping"
      /\ phase \in {"starting", "on"}
      /\ UNCHANGED <<vpn_state, task, tun, signals, current, orphaned>>
  BY DEF Disconnect
<1>3. TypeOK'
  BY <1>1, <1>2 DEF IInv, TypeOK
<1>4. Reached' /\ Handle'
  BY <1>2 DEF IInv, Reached, Handle
<1>5. Pending' = Pending
  BY <1>2 DEF Pending
<1>6. Spoken'
  BY <1>2, <1>5, PendingTyped, PluginConstants DEF IInv, TypeOK, Spoken
<1>7. LostToAnother'
  BY <1>1, <1>2 DEF IInv, LostToAnother, ComesUp, Running
<1>8. QED
  BY <1>3, <1>4, <1>6, <1>7 DEF IInv

LEMMA SignalsHold == ASSUME IInv, DisconnectSignals PROVE IInv'
<1>1. /\ current \in Tunnels /\ method \in {"STOPPING", "STOPPED"} /\ Emit(method, current)
      /\ phase \notin {"starting", "on"} /\ tunnel = None
      /\ UNCHANGED <<tunnel, task, permit, tun, phase, current, orphaned>>
      /\ method' \in {"none", "STOPPED"} /\ vpn_state' \in {vpn_state, "STOPPED"}
  BY DEF DisconnectSignals, IInv, Reached, Handle, nm
<1>2. Sig(method, current) \in Signals /\ Sig(method, current).from = current
  BY <1>1, SigTyped
<1>3. signals' \in Seq(Signals) /\ Pending' = Pending \cup {Sig(method, current)}
  BY <1>1, <1>2, EmitShape, EmitPending DEF IInv, TypeOK
<1>4. TypeOK'
  BY <1>1, <1>3 DEF IInv, TypeOK
<1>5. Reached' /\ Handle'
  BY <1>1 DEF IInv, Reached, Handle
<1>6. task[current] # "none"
  BY <1>1 DEF IInv, Reached
<1>7. \A s \in Pending' : s.from \in Tunnels /\ s.from # None
  BY <1>1, <1>2, <1>3, PendingTyped, PluginConstants DEF IInv, TypeOK
<1>8. Spoken'
  BY <1>1, <1>2, <1>3, <1>6, <1>7 DEF IInv, Spoken
<1>9. LostToAnother'
  BY <1>1 DEF IInv, LostToAnother, ComesUp, Running
<1>10. QED
  BY <1>4, <1>5, <1>8, <1>9 DEF IInv

\* What a signal does to NM's view.
LEMMA ReceiveShape ==
    ASSUME IInv, Receive
    PROVE  /\ signals # <<>> /\ signals' = Tail(signals) /\ current' = current
           /\ UNCHANGED <<tunnel, vpn_state, method, task, permit, tun>>
           /\ orphaned' = IF phase # "off" /\ Head(signals).name = "STOPPED"
                             /\ Head(signals).from # current
                          THEN orphaned \cup {current} ELSE orphaned
           /\ phase = "off" => phase' = "off"
           /\ phase # "off" =>
                /\ Head(signals).name = "STOPPED" => phase' = "off"
                /\ Head(signals).name = "STOPPING" => phase' = "stopping"
                /\ Head(signals).name \notin {"STOPPED", "STOPPING"} =>
                     phase' = phase \/ (phase = "starting" /\ phase' = "on")
<1>1. signals # <<>> /\ signals' = Tail(signals)
      /\ UNCHANGED <<tunnel, vpn_state, method, task, permit, tun>>
  BY DEF Receive, object
<1>2. CASE phase = "off"
  BY <1>1, <1>2 DEF Receive, nm
<1>3. CASE phase # "off"
  <2>1. /\ current' = current
        /\ phase' = CASE Head(signals).name = "STOPPED"    -> "off"
                      [] Head(signals).name = "STOPPING"   -> "stopping"
                      [] Head(signals).name = "STARTED" /\ phase = "starting" -> "on"
                      [] OTHER                             -> phase
        /\ orphaned' = IF Head(signals).name = "STOPPED" /\ Head(signals).from # current
                       THEN orphaned \cup {current} ELSE orphaned
    BY <1>3 DEF Receive
  <2>2. Head(signals).name = "STOPPED" => phase' = "off"
    BY <2>1
  <2>3. Head(signals).name = "STOPPING" => phase' = "stopping"
    BY <2>1
  <2>4. Head(signals).name \notin {"STOPPED", "STOPPING"} =>
           phase' = phase \/ (phase = "starting" /\ phase' = "on")
    <3>1. CASE Head(signals).name = "STARTED" /\ phase = "starting"
      <4>1. phase' = "on"
        BY <2>1, <3>1
      <4>2. QED
        BY <3>1, <4>1
    <3>2. CASE ~(Head(signals).name = "STARTED" /\ phase = "starting")
      BY <2>1, <3>2
    <3>3. QED
      BY <3>1, <3>2
  <2>5. orphaned' = IF phase # "off" /\ Head(signals).name = "STOPPED"
                       /\ Head(signals).from # current
                    THEN orphaned \cup {current} ELSE orphaned
    BY <1>3, <2>1
  <2>6. QED
    BY <1>1, <1>3, <2>1, <2>2, <2>3, <2>4, <2>5
<1>4. QED
  BY <1>2, <1>3

LEMMA ReceiveHolds == ASSUME IInv, Receive PROVE IInv'
<1>1. /\ signals \in Seq(Signals) /\ Head(signals) \in Signals /\ Head(signals) \in Pending
      /\ Pending' \subseteq Pending /\ Pending \subseteq Pending' \cup {Head(signals)}
  BY ReceiveShape, TailShape, TailPending DEF IInv, TypeOK
<1>2. /\ orphaned \subseteq orphaned' /\ (phase # "off" => current \in Tunnels)
      /\ phase \in {"off", "starting", "on", "stopping"}
  BY ReceiveShape DEF IInv, Reached, TypeOK
<1>3. TypeOK'
  <2>1. phase' \in {"off", "starting", "on", "stopping"}
    BY <1>1, <1>2, ReceiveShape
  <2>2. orphaned' \subseteq Tunnels
    BY <1>2, ReceiveShape DEF IInv, TypeOK
  <2>3. QED
    BY <2>1, <2>2, ReceiveShape, TailShape DEF IInv, TypeOK
<1>4. Reached'
  <2>1. CASE phase' \in {"starting", "on"}
    <3>1. Head(signals).name # "STOPPED" /\ phase \in {"starting", "on"}
      BY <1>2, <2>1, ReceiveShape
    <3>2. Head(signals) # Sig("STOPPED", current)
      BY <3>1 DEF Sig
    <3>3. QED
      BY <1>1, <3>1, <3>2, ReceiveShape DEF IInv, Reached
  <2>2. CASE phase' \notin {"starting", "on"}
    BY <1>2, <2>2, ReceiveShape DEF IInv, Reached
  <2>3. QED
    BY <2>1, <2>2
<1>5. Spoken'
  BY <1>1, ReceiveShape DEF IInv, Spoken
<1>6. \A u \in Tunnels : ComesUp(u)' <=> ComesUp(u)
  BY ReceiveShape DEF ComesUp, Running
<1>7. Handle'
  <2> SUFFICES ASSUME tunnel # None, phase' = "off"
               PROVE  ~ComesUp(tunnel) \/ tunnel \in orphaned'
    BY <1>6, ReceiveShape DEF IInv, Handle, TypeOK
  <2>1. CASE phase = "off"
    BY <1>2, <2>1 DEF IInv, Handle
  <2>2. CASE phase # "off"
    <3>1. Head(signals).name = "STOPPED" /\ tunnel = current
      BY <1>2, <2>2, ReceiveShape DEF IInv, Handle
    <3>2. CASE Head(signals).from = tunnel
      <4>1. task[tunnel] = "done"
        BY <1>1, <3>1, <3>2 DEF IInv, Spoken
      <4>2. QED
        BY <4>1 DEF ComesUp, Running
    <3>3. CASE Head(signals).from # tunnel
      BY <2>2, <3>1, <3>3, ReceiveShape
    <3>4. QED
      BY <3>2, <3>3
  <2>3. QED
    BY <2>1, <2>2
<1>8. LostToAnother'
  BY <1>2, <1>6, ReceiveShape DEF IInv, LostToAnother
<1>9. QED
  BY <1>3, <1>4, <1>5, <1>7, <1>8 DEF IInv

LEMMA Inductive == IInv /\ [Next]_vars => IInv'
<1>1. IInv /\ UNCHANGED vars => IInv'
  BY DEF vars, IInv, TypeOK, Reached, Spoken, Handle, LostToAnother, Pending, ComesUp, Running
<1>2. QED
  BY <1>1, StepHolds, ConnectHolds, RefusedHolds, DisconnectHolds, SignalsHold, ReceiveHolds
  DEF Next

THEOREM IInvHolds == Spec => []IInv
<1>1. IInv /\ [Next]_vars => IInv'
  BY Inductive
<1>2. QED
  BY InitHolds, <1>1, PTL DEF Spec

\* Every variable keeps to its type; a signal always names a task.
THEOREM TypesKept == Spec => []TypeOK
<1>1. IInv => TypeOK
  BY DEF IInv
<1>2. QED
  BY IInvHolds, <1>1, PTL

\* Also when activations overlap, a Disconnect of an activation reaches its own
\* tunnel, and that tunnel lives as long as its end is not on its way to NM
\* (plugin.rs 93-109, 184-185).
THEOREM DisconnectReaches == Spec => []HandleReaches
<1>1. IInv => HandleReaches
  BY DEF IInv, TypeOK, Reached, HandleReaches, Pending
<1>2. QED
  BY IInvHolds, <1>1, PTL

\* However activations overlap, a tunnel that comes up or is up has its handle held
\* or its permit, or NM took another's STOPPED for it (plugin.rs 93-109, 184-185).
THEOREM NoneLostOtherwise == Spec => []LostToAnother
<1>1. IInv => LostToAnother
  BY DEF IInv
<1>2. QED
  BY IInvHolds, <1>1, PTL

-----------------------------------------------------------------------------
(* The life of a session, as its own signals tell it.                       *)

\* Every STOPPED of a task on its way comes after a STOPPING.
AnnouncedBy(c) ==
    \A i \in 1 .. Len(signals) : signals[i] = Sig("STOPPED", c) =>
        \E j \in 1 .. i - 1 : signals[j] = Sig("STOPPING", c)

\* While NM has an activation that is not stopping, its end is announced in order.
Orderly ==
    phase \in {"starting", "on"} =>
        /\ task[current] = "STOPPED" => Sig("STOPPING", current) \in Pending
        /\ AnnouncedBy(current)

LEMMA EmitAnnounced ==
    ASSUME signals \in Seq(Signals), NEW c, AnnouncedBy(c),
           NEW name, NEW t, Sig(name, t) \in Signals, Emit(name, t),
           Sig(name, t) = Sig("STOPPED", c) => Sig("STOPPING", c) \in Pending
    PROVE  \A i \in 1 .. Len(signals') : signals'[i] = Sig("STOPPED", c) =>
              \E j \in 1 .. i - 1 : signals'[j] = Sig("STOPPING", c)
<1> SUFFICES ASSUME NEW i \in 1 .. Len(signals'), signals'[i] = Sig("STOPPED", c)
             PROVE  \E j \in 1 .. i - 1 : signals'[j] = Sig("STOPPING", c)
  OBVIOUS
<1>1. Len(signals) \in Nat /\ Len(signals') = Len(signals) + 1
  BY EmitShape
<1>2. CASE i \in 1 .. Len(signals)
  <2>1. signals[i] = Sig("STOPPED", c)
    BY <1>2, EmitShape
  <2>2. PICK j \in 1 .. i - 1 : signals[j] = Sig("STOPPING", c)
    BY <1>2, <2>1 DEF AnnouncedBy
  <2>3. j \in 1 .. Len(signals)
    BY <1>1, <1>2, <2>2
  <2>4. signals'[j] = Sig("STOPPING", c)
    BY <2>2, <2>3, EmitShape
  <2>5. QED
    BY <2>2, <2>4
<1>3. CASE i = Len(signals')
  <2>1. Sig("STOPPING", c) \in Pending
    BY <1>3, EmitShape
  <2>2. PICK j \in 1 .. Len(signals) : signals[j] = Sig("STOPPING", c)
    BY <2>1 DEF Pending
  <2>3. j \in 1 .. i - 1 /\ signals'[j] = Sig("STOPPING", c)
    BY <1>1, <1>3, <2>2, EmitShape
  <2>4. QED
    BY <2>3
<1>4. QED
  BY <1>1, <1>2, <1>3

LEMMA TailAnnounced ==
    ASSUME signals \in Seq(Signals), signals # <<>>, signals' = Tail(signals),
           NEW c, AnnouncedBy(c)
    PROVE  /\ Head(signals) # Sig("STOPPED", c)
           /\ Head(signals) # Sig("STOPPING", c) =>
                \A i \in 1 .. Len(signals') : signals'[i] = Sig("STOPPED", c) =>
                    \E j \in 1 .. i - 1 : signals'[j] = Sig("STOPPING", c)
<1>1. Head(signals) # Sig("STOPPED", c)
  BY TailShape DEF AnnouncedBy
<1>2. ASSUME Head(signals) # Sig("STOPPING", c),
             NEW i \in 1 .. Len(signals'), signals'[i] = Sig("STOPPED", c)
      PROVE  \E j \in 1 .. i - 1 : signals'[j] = Sig("STOPPING", c)
  <2>1. i + 1 \in 1 .. Len(signals) /\ signals[i + 1] = Sig("STOPPED", c)
    BY <1>2, TailShape
  <2>2. PICK j \in 1 .. (i + 1) - 1 : signals[j] = Sig("STOPPING", c)
    BY <2>1 DEF AnnouncedBy
  <2>3. j # 1
    BY <1>2, <2>2, TailShape
  <2>4. j - 1 \in 1 .. i - 1 /\ j - 1 \in 1 .. Len(signals')
    BY <1>2, <2>1, <2>2, <2>3, TailShape
  <2>5. signals'[j - 1] = signals[j]
    BY <2>4, TailShape
  <2>6. QED
    BY <2>2, <2>4, <2>5
<1>3. QED
  BY <1>1, <1>2

LEMMA StepOrderly == ASSUME IInv, Orderly, NEW t \in Tunnels, Step(t) PROVE Orderly'
<1> USE DEF Goes, Quiet
<1>1. task \in [Tunnels -> Stages] /\ signals \in Seq(Signals)
  BY DEF IInv, TypeOK
<1>2. UNCHANGED <<phase, current>>
  BY DEF Step, Connected, Fails, Negotiated, CreateTun, Signal, LoopEnds, LoopFails,
         LoopStopped, LeaveLoop, nm
<1> SUFFICES ASSUME phase \in {"starting", "on"}
             PROVE  /\ task'[current] = "STOPPED" => Sig("STOPPING", current) \in Pending'
                    /\ AnnouncedBy(current)'
  BY <1>2 DEF Orderly
<1>3. current \in Tunnels /\ AnnouncedBy(current)
      /\ (task[current] = "STOPPED" => Sig("STOPPING", current) \in Pending)
  BY DEF Orderly, IInv, Reached
<1>4. CASE ~Signal(t)
  <2>1. signals' = signals
        /\ \E to \in Stages \ {"STOPPED"} : task' = [task EXCEPT ![t] = to]
    BY <1>4 DEF Step, Connected, Fails, Negotiated, CreateTun, LoopEnds, LoopFails,
       LoopStopped, LeaveLoop, Stages
  <2>2. task'[current] = "STOPPED" => task[current] = "STOPPED"
    BY <1>1, <1>3, <2>1
  <2>3. QED
    BY <1>2, <1>3, <2>1, <2>2 DEF Pending, AnnouncedBy
<1>5. CASE Signal(t)
  <2>1. /\ task[t] \in {"Config", "Ip4Config", "STARTED", "Failure", "STOPPING", "STOPPED"}
        /\ Emit(task[t], t) /\ task' = [task EXCEPT ![t] = After(task[t])]
    BY <1>5 DEF Signal
  <2>2. Sig(task[t], t) \in Signals
    BY <2>1, SigTyped
  <2>3. Pending' = Pending \cup {Sig(task[t], t)}
    BY <1>1, <2>1, <2>2, EmitPending
  <2>4. Sig(task[t], t) = Sig("STOPPED", current) => task[current] = "STOPPED"
    BY DEF Sig
  <2>5. AnnouncedBy(current)'
    <3>1. \A i \in 1 .. Len(signals') : signals'[i] = Sig("STOPPED", current) =>
              \E j \in 1 .. i - 1 : signals'[j] = Sig("STOPPING", current)
      BY <1>1, <1>3, <2>1, <2>2, <2>4, EmitAnnounced
    <3>2. QED
      BY <1>2, <3>1 DEF AnnouncedBy
  <2>6. task'[current] = "STOPPED" =>
           task[current] = "STOPPED" \/ (t = current /\ task[t] = "STOPPING")
    <3>1. CASE t = current
      BY <1>1, <2>1, <3>1 DEF After
    <3>2. CASE t # current
      BY <1>1, <1>3, <2>1, <3>2
    <3>3. QED
      BY <3>1, <3>2
  <2>7. QED
    BY <1>3, <2>3, <2>5, <2>6
<1>6. QED
  BY <1>4, <1>5

LEMMA ConnectOrderly == ASSUME IInv, NEW t \in Tunnels, Connect(t) PROVE Orderly'
<1>1. /\ task[t] = "none" /\ task' = [task EXCEPT ![t] = "connect"] /\ current' = t
      /\ Emit("STARTING", t) /\ task \in [Tunnels -> Stages] /\ signals \in Seq(Signals)
  BY DEF Connect, IInv, TypeOK
<1>2. task'[t] = "connect"
  BY <1>1
<1>3. Sig("STARTING", t) \in Signals /\ Sig("STARTING", t) # Sig("STOPPED", t)
  BY SigTyped DEF Sig
<1>4. Sig("STOPPED", t).from = t
  BY DEF Sig
<1>5. AnnouncedBy(t)
  BY <1>1, <1>4 DEF AnnouncedBy, IInv, Spoken, Pending
<1>6. AnnouncedBy(current)'
  <2>1. \A i \in 1 .. Len(signals') : signals'[i] = Sig("STOPPED", t) =>
            \E j \in 1 .. i - 1 : signals'[j] = Sig("STOPPING", t)
    BY <1>1, <1>3, <1>5, EmitAnnounced
  <2>2. QED
    BY <1>1, <2>1 DEF AnnouncedBy
<1>7. QED
  BY <1>1, <1>2, <1>6 DEF Orderly

LEMMA ReceiveOrderly == ASSUME IInv, Orderly, Receive PROVE Orderly'
<1> SUFFICES ASSUME phase' \in {"starting", "on"}
             PROVE  Orderly'
  BY DEF Orderly
<1>1. phase \in {"starting", "on"} /\ Head(signals).name # "STOPPING"
  BY ReceiveShape DEF IInv, TypeOK
<1>2. /\ Head(signals) # Sig("STOPPING", current) /\ current' = current /\ task' = task
      /\ signals \in Seq(Signals) /\ signals # <<>> /\ signals' = Tail(signals)
  BY <1>1, ReceiveShape DEF Sig, IInv, TypeOK
<1>3. AnnouncedBy(current)'
  <2>1. \A i \in 1 .. Len(signals') : signals'[i] = Sig("STOPPED", current) =>
            \E j \in 1 .. i - 1 : signals'[j] = Sig("STOPPING", current)
    BY <1>1, <1>2, TailAnnounced DEF Orderly
  <2>2. QED
    BY <1>2, <2>1 DEF AnnouncedBy
<1>4. Sig("STOPPING", current) \in Pending => Sig("STOPPING", current) \in Pending'
  BY <1>2, TailPending
<1>5. QED
  BY <1>1, <1>2, <1>3, <1>4 DEF Orderly

LEMMA InductiveOrderly == IInv /\ Orderly /\ [Next]_vars => Orderly'
<1> SUFFICES ASSUME IInv, Orderly, [Next]_vars
             PROVE  Orderly'
  OBVIOUS
<1>1. CASE \E t \in Tunnels : ConnectRefused(t)
  BY <1>1 DEF ConnectRefused, Activates, nm, Orderly
<1>2. CASE Disconnect \/ DisconnectSignals
  <2>1. phase' \notin {"starting", "on"}
    BY <1>2 DEF Disconnect, DisconnectSignals, nm, IInv, Reached
  <2>2. QED
    BY <2>1 DEF Orderly
<1>3. CASE UNCHANGED vars
  BY <1>3 DEF vars, Orderly, AnnouncedBy, Pending
<1>4. QED
  BY <1>1, <1>2, <1>3, StepOrderly, ConnectOrderly, ReceiveOrderly DEF Next

\* A step of the plugin or of NM is a step of SessionLife, or none, unless a signal
\* of an earlier activation is received.
LEMMA StepTold == IInv /\ Orderly /\ [Next]_vars => [Told!Next \/ Stale]_phase
<1> SUFFICES ASSUME IInv, Orderly, [Next]_vars, phase' # phase
             PROVE  Told!Next \/ Stale
  OBVIOUS
<1> USE DEF Told!Next, Told!Move
<1>1. CASE \E t \in Tunnels : Connect(t)
  BY <1>1 DEF Connect, Activates, Told!Start
<1>2. CASE Disconnect
  BY <1>2 DEF Disconnect, Told!Stop
<1>3. CASE Receive
  <2> SUFFICES ASSUME Head(signals).from = current
               PROVE  Told!Next
    BY <1>3, ReceiveShape DEF Stale
  <2>1. phase \in {"starting", "on", "stopping"}
    BY <1>3, ReceiveShape DEF IInv, TypeOK
  <2>2. CASE phase = "stopping"
    BY <1>3, <2>2, ReceiveShape DEF Told!Stopped
  <2>3. CASE phase \in {"starting", "on"}
    <3>1. Head(signals).name # "STOPPED"
      <4>1. AnnouncedBy(current) /\ Head(signals) # Sig("STOPPED", current)
        BY <1>3, <2>3, ReceiveShape, TailAnnounced DEF Orderly, IInv, TypeOK
      <4>2. Head(signals) \in Signals
        BY <1>3, ReceiveShape, TailShape DEF IInv, TypeOK
      <4>3. Head(signals) = Sig(Head(signals).name, Head(signals).from)
        BY <4>2 DEF Signals, Sig
      <4>4. QED
        BY <4>1, <4>3
    <3>2. QED
      BY <1>3, <2>3, <3>1, ReceiveShape DEF Told!Stop, Told!Establish
  <2>4. QED
    BY <2>1, <2>2, <2>3
<1>4. phase' = phase \/ (\E t \in Tunnels : Connect(t)) \/ Disconnect \/ Receive
  BY DEF Next, ConnectRefused, Step, Connected, Fails, Negotiated, CreateTun, Signal,
         LoopEnds, LoopFails, LoopStopped, LeaveLoop, DisconnectSignals, nm, vars
<1>5. QED
  BY <1>1, <1>2, <1>3, <1>4

\* However activations overlap, NM goes through the life of a session, except where
\* a signal of an earlier activation changes its view of the one it has.  In
\* particular no activation's own STOPPED reaches it before its own STOPPING while
\* it takes the tunnel for one that is on (plugin.rs 93-109, tunnel.rs 185-197).
THEOREM SignalsTellLife == Spec => ToldInOrder
<1>1. Init => Told!Init
  BY DEF Init, Told!Init
<1>2. Init => Orderly
  BY DEF Init, Orderly
<1>3. Spec => []Orderly
  BY IInvHolds, InductiveOrderly, <1>2, PTL DEF Spec
<1>4. QED
  BY IInvHolds, <1>1, <1>3, StepTold, PTL DEF Spec, ToldInOrder

-----------------------------------------------------------------------------
(***************************************************************************)
(* The tray.                                                                *)
(***************************************************************************)
\* A request to connect is made by a click.
Counted == wanted <= clicks

\* A request to disconnect, by a click on a connection shown.
Asked == asked \subseteq clicked

TrayInv == TrayTypeOK /\ Counted /\ Asked

-----------------------------------------------------------------------------
LEMMA ConstantTypes == 0 \in 0 .. MaxEvents /\ Down \in States
  BY TrayConstants DEF States

LEMMA InitTray == TrayInit => TrayInv
<1> SUFFICES ASSUME TrayInit
             PROVE  TrayInv
  OBVIOUS
<1>1. life \in [Paths -> Lives]
  BY DEF TrayInit, Lives
<1>2. told \in [Paths -> Seq(Lives)]
  BY DEF TrayInit
<1>3. TrayTypeOK
  BY <1>1, <1>2, ConstantTypes DEF TrayInit, TrayTypeOK, Lives
<1>4. Counted /\ Asked
  BY ConstantTypes DEF TrayInit, Counted, Asked
<1>5. QED
  BY <1>3, <1>4 DEF TrayInv

LEMMA StateTyped == \A p \in Paths : \A l : VpnState(p, l) \in States
  BY DEF VpnState, States

LEMMA KindOfStates ==
    ASSUME NEW s \in States
    PROVE  /\ s.kind = "Connected" => s.path \in Paths
           /\ s.path \in Paths \cup {NoPath}
  BY DEF States, Down, Dialing, Up

-----------------------------------------------------------------------------
(* NetworkManager.                                                          *)

LEMMA SignalTyped ==
    ASSUME TrayTypeOK, NEW p \in Paths, NEW l \in Lives, Tells(p, l)
    PROVE  told' \in [Paths -> Seq(Lives)]
<1>1. told \in [Paths -> Seq(Lives)] /\ Append(told[p], l) \in Seq(Lives)
  BY DEF TrayTypeOK
<1>2. QED
  BY <1>1 DEF Tells

LEMMA BecomesTyped ==
    ASSUME TrayTypeOK, NEW p \in Paths, NEW l \in Lives, Becomes(p, l)
    PROVE  life' \in [Paths -> Lives]
  BY DEF TrayTypeOK, Becomes

LEMMA StreamTyped == TrayTypeOK /\ (Stream \/ UNCHANGED changes) => changes' \in BOOLEAN
  BY DEF TrayTypeOK, Stream

\* A step of NM and of what it sends.
LEMMA ManagerStep ==
    ASSUME TrayInv, life' \in [Paths -> Lives], told' \in [Paths -> Seq(Lives)],
           changes' \in BOOLEAN, stirs' \in 0 .. MaxEvents, asked' \subseteq asked,
           wanted' \in 0 .. MaxEvents, wanted' <= clicks,
           UNCHANGED <<clicks, clicked, scan, watch, chan, tray>>
    PROVE  TrayInv'
<1>1. TrayTypeOK'
  BY DEF TrayInv, TrayTypeOK, scan, watch, chan, tray
<1>2. Counted' /\ Asked'
  BY DEF TrayInv, Counted, Asked
<1>3. QED
  BY <1>1, <1>2 DEF TrayInv

LEMMA ActivatesTyped ==
    ASSUME TrayTypeOK, Begins
    PROVE  life' \in [Paths -> Lives] /\ told' \in [Paths -> Seq(Lives)]
           /\ changes' \in BOOLEAN
<1>1. PICK p \in Paths : Becomes(p, "connect") /\ Tells(p, "connect") /\ Stream
  BY DEF Begins
<1>2. QED
  BY <1>1, SignalTyped, BecomesTyped, StreamTyped DEF Lives

LEMMA Unrequested ==
    ASSUME TrayInv, UNCHANGED <<asked, wanted>>
    PROVE  asked' \subseteq asked /\ wanted' \in 0 .. MaxEvents /\ wanted' <= clicks
  BY DEF TrayInv, TrayTypeOK, Counted

LEMMA ManagerHolds ==
    ASSUME TrayInv, Manager \/ \E p \in Paths : Unlists(p)
    PROVE  TrayInv'
<1>1. CASE Appears
  BY <1>1, ActivatesTyped, ManagerStep, Unrequested DEF Appears, manager, menu, TrayInv, TrayTypeOK
<1>2. CASE Stirs
  <2>1. stirs' \in 0 .. MaxEvents
    BY <1>2, TrayConstants DEF Stirs, TrayInv, TrayTypeOK
  <2>2. QED
    BY <1>2, <2>1, StreamTyped, ManagerStep, Unrequested DEF Stirs, menu, TrayInv, TrayTypeOK
<1>3. ASSUME NEW p \in Paths, Comes(p)
      PROVE  TrayInv'
  BY <1>3, SignalTyped, BecomesTyped, ManagerStep, Unrequested
  DEF Comes, menu, TrayInv, TrayTypeOK, Lives
<1>4. ASSUME NEW p \in Paths, Drops(p)
      PROVE  TrayInv'
  BY <1>4, SignalTyped, BecomesTyped, ManagerStep, Unrequested
  DEF Drops, Ends, menu, TrayInv, TrayTypeOK, Lives
<1>5. ASSUME NEW p \in Paths, Unlists(p)
      PROVE  TrayInv'
  BY <1>5, BecomesTyped, StreamTyped, ManagerStep, Unrequested
  DEF Unlists, menu, TrayInv, TrayTypeOK, Lives
<1>6. QED
  BY <1>1, <1>2, <1>3, <1>4, <1>5 DEF Manager

LEMMA ServeHolds ==
    ASSUME TrayInv, ServeConnect \/ \E p \in Paths : ServeDisconnect(p)
    PROVE  TrayInv'
<1>1. CASE ServeConnect
  <2>1. wanted' \in 0 .. MaxEvents /\ wanted' <= clicks
    BY <1>1, TrayConstants DEF ServeConnect, TrayInv, TrayTypeOK, Counted
  <2>2. /\ life' \in [Paths -> Lives] /\ told' \in [Paths -> Seq(Lives)]
        /\ changes' \in BOOLEAN
    BY <1>1, ActivatesTyped DEF ServeConnect, TrayInv, TrayTypeOK
  <2>3. QED
    BY <1>1, <2>1, <2>2, ManagerStep DEF ServeConnect, TrayInv, TrayTypeOK
<1>2. ASSUME NEW p \in Paths, ServeDisconnect(p)
      PROVE  TrayInv'
  <2>1. life' \in [Paths -> Lives] /\ told' \in [Paths -> Seq(Lives)]
    BY <1>2, SignalTyped, BecomesTyped DEF ServeDisconnect, Ends, TrayInv, TrayTypeOK, Lives
  <2>2. asked' \subseteq asked /\ wanted' \in 0 .. MaxEvents /\ wanted' <= clicks
    BY <1>2 DEF ServeDisconnect, TrayInv, TrayTypeOK, Counted
  <2>3. QED
    BY <1>2, <2>1, <2>2, ManagerStep DEF ServeDisconnect, TrayInv, TrayTypeOK
<1>3. QED
  BY <1>1, <1>2

-----------------------------------------------------------------------------
(* The monitor.                                                             *)

\* A step that leaves the watchers alone.
LEMMA MonitorStep ==
    ASSUME TrayInv, Keep, UNCHANGED <<watch, tray>>, changes' \in BOOLEAN,
           monitor' \in {"start", "first", "wait", "debounce", "scan"},
           todo' \subseteq Paths, found' \in BOOLEAN,
           state' \in States, fresh' \in BOOLEAN
    PROVE  TrayInv'
<1>1. TrayTypeOK'
  BY DEF TrayInv, TrayTypeOK, Keep, manager, menu, watch, tray
<1>2. Counted' /\ Asked'
  BY DEF TrayInv, Counted, Asked, Keep, menu
<1>3. QED
  BY <1>1, <1>2 DEF TrayInv

LEMMA ChanTyped == TrayTypeOK /\ UNCHANGED chan => state' \in States /\ fresh' \in BOOLEAN
  BY DEF TrayTypeOK, chan

LEMMA BeginTyped ==
    ASSUME NEW first \in BOOLEAN, Begin(first)
    PROVE  /\ monitor' \in {"first", "scan"} /\ todo' \subseteq Paths /\ found' \in BOOLEAN
  BY DEF Begin, Listed, Live

LEMMA MonitorHolds == ASSUME TrayInv, Monitor PROVE TrayInv'
<1>1. CASE Scans
  BY <1>1, BeginTyped, ChanTyped, MonitorStep DEF Scans, TrayInv, TrayTypeOK
<1>2. CASE Scanned
  <2>1. state' \in States /\ fresh' \in BOOLEAN
    BY <1>2, ChanTyped, ConstantTypes DEF Scanned, Send, TrayInv
  <2>2. changes' \in BOOLEAN
    BY <1>2 DEF Scanned
  <2>3. QED
    BY <1>2, <2>1, <2>2, MonitorStep DEF Scanned, TrayInv, TrayTypeOK
<1>3. CASE Wakes
  BY <1>3, ChanTyped, MonitorStep DEF Wakes, TrayInv, TrayTypeOK
<1>4. CASE Settles
  <2>1. /\ monitor' \in {"wait", "first", "scan"}
        /\ todo' \subseteq Paths /\ found' \in BOOLEAN
    BY <1>4, BeginTyped DEF Settles, TrayInv, TrayTypeOK
  <2>2. QED
    BY <1>4, <2>1, ChanTyped, MonitorStep DEF Settles, TrayInv, TrayTypeOK
<1>5. ASSUME NEW p \in Paths, Checks(p)
      PROVE  TrayInv'
  <2> DEFINE fits == p \notin watched /\ p \in Listed
  <2>1. /\ monitor' = monitor /\ todo' = todo \ {p} /\ found' \in BOOLEAN
        /\ watched' = watched \cup (IF fits THEN {p} ELSE {})
        /\ watcher' = IF fits THEN [watcher EXCEPT ![p] = "read"] ELSE watcher
        /\ UNCHANGED <<changes, leaving, known, missed, chan, tray>> /\ Keep
    BY <1>5 DEF Checks
  <2>2. watched' \subseteq Paths
        /\ watcher' \in [Paths -> {"none", "read", "first", "subscribe", "wait", "report", "end"}]
    BY <2>1 DEF TrayInv, TrayTypeOK
  <2>3. TrayTypeOK'
    BY <2>1, <2>2 DEF TrayInv, TrayTypeOK, Keep, manager, menu, tray, chan
  <2>4. Counted' /\ Asked'
    BY <2>1 DEF TrayInv, Counted, Asked, Keep, menu
  <2>5. QED
    BY <2>3, <2>4 DEF TrayInv
<1>6. QED
  BY <1>1, <1>2, <1>3, <1>4, <1>5 DEF Monitor

-----------------------------------------------------------------------------
(* The watchers.                                                            *)

Places == {"none", "read", "first", "subscribe", "wait", "report", "end"}

\* A watcher goes on, or is gone.
LEMMA WatchStep ==
    ASSUME TrayInv, watcher' \in [Paths -> Places], watched' \subseteq watched, leaving' \in Nat,
           known' \in [Paths -> Lives], told' \in [Paths -> Seq(Lives)],
           missed' \subseteq Paths, state' \in States, fresh' \in BOOLEAN, Rest
    PROVE  TrayInv'
<1>1. TrayTypeOK'
  BY DEF TrayInv, TrayTypeOK, Rest, manager, scan, tray, menu, Places
<1>2. Counted' /\ Asked'
  BY DEF TrayInv, Counted, Asked, Rest, menu
<1>3. QED
  BY <1>1, <1>2 DEF TrayInv

LEMMA MovesTypes ==
    ASSUME TrayInv, NEW p \in Paths, NEW to \in Places, Moves(p, to)
    PROVE  watcher' \in [Paths -> Places]
<1>1. watcher \in [Paths -> Places]
  BY DEF TrayInv, TrayTypeOK, Places
<1>2. QED
  BY <1>1 DEF Moves

LEMMA WatchHolds == ASSUME TrayInv, NEW p \in Paths, Watch(p) PROVE TrayInv'
<1>1. /\ known \in [Paths -> Lives] /\ told \in [Paths -> Seq(Lives)] /\ life \in [Paths -> Lives]
      /\ missed \subseteq Paths /\ leaving \in Nat /\ TrayTypeOK
  BY DEF TrayInv, TrayTypeOK
<1>2. [known EXCEPT ![p] = "none"] \in [Paths -> Lives]
  BY <1>1 DEF Lives
<1>3. CASE Reads(p)
  <2>1. known' \in [Paths -> Lives]
    BY <1>1, <1>3 DEF Reads, Lives
  <2>2. QED
    BY <1>1, <1>3, <2>1, ChanTyped, MovesTypes, WatchStep DEF Reads, Places
<1>4. CASE First(p)
  BY <1>1, <1>4, StateTyped, MovesTypes, WatchStep DEF First, Send, Places
<1>5. CASE Subscribes(p)
  <2>1. missed' \subseteq Paths
    BY <1>1, <1>5 DEF Subscribes
  <2>2. QED
    BY <1>1, <1>2, <1>5, <2>1, ChanTyped, MovesTypes, WatchStep DEF Subscribes, Places
<1>6. CASE Hears(p)
  <2>1. told[p] \in Seq(Lives) /\ told[p] # <<>>
    BY <1>1, <1>6 DEF Hears
  <2>2. Head(told[p]) \in Lives /\ Tail(told[p]) \in Seq(Lives)
    BY <2>1
  <2>3. known' \in [Paths -> Lives] /\ told' \in [Paths -> Seq(Lives)]
    BY <1>1, <1>6, <2>2 DEF Hears
  <2>4. QED
    BY <1>1, <1>6, <2>3, ChanTyped, MovesTypes, WatchStep DEF Hears, Places
<1>7. CASE Reports(p)
  <2> DEFINE to == IF known[p] = "ended" THEN "end" ELSE "wait"
  <2>1. to \in Places
    BY DEF Places
  <2>2. Moves(p, to) /\ state' \in States /\ fresh' \in BOOLEAN
    BY <1>7, StateTyped DEF Reports, Send
  <2>3. QED
    BY <1>1, <1>2, <1>7, <2>1, <2>2, MovesTypes, WatchStep DEF Reports
<1>8. CASE Leaves(p)
  BY <1>1, <1>8, ChanTyped, MovesTypes, WatchStep DEF Leaves, Places
<1>9. QED
  BY <1>3, <1>4, <1>5, <1>6, <1>7, <1>8 DEF Watch

LEMMA DepartsHolds == ASSUME TrayInv, Departs PROVE TrayInv'
<1>1. leaving' \in Nat /\ state' \in States /\ fresh' \in BOOLEAN
  BY ConstantTypes DEF Departs, Send, TrayInv, TrayTypeOK
<1>2. /\ watcher \in [Paths -> Places] /\ known \in [Paths -> Lives]
      /\ told \in [Paths -> Seq(Lives)] /\ missed \subseteq Paths
  BY DEF TrayInv, TrayTypeOK, Places
<1>3. QED
  BY <1>1, <1>2, WatchStep DEF Departs

-----------------------------------------------------------------------------
(* The main loop and the menu.                                              *)

LEMMA LoopHolds == ASSUME TrayInv, Loop PROVE TrayInv'
<1>1. UNCHANGED menu
  BY DEF Loop, Takes, Shows
<1>2. Counted' /\ Asked'
  BY <1>1 DEF TrayInv, Counted, Asked, menu
<1>3. CASE Takes
  <2>1. state \in States /\ Since(state) \in Paths \cup {NoPath}
    BY KindOfStates DEF TrayInv, TrayTypeOK, Since
  <2>2. TrayTypeOK'
    BY <1>3, <2>1 DEF Takes, TrayInv, TrayTypeOK, Tasks, manager, menu, scan, watch
  <2>3. QED
    BY <1>2, <2>2 DEF TrayInv
<1>4. CASE Shows
  <2>1. main \in States
    BY <1>4 DEF Shows, TrayInv, TrayTypeOK
  <2>2. TrayTypeOK'
    BY <1>4, <2>1 DEF Shows, TrayInv, TrayTypeOK, Tasks, manager, menu, scan, watch, chan
  <2>3. QED
    BY <1>2, <2>2 DEF TrayInv
<1>5. QED
  BY <1>3, <1>4 DEF Loop

LEMMA UserHolds == ASSUME TrayInv, User PROVE TrayInv'
<1>1. Asked'
  BY DEF TrayInv, Asked, User, ClickConnect, ClickDisconnect
<1>2. /\ clicks' \in 0 .. MaxEvents /\ wanted' \in 0 .. MaxEvents
      /\ wanted' <= clicks' /\ asked' \subseteq Paths /\ clicked' \subseteq Paths
  <2>1. CASE ClickConnect
    BY <2>1, TrayConstants DEF ClickConnect, TrayInv, TrayTypeOK, Counted
  <2>2. CASE ClickDisconnect
    <3>1. shown.path \in Paths
      BY <2>2, KindOfStates DEF ClickDisconnect, TrayInv, TrayTypeOK
    <3>2. asked' \subseteq Paths /\ clicked' \subseteq Paths /\ wanted' = wanted
      BY <2>2, <3>1 DEF ClickDisconnect, TrayInv, TrayTypeOK
    <3>3. /\ clicks \in Nat /\ clicks < MaxEvents /\ clicks' = clicks + 1
          /\ wanted \in 0 .. MaxEvents /\ wanted <= clicks
      BY <2>2, TrayConstants DEF ClickDisconnect, TrayInv, TrayTypeOK, Counted
    <3>4. QED
      BY <3>2, <3>3, TrayConstants
  <2>3. QED
    BY <2>1, <2>2 DEF User
<1>3. TrayTypeOK'
  BY <1>2 DEF User, ClickConnect, ClickDisconnect, TrayInv, TrayTypeOK, Tasks, manager, scan, watch,
              chan, tray
<1>4. QED
  BY <1>1, <1>2, <1>3 DEF TrayInv, Counted

LEMMA InductiveTray == TrayInv /\ [TrayNext]_trayVars => TrayInv'
<1>1. TrayInv /\ UNCHANGED trayVars => TrayInv'
  BY DEF trayVars, manager, scan, watch, chan, tray, menu, TrayInv, TrayTypeOK, Counted, Asked
<1>2. QED
  BY <1>1, ManagerHolds, ServeHolds, MonitorHolds, WatchHolds, DepartsHolds, LoopHolds, UserHolds
  DEF TrayNext, Runs

-----------------------------------------------------------------------------
(* The theorems.                                                            *)

THEOREM TrayInvHolds == TraySpec => []TrayInv
<1>1. TrayInv /\ [TrayNext]_trayVars => TrayInv'
  BY InductiveTray
<1>2. QED
  BY InitTray, <1>1, PTL DEF TraySpec

\* Every variable keeps to its type.
THEOREM TrayTypesKept == TraySpec => []TrayTypeOK
<1>1. TrayInv => TrayTypeOK
  BY DEF TrayInv
<1>2. QED
  BY TrayInvHolds, <1>1, PTL

\* A request of the menu ends a connection that was shown as connected at a click on
\* Disconnect, and no other (main.rs:108-114, tray_impl.rs:248-260).
THEOREM RequestsEndWhatWasShown == TraySpec => EndsWhatWasShown
<1> DEFINE A == asked' # asked => Live \ Live' \subseteq clicked
<1>1. TrayInv /\ [TrayNext]_trayVars => [A]_trayVars
  <2> SUFFICES ASSUME TrayInv, [TrayNext]_trayVars, asked' # asked
               PROVE  Live \ Live' \subseteq clicked
    OBVIOUS
  <2>1. ClickDisconnect \/ \E p \in Paths : ServeDisconnect(p)
    BY DEF TrayNext, Runs, Manager, Appears, Stirs, Comes, Drops, Unlists, Monitor, Scans, Checks,
           Scanned, Wakes, Settles, Keep, Watch, Reads, First, Subscribes, Hears, Reports,
           Leaves, Departs, Rest, Loop, Takes, Shows, ServeConnect, User, ClickConnect,
           menu, trayVars
  <2>2. CASE ClickDisconnect
    BY <2>2 DEF ClickDisconnect, manager, Live
  <2>3. ASSUME NEW p \in Paths, ServeDisconnect(p)
        PROVE  Live \ Live' \subseteq clicked
    <3>1. p \in clicked
      BY <2>3 DEF ServeDisconnect, TrayInv, Asked
    <3>2. CASE Ends(p)
      <4>1. life' = [life EXCEPT ![p] = "ended"] /\ life \in [Paths -> Lives]
        BY <3>2 DEF Ends, Becomes, TrayInv, TrayTypeOK
      <4>2. QED
        BY <3>1, <4>1 DEF Live
    <3>3. CASE life' = life
      BY <3>3 DEF Live
    <3>4. QED
      BY <2>3, <3>2, <3>3 DEF ServeDisconnect
  <2>4. QED
    BY <2>1, <2>2, <2>3
<1>2. QED
  BY TrayInvHolds, <1>1, PTL DEF TraySpec, EndsWhatWasShown
=============================================================================
