------------------------------- MODULE DataLoop -------------------------------
(***************************************************************************)
(* data_loop() of standalone/src/tunnel/engine.rs and its twin in           *)
(* networkmanager/src/tunnel.rs: one task that selects among the TUN device,*)
(* the TLS stream, the keepalive timer and its owner's commands, with the   *)
(* keepalive counters (keepalive.rs), the ping (PingKeeper) and the two     *)
(* automata the negotiation left open.                                      *)
(*                                                                          *)
(* A branch of the select runs to its end before the next select, so while  *)
(* the packets of one read are handled nothing but time moves.  Time is     *)
(* counted in ticks; a clock that has reached the largest value the code    *)
(* compares it with stays there.                                            *)
(***************************************************************************)
EXTENDS PppFsm

CONSTANTS
    LcpDesired, LcpAcceptable, LcpRequest,      \* our tables, and the request
    IpcpDesired, IpcpAcceptable, IpcpRequest,   \* of the server we accepted
    LcpFrames, IpcpFrames,      \* control frames the server may send
    Interval,                   \* KEEPALIVE_INTERVAL_SECS, in ticks
    Soon,                       \* the 100 ms of next_check_duration, in ticks
    MaxMissed,                  \* KEEPALIVE_MAX_MISSED
    PingInterval,               \* 30 s, in ticks
    MaxBatch,                   \* packets completed by one read, at most
    MaxCommands                 \* commands waiting in the channel, at most

ControlFrame == [code : Codes, id : Ids, opts : OptionArea]

ASSUME LinkTables ==
    /\ LcpDesired \in Seq(Option) /\ LcpAcceptable \in Seq(TableEntry)
    /\ IpcpDesired \in Seq(Option) /\ IpcpAcceptable \in Seq(TableEntry)
    /\ LcpRequest \in Seq(Option) /\ IpcpRequest \in Seq(Option)
ASSUME ServerFrames == LcpFrames \subseteq ControlFrame /\ IpcpFrames \subseteq ControlFrame
ASSUME LoopBounds ==
    /\ Interval \in Nat \ {0} /\ Soon \in Nat \ {0} /\ Soon <= Interval
    /\ MaxMissed \in Nat /\ PingInterval \in Nat
    /\ MaxBatch \in Nat /\ MaxCommands \in Nat \ {0}

VARIABLES
    plugin,             \* the loop of the NetworkManager plugin; FALSE: of the window
    lcp, ipcp,          \* the automata
    pc,                 \* enter, select, process: packets buffered, end
    result,             \* how the loop ended
    pending,            \* complete packets in socket_buf
    commands,           \* the command channel, or the permit of Notify
    no_reply_count,
    idle,               \* ticks since last_tun_activity
    delay,              \* ticks until the sleep of this select is over
    ping_on, ping_age,  \* PingKeeper: enabled, ticks since last_sent
    pinged,             \* the last step sent a ping
    silence             \* observer: ticks since the server's last REPLY

vars == <<plugin, lcp, ipcp, pc, result, pending, commands, no_reply_count, idle,
          delay, ping_on, ping_age, pinged, silence>>
automata == <<lcp, ipcp>>
clocks   == <<no_reply_count, idle, ping_on, ping_age, silence>>

Commands == {"Notify", "Disconnect", "PingOn", "PingOff"}

\* What the owner of this loop can send: the permit of a Notify, or the three
\* commands of the window.
Sendable == IF plugin THEN {"Notify"} ELSE Commands \ {"Notify"}

Endings == {"user", "closed", "terminated", "unexpected", "dead", "io"}

-----------------------------------------------------------------------------
(* Helpers.                                                                 *)

\* An automaton as negotiate() returns it: our request acknowledged and the
\* server's accepted.
Linked(desired, acceptable, request) ==
    LET asked == handle_open(handle_up(new(desired, acceptable, <<>>)).fsm).fsm
        acked == handle_config_ack(asked, Frame("ConfAck", asked.current_request_id,
                                                desired)).fsm
    IN  handle_config_request(acked, Frame("ConfReq", 0, request)).fsm

ASSUME LinkOpens ==
    /\ is_opened(Linked(LcpDesired, LcpAcceptable, LcpRequest))
    /\ is_opened(Linked(IpcpDesired, IpcpAcceptable, IpcpRequest))

AtMost(bound, n) == IF n > bound THEN bound ELSE n

next_check_duration(elapsed) == IF elapsed >= Interval THEN Soon ELSE Interval - elapsed

\* The loop ends.
End(how) == pc' = "end" /\ result' = how /\ UNCHANGED delay

\* The loop comes round: the next select gets a new sleep.
Again == pc' = "select" /\ UNCHANGED result /\ delay' = next_check_duration(idle')

\* The next packet of the buffer, or the next select.
Packets(left) ==
    /\ pending' = left
    /\ IF left = 0 THEN Again ELSE pc' = "process" /\ UNCHANGED <<result, delay>>

NoPing   == UNCHANGED <<ping_on, ping_age>> /\ pinged' = FALSE
SendPing == ping_age' = 0 /\ pinged' = TRUE

-----------------------------------------------------------------------------
\* negotiate() may leave complete packets in the buffer.
Init == /\ plugin \in BOOLEAN
        /\ lcp  = Linked(LcpDesired, LcpAcceptable, LcpRequest)
        /\ ipcp = Linked(IpcpDesired, IpcpAcceptable, IpcpRequest)
        /\ pc = "enter" /\ result = "none"
        /\ pending \in 0 .. MaxBatch /\ commands = <<>>
        /\ no_reply_count = 0 /\ idle = 0 /\ delay = Interval
        /\ ping_on = FALSE /\ ping_age = 0 /\ pinged = FALSE /\ silence = 0

\* The plugin enables the ping here if the profile says so, and drops the
\* frame that set_enabled returns.
Enter ==
    /\ pc = "enter"
    /\ ping_on' \in (IF plugin THEN BOOLEAN ELSE {FALSE})
    /\ no_reply_count' = 0 /\ idle' = 0 /\ silence' = 0 /\ ping_age' = 0
    /\ Again /\ pinged' = FALSE
    /\ UNCHANGED <<plugin, automata, pending, commands>>

\* A packet of the user, or an empty read.
TunRead ==
    /\ pc = "select"
    /\ idle' \in {0, idle} /\ Again /\ NoPing
    /\ UNCHANGED <<plugin, automata, pending, commands, no_reply_count, silence>>

\* A read from the stream completes some packets or none; what was buffered
\* before is handled with them.
SocketRead ==
    /\ pc = "select"
    /\ \E n \in 0 .. MaxBatch :
        /\ pending + n <= MaxBatch
        /\ UNCHANGED idle /\ Packets(pending + n)
    /\ NoPing
    /\ UNCHANGED <<plugin, automata, commands, no_reply_count, silence>>

\* The server closes the stream, or a read or a write fails.
ConnectionFails ==
    /\ \/ pc = "select" /\ End("closed")
       \/ pc \in {"select", "process"} /\ End("io")
    /\ pinged' = FALSE
    /\ UNCHANGED <<plugin, automata, clocks, pending, commands>>

\* Mutant: the time of the last activity is not reset by a request.
TimerFires_EveryTick ==
    /\ pc = "select" /\ delay = 0
    /\ LET due    == idle >= Interval
           missed == IF due THEN no_reply_count + 1 ELSE no_reply_count
       IN  /\ no_reply_count' = missed
           /\ UNCHANGED <<idle, ping_on>>
           /\ IF missed > MaxMissed THEN End("dead") /\ pinged' = FALSE /\ UNCHANGED ping_age
              ELSE /\ Again
                   /\ IF ping_on /\ ping_age >= PingInterval
                      THEN SendPing ELSE pinged' = FALSE /\ UNCHANGED ping_age
    /\ UNCHANGED <<plugin, automata, pending, commands, silence>>

\* Mutant: too many missed replies start the count anew.
TimerFires_Forgives ==
    /\ pc = "select" /\ delay = 0
    /\ LET due    == idle >= Interval
           missed == IF due THEN no_reply_count + 1 ELSE no_reply_count
       IN  /\ no_reply_count' = IF missed > MaxMissed THEN 0 ELSE missed
           /\ idle' = IF due THEN 0 ELSE idle
           /\ UNCHANGED ping_on
           /\ Again
           /\ IF ping_on /\ ping_age >= PingInterval
              THEN SendPing ELSE pinged' = FALSE /\ UNCHANGED ping_age
    /\ UNCHANGED <<plugin, automata, pending, commands, silence>>

\* The sleep is over: a request if the TUN device was idle long enough, the
\* verdict on the link, then the ping.
TimerFires ==
    /\ pc = "select" /\ delay = 0
    /\ LET due    == idle >= Interval
           missed == IF due THEN no_reply_count + 1 ELSE no_reply_count
       IN  /\ no_reply_count' = missed
           /\ idle' = IF due THEN 0 ELSE idle
           /\ UNCHANGED ping_on
           /\ IF missed > MaxMissed THEN End("dead") /\ pinged' = FALSE /\ UNCHANGED ping_age
              ELSE /\ Again
                   /\ IF ping_on /\ ping_age >= PingInterval
                      THEN SendPing ELSE pinged' = FALSE /\ UNCHANGED ping_age
    /\ UNCHANGED <<plugin, automata, pending, commands, silence>>

-----------------------------------------------------------------------------
(* The packets.                                                             *)

TakePacket == pc = "process" /\ NoPing /\ UNCHANGED <<plugin, commands, idle>>

ReplyReceived ==
    /\ TakePacket
    /\ no_reply_count' = 0 /\ silence' = 0
    /\ Packets(pending - 1)
    /\ UNCHANGED automata

\* Mutant: whatever the server sends is taken for a sign of life.
OtherPacket_Counts ==
    /\ TakePacket /\ no_reply_count' = 0 /\ Packets(pending - 1)
    /\ UNCHANGED <<automata, silence>>

\* A server's keepalive request, an IP packet for the TUN device, a CCP request
\* that is rejected, an unknown protocol.
OtherPacket ==
    /\ TakePacket /\ Packets(pending - 1)
    /\ UNCHANGED <<automata, no_reply_count, silence>>

\* SSTP CLOSE, an unexpected SSTP command, a Terminate-Request (acknowledged
\* here, not by the automaton), a packet that does not parse.
LastPacket ==
    /\ TakePacket
    /\ \E how \in {"closed", "unexpected", "terminated", "io"} : End(how)
    /\ UNCHANGED <<automata, pending, no_reply_count, silence>>

\* The automaton's frames are written; a Shutdown among its actions is not
\* looked at.
ReceiveLcp(frame) ==
    /\ TakePacket /\ Packets(pending - 1)
    /\ lcp' = handle_frame(lcp, frame).fsm
    /\ UNCHANGED <<ipcp, no_reply_count, silence>>

ReceiveIpcp(frame) ==
    /\ TakePacket /\ Packets(pending - 1)
    /\ ipcp' = handle_frame(ipcp, frame).fsm
    /\ UNCHANGED <<lcp, no_reply_count, silence>>

Process == \/ ReplyReceived
           \/ OtherPacket
           \/ LastPacket
           \/ \E frame \in LcpFrames  : frame.code # "TermReq" /\ ReceiveLcp(frame)
           \/ \E frame \in IpcpFrames : ReceiveIpcp(frame)

-----------------------------------------------------------------------------
(* The owner.                                                               *)

\* Bound: MaxCommands.  A permit of Notify is there or not.
Request(command) ==
    /\ pc # "end"
    /\ Len(commands) < (IF plugin THEN 1 ELSE MaxCommands)
    /\ commands' = Append(commands, command)
    /\ pinged' = FALSE
    /\ UNCHANGED <<plugin, automata, clocks, pc, result, pending, delay>>

\* Mutant: the channel is polled when the timer fires.
Takes_WithTimer(cs) == /\ pc = "select" /\ commands # <<>> /\ Head(commands) \in cs
                       /\ delay = 0
                       /\ commands' = Tail(commands)
                       /\ UNCHANGED <<plugin, ipcp, pending, no_reply_count, idle, silence>>

\* The next command of the channel, if it is one of cs.
Takes(cs) == /\ pc = "select" /\ commands # <<>> /\ Head(commands) \in cs
             /\ commands' = Tail(commands)
             /\ UNCHANGED <<plugin, ipcp, pending, no_reply_count, idle, silence>>

\* Terminate-Request if LCP is open, then SSTP CLOSE.
CloseLink == lcp' = handle_close(lcp).fsm /\ End("user") /\ NoPing

\* A command channel whose sender is gone counts as Disconnect.
Disconnect == Takes({"Disconnect"}) /\ CloseLink
Notified   == Takes({"Notify"}) /\ CloseLink

ToggleKeepalive ==
    /\ Takes({"PingOn", "PingOff"}) /\ Again
    /\ ping_on' = (Head(commands) = "PingOn")
    /\ IF ping_on' THEN SendPing ELSE pinged' = FALSE /\ UNCHANGED ping_age
    /\ UNCHANGED lcp

Obey == Disconnect \/ Notified \/ ToggleKeepalive

\* While the task selects, the timer goes off before more time passes.
Tick == /\ \/ pc = "process" /\ UNCHANGED delay
           \/ pc = "select" /\ delay > 0 /\ delay' = delay - 1
        /\ idle'     = AtMost(Interval, idle + 1)
        /\ silence'  = AtMost(MaxMissed * Interval, silence + 1)
        /\ ping_age' = AtMost(PingInterval, ping_age + 1)
        /\ pinged'   = FALSE
        /\ UNCHANGED <<plugin, automata, pc, result, pending, commands, no_reply_count,
                       ping_on>>

Next == \/ Enter \/ TunRead \/ SocketRead \/ ConnectionFails \/ TimerFires
        \/ Process \/ Obey \/ Tick
        \/ \E command \in Sendable : Request(command)

Spec == Init /\ [][Next]_vars

\* The task is polled, writes complete, time passes, and select chooses among
\* its ready branches at random, so none that is ready again and again is
\* passed over for ever.  Nothing is assumed of the server or of the user.
Fairness == /\ WF_vars(Enter) /\ WF_vars(Process) /\ SF_vars(Tick)
            /\ SF_vars(TimerFires) /\ SF_vars(Obey)

FairSpec == Spec /\ Fairness

-----------------------------------------------------------------------------
TypeOK ==
    /\ plugin \in BOOLEAN
    /\ lcp \in Fsm /\ ipcp \in Fsm
    /\ pc \in {"enter", "select", "process", "end"}
    /\ result \in {"none"} \cup Endings
    /\ pending \in 0 .. MaxBatch /\ commands \in Seq(Commands)
    /\ no_reply_count \in 0 .. MaxMissed + 1
    /\ idle \in 0 .. Interval /\ delay \in 0 .. Interval
    /\ ping_on \in BOOLEAN /\ ping_age \in 0 .. PingInterval /\ pinged \in BOOLEAN
    /\ silence \in 0 .. MaxMissed * Interval

\* A server that answers in time is never declared dead: when the loop ends
\* for missed replies, MaxMissed whole intervals have passed since the last
\* REPLY, however requests, replies and user traffic interleave
\* (should_send_request, received_reply, is_dead).
AnswersKeepAlive == result = "dead" => silence = MaxMissed * Interval

\* "Returns a frame to send immediately when enabling" (engine_common.rs:215),
\* whichever program enables it.
PingSentAtOnce == [][ping_on' /\ ~ ping_on => pinged']_vars

\* A disconnect request is obeyed, whatever traffic competes with it.
DisconnectObeyed ==
    \A n \in 1 .. MaxCommands :
        (n <= Len(commands) /\ commands[n] \in {"Disconnect", "Notify"}) ~> pc = "end"

\* When the server, the TUN device and the owner fall silent for good, the
\* loop ends: the sleep that is restarted at every turn does run out.
Quiet == [][~ (SocketRead \/ TunRead \/ \E c \in Sendable : Request(c))]_vars
SilenceNoticed == <>Quiet => <>(pc = "end")

\* A server that sends packets but answers no request any more ends the loop as
\* well, while the user is idle and the timer goes off again and again: only a
\* REPLY counts as an answer, and neither its packets, nor pings, nor commands
\* start the count anew (received_reply, is_dead).
Mute == [][~ ReplyReceived /\ ~ (TunRead /\ idle' = 0)]_vars
MuteNoticed == <>Mute /\ []<><<TimerFires>>_vars => <>(pc = "end")

\* "10s idle -> send REQUEST": once the TUN device has been idle for the
\* interval, a request is sent, unless the user becomes active or the loop
\* ends (keepalive.rs:1; both reset idle).
RequestWhenIdle == (pc = "select" /\ idle = Interval) ~> (idle = 0 \/ pc = "end")

\* "Caller handles this via check_shutdown": an automaton that gives up ends
\* the loop (engine_common.rs:56).
ShutdownHandled ==
    [][\/ lcp.state # "Stopped" /\ lcp'.state = "Stopped"
       \/ ipcp.state # "Stopped" /\ ipcp'.state = "Stopped"
       => pc' = "end"]_vars

-----------------------------------------------------------------------------
(* The inductive invariant behind AnswersKeepAlive.                         *)

\* A packet is handled only if there is one; a loop that runs has no result,
\* and has not missed too many replies.
LoopShape == /\ pc = "process" => pending > 0
             /\ pc # "end" => result = "none" /\ no_reply_count <= MaxMissed
             /\ result = "dead" => no_reply_count = MaxMissed + 1

\* Each request but the first was unanswered for a whole interval, and the
\* present idle time comes on top of that.
MissesTakeTime ==
    /\ no_reply_count > 0 => (no_reply_count - 1) * Interval <= silence
    /\ no_reply_count \in 1 .. MaxMissed =>
            (no_reply_count - 1) * Interval + idle <= silence

IInv == TypeOK /\ LoopShape /\ MissesTakeTime
=============================================================================
