---------------------------- MODULE DataLoop_proofs ----------------------------
(***************************************************************************)
(* Theorems of DataLoop, for every pair of option tables, every server,     *)
(* every owner, and every interval, limit of missed replies and ping period.*)
(***************************************************************************)
EXTENDS DataLoop, PppFsm_proofs

-----------------------------------------------------------------------------
(***************************************************************************)
(* Helpers.                                                                 *)
(***************************************************************************)
LEMMA LinkedTyped ==
    ASSUME NEW desired \in Seq(Option), NEW acceptable \in Seq(TableEntry),
           NEW request \in Seq(Option)
    PROVE  Linked(desired, acceptable, request) \in Fsm
<1> DEFINE fresh == new(desired, acceptable, <<>>)
           asked == handle_open(handle_up(fresh).fsm).fsm
           ack   == Frame("ConfAck", asked.current_request_id, desired)
           acked == handle_config_ack(asked, ack).fsm
           req   == Frame("ConfReq", 0, request)
<1>1. fresh \in Fsm
  <2>1. desired \in Seq(Option \cup {NoOption})
    OBVIOUS
  <2>2. <<>> \in Seq(Option) /\ 0 \in Ids
    BY LimitsAssumption DEF Ids
  <2>3. QED
    BY <2>1, <2>2 DEF new, Fsm, FsmStates
<1> HIDE DEF fresh
<1>2. handle_up(fresh).fsm \in Fsm
  BY <1>1, OwnerTyped
<1>3. asked \in Fsm
  BY <1>2, OwnerTyped
<1> HIDE DEF asked
<1>4. ack.opts \in OptionArea /\ ack.code = "ConfAck"
  BY DEF Frame, OptionArea
<1>5. acked \in Fsm
  BY <1>3, <1>4, ConfigAckTyped
<1> HIDE DEF acked
<1>6. req.opts \in OptionArea /\ req.code = "ConfReq"
  BY DEF Frame, OptionArea
<1>7. handle_config_request(acked, req).fsm \in Fsm
  BY <1>5, <1>6, ConfigRequestTyped
<1>8. QED
  BY <1>7 DEF Linked, acked, asked, fresh

LEMMA DelayTyped ==
    ASSUME NEW elapsed \in 0 .. Interval
    PROVE  next_check_duration(elapsed) \in 0 .. Interval
  BY LoopBounds DEF next_check_duration

LEMMA AtMostTyped ==
    ASSUME NEW bound \in Nat, NEW n \in Nat
    PROVE  /\ AtMost(bound, n) \in 0 .. bound
           /\ AtMost(bound, n) <= n
  BY DEF AtMost

\* Both clocks advance by a tick, up to their bounds.
LEMMA ClocksAdvance ==
    ASSUME NEW base \in Nat, NEW total \in Nat, NEW bound \in Nat, base + bound <= total,
           NEW i \in Nat, NEW j \in Nat, j <= i + 1, j <= bound,
           NEW s \in Nat, base + i <= s
    PROVE  base <= AtMost(total, s + 1) /\ base + j <= AtMost(total, s + 1)
  BY DEF AtMost

LEMMA TotalTyped == MaxMissed * Interval \in Nat /\ 0 \in 0 .. MaxMissed * Interval
<1>1. MaxMissed * Interval \in Nat
  BY LoopBounds
<1>2. QED
  BY <1>1

\* The values a counter starts from.
LEMMA ZeroTyped ==
    /\ 0 \in 0 .. MaxMissed + 1 /\ 0 \in 0 .. Interval /\ Interval \in 0 .. Interval
    /\ 0 \in 0 .. PingInterval
  BY LoopBounds

\* The arithmetic of whole intervals.
LEMMA Intervals ==
    ASSUME NEW n \in Nat, n \in 1 .. MaxMissed
    PROVE  /\ (n - 1) * Interval \in Nat /\ n * Interval \in Nat
           /\ (n - 1) * Interval + Interval = n * Interval
           /\ n * Interval <= MaxMissed * Interval
<1>1. MaxMissed \in Nat /\ Interval \in Nat
  BY LoopBounds
<1>2. (n - 1) * Interval + Interval = n * Interval
  BY <1>1
<1>3. (n - 1) * Interval \in Nat /\ n * Interval \in Nat
  BY <1>1
<1>4. MaxMissed * Interval = n * Interval + (MaxMissed - n) * Interval
  BY <1>1
<1>5. (MaxMissed - n) * Interval \in Nat
  BY <1>1
<1>6. MaxMissed * Interval \in Nat
  BY <1>1
<1>7. QED
  BY <1>2, <1>3, <1>4, <1>5, <1>6

\* How a step may leave the place in the loop.
LEMMA AgainShape ==
    ASSUME idle' \in 0 .. Interval, Again
    PROVE  pc' = "select" /\ result' = result /\ delay' \in 0 .. Interval
  BY DelayTyped DEF Again

LEMMA PacketsShape ==
    ASSUME idle' \in 0 .. Interval, delay \in 0 .. Interval,
           NEW left \in 0 .. MaxBatch, Packets(left)
    PROVE  /\ pending' = left /\ result' = result /\ delay' \in 0 .. Interval
           /\ \/ pc' = "select"
              \/ pc' = "process" /\ pending' > 0
<1>1. CASE left = 0
  BY <1>1, AgainShape DEF Packets
<1>2. CASE left # 0
  BY <1>2, LoopBounds DEF Packets
<1>3. QED
  BY <1>1, <1>2

LEMMA CommandsTyped ==
    ASSUME commands \in Seq(Commands)
    PROVE  /\ \A c \in Commands : Append(commands, c) \in Seq(Commands)
           /\ commands # <<>> => Tail(commands) \in Seq(Commands)
                                 /\ Head(commands) \in Commands
  OBVIOUS

-----------------------------------------------------------------------------
(***************************************************************************)
(* The invariant.                                                           *)
(***************************************************************************)
LEMMA InitHolds == Init => IInv
<1> SUFFICES ASSUME Init
             PROVE  IInv
  OBVIOUS
<1>1. lcp \in Fsm /\ ipcp \in Fsm
  BY LinkedTyped, LinkTables DEF Init
<1>2. commands \in Seq(Commands)
  BY DEF Init
<1>3. TypeOK
  BY <1>1, <1>2, ZeroTyped, TotalTyped DEF Init, TypeOK
<1>4. LoopShape /\ MissesTakeTime
  BY LoopBounds DEF Init, LoopShape, MissesTakeTime
<1>5. QED
  BY <1>3, <1>4 DEF IInv

\* Traffic and commands: the counters stay, the idle time may start again.
LEMMA CountersKeep ==
    ASSUME IInv, no_reply_count' = no_reply_count, silence' = silence, idle' \in {0, idle}
    PROVE  MissesTakeTime' /\ idle' \in 0 .. Interval
<1>1. /\ no_reply_count \in Nat /\ idle \in Nat /\ silence \in Nat
      /\ idle \in 0 .. Interval /\ 0 \in 0 .. Interval /\ MissesTakeTime
  BY ZeroTyped, TotalTyped DEF IInv, TypeOK
<1>2. idle' \in 0 .. Interval /\ idle' \in Nat /\ idle' <= idle
  BY <1>1
<1>3. ASSUME no_reply_count \in 1 .. MaxMissed
      PROVE  (no_reply_count - 1) * Interval + idle' <= silence
  <2>1. (no_reply_count - 1) * Interval \in Nat
    BY <1>3, <1>1, Intervals
  <2>2. (no_reply_count - 1) * Interval + idle <= silence
    BY <1>3, <1>1 DEF MissesTakeTime
  <2>3. QED
    BY <2>1, <2>2, <1>1, <1>2
<1>4. QED
  BY <1>1, <1>2, <1>3 DEF MissesTakeTime

LEMMA EnterKeeps == ASSUME IInv, Enter PROVE IInv'
<1>1. /\ pc = "enter" /\ no_reply_count' = 0 /\ idle' = 0 /\ silence' = 0
      /\ ping_age' = 0 /\ pinged' = FALSE /\ ping_on' \in BOOLEAN
      /\ UNCHANGED <<plugin, lcp, ipcp, pending, commands>> /\ Again
  BY DEF Enter, automata
<1>2. pc' = "select" /\ result' = result /\ delay' \in 0 .. Interval
  BY <1>1, AgainShape, LoopBounds
<1>3. TypeOK'
  BY <1>1, <1>2, ZeroTyped, TotalTyped DEF IInv, TypeOK
<1>4. LoopShape' /\ MissesTakeTime'
  BY <1>1, <1>2, LoopBounds DEF IInv, LoopShape, MissesTakeTime, TypeOK
<1>5. QED
  BY <1>3, <1>4 DEF IInv

LEMMA TunReadKeeps == ASSUME IInv, TunRead PROVE IInv'
<1>1. /\ pc = "select" /\ idle' \in {0, idle} /\ Again
      /\ UNCHANGED <<ping_on, ping_age>> /\ pinged' = FALSE
      /\ UNCHANGED <<plugin, lcp, ipcp, pending, commands, no_reply_count, silence>>
  BY DEF TunRead, NoPing, automata
<1>2. MissesTakeTime' /\ idle' \in 0 .. Interval
  BY <1>1, CountersKeep
<1>3. pc' = "select" /\ result' = result /\ delay' \in 0 .. Interval
  BY <1>1, <1>2, AgainShape
<1>4. TypeOK'
  BY <1>1, <1>2, <1>3 DEF IInv, TypeOK
<1>5. LoopShape'
  BY <1>1, <1>3 DEF IInv, LoopShape
<1>6. QED
  BY <1>2, <1>4, <1>5 DEF IInv

LEMMA SocketReadKeeps == ASSUME IInv, SocketRead PROVE IInv'
<1>1. /\ pc = "select" /\ idle' = idle
      /\ UNCHANGED <<ping_on, ping_age>> /\ pinged' = FALSE
      /\ UNCHANGED <<plugin, lcp, ipcp, commands, no_reply_count, silence>>
  BY DEF SocketRead, NoPing, automata
<1>2. PICK n \in 0 .. MaxBatch : pending + n <= MaxBatch /\ Packets(pending + n)
  BY DEF SocketRead
<1>3. MissesTakeTime' /\ idle' \in 0 .. Interval
  BY <1>1, CountersKeep
<1>4. pending + n \in 0 .. MaxBatch /\ delay \in 0 .. Interval
  BY <1>2, LoopBounds DEF IInv, TypeOK
<1>5. /\ pending' = pending + n /\ result' = result /\ delay' \in 0 .. Interval
      /\ \/ pc' = "select"
         \/ pc' = "process" /\ pending' > 0
  BY <1>2, <1>3, <1>4, PacketsShape
<1>6. TypeOK'
  BY <1>1, <1>3, <1>4, <1>5 DEF IInv, TypeOK
<1>7. LoopShape'
  BY <1>1, <1>5 DEF IInv, LoopShape
<1>8. QED
  BY <1>3, <1>6, <1>7 DEF IInv

\* The loop ends for another reason than missed replies.
LEMMA EndKeeps ==
    ASSUME IInv, NEW how \in Endings \ {"dead"}, End(how),
           UNCHANGED <<plugin, ipcp, pending, no_reply_count, idle, ping_on, ping_age, silence>>,
           lcp' \in Fsm, commands' \in Seq(Commands), pinged' = FALSE
    PROVE  IInv'
<1>1. pc' = "end" /\ result' = how /\ delay' = delay
  BY DEF End
<1>2. TypeOK'
  BY <1>1 DEF IInv, TypeOK
<1>3. LoopShape'
  BY <1>1 DEF LoopShape
<1>4. MissesTakeTime'
  BY CountersKeep
<1>5. QED
  BY <1>2, <1>3, <1>4 DEF IInv

LEMMA ConnectionFailsKeeps == ASSUME IInv, ConnectionFails PROVE IInv'
<1>1. \E how \in Endings \ {"dead"} : End(how)
  BY DEF ConnectionFails, Endings
<1>2. /\ lcp' \in Fsm /\ commands' \in Seq(Commands) /\ pinged' = FALSE
      /\ UNCHANGED <<plugin, ipcp, pending, no_reply_count, idle, ping_on, ping_age, silence>>
  BY DEF ConnectionFails, automata, clocks, IInv, TypeOK
<1>3. QED
  BY <1>1, <1>2, EndKeeps

\* A request that is due adds a whole interval without a reply.
LEMMA TimerFiresKeeps == ASSUME IInv, TimerFires PROVE IInv'
<1> DEFINE due    == idle >= Interval
           missed == IF due THEN no_reply_count + 1 ELSE no_reply_count
<1>1. /\ pc = "select" /\ no_reply_count' = missed
      /\ idle' = IF due THEN 0 ELSE idle
      /\ UNCHANGED <<plugin, lcp, ipcp, pending, commands, silence, ping_on>>
  BY DEF TimerFires, automata
<1>2. /\ no_reply_count \in 0 .. MaxMissed /\ idle \in 0 .. Interval
      /\ silence \in 0 .. MaxMissed * Interval /\ result = "none"
      /\ MaxMissed \in Nat /\ Interval \in Nat \ {0} /\ delay \in 0 .. Interval
  BY <1>1, LoopBounds DEF IInv, TypeOK, LoopShape
<1>3. idle' \in 0 .. Interval /\ no_reply_count' \in 0 .. MaxMissed + 1
  BY <1>1, <1>2
<1>4. \/ /\ missed > MaxMissed /\ pc' = "end" /\ result' = "dead" /\ delay' = delay
         /\ pinged' = FALSE /\ ping_age' = ping_age
      \/ /\ ~ (missed > MaxMissed) /\ Again
         /\ pinged' \in BOOLEAN /\ ping_age' \in {0, ping_age}
  BY DEF TimerFires, End, SendPing
<1>5. Again => pc' = "select" /\ result' = "none" /\ delay' \in 0 .. Interval
  BY <1>2, <1>3, AgainShape
<1>6. TypeOK'
  <2>1. ping_age \in 0 .. PingInterval /\ 0 \in 0 .. PingInterval
    BY ZeroTyped DEF IInv, TypeOK
  <2>2. ping_age' \in {0, ping_age} /\ pinged' \in BOOLEAN
    BY <1>4
  <2>3. /\ pc' \in {"select", "end"} /\ result' \in {"none", "dead"}
        /\ delay' \in 0 .. Interval
    BY <1>2, <1>4, <1>5
  <2>4. ping_age' \in 0 .. PingInterval
    BY <2>1, <2>2
  <2>5. QED
    BY <1>1, <1>3, <2>2, <2>3, <2>4 DEF IInv, TypeOK, Endings
<1>7. LoopShape'
  <2>1. CASE missed > MaxMissed
    BY <2>1, <1>1, <1>2, <1>3, <1>4 DEF LoopShape
  <2>2. CASE ~ (missed > MaxMissed)
    BY <2>2, <1>1, <1>2, <1>3, <1>4, <1>5 DEF LoopShape
  <2>3. QED
    BY <2>1, <2>2
<1>8. MissesTakeTime'
  <2>1. CASE ~ due
    BY <2>1, <1>1, CountersKeep
  <2>2. CASE due /\ no_reply_count = 0
    BY <2>2, <1>1, <1>2 DEF MissesTakeTime
  <2>3. CASE due /\ no_reply_count # 0
    <3>1. no_reply_count \in 1 .. MaxMissed /\ idle = Interval
      BY <2>3, <1>2
    <3>2. /\ (no_reply_count - 1) * Interval + Interval = no_reply_count * Interval
          /\ no_reply_count * Interval \in Nat
      BY <3>1, Intervals
    <3>3. no_reply_count * Interval <= silence
      BY <3>1, <3>2 DEF IInv, MissesTakeTime
    <3>4. no_reply_count' - 1 = no_reply_count /\ idle' = 0 /\ silence' = silence
      BY <2>3, <1>1, <1>2
    <3>5. QED
      BY <3>2, <3>3, <3>4, <1>2 DEF MissesTakeTime
  <2>4. QED
    BY <2>1, <2>2, <2>3
<1>9. QED
  BY <1>6, <1>7, <1>8 DEF IInv

-----------------------------------------------------------------------------
(***************************************************************************)
(* Packets, commands, time.                                                 *)
(***************************************************************************)

\* A packet that does not end the loop.
LEMMA PacketKeeps ==
    ASSUME IInv, TakePacket, Packets(pending - 1), lcp' \in Fsm, ipcp' \in Fsm,
           \/ UNCHANGED <<no_reply_count, silence>>
           \/ no_reply_count' = 0 /\ silence' = 0
    PROVE  IInv'
<1>1. /\ pc = "process" /\ pinged' = FALSE
      /\ UNCHANGED <<plugin, ping_on, ping_age, commands, idle>>
  BY DEF TakePacket, NoPing
<1>2. pending - 1 \in 0 .. MaxBatch /\ idle' \in 0 .. Interval /\ delay \in 0 .. Interval
  BY <1>1, LoopBounds DEF IInv, TypeOK, LoopShape
<1>3. /\ pending' = pending - 1 /\ result' = result /\ delay' \in 0 .. Interval
      /\ \/ pc' = "select"
         \/ pc' = "process" /\ pending' > 0
  BY <1>2, PacketsShape
<1>4. TypeOK'
  BY <1>1, <1>2, <1>3, ZeroTyped, TotalTyped DEF IInv, TypeOK
<1>5. LoopShape'
  BY <1>1, <1>3, LoopBounds DEF IInv, LoopShape
<1>6. MissesTakeTime'
  <2>1. CASE UNCHANGED <<no_reply_count, silence>>
    BY <2>1, <1>1, CountersKeep
  <2>2. CASE no_reply_count' = 0 /\ silence' = 0
    BY <2>2 DEF MissesTakeTime
  <2>3. QED
    BY <2>1, <2>2
<1>7. QED
  BY <1>4, <1>5, <1>6 DEF IInv

LEMMA FramesTyped ==
    \A frame \in LcpFrames \cup IpcpFrames : frame.code \in Codes /\ frame.opts \in OptionArea
  BY ServerFrames DEF ControlFrame

LEMMA ProcessKeeps == ASSUME IInv, Process PROVE IInv'
<1>1. lcp \in Fsm /\ ipcp \in Fsm /\ commands \in Seq(Commands)
  BY DEF IInv, TypeOK
<1>2. CASE ReplyReceived
  BY <1>2, <1>1, PacketKeeps DEF ReplyReceived, automata
<1>3. CASE OtherPacket
  BY <1>3, <1>1, PacketKeeps DEF OtherPacket, automata
<1>4. CASE LastPacket
  <2>1. \E how \in Endings \ {"dead"} : End(how)
    BY <1>4 DEF LastPacket, Endings
  <2>2. /\ UNCHANGED <<plugin, ipcp, pending, no_reply_count, idle, ping_on, ping_age, silence>>
        /\ lcp' = lcp /\ commands' = commands /\ pinged' = FALSE
    BY <1>4 DEF LastPacket, TakePacket, NoPing, automata
  <2>3. QED
    BY <2>1, <2>2, <1>1, EndKeeps
<1>5. ASSUME NEW frame \in LcpFrames, ReceiveLcp(frame)
      PROVE  IInv'
  <2>1. handle_frame(lcp, frame).fsm \in Fsm
    BY <1>1, FramesTyped, FrameTyped
  <2>2. QED
    BY <1>1, <1>5, <2>1, PacketKeeps DEF ReceiveLcp
<1>6. ASSUME NEW frame \in IpcpFrames, ReceiveIpcp(frame)
      PROVE  IInv'
  <2>1. handle_frame(ipcp, frame).fsm \in Fsm
    BY <1>1, FramesTyped, FrameTyped
  <2>2. QED
    BY <1>1, <1>6, <2>1, PacketKeeps DEF ReceiveIpcp
<1>7. QED
  BY <1>2, <1>3, <1>4, <1>5, <1>6 DEF Process

LEMMA RequestKeeps == ASSUME IInv, NEW command \in Commands, Request(command) PROVE IInv'
<1>1. /\ commands' = Append(commands, command) /\ pinged' = FALSE
      /\ UNCHANGED <<plugin, lcp, ipcp, pc, result, pending, delay,
                     no_reply_count, idle, ping_on, ping_age, silence>>
  BY DEF Request, automata, clocks
<1>2. commands' \in Seq(Commands)
  BY <1>1 DEF IInv, TypeOK
<1>3. TypeOK'
  BY <1>1, <1>2 DEF IInv, TypeOK
<1>4. LoopShape'
  BY <1>1 DEF IInv, LoopShape
<1>5. MissesTakeTime'
  BY <1>1, CountersKeep
<1>6. QED
  BY <1>3, <1>4, <1>5 DEF IInv

LEMMA TakesStep ==
    ASSUME IInv, NEW cs, Takes(cs)
    PROVE  /\ pc = "select" /\ commands' \in Seq(Commands)
           /\ UNCHANGED <<plugin, ipcp, pending, no_reply_count, idle, silence>>
<1>1. commands \in Seq(Commands) /\ commands # <<>> /\ commands' = Tail(commands)
  BY DEF IInv, TypeOK, Takes
<1>2. QED
  BY <1>1, CommandsTyped DEF Takes

LEMMA ObeyKeeps == ASSUME IInv, Obey PROVE IInv'
<1>1. lcp \in Fsm /\ handle_close(lcp).fsm \in Fsm
  BY OwnerTyped DEF IInv, TypeOK
<1>2. CASE Disconnect \/ Notified
  <2>1. /\ CloseLink /\ commands' \in Seq(Commands)
        /\ UNCHANGED <<plugin, ipcp, pending, no_reply_count, idle, silence>>
    BY <1>2, TakesStep DEF Disconnect, Notified
  <2>2. /\ End("user") /\ lcp' \in Fsm /\ pinged' = FALSE
        /\ UNCHANGED <<ping_on, ping_age>>
    BY <2>1, <1>1 DEF CloseLink, NoPing
  <2>3. "user" \in Endings \ {"dead"}
    BY DEF Endings
  <2>4. QED
    BY <2>1, <2>2, <2>3, EndKeeps
<1>3. CASE ToggleKeepalive
  <2>1. /\ pc = "select" /\ Again /\ lcp' = lcp /\ commands' \in Seq(Commands)
        /\ UNCHANGED <<plugin, ipcp, pending, no_reply_count, idle, silence>>
    BY <1>3, TakesStep DEF ToggleKeepalive
  <2>2. ping_on' \in BOOLEAN /\ pinged' \in BOOLEAN /\ ping_age' \in {0, ping_age}
    BY <1>3, Zenon DEF ToggleKeepalive, SendPing
  <2>3. MissesTakeTime' /\ idle' \in 0 .. Interval
    BY <2>1, CountersKeep
  <2>4. pc' = "select" /\ result' = result /\ delay' \in 0 .. Interval
    BY <2>1, <2>3, AgainShape
  <2>5. TypeOK'
    BY <1>1, <2>1, <2>2, <2>3, <2>4, ZeroTyped DEF IInv, TypeOK
  <2>6. LoopShape'
    BY <2>1, <2>4 DEF IInv, LoopShape
  <2>7. QED
    BY <2>3, <2>5, <2>6 DEF IInv
<1>4. QED
  BY <1>2, <1>3 DEF Obey

LEMMA TickKeeps == ASSUME IInv, Tick PROVE IInv'
<1>1. /\ idle'     = AtMost(Interval, idle + 1)
      /\ silence'  = AtMost(MaxMissed * Interval, silence + 1)
      /\ ping_age' = AtMost(PingInterval, ping_age + 1)
      /\ pinged'   = FALSE /\ pc # "end"
      /\ UNCHANGED <<plugin, lcp, ipcp, pc, result, pending, commands, no_reply_count, ping_on>>
  BY DEF Tick, automata
<1>2. /\ idle \in Nat /\ silence \in Nat /\ ping_age \in Nat /\ no_reply_count \in Nat
      /\ Interval \in Nat /\ PingInterval \in Nat /\ MaxMissed * Interval \in Nat
      /\ silence <= MaxMissed * Interval /\ no_reply_count <= MaxMissed
  BY <1>1, LoopBounds, TotalTyped DEF IInv, TypeOK, LoopShape
<1>3. /\ idle' \in 0 .. Interval /\ idle' <= idle + 1
      /\ silence' \in 0 .. MaxMissed * Interval
      /\ ping_age' \in 0 .. PingInterval
  <2> DEFINE total == MaxMissed * Interval
  <2>1. total \in Nat /\ idle + 1 \in Nat /\ silence + 1 \in Nat /\ ping_age + 1 \in Nat
    BY <1>2
  <2>2. silence' = AtMost(total, silence + 1)
    BY <1>1
  <2> HIDE DEF total
  <2>3. silence' \in 0 .. total
    BY <2>1, <2>2, AtMostTyped
  <2>4. idle' \in 0 .. Interval /\ idle' <= idle + 1 /\ ping_age' \in 0 .. PingInterval
    BY <1>1, <1>2, <2>1, AtMostTyped
  <2>5. QED
    BY <2>3, <2>4 DEF total
<1>4. delay' \in 0 .. Interval
  BY LoopBounds DEF Tick, IInv, TypeOK
<1>5. TypeOK'
  BY <1>1, <1>3, <1>4 DEF IInv, TypeOK
<1>6. LoopShape'
  BY <1>1 DEF IInv, LoopShape
<1>7. MissesTakeTime'
  <2>1. CASE no_reply_count = 0
    BY <2>1, <1>1 DEF MissesTakeTime
  <2>2. CASE no_reply_count # 0
    <3>1. no_reply_count \in 1 .. MaxMissed
      BY <2>2, <1>2
    <3>2. /\ (no_reply_count - 1) * Interval \in Nat
          /\ (no_reply_count - 1) * Interval + Interval <= MaxMissed * Interval
      BY <3>1, Intervals
    <3>3. (no_reply_count - 1) * Interval + idle <= silence
      BY <3>1 DEF IInv, MissesTakeTime
    <3>4. idle' \in Nat /\ idle' <= idle + 1 /\ idle' <= Interval
      BY <1>2, <1>3
    <3>5. /\ (no_reply_count - 1) * Interval <= silence'
          /\ (no_reply_count - 1) * Interval + idle' <= silence'
      BY <3>2, <3>3, <3>4, <1>1, <1>2, ClocksAdvance
    <3>6. QED
      BY <3>5, <1>1 DEF MissesTakeTime
  <2>3. QED
    BY <2>1, <2>2
<1>8. QED
  BY <1>5, <1>6, <1>7 DEF IInv

LEMMA StutterKeeps == ASSUME IInv, UNCHANGED vars PROVE IInv'
  BY DEF vars, IInv, TypeOK, LoopShape, MissesTakeTime

LEMMA NextKeeps == ASSUME IInv, [Next]_vars PROVE IInv'
<1>1. Sendable \subseteq Commands
  BY DEF Sendable, Commands
<1>2. QED
  BY <1>1, EnterKeeps, TunReadKeeps, SocketReadKeeps, ConnectionFailsKeeps, TimerFiresKeeps,
     ProcessKeeps, ObeyKeeps, TickKeeps, RequestKeeps, StutterKeeps
     DEF Next

-----------------------------------------------------------------------------
(***************************************************************************)
(* The invariant of the loop: requests without a reply stand for intervals  *)
(* that have passed.                                                        *)
(***************************************************************************)
THEOREM InductiveInvariant == Spec => []IInv
<1>1. Init => IInv
  BY InitHolds
<1>2. IInv /\ [Next]_vars => IInv'
  BY NextKeeps
<1>3. QED
  BY <1>1, <1>2, PTL DEF Spec

(***************************************************************************)
(* The loop keeps its types, whatever the server, the TUN device and the    *)
(* owner do (data_loop).                                                    *)
(***************************************************************************)
THEOREM TypeCorrect == Spec => []TypeOK
<1>1. IInv => TypeOK
  BY DEF IInv
<1>2. QED
  BY <1>1, InductiveInvariant, PTL

(***************************************************************************)
(* The server is declared dead only after MaxMissed whole intervals without *)
(* a REPLY, for every interval and limit (should_send_request, is_dead).    *)
(***************************************************************************)
THEOREM AnswersKeepAliveHolds == Spec => []AnswersKeepAlive
<1>1. IInv => AnswersKeepAlive
  <2> SUFFICES ASSUME IInv, result = "dead"
               PROVE  silence = MaxMissed * Interval
    BY DEF AnswersKeepAlive
  <2>1. no_reply_count = MaxMissed + 1 /\ MaxMissed \in Nat
    BY LoopBounds DEF IInv, LoopShape
  <2>2. (no_reply_count - 1) * Interval <= silence /\ no_reply_count - 1 = MaxMissed
    BY <2>1 DEF IInv, MissesTakeTime
  <2>3. silence \in 0 .. MaxMissed * Interval /\ MaxMissed * Interval \in Nat
    BY TotalTyped DEF IInv, TypeOK
  <2>4. QED
    BY <2>2, <2>3
<1>2. QED
  BY <1>1, InductiveInvariant, PTL
=============================================================================
