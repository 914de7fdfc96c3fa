--------------------------- MODULE Negotiate_proofs ---------------------------
(***************************************************************************)
(* Theorems of Negotiate, for every pair of option tables, every server,    *)
(* and every retry limit, read timeout and deadline with                    *)
(* Deadline <= RestartLimit * ReadTimeout.                                  *)
(***************************************************************************)
EXTENDS Negotiate, PppFsm_proofs

-----------------------------------------------------------------------------
(***************************************************************************)
(* What one event does to the retry counter and to the state.               *)
(***************************************************************************)
LEMMA SilentActs == ~ check_shutdown(<<>>) /\ ~ check_shutdown(<<LayerUp>>)
  BY DEF check_shutdown, LayerUp

LEMMA ShutdownActs == check_shutdown(<<Shutdown>>)
  BY DEF check_shutdown, Shutdown

LEMMA FrameActs == \A frame : ~ check_shutdown(<<SendFrame(frame)>>)
  BY DEF check_shutdown, SendFrame

LEMMA TimeoutStep ==
    ASSUME NEW f \in Fsm
    PROVE  LET r == handle_timeout(f)
           IN  /\ r.fsm \in Fsm
               /\ r.fsm.restart_counter \in {f.restart_counter, f.restart_counter + 1}
               /\ check_shutdown(r.acts) => f.restart_counter >= RestartLimit
               /\ r.fsm.state = "Stopped" => f.state = "Stopped" \/ check_shutdown(r.acts)
<1> DEFINE r == handle_timeout(f)
<1>0. r.fsm \in Fsm
  BY OwnerTyped
<1>1. CASE f.state \notin Negotiating
  <2>1. r.fsm = f /\ r.acts = <<>>
    BY <1>1 DEF handle_timeout, Ignore, Result
  <2>2. QED
    BY <2>1, SilentActs, <1>0
<1>2. CASE f.state \in Negotiating /\ f.restart_counter < RestartLimit
  <2>1. /\ r.fsm = [Requesting(f) EXCEPT
                        !.restart_counter = @ + 1,
                        !.state = IF @ = "AckSent" THEN "AckSent" ELSE "ReqSent"]
        /\ r.acts = <<SendFrame(build_config_request(f))>>
    BY <1>2 DEF handle_timeout, Result
  <2>2. r.fsm.restart_counter = f.restart_counter + 1 /\ r.fsm.state # "Stopped"
    BY <2>1, RequestingTyped DEF Fsm
  <2>3. QED
    BY <2>1, <2>2, <1>0, FrameActs
<1>3. CASE f.state \in Negotiating /\ ~ f.restart_counter < RestartLimit
  <2>1. /\ r.fsm = [f EXCEPT !.restart_counter = @ + 1, !.state = "Stopped"]
        /\ r.acts = <<Shutdown>>
    BY <1>3 DEF handle_timeout, Result
  <2>2. r.fsm.restart_counter = f.restart_counter + 1
    BY <2>1 DEF Fsm
  <2>3. f.restart_counter >= RestartLimit
    BY <1>3, LimitsAssumption DEF Fsm
  <2>4. QED
    BY <2>1, <2>2, <2>3, <1>0, ShutdownActs
<1>4. QED
  BY <1>1, <1>2, <1>3

LEMMA StartStep ==
    ASSUME NEW f \in Fsm
    PROVE  /\ Started(f) \in Fsm
           /\ Started(f).restart_counter \in {f.restart_counter, 0}
           /\ Started(f).state = "Stopped" => f.state = "Stopped"
<1> DEFINE u == handle_up(f).fsm
<1>1. u \in Fsm /\ handle_open(u).fsm \in Fsm
  BY OwnerTyped
<1>2. /\ u.restart_counter = f.restart_counter
      /\ u.state = "Stopped" => f.state = "Stopped"
  BY DEF handle_up, Result, Ignore, Fsm
<1>3. /\ handle_open(u).fsm.restart_counter \in {u.restart_counter, 0}
      /\ handle_open(u).fsm.state = "Stopped" => u.state = "Stopped"
  <2> HIDE DEF u
  <2>1. CASE u.state = "Initial"
    <3>1. handle_open(u).fsm = [u EXCEPT !.state = "Closed", !.restart_counter = 0]
      BY <2>1 DEF handle_open, Result
    <3>2. QED
      BY <3>1, <1>1 DEF Fsm
  <2>2. CASE u.state = "Closed"
    <3>1. handle_open(u).fsm =
            [Requesting(u) EXCEPT !.state = "ReqSent", !.restart_counter = 0]
      BY <2>2 DEF handle_open, Result
    <3>2. QED
      BY <3>1, <1>1, RequestingTyped DEF Fsm
  <2>3. CASE u.state \notin {"Initial", "Closed"}
    BY <2>3 DEF handle_open, Ignore, Result
  <2>4. QED
    BY <2>1, <2>2, <2>3
<1>4. QED
  BY <1>1, <1>2, <1>3 DEF Started

LEMMA ConfigRequestStep ==
    ASSUME NEW f \in Fsm, NEW frame, frame.opts \in OptionArea
    PROVE  LET g == handle_config_request(f, frame).fsm
           IN  /\ g.restart_counter = f.restart_counter
               /\ g.state = "Stopped" => f.state = "Stopped"
<1> DEFINE answered == [f EXCEPT
            !.tried  = TriedAfter(f, frame.opts),
            !.remote = IF Accepts(f, frame) THEN frame.opts ELSE @,
            !.state  = AfterRequest(@, Accepts(f, frame))]
<1>1. /\ answered.restart_counter = f.restart_counter
      /\ answered.state # "Stopped"
  BY DEF Fsm, AfterRequest
<1>2. Requesting(answered).restart_counter = answered.restart_counter
      /\ Requesting(answered).state = answered.state
  BY DEF Requesting, Fsm
<1>3. handle_config_request(f, frame).fsm \in {f, answered, Requesting(answered)}
  <2>1. CASE f.state = "Opened"
    BY <2>1 DEF handle_config_request, Result
  <2>2. CASE f.state = "AckRecvd"
    BY <2>2 DEF handle_config_request, Result
  <2>3. CASE f.state \in {"ReqSent", "AckSent"}
    BY <2>3 DEF handle_config_request, Result
  <2>4. CASE f.state \notin {"Opened", "AckRecvd", "ReqSent", "AckSent"}
    BY <2>4 DEF handle_config_request, Result, Ignore
  <2> HIDE DEF answered
  <2>5. QED
    BY <2>1, <2>2, <2>3, <2>4
<1> HIDE DEF answered
<1>4. QED
  BY <1>1, <1>2, <1>3

LEMMA ConfigAckStep ==
    ASSUME NEW f \in Fsm, NEW frame
    PROVE  LET g == handle_config_ack(f, frame).fsm
           IN  /\ g.restart_counter \in {f.restart_counter, 0}
               /\ g.state = "Stopped" => f.state = "Stopped"
  BY DEF handle_config_ack, Result, Ignore, Fsm

LEMMA ConfigNakRejectStep ==
    ASSUME NEW f \in Fsm, NEW frame, frame.opts \in OptionArea
    PROVE  LET r == handle_config_nak_reject(f, frame)
           IN  /\ r.fsm.restart_counter \in {f.restart_counter, 0}
               /\ r.fsm.state = "Stopped" => f.state = "Stopped" \/ check_shutdown(r.acts)
<1> DEFINE r == handle_config_nak_reject(f, frame)
           updated == [f EXCEPT
                !.restart_counter = 0,
                !.desired = update_desired_local_options(@, frame),
                !.state   = IF @ = "AckSent" THEN "AckSent" ELSE "ReqSent"]
<1>1. CASE frame.id # f.current_request_id \/ f.state \notin Negotiating
  BY <1>1 DEF handle_config_nak_reject, Result, Ignore
<1>2. CASE /\ frame.id = f.current_request_id /\ f.state \in Negotiating
           /\ frame.opts = Malformed
  <2>1. /\ r.fsm = [f EXCEPT !.restart_counter = 0, !.state = "Stopped"]
        /\ r.acts = <<Shutdown>>
    BY <1>2 DEF handle_config_nak_reject, Result
  <2>2. QED
    BY <2>1, ShutdownActs DEF Fsm
<1>3. CASE /\ frame.id = f.current_request_id /\ f.state \in Negotiating
           /\ frame.opts # Malformed
  <2>1. r.fsm = Requesting(updated)
    BY <1>3 DEF handle_config_nak_reject, Result
  <2>2. updated.restart_counter = 0 /\ updated.state # "Stopped"
    BY DEF Fsm
  <2>3. /\ Requesting(updated).restart_counter = updated.restart_counter
        /\ Requesting(updated).state = updated.state
    BY DEF Requesting, Fsm
  <2>4. QED
    BY <2>1, <2>2, <2>3
<1>4. QED
  BY <1>1, <1>2, <1>3

LEMMA FrameStep ==
    ASSUME NEW f \in Fsm, NEW frame \in ControlFrame
    PROVE  LET r == handle_frame(f, frame)
           IN  /\ r.fsm \in Fsm
               /\ r.fsm.restart_counter \in {f.restart_counter, 0}
               /\ r.fsm.state = "Stopped" => f.state = "Stopped" \/ check_shutdown(r.acts)
<1>1. /\ handle_terminate_request(f, frame).fsm.restart_counter = f.restart_counter
      /\ handle_terminate_request(f, frame).fsm.state = "Stopped" => f.state = "Stopped"
  BY DEF handle_terminate_request, Result, Ignore, Fsm
<1>2. /\ handle_terminate_ack(f).fsm.restart_counter = f.restart_counter
      /\ handle_terminate_ack(f).fsm.state = "Stopped" => f.state = "Stopped"
  BY DEF handle_terminate_ack, Result, Ignore, Fsm
<1>3. /\ handle_unknown_code(f).fsm.restart_counter = f.restart_counter
      /\ handle_unknown_code(f).fsm.state = "Stopped" => f.state = "Stopped"
  BY DEF handle_unknown_code, Result, Ignore, Fsm
<1>4. handle_frame(f, frame).fsm \in Fsm /\ frame.opts \in OptionArea
  BY FrameTyped DEF ControlFrame
<1>5. QED
  BY <1>1, <1>2, <1>3, <1>4, ConfigRequestStep, ConfigAckStep, ConfigNakRejectStep
     DEF handle_frame, ControlFrame, Codes

-----------------------------------------------------------------------------
(***************************************************************************)
(* The loop.                                                                *)
(***************************************************************************)
LEMMA TablesTyped ==
    /\ new(LcpDesired, LcpAcceptable, <<>>) \in Fsm
    /\ new(IpcpDesired, IpcpAcceptable, <<>>) \in Fsm
<1>1. /\ LcpDesired \in Seq(Option \cup {NoOption})
      /\ IpcpDesired \in Seq(Option \cup {NoOption})
  BY OwnerTables
<1>2. <<>> \in Seq(Option) /\ 0 \in Ids
  BY LimitsAssumption DEF Ids
<1>3. QED
  BY <1>1, <1>2, OwnerTables DEF new, Fsm, FsmStates

LEMMA InitHolds == Init => IInv
<1> SUFFICES ASSUME Init
             PROVE  IInv
  OBVIOUS
<1> DEFINE l == new(LcpDesired, LcpAcceptable, <<>>)
<1>1. /\ l \in Fsm /\ l.restart_counter = 0 /\ l.state = "Initial"
      /\ ipcp \in Fsm /\ ipcp.restart_counter = 0 /\ ipcp.state = "Initial"
  BY TablesTyped DEF Init, new
<1>2. lcp = Started(l)
  BY DEF Init
<1> HIDE DEF l
<1>3. lcp \in Fsm /\ lcp.restart_counter = 0 /\ lcp.state # "Stopped"
  BY <1>1, <1>2, StartStep
<1>4. TypeOK
  <2>1. /\ auth_done = FALSE /\ ipcp_started = FALSE /\ terminated = FALSE
        /\ pc = "check" /\ result = "none" /\ pending = 0 /\ now = 0 /\ waited = 0
        /\ sent = "none"
    BY DEF Init
  <2>2. 0 \in 0 .. MaxBatch /\ 0 \in 0 .. ReadTimeout /\ 0 \in Nat
    BY Bounds
  <2>3. QED
    BY <1>1, <1>3, <2>1, <2>2 DEF TypeOK
<1>5. RetriesTakeTime
  BY <1>1, <1>3, Bounds DEF Init, RetriesTakeTime
<1>6. QED
  BY <1>1, <1>3, <1>4, <1>5
     DEF IInv, Init, ReadInTime, LoopShape, StoppedIsLast, IpcpTimerArmed, Negotiating

LEMMA CounterTime ==
    ASSUME NEW c \in Nat, NEW d \in {c, 0}, NEW t \in Nat,
           c * ReadTimeout <= t
    PROVE  d * ReadTimeout <= t
  BY Bounds

LEMMA RetryTime ==
    ASSUME NEW c \in Nat, NEW d \in {c, c + 1}, NEW t \in Nat,
           ReadTimeout <= t, c * ReadTimeout <= t - ReadTimeout
    PROVE  d * ReadTimeout <= t
<1>1. (c + 1) * ReadTimeout = c * ReadTimeout + ReadTimeout
  BY Bounds
<1>2. c * ReadTimeout \in Nat
  BY Bounds
<1>3. QED
  BY <1>1, <1>2, Bounds

LEMMA ContinueShape ==
    ASSUME NEW l, NEW i, Continue(l, i)
    PROVE  \/ pc' = "end" /\ result' \in {"done", "noaddress"}
           \/ pc' = "check" /\ result' = result /\ pending' = 0
           \/ pc' = "process" /\ result' = result /\ pending' # 0
  BY DEF Continue, Fail

\* The part of IInv a packet may disturb, and how it is restored.
LEMMA PacketKeeps ==
    ASSUME IInv, TakePacket,
           lcp' \in Fsm, lcp'.restart_counter \in {lcp.restart_counter, 0},
           ipcp' \in Fsm, ipcp'.restart_counter \in {ipcp.restart_counter, 0},
           auth_done' \in BOOLEAN, ipcp_started' \in BOOLEAN, terminated' \in BOOLEAN,
           sent' \in {"none", "PapRequest", "ChapResponse", "CcpReject"},
           ipcp'.state \in Negotiating => ipcp_started',
           ~ ipcp_started' => ipcp'.state = "Initial",
           \/ Fail("shutdown")
           \/ /\ "Stopped" \notin {lcp'.state, ipcp'.state}
              /\ Continue(lcp', ipcp') \/ \E why \in Failures : Fail(why)
    PROVE  IInv'
<1>1. /\ pc = "process" /\ pending' = pending - 1 /\ now' = now /\ waited' = waited
      /\ pending > 0 /\ result = "none"
  BY DEF TakePacket, IInv, LoopShape
<1>2. \/ pc' = "end" /\ result' \in {"done"} \cup Failures
      \/ pc' = "check" /\ result' = result /\ pending' = 0
      \/ pc' = "process" /\ result' = result /\ pending' # 0
  BY ContinueShape DEF Fail, Failures
<1>3. pending' \in 0 .. MaxBatch
  BY <1>1, Bounds DEF IInv, TypeOK
<1>4. TypeOK'
  BY <1>1, <1>2, <1>3 DEF IInv, TypeOK
<1>5. RetriesTakeTime'
  <2>1. /\ lcp.restart_counter \in Nat /\ ipcp.restart_counter \in Nat /\ now \in Nat
        /\ lcp.restart_counter * ReadTimeout <= now
        /\ ipcp.restart_counter * ReadTimeout <= now
    BY <1>1 DEF IInv, TypeOK, Fsm, RetriesTakeTime
  <2>2. /\ lcp'.restart_counter * ReadTimeout <= now
        /\ ipcp'.restart_counter * ReadTimeout <= now
    BY <2>1, CounterTime
  <2>3. QED
    BY <1>1, <1>2, <2>2 DEF RetriesTakeTime
<1>6. ReadInTime'
  BY <1>2 DEF ReadInTime
<1>7. LoopShape'
  <2>1. pc' = "process" => pending' > 0
    BY <1>2, <1>3, Bounds
  <2>2. pc' # "end" => result' = "none"
    BY <1>1, <1>2
  <2>3. QED
    BY <2>1, <2>2 DEF LoopShape
<1>8. StoppedIsLast'
  BY DEF StoppedIsLast, Fail
<1>9. IpcpTimerArmed'
  BY DEF IpcpTimerArmed
<1>10. QED
  BY <1>4, <1>5, <1>6, <1>7, <1>8, <1>9 DEF IInv

\* While the task runs neither automaton has stopped.
LEMMA NotStopped ==
    ASSUME IInv, pc # "end"
    PROVE  lcp.state # "Stopped" /\ ipcp.state # "Stopped"
  BY DEF IInv, LoopShape, StoppedIsLast

LEMMA ReceiveLcpKeeps ==
    ASSUME IInv, NEW frame \in LcpFrames, ReceiveLcp(frame)
    PROVE  IInv'
<1> DEFINE r == handle_frame(lcp, frame)
<1>1. frame \in ControlFrame /\ lcp \in Fsm /\ ipcp \in Fsm
  BY ServerFrames DEF IInv, TypeOK
<1>2. /\ r.fsm \in Fsm
      /\ r.fsm.restart_counter \in {lcp.restart_counter, 0}
      /\ r.fsm.state = "Stopped" => lcp.state = "Stopped" \/ check_shutdown(r.acts)
  BY <1>1, FrameStep
<1> HIDE DEF r
<1>3. /\ TakePacket /\ lcp' = r.fsm /\ ipcp' = ipcp /\ auth_done' = auth_done
      /\ ipcp_started' = ipcp_started
      /\ sent' \in {"none", "PapRequest"} /\ terminated' \in BOOLEAN
      /\ IF check_shutdown(r.acts) THEN Fail("shutdown") ELSE Continue(lcp', ipcp')
  BY DEF ReceiveLcp, r, IInv, TypeOK
<1>4. lcp.state # "Stopped" /\ ipcp.state # "Stopped"
  BY <1>3, NotStopped DEF TakePacket
<1>5. QED
  BY <1>1, <1>2, <1>3, <1>4, PacketKeeps
     DEF IInv, TypeOK, LoopShape, IpcpTimerArmed

LEMMA ReceiveIpcpKeeps ==
    ASSUME IInv, NEW frame \in IpcpFrames, ReceiveIpcp(frame)
    PROVE  IInv'
<1> DEFINE f == IF ipcp_started THEN ipcp ELSE Started(ipcp)
           r == handle_frame(f, frame)
<1>1. frame \in ControlFrame /\ lcp \in Fsm /\ ipcp \in Fsm
  BY ServerFrames DEF IInv, TypeOK
<1>2. /\ f \in Fsm /\ f.restart_counter \in {ipcp.restart_counter, 0}
      /\ f.state = "Stopped" => ipcp.state = "Stopped"
  BY <1>1, StartStep
<1> HIDE DEF f
<1>3. /\ r.fsm \in Fsm
      /\ r.fsm.restart_counter \in {f.restart_counter, 0}
      /\ r.fsm.state = "Stopped" => f.state = "Stopped" \/ check_shutdown(r.acts)
  BY <1>1, <1>2, FrameStep
<1> HIDE DEF r
<1>4. /\ TakePacket /\ ipcp' = r.fsm /\ lcp' = lcp /\ auth_done' = auth_done
      /\ ipcp_started' = TRUE /\ sent' = "none" /\ terminated' = terminated
      /\ IF check_shutdown(r.acts) THEN Fail("shutdown") ELSE Continue(lcp', ipcp')
  BY DEF ReceiveIpcp, r, f
<1>5. lcp.state # "Stopped" /\ ipcp.state # "Stopped"
  BY <1>4, NotStopped DEF TakePacket
<1>6. QED
  BY <1>1, <1>2, <1>3, <1>4, <1>5, PacketKeeps DEF IInv, TypeOK

LEMMA AuthSucceedsKeeps == ASSUME IInv, AuthSucceeds PROVE IInv'
<1>1. lcp \in Fsm /\ ipcp \in Fsm
  BY DEF IInv, TypeOK
<1>2. /\ Started(ipcp) \in Fsm
      /\ Started(ipcp).restart_counter \in {ipcp.restart_counter, 0}
      /\ Started(ipcp).state = "Stopped" => ipcp.state = "Stopped"
  BY <1>1, StartStep
<1>3. /\ TakePacket /\ ipcp' = Started(ipcp) /\ lcp' = lcp /\ auth_done' = TRUE
      /\ ipcp_started' = TRUE /\ sent' = "none" /\ terminated' = terminated
      /\ Continue(lcp', ipcp')
  BY DEF AuthSucceeds
<1>4. lcp.state # "Stopped" /\ ipcp.state # "Stopped"
  BY <1>3, NotStopped DEF TakePacket
<1>5. QED
  BY <1>1, <1>2, <1>3, <1>4, PacketKeeps DEF IInv, TypeOK

\* Packets the automata do not see.
LEMMA OtherPacketsKeep ==
    ASSUME IInv, FatalPacket \/ ChapChallenge \/ OtherPacket
    PROVE  IInv'
<1>1. /\ TakePacket
      /\ UNCHANGED <<lcp, ipcp, auth_done, ipcp_started, terminated>>
      /\ sent' \in {"none", "ChapResponse", "CcpReject"}
      /\ Continue(lcp', ipcp') \/ \E why \in Failures : Fail(why)
  BY DEF FatalPacket, ChapChallenge, OtherPacket, Failures
<1>2. lcp.state # "Stopped" /\ ipcp.state # "Stopped"
  BY <1>1, NotStopped DEF TakePacket
<1>3. QED
  BY <1>1, <1>2, PacketKeeps DEF IInv, TypeOK, LoopShape, IpcpTimerArmed

LEMMA CheckDeadlineKeeps == ASSUME IInv, CheckDeadline PROVE IInv'
<1>1. /\ pc = "check" /\ now' = now
      /\ UNCHANGED <<lcp, ipcp, auth_done, ipcp_started, pending, terminated>>
      /\ sent' = "none" /\ result = "none"
  BY DEF CheckDeadline, IInv, LoopShape
<1>2. \/ pc' = "end" /\ result' = "deadline" /\ waited' = waited
      \/ pc' = "read" /\ result' = result /\ waited' = 0 /\ now < Deadline
  BY Bounds DEF CheckDeadline, Fail, IInv, TypeOK
<1>3. TypeOK'
  BY <1>1, <1>2, Bounds DEF IInv, TypeOK, Failures
<1>4. RetriesTakeTime'
  BY <1>1, <1>2, Bounds DEF IInv, TypeOK, RetriesTakeTime
<1>5. ReadInTime'
  BY <1>1, <1>2, Bounds DEF IInv, TypeOK, ReadInTime
<1>6. LoopShape'
  BY <1>1, <1>2 DEF IInv, LoopShape
<1>7. StoppedIsLast' /\ IpcpTimerArmed'
  BY <1>1, NotStopped DEF IInv, StoppedIsLast, IpcpTimerArmed
<1>8. QED
  BY <1>3, <1>4, <1>5, <1>6, <1>7 DEF IInv

LEMMA ReadDataKeeps == ASSUME IInv, ReadData PROVE IInv'
<1>1. /\ pc = "read" /\ sent' = "none" /\ result = "none"
      /\ UNCHANGED <<lcp, ipcp, auth_done, ipcp_started, result, now, waited, terminated>>
  BY DEF ReadData, IInv, LoopShape
<1>2. /\ pending' \in 0 .. MaxBatch
      /\ pc' = IF pending' = 0 THEN "check" ELSE "process"
  BY DEF ReadData
<1>3. TypeOK'
  BY <1>1, <1>2 DEF IInv, TypeOK
<1>4. RetriesTakeTime'
  <2>1. now - waited <= now
    BY Bounds DEF IInv, TypeOK
  <2>2. /\ lcp.restart_counter * ReadTimeout \in Nat
        /\ ipcp.restart_counter * ReadTimeout \in Nat
        /\ lcp.restart_counter * ReadTimeout <= now - waited
        /\ ipcp.restart_counter * ReadTimeout <= now - waited
    BY <1>1, Bounds DEF IInv, TypeOK, Fsm, RetriesTakeTime
  <2>3. /\ lcp.restart_counter * ReadTimeout <= now
        /\ ipcp.restart_counter * ReadTimeout <= now
    BY <2>1, <2>2, Bounds DEF IInv, TypeOK
  <2>4. QED
    BY <1>1, <1>2, <2>3 DEF RetriesTakeTime
<1>5. ReadInTime'
  BY <1>2 DEF ReadInTime
<1>6. LoopShape'
  BY <1>1, <1>2, Bounds DEF IInv, LoopShape
<1>7. StoppedIsLast' /\ IpcpTimerArmed'
  BY <1>1 DEF IInv, StoppedIsLast, IpcpTimerArmed
<1>8. QED
  BY <1>3, <1>4, <1>5, <1>6, <1>7 DEF IInv

LEMMA ConnectionFailsKeeps == ASSUME IInv, ConnectionFails PROVE IInv'
<1>1. /\ pc \in {"read", "process"} /\ pc' = "end" /\ result' = "io" /\ sent' = "none"
      /\ UNCHANGED <<lcp, ipcp, auth_done, ipcp_started, pending, now, waited, terminated>>
  BY DEF ConnectionFails, Fail
<1>2. TypeOK'
  BY <1>1 DEF IInv, TypeOK, Failures
<1>3. RetriesTakeTime'
  <2>1. now - waited <= now /\ now \in Nat /\ now - waited \in Int
    BY Bounds DEF IInv, TypeOK
  <2>2. /\ lcp.restart_counter * ReadTimeout \in Nat
        /\ ipcp.restart_counter * ReadTimeout \in Nat
    BY Bounds DEF IInv, TypeOK, Fsm
  <2>3. /\ lcp.restart_counter * ReadTimeout <= now
        /\ ipcp.restart_counter * ReadTimeout <= now
    BY <2>1, <2>2 DEF IInv, RetriesTakeTime
  <2>4. QED
    BY <1>1, <2>3 DEF RetriesTakeTime
<1>4. ReadInTime' /\ LoopShape'
  BY <1>1 DEF IInv, ReadInTime, LoopShape
<1>5. StoppedIsLast' /\ IpcpTimerArmed'
  BY <1>1, NotStopped DEF IInv, StoppedIsLast, IpcpTimerArmed
<1>6. QED
  BY <1>2, <1>3, <1>4, <1>5 DEF IInv

\* What a Timeout event does to one of the two automata, whether or not it
\* is negotiating.
LEMMA TimerStep ==
    ASSUME NEW f \in Fsm, NEW armed
    PROVE  LET r == Timer(f, armed)
           IN  /\ r.fsm \in Fsm
               /\ r.fsm.restart_counter \in {f.restart_counter, f.restart_counter + 1}
               /\ check_shutdown(r.acts) => f.restart_counter >= RestartLimit
               /\ r.fsm.state = "Stopped" => f.state = "Stopped" \/ check_shutdown(r.acts)
<1>1. CASE armed /\ f.state \in Negotiating
  BY <1>1, TimeoutStep DEF Timer
<1>2. CASE ~ (armed /\ f.state \in Negotiating)
  BY <1>2, SilentActs DEF Timer, Ignore, Result
<1>3. QED
  BY <1>1, <1>2

\* A read that times out began before the deadline, so that too little time
\* has passed for the retries to be used up.
LEMMA RetriesLeft ==
    ASSUME IInv, pc = "read", waited = ReadTimeout
    PROVE  /\ ~ lcp.restart_counter >= RestartLimit
           /\ ~ ipcp.restart_counter >= RestartLimit
<1>1. /\ now - ReadTimeout < Deadline
      /\ now - ReadTimeout \in Int
      /\ lcp.restart_counter * ReadTimeout <= now - ReadTimeout
      /\ ipcp.restart_counter * ReadTimeout <= now - ReadTimeout
      /\ lcp.restart_counter \in Nat /\ ipcp.restart_counter \in Nat
  BY Bounds DEF IInv, TypeOK, Fsm, ReadInTime, RetriesTakeTime
<1>2. ASSUME NEW c \in Nat, c >= RestartLimit
      PROVE  RestartLimit * ReadTimeout <= c * ReadTimeout
  BY <1>2, Bounds, LimitsAssumption
<1>3. ASSUME NEW c \in Nat, c >= RestartLimit, c * ReadTimeout <= now - ReadTimeout
      PROVE  FALSE
  <2>1. RestartLimit * ReadTimeout \in Nat /\ c * ReadTimeout \in Nat
    BY Bounds, LimitsAssumption
  <2>2. QED
    BY <1>1, <1>2, <1>3, <2>1, LimitCoversDeadline, Bounds
<1>4. QED
  BY <1>1, <1>3

LEMMA ReadTimesOutKeeps ==
    ASSUME IInv, ReadTimesOut
    PROVE  IInv' /\ result' # "shutdown"
<1> DEFINE l == Timer(lcp, TRUE)
           i == Timer(ipcp, ipcp_started)
<1>1. lcp \in Fsm /\ ipcp \in Fsm /\ pc = "read" /\ waited = ReadTimeout /\ result = "none"
  BY DEF ReadTimesOut, IInv, TypeOK, LoopShape
<1>2. ~ check_shutdown(l.acts) /\ ~ check_shutdown(i.acts)
  BY <1>1, RetriesLeft, TimerStep
<1>3. /\ l.fsm \in Fsm /\ i.fsm \in Fsm
      /\ l.fsm.restart_counter \in {lcp.restart_counter, lcp.restart_counter + 1}
      /\ i.fsm.restart_counter \in {ipcp.restart_counter, ipcp.restart_counter + 1}
      /\ l.fsm.state # "Stopped" /\ i.fsm.state # "Stopped"
  BY <1>1, <1>2, TimerStep, NotStopped
<1>4. ~ ipcp_started => i.fsm = ipcp
  BY DEF Timer, Ignore, Result
<1> HIDE DEF l, i
<1>5. /\ lcp' = l.fsm /\ ipcp' = i.fsm /\ pc' = "check" /\ sent' = "none"
      /\ UNCHANGED <<result, auth_done, ipcp_started, pending, now, waited, terminated>>
  BY <1>2 DEF ReadTimesOut, l, i
<1>6. TypeOK'
  BY <1>3, <1>5 DEF IInv, TypeOK
<1>7. RetriesTakeTime'
  <2>1. /\ lcp.restart_counter \in Nat /\ ipcp.restart_counter \in Nat
        /\ now \in Nat /\ ReadTimeout <= now
        /\ lcp.restart_counter * ReadTimeout <= now - ReadTimeout
        /\ ipcp.restart_counter * ReadTimeout <= now - ReadTimeout
    BY <1>1, Bounds DEF IInv, TypeOK, Fsm, ReadInTime, RetriesTakeTime
  <2>2. /\ lcp'.restart_counter * ReadTimeout <= now
        /\ ipcp'.restart_counter * ReadTimeout <= now
    BY <1>3, <1>5, <2>1, RetryTime
  <2>3. QED
    BY <1>5, <2>2 DEF RetriesTakeTime
<1>8. ReadInTime' /\ LoopShape'
  BY <1>1, <1>4, <1>5 DEF IInv, ReadInTime, LoopShape
<1>9. StoppedIsLast' /\ IpcpTimerArmed'
  BY <1>3, <1>4, <1>5 DEF IInv, StoppedIsLast, IpcpTimerArmed
<1>10. QED
  BY <1>1, <1>5, <1>6, <1>7, <1>8, <1>9 DEF IInv

LEMMA TickKeeps == ASSUME IInv, Tick PROVE IInv'
<1>1. /\ now' = now + 1 /\ sent' = "none"
      /\ UNCHANGED <<lcp, ipcp, auth_done, ipcp_started, pc, result, pending, terminated>>
  BY DEF Tick
<1>2. \/ pc = "read" /\ waited < ReadTimeout /\ waited' = waited + 1
      \/ pc # "read" /\ waited' = waited
  BY DEF Tick
<1>3. TypeOK'
  BY <1>1, <1>2, Bounds DEF IInv, TypeOK
<1>4. RetriesTakeTime'
  <2>1. /\ lcp.restart_counter * ReadTimeout \in Nat
        /\ ipcp.restart_counter * ReadTimeout \in Nat
        /\ now \in Nat /\ waited \in Nat
    BY Bounds DEF IInv, TypeOK, Fsm
  <2>2. CASE pc = "read"
    BY <1>1, <1>2, <2>1, <2>2 DEF IInv, RetriesTakeTime
  <2>3. CASE pc # "read"
    BY <1>1, <1>2, <2>1, <2>3 DEF IInv, RetriesTakeTime
  <2>4. QED
    BY <2>2, <2>3
<1>5. ReadInTime'
  BY <1>1, <1>2, Bounds DEF IInv, TypeOK, ReadInTime
<1>6. LoopShape' /\ StoppedIsLast' /\ IpcpTimerArmed'
  BY <1>1 DEF IInv, LoopShape, StoppedIsLast, IpcpTimerArmed
<1>7. QED
  BY <1>3, <1>4, <1>5, <1>6 DEF IInv

LEMMA ProcessKeeps == ASSUME IInv, Process PROVE IInv'
  BY ReceiveLcpKeeps, ReceiveIpcpKeeps, AuthSucceedsKeeps, OtherPacketsKeep DEF Process

LEMMA NextKeeps == IInv /\ [Next]_vars => IInv'
<1> SUFFICES ASSUME IInv, [Next]_vars
             PROVE  IInv'
  OBVIOUS
<1>1. CASE UNCHANGED vars
  BY <1>1 DEF vars, IInv, TypeOK, RetriesTakeTime, ReadInTime, LoopShape, StoppedIsLast,
              IpcpTimerArmed
<1>2. QED
  BY <1>1, CheckDeadlineKeeps, ReadDataKeeps, ReadTimesOutKeeps, ConnectionFailsKeeps,
     ProcessKeeps, TickKeeps DEF Next

-----------------------------------------------------------------------------
\* The inductive invariant: the state is well typed, every retry has taken a
\* read timeout, reads begin before the deadline, an automaton that gave up was
\* the last thing that happened, and IPCP has its timer while it negotiates
\* (negotiate.rs, the whole loop).
THEOREM InductiveInvariant == Spec => []IInv
<1>1. IInv /\ [Next]_vars => IInv'
  BY NextKeeps
<1>2. QED
  BY InitHolds, <1>1, PTL DEF Spec

\* Every variable keeps its type.
THEOREM TypeCorrect == Spec => []TypeOK
<1>1. IInv => TypeOK
  BY DEF IInv
<1>2. QED
  BY <1>1, InductiveInvariant, PTL

\* A negotiation in which an automaton gave up has ended with that failure.
THEOREM StoppedIsLastHolds == Spec => []StoppedIsLast
<1>1. IInv => StoppedIsLast
  BY DEF IInv
<1>2. QED
  BY <1>1, InductiveInvariant, PTL

\* IPCP never negotiates without its retransmission timer.
THEOREM IpcpTimerArmedHolds == Spec => []IpcpTimerArmed
<1>1. IInv => IpcpTimerArmed
  BY DEF IInv
<1>2. QED
  BY <1>1, InductiveInvariant, PTL

\* With a retry limit whose read timeouts add up to the deadline, as 10 * 3 s
\* add up to 30 s, no read timeout ever ends the negotiation with a Shutdown.
THEOREM RetryLimitUnreached == Spec => TimeoutsNeverGiveUp
<1>1. IInv /\ [Next]_vars => [pc = "read" => result' # "shutdown"]_vars
  <2> SUFFICES ASSUME IInv, Next, pc = "read"
               PROVE  result' # "shutdown"
    OBVIOUS
  <2>1. result = "none"
    BY DEF IInv, LoopShape
  <2>2. ~ CheckDeadline /\ ~ Process
    BY DEF CheckDeadline, Process, ReceiveLcp, ReceiveIpcp, AuthSucceeds, FatalPacket,
           ChapChallenge, OtherPacket, TakePacket
  <2>3. CASE ReadData
    BY <2>1, <2>3 DEF ReadData
  <2>4. CASE ReadTimesOut
    BY <2>4, ReadTimesOutKeeps
  <2>5. CASE ConnectionFails
    BY <2>5 DEF ConnectionFails, Fail
  <2>6. CASE Tick
    BY <2>1, <2>6 DEF Tick
  <2>7. QED
    BY <2>2, <2>3, <2>4, <2>5, <2>6 DEF Next
<1>2. QED
  BY <1>1, InductiveInvariant, PTL DEF Spec, TimeoutsNeverGiveUp

-----------------------------------------------------------------------------
(***************************************************************************)
(* A terminated LCP.                                                        *)
(***************************************************************************)
LEMMA InitialStays ==
    ASSUME NEW f \in Fsm, NEW frame \in ControlFrame
    PROVE  /\ f.state = "Initial" => handle_frame(f, frame).fsm.state = "Initial"
           /\ frame.code = "TermReq" /\ handle_frame(f, frame).acts # <<>> =>
                handle_frame(f, frame).fsm.state = "Initial"
<1>1. CASE frame.code = "TermReq"
  <2>1. handle_frame(f, frame) = handle_terminate_request(f, frame)
    BY <1>1 DEF handle_frame
  <2>2. CASE f.state \in Negotiating \cup {"Opened"}
    BY <2>1, <2>2 DEF handle_terminate_request, Result, Fsm
  <2>3. CASE f.state \notin Negotiating \cup {"Opened"}
    BY <2>1, <2>3 DEF handle_terminate_request, Result, Ignore
  <2>4. QED
    BY <2>2, <2>3
<1>2. CASE frame.code # "TermReq" /\ f.state = "Initial"
  <2>1. handle_config_request(f, frame).fsm = f
    BY <1>2 DEF handle_config_request, Ignore, Result
  <2>2. handle_config_ack(f, frame).fsm = f
    BY <1>2 DEF handle_config_ack, Ignore, Result
  <2>3. handle_config_nak_reject(f, frame).fsm = f
    BY <1>2 DEF handle_config_nak_reject, Negotiating, Ignore, Result
  <2>4. handle_terminate_ack(f).fsm = f /\ handle_unknown_code(f).fsm = f
    BY <1>2 DEF handle_terminate_ack, handle_unknown_code, Negotiating, Ignore, Result
  <2>5. QED
    BY <1>2, <2>1, <2>2, <2>3, <2>4 DEF handle_frame, ControlFrame, Codes
<1>3. QED
  BY <1>1, <1>2

LEMMA ContinueUnopened ==
    ASSUME NEW l, NEW i, l.state = "Initial", result # "done", Continue(l, i)
    PROVE  result' # "done"
  BY DEF Continue, is_opened

LEMMA TerminatedDown ==
    Spec => [](terminated => lcp.state = "Initial" /\ result # "done")
<1> DEFINE Down == terminated => lcp.state = "Initial" /\ result # "done"
<1>1. Init => Down
  BY DEF Init
<1>2. IInv /\ Down /\ [Next]_vars => Down'
  <2> SUFFICES ASSUME IInv, Down, [Next]_vars
               PROVE  Down'
    OBVIOUS
  <2>1. lcp \in Fsm /\ terminated \in BOOLEAN
    BY DEF IInv, TypeOK
  <2>2. ASSUME NEW frame \in LcpFrames, ReceiveLcp(frame)
        PROVE  Down'
    <3> DEFINE r == handle_frame(lcp, frame)
    <3>1. frame \in ControlFrame
      BY ServerFrames
    <3>2. terminated' => r.fsm.state = "Initial"
      BY <2>1, <2>2, <3>1, InitialStays DEF ReceiveLcp
    <3> HIDE DEF r
    <3>3. lcp' = r.fsm /\ (Fail("shutdown") \/ Continue(r.fsm, ipcp))
      BY <2>2 DEF ReceiveLcp, r
    <3>4. result = "none"
      BY <2>2 DEF ReceiveLcp, TakePacket, IInv, LoopShape
    <3>5. QED
      BY <3>2, <3>3, <3>4, ContinueUnopened DEF Fail
  <2>3. ASSUME /\ terminated' = terminated /\ lcp' = lcp
               /\ \/ \E i : Continue(lcp, i)
                  \/ \E why \in Failures : result' = why
                  \/ result' = result
        PROVE  Down'
    BY <2>3, ContinueUnopened DEF Failures
  <2>4. ASSUME NEW frame \in IpcpFrames, ReceiveIpcp(frame)
        PROVE  Down'
    BY <2>3, <2>4 DEF ReceiveIpcp, Fail, Failures
  <2>5. CASE AuthSucceeds
    BY <2>3, <2>5 DEF AuthSucceeds
  <2>6. CASE FatalPacket
    BY <2>3, <2>6 DEF FatalPacket, Fail, Failures
  <2>7. CASE ChapChallenge
    BY <2>3, <2>7 DEF ChapChallenge, Fail, Failures
  <2>8. CASE OtherPacket
    BY <2>3, <2>8 DEF OtherPacket
  <2>9. CASE CheckDeadline
    BY <2>3, <2>9 DEF CheckDeadline, Fail, Failures
  <2>10. CASE ReadData \/ Tick
    BY <2>3, <2>10 DEF ReadData, Tick
  <2>11. CASE ConnectionFails
    BY <2>3, <2>11 DEF ConnectionFails, Fail, Failures
  <2>12. CASE ReadTimesOut
    <3>1. lcp.state = "Initial" => Timer(lcp, TRUE).fsm = lcp
      BY DEF Timer, Negotiating, Ignore, Result
    <3>2. lcp' = Timer(lcp, TRUE).fsm /\ terminated' = terminated
      BY <2>12 DEF ReadTimesOut
    <3>3. result' \in {result, "shutdown"}
      BY <2>12 DEF ReadTimesOut, Fail
    <3>4. QED
      BY <3>1, <3>2, <3>3
  <2>13. CASE UNCHANGED vars
    BY <2>13 DEF vars
  <2>14. QED
    BY <2>2, <2>4, <2>5, <2>6, <2>7, <2>8, <2>9, <2>10, <2>11, <2>12, <2>13
       DEF Next, Process
<1> HIDE DEF Down
<1>3. Spec => []Down
  BY <1>1, <1>2, InductiveInvariant, PTL DEF Spec
<1>4. QED
  BY <1>3 DEF Down

\* A negotiation whose LCP the server terminated never succeeds: the automaton
\* stays in Initial, which nothing in the loop opens again.
THEOREM TerminateIsFinalHolds == Spec => []TerminateIsFinal
<1>1. (terminated => lcp.state = "Initial" /\ result # "done") => TerminateIsFinal
  BY DEF TerminateIsFinal
<1>2. QED
  BY <1>1, TerminatedDown, PTL
=============================================================================
