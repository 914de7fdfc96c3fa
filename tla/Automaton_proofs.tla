-------------------------- MODULE Automaton_proofs --------------------------
(***************************************************************************)
(* Theorems of FsmEndpoint, for every option table, retry limit, identifier *)
(* width and peer; and of OptionWalk, for every table and option list: the  *)
(* closed forms that PppFsm gives for the loops over options are what the   *)
(* loops compute.                                                           *)
(***************************************************************************)
EXTENDS FsmEndpoint, OptionWalk, PppFsm_proofs, SequenceTheorems

LEMMA PeerFrameTyped ==
    ASSUME NEW frame \in PeerFrames
    PROVE  frame.code \in Codes /\ frame.id \in Ids /\ frame.opts \in OptionArea
<1>1. <<>> \in OptionArea
  BY DEF OptionArea
<1>2. QED
  BY <1>1, PeerAssumption DEF PeerFrames, Codes

LEMMA InitTyped == Init => fsm \in Fsm
<1>1. Desired \in Seq(Option \cup {NoOption})
  BY TablesAssumption
<1>2. <<>> \in Seq(Option) /\ 0 \in Ids
  BY LimitsAssumption DEF Ids
<1>3. QED
  BY <1>1, <1>2, TablesAssumption DEF Init, new, Fsm, FsmStates

-----------------------------------------------------------------------------
(***************************************************************************)
(* What the observer sees of each list of actions a handler returns.        *)
(***************************************************************************)
LEMMA SeenNothing ==
    \A acts \in {<<>>, <<LayerUp>>} :
        (\A codes : ~ Sends(acts, codes)) /\ ~ GivesUp(acts)
  BY DEF Sends, GivesUp, LayerUp

LEMMA SeenShutdown ==
    (\A codes : ~ Sends(<<Shutdown>>, codes)) /\ GivesUp(<<Shutdown>>)
  BY DEF Sends, GivesUp, Shutdown

LEMMA SeenFrame ==
    ASSUME NEW frame, NEW acts \in {<<SendFrame(frame)>>, <<SendFrame(frame), LayerUp>>}
    PROVE  /\ \A codes : Sends(acts, codes) <=> frame.code \in codes
           /\ ~ GivesUp(acts)
           /\ frame.code = "ConfReq" => RequestId(acts) = frame.id
<1>1. CASE acts = <<SendFrame(frame)>>
  BY <1>1 DEF Sends, GivesUp, SendFrame, RequestId
<1>2. CASE acts = <<SendFrame(frame), LayerUp>>
  <2>1. DOMAIN acts = {1, 2} /\ acts[1] = SendFrame(frame) /\ acts[2] = LayerUp
    BY <1>2
  <2>2. acts[2].act = "LayerUp" /\ acts[1].act = "SendFrame" /\ acts[1].frame = frame
    BY <2>1 DEF SendFrame, LayerUp
  <2>3. QED
    BY <2>1, <2>2 DEF Sends, GivesUp, RequestId
<1>3. QED
  BY <1>1, <1>2

LEMMA SeenReplyAndRequest ==
    ASSUME NEW reply, NEW request, reply.code # "ConfReq", request.code = "ConfReq"
    PROVE  LET acts == <<SendFrame(reply), SendFrame(request)>>
           IN  /\ \A codes : Sends(acts, codes) <=> reply.code \in codes \/ "ConfReq" \in codes
               /\ ~ GivesUp(acts)
               /\ RequestId(acts) = request.id
<1> DEFINE acts == <<SendFrame(reply), SendFrame(request)>>
<1>1. DOMAIN acts = {1, 2} /\ acts[1] = SendFrame(reply) /\ acts[2] = SendFrame(request)
  OBVIOUS
<1>2. /\ acts[1].act = "SendFrame" /\ acts[1].frame = reply
      /\ acts[2].act = "SendFrame" /\ acts[2].frame = request
  BY <1>1 DEF SendFrame
<1> HIDE DEF acts
<1>3. /\ \A codes : Sends(acts, codes) <=> reply.code \in codes \/ "ConfReq" \in codes
      /\ ~ GivesUp(acts)
  BY <1>1, <1>2 DEF Sends, GivesUp
<1>4. (CHOOSE n \in DOMAIN acts : acts[n].act = "SendFrame"
                                  /\ acts[n].frame.code = "ConfReq") = 2
  BY <1>1, <1>2
<1>5. QED
  BY <1>2, <1>3, <1>4 DEF acts, RequestId

LEMMA ObservedTyped ==
    ASSUME NEW h \in History, NEW in, NEW acts,
           in.frame.opts \in OptionArea,
           Sends(acts, {"ConfReq"}) => RequestId(acts) \in Ids
    PROVE  Observe(h, in, acts) \in History
<1> DEFINE o == Observe(h, in, acts)
<1>1. o.reqId \in Ids \cup {NoId}
  BY DEF Observe, History
<1>2. o.ours \in BOOLEAN /\ o.theirs \in BOOLEAN /\ o.unreadable \in BOOLEAN
  BY DEF Observe, History
<1>3. o.acked \in OptionArea /\ o.granted \in OptionArea
  BY DEF Observe, History
<1>4. o.silent \in Nat /\ o.naks \in Nat
  BY DEF Observe, History
<1>5. o = [reqId |-> o.reqId, ours |-> o.ours, theirs |-> o.theirs, acked |-> o.acked,
           granted |-> o.granted, silent |-> o.silent, unreadable |-> o.unreadable,
           naks |-> o.naks]
  BY DEF Observe
<1> HIDE DEF o
<1>6. o \in History
  BY <1>1, <1>2, <1>3, <1>4, <1>5 DEF History
<1>7. QED
  BY <1>6 DEF o

LEMMA ApiTyped == \A event : Api(event).frame.opts \in OptionArea
<1>1. <<>> \in OptionArea
  BY DEF OptionArea
<1>2. QED
  BY <1>1 DEF Api, Frame

-----------------------------------------------------------------------------
(***************************************************************************)
(* The part of the inductive invariant that is about states and counters.   *)
(***************************************************************************)
Control == /\ fsm \in Fsm
           /\ hist \in History
           /\ HandshakeSound
           /\ RequestOpen
           /\ AnsweredResets
           /\ RetryBudget

\* An event that sends nothing, moves between states outside the negotiation
\* and is not an answer leaves the observer's notes alone.
LEMMA UpKeepsControl == Control /\ Up => Control'
<1> SUFFICES ASSUME Control, Up
             PROVE  Control'
  OBVIOUS
<1>1. fsm' \in Fsm
  BY OwnerTyped DEF Control, Up, Step
<1>2. handle_up(fsm).acts = <<>>
  BY DEF handle_up, Result, Ignore
<1>3. hist' = hist
  BY <1>2, SeenNothing DEF Control, Up, Step, Observe, Api, History
<1>4. \/ fsm.state = "Initial" /\ fsm' = [fsm EXCEPT !.state = "Closed"]
      \/ fsm' = fsm
  BY DEF Up, Step, handle_up, Result, Ignore
<1>5. QED
  BY <1>1, <1>3, <1>4
     DEF Control, Fsm, HandshakeSound, RequestOpen, AnsweredResets, RetryBudget,
         Negotiating

LEMMA OpenKeepsControl == Control /\ Open => Control'
<1> SUFFICES ASSUME Control, Open
             PROVE  Control'
  OBVIOUS
<1>1. fsm' \in Fsm
  BY OwnerTyped DEF Control, Open, Step
<1>2. CASE fsm.state = "Initial"
  <2>1. /\ handle_open(fsm).acts = <<LayerUp>>
        /\ fsm' = [fsm EXCEPT !.state = "Closed", !.restart_counter = 0]
    BY <1>2 DEF Open, Step, handle_open, Result
  <2>2. hist' = hist
    BY <2>1, SeenNothing DEF Control, Open, Step, Observe, Api, History
  <2>3. QED
    BY <1>1, <1>2, <2>1, <2>2
       DEF Control, Fsm, HandshakeSound, RequestOpen, AnsweredResets, RetryBudget,
           Negotiating
<1>3. CASE fsm.state = "Closed"
  <2> DEFINE request == build_config_request(fsm)
  <2>1. /\ handle_open(fsm).acts = <<SendFrame(request)>>
        /\ fsm' = [Requesting(fsm) EXCEPT !.state = "ReqSent", !.restart_counter = 0]
    BY <1>3 DEF Open, Step, handle_open, Result
  <2>2. request.code = "ConfReq" /\ request.id = next_identifier(fsm)
    BY DEF build_config_request, Frame
  <2> HIDE DEF request
  <2>3. /\ Sends(handle_open(fsm).acts, {"ConfReq"})
        /\ ~ Sends(handle_open(fsm).acts, {"ConfAck"})
        /\ RequestId(handle_open(fsm).acts) = next_identifier(fsm)
    BY <2>1, <2>2, SeenFrame
  <2>31. /\ hist'.reqId = next_identifier(fsm) /\ hist'.ours = FALSE
         /\ hist'.theirs = FALSE /\ hist'.silent = 0
    BY <1>3, <2>3 DEF Control, HandshakeSound, Open, Step, Observe, Api
  <2>4. /\ fsm'.state = "ReqSent" /\ fsm'.restart_counter = 0
        /\ fsm'.current_request_id = next_identifier(fsm)
    BY <2>1 DEF Control, Fsm, Requesting
  <2>5. hist' \in History
    BY <2>3, IdTyped, ApiTyped, ObservedTyped DEF Control, Open, Step
  <2>6. QED
    BY <1>1, <1>3, <2>31, <2>4, <2>5, LimitsAssumption
       DEF Control, History, HandshakeSound, RequestOpen, AnsweredResets, RetryBudget,
           Negotiating
<1>4. CASE fsm.state \notin {"Initial", "Closed"}
  <2>1. handle_open(fsm) = Ignore(fsm)
    BY <1>4 DEF handle_open
  <2>2. fsm' = fsm /\ hist' = hist
    BY <2>1, SeenNothing DEF Control, Open, Step, Ignore, Result, Observe, Api, History
  <2>3. QED
    BY <2>2
       DEF Control, HandshakeSound, RequestOpen, AnsweredResets, RetryBudget
<1>5. QED
  BY <1>2, <1>3, <1>4

LEMMA CloseKeepsControl == Control /\ Close => Control'
<1> SUFFICES ASSUME Control, Close
             PROVE  Control'
  OBVIOUS
<1>1. fsm' \in Fsm
  BY OwnerTyped DEF Control, Close, Step
<1>2. CASE fsm.state = "Opened"
  <2> DEFINE farewell == Frame("TermReq", next_identifier(fsm), <<>>)
  <2>1. /\ handle_close(fsm).acts = <<SendFrame(farewell)>>
        /\ fsm' = [fsm EXCEPT !.state = "Closing", !.restart_counter = 0,
                              !.identifier = next_identifier(fsm)]
    BY <1>2 DEF Close, Step, handle_close, Result
  <2>2. farewell.code \in {"TermReq", "TermAck"} /\ farewell.code \notin {"ConfReq"}
    BY DEF Frame
  <2> HIDE DEF farewell
  <2>3. /\ ~ Sends(handle_close(fsm).acts, {"ConfReq"})
        /\ Sends(handle_close(fsm).acts, {"TermReq", "TermAck"})
    <3>1. \A codes : Sends(handle_close(fsm).acts, codes) <=> farewell.code \in codes
      BY <2>1, SeenFrame
    <3>2. QED
      BY <2>2, <3>1
  <2>31. hist'.reqId = NoId /\ hist'.ours = FALSE /\ hist'.theirs = FALSE
    BY <2>3 DEF Close, Step, Observe
  <2>4. fsm'.state = "Closing" /\ fsm'.restart_counter = 0
    BY <2>1 DEF Control, Fsm
  <2>5. hist' \in History
    BY <2>3, ApiTyped, ObservedTyped DEF Control, Close, Step
  <2>6. QED
    BY <1>1, <2>31, <2>4, <2>5
       DEF Control, History, HandshakeSound, RequestOpen, AnsweredResets, RetryBudget,
           Negotiating
<1>3. CASE fsm.state # "Opened"
  <2>1. handle_close(fsm) = Ignore(fsm)
    BY <1>3 DEF handle_close
  <2>2. fsm' = fsm /\ hist' = hist
    BY <2>1, SeenNothing DEF Control, Close, Step, Ignore, Result, Observe, Api, History
  <2>3. QED
    BY <2>2
       DEF Control, HandshakeSound, RequestOpen, AnsweredResets, RetryBudget
<1>4. QED
  BY <1>2, <1>3

LEMMA TimeoutKeepsControl == Control /\ Timeout => Control'
<1> SUFFICES ASSUME Control, Timeout
             PROVE  Control'
  OBVIOUS
<1>1. fsm' \in Fsm
  BY OwnerTyped DEF Control, Timeout, Step
<1>2. CASE fsm.state \in Negotiating /\ fsm.restart_counter < RestartLimit
  <2> DEFINE request == build_config_request(fsm)
             g == Requesting(fsm)
  <2>1. /\ handle_timeout(fsm).acts = <<SendFrame(request)>>
        /\ fsm' = [g EXCEPT !.restart_counter = @ + 1,
                            !.state = IF @ = "AckSent" THEN "AckSent" ELSE "ReqSent"]
    BY <1>2 DEF Timeout, Step, handle_timeout, Result
  <2>2. request.code = "ConfReq" /\ request.id = next_identifier(fsm)
    BY DEF build_config_request, Frame
  <2>3. /\ g \in Fsm /\ g.state = fsm.state
        /\ g.restart_counter = fsm.restart_counter
        /\ g.current_request_id = next_identifier(fsm)
    BY RequestingTyped DEF Control, Requesting, Fsm
  <2> HIDE DEF request, g
  <2>31. /\ Sends(handle_timeout(fsm).acts, {"ConfReq"})
         /\ ~ Sends(handle_timeout(fsm).acts, {"TermReq", "TermAck"})
         /\ ~ Sends(handle_timeout(fsm).acts, {"ConfAck"})
         /\ ~ Sends(handle_timeout(fsm).acts, {"ConfNak", "ConfRej"})
         /\ ~ GivesUp(handle_timeout(fsm).acts)
         /\ RequestId(handle_timeout(fsm).acts) = next_identifier(fsm)
    BY <2>1, <2>2, SeenFrame
  <2>4. /\ hist'.reqId = next_identifier(fsm) /\ hist'.ours = FALSE
        /\ hist'.theirs = hist.theirs /\ hist'.silent = hist.silent + 1
        /\ hist'.unreadable = hist.unreadable
    BY <2>31 DEF Control, Timeout, Step, Observe, Api, History
  <2>5. /\ fsm'.state = IF fsm.state = "AckSent" THEN "AckSent" ELSE "ReqSent"
        /\ fsm'.restart_counter = fsm.restart_counter + 1
        /\ fsm'.current_request_id = next_identifier(fsm)
    BY <2>1, <2>3 DEF Fsm
  <2>6. hist' \in History
    BY <2>31, IdTyped, ApiTyped, ObservedTyped DEF Control, Timeout, Step
  <2>7. hist.silent \in Nat /\ fsm.restart_counter = hist.silent
    BY <1>2 DEF Control, RetryBudget, History
  <2>8. HandshakeSound' /\ RequestOpen' /\ AnsweredResets'
    BY <1>2, <2>4, <2>5 DEF Control, History, HandshakeSound, RequestOpen,
                            AnsweredResets, Negotiating
  <2>9. RetryBudget'
    BY <1>2, <2>4, <2>5, <2>7, LimitsAssumption
       DEF Control, History, RetryBudget, Negotiating
  <2>10. QED
    BY <1>1, <2>6, <2>8, <2>9 DEF Control
<1>3. CASE fsm.state \in Negotiating /\ ~ (fsm.restart_counter < RestartLimit)
  <2>1. /\ handle_timeout(fsm).acts = <<Shutdown>>
        /\ fsm' = [fsm EXCEPT !.restart_counter = @ + 1, !.state = "Stopped"]
    BY <1>3 DEF Timeout, Step, handle_timeout, Result
  <2>21. /\ ~ Sends(handle_timeout(fsm).acts, {"ConfReq"})
         /\ GivesUp(handle_timeout(fsm).acts)
    BY <2>1, SeenShutdown
  <2>2. /\ hist'.reqId = NoId /\ hist'.ours = FALSE /\ hist'.theirs = FALSE
        /\ hist'.silent = hist.silent + 1
    BY <2>21 DEF Timeout, Step, Observe, Api
  <2>3. fsm'.state = "Stopped"
    BY <2>1 DEF Control, Fsm
  <2>4. hist' \in History
    BY <2>21, ApiTyped, ObservedTyped DEF Control, Timeout, Step
  <2>5. hist.silent = RestartLimit
    BY <1>3, LimitsAssumption DEF Control, RetryBudget, History
  <2>6. QED
    BY <1>1, <2>2, <2>3, <2>4, <2>5
       DEF Control, History, HandshakeSound, RequestOpen, AnsweredResets, RetryBudget,
           Negotiating
<1>4. CASE fsm.state \notin Negotiating
  <2>1. handle_timeout(fsm) = Ignore(fsm)
    BY <1>4 DEF handle_timeout
  <2>2. fsm' = fsm /\ hist' = hist
    BY <2>1, SeenNothing DEF Control, Timeout, Step, Ignore, Result, Observe, Api, History
  <2>3. QED
    BY <2>2
       DEF Control, HandshakeSound, RequestOpen, AnsweredResets, RetryBudget
<1>5. QED
  BY <1>2, <1>3, <1>4

\* A frame the automaton ignores: the observer may take note of an answer, but
\* only one that repeats what was already answered.
LEMMA IgnoredKeepsControl ==
    ASSUME Control, NEW frame \in PeerFrames, Receive(frame),
           handle_frame(fsm, frame) = Ignore(fsm),
           \/ frame.code \notin {"ConfAck", "ConfNak", "ConfRej"}
           \/ frame.id # fsm.current_request_id
           \/ fsm.state \notin Negotiating
           \/ fsm.state = "AckRecvd" /\ frame.code = "ConfAck"
    PROVE  Control'
<1> DEFINE acts == handle_frame(fsm, frame).acts
<1>1. fsm' = fsm /\ acts = <<>>
  BY DEF Receive, Step, Ignore, Result
<1>2. (\A codes : ~ Sends(acts, codes)) /\ ~ GivesUp(acts)
  BY <1>1, SeenNothing
<1>3. hist' = Observe(hist, Received(frame), acts)
  BY DEF Receive, Step
<1> HIDE DEF acts
<1>4. hist' \in History
  BY <1>2, <1>3, PeerFrameTyped, ObservedTyped DEF Control, Received
<1>5. frame.id \in Ids /\ frame.id # NoId
  BY PeerFrameTyped, LimitsAssumption DEF Ids, NoId
<1>6. hist'.reqId = hist.reqId /\ hist'.theirs = hist.theirs
  BY <1>2, <1>3 DEF Observe, Control, History
<1>7. CASE frame.code \in {"ConfAck", "ConfNak", "ConfRej"} /\ frame.id = hist.reqId
  <2>1. /\ fsm.state \in {"AckRecvd", "Opened"} /\ hist.ours
        /\ fsm.restart_counter = 0
    BY <1>5, <1>7
       DEF Control, RequestOpen, HandshakeSound, AnsweredResets, Negotiating
  <2>2. hist'.ours = TRUE /\ hist'.silent = 0
    BY <1>2, <1>3, <1>7, <2>1 DEF Observe, Received, Control, History
  <2>3. QED
    BY <1>1, <1>4, <1>6, <2>1, <2>2, LimitsAssumption
       DEF Control, HandshakeSound, RequestOpen, AnsweredResets, RetryBudget
<1>8. CASE ~ (frame.code \in {"ConfAck", "ConfNak", "ConfRej"} /\ frame.id = hist.reqId)
  <2>1. /\ hist'.ours = hist.ours /\ hist'.silent = hist.silent
        /\ hist'.unreadable = hist.unreadable
    BY <1>2, <1>3, <1>8 DEF Observe, Received, Control, History
  <2>2. QED
    BY <1>1, <1>4, <1>6, <2>1
       DEF Control, HandshakeSound, RequestOpen, AnsweredResets, RetryBudget
<1>9. QED
  BY <1>7, <1>8

LEMMA ConfigRequestKeepsControl ==
    ASSUME Control, NEW frame \in PeerFrames, Receive(frame), frame.code = "ConfReq"
    PROVE  Control'
<1> DEFINE acts  == handle_frame(fsm, frame).acts
           reply == Reply(fsm, frame)
           ok    == Accepts(fsm, frame)
           g     == [fsm EXCEPT
                        !.tried  = TriedAfter(fsm, frame.opts),
                        !.remote = IF Accepts(fsm, frame) THEN frame.opts ELSE @,
                        !.state  = AfterRequest(@, Accepts(fsm, frame))]
<1>1. /\ handle_frame(fsm, frame) = handle_config_request(fsm, frame)
      /\ fsm' = handle_config_request(fsm, frame).fsm
      /\ hist' = Observe(hist, Received(frame), acts)
  BY DEF Receive, Step, handle_frame
<1>2. fsm' \in Fsm
  BY <1>1, PeerFrameTyped, ConfigRequestTyped DEF Control
<1>3. /\ g.state = AfterRequest(fsm.state, ok)
      /\ g.restart_counter = fsm.restart_counter
      /\ g.current_request_id = fsm.current_request_id
      /\ g.identifier = fsm.identifier
      /\ g = [g EXCEPT !.state = g.state]
  BY DEF Control, Fsm
<1>4. /\ ok => reply.code = "ConfAck"
      /\ ~ ok => reply.code \in {"ConfNak", "ConfRej"}
  BY ReplyShape
<1>5. CASE fsm.state = "Opened"
  <2> DEFINE request == build_config_request(g)
  <2>1. acts = <<SendFrame(reply), SendFrame(request)>> /\ fsm' = Requesting(g)
    BY <1>1, <1>5 DEF handle_config_request, Result
  <2>2. request.code = "ConfReq" /\ request.id = next_identifier(fsm)
    BY <1>3 DEF build_config_request, Frame, next_identifier
  <2>3. /\ fsm'.state = AfterRequest(fsm.state, ok)
        /\ fsm'.restart_counter = fsm.restart_counter
        /\ fsm'.current_request_id = next_identifier(fsm)
    BY <1>3, <2>1 DEF Requesting, next_identifier, Control, Fsm
  <2> HIDE DEF acts, reply, request, ok, g
  <2>4. /\ \A codes : Sends(acts, codes) <=> reply.code \in codes \/ "ConfReq" \in codes
        /\ ~ GivesUp(acts)
        /\ RequestId(acts) = next_identifier(fsm)
    BY <1>4, <2>1, <2>2, SeenReplyAndRequest
  <2>5. /\ Sends(acts, {"ConfReq"}) /\ ~ Sends(acts, {"TermReq", "TermAck"})
        /\ ok => Sends(acts, {"ConfAck"}) /\ ~ Sends(acts, {"ConfNak", "ConfRej"})
        /\ ~ ok => ~ Sends(acts, {"ConfAck"}) /\ Sends(acts, {"ConfNak", "ConfRej"})
    BY <1>4, <2>4
  <2>6. /\ hist'.reqId = next_identifier(fsm) /\ hist'.ours = FALSE
        /\ hist'.theirs <=> ok
        /\ hist'.silent = 0 /\ hist'.unreadable = hist.unreadable
    BY <1>1, <2>4, <2>5 DEF Observe, Received, Control, History
  <2>7. hist' \in History
    BY <1>1, <2>4, IdTyped, PeerFrameTyped, ObservedTyped DEF Control, Received
  <2>8. QED
    BY <1>2, <1>5, <2>3, <2>6, <2>7, LimitsAssumption
       DEF AfterRequest, Control, HandshakeSound, RequestOpen, AnsweredResets, RetryBudget,
           Negotiating
<1>6. CASE fsm.state \in Negotiating
  <2>1. /\ acts \in {<<SendFrame(reply)>>, <<SendFrame(reply), LayerUp>>}
        /\ fsm' = g
    <3>1. CASE fsm.state = "AckRecvd" /\ ok
      BY <1>1, <3>1 DEF handle_config_request, Result
    <3>2. CASE fsm.state = "AckRecvd" /\ ~ ok
      BY <1>1, <3>2 DEF handle_config_request, Result
    <3>3. CASE fsm.state \in {"ReqSent", "AckSent"}
      BY <1>1, <3>3 DEF handle_config_request, Result
    <3>4. QED
      BY <1>6, <3>1, <3>2, <3>3 DEF Negotiating
  <2> HIDE DEF acts, reply, ok, g
  <2>2. /\ \A codes : Sends(acts, codes) <=> reply.code \in codes
        /\ ~ GivesUp(acts)
    BY <2>1, SeenFrame
  <2>3. /\ ~ Sends(acts, {"ConfReq"}) /\ ~ Sends(acts, {"TermReq", "TermAck"})
        /\ ok => Sends(acts, {"ConfAck"}) /\ ~ Sends(acts, {"ConfNak", "ConfRej"})
        /\ ~ ok => ~ Sends(acts, {"ConfAck"}) /\ Sends(acts, {"ConfNak", "ConfRej"})
    BY <1>4, <2>2
  <2>4. /\ hist'.reqId = hist.reqId /\ hist'.ours = hist.ours
        /\ hist'.theirs <=> ok
        /\ hist'.silent = hist.silent /\ hist'.unreadable = hist.unreadable
    BY <1>1, <2>2, <2>3 DEF Observe, Received, Control, History
  <2>5. hist' \in History
    BY <1>1, <2>3, PeerFrameTyped, ObservedTyped DEF Control, Received
  <2>6. QED
    BY <1>2, <1>3, <1>6, <2>1, <2>4, <2>5
       DEF AfterRequest, Control, HandshakeSound, RequestOpen, AnsweredResets, RetryBudget,
           Negotiating
<1>7. CASE fsm.state \notin Negotiating \cup {"Opened"}
  BY <1>1, <1>7, IgnoredKeepsControl DEF handle_config_request, Negotiating
<1>8. QED
  BY <1>5, <1>6, <1>7

LEMMA ConfigAckKeepsControl ==
    ASSUME Control, NEW frame \in PeerFrames, Receive(frame), frame.code = "ConfAck"
    PROVE  Control'
<1> DEFINE acts == handle_frame(fsm, frame).acts
           g    == [fsm EXCEPT !.local = finalize_local_options(fsm, frame),
                               !.restart_counter = 0]
<1>1. /\ handle_frame(fsm, frame) = handle_config_ack(fsm, frame)
      /\ fsm' = handle_config_ack(fsm, frame).fsm
      /\ hist' = Observe(hist, Received(frame), acts)
  BY DEF Receive, Step, handle_frame
<1>2. fsm' \in Fsm
  BY <1>1, PeerFrameTyped, ConfigAckTyped DEF Control
<1>3. /\ g.restart_counter = 0
      /\ g.current_request_id = fsm.current_request_id
      /\ \A s : /\ [g EXCEPT !.state = s].state = s
                /\ [g EXCEPT !.state = s].restart_counter = g.restart_counter
                /\ [g EXCEPT !.state = s].current_request_id = g.current_request_id
  BY DEF Control, Fsm
<1>4. CASE frame.id = fsm.current_request_id /\ fsm.state \in {"ReqSent", "AckSent"}
  <2>1. /\ acts \in {<<>>, <<LayerUp>>}
        /\ fsm' = [g EXCEPT !.state =
                      IF fsm.state = "ReqSent" THEN "AckRecvd" ELSE "Opened"]
    <3>1. CASE fsm.state = "ReqSent"
      BY <1>1, <1>4, <3>1 DEF handle_config_ack, Result
    <3>2. CASE fsm.state = "AckSent"
      BY <1>1, <1>4, <3>2 DEF handle_config_ack, Result
    <3>3. QED
      BY <1>4, <3>1, <3>2
  <2>2. /\ fsm'.state = IF fsm.state = "ReqSent" THEN "AckRecvd" ELSE "Opened"
        /\ fsm'.restart_counter = 0
        /\ fsm'.current_request_id = fsm.current_request_id
    BY <1>3, <2>1
  <2> HIDE DEF acts, g
  <2>3. (\A codes : ~ Sends(acts, codes)) /\ ~ GivesUp(acts)
    BY <2>1, SeenNothing
  <2>4. frame.id = hist.reqId
    BY <1>4 DEF Control, RequestOpen, Negotiating
  <2>5. /\ hist'.reqId = hist.reqId /\ hist'.ours = TRUE
        /\ hist'.theirs = hist.theirs /\ hist'.silent = 0
    BY <1>1, <2>3, <2>4 DEF Observe, Received, Control, History
  <2>6. hist' \in History
    BY <1>1, <2>3, PeerFrameTyped, ObservedTyped DEF Control, Received
  <2>7. QED
    BY <1>2, <1>4, <2>2, <2>5, <2>6, LimitsAssumption
       DEF Control, HandshakeSound, RequestOpen, AnsweredResets, RetryBudget,
           Negotiating
<1>5. CASE ~ (frame.id = fsm.current_request_id /\ fsm.state \in {"ReqSent", "AckSent"})
  <2>1. handle_config_ack(fsm, frame) = Ignore(fsm)
    BY <1>5 DEF handle_config_ack
  <2>2. QED
    BY <1>1, <1>5, <2>1, IgnoredKeepsControl DEF Negotiating
<1>6. QED
  BY <1>4, <1>5

LEMMA ConfigNakRejectKeepsControl ==
    ASSUME Control, NEW frame \in PeerFrames, Receive(frame),
           frame.code \in {"ConfNak", "ConfRej"}
    PROVE  Control'
<1> DEFINE acts == handle_frame(fsm, frame).acts
           g    == [fsm EXCEPT
                       !.restart_counter = 0,
                       !.desired = update_desired_local_options(@, frame),
                       !.state   = IF @ = "AckSent" THEN "AckSent" ELSE "ReqSent"]
<1>1. /\ handle_frame(fsm, frame) = handle_config_nak_reject(fsm, frame)
      /\ fsm' = handle_config_nak_reject(fsm, frame).fsm
      /\ hist' = Observe(hist, Received(frame), acts)
  BY DEF Receive, Step, handle_frame
<1>2. fsm' \in Fsm
  BY <1>1, PeerFrameTyped, ConfigNakRejectTyped DEF Control
<1>3. CASE \/ frame.id # fsm.current_request_id
           \/ fsm.state \notin Negotiating
  <2>1. handle_config_nak_reject(fsm, frame) = Ignore(fsm)
    BY <1>3 DEF handle_config_nak_reject
  <2>2. QED
    BY <1>1, <1>3, <2>1, IgnoredKeepsControl
<1>4. CASE /\ frame.id = fsm.current_request_id
           /\ fsm.state \in Negotiating
           /\ frame.opts = Malformed
  <2>1. /\ acts = <<Shutdown>>
        /\ fsm' = [fsm EXCEPT !.restart_counter = 0, !.state = "Stopped"]
    BY <1>1, <1>4 DEF handle_config_nak_reject, Result
  <2>2. fsm'.state = "Stopped"
    BY <2>1 DEF Control, Fsm
  <2> HIDE DEF acts
  <2>3. ~ Sends(acts, {"ConfReq"}) /\ GivesUp(acts)
    BY <2>1, SeenShutdown
  <2>4. frame.id = hist.reqId
    BY <1>4 DEF Control, RequestOpen
  <2>5. /\ hist'.reqId = NoId /\ hist'.ours = FALSE /\ hist'.theirs = FALSE
        /\ hist'.unreadable = TRUE
    BY <1>1, <1>4, <2>3, <2>4 DEF Observe, Received, Control, History
  <2>6. hist' \in History
    BY <1>1, <2>3, PeerFrameTyped, ObservedTyped DEF Control, Received
  <2>7. QED
    BY <1>2, <2>2, <2>5, <2>6
       DEF Control, HandshakeSound, RequestOpen, AnsweredResets, RetryBudget,
           Negotiating
<1>5. CASE /\ frame.id = fsm.current_request_id
           /\ fsm.state \in Negotiating
           /\ frame.opts # Malformed
  <2> DEFINE request == build_config_request(g)
  <2>1. acts = <<SendFrame(request)>> /\ fsm' = Requesting(g)
    BY <1>1, <1>5 DEF handle_config_nak_reject, Result
  <2>2. /\ g.state = IF fsm.state = "AckSent" THEN "AckSent" ELSE "ReqSent"
        /\ g.restart_counter = 0
        /\ g.identifier = fsm.identifier
        /\ g = [g EXCEPT !.state = g.state]
    BY DEF Control, Fsm
  <2>3. request.code = "ConfReq" /\ request.id = next_identifier(fsm)
    BY <2>2 DEF build_config_request, Frame, next_identifier
  <2>4. /\ fsm'.state = IF fsm.state = "AckSent" THEN "AckSent" ELSE "ReqSent"
        /\ fsm'.restart_counter = 0
        /\ fsm'.current_request_id = next_identifier(fsm)
    BY <2>1, <2>2 DEF Requesting, next_identifier, Control, Fsm
  <2> HIDE DEF acts, request, g
  <2>5. /\ Sends(acts, {"ConfReq"}) /\ ~ Sends(acts, {"TermReq", "TermAck"})
        /\ ~ Sends(acts, {"ConfAck"}) /\ ~ Sends(acts, {"ConfNak", "ConfRej"})
        /\ ~ GivesUp(acts) /\ RequestId(acts) = next_identifier(fsm)
    BY <2>1, <2>3, SeenFrame
  <2>6. /\ hist'.reqId = next_identifier(fsm) /\ hist'.ours = FALSE
        /\ hist'.theirs = hist.theirs /\ hist'.silent = 0
    BY <1>1, <2>5 DEF Observe, Received, Control, History
  <2>7. hist' \in History
    BY <1>1, <2>5, IdTyped, PeerFrameTyped, ObservedTyped DEF Control, Received
  <2>8. QED
    BY <1>2, <1>5, <2>4, <2>6, <2>7, LimitsAssumption
       DEF Control, HandshakeSound, RequestOpen, AnsweredResets, RetryBudget,
           Negotiating
<1>6. QED
  BY <1>3, <1>4, <1>5

LEMMA TerminateRequestKeepsControl ==
    ASSUME Control, NEW frame \in PeerFrames, Receive(frame), frame.code = "TermReq"
    PROVE  Control'
<1> DEFINE acts == handle_frame(fsm, frame).acts
           ack  == Frame("TermAck", frame.id, <<>>)
<1>1. /\ handle_frame(fsm, frame) = handle_terminate_request(fsm, frame)
      /\ fsm' = handle_terminate_request(fsm, frame).fsm
      /\ hist' = Observe(hist, Received(frame), acts)
  BY DEF Receive, Step, handle_frame
<1>2. fsm' \in Fsm
  BY PeerFrameTyped, FrameTyped DEF Control, Receive, Step
<1>3. CASE fsm.state \in Negotiating \cup {"Opened"}
  <2>1. acts = <<SendFrame(ack)>> /\ fsm' = [fsm EXCEPT !.state = "Initial"]
    BY <1>1, <1>3 DEF handle_terminate_request, Result
  <2>2. ack.code \in {"TermReq", "TermAck"} /\ ack.code \notin {"ConfReq"}
    BY DEF Frame
  <2>3. fsm'.state = "Initial"
    BY <2>1 DEF Control, Fsm
  <2> HIDE DEF acts, ack
  <2>4. \A codes : Sends(acts, codes) <=> ack.code \in codes
    BY <2>1, SeenFrame
  <2>5. ~ Sends(acts, {"ConfReq"}) /\ Sends(acts, {"TermReq", "TermAck"})
    BY <2>2, <2>4
  <2>6. hist'.reqId = NoId /\ hist'.ours = FALSE /\ hist'.theirs = FALSE
    BY <1>1, <2>5 DEF Observe
  <2>7. hist' \in History
    BY <1>1, <2>5, PeerFrameTyped, ObservedTyped DEF Control, Received
  <2>8. QED
    BY <1>2, <2>3, <2>6, <2>7
       DEF Control, HandshakeSound, RequestOpen, AnsweredResets, RetryBudget,
           Negotiating
<1>4. CASE fsm.state \notin Negotiating \cup {"Opened"}
  BY <1>1, <1>4, IgnoredKeepsControl DEF handle_terminate_request
<1>5. QED
  BY <1>3, <1>4

LEMMA TerminateAckKeepsControl ==
    ASSUME Control, NEW frame \in PeerFrames, Receive(frame), frame.code = "TermAck"
    PROVE  Control'
<1> DEFINE acts == handle_frame(fsm, frame).acts
<1>1. /\ handle_frame(fsm, frame) = handle_terminate_ack(fsm)
      /\ fsm' = handle_terminate_ack(fsm).fsm
      /\ hist' = Observe(hist, Received(frame), acts)
  BY DEF Receive, Step, handle_frame
<1>2. fsm' \in Fsm
  BY PeerFrameTyped, FrameTyped DEF Control, Receive, Step
<1>3. CASE fsm.state = "Closing"
  <2>1. acts = <<>> /\ fsm' = [fsm EXCEPT !.state = "Closed"]
    BY <1>1, <1>3 DEF handle_terminate_ack, Result
  <2>2. fsm'.state = "Closed"
    BY <2>1 DEF Control, Fsm
  <2> HIDE DEF acts
  <2>3. (\A codes : ~ Sends(acts, codes)) /\ ~ GivesUp(acts)
    BY <2>1, SeenNothing
  <2>4. /\ hist'.reqId = hist.reqId /\ hist'.ours = hist.ours
        /\ hist'.theirs = hist.theirs
    BY <1>1, <2>3 DEF Observe, Received, Control, History
  <2>5. hist' \in History
    BY <1>1, <2>3, PeerFrameTyped, ObservedTyped DEF Control, Received
  <2>6. QED
    BY <1>2, <1>3, <2>2, <2>4, <2>5
       DEF Control, HandshakeSound, RequestOpen, AnsweredResets, RetryBudget,
           Negotiating
<1>4. CASE fsm.state # "Closing"
  BY <1>1, <1>4, IgnoredKeepsControl DEF handle_terminate_ack
<1>5. QED
  BY <1>3, <1>4

LEMMA UnknownCodeKeepsControl ==
    ASSUME Control, NEW frame \in PeerFrames, Receive(frame), frame.code = "OtherCode"
    PROVE  Control'
<1> DEFINE acts   == handle_frame(fsm, frame).acts
           reject == Frame("OtherCode", next_identifier(fsm), <<>>)
<1>1. /\ handle_frame(fsm, frame) = handle_unknown_code(fsm)
      /\ fsm' = handle_unknown_code(fsm).fsm
      /\ hist' = Observe(hist, Received(frame), acts)
  BY DEF Receive, Step, handle_frame
<1>2. fsm' \in Fsm
  BY PeerFrameTyped, FrameTyped DEF Control, Receive, Step
<1>3. CASE fsm.state \in Negotiating
  <2>1. /\ acts = <<SendFrame(reject)>>
        /\ fsm' = [fsm EXCEPT !.identifier = next_identifier(fsm)]
    BY <1>1, <1>3 DEF handle_unknown_code, Result
  <2>2. reject.code = "OtherCode"
    BY DEF Frame
  <2>3. /\ fsm'.state = fsm.state /\ fsm'.restart_counter = fsm.restart_counter
        /\ fsm'.current_request_id = fsm.current_request_id
    BY <2>1 DEF Control, Fsm
  <2> HIDE DEF acts, reject
  <2>4. /\ ~ Sends(acts, {"ConfReq"}) /\ ~ Sends(acts, {"TermReq", "TermAck"})
        /\ ~ Sends(acts, {"ConfAck"}) /\ ~ Sends(acts, {"ConfNak", "ConfRej"})
        /\ ~ GivesUp(acts)
    BY <2>1, <2>2, SeenFrame
  <2>5. /\ hist'.reqId = hist.reqId /\ hist'.ours = hist.ours
        /\ hist'.theirs = hist.theirs /\ hist'.silent = hist.silent
        /\ hist'.unreadable = hist.unreadable
    BY <1>1, <2>4 DEF Observe, Received, Control, History
  <2>6. hist' \in History
    BY <1>1, <2>4, PeerFrameTyped, ObservedTyped DEF Control, Received
  <2>7. QED
    BY <1>2, <2>3, <2>5, <2>6
       DEF Control, HandshakeSound, RequestOpen, AnsweredResets, RetryBudget
<1>4. CASE fsm.state \notin Negotiating
  BY <1>1, <1>4, IgnoredKeepsControl DEF handle_unknown_code
<1>5. QED
  BY <1>3, <1>4

LEMMA InitControl == Init => Control
<1>1. <<>> \in OptionArea
  BY DEF OptionArea
<1>2. NoHistory \in History
  BY <1>1 DEF NoHistory, History
<1>3. QED
  BY <1>2, InitTyped, LimitsAssumption
     DEF Init, new, NoHistory, Control, HandshakeSound, RequestOpen, AnsweredResets,
         RetryBudget, Negotiating

LEMMA NextKeepsControl == Control /\ [Next]_vars => Control'
<1> SUFFICES ASSUME Control, [Next]_vars
             PROVE  Control'
  OBVIOUS
<1>1. CASE Up
  BY <1>1, UpKeepsControl
<1>2. CASE Open
  BY <1>2, OpenKeepsControl
<1>3. CASE Close
  BY <1>3, CloseKeepsControl
<1>4. CASE Timeout
  BY <1>4, TimeoutKeepsControl
<1>5. ASSUME NEW frame \in PeerFrames, Receive(frame)
      PROVE  Control'
  BY <1>5, PeerFrameTyped, ConfigRequestKeepsControl, ConfigAckKeepsControl,
     ConfigNakRejectKeepsControl, TerminateRequestKeepsControl,
     TerminateAckKeepsControl, UnknownCodeKeepsControl DEF Codes
<1>6. CASE UNCHANGED vars
  BY <1>6 DEF vars, Control, HandshakeSound, RequestOpen, AnsweredResets, RetryBudget
<1>7. QED
  BY <1>1, <1>2, <1>3, <1>4, <1>5, <1>6 DEF Next

LEMMA ControlInvariant == Spec => []Control
  BY InitControl, NextKeepsControl, PTL DEF Spec

\* The automaton and the observer's notes stay in their types, whatever the
\* peer sends (every field fsm.rs writes).
THEOREM TypeCorrect == Spec => []TypeOK
<1>1. Control => TypeOK
  BY DEF Control, TypeOK
<1>2. QED
  BY <1>1, ControlInvariant, PTL

\* The states AckRecvd, AckSent and Opened say the truth about the handshake,
\* for every table, identifier width and peer.
THEOREM HandshakeIsSound == Spec => []HandshakeSound
<1>1. Control => HandshakeSound
  BY DEF Control
<1>2. QED
  BY <1>1, ControlInvariant, PTL

\* Only silence spends the retry budget, for every PPP_RESTART_LIMIT.
THEOREM RetryBudgetHolds == Spec => []RetryBudget
<1>1. Control => RetryBudget
  BY DEF Control
<1>2. QED
  BY <1>1, ControlInvariant, PTL

-----------------------------------------------------------------------------
(***************************************************************************)
(* Only a Config-Request of the peer changes what we granted and offered.   *)
(***************************************************************************)
SameTables(g, f) ==
    g.acceptable = f.acceptable /\ g.desired_remote = f.desired_remote

GrantsNothing(f, r) ==
    /\ r.fsm.remote = f.remote
    /\ r.fsm.tried = f.tried
    /\ SameTables(r.fsm, f)
    /\ ~ Sends(r.acts, {"ConfAck"})
    /\ ~ Sends(r.acts, {"ConfNak"})

LEMMA IgnoreGrantsNothing == \A f : GrantsNothing(f, Ignore(f))
  BY SeenNothing DEF GrantsNothing, SameTables, Ignore, Result

LEMMA FrameGrantsNothing ==
    ASSUME NEW f, NEW g, NEW frame, g.remote = f.remote, g.tried = f.tried,
           SameTables(g, f),
           frame.code \notin {"ConfAck", "ConfNak"}
    PROVE  GrantsNothing(f, Result(g, <<SendFrame(frame)>>))
<1>1. \A codes : Sends(<<SendFrame(frame)>>, codes) <=> frame.code \in codes
  BY SeenFrame
<1>2. QED
  BY <1>1 DEF GrantsNothing, Result

LEMMA RequestCode == \A f : build_config_request(f).code = "ConfReq"
  BY DEF build_config_request, Frame

LEMMA OwnerGrantsNothing ==
    ASSUME NEW f \in Fsm
    PROVE  /\ GrantsNothing(f, handle_up(f)) /\ handle_up(f).fsm.local = f.local
           /\ GrantsNothing(f, handle_open(f)) /\ handle_open(f).fsm.local = f.local
           /\ GrantsNothing(f, handle_close(f)) /\ handle_close(f).fsm.local = f.local
           /\ GrantsNothing(f, handle_timeout(f)) /\ handle_timeout(f).fsm.local = f.local
<1>1. /\ GrantsNothing(f, handle_up(f)) /\ handle_up(f).fsm.local = f.local
  BY SeenNothing DEF GrantsNothing, SameTables, handle_up, Ignore, Result, Fsm
<1>2. /\ GrantsNothing(f, handle_open(f)) /\ handle_open(f).fsm.local = f.local
  <2>1. CASE f.state = "Initial"
    BY <2>1, SeenNothing DEF GrantsNothing, SameTables, handle_open, Result, Fsm
  <2>2. CASE f.state = "Closed"
    <3> DEFINE g == [Requesting(f) EXCEPT !.state = "ReqSent", !.restart_counter = 0]
    <3>1. handle_open(f) = Result(g, <<SendFrame(build_config_request(f))>>)
      BY <2>2 DEF handle_open
    <3>2. /\ SameTables(g, f) /\ g.remote = f.remote /\ g.tried = f.tried
          /\ g.local = f.local
      BY DEF Requesting, Fsm, SameTables
    <3> HIDE DEF g
    <3>3. QED
      BY <3>1, <3>2, RequestCode, FrameGrantsNothing DEF Result
  <2>3. CASE f.state \notin {"Initial", "Closed"}
    BY <2>3, IgnoreGrantsNothing DEF handle_open, Ignore, Result
  <2>4. QED
    BY <2>1, <2>2, <2>3
<1>3. /\ GrantsNothing(f, handle_close(f)) /\ handle_close(f).fsm.local = f.local
  <2>1. CASE f.state = "Opened"
    <3> DEFINE g == [f EXCEPT !.state = "Closing", !.restart_counter = 0,
                              !.identifier = next_identifier(f)]
               farewell == Frame("TermReq", next_identifier(f), <<>>)
    <3>1. handle_close(f) = Result(g, <<SendFrame(farewell)>>)
      BY <2>1 DEF handle_close
    <3>2. /\ SameTables(g, f) /\ g.remote = f.remote /\ g.tried = f.tried
          /\ g.local = f.local
          /\ farewell.code = "TermReq"
      BY DEF Fsm, Frame, SameTables
    <3> HIDE DEF g, farewell
    <3>3. QED
      BY <3>1, <3>2, FrameGrantsNothing DEF Result
  <2>2. CASE f.state # "Opened"
    BY <2>2, IgnoreGrantsNothing DEF handle_close, Ignore, Result
  <2>3. QED
    BY <2>1, <2>2
<1>4. /\ GrantsNothing(f, handle_timeout(f)) /\ handle_timeout(f).fsm.local = f.local
  <2>1. CASE f.state \in Negotiating /\ f.restart_counter < RestartLimit
    <3> DEFINE g == [Requesting(f) EXCEPT
                        !.restart_counter = @ + 1,
                        !.state = IF @ = "AckSent" THEN "AckSent" ELSE "ReqSent"]
    <3>1. handle_timeout(f) = Result(g, <<SendFrame(build_config_request(f))>>)
      BY <2>1 DEF handle_timeout
    <3>2. /\ SameTables(g, f) /\ g.remote = f.remote /\ g.tried = f.tried
          /\ g.local = f.local
      BY DEF Requesting, Fsm, SameTables
    <3> HIDE DEF g
    <3>3. QED
      BY <3>1, <3>2, RequestCode, FrameGrantsNothing DEF Result
  <2>2. CASE f.state \in Negotiating /\ ~ (f.restart_counter < RestartLimit)
    <3> DEFINE g == [f EXCEPT !.restart_counter = @ + 1, !.state = "Stopped"]
    <3>1. handle_timeout(f) = Result(g, <<Shutdown>>)
      BY <2>2 DEF handle_timeout
    <3>2. /\ SameTables(g, f) /\ g.remote = f.remote /\ g.tried = f.tried
          /\ g.local = f.local
      BY DEF Fsm, SameTables
    <3> HIDE DEF g
    <3>3. QED
      BY <3>1, <3>2, SeenShutdown DEF GrantsNothing, Result
  <2>3. CASE f.state \notin Negotiating
    BY <2>3, IgnoreGrantsNothing DEF handle_timeout, Ignore, Result
  <2>4. QED
    BY <2>1, <2>2, <2>3
<1>5. QED
  BY <1>1, <1>2, <1>3, <1>4

LEMMA AnswerGrantsNothing ==
    ASSUME NEW f \in Fsm, NEW frame, frame.code \in Codes \ {"ConfReq"}
    PROVE  /\ GrantsNothing(f, handle_frame(f, frame))
           /\ frame.code # "ConfAck" => handle_frame(f, frame).fsm.local = f.local
<1>1. CASE frame.code = "ConfAck"
  <2>1. handle_frame(f, frame) = handle_config_ack(f, frame)
    BY <1>1 DEF handle_frame
  <2>2. /\ handle_config_ack(f, frame).acts \in {<<>>, <<LayerUp>>}
        /\ handle_config_ack(f, frame).fsm.remote = f.remote
        /\ handle_config_ack(f, frame).fsm.tried = f.tried
        /\ SameTables(handle_config_ack(f, frame).fsm, f)
    <3>1. CASE frame.id = f.current_request_id /\ f.state = "ReqSent"
      BY <3>1 DEF handle_config_ack, Result, Fsm, SameTables
    <3>2. CASE frame.id = f.current_request_id /\ f.state = "AckSent"
      BY <3>2 DEF handle_config_ack, Result, Fsm, SameTables
    <3>3. CASE frame.id # f.current_request_id \/ f.state \notin {"ReqSent", "AckSent"}
      BY <3>3 DEF handle_config_ack, Result, Ignore, SameTables
    <3>4. QED
      BY <3>1, <3>2, <3>3
  <2>3. QED
    BY <1>1, <2>1, <2>2, SeenNothing DEF GrantsNothing
<1>2. CASE frame.code \in {"ConfNak", "ConfRej"}
  <2>1. handle_frame(f, frame) = handle_config_nak_reject(f, frame)
    BY <1>2 DEF handle_frame
  <2>2. CASE frame.id # f.current_request_id \/ f.state \notin Negotiating
    BY <2>1, <2>2, IgnoreGrantsNothing DEF handle_config_nak_reject, Ignore, Result
  <2>3. CASE /\ frame.id = f.current_request_id /\ f.state \in Negotiating
             /\ frame.opts = Malformed
    <3> DEFINE g == [f EXCEPT !.restart_counter = 0, !.state = "Stopped"]
    <3>1. handle_frame(f, frame) = Result(g, <<Shutdown>>)
      BY <2>1, <2>3 DEF handle_config_nak_reject
    <3>2. /\ SameTables(g, f) /\ g.remote = f.remote /\ g.tried = f.tried
          /\ g.local = f.local
      BY DEF Fsm, SameTables
    <3> HIDE DEF g
    <3>3. QED
      BY <3>1, <3>2, SeenShutdown DEF GrantsNothing, Result
  <2>4. CASE /\ frame.id = f.current_request_id /\ f.state \in Negotiating
             /\ frame.opts # Malformed
    <3> DEFINE g == [f EXCEPT
                !.restart_counter = 0,
                !.desired = update_desired_local_options(@, frame),
                !.state   = IF @ = "AckSent" THEN "AckSent" ELSE "ReqSent"]
    <3>1. handle_frame(f, frame)
            = Result(Requesting(g), <<SendFrame(build_config_request(g))>>)
      BY <2>1, <2>4 DEF handle_config_nak_reject
    <3>2. /\ SameTables(Requesting(g), f)
          /\ Requesting(g).remote = f.remote /\ Requesting(g).tried = f.tried
          /\ Requesting(g).local = f.local
      BY DEF Requesting, Fsm, SameTables
    <3> HIDE DEF g
    <3>3. QED
      BY <3>1, <3>2, RequestCode, FrameGrantsNothing DEF Result
  <2>5. QED
    BY <2>2, <2>3, <2>4
<1>3. CASE frame.code = "TermReq"
  <2> DEFINE ack == Frame("TermAck", frame.id, <<>>)
             g   == [f EXCEPT !.state = "Initial"]
  <2>1. handle_frame(f, frame) \in {Ignore(f), Result(g, <<SendFrame(ack)>>)}
    BY <1>3 DEF handle_frame, handle_terminate_request
  <2>2. /\ SameTables(g, f) /\ g.remote = f.remote /\ g.tried = f.tried
          /\ g.local = f.local
        /\ ack.code = "TermAck"
    BY DEF Fsm, Frame, SameTables
  <2> HIDE DEF g, ack
  <2>3. GrantsNothing(f, Result(g, <<SendFrame(ack)>>))
    BY <2>2, FrameGrantsNothing
  <2>4. QED
    BY <2>1, <2>2, <2>3, IgnoreGrantsNothing DEF Ignore, Result
<1>4. CASE frame.code = "TermAck"
  BY <1>4, SeenNothing
     DEF handle_frame, handle_terminate_ack, Ignore, Result, GrantsNothing, Fsm, SameTables
<1>5. CASE frame.code = "OtherCode"
  <2> DEFINE reject == Frame("OtherCode", next_identifier(f), <<>>)
             g      == [f EXCEPT !.identifier = next_identifier(f)]
  <2>1. handle_frame(f, frame) \in {Ignore(f), Result(g, <<SendFrame(reject)>>)}
    BY <1>5 DEF handle_frame, handle_unknown_code
  <2>2. /\ SameTables(g, f) /\ g.remote = f.remote /\ g.tried = f.tried
          /\ g.local = f.local
        /\ reject.code = "OtherCode"
    BY DEF Fsm, Frame, SameTables
  <2> HIDE DEF g, reject
  <2>3. GrantsNothing(f, Result(g, <<SendFrame(reject)>>))
    BY <2>2, FrameGrantsNothing
  <2>4. QED
    BY <2>1, <2>2, <2>3, IgnoreGrantsNothing DEF Ignore, Result
<1>6. QED
  BY <1>1, <1>2, <1>3, <1>4, <1>5 DEF Codes

-----------------------------------------------------------------------------
(***************************************************************************)
(* Agreed options, and the bound on Config-Naks.                            *)
(***************************************************************************)
Agreement == AgreedOptions /\ NaksMarkEntries

LEMMA SameVerdicts ==
    ASSUME NEW f, NEW g, SameTables(g, f)
    PROVE  \A o : is_option_acceptable(g, o) <=> is_option_acceptable(f, o)
  BY DEF SameTables, is_option_acceptable

\* A step that grants nothing and does not touch the local options.
LEMMA QuietKeepsAgreement ==
    ASSUME Agreement, NEW in, NEW r, Step(in, r), GrantsNothing(fsm, r),
           in.event = "ReceiveFrame" => in.frame.code # "ConfAck",
           r.fsm.local = fsm.local
    PROVE  Agreement'
<1>1. /\ fsm'.local = fsm.local /\ fsm'.remote = fsm.remote /\ fsm'.tried = fsm.tried
      /\ SameTables(fsm', fsm)
  BY DEF Step, GrantsNothing
<1>2. /\ hist'.ours => hist.ours
      /\ hist'.theirs => hist.theirs
      /\ hist'.acked = hist.acked /\ hist'.granted = hist.granted
      /\ hist'.naks = hist.naks
  BY DEF Step, GrantsNothing, Observe
<1>3. \A o : is_option_acceptable(fsm', o) <=> is_option_acceptable(fsm, o)
  BY <1>1, SameVerdicts
<1>4. QED
  BY <1>1, <1>2, <1>3 DEF Agreement, AgreedOptions, NaksMarkEntries, SameTables

LEMMA AckKeepsAgreement ==
    ASSUME Control, Agreement, NEW frame \in PeerFrames, Receive(frame),
           frame.code = "ConfAck"
    PROVE  Agreement'
<1> DEFINE acts == handle_frame(fsm, frame).acts
<1>1. /\ fsm' = handle_config_ack(fsm, frame).fsm
      /\ hist' = Observe(hist, Received(frame), acts)
  BY DEF Receive, Step, handle_frame
<1>2. /\ fsm'.remote = fsm.remote /\ fsm'.tried = fsm.tried
      /\ SameTables(fsm', fsm)
      /\ \A o : is_option_acceptable(fsm', o) <=> is_option_acceptable(fsm, o)
  BY AnswerGrantsNothing, SameVerdicts
     DEF Control, Codes, Receive, Step, GrantsNothing
<1>3. ~ Sends(acts, {"ConfAck"}) /\ ~ Sends(acts, {"ConfNak"})
  BY AnswerGrantsNothing DEF Control, Codes, GrantsNothing
<1> HIDE DEF acts
<1>4. /\ hist'.theirs => hist.theirs
      /\ hist'.granted = hist.granted /\ hist'.naks = hist.naks
      /\ hist'.ours => hist.ours \/ frame.id = hist.reqId
      /\ hist'.acked = IF frame.id = hist.reqId /\ ~ hist.ours THEN frame.opts
                                                               ELSE hist.acked
  BY <1>1, <1>3 DEF Observe, Received
<1>5. frame.id \in Ids /\ frame.id # NoId
  BY PeerFrameTyped, LimitsAssumption DEF Ids, NoId
<1>6. CASE frame.id = hist.reqId /\ ~ hist.ours
  <2>1. frame.id = fsm.current_request_id /\ fsm.state \in {"ReqSent", "AckSent"}
    BY <1>5, <1>6 DEF Control, RequestOpen, HandshakeSound, Negotiating
  <2>2. fsm'.local = finalize_local_options(fsm, frame)
    <3>1. CASE fsm.state = "ReqSent"
      BY <1>1, <2>1, <3>1 DEF handle_config_ack, Result, Control, Fsm
    <3>2. CASE fsm.state = "AckSent"
      BY <1>1, <2>1, <3>2 DEF handle_config_ack, Result, Control, Fsm
    <3>3. QED
      BY <2>1, <3>1, <3>2
  <2>3. QED
    BY <1>2, <1>4, <1>6, <2>2
       DEF finalize_local_options, Agreement, AgreedOptions, NaksMarkEntries,
           SameTables
<1>7. CASE ~ (frame.id = hist.reqId /\ ~ hist.ours)
  <2>1. \/ frame.id # fsm.current_request_id
        \/ fsm.state \notin {"ReqSent", "AckSent"}
    BY <1>7 DEF Control, RequestOpen, HandshakeSound, Negotiating
  <2>2. fsm' = fsm
    BY <1>1, <2>1 DEF handle_config_ack, Ignore, Result
  <2>3. QED
    BY <1>2, <1>4, <1>7, <2>2
       DEF Agreement, AgreedOptions, NaksMarkEntries, SameTables
<1>8. QED
  BY <1>6, <1>7

LEMMA RequestKeepsAgreement ==
    ASSUME Control, Agreement, NEW frame \in PeerFrames, Receive(frame),
           frame.code = "ConfReq"
    PROVE  Agreement'
<1> DEFINE acts  == handle_frame(fsm, frame).acts
           reply == Reply(fsm, frame)
           ok    == Accepts(fsm, frame)
           g     == [fsm EXCEPT
                        !.tried  = TriedAfter(fsm, frame.opts),
                        !.remote = IF Accepts(fsm, frame) THEN frame.opts ELSE @,
                        !.state  = AfterRequest(@, Accepts(fsm, frame))]
<1>1. /\ handle_frame(fsm, frame) = handle_config_request(fsm, frame)
      /\ fsm' = handle_config_request(fsm, frame).fsm
      /\ hist' = Observe(hist, Received(frame), acts)
  BY DEF Receive, Step, handle_frame
<1>2. CASE fsm.state \notin Negotiating \cup {"Opened"}
  <2>1. handle_config_request(fsm, frame) = Ignore(fsm)
    BY <1>2 DEF handle_config_request, Negotiating
  <2>2. GrantsNothing(fsm, handle_frame(fsm, frame))
    BY <1>1, <2>1, IgnoreGrantsNothing
  <2>3. handle_frame(fsm, frame).fsm.local = fsm.local
    BY <1>1, <2>1 DEF Ignore, Result
  <2>4. QED
    BY <2>2, <2>3, QuietKeepsAgreement DEF Receive, Received
<1>3. CASE fsm.state \in Negotiating \cup {"Opened"}
  <2>1. /\ \A codes : "ConfReq" \notin codes =>
                        (Sends(acts, codes) <=> reply.code \in codes)
        /\ fsm' \in {g, Requesting(g)}
    <3> DEFINE request == build_config_request(g)
    <3>1. CASE fsm.state = "Opened"
      <4>1. acts = <<SendFrame(reply), SendFrame(request)>> /\ fsm' = Requesting(g)
        BY <1>1, <3>1 DEF handle_config_request, Result
      <4>2. reply.code # "ConfReq" /\ request.code = "ConfReq"
        BY ReplyShape, RequestCode
      <4> HIDE DEF acts, reply, request
      <4>3. \A codes : Sends(acts, codes) <=> reply.code \in codes \/ "ConfReq" \in codes
        BY <4>1, <4>2, SeenReplyAndRequest
      <4>4. QED
        BY <4>1, <4>3
    <3>2. CASE fsm.state \in Negotiating
      <4>1. /\ acts \in {<<SendFrame(reply)>>, <<SendFrame(reply), LayerUp>>}
            /\ fsm' = g
        <5>1. CASE fsm.state = "AckRecvd" /\ ok
          BY <1>1, <5>1 DEF handle_config_request, Result
        <5>2. CASE fsm.state = "AckRecvd" /\ ~ ok
          BY <1>1, <5>2 DEF handle_config_request, Result
        <5>3. CASE fsm.state \in {"ReqSent", "AckSent"}
          BY <1>1, <5>3 DEF handle_config_request, Result
        <5>4. QED
          BY <3>2, <5>1, <5>2, <5>3 DEF Negotiating
      <4> HIDE DEF acts, reply
      <4>2. \A codes : Sends(acts, codes) <=> reply.code \in codes
        BY <4>1, SeenFrame
      <4>3. QED
        BY <4>1, <4>2
    <3>3. QED
      BY <1>3, <3>1, <3>2
  <2>2. /\ fsm'.local = fsm.local
        /\ fsm'.remote = IF ok THEN frame.opts ELSE fsm.remote
        /\ fsm'.tried = TriedAfter(fsm, frame.opts)
        /\ SameTables(fsm', fsm)
    BY <2>1 DEF Control, Fsm, Requesting, SameTables
  <2>3. /\ ok => reply.code = "ConfAck"
        /\ ~ ok => reply.code \in {"ConfNak", "ConfRej"}
    BY ReplyShape
  <2>4. /\ frame.opts \in OptionArea
        /\ ok => \A p \in DOMAIN frame.opts : 
                    is_option_acceptable(fsm', frame.opts[p])
    BY <2>2, PeerFrameTyped, AcceptedParse, SameVerdicts
  <2>5. /\ fsm'.tried \subseteq DOMAIN Acceptable
        /\ Cardinality(fsm.tried) \in Nat
        /\ Cardinality(fsm'.tried) \in Nat
        /\ Cardinality(fsm.tried) <= Cardinality(fsm'.tried)
        /\ reply.code = "ConfNak" => Cardinality(fsm.tried) + 1 <= Cardinality(fsm'.tried)
    BY <2>2, <2>4, MarksGrow, TableFinite, TablesAssumption
       DEF Control, Agreement, NaksMarkEntries
  <2> HIDE DEF acts, reply, ok, g
  <2>6. /\ Sends(acts, {"ConfAck"}) <=> ok
        /\ Sends(acts, {"ConfNak", "ConfRej"}) <=> ~ ok
        /\ Sends(acts, {"ConfNak"}) <=> reply.code = "ConfNak"
    BY <2>1, <2>3
  <2>7. /\ hist'.ours => hist.ours
        /\ hist'.acked = hist.acked
        /\ hist'.theirs => ok
        /\ hist'.granted = IF ok THEN frame.opts ELSE hist.granted
        /\ hist'.naks = IF reply.code = "ConfNak" THEN hist.naks + 1 ELSE hist.naks
    BY <1>1, <2>6 DEF Observe, Received
  <2>8. AgreedOptions'
    BY <2>2, <2>4, <2>7 DEF Agreement, AgreedOptions
  <2>9. NaksMarkEntries'
    <3>1. hist.naks \in Nat /\ hist.naks <= Cardinality(fsm.tried)
      BY DEF Control, History, Agreement, NaksMarkEntries
    <3>2. QED
      BY <2>2, <2>5, <2>7, <3>1 DEF Agreement, NaksMarkEntries, SameTables
  <2>10. QED
    BY <2>8, <2>9 DEF Agreement
<1>4. QED
  BY <1>2, <1>3

LEMMA NextKeepsAgreement == Control /\ Agreement /\ [Next]_vars => Agreement'
<1> SUFFICES ASSUME Control, Agreement, [Next]_vars
             PROVE  Agreement'
  OBVIOUS
<1>1. CASE Up \/ Open \/ Close \/ Timeout
  BY <1>1, OwnerGrantsNothing, QuietKeepsAgreement
     DEF Control, Up, Open, Close, Timeout, Api
<1>2. ASSUME NEW frame \in PeerFrames, Receive(frame)
      PROVE  Agreement'
  <2>1. CASE frame.code \notin {"ConfReq", "ConfAck"}
    <3>1. frame.code \in Codes \ {"ConfReq"}
      BY <2>1, PeerFrameTyped
    <3>2. /\ GrantsNothing(fsm, handle_frame(fsm, frame))
          /\ handle_frame(fsm, frame).fsm.local = fsm.local
      BY <2>1, <3>1, AnswerGrantsNothing DEF Control
    <3>3. QED
      BY <1>2, <2>1, <3>2, QuietKeepsAgreement DEF Receive, Received
  <2>2. QED
    BY <1>2, <2>1, RequestKeepsAgreement, AckKeepsAgreement
<1>3. CASE UNCHANGED vars
  BY <1>3 DEF vars, Agreement, AgreedOptions, NaksMarkEntries
<1>4. QED
  BY <1>1, <1>2, <1>3 DEF Next

LEMMA InitAgreement == Init => Agreement
<1>1. \A p : p \notin DOMAIN <<>>
  OBVIOUS
<1>2. Cardinality({}) = 0
  BY FS_EmptySet
<1>3. QED
  BY <1>1, <1>2
     DEF Init, new, NoHistory, Agreement, AgreedOptions, NaksMarkEntries

LEMMA AgreementInvariant == Spec => []Agreement
  BY ControlInvariant, InitAgreement, NextKeepsAgreement, PTL DEF Spec

\* The inductive invariant as a whole: handshake, retries, options and marks.
THEOREM InductiveInvariant == Spec => []IInv
<1>1. Control /\ Agreement => IInv
  BY DEF Control, Agreement, IInv, TypeOK
<1>2. QED
  BY <1>1, ControlInvariant, AgreementInvariant, PTL

\* What the owner reads as negotiated is what the two sides agreed last.
THEOREM AgreedOptionsHold == Spec => []AgreedOptions
<1>1. Agreement => AgreedOptions
  BY DEF Agreement
<1>2. QED
  BY <1>1, AgreementInvariant, PTL

\* No peer can make the automaton send more Config-Naks than its table has
\* entries, whatever the table.
THEOREM NakBudgetHolds == Spec => []NakBudget
<1>1. Control /\ Agreement => NakBudget
  <2>1. ASSUME Control, Agreement PROVE NakBudget
    <3>1. /\ hist.naks \in Nat /\ hist.naks <= Cardinality(fsm.tried)
          /\ fsm.tried \in SUBSET DOMAIN Acceptable
          /\ Acceptable \in Seq(TableEntry) /\ Len(Acceptable) \in Nat
      BY <2>1, TablesAssumption DEF Control, History, Fsm, Agreement, NaksMarkEntries
    <3>2. Cardinality(fsm.tried) \in Nat /\ Cardinality(fsm.tried) <= Len(Acceptable)
      BY <3>1, TableFinite
    <3>3. QED
      BY <3>1, <3>2 DEF NakBudget
  <2>2. QED
    BY <2>1
<1>2. QED
  BY <1>1, ControlInvariant, AgreementInvariant, PTL

-----------------------------------------------------------------------------
(* Ranks: the n-th element of a finite set of positions, and what walking   *)
(* one position further adds.                                               *)

LEMMA PositionsFinite ==
    ASSUME NEW n \in Nat, NEW S \in SUBSET (1 .. n)
    PROVE  IsFiniteSet(S) /\ Cardinality(S) \in Nat /\ (Cardinality(S) = 0 <=> S = {})
<1>1. IsFiniteSet(1 .. n)
  <2>1. \A a, b \in Int : IsFiniteSet(a .. b)
    BY FS_Interval
  <2>2. QED
    BY <2>1
<1>2. IsFiniteSet(S)
  BY <1>1, FS_Subset
<1>3. QED
  BY <1>2, FS_CardinalityType, FS_EmptySet

LEMMA RankTyped ==
    ASSUME NEW n \in Nat, NEW S \in SUBSET (1 .. n), NEW k
    PROVE  Rank(S, k) \in Nat /\ Rank(S, k) <= Cardinality(S)
<1> DEFINE low == {m \in S : m <= k}
<1>1. low \in SUBSET (1 .. n) /\ low \subseteq S /\ Rank(S, k) = Cardinality(low)
  BY DEF Rank
<1> HIDE DEF low
<1>2. IsFiniteSet(S) /\ Cardinality(low) \in Nat
  BY <1>1, PositionsFinite
<1>3. Cardinality(low) <= Cardinality(S)
  BY <1>1, <1>2, FS_Subset
<1>4. QED
  BY <1>1, <1>2, <1>3

LEMMA RankStep ==
    ASSUME NEW n \in Nat, NEW S \in SUBSET (1 .. n), NEW k \in Nat
    PROVE  Rank(S, k + 1) = IF k + 1 \in S THEN Rank(S, k) + 1 ELSE Rank(S, k)
<1> DEFINE low == {m \in S : m <= k}
<1>0. \A m \in S : m \in Nat /\ (m <= k + 1 <=> m <= k \/ m = k + 1)
  OBVIOUS
<1>a. k + 1 \notin low
  OBVIOUS
<1>b. low \in SUBSET (1 .. n) /\ Rank(S, k) = Cardinality(low)
  BY DEF Rank
<1>1. low \in SUBSET (1 .. n) /\ Rank(S, k) = Cardinality(low) /\ k + 1 \notin low
  BY <1>a, <1>b
<1>2. {m \in S : m <= k + 1} = IF k + 1 \in S THEN low \cup {k + 1} ELSE low
  BY <1>0
<1> HIDE DEF low
<1>3. IsFiniteSet(low)
  BY <1>1, PositionsFinite
<1>4. Cardinality(low \cup {k + 1}) = Cardinality(low) + 1
  BY <1>1, <1>3, FS_AddElement
<1>5. QED
  BY <1>1, <1>2, <1>4 DEF Rank

LEMMA RankEnds ==
    ASSUME NEW n \in Nat, NEW S \in SUBSET (1 .. n)
    PROVE  Rank(S, 0) = 0 /\ Rank(S, n) = Cardinality(S)
<1>0. \A m \in S : m <= n /\ ~ (m <= 0)
  OBVIOUS
<1>1. {m \in S : m <= 0} = {} /\ {m \in S : m <= n} = S
  BY <1>0
<1>2. QED
  BY <1>1, FS_EmptySet DEF Rank

\* An element has a greater rank than what is below it.
LEMMA RankGrows ==
    ASSUME NEW n \in Nat, NEW S \in SUBSET (1 .. n), NEW j \in Nat, NEW k \in S, j < k
    PROVE  Rank(S, j) < Rank(S, k)
<1> DEFINE low == {m \in S : m <= j}
           upto == {m \in S : m <= k}
<1>0. k \in Nat /\ ~ (k <= j) /\ \A m \in S : m \in Nat /\ (m <= j => m <= k)
  OBVIOUS
<1>a. low \in SUBSET (1 .. n) /\ Rank(S, j) = Cardinality(low)
  BY DEF Rank
<1>b. upto \in SUBSET (1 .. n) /\ Rank(S, k) = Cardinality(upto)
  BY DEF Rank
<1>c. low \subseteq upto
  BY <1>0
<1>d. k \in upto
  BY <1>0
<1>e. k \notin low
  BY <1>0
<1>1. low \subseteq upto /\ k \in upto /\ k \notin low
  BY <1>c, <1>d, <1>e
<1> HIDE DEF low, upto
<1>2. IsFiniteSet(upto) /\ Cardinality(low) \in Nat /\ Cardinality(upto) \in Nat
  BY <1>a, <1>b, PositionsFinite
<1>3. Cardinality(low) <= Cardinality(upto) /\ Cardinality(low) # Cardinality(upto)
  BY <1>1, <1>2, FS_Subset
<1>4. QED
  BY <1>a, <1>b, <1>2, <1>3

LEMMA RankPositive ==
    ASSUME NEW n \in Nat, NEW S \in SUBSET (1 .. n), NEW k \in S
    PROVE  Rank(S, k) \in 1 .. Cardinality(S)
<1>1. 0 < k /\ Rank(S, 0) = 0
  BY RankEnds
<1>2. Rank(S, 0) < Rank(S, k)
  BY <1>1, RankGrows
<1>3. QED
  BY <1>1, <1>2, RankTyped, PositionsFinite

LEMMA RankDiffers ==
    ASSUME NEW n \in Nat, NEW S \in SUBSET (1 .. n), NEW j \in S, NEW k \in S,
           Rank(S, j) = Rank(S, k)
    PROVE  j = k
<1>1. j \in Nat /\ k \in Nat /\ Rank(S, j) \in Nat /\ Rank(S, k) \in Nat
  BY RankTyped
<1>2. ~ (j < k)
  <2> SUFFICES ASSUME j < k
               PROVE  FALSE
    OBVIOUS
  <2>1. Rank(S, j) < Rank(S, k)
    BY <1>1, RankGrows
  <2>2. QED
    BY <1>1, <2>1
<1>3. ~ (k < j)
  <2> SUFFICES ASSUME k < j
               PROVE  FALSE
    OBVIOUS
  <2>1. Rank(S, k) < Rank(S, j)
    BY <1>1, RankGrows
  <2>2. QED
    BY <1>1, <2>1
<1>4. QED
  BY <1>1, <1>2, <1>3

LEMMA NthExists ==
    ASSUME NEW n \in Nat, NEW S \in SUBSET (1 .. n), NEW r \in 1 .. Cardinality(S)
    PROVE  Nth(S, r) \in S /\ Rank(S, Nth(S, r)) = r
<1> DEFINE K == {k \in Nat : Rank(S, k) >= r}
<1>a. Cardinality(S) \in Nat
  BY PositionsFinite
<1>b. \A k : Rank(S, k) \in Nat
  BY RankTyped
<1>c. r \in Nat /\ r >= 1 /\ r <= Cardinality(S)
  BY <1>a
<1>0. r \in Nat /\ r >= 1 /\ \A k : Rank(S, k) \in Nat
  BY <1>b, <1>c
<1>1. n \in K
  BY <1>0, RankEnds, PositionsFinite
<1>2. PICK k \in K : \A j \in K : k <= j
  BY <1>1, LeastExists
<1>3. k \in Nat /\ Rank(S, k) >= r /\ k # 0
  <2>1. k \in Nat /\ Rank(S, k) >= r
    OBVIOUS
  <2>2. Rank(S, 0) = 0
    BY RankEnds
  <2>3. k # 0
    BY <1>c, <2>1, <2>2
  <2>4. QED
    BY <2>1, <2>3
<1>4. k - 1 \in Nat /\ k - 1 \notin K
  BY <1>2, <1>3
<1>5. Rank(S, k - 1) < r
  BY <1>0, <1>4
<1> HIDE DEF K
<1>6. Rank(S, k) = IF k \in S THEN Rank(S, k - 1) + 1 ELSE Rank(S, k - 1)
  <2>1. Rank(S, (k - 1) + 1) = IF (k - 1) + 1 \in S THEN Rank(S, k - 1) + 1 ELSE Rank(S, k - 1)
    BY <1>4, RankStep
  <2>2. (k - 1) + 1 = k
    BY <1>3
  <2>3. QED
    BY <2>1, <2>2
<1>7. k \in S /\ Rank(S, k) = r
  BY <1>0, <1>3, <1>5, <1>6
<1>8. QED
  BY <1>7 DEF Nth

LEMMA NthIs ==
    ASSUME NEW n \in Nat, NEW S \in SUBSET (1 .. n), NEW k \in S
    PROVE  Nth(S, Rank(S, k)) = k
<1> DEFINE r == Rank(S, k)
<1>1. r \in 1 .. Cardinality(S)
  BY RankPositive
<1>2. Nth(S, r) \in S /\ Rank(S, Nth(S, r)) = r
  BY <1>1, NthExists
<1>3. QED
  BY <1>2, RankDiffers

\* The least of the elements beyond the first c is the next one.
LEMMA FirstIsNext ==
    ASSUME NEW n \in Nat, NEW S \in SUBSET (1 .. n), NEW c \in Nat
    PROVE  LET F == {i \in S : ~ (Rank(S, i) <= c)}
           IN  /\ F = {} <=> ~ (c + 1 <= Cardinality(S))
               /\ F # {} => /\ First(F) \in S /\ Rank(S, First(F)) = c + 1
                            /\ First(F) = Nth(S, c + 1)
<1> DEFINE F == {i \in S : ~ (Rank(S, i) <= c)}
<1>1. Cardinality(S) \in Nat /\ \A i : Rank(S, i) \in Nat /\ Rank(S, i) <= Cardinality(S)
  BY RankTyped, PositionsFinite
<1>2. ASSUME c + 1 <= Cardinality(S)
      PROVE  F # {} /\ First(F) \in S /\ Rank(S, First(F)) = c + 1 /\ First(F) = Nth(S, c + 1)
  <2> DEFINE k == Nth(S, c + 1)
  <2>1. c + 1 \in 1 .. Cardinality(S)
    BY <1>1, <1>2
  <2>2. k \in S /\ Rank(S, k) = c + 1
    BY <2>1, NthExists
  <2> HIDE DEF k
  <2>3. k \in F
    BY <2>2
  <2>4. \A j \in S : j < k => Rank(S, j) < Rank(S, k)
    <3>1. \A j \in S : j \in Nat
      OBVIOUS
    <3>2. QED
      BY <2>2, <3>1, RankGrows
  <2>5. \A j \in F : j \in S /\ j \in Nat /\ ~ (Rank(S, j) <= c)
    OBVIOUS
  <2>6. \A j \in F : ~ (j < k)
    BY <1>1, <2>2, <2>4, <2>5
  <2>7. \A j \in F : k <= j
    BY <2>2, <2>5, <2>6
  <2>8. \A m \in F : (\A j \in F : m <= j) => m = k
    BY <2>3, <2>5, <2>7
  <2>9. First(F) = k
    BY <2>3, <2>7, <2>8 DEF First
  <2>10. QED
    BY <2>2, <2>3, <2>9 DEF k
<1>3. ASSUME ~ (c + 1 <= Cardinality(S))
      PROVE  F = {}
  BY <1>1, <1>3
<1>4. QED
  BY <1>2, <1>3

Upto(K, k) == K \cap (1 .. k)

LEMMA UptoEnds ==
    ASSUME NEW n \in Nat, NEW K \in SUBSET (1 .. n)
    PROVE  Upto(K, 0) = {} /\ Upto(K, n) = K
<1>1. 1 .. 0 = {}
  OBVIOUS
<1>2. K \cap (1 .. n) = K
  OBVIOUS
<1>3. QED
  BY <1>1, <1>2 DEF Upto

LEMMA AtEmpty ==
    ASSUME NEW s
    PROVE  At(s, {}) = <<>>
<1>1. Cardinality({}) = 0
  BY FS_EmptySet
<1>2. At(s, {}) = [r \in 1 .. 0 |-> s[Nth({}, r)]]
  BY <1>1 DEF At
<1>3. 1 .. 0 = {}
  OBVIOUS
<1>4. QED
  BY <1>2, <1>3

LEMMA AtFilled ==
    ASSUME NEW n \in Nat, NEW P \in SUBSET (1 .. n), NEW s
    PROVE  At(s, P) = <<>> <=> P = {}
<1>1. P # {} => Cardinality(P) \in Nat \ {0}
  BY PositionsFinite
<1>2. DOMAIN At(s, P) = 1 .. Cardinality(P)
  BY DEF At
<1>3. P # {} => 1 \in DOMAIN At(s, P)
  BY <1>1, <1>2
<1>4. DOMAIN <<>> = {}
  OBVIOUS
<1>5. QED
  BY <1>3, <1>4, AtEmpty

\* Walking to a position of P appends what is there; walking past another does not.
LEMMA AtGrows ==
    ASSUME NEW n \in Nat, NEW P \in SUBSET (1 .. n), NEW k \in Nat, NEW V, NEW s,
           \A p \in P : s[p] \in V
    PROVE  /\ At(s, Upto(P, k)) \in Seq(V)
           /\ k + 1 \in P => At(s, Upto(P, k + 1)) = Append(At(s, Upto(P, k)), s[k + 1])
           /\ k + 1 \notin P => Upto(P, k + 1) = Upto(P, k)
<1> DEFINE S == Upto(P, k)
           T == Upto(P, k + 1)
           c == Cardinality(S)
<1>1. S \in SUBSET (1 .. n) /\ T \in SUBSET (1 .. n) /\ k + 1 \notin S /\ S \subseteq P
  BY DEF Upto
<1>2. IsFiniteSet(S) /\ c \in Nat
  BY <1>1, PositionsFinite
<1>3. \A r \in 1 .. c : Nth(S, r) \in S /\ Rank(S, Nth(S, r)) = r
  BY <1>1, NthExists
<1>4. At(s, S) = [r \in 1 .. c |-> s[Nth(S, r)]]
  BY DEF At
<1>5. At(s, S) \in [1 .. c -> V]
  BY <1>1, <1>3, <1>4
<1>6. At(s, S) \in Seq(V)
  BY <1>2, <1>5, IndexedIsSeq
<1>7. k + 1 \notin P => T = S
  BY DEF Upto
<1>8. ASSUME k + 1 \in P
      PROVE  At(s, T) = Append(At(s, S), s[k + 1])
  <2>1. T = S \cup {k + 1}
    BY <1>8 DEF Upto
  <2>2. Cardinality(T) = c + 1
    BY <1>1, <1>2, <2>1, FS_AddElement
  <2>3. \A p \in S : {m \in T : m <= p} = {m \in S : m <= p}
    BY <2>1 DEF Upto
  <2>4. ASSUME NEW r \in 1 .. c
        PROVE  Nth(T, r) = Nth(S, r)
    <3>1. Nth(S, r) \in T /\ Rank(T, Nth(S, r)) = r
      BY <1>3, <2>1, <2>3 DEF Rank
    <3>2. \A m \in T : Nth(T, Rank(T, m)) = m
      BY <1>1, NthIs
    <3>3. QED
      BY <3>1, <3>2
  <2>5. Nth(T, c + 1) = k + 1
    <3>1. {m \in T : m <= k + 1} = T
      BY DEF Upto
    <3>2. Rank(T, k + 1) = c + 1
      BY <2>2, <3>1 DEF Rank
    <3>3. k + 1 \in T
      BY <2>1
    <3>4. \A m \in T : Nth(T, Rank(T, m)) = m
      BY <1>1, NthIs
    <3>5. QED
      BY <3>2, <3>3, <3>4
  <2>6. At(s, T) = [r \in 1 .. c + 1 |-> s[Nth(T, r)]]
    BY <2>2 DEF At
  <2>7. T \subseteq P
    BY DEF Upto
  <2> HIDE DEF S, T, c
  <2>8. \A r \in 1 .. c + 1 : s[Nth(T, r)] = IF r = c + 1 THEN s[k + 1] ELSE At(s, S)[r]
    BY <1>2, <1>4, <2>4, <2>5
  <2>9. Len(At(s, S)) = c
    BY <1>2, <1>5, <1>6, LenProperties
  <2>10. s[k + 1] \in V
    BY <1>8
  <2>11. /\ Append(At(s, S), s[k + 1]) \in Seq(V) /\ Len(Append(At(s, S), s[k + 1])) = c + 1
         /\ \A r \in 1 .. c : Append(At(s, S), s[k + 1])[r] = At(s, S)[r]
         /\ Append(At(s, S), s[k + 1])[c + 1] = s[k + 1]
    BY <1>6, <2>9, <2>10, AppendProperties
  <2>12. At(s, T) \in [1 .. c + 1 -> V]
    BY <1>2, <1>5, <2>6, <2>8, <2>10
  <2>13. At(s, T) \in Seq(V) /\ Len(At(s, T)) = c + 1
    BY <1>2, <2>12, IndexedIsSeq, LenProperties
  <2>14. \A r \in 1 .. c + 1 : At(s, T)[r] = Append(At(s, S), s[k + 1])[r]
    BY <1>2, <2>6, <2>8, <2>11
  <2>15. QED
    BY <2>11, <2>13, <2>14, SeqEqual
<1>9. QED
  BY <1>6, <1>7, <1>8

-----------------------------------------------------------------------------
(* What the loops have done when k options of a list are behind them.       *)

\* The entries marked by judging.
Marks(f, opts, k) ==
    {i \in DOMAIN f.acceptable \ f.tried :
        LET type == f.acceptable[i].type
        IN  Rank(Untried(f, type), i) <= Rank(UnacceptableOfType(f, opts, type), k)}

\* The entry to offer for the option at p.
Offer(f, opts) == [p \in DOMAIN opts |-> select_acceptable_option(f, opts, p)]

Answerable(f, opts) == Unacceptable(f, opts) \ Refused(f, opts)

LEMMA FsmLists ==
    ASSUME NEW f \in Fsm
    PROVE  /\ Len(f.acceptable) \in Nat /\ DOMAIN f.acceptable = 1 .. Len(f.acceptable)
           /\ Len(f.desired_remote) \in Nat
           /\ DOMAIN f.desired_remote = 1 .. Len(f.desired_remote)
           /\ Len(f.desired) \in Nat /\ DOMAIN f.desired = 1 .. Len(f.desired)
<1>1. f.acceptable \in Seq(TableEntry) /\ f.desired_remote \in Seq(Option)
      /\ f.desired \in Seq(Option \cup {NoOption})
  BY DEF Fsm
<1>2. QED
  BY <1>1, LenProperties

LEMMA PositionSets ==
    ASSUME NEW f \in Fsm, NEW opts \in Seq(Option), NEW type
    PROVE  /\ Len(opts) \in Nat /\ DOMAIN opts = 1 .. Len(opts)
           /\ Unrecognized(f, opts) \in SUBSET (1 .. Len(opts))
           /\ Unacceptable(f, opts) \in SUBSET (1 .. Len(opts))
           /\ Refused(f, opts) \in SUBSET (1 .. Len(opts))
           /\ Answerable(f, opts) \in SUBSET (1 .. Len(opts))
           /\ UnacceptableOfType(f, opts, type) \in SUBSET (1 .. Len(opts))
           /\ Missing(f, opts) \in SUBSET (1 .. Len(f.desired_remote))
           /\ Untried(f, type) \in SUBSET (1 .. Len(f.acceptable))
<1>1. Len(opts) \in Nat /\ DOMAIN opts = 1 .. Len(opts)
  BY LenProperties
<1>2. QED
  BY <1>1, FsmLists DEF Unrecognized, Unacceptable, Refused, Answerable, UnacceptableOfType,
        Missing, Untried

Spared(f, opts, k) ==
    /\ Marks(f, opts, k + 1) = Marks(f, opts, k)
    /\ k + 1 \notin Unacceptable(f, opts)

Rejected(f, opts, k) ==
    /\ Marks(f, opts, k + 1) = Marks(f, opts, k)
    /\ k + 1 \in Refused(f, opts)

Countered(f, opts, k, i) ==
    /\ Marks(f, opts, k + 1) = Marks(f, opts, k) \cup {i}
    /\ k + 1 \in Answerable(f, opts) /\ i \in DOMAIN f.acceptable
    /\ select_acceptable_option(f, opts, k + 1) = f.acceptable[i]

\* One round of judging: which option it spares, rejects or answers, and how.
LEMMA JudgeStep ==
    ASSUME NEW f \in Fsm, NEW opts \in Seq(Option), NEW k \in Nat, k < Len(opts),
           NEW free, free = Untried(f, opts[k + 1].type) \ Marks(f, opts, k)
    PROVE  /\ is_option_acceptable(f, opts[k + 1]) => Spared(f, opts, k)
           /\ ~ is_option_acceptable(f, opts[k + 1]) =>
                IF free = {} THEN Rejected(f, opts, k)
                             ELSE Countered(f, opts, k, First(free))
<1> DEFINE t == opts[k + 1].type
           U == Untried(f, t)
           K(type) == UnacceptableOfType(f, opts, type)
           c == Rank(K(t), k)
           accepted == is_option_acceptable(f, opts[k + 1])
           T(i) == f.acceptable[i].type
           D == DOMAIN f.acceptable \ f.tried
<1>1. Len(opts) \in Nat /\ DOMAIN opts = 1 .. Len(opts) /\ k + 1 \in DOMAIN opts
      /\ k + 1 \in Nat
  BY LenProperties
<1>2. U \in SUBSET (1 .. Len(f.acceptable)) /\ Len(f.acceptable) \in Nat
  BY PositionSets, FsmLists
<1>3. \A type : Rank(K(type), k + 1) = IF k + 1 \in K(type) THEN Rank(K(type), k) + 1
                                                            ELSE Rank(K(type), k)
  <2> SUFFICES ASSUME NEW type
               PROVE  Rank(K(type), k + 1) = IF k + 1 \in K(type) THEN Rank(K(type), k) + 1
                                                            ELSE Rank(K(type), k)
    OBVIOUS
  <2>1. K(type) \in SUBSET (1 .. Len(opts))
    BY PositionSets
  <2> HIDE DEF K
  <2>2. QED
    BY <1>1, <2>1, RankStep
<1>4. \A type : k + 1 \in K(type) <=> ~ accepted /\ type = t
  BY <1>1 DEF UnacceptableOfType, Unacceptable
<1>5. k + 1 \in Unacceptable(f, opts) <=> ~ accepted
  BY <1>1 DEF Unacceptable
<1>6. /\ Marks(f, opts, k) = {i \in D : Rank(Untried(f, T(i)), i) <= Rank(K(T(i)), k)}
      /\ Marks(f, opts, k + 1) = {i \in D : Rank(Untried(f, T(i)), i) <= Rank(K(T(i)), k + 1)}
  BY DEF Marks
<1>7. U = {i \in D : T(i) = t}
  BY DEF Untried
<1>8. c \in Nat /\ Cardinality(U) \in Nat
      /\ \A i : Rank(U, i) \in Nat /\ Rank(U, i) <= Cardinality(U)
  <2>1. K(t) \in SUBSET (1 .. Len(opts))
    BY PositionSets
  <2> HIDE DEF K, U
  <2>2. c \in Nat
    BY <1>1, <2>1, RankTyped
  <2>3. QED
    BY <1>2, <2>2, RankTyped, PositionsFinite
<1>9. k + 1 \in Refused(f, opts) <=> ~ accepted /\ Rank(K(t), k + 1) > Cardinality(U)
  BY <1>5 DEF Refused, Turn
<1>10. select_acceptable_option(f, opts, k + 1) = f.acceptable[Nth(U, Rank(K(t), k + 1))]
  BY DEF select_acceptable_option, Turn
<1>11. free = {i \in U : ~ (Rank(U, i) <= c)}
  BY <1>6, <1>7
<1>a. U \subseteq DOMAIN f.acceptable
  BY DEF Untried
<1>b. Answerable(f, opts) = Unacceptable(f, opts) \ Refused(f, opts)
  BY DEF Answerable
<1> HIDE DEF t, U, K, accepted, T, D
<1>12. ASSUME accepted
       PROVE  Spared(f, opts, k)
  <2>1. \A type : Rank(K(type), k + 1) = Rank(K(type), k)
    BY <1>3, <1>4, <1>12
  <2>2. QED
    BY <1>5, <1>6, <1>12, <2>1 DEF Spared
<1>13. ASSUME ~ accepted, free = {}
       PROVE  Rejected(f, opts, k)
  <2>1. ~ (c + 1 <= Cardinality(U))
    BY <1>2, <1>8, <1>11, <1>13, FirstIsNext
  <2>2. Rank(K(t), k + 1) = c + 1 /\ \A type : type # t => Rank(K(type), k + 1) = Rank(K(type), k)
    BY <1>3, <1>4, <1>13
  <2>3. k + 1 \in Refused(f, opts)
    BY <1>8, <1>9, <1>13, <2>1, <2>2
  <2>4. \A i \in U : Rank(U, i) <= c /\ Rank(U, i) <= c + 1
    BY <1>8, <2>1
  <2>5. \A i \in D : Rank(Untried(f, T(i)), i) <= Rank(K(T(i)), k + 1)
                <=> Rank(Untried(f, T(i)), i) <= Rank(K(T(i)), k)
    BY <1>7, <2>2, <2>4 DEF U
  <2>6. QED
    BY <1>6, <2>3, <2>5 DEF Rejected
<1>14. ASSUME ~ accepted, free # {}
       PROVE  Countered(f, opts, k, First(free))
  <2> DEFINE e == First(free)
  <2>1. /\ free = {} <=> ~ (c + 1 <= Cardinality(U))
        /\ free # {} => e \in U /\ Rank(U, e) = c + 1 /\ e = Nth(U, c + 1)
    BY <1>2, <1>8, <1>11, FirstIsNext
  <2> HIDE DEF e
  <2>2. c + 1 <= Cardinality(U) /\ e \in U /\ Rank(U, e) = c + 1 /\ e = Nth(U, c + 1)
    BY <1>14, <2>1
  <2>3. Rank(K(t), k + 1) = c + 1 /\ \A type : type # t => Rank(K(type), k + 1) = Rank(K(type), k)
    BY <1>3, <1>4, <1>14
  <2>4. k + 1 \in Answerable(f, opts)
    BY <1>5, <1>8, <1>9, <1>14, <1>b, <2>2, <2>3
  <2>5. \A i \in U : Rank(U, i) = Rank(U, e) => i = e
    BY <1>2, <2>2, RankDiffers
  <2>6. \A i \in U : Rank(U, i) <= c + 1 <=> Rank(U, i) <= c \/ i = e
    BY <1>8, <2>2, <2>5
  <2>7. \A i \in D : Rank(Untried(f, T(i)), i) <= Rank(K(T(i)), k + 1)
                <=> Rank(Untried(f, T(i)), i) <= Rank(K(T(i)), k) \/ i = e
    BY <1>7, <2>2, <2>3, <2>6 DEF U
  <2>8. e \in D
    BY <1>7, <2>2
  <2>9. Marks(f, opts, k + 1) = Marks(f, opts, k) \cup {e}
    BY <1>6, <2>7, <2>8
  <2>10. e \in DOMAIN f.acceptable
    BY <1>a, <2>2
  <2>11. select_acceptable_option(f, opts, k + 1) = f.acceptable[e]
    BY <1>10, <2>2, <2>3
  <2>12. QED
    BY <2>4, <2>9, <2>10, <2>11 DEF e, Countered
<1>15. QED
  BY <1>12, <1>13, <1>14 DEF accepted

-----------------------------------------------------------------------------
(* What the updates have done to the desired options when k options of a    *)
(* list are behind them.                                                    *)

SlotsOf(desired, type) ==
    {j \in DOMAIN desired : desired[j] # NoOption /\ desired[j].type = type}

Suggested(desired, opts, k) ==
    [i \in DOMAIN desired |->
        IF desired[i] = NoOption \/ Upto(OfType(opts, desired[i].type), k) = {}
        THEN desired[i]
        ELSE opts[LastOf(Upto(OfType(opts, desired[i].type), k))]]

Discarded(desired, opts, k) ==
    [i \in DOMAIN desired |->
        IF /\ desired[i] # NoOption
           /\ Rank(SlotsOf(desired, desired[i].type), i) <= Rank(OfType(opts, desired[i].type), k)
        THEN NoOption
        ELSE desired[i]]

LEMMA LastIsGreatest ==
    ASSUME NEW n \in Nat, NEW K \in SUBSET (1 .. n), K # {}
    PROVE  LastOf(K) \in K /\ \A j \in K : j <= LastOf(K)
<1>1. \E k \in K : \A j \in K : j <= k
  BY GreatestExists
<1>2. QED
  BY <1>1 DEF LastOf

LEMMA LastGrows ==
    ASSUME NEW n \in Nat, NEW K \in SUBSET (1 .. n), NEW k \in Nat
    PROVE  /\ k + 1 \in K => Upto(K, k + 1) # {} /\ LastOf(Upto(K, k + 1)) = k + 1
           /\ k + 1 \notin K => Upto(K, k + 1) = Upto(K, k)
<1> DEFINE L == Upto(K, k + 1)
<1>1. L \in SUBSET (1 .. n) /\ \A j \in L : j \in Nat /\ j <= k + 1
  BY DEF Upto
<1>2. k + 1 \in K => k + 1 \in L
  BY DEF Upto
<1>3. k + 1 \notin K => L = Upto(K, k)
  BY DEF Upto
<1> HIDE DEF L
<1>4. ASSUME k + 1 \in K
      PROVE  LastOf(L) = k + 1
  <2>1. L # {} /\ k + 1 \in L
    BY <1>2, <1>4
  <2>2. LastOf(L) \in L /\ \A j \in L : j <= LastOf(L)
    BY <1>1, <2>1, LastIsGreatest
  <2>3. LastOf(L) \in Nat /\ LastOf(L) <= k + 1 /\ k + 1 <= LastOf(L)
    BY <1>1, <2>1, <2>2
  <2>4. QED
    BY <2>3
<1>5. QED
  BY <1>2, <1>3, <1>4 DEF L

\* What Suggested leaves in a slot: nothing where nothing was, or an option of
\* the type that was there.
LEMMA SuggestedTyped ==
    ASSUME NEW d \in Seq(Option \cup {NoOption}), NEW opts \in Seq(Option), NEW k
    PROVE  /\ Suggested(d, opts, k) \in Seq(Option \cup {NoOption})
           /\ DOMAIN Suggested(d, opts, k) = DOMAIN d
           /\ \A i \in DOMAIN d :
                IF d[i] = NoOption THEN Suggested(d, opts, k)[i] = NoOption
                ELSE /\ Suggested(d, opts, k)[i] \in Option
                     /\ Suggested(d, opts, k)[i].type = d[i].type
<1>1. Len(opts) \in Nat /\ \A i \in 1 .. Len(opts) : opts[i] \in Option
  BY LenProperties
<1>2. Len(d) \in Nat /\ DOMAIN d = 1 .. Len(d) /\ \A i \in DOMAIN d : d[i] \in Option \cup {NoOption}
  BY LenProperties
<1>3. ASSUME NEW type, Upto(OfType(opts, type), k) # {}
      PROVE  /\ opts[LastOf(Upto(OfType(opts, type), k))] \in Option
             /\ opts[LastOf(Upto(OfType(opts, type), k))].type = type
  <2> DEFINE K == Upto(OfType(opts, type), k)
  <2>1. DOMAIN opts = 1 .. Len(opts)
    BY LenProperties
  <2>2. K \in SUBSET (1 .. Len(opts)) /\ \A j \in K : opts[j].type = type
    BY <2>1 DEF Upto, OfType
  <2> HIDE DEF K
  <2>3. K # {}
    BY <1>3 DEF K
  <2>4. LastOf(K) \in K
    BY <1>1, <2>2, <2>3, LastIsGreatest
  <2>5. opts[LastOf(K)] \in Option /\ opts[LastOf(K)].type = type
    BY <1>1, <2>2, <2>4
  <2>6. QED
    BY <2>5 DEF K
<1>4. DOMAIN Suggested(d, opts, k) = DOMAIN d
  BY DEF Suggested
<1>5. \A i \in DOMAIN d :
        IF d[i] = NoOption THEN Suggested(d, opts, k)[i] = NoOption
        ELSE /\ Suggested(d, opts, k)[i] \in Option
             /\ Suggested(d, opts, k)[i].type = d[i].type
  BY <1>2, <1>3 DEF Suggested
<1>6. Suggested(d, opts, k) \in [1 .. Len(d) -> Option \cup {NoOption}]
  <2>1. \A i \in DOMAIN d : Suggested(d, opts, k)[i] \in Option \cup {NoOption}
    BY <1>5
  <2>2. Suggested(d, opts, k) = [i \in 1 .. Len(d) |-> Suggested(d, opts, k)[i]]
    BY <1>2 DEF Suggested
  <2>3. QED
    BY <1>2, <2>1, <2>2
<1>7. Suggested(d, opts, k) \in Seq(Option \cup {NoOption})
  BY <1>2, <1>6, IndexedIsSeq
<1>8. QED
  BY <1>4, <1>5, <1>7

\* One option applied.
AfterSuggest(desired, o) ==
    [i \in DOMAIN desired |-> IF i \in SlotsOf(desired, o.type) THEN o ELSE desired[i]]

AfterDiscard(desired, o) ==
    LET S == SlotsOf(desired, o.type)
    IN  IF S = {} THEN desired ELSE [desired EXCEPT ![First(S)] = NoOption]

LEMMA SuggestStep ==
    ASSUME NEW d \in Seq(Option \cup {NoOption}), NEW opts \in Seq(Option),
           NEW k \in Nat, k < Len(opts), NEW e, e = Suggested(d, opts, k)
    PROVE  AfterSuggest(e, opts[k + 1]) = Suggested(d, opts, k + 1)
<1> DEFINE t == opts[k + 1].type
           K(i) == OfType(opts, d[i].type)
<1>1. Len(opts) \in Nat /\ DOMAIN opts = 1 .. Len(opts) /\ k + 1 \in DOMAIN opts
  BY LenProperties
<1>2. DOMAIN e = DOMAIN d /\ \A i \in DOMAIN d :
        IF d[i] = NoOption THEN e[i] = NoOption ELSE e[i] \in Option /\ e[i].type = d[i].type
  BY SuggestedTyped
<1>3. \A i \in DOMAIN d : i \in SlotsOf(e, t) <=> d[i] # NoOption /\ d[i].type = t
  BY <1>2, OptionAssumption DEF SlotsOf
<1>4. \A i \in DOMAIN d : k + 1 \in K(i) <=> d[i].type = t
  BY <1>1 DEF OfType
<1>5. \A i \in DOMAIN d :
        /\ k + 1 \in K(i) => Upto(K(i), k + 1) # {} /\ LastOf(Upto(K(i), k + 1)) = k + 1
        /\ k + 1 \notin K(i) => Upto(K(i), k + 1) = Upto(K(i), k)
  <2> SUFFICES ASSUME NEW i \in DOMAIN d
               PROVE  /\ k + 1 \in K(i) => /\ Upto(K(i), k + 1) # {}
                                           /\ LastOf(Upto(K(i), k + 1)) = k + 1
                      /\ k + 1 \notin K(i) => Upto(K(i), k + 1) = Upto(K(i), k)
    OBVIOUS
  <2>1. K(i) \in SUBSET (1 .. Len(opts))
    BY <1>1 DEF OfType
  <2> HIDE DEF K
  <2>2. QED
    BY <1>1, <2>1, LastGrows
<1>6. e = [i \in DOMAIN d |-> IF d[i] = NoOption \/ Upto(K(i), k) = {} THEN d[i]
                             ELSE opts[LastOf(Upto(K(i), k))]]
  BY DEF Suggested
<1>7. Suggested(d, opts, k + 1)
        = [i \in DOMAIN d |-> IF d[i] = NoOption \/ Upto(K(i), k + 1) = {} THEN d[i]
                             ELSE opts[LastOf(Upto(K(i), k + 1))]]
  BY DEF Suggested
<1> HIDE DEF t, K
<1>8. \A i \in DOMAIN d : (IF i \in SlotsOf(e, t) THEN opts[k + 1] ELSE e[i])
                            = Suggested(d, opts, k + 1)[i]
  <2> SUFFICES ASSUME NEW i \in DOMAIN d
               PROVE  (IF i \in SlotsOf(e, t) THEN opts[k + 1] ELSE e[i])
                        = Suggested(d, opts, k + 1)[i]
    OBVIOUS
  <2> DEFINE L == Upto(K(i), k)
             M == Upto(K(i), k + 1)
  <2>1. e[i] = IF d[i] = NoOption \/ L = {} THEN d[i] ELSE opts[LastOf(L)]
    BY <1>6
  <2>2. Suggested(d, opts, k + 1)[i] = IF d[i] = NoOption \/ M = {} THEN d[i] ELSE opts[LastOf(M)]
    BY <1>7
  <2>3. d[i].type = t => M # {} /\ LastOf(M) = k + 1
    BY <1>4, <1>5
  <2>4. d[i].type # t => M = L
    BY <1>4, <1>5
  <2> HIDE DEF L, M
  <2>5. CASE d[i] = NoOption
    BY <1>3, <2>1, <2>2, <2>5
  <2>6. CASE d[i] # NoOption /\ d[i].type = t
    BY <1>3, <2>2, <2>3, <2>6
  <2>7. CASE d[i] # NoOption /\ d[i].type # t
    BY <1>3, <2>1, <2>2, <2>4, <2>7
  <2>8. QED
    BY <2>5, <2>6, <2>7
<1>9. QED
  BY <1>2, <1>7, <1>8 DEF t, AfterSuggest

LEMMA DiscardedTyped ==
    ASSUME NEW d \in Seq(Option \cup {NoOption}), NEW opts, NEW k
    PROVE  Discarded(d, opts, k) \in Seq(Option \cup {NoOption})
<1>1. Len(d) \in Nat /\ DOMAIN d = 1 .. Len(d) /\ \A i \in DOMAIN d : d[i] \in Option \cup {NoOption}
  BY LenProperties
<1>2. Discarded(d, opts, k) \in [1 .. Len(d) -> Option \cup {NoOption}]
  BY <1>1 DEF Discarded
<1>3. QED
  BY <1>1, <1>2, IndexedIsSeq

LEMMA DiscardStep ==
    ASSUME NEW d \in Seq(Option \cup {NoOption}), NEW opts \in Seq(Option),
           NEW k \in Nat, k < Len(opts), NEW e, e = Discarded(d, opts, k)
    PROVE  AfterDiscard(e, opts[k + 1]) = Discarded(d, opts, k + 1)
<1> DEFINE t == opts[k + 1].type
           F == SlotsOf(e, t)
           K(i) == OfType(opts, d[i].type)
           S(i) == SlotsOf(d, d[i].type)
           S0 == SlotsOf(d, t)
           c == Rank(OfType(opts, t), k)
           R(i) == Rank(S(i), i)
<1>1. Len(opts) \in Nat /\ DOMAIN opts = 1 .. Len(opts) /\ k + 1 \in DOMAIN opts
  BY LenProperties
<1>2. Len(d) \in Nat /\ DOMAIN d = 1 .. Len(d)
  BY LenProperties
<1>3. /\ e = [i \in DOMAIN d |-> IF d[i] # NoOption /\ R(i) <= Rank(K(i), k)
                                 THEN NoOption ELSE d[i]]
      /\ Discarded(d, opts, k + 1)
          = [i \in DOMAIN d |-> IF d[i] # NoOption /\ R(i) <= Rank(K(i), k + 1)
                                THEN NoOption ELSE d[i]]
  BY DEF Discarded
<1>4. \A i \in DOMAIN d : K(i) \in SUBSET (1 .. Len(opts)) /\ (k + 1 \in K(i) <=> d[i].type = t)
  BY <1>1 DEF OfType
<1>5. \A i \in DOMAIN d : Rank(K(i), k + 1) = IF d[i].type = t THEN Rank(K(i), k) + 1
                                                              ELSE Rank(K(i), k)
  <2> SUFFICES ASSUME NEW i \in DOMAIN d
               PROVE  Rank(K(i), k + 1) = IF d[i].type = t THEN Rank(K(i), k) + 1
                                                           ELSE Rank(K(i), k)
    OBVIOUS
  <2> HIDE DEF K
  <2>1. Rank(K(i), k + 1) = IF k + 1 \in K(i) THEN Rank(K(i), k) + 1 ELSE Rank(K(i), k)
    BY <1>1, <1>4, RankStep
  <2>2. QED
    BY <1>4, <2>1
<1>6. S0 \in SUBSET (1 .. Len(d)) /\ S0 = {i \in DOMAIN d : d[i] # NoOption /\ d[i].type = t}
  BY <1>2 DEF SlotsOf
<1>7. c \in Nat /\ Cardinality(S0) \in Nat
      /\ \A i : Rank(S0, i) \in Nat /\ Rank(S0, i) <= Cardinality(S0)
  <2>1. OfType(opts, t) \in SUBSET (1 .. Len(opts))
    BY <1>1 DEF OfType
  <2>2. c \in Nat
    BY <1>1, <2>1, RankTyped
  <2> HIDE DEF S0, c
  <2>3. QED
    BY <1>2, <1>6, <2>2, RankTyped, PositionsFinite
<1>8. \A i \in S0 : R(i) = Rank(S0, i) /\ Rank(K(i), k) = c
  BY <1>6
<1>9. F = {i \in S0 : ~ (Rank(S0, i) <= c)}
  <2>1. F = {i \in DOMAIN d : e[i] # NoOption /\ e[i].type = t}
    BY <1>3 DEF SlotsOf
  <2>2. \A i \in DOMAIN d : e[i] # NoOption /\ e[i].type = t
                <=> d[i] # NoOption /\ d[i].type = t /\ ~ (R(i) <= Rank(K(i), k))
    BY <1>3
  <2>3. QED
    BY <1>6, <1>8, <2>1, <2>2
<1>a. AfterDiscard(e, opts[k + 1]) = IF F = {} THEN e ELSE [e EXCEPT ![First(F)] = NoOption]
  BY DEF AfterDiscard
<1> HIDE DEF t, F, K, S, S0, c, R
<1>10. /\ F = {} <=> ~ (c + 1 <= Cardinality(S0))
       /\ F # {} => First(F) \in S0 /\ Rank(S0, First(F)) = c + 1
  <2>1. Len(d) \in Nat /\ S0 \in SUBSET (1 .. Len(d)) /\ c \in Nat
    BY <1>2, <1>6, <1>7
  <2> DEFINE G == {i \in S0 : ~ (Rank(S0, i) <= c)}
  <2>2. /\ G = {} <=> ~ (c + 1 <= Cardinality(S0))
        /\ G # {} => First(G) \in S0 /\ Rank(S0, First(G)) = c + 1
    BY <2>1, FirstIsNext
  <2>3. F = G
    BY <1>9
  <2> HIDE DEF G
  <2>4. QED
    BY <2>2, <2>3
<1>11. \A i \in DOMAIN d : d[i] # NoOption /\ d[i].type # t =>
            (R(i) <= Rank(K(i), k + 1) <=> R(i) <= Rank(K(i), k))
  BY <1>5
<1>12. \A i \in S0 : R(i) <= Rank(K(i), k + 1) <=> Rank(S0, i) <= c + 1
  BY <1>5, <1>6, <1>8
<1>13. ASSUME F = {}
       PROVE  e = Discarded(d, opts, k + 1)
  <2>1. \A i \in S0 : Rank(S0, i) <= c /\ Rank(S0, i) <= c + 1
    BY <1>7, <1>10, <1>13
  <2>2. \A i \in DOMAIN d : d[i] # NoOption =>
            (R(i) <= Rank(K(i), k + 1) <=> R(i) <= Rank(K(i), k))
    BY <1>6, <1>8, <1>11, <1>12, <2>1
  <2>3. QED
    BY <1>3, <2>2
<1>14. ASSUME F # {}
       PROVE  [e EXCEPT ![First(F)] = NoOption] = Discarded(d, opts, k + 1)
  <2> DEFINE m == First(F)
  <2>1. m \in S0 /\ Rank(S0, m) = c + 1
    BY <1>10, <1>14
  <2> HIDE DEF m
  <2>2. \A i \in S0 : Rank(S0, i) = Rank(S0, m) => i = m
    BY <1>2, <1>6, <2>1, RankDiffers
  <2>3. \A i \in S0 : Rank(S0, i) <= c + 1 <=> Rank(S0, i) <= c \/ i = m
    BY <1>7, <2>1, <2>2
  <2>4. \A i \in DOMAIN d : d[i] # NoOption =>
            (R(i) <= Rank(K(i), k + 1) <=> R(i) <= Rank(K(i), k) \/ i = m)
    BY <1>6, <1>8, <1>11, <1>12, <2>1, <2>3
  <2>5. m \in DOMAIN d /\ d[m] # NoOption
    BY <1>6, <2>1
  <2>6. \A i \in DOMAIN d : [e EXCEPT ![m] = NoOption][i] = Discarded(d, opts, k + 1)[i]
    BY <1>3, <2>4, <2>5
  <2>7. QED
    BY <1>3, <2>6 DEF m
<1>15. QED
  BY <1>13, <1>14, <1>a

-----------------------------------------------------------------------------
(* Where the loops begin and end.                                           *)

LEMMA MarksEnds ==
    ASSUME NEW f \in Fsm, NEW opts \in Seq(Option)
    PROVE  /\ Marks(f, opts, 0) = {} /\ Marks(f, opts, Len(opts)) = Offered(f, opts)
           /\ Unacceptable(f, opts) = {} => Offered(f, opts) = {}
<1> DEFINE D == DOMAIN f.acceptable \ f.tried
           K(i) == UnacceptableOfType(f, opts, f.acceptable[i].type)
           U(i) == Untried(f, f.acceptable[i].type)
<1>1. Len(opts) \in Nat /\ Len(f.acceptable) \in Nat
  BY PositionSets, FsmLists
<1>2. \A i \in D : /\ Rank(K(i), 0) = 0 /\ Rank(K(i), Len(opts)) = Cardinality(K(i))
                   /\ K(i) = {} => Cardinality(K(i)) = 0
  <2> SUFFICES ASSUME NEW i \in D
               PROVE  /\ Rank(K(i), 0) = 0 /\ Rank(K(i), Len(opts)) = Cardinality(K(i))
                      /\ K(i) = {} => Cardinality(K(i)) = 0
    OBVIOUS
  <2>1. K(i) \in SUBSET (1 .. Len(opts))
    BY PositionSets
  <2> HIDE DEF K
  <2>2. QED
    BY <1>1, <2>1, RankEnds, PositionsFinite
<1>3. \A i \in D : ~ (Rank(U(i), i) <= 0)
  <2> SUFFICES ASSUME NEW i \in D
               PROVE  ~ (Rank(U(i), i) <= 0)
    OBVIOUS
  <2>1. U(i) \in SUBSET (1 .. Len(f.acceptable)) /\ i \in U(i)
    BY PositionSets DEF Untried
  <2> HIDE DEF U
  <2>2. Rank(U(i), i) \in 1 .. Cardinality(U(i)) /\ Cardinality(U(i)) \in Nat
    BY <1>1, <2>1, RankPositive, PositionsFinite
  <2>3. QED
    BY <2>2
<1>4. \A k : Marks(f, opts, k) = {i \in D : Rank(U(i), i) <= Rank(K(i), k)}
  BY DEF Marks
<1>5. Offered(f, opts) = {i \in D : Rank(U(i), i) <= Cardinality(K(i))}
  BY DEF Offered
<1>6. Unacceptable(f, opts) = {} => \A i \in D : K(i) = {}
  BY DEF UnacceptableOfType
<1>a. \A i \in D : Rank(K(i), 0) = 0
  BY <1>2, Zenon
<1>b. \A i \in D : Rank(K(i), Len(opts)) = Cardinality(K(i))
  BY <1>2, Zenon
<1>c. \A i \in D : K(i) = {} => Cardinality(K(i)) = 0
  BY <1>2, Zenon
<1> HIDE DEF D, K, U
<1>7. Marks(f, opts, 0) = {}
  <2>1. \A i \in D : ~ (Rank(U(i), i) <= Rank(K(i), 0))
    BY <1>3, <1>a, Zenon
  <2>2. Marks(f, opts, 0) = {i \in D : Rank(U(i), i) <= Rank(K(i), 0)}
    BY <1>4, Zenon
  <2>3. QED
    BY <2>1, <2>2, Zenon
<1>8. Marks(f, opts, Len(opts)) = Offered(f, opts)
  <2>1. \A i \in D : Rank(U(i), i) <= Rank(K(i), Len(opts)) <=> Rank(U(i), i) <= Cardinality(K(i))
    BY <1>b, Zenon
  <2>2. Marks(f, opts, Len(opts)) = {i \in D : Rank(U(i), i) <= Rank(K(i), Len(opts))}
    BY <1>4, Zenon
  <2>3. QED
    BY <1>5, <2>1, <2>2, Zenon
<1>9. Unacceptable(f, opts) = {} => Offered(f, opts) = {}
  <2>1. Unacceptable(f, opts) = {} => \A i \in D : ~ (Rank(U(i), i) <= Cardinality(K(i)))
    BY <1>3, <1>6, <1>c, Zenon
  <2>2. QED
    BY <1>5, <2>1, Zenon
<1>10. QED
  BY <1>7, <1>8, <1>9

Answered(f, frame, code, list, marked) ==
    /\ Reply(f, frame) = Frame(code, frame.id, list)
    /\ TriedAfter(f, frame.opts) = f.tried \cup marked

\* The frame and the marks, by what the request lacks.
LEMMA Replies ==
    ASSUME NEW f \in Fsm, NEW frame, frame.opts \in Seq(Option),
           NEW opts, opts = frame.opts
    PROVE  /\ Unrecognized(f, opts) # {} =>
                Answered(f, frame, "ConfRej", At(opts, Unrecognized(f, opts)), {})
           /\ Unrecognized(f, opts) = {} /\ Missing(f, opts) # {} =>
                Answered(f, frame, "ConfNak", At(f.desired_remote, Missing(f, opts)), {})
           /\ Unrecognized(f, opts) = {} /\ Missing(f, opts) = {} =>
                /\ Refused(f, opts) # {} =>
                     Answered(f, frame, "ConfRej", At(opts, Refused(f, opts)), Offered(f, opts))
                /\ Refused(f, opts) = {} /\ Answerable(f, opts) # {} =>
                     Answered(f, frame, "ConfNak", At(Offer(f, opts), Answerable(f, opts)),
                              Offered(f, opts))
                /\ Refused(f, opts) = {} /\ Answerable(f, opts) = {} =>
                     Answered(f, frame, "ConfAck", opts, Offered(f, opts))
<1>1. opts # Malformed /\ frame.opts = opts
  BY OptionAssumption
<1> DEFINE P == Unacceptable(f, opts)
           v == Verdict(f, opts)
<1>2. Refused(f, opts) = {} => Answerable(f, opts) = P
  BY DEF Answerable
<1>3. Unrecognized(f, opts) # {} => v = "Unrecognized"
  BY <1>1 DEF Verdict
<1>4. Unrecognized(f, opts) = {} /\ Missing(f, opts) # {} => v = "Missing"
  BY <1>1 DEF Verdict
<1>5. Unrecognized(f, opts) = {} /\ Missing(f, opts) = {} =>
        v = IF Refused(f, opts) # {} THEN "Refused" ELSE IF P # {} THEN "Counter" ELSE "Accept"
  BY <1>1 DEF Verdict
<1>6. /\ v = "Unrecognized" => Reply(f, frame) = Frame("ConfRej", frame.id, At(opts, Unrecognized(f, opts)))
      /\ v = "Missing" => Reply(f, frame) = Frame("ConfNak", frame.id, At(f.desired_remote, Missing(f, opts)))
      /\ v = "Refused" => Reply(f, frame) = Frame("ConfRej", frame.id, At(opts, Refused(f, opts)))
      /\ v = "Accept" => Reply(f, frame) = Frame("ConfAck", frame.id, opts)
  BY <1>1 DEF Reply
<1>7. v = "Counter" => Reply(f, frame) = Frame("ConfNak", frame.id,
            [n \in 1 .. Cardinality(P) |-> select_acceptable_option(f, opts, Nth(P, n))])
  BY <1>1 DEF Reply
<1>8. At(Offer(f, opts), P)
        = [n \in 1 .. Cardinality(P) |-> select_acceptable_option(f, opts, Nth(P, n))]
  <2>1. Len(opts) \in Nat /\ DOMAIN opts = 1 .. Len(opts) /\ P \in SUBSET (1 .. Len(opts))
    BY <1>1, PositionSets
  <2> HIDE DEF P
  <2>2. \A n \in 1 .. Cardinality(P) : Nth(P, n) \in P
    BY <2>1, NthExists
  <2>3. \A n \in 1 .. Cardinality(P) : Offer(f, opts)[Nth(P, n)]
                                            = select_acceptable_option(f, opts, Nth(P, n))
    BY <2>1, <2>2 DEF Offer
  <2>4. QED
    BY <2>3 DEF At
<1>9. TriedAfter(f, frame.opts) = IF v \in {"Refused", "Counter"} THEN f.tried \cup Offered(f, opts)
                                                                ELSE f.tried
  BY <1>1 DEF TriedAfter
<1>10. P = {} => Offered(f, opts) = {}
  BY <1>1, MarksEnds
<1> HIDE DEF P, v
<1>11. QED
  BY <1>2, <1>3, <1>4, <1>5, <1>6, <1>7, <1>8, <1>9, <1>10 DEF Answered

LEMMA UpdatesEnd ==
    ASSUME NEW d \in Seq(Option \cup {NoOption}), NEW opts \in Seq(Option)
    PROVE  /\ Suggested(d, opts, 0) = d /\ Suggested(d, opts, Len(opts)) = AfterNak(d, opts)
           /\ Discarded(d, opts, 0) = d /\ Discarded(d, opts, Len(opts)) = AfterReject(d, opts)
<1>1. Len(opts) \in Nat /\ DOMAIN opts = 1 .. Len(opts)
  BY LenProperties
<1>2. Len(d) \in Nat /\ DOMAIN d = 1 .. Len(d) /\ d = [i \in DOMAIN d |-> d[i]]
  BY LenProperties
<1>3. \A type : OfType(opts, type) \in SUBSET (1 .. Len(opts))
  BY <1>1 DEF OfType
<1>4. \A type : /\ Upto(OfType(opts, type), 0) = {}
                /\ Upto(OfType(opts, type), Len(opts)) = OfType(opts, type)
                /\ Rank(OfType(opts, type), 0) = 0
                /\ Rank(OfType(opts, type), Len(opts)) = Cardinality(OfType(opts, type))
  BY <1>1, <1>3, UptoEnds, RankEnds
<1>5. \A i \in DOMAIN d : d[i] # NoOption => ~ (Rank(SlotsOf(d, d[i].type), i) <= 0)
  <2> SUFFICES ASSUME NEW i \in DOMAIN d, d[i] # NoOption
               PROVE  ~ (Rank(SlotsOf(d, d[i].type), i) <= 0)
    OBVIOUS
  <2> DEFINE S == SlotsOf(d, d[i].type)
  <2>1. S \in SUBSET (1 .. Len(d)) /\ i \in S
    BY <1>2 DEF SlotsOf
  <2> HIDE DEF S
  <2>2. Rank(S, i) \in 1 .. Cardinality(S) /\ Cardinality(S) \in Nat
    BY <1>2, <2>1, RankPositive, PositionsFinite
  <2>3. QED
    BY <2>2 DEF S
<1>6. Suggested(d, opts, 0) = d
  BY <1>2, <1>4 DEF Suggested
<1>7. Suggested(d, opts, Len(opts)) = AfterNak(d, opts)
  BY <1>4 DEF Suggested, AfterNak
<1>8. Discarded(d, opts, 0) = d
  BY <1>2, <1>4, <1>5 DEF Discarded
<1>9. Discarded(d, opts, Len(opts)) = AfterReject(d, opts)
  BY <1>4 DEF Discarded, AfterReject, SlotsOf
<1>10. QED
  BY <1>6, <1>7, <1>8, <1>9

-----------------------------------------------------------------------------
(* What holds in each loop: the lists and the automaton are those of the    *)
(* options the loop is done with.                                           *)

Framed == \/ loop = "done" /\ received = NoFrame
          \/ received \in [code : {"ConfReq", "ConfNak", "ConfRej"}, id : {0}, opts : Lists]

Recognizing ==
    loop = "recognize" =>
        /\ received.code = "ConfReq" /\ self = before /\ idx <= Len(received.opts)
        /\ reject_list = At(received.opts, Upto(Unrecognized(before, received.opts), idx))
        /\ nak_list = <<>>

Demanding ==
    loop = "demand" =>
        /\ received.code = "ConfReq" /\ self = before /\ idx <= Len(before.desired_remote)
        /\ Unrecognized(before, received.opts) = {}
        /\ reject_list = <<>>
        /\ nak_list = At(before.desired_remote, Upto(Missing(before, received.opts), idx))

Judging ==
    loop = "judge" =>
        /\ received.code = "ConfReq" /\ idx <= Len(received.opts)
        /\ Unrecognized(before, received.opts) = {} /\ Missing(before, received.opts) = {}
        /\ self = [before EXCEPT !.tried = @ \cup Marks(before, received.opts, idx)]
        /\ reject_list = At(received.opts, Upto(Refused(before, received.opts), idx))
        /\ nak_list = At(Offer(before, received.opts),
                         Upto(Answerable(before, received.opts), idx))

Suggesting ==
    loop = "suggest" =>
        /\ received.code = "ConfNak" /\ idx <= Len(received.opts)
        /\ self = [before EXCEPT !.desired = Suggested(@, received.opts, idx)]

Discarding ==
    loop = "discard" =>
        /\ received.code = "ConfRej" /\ idx <= Len(received.opts)
        /\ self = [before EXCEPT !.desired = Discarded(@, received.opts, idx)]

Loops == {"recognize", "demand", "judge", "suggest", "discard", "done"}

WalkInductive ==
    /\ self \in Fsm /\ before \in Fsm /\ idx \in Nat /\ loop \in Loops /\ Framed
    /\ Recognizing /\ Demanding /\ Judging /\ Suggesting /\ Discarding
    /\ JudgedAsWalked /\ DesiredAsWalked

LEMMA InitWalks == WalkInit => WalkInductive
<1> SUFFICES ASSUME WalkInit
             PROVE  WalkInductive
  OBVIOUS
<1>1. Wanted \in Seq(Option \cup {NoOption}) /\ <<>> \in Seq(Option)
  BY WalkAssumption
<1>2. new(Wanted, Table, Demanded) \in Fsm
  BY <1>1, WalkAssumption, LimitsAssumption DEF new, Fsm, FsmStates, Ids
<1>3. received.code = "none"
  BY DEF WalkInit, NoFrame, Frame
<1>4. QED
  BY <1>2, <1>3 DEF WalkInit, WalkInductive, Loops, Framed, Recognizing, Demanding, Judging,
        Suggesting, Discarding, JudgedAsWalked, DesiredAsWalked

\* A frame is there while a loop runs.
LEMMA FrameThere ==
    ASSUME WalkInductive, loop # "done"
    PROVE  received.opts \in Seq(Option) /\ received.id = 0 /\ before \in Fsm /\ idx \in Nat
BY WalkAssumption DEF WalkInductive, Framed

LEMMA ComesWalks == ASSUME WalkInductive, Comes PROVE WalkInductive'
<1>1. loop = "done" /\ before' = self /\ self' = self /\ reject_list' = <<>> /\ nak_list' = <<>>
  BY DEF Comes
<1>2. PICK opts \in Lists :
        \/ received' = Frame("ConfReq", 0, opts) /\ loop' = "recognize" /\ idx' = 0
        \/ received' = Frame("ConfNak", 0, opts) /\ loop' = "suggest" /\ idx' = 0
        \/ received' = Frame("ConfRej", 0, opts) /\ loop' = "discard" /\ idx' = 0
  BY DEF Comes, Starts
<1>3. self \in Fsm /\ opts \in Seq(Option)
  BY WalkAssumption DEF WalkInductive
<1>4. Len(opts) \in Nat /\ self.desired \in Seq(Option \cup {NoOption})
  BY <1>3 DEF Fsm
<1>5. received'.opts = opts /\ idx' = 0 /\ idx' <= Len(opts) /\ loop' # "done"
      /\ loop' \in Loops /\ Framed'
  BY <1>2, <1>4 DEF Frame, Framed, Loops
<1>6. Recognizing'
  <2>1. Upto(Unrecognized(self, opts), 0) = {}
    BY <1>3, PositionSets, UptoEnds
  <2>2. At(opts, Upto(Unrecognized(self, opts), 0)) = <<>>
    BY <2>1, AtEmpty
  <2>3. loop' = "recognize" => received'.code = "ConfReq"
    BY <1>2 DEF Frame
  <2>4. QED
    BY <1>1, <1>5, <2>2, <2>3 DEF Recognizing
<1>7. Suggesting'
  <2>1. loop' = "suggest" => received'.code = "ConfNak"
    BY <1>2 DEF Frame
  <2>2. [self EXCEPT !.desired = Suggested(@, opts, 0)] = self
    BY <1>3, <1>4, UpdatesEnd DEF Fsm
  <2>3. QED
    BY <1>1, <1>5, <2>1, <2>2 DEF Suggesting
<1>8. Discarding'
  <2>1. loop' = "discard" => received'.code = "ConfRej"
    BY <1>2 DEF Frame
  <2>2. [self EXCEPT !.desired = Discarded(@, opts, 0)] = self
    BY <1>3, <1>4, UpdatesEnd DEF Fsm
  <2>3. QED
    BY <1>1, <1>5, <2>1, <2>2 DEF Discarding
<1>9. loop' \notin {"demand", "judge", "done"}
  BY <1>2
<1>10. Demanding' /\ Judging' /\ JudgedAsWalked' /\ DesiredAsWalked'
  BY <1>9 DEF Demanding, Judging, JudgedAsWalked, DesiredAsWalked
<1>11. self' \in Fsm /\ before' \in Fsm /\ idx' \in Nat
  BY <1>1, <1>3, <1>5
<1>12. QED
  BY <1>5, <1>6, <1>7, <1>8, <1>10, <1>11 DEF WalkInductive

\* The conditions of the other loops are void while one runs.
LEMMA OneLoop ==
    ASSUME WalkInductive, loop' \in Loops, loop' # "done",
           received' = received, before' = before, self' \in Fsm, idx' \in Nat, Framed',
           Recognizing', Demanding', Judging', Suggesting', Discarding'
    PROVE  WalkInductive'
BY DEF WalkInductive, JudgedAsWalked, DesiredAsWalked

LEMMA RecognizeWalks == ASSUME WalkInductive, Recognize PROVE WalkInductive'
<1> DEFINE K == Unrecognized(before, received.opts)
           o == received.opts
<1>1. /\ loop = "recognize" /\ loop' = loop /\ idx < Len(o) /\ idx' = idx + 1
      /\ before' = before /\ received' = received /\ self' = self /\ nak_list' = nak_list
      /\ reject_list' = IF is_option_recognized(self, o[idx + 1].type) THEN reject_list
                        ELSE Append(reject_list, o[idx + 1])
  BY DEF Recognize, Walks, opt
<1>2. o \in Seq(Option) /\ before \in Fsm /\ idx \in Nat
  BY <1>1, FrameThere
<1>3. /\ received.code = "ConfReq" /\ self = before
      /\ reject_list = At(o, Upto(K, idx)) /\ nak_list = <<>>
  BY <1>1 DEF WalkInductive, Recognizing
<1>4. Len(o) \in Nat /\ idx + 1 \in DOMAIN o /\ idx' \in Nat /\ idx' <= Len(o)
  BY <1>1, <1>2, LenProperties
<1>5. K \in SUBSET (1 .. Len(o)) /\ \A p \in K : o[p] \in Option
  <2>1. K \in SUBSET (1 .. Len(o))
    BY <1>2, PositionSets
  <2>2. \A p \in 1 .. Len(o) : o[p] \in Option
    BY <1>2, LenProperties
  <2>3. QED
    BY <2>1, <2>2
<1>6. idx + 1 \in K <=> ~ is_option_recognized(self, o[idx + 1].type)
  BY <1>3, <1>4 DEF Unrecognized
<1> HIDE DEF K, o
<1>7. /\ idx + 1 \in K => At(o, Upto(K, idx + 1)) = Append(At(o, Upto(K, idx)), o[idx + 1])
      /\ idx + 1 \notin K => Upto(K, idx + 1) = Upto(K, idx)
  BY <1>2, <1>4, <1>5, AtGrows
<1>8. reject_list' = At(o, Upto(K, idx'))
  BY <1>1, <1>3, <1>6, <1>7
<1>9. Recognizing'
  BY <1>1, <1>3, <1>4, <1>8 DEF Recognizing, K, o
<1>10. Framed' /\ Demanding' /\ Judging' /\ Suggesting' /\ Discarding'
  BY <1>1 DEF WalkInductive, Framed, Demanding, Judging, Suggesting, Discarding
<1>11. QED
  BY <1>1, <1>2, <1>3, <1>4, <1>9, <1>10, OneLoop DEF Loops

LEMMA DemandWalks == ASSUME WalkInductive, Demand PROVE WalkInductive'
<1> DEFINE d == before.desired_remote
           K == Missing(before, received.opts)
           o == received.opts
<1>1. /\ loop = "demand" /\ loop' = loop /\ idx < Len(self.desired_remote) /\ idx' = idx + 1
      /\ before' = before /\ received' = received /\ self' = self /\ reject_list' = reject_list
      /\ nak_list' = IF \E p \in DOMAIN o : o[p].type = self.desired_remote[idx + 1].type
                     THEN nak_list ELSE Append(nak_list, self.desired_remote[idx + 1])
  BY DEF Demand, Walks
<1>2. o \in Seq(Option) /\ before \in Fsm /\ idx \in Nat
  BY <1>1, FrameThere
<1>3. /\ received.code = "ConfReq" /\ self = before /\ Unrecognized(before, o) = {}
      /\ reject_list = <<>> /\ nak_list = At(d, Upto(K, idx))
  BY <1>1 DEF WalkInductive, Demanding
<1>4. Len(d) \in Nat /\ idx + 1 \in DOMAIN d /\ idx' \in Nat /\ idx' <= Len(d)
  BY <1>1, <1>2, <1>3, FsmLists
<1>5. K \in SUBSET (1 .. Len(d)) /\ \A p \in K : d[p] \in Option
  <2>1. K \in SUBSET (1 .. Len(d))
    BY <1>2, PositionSets
  <2>2. d \in Seq(Option)
    BY <1>2 DEF Fsm
  <2> HIDE DEF d
  <2>3. \A p \in 1 .. Len(d) : d[p] \in Option
    BY <2>2, LenProperties
  <2>4. QED
    BY <2>1, <2>3
<1>6. idx + 1 \in K <=> ~ \E p \in DOMAIN o : o[p].type = d[idx + 1].type
  BY <1>4 DEF Missing
<1>a. nak_list' = IF \E p \in DOMAIN o : o[p].type = d[idx + 1].type
                  THEN nak_list ELSE Append(nak_list, d[idx + 1])
  BY <1>1, <1>3
<1> HIDE DEF K, d, o
<1>7. /\ idx + 1 \in K => At(d, Upto(K, idx + 1)) = Append(At(d, Upto(K, idx)), d[idx + 1])
      /\ idx + 1 \notin K => Upto(K, idx + 1) = Upto(K, idx)
  BY <1>2, <1>4, <1>5, AtGrows
<1>8. nak_list' = At(d, Upto(K, idx'))
  BY <1>1, <1>3, <1>6, <1>7, <1>a
<1>9. Demanding'
  BY <1>1, <1>3, <1>4, <1>8 DEF Demanding, K, d, o
<1>10. Framed' /\ Recognizing' /\ Judging' /\ Suggesting' /\ Discarding'
  BY <1>1 DEF WalkInductive, Framed, Recognizing, Judging, Suggesting, Discarding
<1>11. QED
  BY <1>1, <1>2, <1>3, <1>4, <1>9, <1>10, OneLoop DEF Loops

LEMMA JudgeWalks == ASSUME WalkInductive, Judge PROVE WalkInductive'
<1> DEFINE o == received.opts
           R == Refused(before, o)
           A == Answerable(before, o)
           F == Offer(before, o)
           entry == First(Free(opt.type))
<1>1. /\ loop = "judge" /\ loop' = loop /\ idx < Len(o) /\ idx' = idx + 1
      /\ before' = before /\ received' = received /\ answer' = answer
      /\ Passes \/ Offers \/ Refuses
  BY DEF Judge, Walks
<1>2. o \in Seq(Option) /\ before \in Fsm /\ idx \in Nat
  BY <1>1, FrameThere
<1>3. /\ received.code = "ConfReq"
      /\ Unrecognized(before, o) = {} /\ Missing(before, o) = {}
      /\ self = [before EXCEPT !.tried = @ \cup Marks(before, o, idx)]
      /\ reject_list = At(o, Upto(R, idx)) /\ nak_list = At(F, Upto(A, idx))
  BY <1>1 DEF WalkInductive, Judging
<1>4. Len(o) \in Nat /\ idx + 1 \in DOMAIN o /\ idx' \in Nat /\ idx' <= Len(o)
      /\ DOMAIN o = 1 .. Len(o)
  BY <1>1, <1>2, LenProperties
<1>5. self.acceptable = before.acceptable /\ self.tried = before.tried \cup Marks(before, o, idx)
  BY <1>2, <1>3 DEF Fsm
<1>6. opt = o[idx + 1]
  BY DEF opt
<1>7. Free(opt.type) = Untried(before, o[idx + 1].type) \ Marks(before, o, idx)
  BY <1>5, <1>6 DEF Free, Untried
<1>8. is_option_acceptable(self, opt) <=> is_option_acceptable(before, o[idx + 1])
  BY <1>5, <1>6 DEF is_option_acceptable
<1>9. /\ is_option_acceptable(self, opt) => Spared(before, o, idx)
      /\ ~ is_option_acceptable(self, opt) =>
            IF Free(opt.type) = {} THEN Rejected(before, o, idx)
                                   ELSE Countered(before, o, idx, entry)
  BY <1>1, <1>2, <1>7, <1>8, JudgeStep
<1>10. R \in SUBSET (1 .. Len(o)) /\ A \in SUBSET (1 .. Len(o))
  BY <1>2, PositionSets
<1>11. \A p \in R : o[p] \in Option
  BY <1>2, <1>4, <1>10, LenProperties
<1>b. A \cap R = {} /\ R \cup A = Unacceptable(before, o)
  BY DEF Answerable, Refused
<1>c. idx + 1 \in A => F[idx + 1] = select_acceptable_option(before, o, idx + 1)
  BY <1>4 DEF Offer
<1> HIDE DEF o, R, A, F, entry
<1>12. /\ idx + 1 \in R => At(o, Upto(R, idx + 1)) = Append(At(o, Upto(R, idx)), o[idx + 1])
       /\ idx + 1 \notin R => Upto(R, idx + 1) = Upto(R, idx)
  BY <1>2, <1>4, <1>10, <1>11, AtGrows
<1>13. /\ idx + 1 \in A => At(F, Upto(A, idx + 1)) = Append(At(F, Upto(A, idx)), F[idx + 1])
       /\ idx + 1 \notin A => Upto(A, idx + 1) = Upto(A, idx)
  <2> DEFINE V == {F[p] : p \in A}
  <2>1. \A p \in A : F[p] \in V
    OBVIOUS
  <2> HIDE DEF V
  <2>2. QED
    BY <1>2, <1>4, <1>10, <2>1, AtGrows
<1> DEFINE Kept == /\ self' = [before EXCEPT !.tried = @ \cup Marks(before, o, idx + 1)]
                   /\ reject_list' = At(o, Upto(R, idx + 1))
                   /\ nak_list' = At(F, Upto(A, idx + 1))
<1>14. ASSUME Passes
       PROVE  Kept
  <2>1. Spared(before, o, idx) /\ self' = self /\ reject_list' = reject_list /\ nak_list' = nak_list
    BY <1>9, <1>14 DEF Passes, lists
  <2>2. idx + 1 \notin R /\ idx + 1 \notin A /\ Marks(before, o, idx + 1) = Marks(before, o, idx)
    BY <1>b, <2>1 DEF Spared
  <2>3. QED
    BY <1>3, <1>12, <1>13, <2>1, <2>2
<1>15. ASSUME Refuses
       PROVE  Kept
  <2>1. /\ Rejected(before, o, idx) /\ self' = self /\ nak_list' = nak_list
        /\ reject_list' = Append(reject_list, o[idx + 1])
    BY <1>6, <1>9, <1>15 DEF Refuses
  <2>2. idx + 1 \in R /\ idx + 1 \notin A /\ Marks(before, o, idx + 1) = Marks(before, o, idx)
    BY <1>b, <2>1 DEF Rejected, R
  <2>3. QED
    BY <1>3, <1>12, <1>13, <2>1, <2>2
<1>16. ASSUME Offers
       PROVE  Kept
  <2>1. /\ Countered(before, o, idx, entry) /\ reject_list' = reject_list
        /\ self' = [self EXCEPT !.tried = @ \cup {entry}]
        /\ nak_list' = Append(nak_list, self.acceptable[entry])
    BY <1>6, <1>9, <1>16 DEF Offers, entry
  <2>2. /\ Marks(before, o, idx + 1) = Marks(before, o, idx) \cup {entry}
        /\ idx + 1 \in A /\ before.acceptable[entry] = select_acceptable_option(before, o, idx + 1)
    BY <2>1 DEF Countered, A
  <2>3. idx + 1 \notin R
    BY <1>b, <2>2
  <2>4. nak_list' = At(F, Upto(A, idx + 1))
    BY <1>3, <1>5, <1>13, <1>c, <2>1, <2>2
  <2>5. self' = [before EXCEPT !.tried = @ \cup Marks(before, o, idx + 1)]
    <3>1. self' = [before EXCEPT !.tried = self.tried \cup {entry}]
      BY <1>2, <1>3, <2>1 DEF Fsm
    <3>2. self.tried \cup {entry} = before.tried \cup Marks(before, o, idx + 1)
      BY <1>5, <2>2
    <3>3. QED
      BY <3>1, <3>2
  <2>6. QED
    BY <1>3, <1>12, <2>1, <2>3, <2>4, <2>5
<1>17. Kept
  BY <1>1, <1>14, <1>15, <1>16
<1>18. Judging'
  BY <1>1, <1>3, <1>4, <1>17 DEF Judging, o, R, A, F
<1>19. self' \in Fsm
  <2>1. before.tried \cup Marks(before, o, idx + 1) \in SUBSET Nat
    BY <1>2, FsmLists DEF Marks, Fsm
  <2>2. QED
    BY <1>2, <1>17, <2>1 DEF Fsm
<1>20. Framed' /\ Recognizing' /\ Demanding' /\ Suggesting' /\ Discarding'
  BY <1>1 DEF WalkInductive, Framed, Recognizing, Demanding, Suggesting, Discarding
<1>21. QED
  BY <1>1, <1>4, <1>18, <1>19, <1>20, OneLoop DEF Loops

LEMMA SuggestWalks == ASSUME WalkInductive, Suggest PROVE WalkInductive'
<1> DEFINE o == received.opts
           e == Suggested(before.desired, o, idx)
<1>1. /\ loop = "suggest" /\ loop' = loop /\ idx < Len(o) /\ idx' = idx + 1
      /\ before' = before /\ received' = received
      /\ self' = [self EXCEPT !.desired =
                    [i \in DOMAIN @ |-> IF i \in Slots(opt.type) THEN opt ELSE @[i]]]
  BY DEF Suggest, Walks
<1>2. o \in Seq(Option) /\ before \in Fsm /\ idx \in Nat
  BY <1>1, FrameThere
<1>3. received.code = "ConfNak" /\ self = [before EXCEPT !.desired = e]
  BY <1>1 DEF WalkInductive, Suggesting
<1>4. Len(o) \in Nat /\ idx' \in Nat /\ idx' <= Len(o)
  BY <1>1, <1>2, LenProperties
<1>5. opt = o[idx + 1]
  BY DEF opt
<1>6. before.desired \in Seq(Option \cup {NoOption})
  BY <1>2 DEF Fsm
<1>a. e = Suggested(before.desired, o, idx) /\ idx < Len(o)
  BY <1>1
<1> HIDE DEF o, e
<1>7. self.desired = e
  BY <1>2, <1>3 DEF Fsm
<1>8. Slots(opt.type) = SlotsOf(e, o[idx + 1].type)
  BY <1>5, <1>7 DEF Slots, SlotsOf
<1>9. AfterSuggest(e, o[idx + 1]) = Suggested(before.desired, o, idx + 1)
  BY <1>2, <1>6, <1>a, SuggestStep
<1>10. self' = [self EXCEPT !.desired = Suggested(before.desired, o, idx + 1)]
  BY <1>1, <1>5, <1>7, <1>8, <1>9 DEF AfterSuggest
<1>11. self' = [before EXCEPT !.desired = Suggested(before.desired, o, idx + 1)]
  BY <1>2, <1>3, <1>10 DEF Fsm
<1>12. Suggesting'
  BY <1>1, <1>3, <1>4, <1>11 DEF Suggesting, o
<1>13. self' \in Fsm
  <2>1. Suggested(before.desired, o, idx + 1) \in Seq(Option \cup {NoOption})
    BY <1>2, <1>6, SuggestedTyped
  <2>2. QED
    BY <1>2, <1>11, <2>1 DEF Fsm
<1>14. Framed' /\ Recognizing' /\ Demanding' /\ Judging' /\ Discarding'
  BY <1>1 DEF WalkInductive, Framed, Recognizing, Demanding, Judging, Discarding
<1>15. QED
  BY <1>1, <1>4, <1>12, <1>13, <1>14, OneLoop DEF Loops

LEMMA DiscardWalks == ASSUME WalkInductive, Discard PROVE WalkInductive'
<1> DEFINE o == received.opts
           e == Discarded(before.desired, o, idx)
           F == Slots(opt.type)
<1>1. /\ loop = "discard" /\ loop' = loop /\ idx < Len(o) /\ idx' = idx + 1
      /\ before' = before /\ received' = received
      /\ self' = IF F = {} THEN self ELSE [self EXCEPT !.desired[First(F)] = NoOption]
  BY DEF Discard, Walks
<1>2. o \in Seq(Option) /\ before \in Fsm /\ idx \in Nat
  BY <1>1, FrameThere
<1>3. received.code = "ConfRej" /\ self = [before EXCEPT !.desired = e]
  BY <1>1 DEF WalkInductive, Discarding
<1>4. Len(o) \in Nat /\ idx' \in Nat /\ idx' <= Len(o)
  BY <1>1, <1>2, LenProperties
<1>5. opt = o[idx + 1]
  BY DEF opt
<1>6. before.desired \in Seq(Option \cup {NoOption})
  BY <1>2 DEF Fsm
<1>a. e = Discarded(before.desired, o, idx) /\ idx < Len(o)
  BY <1>1
<1> HIDE DEF o, e
<1>7. self.desired = e
  BY <1>2, <1>3 DEF Fsm
<1>8. F = SlotsOf(e, o[idx + 1].type)
  BY <1>5, <1>7 DEF Slots, SlotsOf
<1> HIDE DEF F
<1>9. (IF F = {} THEN e ELSE [e EXCEPT ![First(F)] = NoOption])
        = Discarded(before.desired, o, idx + 1)
  <2>1. AfterDiscard(e, o[idx + 1]) = Discarded(before.desired, o, idx + 1)
    BY <1>2, <1>6, <1>a, DiscardStep
  <2>2. QED
    BY <1>8, <2>1 DEF AfterDiscard
<1>10. self' = [before EXCEPT !.desired = Discarded(before.desired, o, idx + 1)]
  <2>1. CASE F = {}
    BY <1>1, <1>3, <1>9, <2>1
  <2>2. CASE F # {}
    <3>1. self' = [self EXCEPT !.desired = [e EXCEPT ![First(F)] = NoOption]]
      BY <1>1, <1>7, <2>2
    <3>2. QED
      BY <1>2, <1>3, <1>9, <2>2, <3>1 DEF Fsm
  <2>3. QED
    BY <2>1, <2>2
<1>11. Discarding'
  BY <1>1, <1>3, <1>4, <1>10 DEF Discarding, o
<1>12. self' \in Fsm
  <2>1. Discarded(before.desired, o, idx + 1) \in Seq(Option \cup {NoOption})
    BY <1>2, <1>6, DiscardedTyped
  <2>2. QED
    BY <1>2, <1>10, <2>1 DEF Fsm
<1>13. Framed' /\ Recognizing' /\ Demanding' /\ Judging' /\ Suggesting'
  BY <1>1 DEF WalkInductive, Framed, Recognizing, Demanding, Judging, Suggesting
<1>14. QED
  BY <1>1, <1>4, <1>11, <1>12, <1>13, OneLoop DEF Loops

\* The same at the end of the walk, where a frame is answered.
LEMMA AnswerWalks ==
    ASSUME WalkInductive, loop # "done", received.code = "ConfReq",
           loop' = "done", idx' = 0, UNCHANGED <<self, before, received>>,
           NEW code, NEW list, NEW marked, answer' = Frame(code, received.id, list),
           Answered(before, received, code, list, marked),
           self = [before EXCEPT !.tried = @ \cup marked]
    PROVE  WalkInductive'
<1>1. JudgedAsWalked'
  BY DEF Answered, JudgedAsWalked
<1>2. DesiredAsWalked'
  BY DEF DesiredAsWalked
<1>3. /\ self' \in Fsm /\ before' \in Fsm /\ idx' \in Nat /\ loop' \in Loops /\ Framed'
      /\ Recognizing' /\ Demanding' /\ Judging' /\ Suggesting' /\ Discarding'
  BY DEF WalkInductive, Loops, Framed, Recognizing, Demanding, Judging, Suggesting, Discarding
<1>4. QED
  BY <1>1, <1>2, <1>3 DEF WalkInductive

LEMMA RecognizedWalks == ASSUME WalkInductive, Recognized PROVE WalkInductive'
<1> DEFINE o == received.opts
           K == Unrecognized(before, o)
<1>1. /\ loop = "recognize" /\ idx = Len(o) /\ self' = self /\ before' = before
      /\ received' = received /\ UNCHANGED lists
      /\ IF reject_list # <<>> THEN Answers("ConfRej", reject_list)
                               ELSE Starts("demand") /\ answer' = answer
  BY DEF Recognized, Ends, Answers
<1>2. o \in Seq(Option) /\ before \in Fsm /\ loop # "done"
  BY <1>1, FrameThere
<1>3. /\ received.code = "ConfReq" /\ self = before
      /\ reject_list = At(o, Upto(K, idx)) /\ nak_list = <<>>
  BY <1>1 DEF WalkInductive, Recognizing
<1>4. K \in SUBSET (1 .. Len(o)) /\ Len(o) \in Nat
  BY <1>2, PositionSets
<1>5. reject_list = At(o, K) /\ (reject_list = <<>> <=> K = {})
  <2> HIDE DEF K, o
  <2>1. reject_list = At(o, K)
    BY <1>1, <1>3, <1>4, UptoEnds
  <2>2. At(o, K) = <<>> <=> K = {}
    BY <1>4, AtFilled
  <2>3. QED
    BY <2>1, <2>2
<1>6. CASE reject_list # <<>>
  <2>1. /\ answer' = Frame("ConfRej", received.id, At(o, K)) /\ loop' = "done" /\ idx' = 0
    BY <1>1, <1>5, <1>6 DEF Answers, Starts
  <2>2. Answered(before, received, "ConfRej", At(o, K), {})
    BY <1>2, <1>5, <1>6, Replies
  <2>3. self = [before EXCEPT !.tried = @ \cup {}]
    BY <1>2, <1>3 DEF Fsm
  <2>4. QED
    BY <1>1, <1>2, <1>3, <2>1, <2>2, <2>3, AnswerWalks
<1>7. CASE reject_list = <<>>
  <2>1. loop' = "demand" /\ idx' = 0 /\ reject_list' = <<>> /\ nak_list' = <<>>
    BY <1>1, <1>3, <1>7 DEF Starts, lists
  <2>2. At(before.desired_remote, Upto(Missing(before, o), 0)) = <<>>
    BY <1>2, PositionSets, UptoEnds, FsmLists, AtEmpty
  <2>3. Demanding'
    BY <1>1, <1>2, <1>3, <1>5, <1>7, <2>1, <2>2, FsmLists DEF Demanding
  <2>4. Framed' /\ Recognizing' /\ Judging' /\ Suggesting' /\ Discarding'
    BY <1>1, <2>1 DEF WalkInductive, Framed, Recognizing, Judging, Suggesting, Discarding
  <2>5. self' \in Fsm /\ idx' \in Nat
    BY <1>1, <1>2, <1>3, <2>1
  <2>6. QED
    BY <1>1, <2>1, <2>3, <2>4, <2>5, OneLoop DEF Loops
<1>8. QED
  BY <1>6, <1>7

LEMMA DemandsMetWalks == ASSUME WalkInductive, DemandsMet PROVE WalkInductive'
<1> DEFINE o == received.opts
           d == before.desired_remote
           K == Missing(before, o)
<1>1. /\ loop = "demand" /\ idx = Len(self.desired_remote) /\ self' = self /\ before' = before
      /\ received' = received /\ UNCHANGED lists
      /\ IF nak_list # <<>> THEN Answers("ConfNak", nak_list)
                            ELSE Starts("judge") /\ answer' = answer
  BY DEF DemandsMet, Ends, Answers
<1>2. o \in Seq(Option) /\ before \in Fsm /\ loop # "done"
  BY <1>1, FrameThere
<1>3. /\ received.code = "ConfReq" /\ self = before /\ Unrecognized(before, o) = {}
      /\ reject_list = <<>> /\ nak_list = At(d, Upto(K, idx))
  BY <1>1 DEF WalkInductive, Demanding
<1>4. K \in SUBSET (1 .. Len(d)) /\ Len(d) \in Nat
  BY <1>2, PositionSets, FsmLists
<1>5. nak_list = At(d, K) /\ (nak_list = <<>> <=> K = {})
  <2>1. idx = Len(d)
    BY <1>1, <1>3
  <2> HIDE DEF K, d
  <2>2. nak_list = At(d, K)
    BY <1>3, <1>4, <2>1, UptoEnds
  <2>3. At(d, K) = <<>> <=> K = {}
    BY <1>4, AtFilled
  <2>4. QED
    BY <2>2, <2>3
<1>6. CASE nak_list # <<>>
  <2>1. /\ answer' = Frame("ConfNak", received.id, At(d, K)) /\ loop' = "done" /\ idx' = 0
    BY <1>1, <1>5, <1>6 DEF Answers, Starts
  <2>2. Answered(before, received, "ConfNak", At(d, K), {})
    BY <1>2, <1>3, <1>5, <1>6, Replies
  <2>3. self = [before EXCEPT !.tried = @ \cup {}]
    BY <1>2, <1>3 DEF Fsm
  <2>4. QED
    BY <1>1, <1>2, <1>3, <2>1, <2>2, <2>3, AnswerWalks
<1>7. CASE nak_list = <<>>
  <2>1. loop' = "judge" /\ idx' = 0 /\ reject_list' = <<>> /\ nak_list' = <<>>
    BY <1>1, <1>3, <1>7 DEF Starts, lists
  <2>2. Len(o) \in Nat /\ Upto(Refused(before, o), 0) = {} /\ Upto(Answerable(before, o), 0) = {}
    BY <1>2, PositionSets, UptoEnds
  <2>3. /\ At(o, Upto(Refused(before, o), 0)) = <<>>
        /\ At(Offer(before, o), Upto(Answerable(before, o), 0)) = <<>>
    BY <2>2, AtEmpty
  <2>4. before = [before EXCEPT !.tried = @ \cup Marks(before, o, 0)]
    BY <1>2, MarksEnds DEF Fsm
  <2>5. Judging'
    BY <1>1, <1>3, <1>5, <1>7, <2>1, <2>2, <2>3, <2>4 DEF Judging
  <2>6. Framed' /\ Recognizing' /\ Demanding' /\ Suggesting' /\ Discarding'
    BY <1>1, <2>1 DEF WalkInductive, Framed, Recognizing, Demanding, Suggesting, Discarding
  <2>7. self' \in Fsm /\ idx' \in Nat
    BY <1>1, <1>2, <1>3, <2>1
  <2>8. QED
    BY <1>1, <2>1, <2>5, <2>6, <2>7, OneLoop DEF Loops
<1>8. QED
  BY <1>6, <1>7

LEMMA JudgedWalks == ASSUME WalkInductive, Judged PROVE WalkInductive'
<1> DEFINE o == received.opts
           R == Refused(before, o)
           A == Answerable(before, o)
           F == Offer(before, o)
<1>1. /\ loop = "judge" /\ idx = Len(o) /\ self' = self /\ before' = before /\ received' = received
      /\ IF reject_list # <<>> THEN Answers("ConfRej", reject_list)
         ELSE IF nak_list # <<>> THEN Answers("ConfNak", nak_list) ELSE Answers("ConfAck", o)
  BY DEF Judged, Ends
<1>2. o \in Seq(Option) /\ before \in Fsm /\ loop # "done"
  BY <1>1, FrameThere
<1>3. /\ received.code = "ConfReq" /\ Unrecognized(before, o) = {} /\ Missing(before, o) = {}
      /\ self = [before EXCEPT !.tried = @ \cup Marks(before, o, idx)]
      /\ reject_list = At(o, Upto(R, idx)) /\ nak_list = At(F, Upto(A, idx))
  BY <1>1 DEF WalkInductive, Judging
<1>4. R \in SUBSET (1 .. Len(o)) /\ A \in SUBSET (1 .. Len(o)) /\ Len(o) \in Nat
  BY <1>2, PositionSets
<1>5. /\ reject_list = At(o, R) /\ (reject_list = <<>> <=> R = {})
      /\ nak_list = At(F, A) /\ (nak_list = <<>> <=> A = {})
  <2> HIDE DEF R, A, F, o
  <2>1. reject_list = At(o, R) /\ nak_list = At(F, A)
    BY <1>1, <1>3, <1>4, UptoEnds
  <2>2. (At(o, R) = <<>> <=> R = {}) /\ (At(F, A) = <<>> <=> A = {})
    BY <1>4, AtFilled
  <2>3. QED
    BY <2>1, <2>2
<1>6. self = [before EXCEPT !.tried = @ \cup Offered(before, o)]
  BY <1>1, <1>2, <1>3, MarksEnds
<1>7. /\ R # {} => Answered(before, received, "ConfRej", At(o, R), Offered(before, o))
      /\ R = {} /\ A # {} => Answered(before, received, "ConfNak", At(F, A), Offered(before, o))
      /\ R = {} /\ A = {} => Answered(before, received, "ConfAck", o, Offered(before, o))
  BY <1>2, <1>3, Replies
<1>9. PICK code, list : /\ Answers(code, list)
                        /\ Answered(before, received, code, list, Offered(before, o))
  BY <1>1, <1>5, <1>7
<1>10. answer' = Frame(code, received.id, list) /\ loop' = "done" /\ idx' = 0
  BY <1>9 DEF Answers, Starts
<1>11. QED
  BY <1>1, <1>2, <1>3, <1>6, <1>9, <1>10, AnswerWalks

LEMMA UpdatedWalks == ASSUME WalkInductive, Updated PROVE WalkInductive'
<1> DEFINE o == received.opts
<1>1. /\ loop \in {"suggest", "discard"} /\ idx = Len(o) /\ loop' = "done" /\ idx' = 0
      /\ self' = self /\ before' = before /\ received' = received
  BY DEF Updated, Ends, Starts
<1>2. o \in Seq(Option) /\ before \in Fsm /\ before.desired \in Seq(Option \cup {NoOption})
  BY <1>1, FrameThere DEF Fsm
<1>3. /\ Suggested(before.desired, o, Len(o)) = AfterNak(before.desired, o)
      /\ Discarded(before.desired, o, Len(o)) = AfterReject(before.desired, o)
  BY <1>2, UpdatesEnd
<1>4. /\ received.code \in {"ConfNak", "ConfRej"}
      /\ self = [before EXCEPT !.desired = update_desired_local_options(@, received)]
  <2>1. CASE loop = "suggest"
    BY <1>1, <1>3, <2>1 DEF WalkInductive, Suggesting, update_desired_local_options
  <2>2. CASE loop = "discard"
    BY <1>1, <1>3, <2>2 DEF WalkInductive, Discarding, update_desired_local_options
  <2>3. QED
    BY <1>1, <2>1, <2>2
<1>5. DesiredAsWalked' /\ JudgedAsWalked'
  BY <1>1, <1>4 DEF DesiredAsWalked, JudgedAsWalked
<1>6. /\ self' \in Fsm /\ before' \in Fsm /\ idx' \in Nat /\ loop' \in Loops /\ Framed'
      /\ Recognizing' /\ Demanding' /\ Judging' /\ Suggesting' /\ Discarding'
  BY <1>1 DEF WalkInductive, Loops, Framed, Recognizing, Demanding, Judging, Suggesting, Discarding
<1>7. QED
  BY <1>5, <1>6 DEF WalkInductive

LEMMA NextWalks == WalkInductive /\ [WalkNext]_walkVars => WalkInductive'
<1>1. ASSUME WalkInductive, UNCHANGED walkVars
      PROVE  WalkInductive'
  BY <1>1 DEF walkVars, lists, WalkInductive, Framed, Recognizing, Demanding, Judging, Suggesting,
        Discarding, JudgedAsWalked, DesiredAsWalked
<1>2. QED
  BY <1>1, ComesWalks, RecognizeWalks, RecognizedWalks, DemandWalks, DemandsMetWalks, JudgeWalks,
     JudgedWalks, SuggestWalks, DiscardWalks, UpdatedWalks DEF WalkNext

\* What the loops write into the two lists and the answer.
Written ==
    /\ reject_list \in Seq(Option) /\ nak_list \in Seq(Option \cup TableEntry)
    /\ answer \in [code : {"none", "ConfRej", "ConfNak", "ConfAck"}, id : {0},
                   opts : Seq(Option \cup TableEntry)]

\* A list of either kind, and the option a loop is at, are of the right type.
LEMMA AnswersTyped ==
    ASSUME WalkInductive, Written, loop # "done",
           NEW code \in {"ConfRej", "ConfNak", "ConfAck"},
           NEW list \in {reject_list, nak_list, received.opts}, Answers(code, list)
    PROVE  Written'
<1>1. received.opts \in Seq(Option) /\ received.id = 0
  BY FrameThere
<1>2. list \in Seq(Option \cup TableEntry)
  BY <1>1 DEF Written
<1>3. QED
  BY <1>1, <1>2 DEF Answers, lists, Written, Frame

LEMMA JudgeTyped == ASSUME WalkInductive, Written, Judge PROVE Written'
<1> DEFINE F == Free(opt.type)
<1>1. /\ idx < Len(received.opts) /\ answer' = answer /\ loop # "done"
      /\ Passes \/ Offers \/ Refuses
  BY DEF Judge, Walks
<1>2. opt \in Option
  <2>1. received.opts \in Seq(Option) /\ idx \in Nat
    BY <1>1, FrameThere
  <2>2. QED
    BY <1>1, <2>1, LenProperties DEF opt
<1>3. F # {} => self.acceptable[First(F)] \in TableEntry
  <2>1. self \in Fsm /\ self.acceptable \in Seq(TableEntry)
    BY DEF WalkInductive, Fsm
  <2>2. F \subseteq DOMAIN self.acceptable /\ DOMAIN self.acceptable \subseteq Nat
    BY <2>1, FsmLists DEF Free
  <2> HIDE DEF F
  <2>3. F # {} => \E k \in F : \A j \in F : k <= j
    BY <2>2, LeastExists
  <2>4. F # {} => First(F) \in DOMAIN self.acceptable
    BY <2>2, <2>3 DEF First
  <2>5. QED
    BY <2>1, <2>4, SeqIsIndexed
<1>4. CASE Passes
  BY <1>1, <1>4 DEF Passes, lists, Written
<1>5. CASE Offers
  BY <1>1, <1>3, <1>5 DEF Offers, Written
<1>6. CASE Refuses
  BY <1>1, <1>2, <1>6 DEF Refuses, Written
<1>7. QED
  BY <1>1, <1>4, <1>5, <1>6

LEMMA NextWritten == WalkInductive /\ Written /\ [WalkNext]_walkVars => Written'
<1> SUFFICES ASSUME WalkInductive, Written, [WalkNext]_walkVars
             PROVE  Written'
  OBVIOUS
<1>1. CASE Comes
  BY <1>1 DEF Comes, Written, NoFrame, Frame
<1>2. CASE Recognize
  <2>1. /\ loop # "done" /\ idx < Len(received.opts) /\ answer' = answer /\ nak_list' = nak_list
        /\ reject_list' \in {reject_list, Append(reject_list, opt)}
    BY <1>2 DEF Recognize, Walks
  <2>2. received.opts \in Seq(Option) /\ idx \in Nat
    BY <2>1, FrameThere
  <2>3. opt \in Option
    BY <2>1, <2>2, LenProperties DEF opt
  <2>4. reject_list' \in Seq(Option)
    <3>1. reject_list \in Seq(Option)
      BY DEF Written
    <3>2. Append(reject_list, opt) \in Seq(Option)
      BY <2>3, <3>1, AppendProperties
    <3>3. QED
      BY <2>1, <3>1, <3>2
  <2>5. QED
    BY <2>1, <2>4 DEF Written
<1>3. CASE Demand
  <2>1. /\ loop # "done" /\ idx < Len(self.desired_remote) /\ answer' = answer
        /\ reject_list' = reject_list
        /\ nak_list' \in {nak_list, Append(nak_list, self.desired_remote[idx + 1])}
    BY <1>3 DEF Demand, Walks
  <2>2. self.desired_remote \in Seq(Option) /\ idx \in Nat
    BY DEF WalkInductive, Fsm
  <2>3. self.desired_remote[idx + 1] \in Option
    BY <2>1, <2>2, LenProperties
  <2>4. nak_list' \in Seq(Option \cup TableEntry)
    <3>1. nak_list \in Seq(Option \cup TableEntry)
      BY DEF Written
    <3>2. self.desired_remote[idx + 1] \in Option \cup TableEntry
      BY <2>3
    <3>3. Append(nak_list, self.desired_remote[idx + 1]) \in Seq(Option \cup TableEntry)
      BY <3>1, <3>2, AppendProperties
    <3>4. QED
      BY <2>1, <3>1, <3>3
  <2>5. QED
    BY <2>1, <2>4 DEF Written
<1>4. CASE Judge
  BY <1>4, JudgeTyped
<1>5. CASE Recognized \/ DemandsMet \/ Judged
  <2>1. loop # "done"
    BY <1>5 DEF Recognized, DemandsMet, Judged, Ends
  <2>2. \/ UNCHANGED <<lists, answer>>
        \/ Answers("ConfRej", reject_list) \/ Answers("ConfNak", nak_list)
        \/ Answers("ConfAck", received.opts)
    BY <1>5 DEF Recognized, DemandsMet, Judged
  <2>3. UNCHANGED <<lists, answer>> => Written'
    BY DEF lists, Written
  <2>4. QED
    BY <2>1, <2>2, <2>3, AnswersTyped
<1>6. CASE Suggest \/ Discard \/ Updated \/ UNCHANGED walkVars
  BY <1>6 DEF Suggest, Discard, Updated, Walks, walkVars, lists, Written
<1>7. QED
  BY <1>1, <1>2, <1>3, <1>4, <1>5, <1>6 DEF WalkNext

\* The walk over an option list stays within its types: evaluate_config_request
\* and update_desired_local_options, for any option table and any list.
THEOREM WalkTypes == WalkSpec => []WalkTypeOK
<1>1. WalkInit => WalkInductive /\ Written
  BY InitWalks DEF WalkInit, Written, NoFrame, Frame
<1>2. WalkInductive /\ Written /\ [WalkNext]_walkVars => (WalkInductive /\ Written)'
  BY NextWalks, NextWritten
<1>3. WalkInductive /\ Written => WalkTypeOK
  BY DEF WalkInductive, Written, Framed, Loops, WalkTypeOK
<1>4. QED
  BY <1>1, <1>2, <1>3, PTL DEF WalkSpec

\* The closed form of Reply and TriedAfter is what the loops of
\* evaluate_config_request compute, for any option table, whatever was marked
\* before, and for a list of any length with repeated types.
THEOREM LoopsJudge == WalkSpec => []JudgedAsWalked
<1>1. WalkInductive => JudgedAsWalked
  BY DEF WalkInductive
<1>2. QED
  BY <1>1, InitWalks, NextWalks, PTL DEF WalkSpec

\* The closed form of AfterNak and AfterReject is what the loops of
\* update_desired_local_options compute, for any desired options and answers.
THEOREM LoopsUpdate == WalkSpec => []DesiredAsWalked
<1>1. WalkInductive => DesiredAsWalked
  BY DEF WalkInductive
<1>2. QED
  BY <1>1, InitWalks, NextWalks, PTL DEF WalkSpec
=============================================================================
