------------------------------ MODULE Negotiate ------------------------------
(***************************************************************************)
(* negotiate() of protocol/src/negotiate.rs: one task that owns the LCP and *)
(* the IPCP automaton, reads the TLS stream with a timeout, feeds packets   *)
(* and timeouts to the automata, authenticates in between, and returns when *)
(* both are open, when anything fails, or when the deadline has passed.     *)
(*                                                                          *)
(* Time is counted in ticks.  It passes while the task waits for data and,  *)
(* because every write is awaited, while it handles packets.  The packets   *)
(* of one read are counted, not stored: what a packet says is chosen when   *)
(* it is parsed, before which nothing depends on it.                        *)
(***************************************************************************)
EXTENDS PppFsm

CONSTANTS
    LcpDesired, LcpAcceptable,      \* the tables of create_lcp_fsm
    IpcpDesired, IpcpAcceptable,    \* the tables of create_ipcp_fsm
    LcpFrames, IpcpFrames,          \* control frames the server may send
    AuthType, PapMethod, AuthMethods,   \* option type and its known values
    AddrType,                       \* the IPCP address option
    ReadTimeout,                    \* 3 s, in ticks
    Deadline,                       \* 30 s, in ticks
    MaxBatch                        \* packets completed by one read, at most

ControlFrame == [code : Codes, id : Ids, opts : OptionArea]

ASSUME OwnerTables ==
    /\ LcpDesired \in Seq(Option) /\ LcpAcceptable \in Seq(TableEntry)
    /\ IpcpDesired \in Seq(Option) /\ IpcpAcceptable \in Seq(TableEntry)
ASSUME ServerFrames == LcpFrames \subseteq ControlFrame /\ IpcpFrames \subseteq ControlFrame
ASSUME Bounds == /\ ReadTimeout \in Nat \ {0} /\ Deadline \in Nat /\ MaxBatch \in Nat
                 /\ NoOption \notin AuthMethods

\* PPP_RESTART_LIMIT timeouts of 3 s take as long as the deadline: 10 * 3 = 30.
ASSUME LimitCoversDeadline == Deadline <= RestartLimit * ReadTimeout

VARIABLES
    lcp, ipcp,      \* the automata
    auth_done, ipcp_started,
    pc,             \* check: top of the loop; read; process: packets buffered
    result,         \* why negotiate returned
    pending,        \* complete packets left in socket_buf
    now, waited,    \* ticks since the start, and in the current read
    sent,           \* what the last step wrote besides the automata's frames
    terminated      \* observer: the server terminated LCP

vars == <<lcp, ipcp, auth_done, ipcp_started, pc, result, pending, now, waited,
          sent, terminated>>

Failures == {"deadline", "closed", "protocol", "auth", "shutdown", "noaddress", "io"}

-----------------------------------------------------------------------------
(* Helpers.                                                                 *)

check_shutdown(acts) == \E n \in DOMAIN acts : acts[n].act = "Shutdown"

get_auth_method(f) ==
    LET o == get_option(f.remote, AuthType)
    IN  IF o # NoOption /\ o.val \in AuthMethods THEN o.val ELSE NoOption

get_local_ip(f) == get_option(f.local, AddrType)

\* Up, then Open.
Started(f) == handle_open(handle_up(f).fsm).fsm

Fail(why) == pc' = "end" /\ result' = why

\* The test after a packet, and the return or the next packet or read.
Continue(l, i) ==
    IF is_opened(l) /\ is_opened(i)
    THEN IF get_local_ip(i) = NoOption THEN Fail("noaddress")
                                       ELSE pc' = "end" /\ result' = "done"
    ELSE pc' = (IF pending' = 0 THEN "check" ELSE "process") /\ UNCHANGED result

TakePacket == pc = "process" /\ pending' = pending - 1 /\ UNCHANGED <<now, waited>>

-----------------------------------------------------------------------------
Init == /\ lcp  = Started(new(LcpDesired, LcpAcceptable, <<>>))
        /\ ipcp = new(IpcpDesired, IpcpAcceptable, <<>>)
        /\ auth_done = FALSE /\ ipcp_started = FALSE
        /\ pc = "check" /\ result = "none" /\ pending = 0
        /\ now = 0 /\ waited = 0 /\ sent = "none" /\ terminated = FALSE

\* Mutant: a read may begin at the deadline.
CheckDeadline_Late ==
    /\ pc = "check"
    /\ IF now > Deadline THEN Fail("deadline") /\ UNCHANGED waited
                         ELSE pc' = "read" /\ waited' = 0 /\ UNCHANGED result
    /\ sent' = "none"
    /\ UNCHANGED <<lcp, ipcp, auth_done, ipcp_started, pending, now, terminated>>

\* check_disconnect is FALSE in both programs.
CheckDeadline ==
    /\ pc = "check"
    /\ IF now >= Deadline THEN Fail("deadline") /\ UNCHANGED waited
                          ELSE pc' = "read" /\ waited' = 0 /\ UNCHANGED result
    /\ sent' = "none"
    /\ UNCHANGED <<lcp, ipcp, auth_done, ipcp_started, pending, now, terminated>>

\* A read completes some packets, or only part of one.
ReadData ==
    /\ pc = "read"
    /\ \E n \in 0 .. MaxBatch :
        pending' = n /\ pc' = IF n = 0 THEN "check" ELSE "process"
    /\ sent' = "none"
    /\ UNCHANGED <<lcp, ipcp, auth_done, ipcp_started, result, now, waited, terminated>>

\* The automaton of a running negotiation gets the Timeout event.
Timer(f, armed) == IF armed /\ f.state \in Negotiating THEN handle_timeout(f) ELSE Ignore(f)

\* Mutant: the timeout is taken only if it has an automaton to wake.
ReadTimesOut_IfArmed ==
    /\ pc = "read" /\ waited = ReadTimeout
    /\ lcp.state \in Negotiating \/ (ipcp_started /\ ipcp.state \in Negotiating)
    /\ LET l == Timer(lcp, TRUE)
           i == Timer(ipcp, ipcp_started)
       IN  /\ lcp' = l.fsm
           /\ ipcp' = IF check_shutdown(l.acts) THEN ipcp ELSE i.fsm
           /\ IF check_shutdown(l.acts) \/ check_shutdown(i.acts)
              THEN Fail("shutdown") ELSE pc' = "check" /\ UNCHANGED result
    /\ sent' = "none"
    /\ UNCHANGED <<auth_done, ipcp_started, pending, now, waited, terminated>>

ReadTimesOut ==
    /\ pc = "read" /\ waited = ReadTimeout
    /\ LET l == Timer(lcp, TRUE)
           i == Timer(ipcp, ipcp_started)
       IN  /\ lcp' = l.fsm
           /\ ipcp' = IF check_shutdown(l.acts) THEN ipcp ELSE i.fsm
           /\ IF check_shutdown(l.acts) \/ check_shutdown(i.acts)
              THEN Fail("shutdown") ELSE pc' = "check" /\ UNCHANGED result
    /\ sent' = "none"
    /\ UNCHANGED <<auth_done, ipcp_started, pending, now, waited, terminated>>

\* End of stream, a read error, or a failed write.
ConnectionFails ==
    /\ pc \in {"read", "process"} /\ Fail("io")
    /\ sent' = "none"
    /\ UNCHANGED <<lcp, ipcp, auth_done, ipcp_started, pending, now, waited, terminated>>

-----------------------------------------------------------------------------
(* The packets.                                                             *)

ReceiveLcp(frame) ==
    LET r    == handle_frame(lcp, frame)
        stop == check_shutdown(r.acts)
    IN  /\ TakePacket /\ UNCHANGED <<ipcp, auth_done, ipcp_started>>
        /\ lcp' = r.fsm
        /\ sent' = IF /\ ~ stop /\ is_opened(r.fsm) /\ ~ auth_done
                      /\ get_auth_method(r.fsm) = PapMethod
                   THEN "PapRequest" ELSE "none"
        /\ terminated' = (terminated \/ (frame.code = "TermReq" /\ r.acts # <<>>))
        /\ IF stop THEN Fail("shutdown") ELSE Continue(r.fsm, ipcp)

\* Mutant: no check_shutdown in the IPCP arm.
ReceiveIpcp_NoCheck(frame) ==
    LET r == handle_frame(IF ipcp_started THEN ipcp ELSE Started(ipcp), frame)
    IN  /\ TakePacket /\ UNCHANGED <<lcp, auth_done, terminated>>
        /\ ipcp' = r.fsm /\ ipcp_started' = TRUE /\ sent' = "none"
        /\ Continue(lcp, r.fsm)

\* IPCP may arrive before authentication is done, and then starts IPCP.
ReceiveIpcp(frame) ==
    LET r == handle_frame(IF ipcp_started THEN ipcp ELSE Started(ipcp), frame)
    IN  /\ TakePacket /\ UNCHANGED <<lcp, auth_done, terminated>>
        /\ ipcp' = r.fsm /\ ipcp_started' = TRUE /\ sent' = "none"
        /\ IF check_shutdown(r.acts) THEN Fail("shutdown") ELSE Continue(lcp, r.fsm)

\* Mutant: IPCP is started but not recorded as started.
AuthSucceeds_Unarmed ==
    /\ TakePacket
    /\ auth_done' = TRUE /\ ipcp' = Started(ipcp) /\ sent' = "none"
    /\ Continue(lcp, Started(ipcp))
    /\ UNCHANGED <<lcp, ipcp_started, terminated>>

\* PAP success and CHAP success.
AuthSucceeds ==
    /\ TakePacket
    /\ auth_done' = TRUE /\ ipcp' = Started(ipcp) /\ ipcp_started' = TRUE /\ sent' = "none"
    /\ Continue(lcp, Started(ipcp))
    /\ UNCHANGED <<lcp, terminated>>

\* A packet that ends the negotiation: PAP or CHAP failure, SSTP CLOSE, an
\* unexpected SSTP command or a frame, challenge or CCP request that does not parse.
FatalPacket ==
    /\ TakePacket
    /\ \E why \in {"auth", "closed", "protocol"} : Fail(why)
    /\ sent' = "none"
    /\ UNCHANGED <<lcp, ipcp, auth_done, ipcp_started, terminated>>

ChapChallenge ==
    /\ TakePacket
    /\ IF get_auth_method(lcp) = NoOption
       THEN Fail("protocol") /\ sent' = "none"
       ELSE Continue(lcp, ipcp) /\ sent' = "ChapResponse"
    /\ UNCHANGED <<lcp, ipcp, auth_done, ipcp_started, terminated>>

\* A CCP request is rejected; SSTP keepalives, other protocols and the other
\* codes of PAP, CHAP and CCP are ignored.
OtherPacket ==
    /\ TakePacket
    /\ sent' \in {"none", "CcpReject"}
    /\ Continue(lcp, ipcp)
    /\ UNCHANGED <<lcp, ipcp, auth_done, ipcp_started, terminated>>

Process == \/ OtherPacket
           \/ ChapChallenge
           \/ FatalPacket
           \/ AuthSucceeds
           \/ \E frame \in LcpFrames  : ReceiveLcp(frame)
           \/ \E frame \in IpcpFrames : ReceiveIpcp(frame)

\* Bound: once the deadline has passed, how long ago does not matter.
Tick == /\ \/ pc = "read" /\ waited < ReadTimeout /\ waited' = waited + 1
           \/ pc \in {"check", "process"} /\ now < Deadline /\ UNCHANGED waited
        /\ now' = now + 1
        /\ sent' = "none"
        /\ UNCHANGED <<lcp, ipcp, auth_done, ipcp_started, pc, result, pending, terminated>>

Next == CheckDeadline \/ ReadData \/ ReadTimesOut \/ ConnectionFails \/ Process \/ Tick

Spec == Init /\ [][Next]_vars

\* The runtime polls the task, its timers expire, and writes complete.  Nothing
\* is assumed of the server: no read ever needs to return data.
Fairness == WF_vars(Tick) /\ WF_vars(CheckDeadline) /\ WF_vars(ReadTimesOut) /\ WF_vars(Process)

FairSpec == Spec /\ Fairness

-----------------------------------------------------------------------------
TypeOK ==
    /\ lcp \in Fsm /\ ipcp \in Fsm
    /\ auth_done \in BOOLEAN /\ ipcp_started \in BOOLEAN /\ terminated \in BOOLEAN
    /\ pc \in {"check", "read", "process", "end"}
    /\ result \in {"none", "done"} \cup Failures
    /\ pending \in 0 .. MaxBatch
    /\ now \in Nat /\ waited \in 0 .. ReadTimeout
    /\ sent \in {"none", "PapRequest", "ChapResponse", "CcpReject"}

\* The retry limit of the automata is never what ends a negotiation: whatever
\* the server sends or withholds, and however the two automata share the read
\* timeouts, the deadline comes first.  (The timeout arm of the read in
\* negotiate.rs, whose check_shutdown speaks of "max retries exceeded".)
TimeoutsNeverGiveUp == [][pc = "read" => result' # "shutdown"]_vars

\* An automaton that gave up is never driven on: the step in which it stops is
\* the last one (one check_shutdown per automaton and call site).
StoppedIsLast == "Stopped" \in {lcp.state, ipcp.state} => result = "shutdown"

\* IPCP never waits for an answer without its retransmission timer: every path
\* that starts it, from PAP, from CHAP or from an early IPCP frame, arms it.
IpcpTimerArmed == ipcp.state \in Negotiating => ipcp_started

\* Once the server has terminated LCP the negotiation cannot succeed any more,
\* even if IPCP goes on to open: nobody opens LCP a second time.
TerminateIsFinal == terminated => result # "done"

\* The negotiation returns, even if the server is silent or sends without end.
NegotiationEnds == <>(pc = "end")

\* "If LCP just opened, start authentication": the PAP request is written in
\* the step in which LCP opens (the comment at negotiate.rs:144).
AuthStartsOnOpening == [][sent' = "PapRequest" => ~ is_opened(lcp)]_vars

-----------------------------------------------------------------------------
(* What the theorem about the retry limit rests on.                         *)

\* A retry stands for a whole read timeout that has passed.
RetriesTakeTime ==
    LET spent == IF pc = "read" THEN now - waited ELSE now
    IN  /\ lcp.restart_counter * ReadTimeout <= spent
        /\ ipcp.restart_counter * ReadTimeout <= spent

\* A read begins before the deadline.
ReadInTime == pc = "read" => waited <= now /\ now - waited < Deadline

\* The task handles packets it has, returns once, and has not touched IPCP
\* before it started it.
LoopShape == /\ pc = "process" => pending > 0
             /\ pc # "end" => result = "none"
             /\ ~ ipcp_started => ipcp.state = "Initial"

IInv == /\ TypeOK
        /\ RetriesTakeTime
        /\ ReadInTime
        /\ LoopShape
        /\ StoppedIsLast
        /\ IpcpTimerArmed
=============================================================================
