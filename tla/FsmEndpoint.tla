----------------------------- MODULE FsmEndpoint -----------------------------
(***************************************************************************)
(* One PPP automaton driven by its owner (Up, Open, Close, Timeout) and by  *)
(* a peer that sends any control frame at any time: late, repeated, with    *)
(* identifiers of earlier requests, with options that do not parse.         *)
(*                                                                          *)
(* hist is what an observer of the event and of the returned actions would  *)
(* note down; no part of it is read from the automaton's own fields.  The   *)
(* properties compare the two.                                              *)
(***************************************************************************)
EXTENDS PppFsm

CONSTANTS
    Desired,        \* the options we ask for at first
    Acceptable,     \* the table of options we accept from the peer
    PeerAreas       \* the option areas the peer may send

ASSUME TablesAssumption == Desired \in Seq(Option) /\ Acceptable \in Seq(TableEntry)
ASSUME PeerAssumption == PeerAreas \subseteq OptionArea

VARIABLES fsm, hist

vars == <<fsm, hist>>

NoId == IdMod

PeerFrames ==
    [code : {"ConfReq", "ConfAck", "ConfNak", "ConfRej"}, id : Ids, opts : PeerAreas]
    \cup [code : {"TermReq", "TermAck", "OtherCode"}, id : Ids, opts : {<<>>}]

-----------------------------------------------------------------------------
(* The observer.                                                            *)

History ==
    [reqId      : Ids \cup {NoId},  \* identifier of our open request, if any
     ours       : BOOLEAN,          \* it was acknowledged
     theirs     : BOOLEAN,          \* our last answer to the peer was an Ack
     acked      : OptionArea,       \* options of the Ack we got
     granted    : OptionArea,       \* options of the Ack we gave
     silent     : Nat,              \* timeouts since the peer last answered
     unreadable : BOOLEAN,          \* some answer did not parse
     naks       : Nat]              \* Config-Naks we sent

NoHistory == [reqId |-> NoId, ours |-> FALSE, theirs |-> FALSE, acked |-> <<>>,
              granted |-> <<>>, silent |-> 0, unreadable |-> FALSE, naks |-> 0]

Sends(acts, codes) ==
    \E n \in DOMAIN acts : acts[n].act = "SendFrame" /\ acts[n].frame.code \in codes
GivesUp(acts) == \E n \in DOMAIN acts : acts[n].act = "Shutdown"
RequestId(acts) ==
    acts[CHOOSE n \in DOMAIN acts : acts[n].act = "SendFrame"
                                    /\ acts[n].frame.code = "ConfReq"].frame.id

Api(event)      == [event |-> event, frame |-> Frame("OtherCode", NoId, <<>>)]
Received(frame) == [event |-> "ReceiveFrame", frame |-> frame]

Observe(h, in, acts) ==
    LET asked  == Sends(acts, {"ConfReq"})
        ended  == Sends(acts, {"TermReq", "TermAck"}) \/ GivesUp(acts)
        answer == /\ in.event = "ReceiveFrame"
                  /\ in.frame.code \in {"ConfAck", "ConfNak", "ConfRej"}
                  /\ in.frame.id = h.reqId
        ack    == answer /\ in.frame.code = "ConfAck"
        grant  == Sends(acts, {"ConfAck"})
        refuse == Sends(acts, {"ConfNak", "ConfRej"})
    IN  [reqId   |-> IF asked THEN RequestId(acts)
                     ELSE IF ended THEN NoId ELSE h.reqId,
         ours    |-> ~ asked /\ ~ ended /\ (h.ours \/ ack),
         theirs  |-> ~ ended /\ (grant \/ (h.theirs /\ ~ refuse)),
         acked   |-> IF ack /\ ~ h.ours THEN in.frame.opts ELSE h.acked,
         granted |-> IF grant THEN in.frame.opts ELSE h.granted,
         silent  |-> IF in.event = "Timeout"
                     THEN IF asked \/ ended THEN h.silent + 1 ELSE h.silent
                     ELSE IF asked \/ answer THEN 0 ELSE h.silent,
         unreadable |-> h.unreadable \/ (answer /\ in.frame.opts = Malformed),
         naks    |-> IF Sends(acts, {"ConfNak"}) THEN h.naks + 1 ELSE h.naks]

-----------------------------------------------------------------------------
Step(in, r) == /\ fsm'  = r.fsm
               /\ hist' = Observe(hist, in, r.acts)

\* create_lcp_fsm and create_ipcp_fsm demand nothing of the peer's request.
Init == fsm = new(Desired, Acceptable, <<>>) /\ hist = NoHistory

Up      == Step(Api("Up"), handle_up(fsm))
Open    == Step(Api("Open"), handle_open(fsm))
Close   == Step(Api("Close"), handle_close(fsm))
Timeout == Step(Api("Timeout"), handle_timeout(fsm))

Receive(frame) == Step(Received(frame), handle_frame(fsm, frame))

Next == \/ Up
        \/ Open
        \/ Close
        \/ Timeout
        \/ \E frame \in PeerFrames : Receive(frame)

Spec == Init /\ [][Next]_vars

-----------------------------------------------------------------------------
TypeOK == fsm \in Fsm /\ hist \in History

\* The state names which half of the handshake is done, and it is never wrong
\* about it: AckRecvd and Opened exactly when the peer acknowledged the latest
\* Config-Request we sent, AckSent and Opened exactly when our last answer to
\* the peer's requests was a Config-Ack.  Late answers, resent requests and a
\* renegotiation in the middle must not leave a half marked done
\* (the state assignments of every handler in fsm.rs).
HandshakeSound ==
    /\ hist.ours   <=> fsm.state \in {"AckRecvd", "Opened"}
    /\ hist.theirs <=> fsm.state \in {"AckSent", "Opened"}

\* What the owner reads once a half is done is what was agreed in that half:
\* the options we granted last (all of them acceptable), and the options of
\* the Ack that answered our latest request unless that Ack did not parse
\* (negotiated_local_options, negotiated_remote_options).
AgreedOptions ==
    /\ hist.ours /\ hist.acked # Malformed => fsm.local = hist.acked
    /\ hist.theirs => /\ fsm.remote = hist.granted
                      /\ \A p \in DOMAIN fsm.remote :
                            is_option_acceptable(fsm, fsm.remote[p])

\* The retry budget is spent by silence only: while a request is open the
\* counter equals the number of timeouts since the peer last answered it, and
\* the automaton gives up only when that number passes the limit or an answer
\* did not parse.  A reset missing in one handler would let timeouts of an
\* earlier round count (restart_counter in fsm.rs).
RetryBudget ==
    /\ fsm.state \in Negotiating \cup {"Opened"} =>
            fsm.restart_counter = hist.silent /\ hist.silent <= RestartLimit
    /\ fsm.state = "Stopped" => hist.silent = RestartLimit + 1 \/ hist.unreadable

\* Offering alternatives ends: over the whole life of the automaton, restarts
\* and renegotiations included, it sends at most one Config-Nak per entry of
\* its table, and refuses after that (the tried marks of
\* select_acceptable_option).
NakBudget == hist.naks <= Len(Acceptable)

-----------------------------------------------------------------------------
(* The inductive invariant behind the four properties.                      *)

\* A request is open exactly in the states that wait for an answer or rest on
\* one, and its identifier is the one the automaton compares answers with.
RequestOpen ==
    hist.reqId = IF fsm.state \in Negotiating \cup {"Opened"}
                 THEN fsm.current_request_id ELSE NoId

\* An acknowledged request has spent no retries, so that a renegotiation
\* started by the peer in Opened begins with the whole budget although
\* handle_config_request does not reset the counter.
AnsweredResets == fsm.state \in {"AckRecvd", "Opened"} => fsm.restart_counter = 0

\* Every Config-Nak marked an entry of the table, which never changes.
NaksMarkEntries ==
    /\ fsm.acceptable = Acceptable /\ fsm.desired_remote = <<>>
    /\ fsm.tried \subseteq DOMAIN Acceptable
    /\ hist.naks <= Cardinality(fsm.tried)

IInv == /\ TypeOK
        /\ HandshakeSound
        /\ RequestOpen
        /\ AnsweredResets
        /\ RetryBudget
        /\ AgreedOptions
        /\ NaksMarkEntries
=============================================================================
