------------------------------- MODULE PppFsm -------------------------------
(***************************************************************************)
(* The PPP negotiation automaton of protocol/src/protocol/fsm.rs: a pure    *)
(* state machine that takes one event and returns its next state with the   *)
(* list of actions its owner must execute.  LCP and IPCP are two instances  *)
(* that differ in their option tables only.                                 *)
(*                                                                          *)
(* A frame carries a code, an identifier and an option list.  An option is  *)
(* a record of a type and a value; the bytes of a value are not modelled.   *)
(* An option area that parse_options refuses is the value Malformed.        *)
(***************************************************************************)
EXTENDS Naturals, FiniteSets, SequencesExt

CONSTANTS
    Option,         \* every option either side may name: records [type, val]
    Wildcard,       \* value of a table entry that matches every value (empty
                    \* data, or data whose first byte is 0)
    NoOption,       \* what is left of a desired option the peer rejected
    Malformed,      \* an option area that does not parse
    RestartLimit,   \* PPP_RESTART_LIMIT
    IdMod           \* identifiers are counted modulo IdMod (a u8: 256)

ASSUME OptionAssumption == Malformed \notin Seq(Option) /\ NoOption \notin Option
ASSUME LimitsAssumption == RestartLimit \in Nat /\ IdMod \in Nat \ {0}

FsmStates == {"Initial", "Closed", "ReqSent", "AckRecvd", "AckSent",
              "Opened", "Closing", "Stopped"}

\* The states in which a Config-Request of ours is unanswered or the peer's is.
Negotiating == {"ReqSent", "AckRecvd", "AckSent"}

Codes == {"ConfReq", "ConfAck", "ConfNak", "ConfRej", "TermReq", "TermAck",
          "OtherCode"}

Ids == 0 .. IdMod - 1

OptionArea == Seq(Option) \cup {Malformed}

TableEntry == [type : {o.type : o \in Option},
               val  : {o.val : o \in Option} \cup {Wildcard}]

\* The desired options keep their slots: a Config-Reject empties a slot.
Fsm == [state              : FsmStates,
        desired            : Seq(Option \cup {NoOption}),
        acceptable         : Seq(TableEntry),
        tried              : SUBSET Nat,     \* entries of acceptable marked tried
        desired_remote     : Seq(Option),
        local              : Seq(Option),
        remote             : Seq(Option),
        restart_counter    : Nat,
        identifier         : Ids,
        current_request_id : Ids]

new(desired, acceptable, desired_remote) ==
    [state |-> "Initial", desired |-> desired, acceptable |-> acceptable,
     tried |-> {}, desired_remote |-> desired_remote,
     local |-> <<>>, remote |-> <<>>, restart_counter |-> 0,
     identifier |-> 0, current_request_id |-> 0]

-----------------------------------------------------------------------------
(* Frames, and the actions an event returns.                                *)

Frame(code, id, opts) == [code |-> code, id |-> id, opts |-> opts]

SendFrame(frame) == [act |-> "SendFrame", frame |-> frame]
LayerUp          == [act |-> "LayerUp"]
Shutdown         == [act |-> "Shutdown"]

Result(f, acts) == [fsm |-> f, acts |-> acts]
Ignore(f)       == Result(f, <<>>)

-----------------------------------------------------------------------------
(* Our own request.                                                         *)

next_identifier(f) == (f.identifier + 1) % IdMod

\* The options of a request on the wire: the slots still filled, in order.
OnWire(desired) == SelectSeq(desired, LAMBDA o : o # NoOption)

\* f after a Config-Request is built, and the frame.
Requesting(f) == [f EXCEPT !.identifier         = next_identifier(f),
                           !.current_request_id = next_identifier(f)]
build_config_request(f) ==
    Frame("ConfReq", next_identifier(f), OnWire(f.desired))

-----------------------------------------------------------------------------
(* Judging the peer's request.  The code walks the received options and     *)
(* offers, for each unacceptable one, the first table entry of its type     *)
(* that was never offered before.  Walking in order gives the n-th such     *)
(* option of a type the n-th untried entry of that type.                    *)

Rank(S, n) == Cardinality({m \in S : m <= n})

\* The n-th element of S from below.
Nth(S, n) == CHOOSE m \in S : Rank(S, m) = n

\* The subsequence of s at the positions P.
At(s, P) == [n \in 1 .. Cardinality(P) |-> s[Nth(P, n)]]

is_option_recognized(f, type) ==
    \E i \in DOMAIN f.acceptable : f.acceptable[i].type = type

is_option_acceptable(f, o) ==
    \E i \in DOMAIN f.acceptable : /\ f.acceptable[i].type = o.type
                                   /\ f.acceptable[i].val \in {Wildcard, o.val}

Unrecognized(f, opts) == {p \in DOMAIN opts : ~ is_option_recognized(f, opts[p].type)}
Unacceptable(f, opts) == {p \in DOMAIN opts : ~ is_option_acceptable(f, opts[p])}
Missing(f, opts) ==
    {d \in DOMAIN f.desired_remote :
        \A p \in DOMAIN opts : opts[p].type # f.desired_remote[d].type}

Untried(f, type) ==
    {i \in DOMAIN f.acceptable \ f.tried : f.acceptable[i].type = type}

UnacceptableOfType(f, opts, type) == {p \in Unacceptable(f, opts) : opts[p].type = type}

\* The position among the unacceptable options of its type, from 1.
Turn(f, opts, p) == Rank(UnacceptableOfType(f, opts, opts[p].type), p)

\* Unacceptable options no untried table entry is left for.
Refused(f, opts) ==
    {p \in Unacceptable(f, opts) :
        Turn(f, opts, p) > Cardinality(Untried(f, opts[p].type))}

select_acceptable_option(f, opts, p) ==
    f.acceptable[Nth(Untried(f, opts[p].type), Turn(f, opts, p))]

\* Mutant: an entry that was offered is not marked.
Offered_Unmarked(f, opts) == {}

\* The entries that are marked tried by walking opts.
Offered(f, opts) ==
    {i \in DOMAIN f.acceptable \ f.tried :
        LET type == f.acceptable[i].type
        IN  Rank(Untried(f, type), i) <= Cardinality(UnacceptableOfType(f, opts, type))}

Verdict(f, opts) ==
    IF opts = Malformed                 THEN "Unparsed"
    ELSE IF Unrecognized(f, opts) # {}  THEN "Unrecognized"
    ELSE IF Missing(f, opts) # {}       THEN "Missing"
    ELSE IF Refused(f, opts) # {}       THEN "Refused"
    ELSE IF Unacceptable(f, opts) # {}  THEN "Counter"
    ELSE "Accept"

Accepts(f, frame) == Verdict(f, frame.opts) = "Accept"

Reply(f, frame) ==
    LET opts == frame.opts
        v    == Verdict(f, opts)
    IN  CASE v = "Accept"       -> Frame("ConfAck", frame.id, opts)
          [] v = "Unparsed"     -> Frame("ConfRej", frame.id, <<>>)
          [] v = "Unrecognized" -> Frame("ConfRej", frame.id, At(opts, Unrecognized(f, opts)))
          [] v = "Missing"      -> Frame("ConfNak", frame.id,
                                         At(f.desired_remote, Missing(f, opts)))
          [] v = "Refused"      -> Frame("ConfRej", frame.id, At(opts, Refused(f, opts)))
          [] v = "Counter"      ->
                LET P == Unacceptable(f, opts)
                IN  Frame("ConfNak", frame.id,
                          [n \in 1 .. Cardinality(P) |->
                              select_acceptable_option(f, opts, Nth(P, n))])

\* Mutant: marks are kept only if the alternatives are sent.
TriedAfter_IfSent(f, opts) ==
    IF Verdict(f, opts) = "Counter" THEN f.tried \cup Offered(f, opts) ELSE f.tried

\* The tried marks survive, whatever the verdict on the request as a whole.
TriedAfter(f, opts) ==
    IF Verdict(f, opts) \in {"Refused", "Counter"}
    THEN f.tried \cup Offered(f, opts)
    ELSE f.tried

-----------------------------------------------------------------------------
(* The peer's answer to our request.                                        *)

OfType(opts, type) == {k \in DOMAIN opts : opts[k].type = type}

\* Mutant: the first suggestion for a type wins.
LastOf_First(K) == CHOOSE k \in K : \A j \in K : k <= j

LastOf(K)          == CHOOSE k \in K : \A j \in K : j <= k

\* Config-Nak: each desired option takes the value the peer suggests last.
AfterNak(desired, opts) ==
    [i \in DOMAIN desired |->
        IF desired[i] = NoOption \/ OfType(opts, desired[i].type) = {}
        THEN desired[i]
        ELSE opts[LastOf(OfType(opts, desired[i].type))]]

\* Config-Reject: each rejected option removes the first desired one of its type.
AfterReject(desired, opts) ==
    [i \in DOMAIN desired |->
        IF /\ desired[i] # NoOption
           /\ Rank({j \in DOMAIN desired : /\ desired[j] # NoOption
                                           /\ desired[j].type = desired[i].type}, i)
                <= Cardinality(OfType(opts, desired[i].type))
        THEN NoOption
        ELSE desired[i]]

update_desired_local_options(desired, frame) ==
    IF frame.code = "ConfNak" THEN AfterNak(desired, frame.opts)
                              ELSE AfterReject(desired, frame.opts)

\* Mutant: options agreed in an earlier round are kept.
finalize_local_options_Once(f, frame) ==
    IF frame.opts = Malformed \/ f.local # <<>> THEN f.local ELSE frame.opts

finalize_local_options(f, frame) ==
    IF frame.opts = Malformed THEN f.local ELSE frame.opts

-----------------------------------------------------------------------------
(* The handlers, one per event and one per frame code.                      *)

handle_up(f) ==
    IF f.state = "Initial" THEN Result([f EXCEPT !.state = "Closed"], <<>>)
                           ELSE Ignore(f)

handle_open(f) ==
    CASE f.state = "Initial" ->
            Result([f EXCEPT !.state = "Closed", !.restart_counter = 0], <<LayerUp>>)
      [] f.state = "Closed" ->
            Result([Requesting(f) EXCEPT !.state = "ReqSent", !.restart_counter = 0],
                   <<SendFrame(build_config_request(f))>>)
      [] OTHER -> Ignore(f)

handle_close(f) ==
    IF f.state = "Opened"
    THEN Result([f EXCEPT !.state = "Closing", !.restart_counter = 0,
                          !.identifier = next_identifier(f)],
                <<SendFrame(Frame("TermReq", next_identifier(f), <<>>))>>)
    ELSE Ignore(f)

\* Mutant: the request is resent but the acknowledgement of the old one counts.
handle_timeout_KeepsAck(f) ==
    IF f.state \notin Negotiating THEN Ignore(f)
    ELSE IF f.restart_counter < RestartLimit
    THEN Result([Requesting(f) EXCEPT !.restart_counter = @ + 1],
                <<SendFrame(build_config_request(f))>>)
    ELSE Result([f EXCEPT !.restart_counter = @ + 1, !.state = "Stopped"], <<Shutdown>>)

handle_timeout(f) ==
    IF f.state \notin Negotiating THEN Ignore(f)
    ELSE IF f.restart_counter < RestartLimit
    THEN Result([Requesting(f) EXCEPT
                    !.restart_counter = @ + 1,
                    !.state = IF @ = "AckSent" THEN "AckSent" ELSE "ReqSent"],
                <<SendFrame(build_config_request(f))>>)
    ELSE Result([f EXCEPT !.restart_counter = @ + 1, !.state = "Stopped"],
                <<Shutdown>>)

\* Where a request of the peer leads, by our verdict on it.
AfterRequest(state, accepted) ==
    IF accepted THEN IF state = "AckRecvd" THEN "Opened" ELSE "AckSent"
                ELSE IF state = "AckRecvd" THEN "AckRecvd" ELSE "ReqSent"

handle_config_request(f, frame) ==
    LET answered == [f EXCEPT
            !.tried  = TriedAfter(f, frame.opts),
            !.remote = IF Accepts(f, frame) THEN frame.opts ELSE @,
            !.state  = AfterRequest(@, Accepts(f, frame))]
    IN  CASE f.state = "Opened" ->
                Result(Requesting(answered),
                       <<SendFrame(Reply(f, frame)),
                         SendFrame(build_config_request(answered))>>)
          [] f.state = "AckRecvd" /\ Accepts(f, frame) ->
                Result(answered, <<SendFrame(Reply(f, frame)), LayerUp>>)
          [] \/ f.state \in {"ReqSent", "AckSent"}
             \/ f.state = "AckRecvd" /\ ~ Accepts(f, frame) ->
                Result(answered, <<SendFrame(Reply(f, frame))>>)
          [] OTHER -> Ignore(f)

\* Mutant: an acknowledgement leaves the retries of the last round spent.
handle_config_ack_NoReset(f, frame) ==
    LET acked == [f EXCEPT !.local = finalize_local_options(f, frame)]
    IN  CASE frame.id = f.current_request_id /\ f.state = "ReqSent" ->
                Result([acked EXCEPT !.state = "AckRecvd"], <<>>)
          [] frame.id = f.current_request_id /\ f.state = "AckSent" ->
                Result([acked EXCEPT !.state = "Opened"], <<LayerUp>>)
          [] OTHER -> Ignore(f)

handle_config_ack(f, frame) ==
    LET acked == [f EXCEPT !.local = finalize_local_options(f, frame),
                           !.restart_counter = 0]
    IN  CASE frame.id = f.current_request_id /\ f.state = "ReqSent" ->
                Result([acked EXCEPT !.state = "AckRecvd"], <<>>)
          [] frame.id = f.current_request_id /\ f.state = "AckSent" ->
                Result([acked EXCEPT !.state = "Opened"], <<LayerUp>>)
          [] OTHER -> Ignore(f)

handle_config_nak_reject(f, frame) ==
    IF frame.id # f.current_request_id \/ f.state \notin Negotiating THEN Ignore(f)
    ELSE IF frame.opts = Malformed
    THEN Result([f EXCEPT !.restart_counter = 0, !.state = "Stopped"], <<Shutdown>>)
    ELSE LET updated == [f EXCEPT
                !.restart_counter = 0,
                !.desired = update_desired_local_options(@, frame),
                !.state   = IF @ = "AckSent" THEN "AckSent" ELSE "ReqSent"]
         IN  Result(Requesting(updated), <<SendFrame(build_config_request(updated))>>)

\* Mutant: after the Terminate-Ack the automaton waits for a new request.
handle_terminate_request_Waits(f, frame) ==
    IF f.state \in Negotiating \cup {"Opened"}
    THEN Result([f EXCEPT !.state = "ReqSent"],
                <<SendFrame(Frame("TermAck", frame.id, <<>>))>>)
    ELSE Ignore(f)

handle_terminate_request(f, frame) ==
    IF f.state \in Negotiating \cup {"Opened"}
    THEN Result([f EXCEPT !.state = "Initial"],
                <<SendFrame(Frame("TermAck", frame.id, <<>>))>>)
    ELSE Ignore(f)

handle_terminate_ack(f) ==
    IF f.state = "Closing" THEN Result([f EXCEPT !.state = "Closed"], <<>>)
                           ELSE Ignore(f)

handle_unknown_code(f) ==
    IF f.state \in Negotiating
    THEN Result([f EXCEPT !.identifier = next_identifier(f)],
                <<SendFrame(Frame("OtherCode", next_identifier(f), <<>>))>>)
    ELSE Ignore(f)

handle_frame(f, frame) ==
    CASE frame.code = "ConfReq" -> handle_config_request(f, frame)
      [] frame.code = "ConfAck" -> handle_config_ack(f, frame)
      [] frame.code \in {"ConfNak", "ConfRej"} -> handle_config_nak_reject(f, frame)
      [] frame.code = "TermReq" -> handle_terminate_request(f, frame)
      [] frame.code = "TermAck" -> handle_terminate_ack(f)
      [] frame.code = "OtherCode" -> handle_unknown_code(f)

-----------------------------------------------------------------------------
(* What the owner reads.                                                    *)

is_opened(f) == f.state = "Opened"

get_option(opts, type) ==
    LET K == OfType(opts, type)
    IN  IF K = {} THEN NoOption
        ELSE opts[CHOOSE k \in K : \A j \in K : k <= j]
=============================================================================
