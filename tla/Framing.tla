--------------------------------- MODULE Framing ---------------------------------
(***************************************************************************)
(* The stream from the server: its messages as bytes on the TLS stream, the *)
(* reads that cut them anywhere, and socket_buf, which negotiate()          *)
(* (negotiate.rs) fills and parses first and hands over to data_loop()      *)
(* (tunnel/engine.rs, networkmanager/src/tunnel.rs) with what is left in it.*)
(***************************************************************************)
EXTENDS Wire

CONSTANTS
    Message,        \* what the server may send
    Padding,        \* bytes it may put behind a control frame
    LCP,            \* the protocol of control frames
    ReadSize,       \* READ_BUF_SIZE
    MaxSent         \* messages of the server, at most

ASSUME FramingConstants ==
    /\ LCP \in Nat /\ ReadSize \in Nat \ {0} /\ MaxSent \in Nat

\* What the server sends fits the u16 fields of the headers, and a frame it sends as
\* user data is not one of LCP.
Fits(m, padding) ==
    /\ padding \in Seq(Byte)
    /\ \/ m \in [kind : {"sstp"}, command : {CLOSE, REQUEST, REPLY}]
       \/ /\ m \in [kind : {"ip"}, protocol : 0 .. Base * Base - 1, information : Seq(Byte)]
          /\ m.protocol # LCP /\ 4 + Len(m.information) < Base * Base
       \/ /\ m \in [kind : {"control"},
                    frame : [code : Byte, identifier : Byte, data : Seq(Byte)]]
          /\ 8 + Len(m.frame.data) + Len(padding) < Base * Base

ASSUME MessagesFit ==
    LCP < Base * Base /\ \A m \in Message, padding \in Padding : Fits(m, padding)

VARIABLES
    sent, received, \* messages of the server; what was parsed
    wire,           \* bytes on the stream
    socket_buf,     \* bytes read and not parsed
    pc,             \* read: waiting for the stream; parse: the inner loop; failed
    phase,          \* negotiate or loop
    beyond          \* observer: the data loop has packets that negotiate() read, and
                    \* has read nothing itself

vars == <<sent, received, wire, socket_buf, pc, phase, beyond>>

\* A message is an SSTP packet without data, a PPP frame, or a control frame in
\* a PPP frame.
Encoded(m, padding) ==
    CASE m.kind = "sstp" -> SstpBytes([command |-> m.command, version |-> 0, data |-> <<>>])
      [] m.kind = "ip"   -> Framed([protocol |-> m.protocol, information |-> m.information])
      [] m.kind = "control" -> Framed([protocol |-> LCP,
                                       information |-> ControlBytes(m.frame) \o padding])

\* The message of a packet; Invalid where a parser fails.
Decoded(pkt) ==
    IF pkt.command # DATA THEN [kind |-> "sstp", command |-> pkt.command]
    ELSE LET ppp == PppParse(pkt.data)
         IN  IF ppp = Invalid THEN Invalid
             ELSE IF ppp.value.protocol # LCP
             THEN [kind |-> "ip", protocol |-> ppp.value.protocol,
                   information |-> ppp.value.information]
             ELSE LET ctrl == ControlParse(ppp.value.information)
                  IN  IF ctrl = Invalid THEN Invalid
                      ELSE [kind |-> "control", frame |-> ctrl.value]

-----------------------------------------------------------------------------
Init == /\ sent = <<>> /\ received = <<>> /\ wire = <<>> /\ socket_buf = <<>>
        /\ pc = "read" /\ phase = "negotiate" /\ beyond = FALSE

\* The server.  Bound: MaxSent.
Send == /\ Len(sent) < MaxSent
        /\ \E m \in Message, padding \in Padding :
            sent' = Append(sent, m) /\ wire' = wire \o Encoded(m, padding)
        /\ UNCHANGED <<received, socket_buf, pc, phase, beyond>>

\* A read gives some of the bytes there are.
Read == /\ pc = "read" /\ pc' = "parse" /\ beyond' = FALSE
        /\ \E n \in 1 .. ReadSize :
            /\ n <= Len(wire)
            /\ socket_buf' = socket_buf \o SubSeq(wire, 1, n) /\ wire' = From(wire, n + 1)
        /\ UNCHANGED <<sent, received, phase>>

\* No whole packet is left.
NeedsMore == /\ pc = "parse" /\ SstpParse(socket_buf) = More /\ pc' = "read"
             /\ UNCHANGED <<sent, received, wire, socket_buf, phase, beyond>>

\* Mutant: the data loop starts with a buffer of its own.
Handover_Empty == /\ phase' = "loop" /\ pc' = "read" /\ socket_buf' = <<>>
                  /\ beyond' = FALSE

\* Both automata are open: negotiate() returns with the packets that are left.
Handover == /\ phase' = "loop" /\ pc' = "read"
            /\ socket_buf' = From(socket_buf, SstpParse(socket_buf).consumed + 1)
            /\ beyond' = (SstpParse(socket_buf') # More)

\* The next packet is taken off and handled.
TakePacket ==
    /\ pc = "parse" /\ SstpParse(socket_buf) # More
    /\ LET packet == SstpParse(socket_buf)
           m      == Decoded(packet.value)
       IN  IF m = Invalid
           THEN /\ pc' = "failed" /\ UNCHANGED <<received, phase, beyond>>
                /\ socket_buf' = From(socket_buf, packet.consumed + 1)
           ELSE /\ received' = Append(received, m)
                /\ \/ phase = "negotiate" /\ m.kind = "control" /\ Handover
                   \/ /\ socket_buf' = From(socket_buf, packet.consumed + 1)
                      /\ UNCHANGED <<pc, phase, beyond>>
    /\ UNCHANGED <<sent, wire>>

Next == Send \/ Read \/ NeedsMore \/ TakePacket

Spec == Init /\ [][Next]_vars

\* The server's bytes arrive and the task is polled.
FairSpec == Spec /\ WF_vars(Read) /\ WF_vars(NeedsMore) /\ WF_vars(TakePacket)

-----------------------------------------------------------------------------
TypeOK ==
    /\ sent \in Seq(Message) /\ received \in Seq(Message)
    /\ wire \in Seq(Byte) /\ socket_buf \in Seq(Byte)
    /\ pc \in {"read", "parse", "failed"} /\ phase \in {"negotiate", "loop"}
    /\ beyond \in BOOLEAN

\* However the stream is cut and wherever negotiation ends, messages come out of
\* socket_buf once, whole and in order (SstpPacket::parse_from_buf, negotiate.rs 282).
Delivered == INSTANCE Fifo
InOrder   == Delivered!Spec

\* A server that has sent everything it will is heard to the last message, before
\* and after the handover, unless negotiation ended within a read that went beyond it
\* and nothing came after: the data loop looks at the packets it was given when it has
\* read more (negotiate.rs 282; engine.rs and tunnel.rs read before they parse).
Quiet  == [][~Send]_vars
Heard  == <>Quiet => <>[](received = sent \/ beyond)
=============================================================================
