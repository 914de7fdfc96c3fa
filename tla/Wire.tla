---------------------------------- MODULE Wire ----------------------------------
(***************************************************************************)
(* The layers of a packet: the SSTP-like header (sstp.rs), the PPP frame    *)
(* (ppp.rs) and the control frame (ppp_control.rs), written to bytes and    *)
(* parsed from them.  The walk over the options of a control frame is in    *)
(* OptionParse.                                                             *)
(***************************************************************************)
EXTENDS Naturals, Sequences

CONSTANT Base   \* values of a byte: 256 in the code

ASSUME BaseIsLarge == Base \in Nat /\ Base >= 4

Byte == 0 .. Base - 1

\* Results of a parser: more bytes are needed, the bytes make no sense.
More    == [outcome |-> "more"]
Invalid == [outcome |-> "invalid"]
Parsed(value, consumed) == [outcome |-> "parsed", value |-> value, consumed |-> consumed]

\* A u16, most significant byte first; what does not fit is cut off.
be16(n) == <<(n \div Base) % Base, n % Base>>
u16(high, low) == Base * high + low

From(bytes, first) == SubSeq(bytes, first, Len(bytes))

-----------------------------------------------------------------------------
(* SstpPacket.                                                              *)

DATA == 0
CLOSE == 1
REQUEST == 2
REPLY == 3

SstpBytes(pkt) == <<pkt.command, pkt.version>> \o be16(Len(pkt.data)) \o pkt.data

\* Mutant: a packet that ends with the buffer is not whole.
SstpParse_OneMore(buf) ==
    IF Len(buf) < 4 THEN More
    ELSE LET total == 4 + u16(buf[3], buf[4])
         IN  IF Len(buf) <= total THEN More
             ELSE Parsed([command |-> buf[1], version |-> buf[2],
                          data |-> SubSeq(buf, 5, total)], total)

SstpParse(buf) ==
    IF Len(buf) < 4 THEN More
    ELSE LET total == 4 + u16(buf[3], buf[4])
         IN  IF Len(buf) < total THEN More
             ELSE Parsed([command |-> buf[1], version |-> buf[2],
                          data |-> SubSeq(buf, 5, total)], total)

-----------------------------------------------------------------------------
(* PppFrame.                                                                *)

PPP_ADDRESS == Base - 1
PPP_CONTROL == 3

PppBytes(frame) == <<PPP_ADDRESS, PPP_CONTROL>> \o be16(frame.protocol) \o frame.information

\* to_sstp_bytes: a DATA packet.
Framed(frame) == <<DATA, 0>> \o be16(Len(PppBytes(frame))) \o PppBytes(frame)

\* Address and control are not looked at.
PppParse(data) ==
    IF Len(data) < 4 THEN Invalid
    ELSE Parsed([protocol |-> u16(data[3], data[4]), information |-> From(data, 5)], Len(data))

-----------------------------------------------------------------------------
(* PppControlFrame.                                                         *)

ControlBytes(ctrl) == <<ctrl.code, ctrl.identifier>> \o be16(4 + Len(ctrl.data)) \o ctrl.data

ControlParse(data) ==
    IF Len(data) < 4 \/ u16(data[3], data[4]) < 4 \/ Len(data) < u16(data[3], data[4])
    THEN Invalid
    ELSE LET length == u16(data[3], data[4])
         IN  Parsed([code |-> data[1], identifier |-> data[2],
                     data |-> SubSeq(data, 5, length)], length)
=============================================================================
