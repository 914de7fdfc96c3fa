------------------------------ MODULE Wire_proofs ------------------------------
(***************************************************************************)
(* Theorems of Framing, for all messages and paddings that fit the length   *)
(* fields, every size of byte and of read, and any number of messages in    *)
(* flight: however the stream is cut, what is parsed is what was sent.  The *)
(* invariant names the places in the stream where each message begins and   *)
(* ends; the buffer's end may be anywhere among them.                       *)
(* And of OptionParse, for every option area: the invariant names the       *)
(* places where the options found so far begin and end, and says that no    *)
(* other division of the area exists.                                       *)
(***************************************************************************)
EXTENDS Framing, OptionParse, TLAPS, SequenceTheorems

Word == 0 .. Base * Base - 1

\* A u16 that is written is read again.
LEMMA WordRead ==
    ASSUME NEW n \in Word
    PROVE  be16(n) = <<n \div Base, n % Base>> /\ n \div Base \in Byte /\ n % Base \in Byte
           /\ u16(n \div Base, n % Base) = n
<1> DEFINE q == n \div Base
           r == n % Base
<1>1. n \in Nat /\ Base \in Nat /\ Base >= 4 /\ n < Base * Base
  BY BaseIsLarge DEF Word
<1>2. q \in Nat /\ r \in 0 .. Base - 1 /\ n = Base * q + r
  BY <1>1
<1> HIDE DEF q, r
<1>3. q < Base
  <2> SUFFICES ASSUME q >= Base
               PROVE  FALSE
    BY <1>1, <1>2
  <2>1. Base * q >= Base * Base
    BY <1>1, <1>2
  <2>2. QED
    BY <1>1, <1>2, <2>1
<1>4. q % Base = q
  BY <1>1, <1>2, <1>3
<1>5. QED
  BY <1>1, <1>2, <1>3, <1>4 DEF be16, u16, Byte, q, r

\* Four bytes of header, then the rest.
Headed(a, b, n, data) == <<a, b>> \o be16(n) \o data

Reads(bytes, a, b, n, data) ==
    /\ bytes \in Seq(Byte) /\ Len(bytes) = 4 + Len(data) /\ Len(data) \in Nat
    /\ bytes[1] = a /\ bytes[2] = b /\ u16(bytes[3], bytes[4]) = n
    /\ \A i \in 1 .. Len(data) : bytes[4 + i] = data[i]

LEMMA HeaderRead ==
    ASSUME NEW a \in Byte, NEW b \in Byte, NEW n \in Word, NEW data \in Seq(Byte)
    PROVE  Reads(Headed(a, b, n, data), a, b, n, data)
<1> DEFINE bytes == Headed(a, b, n, data)
           high == n \div Base
           low  == n % Base
           head == <<a, b>> \o <<high, low>>
<1>1. be16(n) = <<high, low>> /\ high \in Byte /\ low \in Byte /\ u16(high, low) = n
  BY WordRead
<1> HIDE DEF high, low
<1>2. /\ <<a, b>> \in Seq(Byte) /\ Len(<<a, b>>) = 2 /\ <<a, b>>[1] = a /\ <<a, b>>[2] = b
      /\ <<high, low>> \in Seq(Byte) /\ Len(<<high, low>>) = 2
      /\ <<high, low>>[1] = high /\ <<high, low>>[2] = low
  BY <1>1
<1>3. /\ head \in Seq(Byte) /\ Len(head) = 4
      /\ head[1] = a /\ head[2] = b /\ head[3] = high /\ head[4] = low
  BY <1>2, ConcatProperties
<1> HIDE DEF head
<1>4. bytes = head \o data
  BY <1>1 DEF head, Headed
<1> HIDE DEF bytes
<1>5. /\ bytes \in Seq(Byte) /\ Len(bytes) = 4 + Len(data) /\ Len(data) \in Nat
      /\ \A i \in 1 .. 4 + Len(data) :
            bytes[i] = IF i <= 4 THEN head[i] ELSE data[i - 4]
  <2>1. Len(data) \in Nat
    BY LenProperties
  <2>2. /\ head \o data \in Seq(Byte) /\ Len(head \o data) = Len(head) + Len(data)
        /\ \A i \in 1 .. Len(head) + Len(data) :
            (head \o data)[i] = IF i <= Len(head) THEN head[i] ELSE data[i - Len(head)]
    BY <1>3, ConcatProperties
  <2>3. Len(head) = 4
    BY <1>3
  <2>4. QED
    BY <1>4, <2>1, <2>2, <2>3, Zenon
<1>6. \A i \in 1 .. Len(data) : bytes[4 + i] = data[i]
  <2> SUFFICES ASSUME NEW i \in 1 .. Len(data)
               PROVE  bytes[4 + i] = data[i]
    OBVIOUS
  <2>1. 4 + i \in 1 .. 4 + Len(data) /\ ~(4 + i <= 4) /\ (4 + i) - 4 = i
    BY <1>5
  <2>2. QED
    BY <1>5, <2>1
<1>7. bytes[1] = a /\ bytes[2] = b /\ bytes[3] = high /\ bytes[4] = low
  <2>1. 1 \in 1 .. 4 + Len(data) /\ 2 \in 1 .. 4 + Len(data) /\ 3 \in 1 .. 4 + Len(data)
        /\ 4 \in 1 .. 4 + Len(data)
    BY <1>5
  <2>2. QED
    BY <1>3, <1>5, <2>1
<1>8. QED
  BY <1>1, <1>5, <1>6, <1>7 DEF Reads, bytes

\* A part of a sequence that has the length and the elements of another is that one.
LEMMA PartIs ==
    ASSUME NEW s, NEW t \in Seq(Byte), NEW k \in Nat,
           \A i \in 1 .. Len(t) : s[k + i] = t[i]
    PROVE  SubSeq(s, k + 1, k + Len(t)) = t
<1>1. Len(t) \in Nat /\ \A i \in 1 .. Len(t) : t[i] \in Byte
  BY LenProperties
<1>2. \A i \in k + 1 .. k + Len(t) : s[i] \in Byte
  <2> SUFFICES ASSUME NEW i \in k + 1 .. k + Len(t)
               PROVE  s[i] \in Byte
    OBVIOUS
  <2>1. i - k \in 1 .. Len(t) /\ k + (i - k) = i
    BY <1>1
  <2>2. QED
    BY <1>1, <2>1
<1> DEFINE part == SubSeq(s, k + 1, k + Len(t))
<1>3. /\ part \in Seq(Byte)
      /\ Len(part) = IF k + 1 <= k + Len(t) THEN (k + Len(t)) - (k + 1) + 1 ELSE 0
      /\ \A i \in 1 .. (k + Len(t)) - (k + 1) + 1 : part[i] = s[(k + 1) + i - 1]
  BY <1>1, <1>2, SubSeqProperties
<1> HIDE DEF part
<1>4. Len(part) = Len(t) /\ \A i \in 1 .. Len(part) : part[i] = t[i]
  BY <1>1, <1>3
<1>5. part = t
  BY <1>3, <1>4, SeqEqual
<1>6. QED
  BY <1>5 DEF part

\* The bytes of a packet: its command, and the length of its data, which follows.
IsPacket(bytes, command, data) ==
    /\ bytes \in Seq(Byte) /\ data \in Seq(Byte) /\ Len(data) \in Nat
    /\ Len(bytes) = 4 + Len(data) /\ u16(bytes[3], bytes[4]) = Len(data)
    /\ bytes[1] = command
    /\ \A i \in 1 .. Len(data) : bytes[4 + i] = data[i]

\* A buffer that begins as a packet does, or as the beginning of one, holds the whole
\* packet if a packet is parsed from it at all, and that packet is the one parsed.
LEMMA ParsedFirst ==
    ASSUME NEW bytes, NEW command, NEW data, IsPacket(bytes, command, data),
           NEW buf \in Seq(Byte), SstpParse(buf) # More,
           \A i \in 1 .. Len(buf) : i <= Len(bytes) => buf[i] = bytes[i]
    PROVE  /\ Len(bytes) <= Len(buf) /\ SstpParse(buf).consumed = Len(bytes)
           /\ SstpParse(buf).value.command = command
           /\ SstpParse(buf).value.data = data
<1>1. Len(buf) \in Nat /\ Len(bytes) = 4 + Len(data) /\ Len(data) \in Nat
  BY LenProperties DEF IsPacket
<1>2. Len(buf) >= 4
  BY <1>1 DEF SstpParse
<1>3. buf[1] = command /\ u16(buf[3], buf[4]) = Len(data)
  BY <1>1, <1>2 DEF IsPacket
<1>4. Len(buf) >= 4 + Len(data)
  BY <1>1, <1>2, <1>3 DEF SstpParse
<1>5. SstpParse(buf) = Parsed([command |-> buf[1], version |-> buf[2],
                              data |-> SubSeq(buf, 5, 4 + Len(data))], 4 + Len(data))
  BY <1>1, <1>2, <1>3, <1>4 DEF SstpParse
<1>6. \A i \in 1 .. Len(data) : buf[4 + i] = data[i]
  <2>1. \A i \in 1 .. Len(data) : 4 + i \in 1 .. Len(buf) /\ 4 + i <= Len(bytes)
    BY <1>1, <1>4
  <2>2. \A i \in 1 .. Len(data) : bytes[4 + i] = data[i]
    BY DEF IsPacket
  <2>3. QED
    BY <2>1, <2>2
<1>7. SubSeq(buf, 4 + 1, 4 + Len(data)) = data
  BY <1>6, PartIs DEF IsPacket
<1>8. SubSeq(buf, 5, 4 + Len(data)) = data
  BY <1>7
<1>9. SstpParse(buf) = Parsed([command |-> command, version |-> buf[2], data |-> data],
                              Len(bytes))
  BY <1>1, <1>3, <1>5, <1>8
<1>10. QED
  BY <1>1, <1>4, <1>9 DEF Parsed

LEMMA PppWritten ==
    ASSUME NEW protocol \in Word, NEW information \in Seq(Byte),
           4 + Len(information) < Base * Base
    PROVE  LET frame == [protocol |-> protocol, information |-> information]
           IN  /\ IsPacket(Framed(frame), DATA, PppBytes(frame))
               /\ PppParse(PppBytes(frame)) = Parsed(frame, 4 + Len(information))
<1> DEFINE frame == [protocol |-> protocol, information |-> information]
           ppp   == PppBytes(frame)
<1>1. Base \in Nat /\ Base >= 4 /\ Len(information) \in Nat
  BY BaseIsLarge, LenProperties
<1>2. 0 \in Byte /\ PPP_ADDRESS \in Byte /\ PPP_CONTROL \in Byte /\ DATA \in Byte
  BY <1>1 DEF Byte, PPP_ADDRESS, PPP_CONTROL, DATA
<1>3. ppp = Headed(PPP_ADDRESS, PPP_CONTROL, protocol, information)
  BY DEF PppBytes, Headed
<1> HIDE DEF ppp
<1>4. /\ ppp \in Seq(Byte) /\ Len(ppp) = 4 + Len(information)
      /\ u16(ppp[3], ppp[4]) = protocol
      /\ \A i \in 1 .. Len(information) : ppp[4 + i] = information[i]
  <2>1. Reads(ppp, PPP_ADDRESS, PPP_CONTROL, protocol, information)
    BY <1>2, <1>3, HeaderRead
  <2>2. QED
    BY <2>1 DEF Reads
<1>5. Len(ppp) \in Word
  <2>1. Len(ppp) \in Nat /\ Len(ppp) < Base * Base /\ Base * Base \in Nat
    BY <1>1, <1>4
  <2>2. QED
    BY <2>1 DEF Word
<1>6. Framed(frame) = Headed(DATA, 0, Len(ppp), ppp)
  BY DEF Framed, Headed, ppp
<1>7. IsPacket(Framed(frame), DATA, ppp)
  <2> DEFINE bytes == Framed(frame)
  <2> HIDE DEF bytes
  <2>1. bytes = Headed(DATA, 0, Len(ppp), ppp)
    BY <1>6 DEF bytes
  <2>2. /\ bytes \in Seq(Byte) /\ Len(bytes) = 4 + Len(ppp) /\ Len(ppp) \in Nat
        /\ bytes[1] = DATA /\ u16(bytes[3], bytes[4]) = Len(ppp)
        /\ \A i \in 1 .. Len(ppp) : bytes[4 + i] = ppp[i]
    <3>1. Reads(bytes, DATA, 0, Len(ppp), ppp)
      BY <1>2, <1>4, <1>5, <2>1, HeaderRead
    <3>2. QED
      BY <3>1 DEF Reads
  <2>3. IsPacket(bytes, DATA, ppp)
    BY <1>4, <2>2 DEF IsPacket
  <2>4. QED
    BY <2>3 DEF bytes
<1>8. SubSeq(ppp, 4 + 1, 4 + Len(information)) = information
  BY <1>4, PartIs
<1>9. From(ppp, 5) = information
  BY <1>4, <1>8 DEF From
<1>10. PppParse(ppp) = Parsed(frame, 4 + Len(information))
  BY <1>1, <1>4, <1>9 DEF PppParse
<1>11. QED
  BY <1>7, <1>10 DEF ppp

LEMMA ControlWritten ==
    ASSUME NEW frame \in [code : Byte, identifier : Byte, data : Seq(Byte)],
           NEW padding \in Seq(Byte), 8 + Len(frame.data) + Len(padding) < Base * Base
    PROVE  LET bytes == ControlBytes(frame) \o padding
           IN  /\ bytes \in Seq(Byte) /\ Len(bytes) = 4 + Len(frame.data) + Len(padding)
               /\ ControlParse(bytes) = Parsed(frame, 4 + Len(frame.data))
<1> DEFINE control == ControlBytes(frame)
           bytes   == control \o padding
           data    == frame.data
<1>1. /\ Base \in Nat /\ Base >= 4 /\ Len(padding) \in Nat /\ Len(data) \in Nat
      /\ data \in Seq(Byte)
  BY BaseIsLarge, LenProperties
<1>2. 4 + Len(data) \in Word
  <2>1. 4 + Len(data) \in Nat /\ 4 + Len(data) < Base * Base /\ Base * Base \in Nat
    BY <1>1
  <2>2. QED
    BY <2>1 DEF Word
<1>3. control = Headed(frame.code, frame.identifier, 4 + Len(data), data)
  BY DEF ControlBytes, Headed
<1> HIDE DEF control
<1>4. /\ control \in Seq(Byte) /\ Len(control) = 4 + Len(data)
      /\ control[1] = frame.code /\ control[2] = frame.identifier
      /\ u16(control[3], control[4]) = 4 + Len(data)
      /\ \A i \in 1 .. Len(data) : control[4 + i] = data[i]
  <2>1. frame.code \in Byte /\ frame.identifier \in Byte
    OBVIOUS
  <2>2. Reads(control, frame.code, frame.identifier, 4 + Len(data), data)
    BY <1>1, <1>2, <1>3, <2>1, HeaderRead
  <2>3. QED
    BY <2>2 DEF Reads
<1>5. /\ bytes \in Seq(Byte) /\ Len(bytes) = 4 + Len(data) + Len(padding)
      /\ \A i \in 1 .. 4 + Len(data) : bytes[i] = control[i]
  <2>1. /\ bytes \in Seq(Byte) /\ Len(bytes) = Len(control) + Len(padding)
        /\ \A i \in 1 .. Len(control) + Len(padding) :
              bytes[i] = IF i <= Len(control) THEN control[i] ELSE padding[i - Len(control)]
    <3>1. control \in Seq(Byte)
      BY <1>4
    <3>2. QED
      BY <3>1, ConcatProperties
  <2> HIDE DEF bytes, data
  <2>2. QED
    BY <1>1, <1>4, <2>1
<1> HIDE DEF bytes
<1>6. /\ bytes[1] = frame.code /\ bytes[2] = frame.identifier
      /\ u16(bytes[3], bytes[4]) = 4 + Len(data)
  <2>1. 1 \in 1 .. 4 + Len(data) /\ 2 \in 1 .. 4 + Len(data) /\ 3 \in 1 .. 4 + Len(data)
        /\ 4 \in 1 .. 4 + Len(data)
    BY <1>1
  <2>2. QED
    BY <1>4, <1>5, <2>1
<1>7. \A i \in 1 .. Len(data) : bytes[4 + i] = data[i]
  <2> SUFFICES ASSUME NEW i \in 1 .. Len(data)
               PROVE  bytes[4 + i] = data[i]
    OBVIOUS
  <2> HIDE DEF data
  <2>1. 4 + i \in 1 .. 4 + Len(data)
    BY <1>1
  <2>2. QED
    BY <1>4, <1>5, <2>1
<1>8. SubSeq(bytes, 4 + 1, 4 + Len(data)) = data
  BY <1>1, <1>7, PartIs
<1>9. ControlParse(bytes) =
        Parsed([code |-> bytes[1], identifier |-> bytes[2], data |-> SubSeq(bytes, 5, 4 + Len(data))],
               4 + Len(data))
  <2> HIDE DEF data
  <2>1. QED
    BY <1>1, <1>5, <1>6 DEF ControlParse
<1>10. frame = [code |-> frame.code, identifier |-> frame.identifier, data |-> data]
  OBVIOUS
<1>11. SubSeq(bytes, 5, 4 + Len(data)) = data
  BY <1>8
<1>12. ControlParse(bytes) = Parsed(frame, 4 + Len(data))
  BY <1>6, <1>9, <1>10, <1>11
<1>13. QED
  BY <1>5, <1>12 DEF bytes, control

\* Each message is written as a packet, and the packet decodes to the message.
LEMMA MessageWritten ==
    ASSUME NEW m \in Message, NEW padding \in Padding
    PROVE  /\ m # Invalid
           /\ \E command, data :
                /\ IsPacket(Encoded(m, padding), command, data)
                /\ \A pkt : pkt.command = command /\ pkt.data = data => Decoded(pkt) = m
<1>1. Fits(m, padding) /\ LCP \in Word
  BY MessagesFit, FramingConstants, BaseIsLarge DEF Word
<1>2. CASE m \in [kind : {"sstp"}, command : {CLOSE, REQUEST, REPLY}]
  <2> DEFINE bytes == Encoded(m, padding)
  <2>1. m.command \in Byte /\ 0 \in Byte /\ m.command # DATA /\ 0 \in Word /\ <<>> \in Seq(Byte)
        /\ Len(<<>>) = 0
    <3>1. Base \in Nat /\ Base >= 4 /\ Base * Base >= 1
      BY BaseIsLarge
    <3>2. QED
      BY <1>2, <3>1 DEF Byte, Word, DATA, CLOSE, REQUEST, REPLY
  <2>2. bytes = Headed(m.command, 0, Len(<<>>), <<>>)
    BY <1>2 DEF Encoded, SstpBytes, Headed
  <2> HIDE DEF bytes
  <2>3. bytes = Headed(m.command, 0, 0, <<>>)
    BY <2>1, <2>2
  <2>4. IsPacket(bytes, m.command, <<>>)
    <3>1. Reads(bytes, m.command, 0, 0, <<>>)
      BY <2>1, <2>3, HeaderRead
    <3>2. QED
      BY <2>1, <3>1 DEF Reads, IsPacket
  <2>5. \A pkt : pkt.command = m.command => Decoded(pkt) = m
    BY <1>2, <2>1 DEF Decoded
  <2>6. m # Invalid
    BY <1>2 DEF Invalid
  <2>7. QED
    BY <2>4, <2>5, <2>6 DEF bytes
<1>3. CASE /\ m \in [kind : {"ip"}, protocol : 0 .. Base * Base - 1, information : Seq(Byte)]
           /\ m.protocol # LCP /\ 4 + Len(m.information) < Base * Base
  <2> DEFINE frame == [protocol |-> m.protocol, information |-> m.information]
  <2>1. m.protocol \in Word /\ m.information \in Seq(Byte)
    BY <1>3 DEF Word
  <2>2. Encoded(m, padding) = Framed(frame)
    BY <1>3 DEF Encoded
  <2>3. /\ IsPacket(Framed(frame), DATA, PppBytes(frame))
        /\ PppParse(PppBytes(frame)) = Parsed(frame, 4 + Len(m.information))
    BY <1>3, <2>1, PppWritten
  <2>4. Parsed(frame, 4 + Len(m.information)) # Invalid
        /\ Parsed(frame, 4 + Len(m.information)).value = frame
    BY DEF Parsed, Invalid
  <2>5. m = [kind |-> "ip", protocol |-> m.protocol, information |-> m.information]
    BY <1>3
  <2>6. \A pkt : pkt.command = DATA /\ pkt.data = PppBytes(frame) => Decoded(pkt) = m
    BY <1>3, <2>3, <2>4, <2>5 DEF Decoded
  <2>7. m # Invalid
    BY <1>3 DEF Invalid
  <2>8. QED
    BY <2>2, <2>3, <2>6, <2>7
<1>4. CASE /\ m \in [kind : {"control"},
                     frame : [code : Byte, identifier : Byte, data : Seq(Byte)]]
           /\ 8 + Len(m.frame.data) + Len(padding) < Base * Base
  <2> DEFINE information == ControlBytes(m.frame) \o padding
             frame == [protocol |-> LCP, information |-> information]
  <2>1. padding \in Seq(Byte) /\ m.frame \in [code : Byte, identifier : Byte, data : Seq(Byte)]
    BY <1>1, <1>4 DEF Fits
  <2>2. /\ information \in Seq(Byte)
        /\ Len(information) = 4 + Len(m.frame.data) + Len(padding)
        /\ ControlParse(information) = Parsed(m.frame, 4 + Len(m.frame.data))
    BY <1>4, <2>1, ControlWritten
  <2>3. 4 + Len(information) < Base * Base
    <3>1. Len(m.frame.data) \in Nat /\ Len(padding) \in Nat
      BY <2>1, LenProperties
    <3>2. QED
      BY <1>4, <2>2, <3>1
  <2>4. Encoded(m, padding) = Framed(frame)
    BY <1>4 DEF Encoded
  <2> HIDE DEF information
  <2>5. /\ IsPacket(Framed(frame), DATA, PppBytes(frame))
        /\ PppParse(PppBytes(frame)) = Parsed(frame, 4 + Len(information))
    BY <1>1, <2>2, <2>3, PppWritten
  <2>6. /\ Parsed(frame, 4 + Len(information)) # Invalid
        /\ Parsed(frame, 4 + Len(information)).value = frame
        /\ Parsed(m.frame, 4 + Len(m.frame.data)) # Invalid
        /\ Parsed(m.frame, 4 + Len(m.frame.data)).value = m.frame
    BY DEF Parsed, Invalid
  <2>7. m = [kind |-> "control", frame |-> m.frame]
    BY <1>4
  <2>8. \A pkt : pkt.command = DATA /\ pkt.data = PppBytes(frame) => Decoded(pkt) = m
    BY <2>2, <2>5, <2>6, <2>7 DEF Decoded
  <2>9. m # Invalid
    BY <1>4 DEF Invalid
  <2>10. QED
    BY <2>4, <2>5, <2>8, <2>9
<1>5. QED
  BY <1>1, <1>2, <1>3, <1>4 DEF Fits

-----------------------------------------------------------------------------
(* Between the server and the parser: the bytes read and not parsed, then   *)
(* those on the stream, can be cut into the messages sent and not received. *)

Stream == socket_buf \o wire

Carries(bytes, from, to, m) ==
    \E padding \in Padding :
        /\ to = from + Len(Encoded(m, padding))
        /\ \A i \in 1 .. Len(Encoded(m, padding)) : bytes[from + i] = Encoded(m, padding)[i]

\* The messages of all after the first r lie in bytes at the cuts, and fill them.
Cuts(bytes, all, r, cut) ==
    /\ cut \in [0 .. Len(all) - r -> Nat]
    /\ cut[0] = 0 /\ cut[Len(all) - r] = Len(bytes)
    /\ \A j, k \in 0 .. Len(all) - r : j <= k => cut[j] <= cut[k]
    /\ \A k \in 1 .. Len(all) - r : Carries(bytes, cut[k - 1], cut[k], all[r + k])

InFlight(bytes, all, r) == r \in 0 .. Len(all) /\ \E cut : Cuts(bytes, all, r, cut)

Whole == TypeOK /\ InFlight(Stream, sent, Len(received))

LEMMA EncodedTyped ==
    ASSUME NEW m \in Message, NEW padding \in Padding
    PROVE  /\ Encoded(m, padding) \in Seq(Byte) /\ Len(Encoded(m, padding)) \in Nat
           /\ Len(Encoded(m, padding)) >= 4
<1>1. PICK command, data : IsPacket(Encoded(m, padding), command, data)
  BY MessageWritten
<1>2. QED
  BY <1>1 DEF IsPacket

\* The last k elements of two sequences in a row, when the first has the others.
LEMMA Dropped ==
    ASSUME NEW s \in Seq(Byte), NEW t \in Seq(Byte), NEW c \in 0 .. Len(s)
    PROVE  /\ From(s, c + 1) \in Seq(Byte) /\ From(s, c + 1) \o t \in Seq(Byte)
           /\ Len(From(s, c + 1) \o t) = Len(s \o t) - c
           /\ \A i \in 1 .. Len(s \o t) - c : (From(s, c + 1) \o t)[i] = (s \o t)[c + i]
<1> DEFINE part == From(s, c + 1)
<1>1. Len(s) \in Nat /\ Len(t) \in Nat /\ \A i \in 1 .. Len(s) : s[i] \in Byte
  BY LenProperties
<1>2. /\ part \in Seq(Byte) /\ Len(part) = Len(s) - c
      /\ \A i \in 1 .. Len(s) - c : part[i] = s[c + i]
  <2>1. \A i \in c + 1 .. Len(s) : s[i] \in Byte
    BY <1>1
  <2>2. /\ part \in Seq(Byte)
        /\ Len(part) = IF c + 1 <= Len(s) THEN Len(s) - (c + 1) + 1 ELSE 0
        /\ \A i \in 1 .. Len(s) - (c + 1) + 1 : part[i] = s[(c + 1) + i - 1]
    BY <1>1, <2>1, SubSeqProperties DEF From
  <2> HIDE DEF part
  <2>3. QED
    BY <1>1, <2>2
<1> HIDE DEF part
<1>3. /\ part \o t \in Seq(Byte) /\ Len(part \o t) = Len(part) + Len(t)
      /\ \A i \in 1 .. Len(part) + Len(t) :
            (part \o t)[i] = IF i <= Len(part) THEN part[i] ELSE t[i - Len(part)]
  BY <1>2, ConcatProperties
<1>4. /\ Len(s \o t) = Len(s) + Len(t)
      /\ \A i \in 1 .. Len(s) + Len(t) :
            (s \o t)[i] = IF i <= Len(s) THEN s[i] ELSE t[i - Len(s)]
  BY ConcatProperties
<1>5. Len(part \o t) = Len(s \o t) - c
  BY <1>1, <1>2, <1>3, <1>4
<1>6. ASSUME NEW i \in 1 .. Len(s \o t) - c
      PROVE  (part \o t)[i] = (s \o t)[c + i]
  <2>1. i \in 1 .. Len(part) + Len(t) /\ c + i \in 1 .. Len(s) + Len(t)
    BY <1>1, <1>2, <1>4
  <2>2. (part \o t)[i] = IF i <= Len(part) THEN part[i] ELSE t[i - Len(part)]
    BY <1>3, <2>1
  <2>3. (s \o t)[c + i] = IF c + i <= Len(s) THEN s[c + i] ELSE t[c + i - Len(s)]
    BY <1>4, <2>1
  <2>4. CASE i <= Len(part)
    <3>1. i \in 1 .. Len(s) - c /\ c + i <= Len(s)
      BY <1>1, <1>2, <2>1, <2>4
    <3>2. QED
      BY <1>2, <2>2, <2>3, <2>4, <3>1
  <2>5. CASE ~(i <= Len(part))
    <3>1. ~(c + i <= Len(s)) /\ c + i - Len(s) = i - Len(part)
      BY <1>1, <1>2, <2>1, <2>5
    <3>2. QED
      BY <2>2, <2>3, <2>5, <3>1
  <2>6. QED
    BY <2>4, <2>5
<1>7. QED
  BY <1>2, <1>3, <1>5, <1>6 DEF part

\* Bytes that move together carry what they carried.
LEMMA CarriesMoved ==
    ASSUME NEW bytes, NEW new, NEW m \in Message, NEW from \in Nat, NEW to \in Nat, NEW d \in Nat,
           Carries(bytes, from, to, m),
           \A i \in 1 .. to - from : new[(from - d) + i] = bytes[from + i]
    PROVE  Carries(new, from - d, to - d, m)
<1>1. PICK p \in Padding :
        /\ to = from + Len(Encoded(m, p))
        /\ \A i \in 1 .. Len(Encoded(m, p)) : bytes[from + i] = Encoded(m, p)[i]
  BY DEF Carries
<1> DEFINE e == Encoded(m, p)
<1>2. Len(e) \in Nat
  BY EncodedTyped
<1>3. to = from + Len(e) /\ \A i \in 1 .. Len(e) : bytes[from + i] = e[i]
  BY <1>1
<1> HIDE DEF e
<1>4. to - d = (from - d) + Len(e) /\ to - from = Len(e)
  BY <1>2, <1>3
<1>5. \A i \in 1 .. Len(e) : new[(from - d) + i] = e[i]
  BY <1>3, <1>4
<1>6. QED
  BY <1>4, <1>5 DEF Carries, e

\* Sending: the message is behind the last cut.
LEMMA SentInFlight ==
    ASSUME NEW bytes \in Seq(Byte), NEW all \in Seq(Message), NEW r, InFlight(bytes, all, r),
           NEW m \in Message, NEW padding \in Padding
    PROVE  InFlight(bytes \o Encoded(m, padding), Append(all, m), r)
<1> DEFINE e    == Encoded(m, padding)
           new  == bytes \o e
           said == Append(all, m)
           n    == Len(all) - r
<1>1. PICK cut : Cuts(bytes, all, r, cut)
  BY DEF InFlight
<1>2. /\ e \in Seq(Byte) /\ Len(e) \in Nat /\ Len(bytes) \in Nat /\ Len(all) \in Nat
      /\ r \in Nat /\ n \in Nat /\ r <= Len(all)
  BY EncodedTyped, LenProperties DEF InFlight
<1>3. /\ Len(new) = Len(bytes) + Len(e)
      /\ \A i \in 1 .. Len(bytes) : new[i] = bytes[i]
      /\ \A i \in 1 .. Len(e) : new[Len(bytes) + i] = e[i]
  <2>1. e \in Seq(Byte)
    BY <1>2
  <2> HIDE DEF e
  <2>2. /\ Len(new) = Len(bytes) + Len(e)
        /\ \A i \in 1 .. Len(bytes) + Len(e) :
              new[i] = IF i <= Len(bytes) THEN bytes[i] ELSE e[i - Len(bytes)]
    BY <2>1, ConcatProperties
  <2> HIDE DEF new
  <2>3. \A i \in 1 .. Len(e) : /\ Len(bytes) + i \in 1 .. Len(bytes) + Len(e)
                               /\ ~(Len(bytes) + i <= Len(bytes))
                               /\ (Len(bytes) + i) - Len(bytes) = i
    BY <1>2
  <2>4. \A i \in 1 .. Len(bytes) : i \in 1 .. Len(bytes) + Len(e) /\ i <= Len(bytes)
    BY <1>2
  <2>5. QED
    BY <2>2, <2>3, <2>4
<1>4. /\ Len(said) = Len(all) + 1 /\ said[Len(all) + 1] = m
      /\ \A i \in 1 .. Len(all) : said[i] = all[i]
  BY AppendProperties
<1> HIDE DEF e, new, said
<1> DEFINE then == [k \in 0 .. n + 1 |-> IF k <= n THEN cut[k] ELSE Len(new)]
<1>5. /\ cut \in [0 .. n -> Nat] /\ cut[0] = 0 /\ cut[n] = Len(bytes)
      /\ \A j, k \in 0 .. n : j <= k => cut[j] <= cut[k]
      /\ \A k \in 1 .. n : Carries(bytes, cut[k - 1], cut[k], all[r + k])
  BY <1>1 DEF Cuts
<1>6. Len(said) - r = n + 1
  BY <1>2, <1>4
<1> HIDE DEF n
<1>7. then \in [0 .. n + 1 -> Nat] /\ then[0] = 0 /\ then[n + 1] = Len(new)
  BY <1>2, <1>3, <1>5
<1>8. \A k \in 0 .. n : cut[k] <= Len(bytes)
  BY <1>2, <1>5
<1>9. \A j, k \in 0 .. n + 1 : j <= k => then[j] <= then[k]
  BY <1>2, <1>3, <1>5, <1>8
<1>10. ASSUME NEW k \in 1 .. n + 1
       PROVE  Carries(new, then[k - 1], then[k], said[r + k])
  <2>1. CASE k = n + 1
    <3>1. then[k - 1] = Len(bytes) /\ then[k] = Len(bytes) + Len(e)
      BY <1>2, <1>3, <1>5, <2>1
    <3>2. said[r + k] = m
      BY <1>2, <1>4, <2>1 DEF n
    <3>3. QED
      BY <1>3, <3>1, <3>2 DEF Carries, e
  <2>2. CASE k \in 1 .. n
    <3>1. then[k - 1] = cut[k - 1] /\ then[k] = cut[k] /\ cut[k] <= Len(bytes)
          /\ cut[k - 1] \in Nat
      BY <1>2, <1>5, <1>8, <2>2
    <3>2. said[r + k] = all[r + k]
      BY <1>2, <1>4, <2>2 DEF n
    <3>3. Carries(bytes, cut[k - 1], cut[k], all[r + k])
      BY <1>5, <2>2
    <3>4. all[r + k] \in Message
      <4>1. r + k \in 1 .. Len(all)
        BY <1>2, <2>2 DEF n
      <4>2. QED
        BY <4>1
    <3>5. cut[k - 1] \in Nat /\ cut[k] \in Nat /\ cut[k - 1] <= cut[k]
      BY <1>2, <1>5, <2>2
    <3>6. \A i \in 1 .. cut[k] - cut[k - 1] : new[(cut[k - 1] - 0) + i] = bytes[cut[k - 1] + i]
      <4> HIDE DEF then
      <4>1. \A i \in 1 .. cut[k] - cut[k - 1] :
                cut[k - 1] + i \in 1 .. Len(bytes) /\ (cut[k - 1] - 0) + i = cut[k - 1] + i
        BY <1>2, <3>1, <3>5
      <4>2. QED
        BY <1>3, <4>1
    <3>7. Carries(new, cut[k - 1] - 0, cut[k] - 0, all[r + k])
      BY <3>3, <3>4, <3>5, <3>6, CarriesMoved, Zenon
    <3>8. QED
      BY <3>1, <3>2, <3>5, <3>7
  <2>3. QED
    BY <1>2, <2>1, <2>2
<1> HIDE DEF then
<1>11. Cuts(new, said, r, then)
  BY <1>6, <1>7, <1>9, <1>10 DEF Cuts
<1>12. QED
  BY <1>2, <1>4, <1>11 DEF InFlight, e, new, said

\* Taking the first message off: every cut moves down by its length.
LEMMA TakenInFlight ==
    ASSUME NEW bytes \in Seq(Byte), NEW new \in Seq(Byte), NEW all \in Seq(Message),
           NEW r \in Nat, r < Len(all), NEW cut, Cuts(bytes, all, r, cut),
           Len(new) = Len(bytes) - cut[1],
           \A i \in 1 .. Len(bytes) - cut[1] : new[i] = bytes[cut[1] + i]
    PROVE  InFlight(new, all, r + 1)
<1> DEFINE n == Len(all) - r
<1>1. Len(bytes) \in Nat /\ Len(all) \in Nat /\ n \in Nat /\ n >= 1
  BY LenProperties
<1>2. /\ cut \in [0 .. n -> Nat] /\ cut[n] = Len(bytes)
      /\ \A j, k \in 0 .. n : j <= k => cut[j] <= cut[k]
      /\ \A k \in 1 .. n : Carries(bytes, cut[k - 1], cut[k], all[r + k])
  BY DEF Cuts
<1>3. /\ Len(all) - (r + 1) = n - 1 /\ r + 1 \in 0 .. Len(all)
      /\ \A k \in 1 .. n : r + k \in 1 .. Len(all)
  BY <1>1
<1> HIDE DEF n
<1> DEFINE d    == cut[1]
           then == [k \in 0 .. n - 1 |-> cut[k + 1] - d]
<1>4. d \in Nat /\ \A k \in 1 .. n : cut[k] \in Nat /\ d <= cut[k] /\ cut[k] <= Len(bytes)
  <2>1. 1 \in 0 .. n /\ n \in 0 .. n /\ \A k \in 1 .. n : k \in 0 .. n /\ 1 <= k /\ k <= n
    BY <1>1
  <2>2. \A k \in 0 .. n : cut[k] \in Nat
    BY <1>2
  <2>3. \A k \in 1 .. n : cut[1] <= cut[k] /\ cut[k] <= cut[n]
    BY <1>2, <2>1
  <2>4. QED
    BY <1>2, <2>1, <2>2, <2>3
<1>5. then \in [0 .. n - 1 -> Nat] /\ then[0] = 0 /\ then[n - 1] = Len(new)
  <2>1. \A k \in 0 .. n - 1 : k + 1 \in 1 .. n
    BY <1>1
  <2>2. \A k \in 0 .. n - 1 : cut[k + 1] - d \in Nat
    BY <1>4, <2>1
  <2>3. 0 \in 0 .. n - 1 /\ n - 1 \in 0 .. n - 1 /\ 0 + 1 = 1 /\ n - 1 + 1 = n /\ d - d = 0
    BY <1>1, <1>4
  <2>4. then[0] = 0
    BY <2>3
  <2>5. then[n - 1] = Len(new)
    BY <1>2, <2>3
  <2>6. QED
    BY <2>2, <2>4, <2>5
<1>6. ASSUME NEW j \in 0 .. n - 1, NEW k \in 0 .. n - 1, j <= k
      PROVE  then[j] <= then[k]
  <2>1. j + 1 \in 0 .. n /\ k + 1 \in 0 .. n /\ j + 1 <= k + 1
        /\ j + 1 \in 1 .. n /\ k + 1 \in 1 .. n
    BY <1>1, <1>6
  <2>2. cut[j + 1] <= cut[k + 1] /\ cut[j + 1] \in Nat /\ cut[k + 1] \in Nat
    BY <1>2, <1>4, <2>1
  <2>3. then[j] = cut[j + 1] - d /\ then[k] = cut[k + 1] - d
    OBVIOUS
  <2> HIDE DEF then, d
  <2>4. QED
    BY <1>4, <2>2, <2>3
<1>7. ASSUME NEW k \in 1 .. n - 1
      PROVE  Carries(new, then[k - 1], then[k], all[(r + 1) + k])
  <2>1. /\ k \in 1 .. n /\ k + 1 \in 1 .. n /\ (k - 1) + 1 = k /\ (k + 1) - 1 = k
        /\ k \in 0 .. n - 1 /\ k - 1 \in 0 .. n - 1 /\ (r + 1) + k = r + (k + 1)
    BY <1>1
  <2>2. then[k - 1] = cut[k] - d /\ then[k] = cut[k + 1] - d
    BY <2>1
  <2>3. /\ cut[k] \in Nat /\ cut[k + 1] \in Nat /\ d <= cut[k] /\ cut[k + 1] <= Len(bytes)
        /\ cut[k] <= cut[k + 1]
    <3>1. k \in 0 .. n /\ k + 1 \in 0 .. n /\ k <= k + 1
      BY <1>1, <2>1
    <3>2. cut[k] <= cut[k + 1]
      BY <1>2, <3>1
    <3> HIDE DEF d, then
    <3>3. QED
      BY <1>4, <2>1, <3>2
  <2>4. Carries(bytes, cut[k], cut[k + 1], all[r + (k + 1)])
    BY <1>2, <2>1
  <2>5. all[r + (k + 1)] \in Message
    <3>1. r + (k + 1) \in 1 .. Len(all)
      BY <1>3, <2>1
    <3>2. QED
      BY <3>1
  <2> HIDE DEF then
  <2>6. \A i \in 1 .. cut[k + 1] - cut[k] : new[(cut[k] - d) + i] = bytes[cut[k] + i]
    <3> SUFFICES ASSUME NEW i \in 1 .. cut[k + 1] - cut[k]
                 PROVE  new[(cut[k] - d) + i] = bytes[cut[k] + i]
      OBVIOUS
    <3>1. \A x \in 1 .. Len(bytes) - d : new[x] = bytes[d + x]
      OBVIOUS
    <3> DEFINE a == cut[k]
               b == cut[k + 1]
               e == Len(bytes)
    <3>2. i \in 1 .. b - a /\ a \in Nat /\ b \in Nat /\ d \in Nat /\ e \in Nat /\ d <= a /\ b <= e
      BY <1>1, <1>4, <2>3
    <3> HIDE DEF a, b, d, e
    <3>3. (a - d) + i \in 1 .. e - d /\ d + ((a - d) + i) = a + i
      BY <3>2
    <3>4. (cut[k] - d) + i \in 1 .. Len(bytes) - d /\ d + ((cut[k] - d) + i) = cut[k] + i
      BY <3>3 DEF a, e
    <3>5. QED
      BY <3>1, <3>4
  <2> HIDE DEF d
  <2>7. Carries(new, cut[k] - d, cut[k + 1] - d, all[r + (k + 1)])
    BY <1>4, <2>3, <2>4, <2>5, <2>6, CarriesMoved, Zenon
  <2>8. QED
    BY <2>1, <2>2, <2>7
<1> HIDE DEF then, d
<1>8. Cuts(new, all, r + 1, then)
  BY <1>3, <1>5, <1>6, <1>7 DEF Cuts
<1>9. QED
  BY <1>3, <1>8 DEF InFlight

-----------------------------------------------------------------------------
\* A packet that is parsed from socket_buf is the first message not received, whole.
LEMMA FirstParsed ==
    ASSUME Whole, SstpParse(socket_buf) # More, NEW cut,
           Cuts(Stream, sent, Len(received), cut)
    PROVE  /\ Len(received) < Len(sent) /\ cut[1] \in 0 .. Len(socket_buf)
           /\ SstpParse(socket_buf).consumed = cut[1]
           /\ Decoded(SstpParse(socket_buf).value) = sent[Len(received) + 1]
           /\ sent[Len(received) + 1] \in Message /\ sent[Len(received) + 1] # Invalid
<1> DEFINE r == Len(received)
           n == Len(sent) - r
<1>1. /\ socket_buf \in Seq(Byte) /\ wire \in Seq(Byte) /\ sent \in Seq(Message)
      /\ r \in 0 .. Len(sent)
  BY DEF Whole, TypeOK, InFlight
<1>2. Len(socket_buf) \in Nat /\ Len(wire) \in Nat /\ Len(sent) \in Nat /\ n \in Nat
  BY <1>1, LenProperties
<1>3. Len(socket_buf) >= 4
  BY <1>2 DEF SstpParse
<1>4. /\ Len(Stream) = Len(socket_buf) + Len(wire)
      /\ \A i \in 1 .. Len(socket_buf) + Len(wire) :
            Stream[i] = IF i <= Len(socket_buf) THEN socket_buf[i]
                        ELSE wire[i - Len(socket_buf)]
  BY <1>1, ConcatProperties DEF Stream
<1>5. /\ cut \in [0 .. n -> Nat] /\ cut[0] = 0 /\ cut[n] = Len(Stream)
      /\ \A j, k \in 0 .. n : j <= k => cut[j] <= cut[k]
      /\ \A k \in 1 .. n : Carries(Stream, cut[k - 1], cut[k], sent[r + k])
  BY DEF Cuts
<1>6. n >= 1
  BY <1>2, <1>3, <1>4, <1>5
<1>7. r + 1 \in 1 .. Len(sent) /\ r < Len(sent)
  BY <1>1, <1>2, <1>6
<1> HIDE DEF n
<1> DEFINE m == sent[r + 1]
<1>8. m \in Message
  BY <1>1, <1>7
<1>9. Carries(Stream, 0, cut[1], m)
  <2>1. 1 \in 1 .. n /\ 1 - 1 = 0
    BY <1>2, <1>6
  <2>2. QED
    BY <1>5, <2>1
<1>10. cut[1] <= Len(Stream) /\ cut[1] \in Nat
  BY <1>2, <1>5, <1>6
<1> HIDE DEF m, r
<1>11. PICK p \in Padding : /\ cut[1] = 0 + Len(Encoded(m, p))
                            /\ \A i \in 1 .. Len(Encoded(m, p)) :
                                    Stream[0 + i] = Encoded(m, p)[i]
  BY <1>9 DEF Carries
<1> DEFINE e == Encoded(m, p)
<1>12. PICK command, data :
        /\ IsPacket(e, command, data)
        /\ \A pkt : pkt.command = command /\ pkt.data = data => Decoded(pkt) = m
  BY <1>8, MessageWritten
<1>13. m # Invalid
  BY <1>8, MessageWritten
<1>14. Len(e) \in Nat
  BY <1>12 DEF IsPacket
<1>15. cut[1] = Len(e) /\ \A i \in 1 .. Len(e) : Stream[i] = e[i]
  BY <1>11, <1>14
<1> HIDE DEF e
<1>16. \A i \in 1 .. Len(socket_buf) : i <= Len(e) => socket_buf[i] = e[i]
  BY <1>2, <1>4, <1>14, <1>15
<1>17. /\ Len(e) <= Len(socket_buf) /\ SstpParse(socket_buf).consumed = Len(e)
       /\ SstpParse(socket_buf).value.command = command
       /\ SstpParse(socket_buf).value.data = data
  BY <1>1, <1>12, <1>16, ParsedFirst
<1>18. Decoded(SstpParse(socket_buf).value) = m
  BY <1>12, <1>17
<1>19. QED
  BY <1>2, <1>7, <1>8, <1>13, <1>14, <1>15, <1>17, <1>18 DEF m, r

LEMMA InitWhole == Init => Whole
<1> SUFFICES ASSUME Init
             PROVE  Whole
  OBVIOUS
<1>1. /\ sent = <<>> /\ received = <<>> /\ wire = <<>> /\ socket_buf = <<>>
      /\ pc = "read" /\ phase = "negotiate" /\ beyond = FALSE
  BY DEF Init
<1>2. TypeOK
  <2>1. <<>> \in Seq(Message) /\ <<>> \in Seq(Byte)
    BY EmptySeq
  <2>2. beyond \in BOOLEAN /\ pc \in {"read", "parse", "failed"}
        /\ phase \in {"negotiate", "loop"}
    BY <1>1
  <2>3. QED
    BY <1>1, <2>1, <2>2, Zenon DEF TypeOK
<1>3. Stream = <<>> /\ Len(sent) = 0 /\ Len(received) = 0
  <2>1. <<>> \o <<>> = <<>>
    BY ConcatEmptySeq, EmptySeq
  <2>2. QED
    BY <1>1, <2>1 DEF Stream
<1> DEFINE cut == [k \in 0 .. 0 |-> 0]
<1>4. Cuts(Stream, sent, Len(received), cut)
  <2>1. Len(sent) - Len(received) = 0 /\ Len(Stream) = 0
    BY <1>3
  <2>2. cut \in [0 .. 0 -> Nat] /\ cut[0] = 0
    OBVIOUS
  <2>3. QED
    BY <2>1, <2>2 DEF Cuts
<1>5. QED
  BY <1>2, <1>3, <1>4 DEF Whole, InFlight

LEMMA SendWhole == ASSUME Whole, Send PROVE Whole'
<1>1. PICK m \in Message, padding \in Padding :
        sent' = Append(sent, m) /\ wire' = wire \o Encoded(m, padding)
  BY DEF Send
<1> DEFINE e == Encoded(m, padding)
<1>2. /\ UNCHANGED <<received, socket_buf, pc, phase, beyond>> /\ TypeOK
      /\ InFlight(Stream, sent, Len(received))
  BY DEF Send, Whole
<1>3. e \in Seq(Byte) /\ wire \in Seq(Byte) /\ socket_buf \in Seq(Byte) /\ sent \in Seq(Message)
  BY <1>2, EncodedTyped DEF TypeOK
<1>4. sent' \in Seq(Message) /\ wire' \in Seq(Byte)
  <2>1. sent' \in Seq(Message)
    BY <1>1, <1>3, AppendProperties
  <2>2. wire \o e \in Seq(Byte)
    <3> HIDE DEF e
    <3>1. QED
      BY <1>3, ConcatProperties
  <2>3. QED
    BY <1>1, <2>1, <2>2
<1>5. Stream' = Stream \o e /\ Stream \in Seq(Byte)
  <2> HIDE DEF e
  <2>1. socket_buf \o (wire \o e) = (socket_buf \o wire) \o e
    BY <1>3, ConcatAssociative
  <2>2. socket_buf \o wire \in Seq(Byte)
    BY <1>3, ConcatProperties
  <2>3. QED
    BY <1>1, <1>2, <2>1, <2>2 DEF Stream, e
<1>6. InFlight(Stream \o e, Append(sent, m), Len(received))
  BY <1>2, <1>3, <1>5, SentInFlight
<1>7. QED
  BY <1>1, <1>2, <1>4, <1>5, <1>6 DEF Whole, TypeOK

LEMMA ReadWhole == ASSUME Whole, Read PROVE Whole'
<1>1. PICK n \in 1 .. ReadSize :
        /\ n <= Len(wire)
        /\ socket_buf' = socket_buf \o SubSeq(wire, 1, n) /\ wire' = From(wire, n + 1)
  BY DEF Read
<1>2. /\ UNCHANGED <<sent, received, phase>> /\ pc' = "parse" /\ beyond' = FALSE /\ TypeOK
      /\ InFlight(Stream, sent, Len(received))
  BY DEF Read, Whole
<1>3. /\ wire \in Seq(Byte) /\ socket_buf \in Seq(Byte) /\ Len(wire) \in Nat
      /\ n \in 1 .. Len(wire)
  <2>1. wire \in Seq(Byte) /\ socket_buf \in Seq(Byte)
    BY <1>2 DEF TypeOK
  <2>2. Len(wire) \in Nat
    BY <2>1, LenProperties
  <2>3. QED
    BY <1>1, <2>1, <2>2, FramingConstants
<1> DEFINE head == SubSeq(wire, 1, n)
           rest == SubSeq(wire, n + 1, Len(wire))
<1>4. head \o rest = wire
  <2>1. SubSeq(wire, 1, n) \o SubSeq(wire, n + 1, Len(wire)) = SubSeq(wire, 1, Len(wire))
    <3>1. 1 \in 1 .. Len(wire) + 1 /\ n \in 1 - 1 .. Len(wire) /\ Len(wire) \in n .. Len(wire)
      BY <1>3
    <3>2. QED
      BY <1>3, <3>1, ConcatAdjacentSubSeq
  <2>2. SubSeq(wire, 1, Len(wire)) = wire
    BY <1>3, SubSeqFull
  <2>3. QED
    BY <2>1, <2>2
<1>5. head \in Seq(Byte) /\ rest \in Seq(Byte)
  <2>1. \A i \in 1 .. Len(wire) : wire[i] \in Byte
    BY <1>3, LenProperties
  <2>2. (\A i \in 1 .. n : wire[i] \in Byte) /\ \A i \in n + 1 .. Len(wire) : wire[i] \in Byte
    BY <1>3, <2>1
  <2>3. 1 \in Nat /\ n \in Nat /\ n + 1 \in Nat
    BY <1>3
  <2>4. QED
    BY <1>3, <2>2, <2>3, SubSeqProperties
<1>6. socket_buf' \in Seq(Byte) /\ wire' \in Seq(Byte) /\ Stream' = Stream
  <2> HIDE DEF head, rest
  <2>1. socket_buf' = socket_buf \o head /\ wire' = rest
    BY <1>1 DEF head, rest, From
  <2>2. (socket_buf \o head) \o rest = socket_buf \o (head \o rest)
    <3>1. socket_buf \in Seq(Byte) /\ head \in Seq(Byte) /\ rest \in Seq(Byte)
      BY <1>3, <1>5
    <3>2. QED
      BY <3>1, ConcatAssociative
  <2>3. socket_buf \o head \in Seq(Byte)
    BY <1>3, <1>5, ConcatProperties
  <2>4. QED
    BY <1>4, <1>5, <2>1, <2>2, <2>3 DEF Stream
<1>7. QED
  BY <1>2, <1>6 DEF Whole, TypeOK

LEMMA TakeWhole ==
    ASSUME Whole, TakePacket
    PROVE  /\ Whole' /\ Len(received) < Len(sent) /\ sent' = sent
           /\ received' = Append(received, sent[Len(received) + 1])
<1> DEFINE packet == SstpParse(socket_buf)
           m      == sent[Len(received) + 1]
<1>1. /\ TypeOK /\ sent' = sent /\ wire' = wire /\ packet # More
      /\ InFlight(Stream, sent, Len(received))
  BY DEF TakePacket, Whole
<1>2. PICK cut : Cuts(Stream, sent, Len(received), cut)
  BY <1>1 DEF InFlight
<1>3. /\ Len(received) < Len(sent) /\ cut[1] \in 0 .. Len(socket_buf)
      /\ packet.consumed = cut[1] /\ Decoded(packet.value) = m /\ m \in Message /\ m # Invalid
  BY <1>1, <1>2, FirstParsed
<1>4. /\ received' = Append(received, m) /\ socket_buf' = From(socket_buf, packet.consumed + 1)
      /\ pc' \in {"read", "parse", "failed"} /\ phase' \in {"negotiate", "loop"}
      /\ beyond' \in BOOLEAN
  BY <1>1, <1>3 DEF TakePacket, Handover, TypeOK
<1> HIDE DEF packet, m
<1>5. /\ socket_buf \in Seq(Byte) /\ wire \in Seq(Byte) /\ sent \in Seq(Message)
      /\ received \in Seq(Message) /\ Len(received) \in Nat
  <2>1. /\ socket_buf \in Seq(Byte) /\ wire \in Seq(Byte) /\ sent \in Seq(Message)
        /\ received \in Seq(Message)
    BY <1>1 DEF TypeOK
  <2>2. QED
    BY <2>1, LenProperties
<1>6. socket_buf' = From(socket_buf, cut[1] + 1)
  BY <1>3, <1>4
<1>7. /\ socket_buf' \in Seq(Byte) /\ Stream' \in Seq(Byte)
      /\ Len(Stream') = Len(Stream) - cut[1]
      /\ \A i \in 1 .. Len(Stream) - cut[1] : Stream'[i] = Stream[cut[1] + i]
  BY <1>1, <1>3, <1>5, <1>6, Dropped DEF Stream
<1>8. Stream \in Seq(Byte)
  BY <1>5, ConcatProperties DEF Stream
<1>9. InFlight(Stream', sent, Len(received) + 1)
  BY <1>2, <1>3, <1>5, <1>7, <1>8, TakenInFlight
<1>10. received' \in Seq(Message) /\ Len(received') = Len(received) + 1
  BY <1>3, <1>4, <1>5, AppendProperties
<1>11. TypeOK'
  BY <1>1, <1>4, <1>5, <1>7, <1>10 DEF TypeOK
<1>12. QED
  BY <1>1, <1>3, <1>4, <1>9, <1>10, <1>11 DEF Whole, m

LEMMA NothingMoves == ASSUME Whole, UNCHANGED <<sent, received, wire, socket_buf>>,
                             pc' \in {"read", "parse", "failed"}, UNCHANGED <<phase, beyond>>
                      PROVE  Whole'
<1>1. TypeOK' /\ Stream' = Stream
  BY DEF Whole, TypeOK, Stream
<1>2. QED
  BY <1>1 DEF Whole

LEMMA InductiveWhole == Whole /\ [Next]_vars => Whole'
<1> SUFFICES ASSUME Whole, [Next]_vars
             PROVE  Whole'
  OBVIOUS
<1>1. CASE Send
  BY <1>1, SendWhole
<1>2. CASE Read
  BY <1>2, ReadWhole
<1>3. CASE NeedsMore
  BY <1>3, NothingMoves DEF NeedsMore
<1>4. CASE TakePacket
  BY <1>4, TakeWhole
<1>5. CASE UNCHANGED vars
  <2>1. pc \in {"read", "parse", "failed"}
    BY DEF Whole, TypeOK
  <2>2. QED
    BY <1>5, <2>1, NothingMoves DEF vars
<1>6. QED
  BY <1>1, <1>2, <1>3, <1>4, <1>5 DEF Next

\* The bytes and messages keep their types: no parser ever makes another value of what
\* the server sent (SstpPacket::parse_from_buf and the PPP parsers behind it).
THEOREM FramingTypesKept == Spec => []TypeOK
<1>1. Whole => TypeOK
  BY DEF Whole
<1>2. QED
  BY <1>1, InitWhole, InductiveWhole, PTL DEF Spec

\* However the stream is cut into reads and wherever negotiate() hands socket_buf over,
\* the messages that are parsed are those sent, in order, each once: the parser
\* implements the FIFO of Fifo.
THEOREM StreamImplementsFifo == Spec => InOrder
<1>1. Init => Delivered!Init
  BY DEF Init, Delivered!Init
<1>2. Whole /\ [Next]_vars => [Delivered!Next]_<<sent, received>>
  <2> SUFFICES ASSUME Whole, [Next]_vars
               PROVE  [Delivered!Next]_<<sent, received>>
    OBVIOUS
  <2>1. CASE Send
    BY <2>1 DEF Send, Delivered!Next, Delivered!Send
  <2>2. CASE Read \/ NeedsMore \/ UNCHANGED vars
    BY <2>2 DEF Read, NeedsMore, vars
  <2>3. CASE TakePacket
    BY <2>3, TakeWhole DEF Delivered!Next, Delivered!Receive
  <2>4. QED
    BY <2>1, <2>2, <2>3 DEF Next
<1>3. QED
  BY <1>1, <1>2, InitWhole, InductiveWhole, PTL DEF Spec, InOrder, Delivered!Spec

-----------------------------------------------------------------------------
(* The walk over an option area: the options found so far are the parts of  *)
(* the bytes walked, and whoever divides the area at all divides what was   *)
(* walked in the same places.                                               *)

Spells(bytes, found, end, cut) ==
    /\ cut \in [0 .. Len(found) -> 0 .. Len(bytes)]
    /\ cut[0] = 0 /\ cut[Len(found)] = end
    /\ \A k \in 1 .. Len(found) :
            /\ cut[k - 1] + 2 <= cut[k] /\ bytes[cut[k - 1] + 2] = cut[k] - cut[k - 1]
            /\ to_bytes(found[k]) = SubSeq(bytes, cut[k - 1] + 1, cut[k])

Walked(cut) == Spells(area, options, pos, cut)

Forced ==
    \A n \in Nat : \A cut \in [0 .. n -> 0 .. Len(area)] :
        Divides(cut, n) => Len(options) <= n /\ cut[Len(options)] = pos

ParseInductive ==
    /\ area \in Areas /\ area \in Seq(Byte) /\ pos \in 0 .. Len(area)
    /\ options \in Seq([type : Byte, data : Seq(Byte)])
    /\ outcome \in {"walking", "parsed", "refused"}
    /\ (\E cut : Walked(cut)) /\ Forced
    /\ outcome = "parsed" => pos = Len(area)
    /\ outcome = "refused" =>
        \A n \in Nat : \A cut \in [0 .. n -> 0 .. Len(area)] : ~ Divides(cut, n)

LEMMA InitParses == ParseInit => ParseInductive
<1> SUFFICES ASSUME ParseInit
             PROVE  ParseInductive
  OBVIOUS
<1>1. area \in Areas /\ pos = 0 /\ options = <<>> /\ outcome = "walking"
  BY DEF ParseInit
<1>2. area \in Seq(Byte)
  BY <1>1 DEF Areas
<1>3. Len(area) \in Nat /\ Len(options) = 0
  BY <1>1, <1>2, LenProperties
<1> DEFINE cut == [k \in 0 .. 0 |-> 0]
<1>4. cut \in [0 .. 0 -> 0 .. Len(area)] /\ cut[0] = 0 /\ 1 .. 0 = {}
  BY <1>3
<1> HIDE DEF cut
<1>5. Walked(cut)
  BY <1>1, <1>3, <1>4 DEF Walked, Spells
<1>6. Forced
  BY <1>1, <1>3 DEF Forced, Divides
<1>7. options \in Seq([type : Byte, data : Seq(Byte)])
  BY <1>1
<1>8. QED
  BY <1>1, <1>2, <1>3, <1>5, <1>6, <1>7 DEF ParseInductive

\* What a part of the bytes holds.
LEMMA PartHolds ==
    ASSUME NEW bytes \in Seq(Byte), NEW a \in Nat, NEW m \in Nat, a + m <= Len(bytes)
    PROVE  /\ SubSeq(bytes, a + 1, a + m) \in Seq(Byte) /\ Len(SubSeq(bytes, a + 1, a + m)) = m
           /\ \A i \in 1 .. m : SubSeq(bytes, a + 1, a + m)[i] = bytes[a + i]
<1> DEFINE first == a + 1
           last == a + m
           part == SubSeq(bytes, first, last)
<1>1. first \in Int /\ last \in Int /\ first = a + 1 /\ last = a + m
  OBVIOUS
<1>2. Len(bytes) \in Nat /\ \A i \in 1 .. Len(bytes) : bytes[i] \in Byte
  BY LenProperties
<1> HIDE DEF first, last
<1>3. \A i \in first .. last : i \in 1 .. Len(bytes)
  BY <1>1, <1>2
<1>4. \A i \in first .. last : bytes[i] \in Byte
  BY <1>2, <1>3
<1>5. /\ part \in Seq(Byte) /\ Len(part) = IF first <= last THEN last - first + 1 ELSE 0
      /\ \A i \in 1 .. last - first + 1 : part[i] = bytes[first + i - 1]
  BY <1>1, <1>4, SubSeqProperties
<1> HIDE DEF part
<1>6. Len(part) = m
  BY <1>1, <1>5
<1>7. \A i \in 1 .. m : i \in 1 .. last - first + 1 /\ first + i - 1 = a + i
  BY <1>1
<1>8. \A i \in 1 .. m : part[i] = bytes[a + i]
  BY <1>5, <1>7
<1>9. QED
  BY <1>5, <1>6, <1>8 DEF part, first, last

\* A whole option, written again, is the bytes it was read from.
LEMMA OptionReads ==
    ASSUME NEW bytes \in Seq(Byte), NEW p \in Nat, NEW n \in Byte, p + 2 <= Len(bytes),
           n = bytes[p + 2], n >= 2, p + n <= Len(bytes)
    PROVE  LET option == [type |-> bytes[p + 1], data |-> SubSeq(bytes, p + 3, p + n)]
           IN  /\ option \in [type : Byte, data : Seq(Byte)]
               /\ to_bytes(option) = SubSeq(bytes, p + 1, p + n)
<1> DEFINE data == SubSeq(bytes, p + 3, p + n)
           option == [type |-> bytes[p + 1], data |-> data]
           part == SubSeq(bytes, p + 1, p + n)
           head == <<bytes[p + 1], (2 + Len(data)) % Base>>
<1>1. Len(bytes) \in Nat /\ Base \in Nat /\ n \in Nat /\ n < Base
  BY BaseIsLarge, LenProperties DEF Byte
<1>2. /\ part \in Seq(Byte) /\ Len(part) = n
      /\ \A i \in 1 .. n : part[i] = bytes[p + i]
  BY <1>1, PartHolds
<1>3. /\ data \in Seq(Byte) /\ Len(data) = n - 2
      /\ \A i \in 1 .. n - 2 : data[i] = bytes[p + 2 + i]
  <2> DEFINE a == p + 2
             m == n - 2
             rest == SubSeq(bytes, a + 1, a + m)
  <2>1. a \in Nat /\ m \in Nat /\ a + m <= Len(bytes) /\ a + 1 = p + 3 /\ a + m = p + n
    BY <1>1
  <2> HIDE DEF a, m
  <2>2. rest \in Seq(Byte) /\ Len(rest) = m /\ \A i \in 1 .. m : rest[i] = bytes[a + i]
    BY <2>1, PartHolds
  <2>3. rest = data
    BY <2>1
  <2> HIDE DEF rest, data
  <2>4. QED
    BY <2>2, <2>3 DEF a, m
<1>4. bytes[p + 1] \in Byte
  <2>1. p + 1 \in 1 .. Len(bytes)
    BY <1>1
  <2>2. QED
    BY <2>1, LenProperties
<1> HIDE DEF data, part
<1>5. (2 + Len(data)) % Base = n
  <2>1. 2 + Len(data) = n
    BY <1>1, <1>3
  <2>2. n % Base = n
    BY <1>1
  <2>3. QED
    BY <2>1, <2>2
<1>6. head \in Seq(Byte) /\ Len(head) = 2 /\ head[1] = bytes[p + 1] /\ head[2] = n
  BY <1>4, <1>5
<1>7. to_bytes(option) = head \o data
  BY DEF to_bytes
<1> HIDE DEF head
<1>8. /\ head \o data \in Seq(Byte) /\ Len(head \o data) = Len(head) + Len(data)
      /\ \A i \in 1 .. Len(head) + Len(data) :
            (head \o data)[i] = IF i <= Len(head) THEN head[i] ELSE data[i - Len(head)]
  BY <1>3, <1>6, ConcatProperties
<1> DEFINE whole == head \o data
<1> HIDE DEF whole
<1>9. /\ whole \in Seq(Byte) /\ Len(whole) = n
      /\ \A i \in 1 .. n : whole[i] = IF i <= 2 THEN head[i] ELSE data[i - 2]
  <2>1. Len(head) = 2 /\ Len(head) + Len(data) = n
    BY <1>1, <1>3, <1>6
  <2>2. /\ head \o data \in Seq(Byte) /\ Len(head \o data) = n
        /\ \A i \in 1 .. n : (head \o data)[i] = IF i <= 2 THEN head[i] ELSE data[i - 2]
    BY <1>8, <2>1, Zenon
  <2>3. QED
    BY <2>2, Zenon DEF whole
<1>10. \A i \in 1 .. n : whole[i] = part[i]
  <2> SUFFICES ASSUME NEW i \in 1 .. n
               PROVE  whole[i] = part[i]
    OBVIOUS
  <2>1. whole[i] = (IF i <= 2 THEN head[i] ELSE data[i - 2]) /\ part[i] = bytes[p + i]
    BY <1>2, <1>9
  <2>2. CASE i <= 2
    <3>1. i = 1 \/ i = 2
      BY <1>1, <2>2
    <3>2. QED
      BY <1>6, <2>1, <3>1
  <2>3. CASE ~ (i <= 2)
    <3>1. i - 2 \in 1 .. n - 2 /\ p + 2 + (i - 2) = p + i
      BY <1>1, <2>3
    <3>2. data[i - 2] = bytes[p + 2 + (i - 2)]
      BY <1>3, <3>1
    <3>3. QED
      BY <2>1, <2>3, <3>1, <3>2
  <2>4. QED
    BY <2>2, <2>3
<1>11. whole = part
  BY <1>2, <1>9, <1>10, SeqEqual
<1>12. QED
  BY <1>3, <1>4, <1>7, <1>11 DEF data, part, whole

LEMMA PushParses == ASSUME ParseInductive, Push PROVE ParseInductive'
<1> DEFINE n == area[pos + 2]
           m == Len(options)
           found == [type |-> area[pos + 1], data |-> SubSeq(area, pos + 3, pos + n)]
<1>1. /\ outcome = "walking" /\ pos < Len(area) /\ pos + 2 <= Len(area) /\ n >= 2
      /\ pos + n <= Len(area) /\ pos' = pos + n /\ area' = area /\ outcome' = outcome
      /\ options' = Append(options, found)
  BY DEF Push, WholeOption, length
<1>2. /\ area \in Areas /\ area \in Seq(Byte) /\ pos \in 0 .. Len(area) /\ Forced
      /\ options \in Seq([type : Byte, data : Seq(Byte)])
  BY DEF ParseInductive
<1>3. Len(area) \in Nat /\ pos \in Nat /\ m \in Nat
  BY <1>2, LenProperties
<1>4. n \in Byte /\ n \in Nat
  <2>1. pos + 2 \in 1 .. Len(area)
    BY <1>1, <1>3
  <2>2. n \in Byte
    BY <1>2, <2>1, LenProperties
  <2>3. QED
    BY <2>2, BaseIsLarge DEF Byte
<1>5. found \in [type : Byte, data : Seq(Byte)] /\ to_bytes(found) = SubSeq(area, pos + 1, pos + n)
  BY <1>1, <1>2, <1>3, <1>4, OptionReads
<1> HIDE DEF n, found
<1>6. /\ options' \in Seq([type : Byte, data : Seq(Byte)]) /\ Len(options') = m + 1
      /\ \A k \in 1 .. m : options'[k] = options[k]
      /\ options'[m + 1] = found
  BY <1>1, <1>2, <1>5, AppendProperties
<1>7. \E cut : Walked(cut)'
  <2>1. PICK cut : Walked(cut)
    BY DEF ParseInductive
  <2> DEFINE cut1 == [k \in 0 .. m + 1 |-> IF k <= m THEN cut[k] ELSE pos + n]
  <2> HIDE DEF m
  <2>2. /\ cut \in [0 .. m -> 0 .. Len(area)] /\ cut[0] = 0 /\ cut[m] = pos
        /\ \A k \in 1 .. m :
             /\ cut[k - 1] + 2 <= cut[k] /\ area[cut[k - 1] + 2] = cut[k] - cut[k - 1]
             /\ to_bytes(options[k]) = SubSeq(area, cut[k - 1] + 1, cut[k])
    BY <2>1 DEF Walked, Spells, m
  <2>3. pos + n \in 0 .. Len(area)
    BY <1>1, <1>3, <1>4
  <2>4. /\ cut1 \in [0 .. m + 1 -> 0 .. Len(area)] /\ cut1[m + 1] = pos + n
        /\ \A k \in 0 .. m : cut1[k] = cut[k]
    BY <1>3, <2>2, <2>3
  <2> HIDE DEF cut1
  <2>5. ASSUME NEW k \in 1 .. m + 1
        PROVE  /\ cut1[k - 1] + 2 <= cut1[k] /\ area[cut1[k - 1] + 2] = cut1[k] - cut1[k - 1]
               /\ to_bytes(options'[k]) = SubSeq(area, cut1[k - 1] + 1, cut1[k])
    <3>1. CASE k \in 1 .. m
      <4>1. k \in 0 .. m /\ k - 1 \in 0 .. m
        BY <1>3, <3>1
      <4>2. cut1[k] = cut[k] /\ cut1[k - 1] = cut[k - 1] /\ options'[k] = options[k]
        BY <1>6, <2>4, <3>1, <4>1
      <4>3. QED
        BY <2>2, <3>1, <4>2
    <3>2. CASE k = m + 1
      <4>1. m \in 0 .. m /\ k - 1 = m
        BY <1>3, <3>2
      <4>2. cut1[k] = pos + n /\ cut1[k - 1] = pos /\ options'[k] = found
        BY <1>6, <2>2, <2>4, <3>2, <4>1
      <4>3. (pos + n) - pos = n /\ pos + 2 <= pos + n
        BY <1>1, <1>3, <1>4
      <4>4. area[pos + 2] = n
        BY DEF n
      <4>5. QED
        BY <1>5, <4>2, <4>3, <4>4
    <3>3. QED
      BY <1>3, <3>1, <3>2
  <2>6. cut1[0] = 0
    BY <1>3, <2>2, <2>4
  <2>7. Spells(area', options', pos', cut1)
    <3>1. Len(options') = m + 1 /\ area' = area /\ pos' = pos + n
      BY <1>1, <1>6
    <3>2. /\ cut1 \in [0 .. Len(options') -> 0 .. Len(area')] /\ cut1[0] = 0
          /\ cut1[Len(options')] = pos'
      BY <2>4, <2>6, <3>1
    <3>3. \A k \in 1 .. Len(options') :
            /\ cut1[k - 1] + 2 <= cut1[k] /\ area'[cut1[k - 1] + 2] = cut1[k] - cut1[k - 1]
            /\ to_bytes(options'[k]) = SubSeq(area', cut1[k - 1] + 1, cut1[k])
      BY <2>5, <3>1
    <3>4. QED
      BY <3>2, <3>3, Zenon DEF Spells
  <2>8. \E c : Spells(area', options', pos', c)
    BY <2>7
  <2>9. QED
    BY <2>8 DEF Walked
<1>8. Forced'
  <2> SUFFICES ASSUME NEW j \in Nat, NEW cut \in [0 .. j -> 0 .. Len(area)], Divides(cut, j)
               PROVE  m + 1 <= j /\ cut[m + 1] = pos + n
    BY <1>1, <1>6 DEF Forced, Divides
  <2>1. m <= j /\ cut[m] = pos
    BY <1>2 DEF Forced
  <2>2. cut[j] = Len(area)
    BY DEF Divides
  <2> HIDE DEF m
  <2>3. m # j
    BY <1>1, <1>3, <2>1, <2>2
  <2>4. m + 1 <= j /\ m + 1 \in 1 .. j /\ (m + 1) - 1 = m /\ m + 1 \in 0 .. j
    BY <1>3, <2>1, <2>3
  <2>5. area[cut[m] + 2] = cut[m + 1] - cut[m]
    <3>1. area[cut[(m + 1) - 1] + 2] = cut[m + 1] - cut[(m + 1) - 1]
      BY <2>4 DEF Divides
    <3>2. QED
      BY <2>4, <3>1
  <2>6. n = cut[m + 1] - pos /\ cut[m + 1] \in 0 .. Len(area)
    BY <2>1, <2>4, <2>5 DEF n
  <2>7. cut[m + 1] = pos + n
    BY <1>3, <1>4, <2>6
  <2>8. QED
    BY <2>4, <2>7
<1>9. area' \in Areas /\ area' \in Seq(Byte) /\ pos' \in 0 .. Len(area')
      /\ outcome' = "walking"
  BY <1>1, <1>2, <1>3, <1>4
<1>10. QED
  BY <1>6, <1>7, <1>8, <1>9 DEF ParseInductive

\* No division of the area goes on where the walk stops.
LEMMA BailParses == ASSUME ParseInductive, Bail PROVE ParseInductive'
<1> DEFINE m == Len(options)
<1>1. /\ outcome = "walking" /\ pos < Len(area) /\ ~ WholeOption /\ outcome' = "refused"
      /\ area' = area /\ pos' = pos /\ options' = options
  BY DEF Bail, Outcome
<1>2. /\ area \in Areas /\ area \in Seq(Byte) /\ pos \in 0 .. Len(area) /\ Forced
      /\ options \in Seq([type : Byte, data : Seq(Byte)]) /\ \E cut : Walked(cut)
  BY DEF ParseInductive
<1>3. Len(area) \in Nat /\ pos \in Nat /\ m \in Nat
  BY <1>2, LenProperties
<1>4. ASSUME NEW j \in Nat, NEW cut \in [0 .. j -> 0 .. Len(area)], Divides(cut, j)
      PROVE  FALSE
  <2>1. m <= j /\ cut[m] = pos
    BY <1>2, <1>4 DEF Forced
  <2>2. cut[j] = Len(area)
    BY <1>4 DEF Divides
  <2> HIDE DEF m
  <2>3. m # j
    BY <1>1, <1>3, <2>1, <2>2
  <2>4. m + 1 \in 1 .. j /\ (m + 1) - 1 = m /\ m + 1 \in 0 .. j
    BY <1>3, <2>1, <2>3
  <2>5. cut[m] + 2 <= cut[m + 1] /\ area[cut[m] + 2] = cut[m + 1] - cut[m]
    <3>1. /\ cut[(m + 1) - 1] + 2 <= cut[m + 1]
          /\ area[cut[(m + 1) - 1] + 2] = cut[m + 1] - cut[(m + 1) - 1]
      BY <1>4, <2>4 DEF Divides
    <3>2. QED
      BY <2>4, <3>1
  <2>6. area[pos + 2] = cut[m + 1] - pos /\ pos + 2 <= cut[m + 1] /\ cut[m + 1] \in 0 .. Len(area)
    BY <2>1, <2>4, <2>5
  <2> DEFINE c == cut[m + 1]
  <2> HIDE DEF c
  <2>7. area[pos + 2] = c - pos /\ pos + 2 <= c /\ c \in 0 .. Len(area)
    BY <2>6 DEF c
  <2>8. pos + 2 <= Len(area) /\ c - pos >= 2 /\ pos + (c - pos) <= Len(area)
    BY <1>3, <2>7
  <2>9. WholeOption
    BY <2>7, <2>8 DEF WholeOption, length
  <2>10. QED
    BY <1>1, <2>9
<1>5. (\E cut : Walked(cut)') /\ Forced'
  BY <1>1, <1>2 DEF Walked, Forced, Divides
<1>6. \A j \in Nat : \A cut \in [0 .. j -> 0 .. Len(area')] : ~ Divides(cut, j)'
  BY <1>1, <1>4 DEF Divides
<1>7. QED
  BY <1>1, <1>2, <1>5, <1>6 DEF ParseInductive

LEMMA ReturnParses == ASSUME ParseInductive, Return PROVE ParseInductive'
<1>1. /\ pos = Len(area) /\ outcome' = "parsed" /\ area' = area /\ pos' = pos /\ options' = options
  BY DEF Return, Outcome
<1>2. (\E cut : Walked(cut)') /\ Forced'
  BY <1>1 DEF ParseInductive, Walked, Forced, Divides
<1>3. QED
  BY <1>1, <1>2 DEF ParseInductive

LEMMA NextParses == ParseInductive /\ [ParseNext]_parseVars => ParseInductive'
<1>1. ASSUME ParseInductive, UNCHANGED parseVars
      PROVE  ParseInductive'
  <2>1. area' = area /\ pos' = pos /\ options' = options /\ outcome' = outcome
    BY <1>1 DEF parseVars
  <2>2. (\E cut : Walked(cut)') /\ Forced'
    BY <1>1, <2>1 DEF ParseInductive, Walked, Forced, Divides
  <2>3. outcome' = "refused" =>
            \A n \in Nat : \A cut \in [0 .. n -> 0 .. Len(area')] : ~ Divides(cut, n)'
    BY <1>1, <2>1 DEF ParseInductive, Divides
  <2>4. QED
    BY <1>1, <2>1, <2>2, <2>3 DEF ParseInductive
<1>2. QED
  BY <1>1, PushParses, BailParses, ReturnParses DEF ParseNext

\* The walk over an option area stays within it: parse_options never indexes
\* beyond the area, whatever its bytes and its length.
THEOREM ParseTypes == ParseSpec => []ParseTypeOK
<1>1. ParseInductive => ParseTypeOK
  BY DEF ParseInductive, ParseTypeOK
<1>2. QED
  BY <1>1, InitParses, NextParses, PTL DEF ParseSpec

\* For areas of any length over bytes of any size: what parse_options returns,
\* written by to_bytes, is the area, and it refuses an area only if no sequence
\* of whole options makes it up.
THEOREM ParseInvertsWrite == ParseSpec => []ParsedAsWritten
<1>1. ParseInductive => ParsedAsWritten
  <2> SUFFICES ASSUME ParseInductive
               PROVE  ParsedAsWritten
    OBVIOUS
  <2>1. Len(area) \in Nat
    BY LenProperties DEF ParseInductive
  <2>2. ASSUME outcome = "parsed"
        PROVE  \E cut \in [0 .. Len(options) -> 0 .. Len(area)] :
                    /\ Divides(cut, Len(options))
                    /\ \A k \in 1 .. Len(options) :
                            to_bytes(options[k]) = SubSeq(area, cut[k - 1] + 1, cut[k])
    <3>1. PICK cut : Walked(cut)
      BY DEF ParseInductive
    <3>2. pos = Len(area)
      BY <2>2 DEF ParseInductive
    <3>3. QED
      BY <3>1, <3>2 DEF Walked, Spells, Divides
  <2>3. outcome = "refused" =>
            \A n \in 0 .. Len(area) : \A cut \in [0 .. n -> 0 .. Len(area)] : ~ Divides(cut, n)
    <3>1. outcome = "refused" =>
            \A n \in Nat : \A cut \in [0 .. n -> 0 .. Len(area)] : ~ Divides(cut, n)
      BY DEF ParseInductive
    <3>2. \A n \in 0 .. Len(area) : n \in Nat
      BY <2>1
    <3>3. QED
      BY <3>1, <3>2, Zenon
  <2>4. QED
    BY <2>2, <2>3 DEF ParsedAsWritten
<1>2. QED
  BY <1>1, InitParses, NextParses, PTL DEF ParseSpec
=============================================================================
