----------------------------- MODULE SocksCodec -----------------------------
(***************************************************************************)
(* One SOCKS4 or SOCKS5 message crossing a byte stream: the sender's       *)
(* WriteTo, the stream, and the receiver's ReadFrom of the same message    *)
(* type. The stream delivers the bytes intact, followed by the first byte  *)
(* of the next message, cut short, or (the case of the spec's header-first *)
(* rule) as the fixed header alone with a corrupted version byte. A UDP    *)
(* packet is a datagram: its DATA runs to the end of the input, so nothing *)
(* follows it, but a datagram can be cut short.                            *)
(***************************************************************************)
EXTENDS Socks4Messages, Socks5Messages, Socks5Auth, Socks5UDP

CONSTANTS
  Messages,   \* the messages the sender encodes (records of Socks5Messages/Auth)
  TrailByte   \* the byte that follows a message on the stream

\* The WriteTo, ReadFrom and Validate methods of each message type.
WriteTo(m) ==
  CASE m.kind = "Socks4Request"    -> Socks4RequestWriteTo(m)
    [] m.kind = "Socks4Response"   -> Socks4ResponseWriteTo(m)
    [] m.kind = "Request"          -> RequestWriteTo(m)
    [] m.kind = "Reply"            -> ReplyWriteTo(m)
    [] m.kind = "HandshakeRequest" -> HandshakeRequestWriteTo(m)
    [] m.kind = "HandshakeReply"   -> HandshakeReplyWriteTo(m)
    [] m.kind = "UserPassRequest"  -> UserPassRequestWriteTo(m)
    [] m.kind = "UserPassReply"    -> UserPassReplyWriteTo(m)
    [] m.kind = "GSSAPIRequest"    -> GSSAPIRequestWriteTo(m)
    [] m.kind = "GSSAPIReply"      -> GSSAPIReplyWriteTo(m)
    [] m.kind = "UDPPacket"        -> UDPPacketWriteTo(m)

ReadFrom(kind, s) ==
  CASE kind = "Socks4Request"    -> Socks4RequestReadFrom(s)
    [] kind = "Socks4Response"   -> Socks4ResponseReadFrom(s)
    [] kind = "Request"          -> RequestReadFrom(s)
    [] kind = "Reply"            -> ReplyReadFrom(s)
    [] kind = "HandshakeRequest" -> HandshakeRequestReadFrom(s)
    [] kind = "HandshakeReply"   -> HandshakeReplyReadFrom(s)
    [] kind = "UserPassRequest"  -> UserPassRequestReadFrom(s)
    [] kind = "UserPassReply"    -> UserPassReplyReadFrom(s)
    [] kind = "GSSAPIRequest"    -> GSSAPIRequestReadFrom(s)
    [] kind = "GSSAPIReply"      -> GSSAPIReplyReadFrom(s)
    [] kind = "UDPPacket"        -> UDPPacketReadFrom(s)

Validate(m) ==
  CASE m.kind = "Socks4Request"    -> Socks4RequestValidate(m)
    [] m.kind = "Socks4Response"   -> Socks4ResponseValidate(m)
    [] m.kind = "Request"          -> RequestValidate(m)
    [] m.kind = "Reply"            -> ReplyValidate(m)
    [] m.kind = "HandshakeRequest" -> HandshakeRequestValidate(m)
    [] m.kind = "HandshakeReply"   -> HandshakeReplyValidate(m)
    [] m.kind = "UserPassRequest"  -> UserPassRequestValidate(m)
    [] m.kind = "UserPassReply"    -> UserPassReplyValidate(m)
    [] m.kind = "GSSAPIRequest"    -> GSSAPIRequestValidate(m)
    [] m.kind = "GSSAPIReply"      -> GSSAPIReplyValidate(m)
    [] m.kind = "UDPPacket"        -> UDPPacketValidate(m)

\* The fixed header ReadFrom reads first, and the version byte leads it.
HeaderLen(kind) ==
  CASE kind \in {"Socks4Request", "Socks4Response"}  -> 8
    [] kind \in {"Request", "Reply", "UDPPacket"}     -> 4
    [] OTHER                                         -> 2

\* The same message, as the round-trip law compares them.
SameMessage(a, b) ==
  CASE a.kind \in {"Request", "Reply"} -> SameAddrMsg(a, b)
    [] a.kind = "UDPPacket"            -> SameUDPPacket(a, b)
    [] OTHER                           -> a = b

Deliveries == {"intact", "trailing", "truncated", "badHeader"}

VARIABLES
  msg,     \* the message the sender encodes
  phase,   \* "init", "refused", "written", "delivered", "decoded"
  wire,    \* the bytes WriteTo wrote
  how,     \* how the stream delivered them
  input,   \* the bytes the receiver's stream holds
  out      \* ReadFrom's [n, err, msg]

vars == <<msg, phase, wire, how, input, out>>

NoOut == [n |-> 0, err |-> "none", msg |-> "none"]

Init ==
  /\ msg \in Messages
  /\ phase = "init"
  /\ wire = <<>>
  /\ how = "none"
  /\ input = <<>>
  /\ out = NoOut

\* The sender calls WriteTo; a refusal writes nothing.
Encode ==
  /\ phase = "init"
  /\ LET w == WriteTo(msg) IN
       /\ phase' = IF w.err = "nil" THEN "written" ELSE "refused"
       /\ wire' = w.bytes
  /\ UNCHANGED <<msg, how, input, out>>

\* What the stream holds for the receiver.
Delivered(d) ==
  CASE d = "intact"    -> {wire}
    [] d = "trailing"  -> {wire \o <<TrailByte>>}
    [] d = "truncated" -> {SubSeq(wire, 1, k) : k \in 0..(Len(wire) - 1)}
    [] d = "badHeader" ->
         {SubSeq([wire EXCEPT ![1] = (wire[1] + 1) % 256], 1, HeaderLen(msg.kind))}

Deliver ==
  /\ phase = "written"
  /\ \E d \in Deliveries :
       /\ (d = "badHeader" => Len(wire) >= HeaderLen(msg.kind))
       /\ (d = "trailing" => msg.kind # "UDPPacket")
       /\ how' = d
       /\ input' \in Delivered(d)
  /\ phase' = "delivered"
  /\ UNCHANGED <<msg, wire, out>>

\* The receiver calls ReadFrom of the message type it expects.
Decode ==
  /\ phase = "delivered"
  /\ out' = ReadFrom(msg.kind, input)
  /\ phase' = "decoded"
  /\ UNCHANGED <<msg, wire, how, input>>

Next == Encode \/ Deliver \/ Decode

Spec == Init /\ [][Next]_vars

-----------------------------------------------------------------------------
(* Properties *)

\* ReadFrom never reports more bytes than the stream held, and each
\* variable has its type.
TypeOK ==
  /\ msg \in Messages
  /\ phase \in {"init", "refused", "written", "delivered", "decoded"}
  /\ how \in Deliveries \cup {"none"}
  /\ phase = "decoded" => /\ out.n \in 0..Len(input)
                          /\ out.msg.kind = msg.kind

\* Round-trip law (spec "Round-trip law"): a message Validate accepts and
\* WriteTo writes is read back by ReadFrom with every semantic field, the
\* byte count WriteTo wrote and no error, even when the stream carries the
\* next message's byte after it. The count excludes that byte; the SOCKS5
\* readers leave it in the stream, while the SOCKS4 request's pooled
\* reader may buffer it and drop it, which the count does not show
\* (Socks4RequestReader models that read-ahead).
RoundTripLaw ==
  (phase = "decoded" /\ how \in {"intact", "trailing"}
     /\ Validate(msg) = "nil")
    => /\ out.err = "nil"
       /\ out.n = Len(wire)
       /\ SameMessage(out.msg, msg)

\* A stream that ends inside a valid message makes every ReadFrom fail
\* with io.EOF or io.ErrUnexpectedEOF after consuming all there was,
\* never succeed or blame the content.
TruncatedStreamFails ==
  (phase = "decoded" /\ how = "truncated" /\ msg.kind # "UDPPacket"
     /\ Validate(msg) = "nil")
    => /\ out.err \in EOFErrors
       /\ out.n = Len(input)

\* A datagram cut short (UDPPacket.ReadFrom over fewer bytes than WriteTo
\* wrote) never decodes to another destination: a cut before DATA fails,
\* with an end-of-stream error inside the address or port and with
\* ErrMissingUDPData right after DST.PORT; a cut inside DATA, which has no
\* length field, succeeds with the same address and port and a non-empty
\* prefix of the payload. Every byte of the input is counted.
TruncatedDatagramKeepsDestination ==
  (phase = "decoded" /\ how = "truncated" /\ msg.kind = "UDPPacket"
     /\ Validate(msg) = "nil")
    => /\ out.n = Len(input)
       /\ (out.err = "nil") = (Len(input) > Len(wire) - Len(msg.Data))
       /\ out.err = "nil" => /\ SameDestination(out.msg, msg)
                             /\ out.msg.Data # <<>>
                             /\ IsPrefix(out.msg.Data, msg.Data)
       /\ out.err # "nil" => out.err \in EOFErrors \cup {"ErrMissingUDPData"}

\* Validation runs on decode (spec 3, "validation runs automatically on
\* decode"): a ReadFrom that returns no error returns a message that its
\* type's Validate accepts.
DecodeValidates ==
  (phase = "decoded" /\ out.err = "nil") => Validate(out.msg) = "nil"

\* Header-first validation (spec "Header-first validation"): ReadFrom of
\* a stream holding only a fixed header with a corrupted version fails on
\* the header, without reading on for a variable-length field.
HeaderFirstValidation ==
  (phase = "decoded" /\ how = "badHeader")
    => /\ out.err \notin EOFErrors \cup {"nil"}
       /\ out.n <= HeaderLen(msg.kind)
=============================================================================
