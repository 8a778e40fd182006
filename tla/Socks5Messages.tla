---------------------------- MODULE Socks5Messages ----------------------------
(***************************************************************************)
(* The SOCKS5 Request (socks5/request.go) and Reply (unnamed/part_005)     *)
(* codecs: ValidateHeader, Validate, ReadFrom and WriteTo, as operators.   *)
(*                                                                         *)
(* A message is a record with the struct's fields; the second header byte *)
(* (CMD of a Request, REP of a Reply) is the field Code. IP is a net.IP    *)
(* as a byte sequence (nil is <<>>), Domain a byte sequence.               *)
(*                                                                         *)
(* A decoder returns [n, err, msg]: the byte count ReadFrom returns, its   *)
(* error ("nil" for none), and the struct it filled in, starting from the *)
(* zero struct.                                                            *)
(***************************************************************************)
EXTENDS Socks5Wire

SocksVersion   == 5
AddrTypeIPv4   == 1
AddrTypeDomain == 3
AddrTypeIPv6   == 4
Commands       == {1, 2, 3, 240, 241}  \* CONNECT .. RESOLVE_PTR (0xF0, 0xF1)

\* The zero Request or Reply that ReadFrom fills in.
ZeroAddrMsg(kind) ==
  [kind |-> kind, Version |-> 0, Code |-> 0, Reserved |-> 0, AddrType |-> 0,
   IP |-> <<>>, Domain |-> <<>>, Port |-> 0]

\* Request.Init and Reply.Init: the fields as given, unchecked.
RequestInit(version, command, reserved, addrType, ip, domain, port) ==
  [kind |-> "Request", Version |-> version, Code |-> command,
   Reserved |-> reserved, AddrType |-> addrType, IP |-> ip, Domain |-> domain,
   Port |-> port]

ReplyInit(version, rep, reserved, addrType, ip, domain, port) ==
  [RequestInit(version, rep, reserved, addrType, ip, domain, port)
     EXCEPT !.kind = "Reply"]

\* Request.ValidateHeader: the checks in the code's order.
RequestValidateHeader(m) ==
  CASE m.Version # SocksVersion -> "ErrInvalidVersion"
    [] m.Reserved # 0           -> "ErrInvalidRSV"
    [] m.Code \notin Commands   -> "ErrInvalidCommand"
    [] m.AddrType \notin {AddrTypeIPv4, AddrTypeDomain, AddrTypeIPv6}
                                -> "ErrInvalidAddr"
    [] OTHER                    -> "nil"

\* Request.Validate: the header, then the address of its type.
RequestValidate(m) ==
  LET h == RequestValidateHeader(m) IN
  CASE h # "nil" -> h
    [] m.AddrType = AddrTypeDomain /\ (Len(m.Domain) = 0 \/ Len(m.Domain) > 255)
                   -> "ErrInvalidDomain"
    [] m.AddrType \in {AddrTypeIPv4, AddrTypeIPv6} /\ m.IP = <<>>
                   -> "ErrInvalidAddr"
    [] OTHER       -> "nil"

\* Reply.ValidateHeader: like the Request's, with no command check.
ReplyValidateHeader(m) ==
  CASE m.Version # SocksVersion -> "ErrInvalidReplyVersion"
    [] m.Reserved # 0           -> "ErrInvalidReplyRSV"
    [] m.AddrType \notin {AddrTypeIPv4, AddrTypeDomain, AddrTypeIPv6}
                                -> "ErrInvalidReplyAddr"
    [] OTHER                    -> "nil"

\* Reply.Validate.
ReplyValidate(m) ==
  LET h == ReplyValidateHeader(m) IN
  CASE h # "nil" -> h
    [] m.AddrType = AddrTypeDomain /\ (Len(m.Domain) = 0 \/ Len(m.Domain) > 255)
                   -> "ErrInvalidReplyDomain"
    [] m.AddrType \in {AddrTypeIPv4, AddrTypeIPv6} /\ m.IP = <<>>
                   -> "ErrInvalidReplyAddr"
    [] OTHER       -> "nil"

\* The address switch of ReadFrom, reading after the 4-byte header: n is
\* the bytes it consumed, err the first read error.
AddrRead(s, atyp) ==
  CASE atyp \in {AddrTypeIPv4, AddrTypeIPv6} ->
         LET k == IF atyp = AddrTypeIPv4 THEN 4 ELSE 16
             r == ReadFull(s, 4, k)
         IN  [n |-> r.n, err |-> r.err, Domain |-> <<>>,
              IP |-> IF r.err = "nil" THEN Bytes(s, 4, k) ELSE <<>>]
    [] atyp = AddrTypeDomain ->
         LET l == ReadFull(s, 4, 1) IN
         IF l.err # "nil"
         THEN [n |-> l.n, err |-> l.err, IP |-> <<>>, Domain |-> <<>>]
         ELSE LET d == ReadFull(s, 5, s[5]) IN
              [n |-> 1 + d.n, err |-> d.err, IP |-> <<>>,
               Domain |-> IF d.err = "nil" THEN Bytes(s, 5, s[5]) ELSE <<>>]

\* ReadFrom of a Request or a Reply (the two bodies are the same code):
\* the header, ValidateHeader, the address (kept in r before the port is
\* read), the port, then Validate.
AddrMsgReadFrom(s, kind) ==
  LET ValidateHeader(x) == IF kind = "Request" THEN RequestValidateHeader(x)
                                               ELSE ReplyValidateHeader(x)
      Validate(x) == IF kind = "Request" THEN RequestValidate(x)
                                         ELSE ReplyValidate(x)
      h   == ReadFull(s, 0, 4)
      hdr == [ZeroAddrMsg(kind) EXCEPT !.Version = s[1], !.Code = s[2],
                                       !.Reserved = s[3], !.AddrType = s[4]]
      a   == AddrRead(s, hdr.AddrType)
      p   == ReadFull(s, 4 + a.n, 2)
      ha  == [hdr EXCEPT !.IP = a.IP, !.Domain = a.Domain]
      m   == [ha EXCEPT !.Port = Uint16At(s, 4 + a.n)]
      Out(n, err, msg) == [n |-> n, err |-> err, msg |-> msg]
  IN CASE h.err # "nil"              -> Out(h.n, h.err, ZeroAddrMsg(kind))
       [] ValidateHeader(hdr) # "nil" -> Out(4, ValidateHeader(hdr), hdr)
       [] a.err # "nil"              -> Out(4 + a.n, a.err, hdr)
       [] p.err # "nil"              -> Out(4 + a.n + p.n, p.err, ha)
       [] OTHER                      -> Out(4 + a.n + 2, Validate(m), m)

RequestReadFrom(s) == AddrMsgReadFrom(s, "Request")
ReplyReadFrom(s)   == AddrMsgReadFrom(s, "Reply")

\* The address switch of WriteTo: IP.To4() or IP.To16() (nothing for nil),
\* or the domain after its byte(len) length.
AddrWrite(m) ==
  CASE m.AddrType = AddrTypeIPv4   -> To4(m.IP)
    [] m.AddrType = AddrTypeIPv6   -> To16(m.IP)
    [] m.AddrType = AddrTypeDomain -> <<Len(m.Domain) % 256>> \o m.Domain
    [] OTHER                       -> <<>>

\* The bytes WriteTo writes once it has passed its checks.
AddrMsgBytes(m) ==
  <<m.Version, m.Code, m.Reserved, m.AddrType>> \o AddrWrite(m)
    \o PutUint16(m.Port)

\* Request.WriteTo checks only the domain length before writing.
RequestWriteTo(m) ==
  IF m.AddrType = AddrTypeDomain /\ (Len(m.Domain) = 0 \/ Len(m.Domain) > 255)
  THEN [err |-> "ErrInvalidReplyDomain", bytes |-> <<>>]
  ELSE [err |-> "nil", bytes |-> AddrMsgBytes(m)]

\* Reply.WriteTo runs Validate before writing.
ReplyWriteTo(m) ==
  IF ReplyValidate(m) # "nil"
  THEN [err |-> ReplyValidate(m), bytes |-> <<>>]
  ELSE [err |-> "nil", bytes |-> AddrMsgBytes(m)]

\* Two Requests or Replies with the same semantic fields, IPs by ip.Equal.
SameAddrMsg(a, b) ==
  /\ \A f \in {"kind", "Version", "Code", "Reserved", "AddrType", "Domain",
               "Port"} : a[f] = b[f]
  /\ IPEqual(a.IP, b.IP)
=============================================================================
