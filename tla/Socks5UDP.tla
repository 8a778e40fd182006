------------------------------ MODULE Socks5UDP ------------------------------
(***************************************************************************)
(* The SOCKS5 UDP ASSOCIATE packet codec (socks5/udp_packet.go):           *)
(* ValidateHeader, Validate, ReadFrom and WriteTo, as operators.           *)
(*                                                                         *)
(* A packet is a record with the struct's fields; Reserved is the two RSV *)
(* bytes, Data the payload. The header is RSV(2) FRAG ATYP, four bytes    *)
(* like a Request's, and DST.ADDR is read and written by the same switch  *)
(* as a Request's (AddrRead, AddrWrite). DATA has no length: ReadFrom     *)
(* takes whatever the reader holds after DST.PORT (io.ReadAll).           *)
(* Conventions as in Socks5Messages.                                       *)
(***************************************************************************)
EXTENDS Socks5Messages

\* The zero UDPPacket that ReadFrom fills in.
ZeroUDPPacket ==
  [kind |-> "UDPPacket", Reserved |-> <<0, 0>>, Frag |-> 0, AddrType |-> 0,
   IP |-> <<>>, Domain |-> <<>>, Port |-> 0, Data |-> <<>>]

\* Init: the fields as given, unchecked.
UDPPacketInit(reserved, frag, addrType, ip, domain, port, data) ==
  [kind |-> "UDPPacket", Reserved |-> reserved, Frag |-> frag,
   AddrType |-> addrType, IP |-> ip, Domain |-> domain, Port |-> port,
   Data |-> data]

\* ValidateHeader: RSV, FRAG, then ATYP.
UDPPacketValidateHeader(p) ==
  CASE p.Reserved # <<0, 0>> -> "ErrInvalidUDPReserved"
    [] p.Frag # 0            -> "ErrUnsupportedFrag"
    [] p.AddrType \notin {AddrTypeIPv4, AddrTypeIPv6, AddrTypeDomain}
                             -> "ErrInvalidUDPAddrType"
    [] OTHER                 -> "nil"

\* Mutant: Validate without the check for a missing payload.
UDPPacketValidateNoData(p) ==
  LET h == UDPPacketValidateHeader(p) IN
  CASE h # "nil" -> h
    [] p.AddrType \in {AddrTypeIPv4, AddrTypeIPv6} /\ p.IP = <<>>
                   -> "ErrInvalidUDPAddrType"
    [] p.AddrType = AddrTypeDomain /\ (Len(p.Domain) = 0 \/ Len(p.Domain) > 255)
                   -> "ErrInvalidUDPDomain"
    [] OTHER           -> "nil"

\* Validate: the header checks, the address of its type (a nil IP is an
\* ErrInvalidUDPAddrType), then a non-empty payload.
UDPPacketValidate(p) ==
  LET h == UDPPacketValidateHeader(p) IN
  CASE h # "nil" -> h
    [] p.AddrType \in {AddrTypeIPv4, AddrTypeIPv6} /\ p.IP = <<>>
                   -> "ErrInvalidUDPAddrType"
    [] p.AddrType = AddrTypeDomain /\ (Len(p.Domain) = 0 \/ Len(p.Domain) > 255)
                   -> "ErrInvalidUDPDomain"
    [] Len(p.Data) = 0 -> "ErrMissingUDPData"
    [] OTHER           -> "nil"

\* ReadFrom: the header, ValidateHeader, DST.ADDR, DST.PORT, then the rest
\* of the input as DATA (io.ReadAll, which does not fail on a byte
\* stream that ends), and Validate. The total counts every byte read.
UDPPacketReadFrom(s) ==
  LET h   == ReadFull(s, 0, 4)
      hdr == [ZeroUDPPacket EXCEPT !.Reserved = <<s[1], s[2]>>, !.Frag = s[3],
                                   !.AddrType = s[4]]
      a   == AddrRead(s, hdr.AddrType)
      ma  == [hdr EXCEPT !.IP = a.IP, !.Domain = a.Domain]
      pt  == ReadFull(s, 4 + a.n, 2)
      m   == [ma EXCEPT !.Port = Uint16At(s, 4 + a.n),
                        !.Data = SubSeq(s, 7 + a.n, Len(s))]
      Out(n, err, msg) == [n |-> n, err |-> err, msg |-> msg]
  IN CASE h.err # "nil"                   -> Out(h.n, h.err, ZeroUDPPacket)
       [] UDPPacketValidateHeader(hdr) # "nil"
                                          -> Out(4, UDPPacketValidateHeader(hdr), hdr)
       [] a.err # "nil"                   -> Out(4 + a.n, a.err, hdr)
       [] pt.err # "nil"                  -> Out(4 + a.n + pt.n, pt.err, ma)
       [] OTHER                           -> Out(Len(s), UDPPacketValidate(m), m)

\* WriteTo: Validate, then RSV FRAG ATYP, DST.ADDR, DST.PORT and DATA.
UDPPacketWriteTo(p) ==
  IF UDPPacketValidate(p) # "nil"
  THEN [err |-> UDPPacketValidate(p), bytes |-> <<>>]
  ELSE [err |-> "nil",
        bytes |-> p.Reserved \o <<p.Frag, p.AddrType>> \o AddrWrite(p)
                  \o PutUint16(p.Port) \o p.Data]

\* The destination of a packet: its address and port, IPs by ip.Equal.
SameDestination(a, b) ==
  /\ \A f \in {"AddrType", "Domain", "Port"} : a[f] = b[f]
  /\ IPEqual(a.IP, b.IP)

\* Two packets with the same semantic fields.
SameUDPPacket(a, b) ==
  /\ \A f \in {"kind", "Reserved", "Frag", "Data"} : a[f] = b[f]
  /\ SameDestination(a, b)
====
