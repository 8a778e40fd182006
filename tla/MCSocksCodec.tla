---------------------------- MODULE MCSocksCodec ----------------------------
(***************************************************************************)
(* SocksCodec with a set of messages of every type: valid ones of each     *)
(* shape, and invalid ones that exercise every refusal of WriteTo and the  *)
(* checks it skips.                                                        *)
(***************************************************************************)
EXTENDS SocksCodec, Socks4Target

V4   == <<10, 0, 0, 1>>                                   \* 10.0.0.1
V6   == <<32, 1, 13, 184>> \o Repeat(11, 0) \o <<1>>      \* 2001:db8::1
Port == 8080

\* Address forms: each address type with an address of its own family (an
\* IPv4 address under IPv6 is written in its mapped form), a nil IP, and
\* domains of length 0, 1 and 2.
AddrForms ==
  {[AddrType |-> AddrTypeIPv4, IP |-> V4,   Domain |-> <<>>],
   [AddrType |-> AddrTypeIPv6, IP |-> V6,   Domain |-> <<>>],
   [AddrType |-> AddrTypeIPv6, IP |-> V4,   Domain |-> <<>>],
   [AddrType |-> AddrTypeIPv4, IP |-> <<>>, Domain |-> <<>>],
   [AddrType |-> AddrTypeDomain, IP |-> <<>>, Domain |-> <<>>],
   [AddrType |-> AddrTypeDomain, IP |-> <<>>, Domain |-> <<97>>],
   [AddrType |-> AddrTypeDomain, IP |-> <<>>, Domain |-> <<97, 98>>]}

\* Requests and replies built by Init with each address form.
Requests(codes) ==
  {RequestInit(5, c, 0, a.AddrType, a.IP, a.Domain, Port) : c \in codes, a \in AddrForms}

Replies(codes) ==
  {ReplyInit(5, c, 0, a.AddrType, a.IP, a.Domain, Port) : c \in codes, a \in AddrForms}

Tokens == {<<>>, <<116>>, <<116, 117>>}

\* UDP packets: every address form with payloads of length 0, 1 and 2,
\* and packets refused for RSV, FRAG and ATYP.
UDPPacketOf(rsv, frag, a, data) ==
  UDPPacketInit(rsv, frag, a.AddrType, a.IP, a.Domain, Port, data)

UDPPackets ==
  {UDPPacketOf(<<0, 0>>, 0, a, d) : a \in AddrForms, d \in {<<>>, <<100>>, <<100, 101>>}}
  \cup {UDPPacketOf(<<0, 1>>, 0, [AddrType |-> AddrTypeIPv4, IP |-> V4, Domain |-> <<>>], <<100>>),
        UDPPacketOf(<<0, 0>>, 1, [AddrType |-> AddrTypeIPv4, IP |-> V4, Domain |-> <<>>], <<100>>),
        UDPPacketOf(<<0, 0>>, 0, [AddrType |-> 2, IP |-> V4, Domain |-> <<>>], <<100>>)}

\* The addresses a caller dials through a SOCKS4 proxy: an IPv4 literal
\* (net.ParseIP's 16-byte form), an IPv6 literal, the literal 0.0.0.5,
\* the empty host, and names of one and two bytes; with and without a
\* USERID.
MCHosts ==
  {[ip |-> To16(V4), name |-> <<>>], [ip |-> V6, name |-> <<>>],
   [ip |-> To16(<<0, 0, 0, 5>>), name |-> <<>>], [ip |-> <<>>, name |-> <<>>],
   [ip |-> <<>>, name |-> <<100>>], [ip |-> <<>>, name |-> <<100, 101>>]}

MCTargets ==
  [host : MCHosts, port : {Port}, userID : {<<>>, <<117>>}]

\* SOCKS4 requests built by Init: CONNECT and BIND to an IPv4 address, to
\* 0.0.0.1 (SOCKS4a) and to 0.0.0.0, with and without a USERID and a
\* DOMAIN, and one of version 5; the requests the dialer builds for
\* every target; responses granted and rejected, of the
\* wrong version and with an unknown code.
MCSocks4Messages ==
  {Socks4RequestInit(4, cmd, Port, ip, uid, dom) :
     cmd \in {CmdConnect, CmdBind}, ip \in {V4, <<0, 0, 0, 1>>, <<0, 0, 0, 0>>},
     uid \in {<<>>, <<117>>}, dom \in {<<>>, <<100>>}}
  \cup {Socks4RequestInit(5, CmdConnect, Port, V4, <<117>>, <<>>)}
  \cup {DialRequest(cmd, t.host, t.port, t.userID) :
          cmd \in {CmdConnect, CmdBind}, t \in MCTargets}
  \cup {[kind |-> "Socks4Response", Version |-> v, Code |-> c, Port |-> Port, IP |-> V4] :
          <<v, c>> \in {<<0, 90>>, <<0, 91>>, <<4, 90>>, <<0, 1>>}}

MCMessages ==
  MCSocks4Messages
  \cup Requests({1, 240, 9}) \cup Replies({0, 1})
  \cup {HandshakeRequestInit(5, ms) : ms \in {<<0>>, <<0, 2>>, Repeat(256, 0)}}
  \cup {[kind |-> "HandshakeReply", Version |-> 5, Method |-> mt] : mt \in {0, 255}}
  \cup {[kind |-> "UserPassRequest", Version |-> 1, Username |-> u, Password |-> p] :
          u \in {<<>>, <<117>>, <<117, 118>>}, p \in {<<112>>, <<112, 113>>}}
  \cup {[kind |-> "UserPassReply", Version |-> 1, Status |-> st] : st \in {0, 1}}
  \cup {[kind |-> k, Version |-> 1, MsgType |-> mt, Token |-> t] :
          k \in {"GSSAPIRequest", "GSSAPIReply"}, mt \in {1, 2}, t \in Tokens}
  \cup {[kind |-> k, Version |-> 1, MsgType |-> GSSAPITypeAbort, Token |-> <<>>] :
          k \in {"GSSAPIRequest", "GSSAPIReply"}}
  \cup UDPPackets

MCTrailByte == 5
=============================================================================
