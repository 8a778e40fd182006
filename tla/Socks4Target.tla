---------------------------- MODULE Socks4Target ----------------------------
(***************************************************************************)
(* The target address across a SOCKS4 tunnel, end to end: the request      *)
(* DialContext or BindContext (socks4/dial.go) builds from the host and    *)
(* port a caller asks for, Request.WriteTo on the client, Request.ReadFrom *)
(* on the proxy (Socks4Messages), and the address OnConnectDefault         *)
(* (unnamed/part_002) dials from Request.GetHost.                          *)
(*                                                                         *)
(* A host is the string net.SplitHostPort returned, kept as what the code *)
(* tells apart: ip is what net.ParseIP returns for it (the 16-byte form,   *)
(* <<>> for nil) and name its bytes when it is not an IP literal. The     *)
(* names used are never IP literals, so the proxy's dialer resolves a     *)
(* DOMAIN as a name.                                                       *)
(***************************************************************************)
EXTENDS Socks4Messages

CONSTANT
  Targets   \* [host, port, userID]: the parsed addresses a caller dials

\* Mutant: the SOCKS4a fallback without req.Domain = host.
DialRequestNoDomain(cmd, host, port, userID) ==
  LET r == Socks4RequestInit(Socks4Version, cmd, port, host.ip, userID, <<>>) IN
  IF host.ip = <<>> THEN [r EXCEPT !.IP = <<0, 0, 0, 1>>] ELSE r

\* The request DialContext (CmdConnect) and BindContext (CmdBind) build:
\* Init with net.ParseIP(host), whose To4() is the DSTIP; a host that is
\* not an IP literal falls back to SOCKS4a, DSTIP 0.0.0.1 and DOMAIN host.
\* Neither calls Validate before WriteTo.
DialRequest(cmd, host, port, userID) ==
  LET r == Socks4RequestInit(Socks4Version, cmd, port, host.ip, userID, <<>>) IN
  IF host.ip = <<>> THEN [r EXCEPT !.IP = <<0, 0, 0, 1>>, !.Domain = host.name]
  ELSE r

\* GetIP: the DSTIP as a net.IP.
GetIP(r) == To4(r.IP)

\* GetHost, as the host the proxy's dialer is given: the DOMAIN of a
\* SOCKS4a request, else GetIP().String(), a dotted IPv4 literal that
\* parses back to the 16-byte form of the DSTIP.
GetHost(r) ==
  IF IsSOCKS4a(r) THEN [ip |-> <<>>, name |-> r.Domain]
  ELSE [ip |-> To16(GetIP(r)), name |-> <<>>]

\* OnConnectDefault's address: net.JoinHostPort(req.GetHost(), req.Port).
ConnectAddress(r) == [host |-> GetHost(r), port |-> r.Port]

\* Two hosts that name the same destination.
SameHost(a, b) == IPEqual(a.ip, b.ip) /\ a.name = b.name

\* A host SOCKS4 can carry: a name with no NUL in it, or an IPv4 address
\* outside 0.0.0.0/24, the range the protocol reserves for 0.0.0.0 and
\* the SOCKS4a marker.
Carriable(h) ==
  \/ /\ h.ip = <<>>
     /\ h.name # <<>>
     /\ \A i \in DOMAIN h.name : h.name[i] # 0
  \/ /\ To4(h.ip) # <<>>
     /\ SubSeq(To4(h.ip), 1, 3) # <<0, 0, 0>>

\* The tunnel reaches what the caller asked for: for every target SOCKS4
\* can carry, the CONNECT or BIND request DialContext/BindContext writes
\* is read by the proxy's Request.ReadFrom whole and without error, with
\* the command, USERID and port the caller gave, and the address
\* OnConnectDefault dials from GetHost is the requested host.
TunnelReachesTarget ==
  \A t \in Targets, cmd \in {CmdConnect, CmdBind} :
    Carriable(t.host) =>
      LET wire == Socks4RequestWriteTo(DialRequest(cmd, t.host, t.port, t.userID)).bytes
          out  == Socks4RequestReadFrom(wire)
      IN /\ out.err = "nil"
         /\ out.n = Len(wire)
         /\ out.msg.Command = cmd
         /\ out.msg.UserID = t.userID
         /\ ConnectAddress(out.msg).port = t.port
         /\ SameHost(ConnectAddress(out.msg).host, t.host)
====
