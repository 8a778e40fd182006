---------------------------- MODULE Socks4Messages ----------------------------
(***************************************************************************)
(* The SOCKS4/4a Request codec (socks4/request.go) and Response codec      *)
(* (unnamed/part_001): Init, the predicates, the validators, ReadFrom and  *)
(* WriteTo, as operators. Conventions as in Socks5Messages: IP is the four *)
(* DSTIP bytes, UserID and Domain byte sequences without their NUL.        *)
(*                                                                         *)
(* ReadUserIDAndDomain reads through a 256-byte bufio.Reader over a        *)
(* LimitedReader of DefaultMaxUserIDLen+1 = 257 bytes. While the bytes     *)
(* after the header number at most 256, the first fill holds them all and  *)
(* neither limit is reached, and ReadString(0x00) is the split of the      *)
(* input at its first NUL that ReadCString states. Socks4RequestReader    *)
(* models the limits and the read-ahead byte by byte.                      *)
(***************************************************************************)
EXTENDS Socks5Wire

Socks4Version == 4
CmdConnect    == 1
CmdBind       == 2
Socks4Replies == 90..93   \* RepGranted 0x5A .. RepUserIDMismatch 0x5D
RepGranted    == 90

\* IsSOCKS4a: DSTIP is 0.0.0.x with x # 0.
IsSOCKS4a(r) == SubSeq(r.IP, 1, 3) = <<0, 0, 0>> /\ r.IP[4] # 0

\* Init: copy(r.IP[:], ip.To4()) leaves 0.0.0.0 for an address with no
\* IPv4 form.
Socks4RequestInit(version, command, port, ip, userID, domain) ==
  [kind |-> "Socks4Request", Version |-> version, Command |-> command,
   Port |-> port, IP |-> IF To4(ip) = <<>> THEN <<0, 0, 0, 0>> ELSE To4(ip),
   UserID |-> userID, Domain |-> domain]

\* ValidateHeader. The To4() of a 4-byte IP is never nil, so its check is
\* not a case.
Socks4RequestValidateHeader(r) ==
  CASE r.Version # Socks4Version          -> "ErrInvalidVersion"
    [] r.Command \notin {CmdConnect, CmdBind} -> "ErrInvalidCommand"
    [] r.IP = <<0, 0, 0, 0>> /\ r.Command = CmdConnect -> "ErrInvalidIP"
    [] OTHER                              -> "nil"

\* ValidateDomain: a domain exactly for a SOCKS4a request.
Socks4RequestValidateDomain(r) ==
  IF IsSOCKS4a(r) = (r.Domain = <<>>) THEN "ErrInvalidDomain" ELSE "nil"

Socks4RequestValidate(r) ==
  IF Socks4RequestValidateHeader(r) # "nil"
  THEN Socks4RequestValidateHeader(r) ELSE Socks4RequestValidateDomain(r)

\* rdr.ReadString(0x00) from offset pos: the bytes up to and including the
\* first NUL, or all that is left with io.EOF. n counts the bytes returned;
\* the bytes after them are what ReadString did not return, part of which
\* the pooled reader may have buffered and PutReader drops.
ReadCString(s, pos) ==
  LET rest == SubSeq(s, pos + 1, Len(s))
      j    == SelectInSeq(rest, LAMBDA b : b = 0)
  IN IF j = 0 THEN [n |-> Len(rest), err |-> "EOF", str |-> rest]
     ELSE [n |-> j, err |-> "nil", str |-> SubSeq(rest, 1, j - 1)]

\* ReadFrom: ReadHeaderFrom (the 8-byte header and ValidateHeader), then
\* ReadUserIDAndDomain: the USERID, and the DOMAIN when the header's IP is
\* 0.0.0.x. Nothing calls ValidateDomain. The bytes after n are not all
\* left in s: the pooled reader may have read some ahead and drops them.
Socks4RequestReadFrom(s) ==
  LET z   == [kind |-> "Socks4Request", Version |-> 0, Command |-> 0, Port |-> 0,
              IP |-> <<0, 0, 0, 0>>, UserID |-> <<>>, Domain |-> <<>>]
      h   == ReadFull(s, 0, 8)
      hdr == [z EXCEPT !.Version = s[1], !.Command = s[2],
                       !.Port = Uint16At(s, 2), !.IP = Bytes(s, 4, 4)]
      u   == ReadCString(s, 8)
      ru  == [hdr EXCEPT !.UserID = u.str]
      d   == ReadCString(s, 8 + u.n)
      Out(n, err, msg) == [n |-> n, err |-> err, msg |-> msg]
  IN CASE h.err # "nil"                      -> Out(h.n, h.err, z)
       [] Socks4RequestValidateHeader(hdr) # "nil"
                                             -> Out(8, Socks4RequestValidateHeader(hdr), hdr)
       [] u.err # "nil"                      -> Out(8 + u.n, u.err, hdr)
       [] ~IsSOCKS4a(hdr)                    -> Out(8 + u.n, "nil", ru)
       [] d.err # "nil"                      -> Out(8 + u.n + d.n, d.err, ru)
       [] OTHER -> Out(8 + u.n + d.n, "nil", [ru EXCEPT !.Domain = d.str])

\* writeCString: the bytes of s, then a NUL.
WriteCString(str) == str \o <<0>>

\* WriteTo: the header, the USERID, and the DOMAIN for a SOCKS4a request;
\* no validation.
Socks4RequestWriteTo(r) ==
  [err |-> "nil",
   bytes |-> <<r.Version, r.Command>> \o PutUint16(r.Port) \o r.IP
             \o WriteCString(r.UserID)
             \o (IF IsSOCKS4a(r) THEN WriteCString(r.Domain) ELSE <<>>)]

(* --------------------------------- Response ----------------------------- *)

Socks4ResponseValidate(r) ==
  CASE r.Version # 0                -> "ErrInvalidResponseVersion"
    [] r.Code \notin Socks4Replies  -> "ErrInvalidResponseCode"
    [] OTHER                        -> "nil"

IsGranted(r) == r.Code = RepGranted

\* ReadFrom: the 8 bytes, then Validate.
Socks4ResponseReadFrom(s) ==
  LET h == ReadFull(s, 0, 8)
      r == [kind |-> "Socks4Response", Version |-> s[1], Code |-> s[2],
            Port |-> Uint16At(s, 2), IP |-> Bytes(s, 4, 4)]
  IN IF h.err # "nil"
     THEN [n |-> h.n, err |-> h.err,
           msg |-> [kind |-> "Socks4Response", Version |-> 0, Code |-> 0,
                    Port |-> 0, IP |-> <<0, 0, 0, 0>>]]
     ELSE [n |-> 8, err |-> Socks4ResponseValidate(r), msg |-> r]

Socks4ResponseWriteTo(r) ==
  [err |-> "nil", bytes |-> <<r.Version, r.Code>> \o PutUint16(r.Port) \o r.IP]
====
