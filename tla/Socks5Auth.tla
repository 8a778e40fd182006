------------------------------ MODULE Socks5Auth ------------------------------
(***************************************************************************)
(* The SOCKS5 method negotiation and sub-negotiation codecs: Handshake-    *)
(* Request (socks5/handshake_request.go), HandshakeReply (part_010),       *)
(* UserPassRequest (part_007), UserPassReply and GSSAPIReply (part_008),   *)
(* GSSAPIRequest (part_009): Init where it computes a field, Validate,     *)
(* ReadFrom and WriteTo, as operators. Conventions as in Socks5Messages.   *)
(***************************************************************************)
EXTENDS Socks5Wire

AuthVersionUserPass == 1
GSSAPIVersion       == 1
GSSAPITypeAbort     == 255

Out(n, err, msg) == [n |-> n, err |-> err, msg |-> msg]
Written(err, bytes) == [err |-> err, bytes |-> bytes]

(* ---------------------------- HandshakeRequest -------------------------- *)

\* Init: NMethods = byte(len(methods)), wrapping at 256.
HandshakeRequestInit(version, methods) ==
  [kind |-> "HandshakeRequest", Version |-> version,
   NMethods |-> Len(methods) % 256, Methods |-> methods]

HandshakeRequestValidate(m) ==
  CASE m.Version # 5           -> "ErrInvalidHandshakeVersion"
    [] m.NMethods = 0          -> "ErrNoMethodsProvided"
    [] Len(m.Methods) # m.NMethods -> "ErrTooManyMethods"
    [] OTHER                   -> "nil"

\* Mutant: a failed read of the methods reports only the header's count.
HandshakeRequestReadFromDropsCount(s) ==
  LET z == HandshakeRequestInit(0, <<>>)
      h == ReadFull(s, 0, 2)
      r == ReadFull(s, 2, s[2])
      zh == [z EXCEPT !.Version = s[1], !.NMethods = s[2]]
      m == [zh EXCEPT !.Methods = Bytes(s, 2, s[2])]
  IN CASE h.err # "nil" -> Out(h.n, h.err, z)
       [] s[2] = 0      -> Out(2, "ErrNoMethodsProvided", zh)
       [] r.err # "nil" -> Out(2, r.err, zh)
       [] OTHER         -> Out(2 + r.n, HandshakeRequestValidate(m), m)

\* ReadFrom: VER and NMETHODS, NMETHODS = 0 refused, the methods, then
\* Validate (where the version is first looked at).
HandshakeRequestReadFrom(s) ==
  LET z == HandshakeRequestInit(0, <<>>)
      h == ReadFull(s, 0, 2)
      r == ReadFull(s, 2, s[2])
      zh == [z EXCEPT !.Version = s[1], !.NMethods = s[2]]
      m == [zh EXCEPT !.Methods = Bytes(s, 2, s[2])]
  IN CASE h.err # "nil" -> Out(h.n, h.err, z)
       [] s[2] = 0      -> Out(2, "ErrNoMethodsProvided", zh)
       [] r.err # "nil" -> Out(2 + r.n, r.err, zh)
       [] OTHER         -> Out(2 + r.n, HandshakeRequestValidate(m), m)

\* WriteTo writes VER, NMETHODS and the methods, unchecked.
HandshakeRequestWriteTo(m) ==
  Written("nil", <<m.Version, m.NMethods>> \o m.Methods)

(* ----------------------------- HandshakeReply --------------------------- *)

HandshakeReplyValidate(m) ==
  IF m.Version # 5 THEN "ErrInvalidHandshakeReplyVersion" ELSE "nil"

HandshakeReplyReadFrom(s) ==
  LET h == ReadFull(s, 0, 2)
      m == [kind |-> "HandshakeReply", Version |-> s[1], Method |-> s[2]]
  IN IF h.err # "nil"
     THEN Out(h.n, h.err, [kind |-> "HandshakeReply", Version |-> 0, Method |-> 0])
     ELSE Out(2, HandshakeReplyValidate(m), m)

HandshakeReplyWriteTo(m) == Written("nil", <<m.Version, m.Method>>)

(* ---------------------------- UserPassRequest --------------------------- *)

UserPassRequestValidate(m) ==
  CASE m.Version # AuthVersionUserPass -> "ErrInvalidUserPassVersion"
    [] Len(m.Username) = 0 -> "ErrEmptyUserPassUsername"
    [] Len(m.Password) = 0 -> "ErrEmptyUserPassPassword"
    [] Len(m.Username) > 255 \/ Len(m.Password) > 255 -> "ErrUserPassTooLong"
    [] OTHER               -> "nil"

\* ReadFrom: VER and ULEN, ULEN = 0 refused, the username, PLEN, PLEN = 0
\* refused, the password, then Validate (where the version is first
\* looked at).
UserPassRequestReadFrom(s) ==
  LET z    == [kind |-> "UserPassRequest", Version |-> 0,
               Username |-> <<>>, Password |-> <<>>]
      h    == ReadFull(s, 0, 2)
      ulen == s[2]
      u    == ReadFull(s, 2, ulen)
      pl   == ReadFull(s, 2 + ulen, 1)
      plen == s[3 + ulen]
      p    == ReadFull(s, 3 + ulen, plen)
      zv   == [z EXCEPT !.Version = s[1]]
      zu   == [zv EXCEPT !.Username = Bytes(s, 2, ulen)]
      m    == [zu EXCEPT !.Password = Bytes(s, 3 + ulen, plen)]
  IN CASE h.err # "nil"  -> Out(h.n, h.err, z)
       [] ulen = 0       -> Out(2, "ErrEmptyUserPassUsername", zv)
       [] u.err # "nil"  -> Out(2 + u.n, u.err, zv)
       [] pl.err # "nil" -> Out(2 + ulen + pl.n, pl.err, zu)
       [] plen = 0       -> Out(3 + ulen, "ErrEmptyUserPassPassword", zu)
       [] p.err # "nil"  -> Out(3 + ulen + p.n, p.err, zu)
       [] OTHER          -> Out(3 + ulen + plen, UserPassRequestValidate(m), m)

\* WriteTo refuses only over-long fields; the lengths are byte(len).
UserPassRequestWriteTo(m) ==
  IF Len(m.Username) > 255 \/ Len(m.Password) > 255
  THEN Written("ErrUserPassTooLong", <<>>)
  ELSE Written("nil", <<m.Version, Len(m.Username) % 256>> \o m.Username
                        \o <<Len(m.Password) % 256>> \o m.Password)

(* ----------------------------- UserPassReply ---------------------------- *)

UserPassReplyValidate(m) ==
  IF m.Version # AuthVersionUserPass
  THEN "ErrInvalidUserPassReplyVersion" ELSE "nil"

UserPassReplyReadFrom(s) ==
  LET h == ReadFull(s, 0, 2)
      m == [kind |-> "UserPassReply", Version |-> s[1], Status |-> s[2]]
  IN IF h.err # "nil"
     THEN Out(h.n, h.err, [kind |-> "UserPassReply", Version |-> 0, Status |-> 0])
     ELSE Out(2, UserPassReplyValidate(m), m)

\* WriteTo "assumes the struct is already valid".
UserPassReplyWriteTo(m) == Written("nil", <<m.Version, m.Status>>)

(* ---------------------- GSSAPIRequest and GSSAPIReply ------------------- *)
(* The two types have the same code with their own error names.            *)

GSSAPIErr(kind, which) ==
  IF kind = "GSSAPIRequest"
  THEN [version |-> "ErrInvalidGSSAPIVersion", empty |-> "ErrEmptyGSSAPIToken",
        long |-> "ErrGSSAPITokenTooLong"][which]
  ELSE [version |-> "ErrInvalidGSSAPIReplyVersion",
        empty |-> "ErrEmptyGSSAPIReplyToken",
        long |-> "ErrGSSAPIReplyTooLong"][which]

\* Validate: the version, then an abort needs no token, then the token.
GSSAPIValidate(m) ==
  CASE m.Version # GSSAPIVersion     -> GSSAPIErr(m.kind, "version")
    [] m.MsgType = GSSAPITypeAbort   -> "nil"
    [] Len(m.Token) = 0              -> GSSAPIErr(m.kind, "empty")
    [] Len(m.Token) > 65535          -> GSSAPIErr(m.kind, "long")
    [] OTHER                         -> "nil"

\* ReadFrom: VER and MTYP; an abort returns at once, with no Validate;
\* otherwise the uint16 length, length 0 refused, the token, Validate.
GSSAPIReadFrom(s, kind) ==
  LET z   == [kind |-> kind, Version |-> 0, MsgType |-> 0, Token |-> <<>>]
      h   == ReadFull(s, 0, 2)
      zh  == [z EXCEPT !.Version = s[1], !.MsgType = s[2]]
      l   == ReadFull(s, 2, 2)
      len == Uint16At(s, 2)
      t   == ReadFull(s, 4, len)
      m   == [zh EXCEPT !.Token = Bytes(s, 4, len)]
  IN CASE h.err # "nil"              -> Out(h.n, h.err, z)
       [] s[2] = GSSAPITypeAbort     -> Out(2, "nil", zh)
       [] l.err # "nil"              -> Out(2 + l.n, l.err, zh)
       [] len = 0                    -> Out(4, GSSAPIErr(kind, "empty"), zh)
       [] t.err # "nil"              -> Out(4 + t.n, t.err, zh)
       [] OTHER                      -> Out(4 + len, GSSAPIValidate(m), m)

\* WriteTo: Validate, then VER and MTYP alone for an abort, or with the
\* uint16 token length and the token.
GSSAPIWriteTo(m) ==
  CASE GSSAPIValidate(m) # "nil"   -> Written(GSSAPIValidate(m), <<>>)
    [] m.MsgType = GSSAPITypeAbort -> Written("nil", <<m.Version, m.MsgType>>)
    [] OTHER -> Written("nil", <<m.Version, m.MsgType>>
                               \o PutUint16(Len(m.Token) % 65536) \o m.Token)

GSSAPIRequestValidate(m)  == GSSAPIValidate(m)
GSSAPIRequestReadFrom(s)  == GSSAPIReadFrom(s, "GSSAPIRequest")
GSSAPIRequestWriteTo(m)   == GSSAPIWriteTo(m)
GSSAPIReplyValidate(m)    == GSSAPIValidate(m)
GSSAPIReplyReadFrom(s)    == GSSAPIReadFrom(s, "GSSAPIReply")
GSSAPIReplyWriteTo(m)     == GSSAPIWriteTo(m)
=============================================================================
