----------------------------- MODULE Socks5Wire -----------------------------
(***************************************************************************)
(* What the SOCKS5 codecs of socks5/ use from Go's standard library, as    *)
(* operators over byte sequences (a byte is a number in 0..255):           *)
(* io.ReadFull, encoding/binary big-endian uint16, and the net.IP          *)
(* conversions To4, To16 and Equal.                                        *)
(*                                                                         *)
(* A decoder is a function of its whole input s; reading at offset pos     *)
(* means the bytes s[pos+1], s[pos+2], ...                                 *)
(***************************************************************************)
EXTENDS Naturals, Sequences, SequencesExt

\* The bytes s[pos+1..pos+k].
Bytes(s, pos, k) == SubSeq(s, pos + 1, pos + k)

\* Mutant: a short read that claims the whole count.
ReadFullOvercount(s, pos, k) ==
  LET avail == Len(s) - pos IN
  IF avail >= k THEN [n |-> k, err |-> "nil"]
  ELSE [n |-> k, err |-> IF avail = 0 THEN "EOF" ELSE "ErrUnexpectedEOF"]

\* io.ReadFull(src, buf) with len(buf) = k: all k bytes and nil, or the
\* bytes there were with io.EOF when there were none and
\* io.ErrUnexpectedEOF otherwise. k = 0 reads nothing and succeeds.
ReadFull(s, pos, k) ==
  LET avail == Len(s) - pos IN
  IF avail >= k THEN [n |-> k, err |-> "nil"]
  ELSE [n |-> avail, err |-> IF avail = 0 THEN "EOF" ELSE "ErrUnexpectedEOF"]

\* The end-of-stream class of errors.
EOFErrors == {"EOF", "ErrUnexpectedEOF"}

\* Mutant: a uint16 written little-endian.
PutUint16LE(p) == <<p % 256, p \div 256>>

\* binary.BigEndian.PutUint16 and Uint16.
PutUint16(p) == <<p \div 256, p % 256>>
Uint16At(s, pos) == s[pos + 1] * 256 + s[pos + 2]

(* net.IP: a 4-byte or 16-byte slice, nil being the empty sequence.        *)
V4InV6Prefix == <<0, 0, 0, 0, 0, 0, 0, 0, 0, 0, 255, 255>>

\* ip.To4(): the 4-byte form, or nil for an IPv6 address or nil.
To4(ip) ==
  IF Len(ip) = 4 THEN ip
  ELSE IF Len(ip) = 16 /\ SubSeq(ip, 1, 12) = V4InV6Prefix
       THEN SubSeq(ip, 13, 16)
       ELSE <<>>

\* ip.To16(): the 16-byte form (IPv4 mapped), or nil.
To16(ip) ==
  IF Len(ip) = 4 THEN V4InV6Prefix \o ip
  ELSE IF Len(ip) = 16 THEN ip ELSE <<>>

\* ip.Equal(x): the same address in either form; nil equals only nil.
IPEqual(ip, x) == To16(ip) = To16(x)

\* n copies of byte b.
Repeat(n, b) == [i \in 1..n |-> b]
=============================================================================
