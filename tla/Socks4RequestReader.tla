------------------------- MODULE Socks4RequestReader -------------------------
(***************************************************************************)
(* Request.ReadUserIDAndDomain of socks4/request.go: after the 8-byte      *)
(* header, the NUL-terminated USERID and, for SOCKS4a, the NUL-terminated  *)
(* DOMAIN are read with bufio.Reader.ReadString(0) from a pooled reader of *)
(* BufSize bytes (internal/pool.go) over an internal.LimitedReader that is *)
(* re-initialised to max+1 bytes for each field.                          *)
(*                                                                         *)
(* The connection delivers the bytes the client wrote in chunks of any     *)
(* size; the client may or may not have closed its end after them. A byte *)
(* is abstracted to what it is in the client's stream: a USERID byte "u",  *)
(* a DOMAIN byte "d", the terminator NUL, or a byte "x" the client wrote   *)
(* after the request (the start of the data it relays).                   *)
(*                                                                         *)
(* The result is compared with a reference decoding of the same bytes, as *)
(* the specification describes the decoder (section 4.1).                 *)
(***************************************************************************)
EXTENDS Naturals, Sequences, SequencesExt

CONSTANTS
  MaxUserIDLen,   \* DefaultMaxUserIDLen (256)
  MaxDomainLen,   \* DefaultMaxDomainLen (256)
  BufSize,        \* bufio.NewReaderSize(nil, 256)
  MaxTrailing     \* bound on the bytes the client writes after the request

ASSUME {MaxUserIDLen, MaxDomainLen, MaxTrailing} \subseteq Nat
ASSUME BufSize \in Nat \ {0}

NUL == "NUL"
Bytes == {"u", "d", "x", NUL}

Fill(n, b) == [i \in 1..n |-> b]

\* The bytes following the header of a request whose USERID has ulen bytes
\* and, for SOCKS4a, whose DOMAIN has dlen bytes.
RequestBytes(ulen, socks4a, dlen) ==
  Fill(ulen, "u") \o <<NUL>>
    \o (IF socks4a THEN Fill(dlen, "d") \o <<NUL>> ELSE <<>>)

\* Position of the first NUL in s, 0 when there is none.
NulIndex(s) == SelectInSeq(s, LAMBDA b : b = NUL)

Drop(s, k) == SubSeq(s, k + 1, Len(s))

VARIABLES
  input,    \* what the client wrote after the header (fixed)
  eof,      \* the client closed its end after input (fixed)
  socks4a,  \* r.IsSOCKS4a(), decided by the header (fixed)
  src,      \* bytes of input not yet read from the connection
  buf,      \* bytes in the bufio.Reader's buffer, not yet returned
  lrN,      \* lr.N: bytes the LimitedReader may still return
  field,    \* the field being read: "userID", "domain", "done"
  acc,      \* bytes ReadString has collected from full buffers
  userID,   \* r.UserID
  domain,   \* r.Domain
  total,    \* the byte count ReadUserIDAndDomain returns
  result    \* "none" while reading, then "ok" or "EOF" (io.EOF)

vars == <<input, eof, socks4a, src, buf, lrN, field, acc, userID, domain,
          total, result>>

-----------------------------------------------------------------------------
\* GetReader(&lr): a reader from ReaderPool, Reset to lr. Reset drops what
\* the reader buffered for an earlier request (PutReader resets it too),
\* so ReadString starts from an empty buffer.
GetReaderBuffer == <<>>

\* Mutant: lr.Init(src, maxUserIDLen+2).
InitUserIDLimitOffByOne ==
  /\ \E ulen \in 0..MaxUserIDLen + 1, a \in BOOLEAN,
        dlen \in 0..MaxDomainLen + 1, t \in 0..MaxTrailing :
       LET whole == RequestBytes(ulen, a, dlen) \o Fill(t, "x")
       IN  /\ input \in {SubSeq(whole, 1, k) : k \in 0..Len(whole)}
           /\ socks4a = a
  /\ eof \in BOOLEAN
  /\ src = input
  /\ buf = GetReaderBuffer
  /\ lrN = MaxUserIDLen + 2
  /\ field = "userID"
  /\ acc = <<>>
  /\ userID = <<>>
  /\ domain = <<>>
  /\ total = 0
  /\ result = "none"

(* GetReader(&lr) hands out an empty buffer, then lr.Init(src,             *)
(* maxUserIDLen+1). The client wrote any prefix of a request with fields   *)
(* up to one byte over their bounds and up to MaxTrailing bytes after it.  *)
Init ==
  /\ \E ulen \in 0..MaxUserIDLen + 1, a \in BOOLEAN,
        dlen \in 0..MaxDomainLen + 1, t \in 0..MaxTrailing :
       LET whole == RequestBytes(ulen, a, dlen) \o Fill(t, "x")
       IN  /\ input \in {SubSeq(whole, 1, k) : k \in 0..Len(whole)}
           /\ socks4a = a
  /\ eof \in BOOLEAN
  /\ src = input
  /\ buf = GetReaderBuffer
  /\ lrN = MaxUserIDLen + 1
  /\ field = "userID"
  /\ acc = <<>>
  /\ userID = <<>>
  /\ domain = <<>>
  /\ total = 0
  /\ result = "none"

\* Mutant: LimitedReader.Read without p = p[0:l.N].
LrWindowNoTrim(p) == p

\* LimitedReader.Read: a request for p bytes is cut to the N remaining.
LrWindow(p) == IF p > lrN THEN lrN ELSE p

\* ReadSlice only fills while its buffer holds no NUL and is not full.
Scanning == result = "none" /\ NulIndex(buf) = 0 /\ Len(buf) < BufSize

\* Mutant: a fill that waits until it can read its whole window.
FillBufferWholeWindow ==
  /\ Scanning
  /\ lrN > 0
  /\ LrWindow(BufSize - Len(buf)) <= Len(src)
  /\ LET k == LrWindow(BufSize - Len(buf)) IN
       /\ buf' = buf \o SubSeq(src, 1, k)
       /\ src' = Drop(src, k)
       /\ lrN' = lrN - k
  /\ UNCHANGED <<input, eof, socks4a, field, acc, userID, domain, total,
                 result>>

(* b.fill(): one Read of the free space through the LimitedReader (N > 0) *)
(* returns 1 up to that many of the bytes the connection has.              *)
FillBuffer ==
  /\ Scanning
  /\ lrN > 0
  /\ src # <<>>
  /\ \E k \in 1..Min({LrWindow(BufSize - Len(buf)), Len(src)}) :
       /\ buf' = buf \o SubSeq(src, 1, k)
       /\ src' = Drop(src, k)
       /\ lrN' = lrN - k
  /\ UNCHANGED <<input, eof, socks4a, field, acc, userID, domain, total,
                 result>>

(* The fill returns io.EOF (lr.N <= 0, or the client closed and nothing is *)
(* left): ReadString returns what it has with io.EOF, total counts it, and *)
(* ReadUserIDAndDomain returns the error.                                  *)
ReadEOF ==
  /\ Scanning
  /\ lrN <= 0 \/ (src = <<>> /\ eof)
  /\ total' = total + Len(acc) + Len(buf)
  /\ acc' = acc \o buf
  /\ buf' = <<>>
  /\ result' = "EOF"
  /\ UNCHANGED <<input, eof, socks4a, src, lrN, field, userID, domain>>

(* ReadSlice returns bufio.ErrBufferFull with a full buffer; ReadString    *)
(* keeps the fragment and reads on.                                        *)
CollectFullBuffer ==
  /\ result = "none"
  /\ NulIndex(buf) = 0
  /\ Len(buf) = BufSize
  /\ acc' = acc \o buf
  /\ buf' = <<>>
  /\ UNCHANGED <<input, eof, socks4a, src, lrN, field, userID, domain, total,
                 result>>

\* What ReadString(0) returns when the NUL is in the buffer.
Found == acc \o SubSeq(buf, 1, NulIndex(buf))

\* Mutant: lr.Init(src, maxDomainLen) for the DOMAIN.
FoundUserIDDomainLimitOffByOne ==
  /\ result = "none"
  /\ field = "userID"
  /\ NulIndex(buf) > 0
  /\ userID' = Front(Found)
  /\ total' = total + Len(Found)
  /\ buf' = Drop(buf, NulIndex(buf))
  /\ acc' = <<>>
  /\ IF socks4a
     THEN /\ field' = "domain"
          /\ lrN' = MaxDomainLen
          /\ UNCHANGED result
     ELSE /\ field' = "done"
          /\ result' = "ok"
          /\ UNCHANGED lrN
  /\ UNCHANGED <<input, eof, socks4a, src, domain>>

FoundUserID ==
  /\ result = "none"
  /\ field = "userID"
  /\ NulIndex(buf) > 0
  /\ userID' = Front(Found)
  /\ total' = total + Len(Found)
  /\ buf' = Drop(buf, NulIndex(buf))
  /\ acc' = <<>>
  /\ IF socks4a
     THEN /\ field' = "domain"
          /\ lrN' = MaxDomainLen + 1
          /\ UNCHANGED result
     ELSE /\ field' = "done"
          /\ result' = "ok"
          /\ UNCHANGED lrN
  /\ UNCHANGED <<input, eof, socks4a, src, domain>>

(* ReadString found the DOMAIN terminator: r.Domain without the NUL, and   *)
(* the pooled reader is reset, discarding what its buffer still holds.     *)
FoundDomain ==
  /\ result = "none"
  /\ field = "domain"
  /\ NulIndex(buf) > 0
  /\ domain' = Front(Found)
  /\ total' = total + Len(Found)
  /\ buf' = Drop(buf, NulIndex(buf))
  /\ acc' = <<>>
  /\ field' = "done"
  /\ result' = "ok"
  /\ UNCHANGED <<input, eof, socks4a, src, lrN, userID>>

Next ==
  \/ FillBuffer \/ ReadEOF \/ CollectFullBuffer
  \/ FoundUserID \/ FoundDomain

\* ReadUserIDAndDomain runs in one goroutine that keeps running while the
\* connection has bytes for it.
Spec == Init /\ [][Next]_vars /\ WF_vars(Next)
-----------------------------------------------------------------------------
(* The reference decoding (specification, section 4.1): each field is the *)
(* bytes before its NUL, at most max bytes long exclusive of the NUL; a    *)
(* field with no NUL within max bytes is too long, a stream that ends      *)
(* before the NUL has ended, and otherwise the decoder waits for bytes.   *)

FieldOutcome(s, max) ==
  LET i == NulIndex(s) IN
  IF i = 0 THEN IF Len(s) > max THEN "tooLong"
                ELSE IF eof THEN "ended" ELSE "waits"
  ELSE IF i - 1 > max THEN "tooLong" ELSE "ok"

AfterUserID == Drop(input, NulIndex(input))

RefOutcome ==
  LET u == FieldOutcome(input, MaxUserIDLen) IN
  IF u # "ok" \/ ~socks4a THEN u ELSE FieldOutcome(AfterUserID, MaxDomainLen)

RefUserID == SubSeq(input, 1, NulIndex(input) - 1)
RefDomain == SubSeq(AfterUserID, 1, NulIndex(AfterUserID) - 1)
RefLength == Len(RefUserID) + 1 + (IF socks4a THEN Len(RefDomain) + 1 ELSE 0)

-----------------------------------------------------------------------------
(* Properties.                                                             *)

TypeOK ==
  /\ input \in Seq(Bytes) /\ eof \in BOOLEAN /\ socks4a \in BOOLEAN
  /\ src \in Seq(Bytes)
  /\ buf \in Seq(Bytes) /\ Len(buf) <= BufSize
  /\ lrN \in 0..(IF MaxUserIDLen > MaxDomainLen THEN MaxUserIDLen
                                               ELSE MaxDomainLen) + 1
  /\ field \in {"userID", "domain", "done"}
  /\ acc \in Seq(Bytes)
  /\ userID \in Seq(Bytes) /\ domain \in Seq(Bytes)
  /\ total \in Nat
  /\ result \in {"none", "ok", "EOF"}

(* A successful ReadUserIDAndDomain stored as r.UserID exactly the bytes   *)
(* the client wrote before the first NUL, never more than MaxUserIDLen of  *)
(* them, as r.Domain the bytes between the two NULs, and returned as its   *)
(* count the length of the request's trailing fields, terminators         *)
(* included, however the connection cut the bytes into reads.              *)
DecodedAsSent ==
  result = "ok" =>
    /\ userID = RefUserID
    /\ Len(userID) <= MaxUserIDLen
    /\ socks4a => domain = RefDomain
    /\ total = RefLength

(* ReadUserIDAndDomain fails only on a field longer than its bound or a    *)
(* stream that ended: a request within its bounds is never refused, even  *)
(* when part of the DOMAIN was read ahead while reading the USERID.        *)
NoFalseError ==
  result = "EOF" => RefOutcome \in {"tooLong", "ended"}

(* A request within its bounds, or a stream that ends, is always answered: *)
(* the reader never waits for bytes the client will not send.              *)
CompleteRequestRead ==
  RefOutcome \in {"ok", "ended"} => <>(result # "none")

=============================================================================
