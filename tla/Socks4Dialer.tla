---------------------------- MODULE Socks4Dialer ----------------------------
(***************************************************************************)
(* The SOCKS4/4a client of socks4/dial.go: one call of DialContext         *)
(* (CMD_CONNECT) or BindContext (CMD_BIND) against a proxy that may answer *)
(* with any reply, stay silent or close, while the caller's context may be *)
(* cancelled at any moment.                                                *)
(*                                                                         *)
(* Goroutines of the call:                                                 *)
(*   - the calling goroutine (pc), which dials, parses the target, writes  *)
(*     the request and reads the reply;                                    *)
(*   - the cancellation watcher (watcher), a select on ctx.Done() and      *)
(*     exitCh, where exitCh is closed by a defer when the call returns;    *)
(*   - for BIND, the phase-two goroutine (phase2), which reads the second  *)
(*     reply and sends on readyCh, a channel of capacity ReadyChanCap.     *)
(* The proxy, the context and the code that receives the connection are   *)
(* the environment.                                                        *)
(*                                                                         *)
(* A SOCKS4 reply is the token of what ReadFrom makes of its 8 bytes:      *)
(*   "Granted"    VN=0, CD=90                                              *)
(*   "Rejected"   VN=0, CD in 91..93                                       *)
(*   "BadCode"    VN=0, CD outside 90..93 (Validate fails)                 *)
(*   "BadVersion" VN#0, CD=90           (Validate fails, IsGranted holds)  *)
(***************************************************************************)
EXTENDS Naturals, Sequences, FiniteSets

CONSTANTS
  Commands,         \* the commands the caller may issue: "CONNECT", "BIND"
  ReadyChanCap,     \* capacity of readyCh: make(chan error, 1)
  MaxProxyReplies   \* bound on the replies the proxy writes on the connection

ASSUME Commands \subseteq {"CONNECT", "BIND"} /\ Commands # {}
ASSUME ReadyChanCap \in Nat \ {0}
ASSUME MaxProxyReplies \in Nat

Replies == {"Granted", "Rejected", "BadCode", "BadVersion"}

\* The forms of the target address: a literal IPv4 host, a host name
\* (SOCKS4a), an address SplitHostPort rejects, a port parsePort rejects.
Targets == {"IPv4", "Domain", "BadHostPort", "BadPort"}

\* Values sent on readyCh by the phase-two goroutine.
ReadyValues == {"readErr", "rejected", "nil"}

Requests == [cmd : {"CONNECT", "BIND"}, socks4a : BOOLEAN]

\* The request before ParseTarget has built it.
NoRequest == [cmd |-> "none", socks4a |-> FALSE]

VARIABLES
  cmd,          \* the command of this call
  pc,           \* calling goroutine: "dial", "parse", "send", "recv", "returned"
  result,       \* what the call returned: "none", "ok", "err"
  req,          \* the request built from the target: [cmd, socks4a]
  conn,         \* our end of the proxy connection: "none", "open", "closed"
  closers,      \* who called Close while the connection was open (history)
  watcher,      \* cancellation watcher: "none", "started" (not yet in its
                \* select), "parked" (blocked in it), "wokeCtx" (woken by
                \* ctx.Done()), "done"
  exitCh,       \* exitCh closed (the call has returned)
  ctxDone,      \* ctx.Done() closed
  toProxy,      \* requests written on the connection
  fromProxy,    \* replies written by the proxy and not yet read
  proxyEOF,     \* the proxy has closed its end
  repliesSent,  \* number of replies the proxy has written
  phase2,       \* BIND phase-two goroutine: "none", "read2", "sendErr",
                \* "sendRej", "sendNil", "done"
  resp2,        \* what the second ReadFrom produced
  readyCh,      \* values buffered in readyCh
  delivered     \* values the caller has received from readyCh (history)

vars == <<cmd, pc, result, req, conn, closers, watcher, exitCh, ctxDone,
          toProxy, fromProxy, proxyEOF, repliesSent, phase2, resp2,
          readyCh, delivered>>

proxyVars == <<toProxy, fromProxy, proxyEOF, repliesSent>>
bindVars  == <<phase2, resp2, readyCh, delivered>>

-----------------------------------------------------------------------------
(* Reading a reply from the proxy connection (io.ReadFull of 8 bytes).     *)

\* ReadFrom returns once a reply, an end of stream or a local Close is there.
ReadReady == conn = "closed" \/ fromProxy # <<>> \/ proxyEOF

\* The outcome of ReadFrom: the reply, or the I/O error of a closed
\* connection or of the proxy's end of stream.
ReadOutcome ==
  IF conn = "closed" THEN "IOError"
  ELSE IF fromProxy # <<>> THEN Head(fromProxy)
  ELSE "EOF"

ConsumeReply ==
  fromProxy' = IF conn = "open" /\ fromProxy # <<>> THEN Tail(fromProxy)
                                                     ELSE fromProxy

\* ReadFrom returned an error: I/O error or Validate failed.
ReadFailed(r) == r \in {"IOError", "EOF", "BadCode", "BadVersion"}

\* resp.IsGranted(): Code == 90. A failed read leaves Code at 0.
IsGranted(r) == r \in {"Granted", "BadVersion"}

\* The call returns: the deferred close(exitCh). A watcher parked in its
\* select is woken by exitCh and returns.
ExitCall ==
  /\ pc' = "returned"
  /\ exitCh' = TRUE
  /\ watcher' = IF watcher = "parked" THEN "done" ELSE watcher

\* Every error path of DialContext/BindContext after the dial:
\* proxyConn.Close(), then return the error.
FailCall ==
  /\ conn' = "closed"
  /\ closers' = IF conn = "open" THEN closers \cup {"dialer"} ELSE closers
  /\ result' = "err"
  /\ ExitCall

-----------------------------------------------------------------------------
Init ==
  /\ cmd \in Commands
  /\ pc = "dial"
  /\ result = "none"
  /\ req = NoRequest
  /\ conn = "none"
  /\ closers = {}
  /\ watcher = "none"
  /\ exitCh = FALSE
  /\ ctxDone = FALSE
  /\ toProxy = <<>>
  /\ fromProxy = <<>>
  /\ proxyEOF = FALSE
  /\ repliesSent = 0
  /\ phase2 = "none"
  /\ resp2 = "none"
  /\ readyCh = <<>>
  /\ delivered = <<>>

\* Mutant: a dialFunc that ignores a context cancelled before the dial.
DialProxyIgnoresCancel ==
  /\ pc = "dial"
  /\ \/ /\ conn' = "open"
        /\ watcher' = "started"
        /\ pc' = "parse"
        /\ UNCHANGED result
     \/ /\ result' = "err"
        /\ pc' = "returned"
        /\ UNCHANGED <<conn, watcher>>
  /\ UNCHANGED <<cmd, req, closers, exitCh, ctxDone, proxyVars, bindVars>>

(* dialFunc(ctx, network, d.ProxyAddr), then the watcher goroutine is      *)
(* started. A dial whose context is already done fails.                    *)
DialProxy ==
  /\ pc = "dial"
  /\ \/ /\ ~ctxDone
        /\ conn' = "open"
        /\ watcher' = "started"
        /\ pc' = "parse"
        /\ UNCHANGED result
     \/ /\ result' = "err"
        /\ pc' = "returned"
        /\ UNCHANGED <<conn, watcher>>
  /\ UNCHANGED <<cmd, req, closers, exitCh, ctxDone, proxyVars, bindVars>>

(* net.SplitHostPort and parsePort, then the request: a host that is not   *)
(* a literal IP turns the request into SOCKS4a (IP 0.0.0.1, Domain=host).  *)
ParseTarget ==
  /\ pc = "parse"
  /\ \E t \in Targets :
       IF t \in {"BadHostPort", "BadPort"}
       THEN FailCall /\ UNCHANGED req
       ELSE /\ req' = [cmd |-> cmd, socks4a |-> (t = "Domain")]
            /\ pc' = "send"
            /\ UNCHANGED <<conn, closers, result, exitCh, watcher>>
  /\ UNCHANGED <<cmd, ctxDone, proxyVars, bindVars>>

(* req.WriteTo(proxyConn): fails on a closed connection and may fail once  *)
(* the proxy has closed its end (reset); otherwise the bytes are sent.     *)
SendRequest ==
  /\ pc = "send"
  /\ \/ /\ conn = "open"
        /\ toProxy' = Append(toProxy, req)
        /\ pc' = "recv"
        /\ UNCHANGED <<conn, closers, result, exitCh, watcher>>
     \/ /\ conn = "closed" \/ proxyEOF
        /\ FailCall
        /\ UNCHANGED toProxy
  /\ UNCHANGED <<cmd, req, ctxDone, fromProxy, proxyEOF,
                 repliesSent, bindVars>>

(* DialContext: resp.ReadFrom(proxyConn); a read error or a reply that is  *)
(* not granted closes the connection and fails; otherwise the connection   *)
(* is returned.                                                            *)
RecvResponse ==
  /\ pc = "recv"
  /\ cmd = "CONNECT"
  /\ ReadReady
  /\ ConsumeReply
  /\ LET r == ReadOutcome IN
       IF ReadFailed(r) \/ ~IsGranted(r)
       THEN FailCall
       ELSE /\ result' = "ok"
            /\ ExitCall
            /\ UNCHANGED <<conn, closers>>
  /\ UNCHANGED <<cmd, req, ctxDone, toProxy, proxyEOF, repliesSent,
                 bindVars>>

(* BindContext: the first reply; when granted the phase-two goroutine is   *)
(* started with an empty readyCh and the connection is returned.           *)
RecvFirstBindResponse ==
  /\ pc = "recv"
  /\ cmd = "BIND"
  /\ ReadReady
  /\ ConsumeReply
  /\ LET r == ReadOutcome IN
       IF ReadFailed(r) \/ ~IsGranted(r)
       THEN FailCall /\ UNCHANGED phase2
       ELSE /\ result' = "ok"
            /\ ExitCall
            /\ phase2' = "read2"
            /\ UNCHANGED <<conn, closers>>
  /\ UNCHANGED <<cmd, req, ctxDone, toProxy, proxyEOF, repliesSent,
                 resp2, readyCh, delivered>>

(* The watcher goroutine: select { case <-ctx.Done(): proxyConn.Close()    *)
(* case <-exitCh: return }. Entering the select, it takes a ready case     *)
(* (either one when both are ready) or parks; a parked select is woken by  *)
(* the first channel to close and runs that case.                          *)
WatcherSelect ==
  /\ watcher = "started"
  /\ \/ /\ ctxDone
        /\ conn' = "closed"
        /\ closers' = IF conn = "open" THEN closers \cup {"watcher"}
                                       ELSE closers
        /\ watcher' = "done"
     \/ /\ exitCh
        /\ watcher' = "done"
        /\ UNCHANGED <<conn, closers>>
     \/ /\ ~ctxDone /\ ~exitCh
        /\ watcher' = "parked"
        /\ UNCHANGED <<conn, closers>>
  /\ UNCHANGED <<cmd, pc, result, req, exitCh, ctxDone, proxyVars, bindVars>>

\* Mutant: the ctx.Done() case returns without closing the connection.
WatcherCloseNoClose ==
  /\ watcher = "wokeCtx"
  /\ watcher' = "done"
  /\ UNCHANGED <<cmd, pc, result, req, conn, closers, exitCh, ctxDone,
                 proxyVars, bindVars>>

(* Woken by ctx.Done(): proxyConn.Close(). *)
WatcherClose ==
  /\ watcher = "wokeCtx"
  /\ conn' = "closed"
  /\ closers' = IF conn = "open" THEN closers \cup {"watcher"} ELSE closers
  /\ watcher' = "done"
  /\ UNCHANGED <<cmd, pc, result, req, exitCh, ctxDone, proxyVars, bindVars>>

Watch == WatcherSelect \/ WatcherClose

-----------------------------------------------------------------------------
(* The BIND phase-two goroutine.                                           *)

(* resp2.ReadFrom(proxyConn), then the three checks in code order: an     *)
(* error is sent, a code that is not granted is sent, and nil is sent.     *)
ReadSecondResponse ==
  /\ phase2 = "read2"
  /\ ReadReady
  /\ ConsumeReply
  /\ LET r == ReadOutcome IN
       /\ resp2' = r
       /\ phase2' = IF ReadFailed(r) THEN "sendErr"
                    ELSE IF ~IsGranted(r) THEN "sendRej"
                    ELSE "sendNil"
  /\ UNCHANGED <<cmd, pc, result, req, conn, closers, watcher, exitCh,
                 ctxDone, toProxy, proxyEOF, repliesSent, readyCh, delivered>>

\* Mutant: a send that does not block on a full buffer.
ReadyChHasRoomOffByOne == Len(readyCh) <= ReadyChanCap

\* A send on readyCh blocks while the buffer is full.
ReadyChHasRoom == Len(readyCh) < ReadyChanCap

(* readyCh <- fmt.Errorf("read second BIND response: ...") *)
SendReadError ==
  /\ phase2 = "sendErr"
  /\ ReadyChHasRoom
  /\ readyCh' = Append(readyCh, "readErr")
  /\ phase2' = IF IsGranted(resp2) THEN "sendNil" ELSE "sendRej"
  /\ UNCHANGED <<cmd, pc, result, req, conn, closers, watcher, exitCh,
                 ctxDone, proxyVars, resp2, delivered>>

(* readyCh <- fmt.Errorf("proxy rejected BIND finalization ...") *)
SendRejected ==
  /\ phase2 = "sendRej"
  /\ ReadyChHasRoom
  /\ readyCh' = Append(readyCh, "rejected")
  /\ phase2' = "sendNil"
  /\ UNCHANGED <<cmd, pc, result, req, conn, closers, watcher, exitCh,
                 ctxDone, proxyVars, resp2, delivered>>

(* readyCh <- nil, then the deferred close(readyCh). *)
SendReady ==
  /\ phase2 = "sendNil"
  /\ ReadyChHasRoom
  /\ readyCh' = Append(readyCh, "nil")
  /\ phase2' = "done"
  /\ UNCHANGED <<cmd, pc, result, req, conn, closers, watcher, exitCh,
                 ctxDone, proxyVars, resp2, delivered>>

-----------------------------------------------------------------------------
(* The environment.                                                        *)

\* The caller's context is cancelled.
Cancel ==
  /\ ~ctxDone
  /\ ctxDone' = TRUE
  /\ watcher' = IF watcher = "parked" THEN "wokeCtx" ELSE watcher
  /\ UNCHANGED <<cmd, pc, result, req, conn, closers, exitCh,
                 proxyVars, bindVars>>

\* Having read a request, the proxy writes a reply.
ProxyReply ==
  /\ toProxy # <<>>
  /\ conn = "open"
  /\ ~proxyEOF
  /\ repliesSent < MaxProxyReplies
  /\ \E r \in Replies : fromProxy' = Append(fromProxy, r)
  /\ repliesSent' = repliesSent + 1
  /\ UNCHANGED <<cmd, pc, result, req, conn, closers, watcher, exitCh,
                 ctxDone, toProxy, proxyEOF, bindVars>>

\* The proxy closes its end of the connection.
ProxyClose ==
  /\ conn # "none"
  /\ ~proxyEOF
  /\ proxyEOF' = TRUE
  /\ UNCHANGED <<cmd, pc, result, req, conn, closers, watcher, exitCh,
                 ctxDone, toProxy, fromProxy, repliesSent, bindVars>>

\* The caller of BindContext receives from readyCh.
ReceiveReady ==
  /\ result = "ok"
  /\ readyCh # <<>>
  /\ delivered' = Append(delivered, Head(readyCh))
  /\ readyCh' = Tail(readyCh)
  /\ UNCHANGED <<cmd, pc, result, req, conn, closers, watcher, exitCh,
                 ctxDone, proxyVars, phase2, resp2>>

\* The caller closes the connection it was handed (defer conn.Close()).
CallerClose ==
  /\ result = "ok"
  /\ conn = "open"
  /\ conn' = "closed"
  /\ closers' = closers \cup {"caller"}
  /\ UNCHANGED <<cmd, pc, result, req, watcher, exitCh, ctxDone, proxyVars,
                 bindVars>>

-----------------------------------------------------------------------------
CallStep ==
  \/ DialProxy \/ ParseTarget \/ SendRequest
  \/ RecvResponse \/ RecvFirstBindResponse

PhaseTwoStep ==
  \/ ReadSecondResponse \/ SendReadError \/ SendRejected \/ SendReady

Environment ==
  \/ Cancel \/ ProxyReply \/ ProxyClose \/ ReceiveReady \/ CallerClose

Next == CallStep \/ Watch \/ PhaseTwoStep \/ Environment

\* The Go scheduler runs every runnable goroutine of the call; the proxy,
\* the context and the caller are under no obligation to act.
Fairness ==
  /\ WF_vars(CallStep)
  /\ WF_vars(Watch)
  /\ WF_vars(PhaseTwoStep)

Spec == Init /\ [][Next]_vars /\ Fairness

-----------------------------------------------------------------------------
(* Properties.                                                             *)

TypeOK ==
  /\ cmd \in {"CONNECT", "BIND"}
  /\ pc \in {"dial", "parse", "send", "recv", "returned"}
  /\ result \in {"none", "ok", "err"}
  /\ req \in Requests \cup {NoRequest}
  /\ conn \in {"none", "open", "closed"}
  /\ closers \subseteq {"dialer", "watcher", "caller"}
  /\ watcher \in {"none", "started", "parked", "wokeCtx", "done"}
  /\ exitCh \in BOOLEAN
  /\ ctxDone \in BOOLEAN
  /\ toProxy \in Seq(Requests)
  /\ fromProxy \in Seq(Replies)
  /\ proxyEOF \in BOOLEAN
  /\ repliesSent \in 0..MaxProxyReplies
  /\ phase2 \in {"none", "read2", "sendErr", "sendRej", "sendNil", "done"}
  /\ resp2 \in {"none", "IOError", "EOF"} \cup Replies
  /\ readyCh \in Seq(ReadyValues) /\ Len(readyCh) <= ReadyChanCap
  /\ delivered \in Seq(ReadyValues)

(* The call implements its contract (Socks4DialCall): it returns once,    *)
(* with an open connection or with an error and none left open; it opens  *)
(* no connection after cancellation and, while pending, loses its          *)
(* connection only to the cancellation watcher; a cancelled call returns.  *)
DialCall == INSTANCE Socks4DialCall
              WITH status <- IF result = "none" THEN "pending" ELSE result
DialContract == DialCall!Spec

(* Cancelling the context unblocks the call: once ctx is done, the call    *)
(* returns even when the proxy never answers (the watcher closes the       *)
(* connection, which fails the pending write or ReadFrom).                 *)
CancelUnblocksCall ==
  (ctxDone /\ pc # "returned") ~> (pc = "returned")

(* Spec 4.2 and 9: the phase-two signal reports exactly one outcome, so    *)
(* the caller receives nil (peer connected) from readyCh only when the     *)
(* second reply was granted.                                               *)
ReadyOnlyWhenPeerConnected ==
  \A i \in 1..Len(delivered) :
    delivered[i] = "nil" => resp2 = "Granted"

(* Spec 4.2: a cancellation that comes after BindContext has returned      *)
(* still forces the proxy connection closed (the watcher closes it, which  *)
(* fails the pending second read).                                         *)
BindCancelClosesTunnel ==
  (cmd = "BIND" /\ result = "ok" /\ ctxDone) ~> (conn = "closed")

(* Spec 4.2: DialContext never hands the caller a connection that it has   *)
(* closed itself: the cancellation watcher never closes a connection the   *)
(* call returned successfully.                                             *)
ReturnedConnNotClosedByWatcher ==
  (cmd = "CONNECT" /\ result = "ok") => "watcher" \notin closers
=============================================================================
