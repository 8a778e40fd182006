--------------------------- MODULE Socks4Listener ---------------------------
(***************************************************************************)
(* The SOCKS4 server of socks4 (ServeContext and the default handlers):    *)
(* an accept loop that runs one goroutine per accepted connection; that    *)
(* goroutine reads one request under an optional read deadline and hands  *)
(* it to OnRequestDefault, which rejects BIND (OnBindDefault) and serves   *)
(* CONNECT (OnConnectDefault) by dialing the target, replying, and         *)
(* relaying with two io.Copy goroutines that report on errc (capacity      *)
(* ErrcCap). A goroutine waits on ctx.Done() and closes the listener.      *)
(*                                                                         *)
(* The clients, the targets, the timer of the read deadline and the        *)
(* context are the environment. Bytes are abstracted to what a client      *)
(* sends as its request: a CONNECT or BIND request, a request with a       *)
(* command byte other than 1 or 2, or a truncated request.                 *)
(*                                                                         *)
(* With AppHooks the application supplies OnAccept and an OnRequest that   *)
(* wraps OnRequestDefault, as cmd/socks4 does; such a hook may return an   *)
(* error or panic, and the goroutine's deferred recover() calls OnPanic    *)
(* and closes the connection.                                              *)
(***************************************************************************)
EXTENDS Naturals, Sequences, FiniteSets

CONSTANTS
  Conns,               \* the client connections the listener may accept
  ReadTimeoutSet,      \* opts.RequestReadTimeout != 0
  MaxAcceptErrors,     \* bound on transient Accept errors
  ErrcCap,             \* capacity of errc: make(chan error, 2)
  AppHooks             \* OnAccept and OnRequest are the application's

ASSUME ReadTimeoutSet \in BOOLEAN
ASSUME MaxAcceptErrors \in Nat
ASSUME ErrcCap \in Nat
ASSUME AppHooks \in BOOLEAN

\* What a client writes before waiting for its reply.
RequestKinds == {"CONNECT", "BIND", "UnknownCmd", "Truncated"}

\* Handler goroutine of a connection (the closure started at go func()).
HandlerStates == {"none", "accept", "readReq", "dispatch", "relay", "done"}

\* A relay goroutine: io.Copy running, its result being sent on errc, done.
CopyStates == {"none", "copying", "send", "done"}

\* The two relay directions of OnConnectDefault.
Dirs == {"up", "down"}   \* up: io.Copy(target, conn); down: io.Copy(conn, target)

VARIABLES
  ctxDone,      \* ctx.Done() closed
  lnCloser,     \* the goroutine <-ctx.Done(); listener.Close(): "waiting", "done"
  lnClosed,     \* the listener is closed
  serve,        \* accept loop: "loop", "accept", "returned"
  acceptErrs,   \* transient Accept errors so far
  arrived,      \* arrived[c]: c has connected and waits in the accept queue
  h,            \* h[c]: state of the handler goroutine of c
  req,          \* req[c]: the command of the request read from c, or "none"
  sent,         \* sent[c]: what client c has written ("none" or a RequestKinds)
  clientEOF,    \* clientEOF[c]: client c closed its end
  connClosed,   \* connClosed[c]: the server closed c
  deadline,     \* deadline[c]: read deadline "none", "set", "expired"
  replies,      \* replies[c]: the SOCKS4 replies written to c
  target,       \* target[c]: the dialed target connection "none", "open", "closed"
  targetEOF,    \* targetEOF[c]: the target closed its end
  copier,       \* copier[c][d]: relay goroutine of direction d
  errc,         \* errc[c]: number of values buffered in errc
  onError,      \* onError[c]: number of OnError calls for c
  onPanic       \* onPanic[c]: number of OnPanic calls for c

vars == <<ctxDone, lnCloser, lnClosed, serve, acceptErrs, arrived, h, req,
          sent, clientEOF, connClosed, deadline, replies, target, targetEOF, copier,
          errc, onError, onPanic>>

serveVars  == <<ctxDone, lnCloser, lnClosed, serve, acceptErrs>>
clientVars == <<arrived, sent, clientEOF>>
relayVars  == <<target, targetEOF, copier, errc>>

-----------------------------------------------------------------------------
Init ==
  /\ ctxDone = FALSE
  /\ lnCloser = "waiting"
  /\ lnClosed = FALSE
  /\ serve = "loop"
  /\ acceptErrs = 0
  /\ arrived = [c \in Conns |-> FALSE]
  /\ h = [c \in Conns |-> "none"]
  /\ req = [c \in Conns |-> "none"]
  /\ sent = [c \in Conns |-> "none"]
  /\ clientEOF = [c \in Conns |-> FALSE]
  /\ connClosed = [c \in Conns |-> FALSE]
  /\ deadline = [c \in Conns |-> "none"]
  /\ replies = [c \in Conns |-> <<>>]
  /\ target = [c \in Conns |-> "none"]
  /\ targetEOF = [c \in Conns |-> FALSE]
  /\ copier = [c \in Conns |-> [d \in Dirs |-> "none"]]
  /\ errc = [c \in Conns |-> 0]
  /\ onError = [c \in Conns |-> 0]
  /\ onPanic = [c \in Conns |-> 0]

-----------------------------------------------------------------------------
(* ServeContext.                                                           *)

\* Mutant: the goroutine wakes on ctx.Done() but never closes the listener.
CloseListenerOnCancelMissing ==
  /\ lnCloser = "waiting"
  /\ ctxDone
  /\ lnCloser' = "done"
  /\ UNCHANGED <<ctxDone, lnClosed, serve, acceptErrs, arrived, h, req, sent,
                 clientEOF, connClosed, deadline, replies, relayVars, onError, onPanic>>

(* go func() { <-ctx.Done(); listener.Close() }() *)
CloseListenerOnCancel ==
  /\ lnCloser = "waiting"
  /\ ctxDone
  /\ lnClosed' = TRUE
  /\ lnCloser' = "done"
  /\ UNCHANGED <<ctxDone, serve, acceptErrs, arrived, h, req, sent, clientEOF,
                 connClosed, deadline, replies, relayVars, onError, onPanic>>

(* for { select { case <-ctx.Done(): return nil; default: Accept } } *)
ServeLoop ==
  /\ serve = "loop"
  /\ serve' = IF ctxDone THEN "returned" ELSE "accept"
  /\ UNCHANGED <<ctxDone, lnCloser, lnClosed, acceptErrs, arrived, h, req, sent,
                 clientEOF, connClosed, deadline, replies, relayVars, onError, onPanic>>

(* listener.Accept() returns c and its goroutine starts.                  *)
AcceptConn(c) ==
  /\ serve = "accept"
  /\ ~lnClosed
  /\ arrived[c]
  /\ h[c] = "none"
  /\ h' = [h EXCEPT ![c] = "accept"]
  /\ serve' = "loop"
  /\ UNCHANGED <<ctxDone, lnCloser, lnClosed, acceptErrs, clientVars, req,
                 connClosed, deadline, replies, relayVars, onError, onPanic>>

(* listener.Accept() fails (closed listener, or a transient error):        *)
(* OnError(ctx, opts, nil, err) and continue.                              *)
AcceptError ==
  /\ serve = "accept"
  /\ \/ lnClosed /\ UNCHANGED acceptErrs
     \/ ~lnClosed /\ acceptErrs < MaxAcceptErrors /\ acceptErrs' = acceptErrs + 1
  /\ serve' = "loop"
  /\ UNCHANGED <<ctxDone, lnCloser, lnClosed, arrived, h, req, sent, clientEOF,
                 connClosed, deadline, replies, relayVars, onError, onPanic>>

-----------------------------------------------------------------------------
(* The per-connection goroutine.                                           *)

\* Mutant: an error that is never passed to OnError.
HandlerExitUnreported(c, failed) ==
  /\ h' = [h EXCEPT ![c] = "done"]
  /\ connClosed' = [connClosed EXCEPT ![c] = TRUE]
  /\ UNCHANGED <<onError, onPanic>>

\* Leaving the goroutine: OnError when err != nil, then the deferred
\* conn.Close().
HandlerExit(c, failed) ==
  /\ h' = [h EXCEPT ![c] = "done"]
  /\ connClosed' = [connClosed EXCEPT ![c] = TRUE]
  /\ onError' = IF failed THEN [onError EXCEPT ![c] = @ + 1] ELSE onError
  /\ UNCHANGED onPanic

\* A hook panics: the deferred recover() calls OnPanic, then conn.Close().
HandlerPanic(c) ==
  /\ h' = [h EXCEPT ![c] = "done"]
  /\ connClosed' = [connClosed EXCEPT ![c] = TRUE]
  /\ onPanic' = [onPanic EXCEPT ![c] = @ + 1]
  /\ UNCHANGED onError

\* Mutant: the read deadline is never set.
OnAcceptReturnsNoDeadline(c) ==
  /\ h[c] = "accept"
  /\ \/ /\ h' = [h EXCEPT ![c] = "readReq"]
        /\ UNCHANGED <<connClosed, onError, onPanic>>
     \/ AppHooks /\ HandlerExit(c, TRUE)
     \/ AppHooks /\ HandlerPanic(c)
  /\ UNCHANGED <<serveVars, clientVars, req, deadline, replies, relayVars>>

(* The goroutine calls OnAccept. OnAcceptDefault returns nil; an           *)
(* application's hook may also return an error (OnError, return) or       *)
(* panic. After nil, SetReadDeadline when RequestReadTimeout != 0.         *)
OnAcceptReturns(c) ==
  /\ h[c] = "accept"
  /\ \/ /\ h' = [h EXCEPT ![c] = "readReq"]
        /\ deadline' = [deadline EXCEPT ![c] = IF ReadTimeoutSet THEN "set" ELSE "none"]
        /\ UNCHANGED <<connClosed, onError, onPanic>>
     \/ AppHooks /\ HandlerExit(c, TRUE) /\ UNCHANGED deadline
     \/ AppHooks /\ HandlerPanic(c) /\ UNCHANGED deadline
  /\ UNCHANGED <<serveVars, clientVars, req, replies, relayVars>>

\* Mutant: a read that keeps blocking after its deadline has passed.
ReadFailsNoDeadline(c) ==
  \/ sent[c] = "UnknownCmd"
  \/ sent[c] \in {"none", "Truncated"} /\ clientEOF[c]

\* req.ReadFrom(conn) fails: the header of an unknown command is read and
\* rejected, the deadline expires, or the stream ends before a whole request.
ReadFails(c) ==
  \/ sent[c] = "UnknownCmd"
  \/ deadline[c] = "expired"
  \/ sent[c] \in {"none", "Truncated"} /\ clientEOF[c]

\* Mutant: ReadFrom without ValidateHeader's command check.
ReadRequestNoValidate(c) ==
  /\ h[c] = "readReq"
  /\ \/ /\ sent[c] \in {"CONNECT", "BIND", "UnknownCmd"}
        /\ h' = [h EXCEPT ![c] = "dispatch"]
        /\ req' = [req EXCEPT ![c] = sent[c]]
        /\ deadline' = [deadline EXCEPT ![c] = "none"]
        /\ UNCHANGED <<connClosed, onError, onPanic>>
     \/ /\ ReadFails(c)
        /\ HandlerExit(c, TRUE)
        /\ UNCHANGED <<req, deadline>>
  /\ UNCHANGED <<serveVars, clientVars, replies, relayVars>>

(* req.ReadFrom(conn): ValidateHeader rejects a command other than CONNECT *)
(* and BIND, a truncated request or an expired deadline fails the read;    *)
(* on error OnError and return. On success the deadline is cleared.        *)
ReadRequest(c) ==
  /\ h[c] = "readReq"
  /\ \/ /\ sent[c] \in {"CONNECT", "BIND"}
        /\ h' = [h EXCEPT ![c] = "dispatch"]
        /\ req' = [req EXCEPT ![c] = sent[c]]
        /\ deadline' = [deadline EXCEPT ![c] = "none"]
        /\ UNCHANGED <<connClosed, onError, onPanic>>
     \/ /\ ReadFails(c)
        /\ HandlerExit(c, TRUE)
        /\ UNCHANGED <<req, deadline>>
  /\ UNCHANGED <<serveVars, clientVars, replies, relayVars>>

(* An application's OnRequest panics before it calls OnRequestDefault.    *)
OnRequestPanics(c) ==
  /\ h[c] = "dispatch"
  /\ AppHooks
  /\ HandlerPanic(c)
  /\ UNCHANGED <<serveVars, clientVars, req, deadline, replies, relayVars>>

(* OnRequestDefault for BIND: OnBindDefault writes a rejected reply and    *)
(* returns nil; the goroutine closes the connection.                       *)
RejectBind(c) ==
  /\ h[c] = "dispatch"
  /\ req[c] = "BIND"
  /\ replies' = [replies EXCEPT ![c] = Append(@, "rejected")]
  /\ HandlerExit(c, FALSE)
  /\ UNCHANGED <<serveVars, clientVars, deadline, req, relayVars>>

\* Mutant: a failed dial returns its error without the rejected reply.
DialTargetSilentFailure(c) ==
  /\ h[c] = "dispatch"
  /\ req[c] = "CONNECT"
  /\ \/ /\ HandlerExit(c, TRUE)
        /\ UNCHANGED <<replies, relayVars>>
     \/ /\ ~ctxDone
        /\ replies' = [replies EXCEPT ![c] = Append(@, "granted")]
        /\ target' = [target EXCEPT ![c] = "open"]
        /\ copier' = [copier EXCEPT ![c] = [d \in Dirs |-> "copying"]]
        /\ h' = [h EXCEPT ![c] = "relay"]
        /\ UNCHANGED <<connClosed, onError, onPanic, targetEOF, errc>>
  /\ UNCHANGED <<serveVars, clientVars, deadline, req>>

(* OnRequestDefault for CONNECT, OnConnectDefault: DialContext(ctx, ...).  *)
(* On failure a rejected reply and an error; on success a granted reply    *)
(* and the two relay goroutines. A dial under a done context fails.        *)
DialTarget(c) ==
  /\ h[c] = "dispatch"
  /\ req[c] = "CONNECT"
  /\ \/ /\ replies' = [replies EXCEPT ![c] = Append(@, "rejected")]
        /\ HandlerExit(c, TRUE)
        /\ UNCHANGED relayVars
     \/ /\ ~ctxDone
        /\ replies' = [replies EXCEPT ![c] = Append(@, "granted")]
        /\ target' = [target EXCEPT ![c] = "open"]
        /\ copier' = [copier EXCEPT ![c] = [d \in Dirs |-> "copying"]]
        /\ h' = [h EXCEPT ![c] = "relay"]
        /\ UNCHANGED <<connClosed, onError, onPanic, targetEOF, errc>>
  /\ UNCHANGED <<serveVars, clientVars, deadline, req>>

(* select { case <-ctx.Done(): return ctx.Err()  case err := <-errc:      *)
(* return err }, then the deferred target.Close(), OnError when the error  *)
(* is not nil, and conn.Close(). io.Copy returns nil at end of stream, so  *)
(* failed records whether the received value was an error; it is not      *)
(* tracked and either outcome is allowed.                                  *)
RelayReturn(c) ==
  /\ h[c] = "relay"
  /\ \/ /\ ctxDone
        /\ HandlerExit(c, TRUE)
        /\ UNCHANGED errc
     \/ /\ errc[c] > 0
        /\ errc' = [errc EXCEPT ![c] = @ - 1]
        /\ \E failed \in BOOLEAN : HandlerExit(c, failed)
  /\ target' = [target EXCEPT ![c] = "closed"]
  /\ UNCHANGED <<serveVars, clientVars, deadline, req, replies, targetEOF, copier>>

\* The source a relay direction reads from has ended: its peer closed it or
\* the server closed it.
SourceEnded(c, d) ==
  IF d = "up" THEN clientEOF[c] \/ connClosed[c]
              ELSE targetEOF[c] \/ target[c] = "closed"

(* io.Copy returns: its read ends (EOF or use of a closed connection). A    *)
(* write to a destination the server closed also ends it; the model closes *)
(* target and conn in the handler's one exit step, so such a failed write  *)
(* would only come earlier than this read and is not a separate step.      *)
CopyReturn(c, d) ==
  /\ copier[c][d] = "copying"
  /\ SourceEnded(c, d)
  /\ copier' = [copier EXCEPT ![c][d] = "send"]
  /\ UNCHANGED <<serveVars, clientVars, h, req, connClosed, deadline, replies,
                 target, targetEOF, errc, onError, onPanic>>

\* Mutant: errc := make(chan error, 1).
CopySendSmallErrc(c, d) ==
  /\ copier[c][d] = "send"
  /\ errc[c] < 1
  /\ errc' = [errc EXCEPT ![c] = @ + 1]
  /\ copier' = [copier EXCEPT ![c][d] = "done"]
  /\ UNCHANGED <<serveVars, clientVars, h, req, connClosed, deadline, replies,
                 target, targetEOF, onError, onPanic>>

(* errc <- err: blocks while errc is full. *)
CopySend(c, d) ==
  /\ copier[c][d] = "send"
  /\ errc[c] < ErrcCap
  /\ errc' = [errc EXCEPT ![c] = @ + 1]
  /\ copier' = [copier EXCEPT ![c][d] = "done"]
  /\ UNCHANGED <<serveVars, clientVars, h, req, connClosed, deadline, replies,
                 target, targetEOF, onError, onPanic>>

-----------------------------------------------------------------------------
(* The environment.                                                        *)

Cancel ==
  /\ ~ctxDone
  /\ ctxDone' = TRUE
  /\ UNCHANGED <<lnCloser, lnClosed, serve, acceptErrs, clientVars, h, req,
                 connClosed, deadline, replies, relayVars, onError, onPanic>>

\* The listener fails for good outside ServeContext (its descriptor is
\* closed or exhausted): every later Accept returns an error.
ListenerFails ==
  /\ ~lnClosed
  /\ lnClosed' = TRUE
  /\ UNCHANGED <<ctxDone, lnCloser, serve, acceptErrs, clientVars, h, req,
                 connClosed, deadline, replies, relayVars, onError, onPanic>>

\* A client connects; a closed listener refuses it.
ClientConnect(c) ==
  /\ ~arrived[c]
  /\ ~lnClosed
  /\ arrived' = [arrived EXCEPT ![c] = TRUE]
  /\ UNCHANGED <<serveVars, h, req, sent, clientEOF, connClosed, deadline, replies,
                 relayVars, onError, onPanic>>

\* A connected client writes its request.
ClientSend(c) ==
  /\ arrived[c]
  /\ sent[c] = "none"
  /\ ~clientEOF[c]
  /\ \E k \in RequestKinds : sent' = [sent EXCEPT ![c] = k]
  /\ UNCHANGED <<serveVars, arrived, clientEOF, h, req, connClosed, deadline,
                 replies, relayVars, onError, onPanic>>

\* A connected client closes its end.
ClientClose(c) ==
  /\ arrived[c]
  /\ ~clientEOF[c]
  /\ clientEOF' = [clientEOF EXCEPT ![c] = TRUE]
  /\ UNCHANGED <<serveVars, arrived, sent, h, req, connClosed, deadline, replies,
                 relayVars, onError, onPanic>>

\* The target closes its end.
TargetClose(c) ==
  /\ target[c] = "open"
  /\ ~targetEOF[c]
  /\ targetEOF' = [targetEOF EXCEPT ![c] = TRUE]
  /\ UNCHANGED <<serveVars, clientVars, h, req, connClosed, deadline, replies,
                 target, copier, errc, onError, onPanic>>

\* The read deadline passes while the request is being read.
DeadlineExpires(c) ==
  /\ deadline[c] = "set"
  /\ h[c] = "readReq"
  /\ deadline' = [deadline EXCEPT ![c] = "expired"]
  /\ UNCHANGED <<serveVars, clientVars, h, req, connClosed, replies, relayVars,
                 onError, onPanic>>

-----------------------------------------------------------------------------
HandlerStep(c) ==
  \/ OnAcceptReturns(c) \/ OnRequestPanics(c)
  \/ ReadRequest(c) \/ RejectBind(c) \/ DialTarget(c) \/ RelayReturn(c)

CopyStep(c, d) == CopyReturn(c, d) \/ CopySend(c, d)

\* Every step but the cancellation of ctx, which context.Background()
\* (Serve) never delivers.
ServeNext ==
  \/ CloseListenerOnCancel \/ ServeLoop \/ AcceptError
  \/ \E c \in Conns :
       \/ AcceptConn(c) \/ HandlerStep(c)
       \/ \E d \in Dirs : CopyStep(c, d)
       \/ ClientConnect(c) \/ ClientSend(c) \/ ClientClose(c)
       \/ TargetClose(c) \/ DeadlineExpires(c)
  \/ ListenerFails

Next == ServeNext \/ Cancel

(* The Go scheduler runs every runnable goroutine, and a read deadline     *)
(* that is set fires. Clients, targets and the context owe nothing.        *)
Fairness ==
  /\ WF_vars(CloseListenerOnCancel)
  /\ WF_vars(ServeLoop)
  /\ WF_vars(AcceptError)
  /\ \A c \in Conns :
       /\ WF_vars(HandlerStep(c))
       /\ WF_vars(DeadlineExpires(c))
       /\ \A d \in Dirs : WF_vars(CopyStep(c, d))

Spec == Init /\ [][Next]_vars /\ Fairness

-----------------------------------------------------------------------------
(* Properties.                                                             *)

TypeOK ==
  /\ ctxDone \in BOOLEAN /\ lnClosed \in BOOLEAN
  /\ lnCloser \in {"waiting", "done"}
  /\ serve \in {"loop", "accept", "returned"}
  /\ acceptErrs \in 0..MaxAcceptErrors
  /\ arrived \in [Conns -> BOOLEAN]
  /\ h \in [Conns -> HandlerStates]
  /\ req \in [Conns -> {"none", "CONNECT", "BIND"}]
  /\ sent \in [Conns -> {"none"} \cup RequestKinds]
  /\ clientEOF \in [Conns -> BOOLEAN]
  /\ connClosed \in [Conns -> BOOLEAN]
  /\ deadline \in [Conns -> {"none", "set", "expired"}]
  /\ replies \in [Conns -> Seq({"granted", "rejected"})]
  /\ target \in [Conns -> {"none", "open", "closed"}]
  /\ targetEOF \in [Conns -> BOOLEAN]
  /\ copier \in [Conns -> [Dirs -> CopyStates]]
  /\ errc \in [Conns -> 0..ErrcCap]
  /\ onError \in [Conns -> Nat]
  /\ onPanic \in [Conns -> Nat]

(* A client whose request was read and handed to OnRequestDefault gets     *)
(* exactly one reply before the server closes its connection, whichever   *)
(* way OnConnectDefault or OnBindDefault ends, and a granted reply only   *)
(* once a target connection was opened.                                    *)
RequestAnsweredOnce ==
  \A c \in Conns :
    /\ Len(replies[c]) <= 1
    /\ (h[c] = "done" /\ req[c] # "none" /\ onPanic[c] = 0) => Len(replies[c]) = 1
    /\ replies[c] = <<"granted">> => target[c] # "none"

(* A connection that ends without a granted reply and was not a BIND is a  *)
(* failure: it was reported exactly once, to OnError for an error and to   *)
(* OnPanic for a recovered panic, and never twice or to both.              *)
FailureReportedOnce ==
  \A c \in Conns :
    /\ onError[c] + onPanic[c] <= 1
    /\ (h[c] = "done" /\ replies[c] # <<"granted">> /\ req[c] # "BIND")
          => onError[c] + onPanic[c] = 1

(* Once the context is cancelled, ServeContext returns: the listener.Close *)
(* goroutine unblocks a pending Accept and the loop sees ctx.Done().       *)
ServeReturnsAfterCancel ==
  ctxDone ~> serve = "returned"

(* Once the context is cancelled, every accepted connection is eventually  *)
(* closed: a dial under a done context fails, the relay select takes       *)
(* ctx.Done(), and the request read is bounded by the read deadline.       *)
CancelEndsEveryConn ==
  ctxDone ~> \A c \in Conns : h[c] # "none" => connClosed[c]

(* With RequestReadTimeout set, no connection waits for its request for   *)
(* ever: a client that connects and sends nothing, or half a request, is  *)
(* released once the read deadline set after OnAccept fires, whether or   *)
(* not the context is ever cancelled.                                      *)
RequestReadBounded ==
  \A c \in Conns : h[c] = "readReq" ~> h[c] # "readReq"

(* Both relay goroutines of a finished CONNECT handler return: closing     *)
(* conn and target ends their io.Copy, and errc has room for both results  *)
(* even when the handler left through ctx.Done() without receiving any.   *)
RelayGoroutinesFinish ==
  \A c \in Conns, d \in Dirs :
    h[c] = "done" ~> copier[c][d] \in {"none", "done"}

(* The specification: a Listener receiving a request with an undefined     *)
(* command byte responds with a rejected reply and records the event via   *)
(* on-error.                                                               *)
UnknownCommandRejected ==
  \A c \in Conns :
    (h[c] = "done" /\ sent[c] = "UnknownCmd" /\ deadline[c] # "expired")
      => replies[c] = <<"rejected">> /\ onError[c] = 1
=============================================================================
