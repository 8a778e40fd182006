---------------------------- MODULE Socks4Server ----------------------------
(***************************************************************************)
(* The cmd/socks4 program: main opens a listener with net.Listen and runs  *)
(* socks4.Serve on it, which is ServeContext under context.Background().  *)
(* Its hooks are the application's: OnAccept logs and returns nil,        *)
(* OnRequest logs around OnRequestDefault and returns its error, OnError  *)
(* and OnPanic log. None of them fails or panics, and RequestReadTimeout   *)
(* is left 0, so the listener is Socks4Listener with default behaviour,   *)
(* no read deadline, and a context that is never cancelled.               *)
(*                                                                         *)
(* The flags only name the network and address; what the model keeps of  *)
(* them is whether net.Listen succeeds. log.Fatalln ends the process.     *)
(***************************************************************************)
EXTENDS Naturals

CONSTANTS Conns, MaxAcceptErrors, ErrcCap

VARIABLES
  main,   \* main goroutine: "listen", "serve", "exited", "fatal"
  ctxDone, lnCloser, lnClosed, serve, acceptErrs, arrived, h, req, sent,
  clientEOF, connClosed, deadline, replies, target, targetEOF, copier, errc,
  onError, onPanic

\* socks4.Serve: ServeContext(context.Background(), listener, opts), with
\* cmd/socks4's options.
L == INSTANCE Socks4Listener WITH ReadTimeoutSet <- FALSE, AppHooks <- FALSE

\* The listener's variables (L!vars).
lvars == <<ctxDone, lnCloser, lnClosed, serve, acceptErrs, arrived, h, req,
           sent, clientEOF, connClosed, deadline, replies, target, targetEOF,
           copier, errc, onError, onPanic>>

vars == <<main, lvars>>

Init == main = "listen" /\ L!Init

(* flag.Parse(); net.Listen with the -network and -address flags: an error *)
(* ends the process in log.Fatalln; otherwise main logs the address and  *)
(* calls Serve.                                                           *)
Listen ==
  /\ main = "listen"
  /\ main' \in {"serve", "fatal"}
  /\ UNCHANGED lvars

\* A step of Serve, or of a client or target, while main is in Serve; the
\* context.Background() of Serve is never cancelled.
Serving(A) == main = "serve" /\ A /\ UNCHANGED main

(* Serve returns: log.Fatalln("socks4.Serve:", err) when err != nil, else  *)
(* main returns. ServeContext's only return is "return nil" after          *)
(* ctx.Done(), so the process exits normally.                              *)
ServeReturns ==
  /\ main = "serve"
  /\ serve = "returned"
  /\ main' = "exited"
  /\ UNCHANGED lvars

Next == Listen \/ Serving(L!ServeNext) \/ ServeReturns

(* The runtime schedules main and every goroutine of Serve, as in          *)
(* Socks4Listener; the fairness of each is conditioned on main being in   *)
(* Serve, since an ended process runs nothing.                             *)
Fairness ==
  /\ WF_vars(Listen)
  /\ WF_vars(ServeReturns)
  /\ WF_vars(Serving(L!CloseListenerOnCancel))
  /\ WF_vars(Serving(L!ServeLoop))
  /\ WF_vars(Serving(L!AcceptError))
  /\ \A c \in Conns :
       /\ WF_vars(Serving(L!HandlerStep(c)))
       /\ \A d \in L!Dirs : WF_vars(Serving(L!CopyStep(c, d)))

Spec == Init /\ [][Next]_vars /\ Fairness

-----------------------------------------------------------------------------
(* The specification (4.3): the accept loop stops when accepting returns   *)
(* an unrecoverable error, and main then ends the process through          *)
(* log.Fatalln("socks4.Serve:", err). Once the listener has failed for     *)
(* good, the program eventually ends.                                      *)
ServerStopsOnListenerFailure ==
  (main = "serve" /\ lnClosed) ~> main \in {"exited", "fatal"}
=============================================================================
