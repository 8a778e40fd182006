---------------------------- MODULE Socks4DialCall ----------------------------
(***************************************************************************)
(* What one SOCKS4 DialContext or BindContext call promises its caller     *)
(* (socks4/dial.go), with the goroutines, the bytes and the proxy's        *)
(* replies abstracted away:                                                *)
(*   - the call returns once, with a connection or with an error;          *)
(*   - it returns a connection only while that connection is open, and an  *)
(*     error only with no connection left open;                            *)
(*   - it opens no connection once the context is cancelled, and closes    *)
(*     the connection of a pending call only on cancellation;              *)
(*   - a cancelled call returns.                                           *)
(* Socks4Dialer implements this specification (its property DialContract). *)
(***************************************************************************)

VARIABLES
  status,   \* "pending", "ok" (connection returned), "err"
  conn,     \* the proxy connection: "none", "open", "closed"
  ctxDone   \* the caller's context is cancelled

vars == <<status, conn, ctxDone>>

Init ==
  /\ status = "pending"
  /\ conn = "none"
  /\ ctxDone = FALSE

\* The dial to the proxy succeeds; a cancelled context makes it fail.
Dial ==
  /\ status = "pending"
  /\ conn = "none"
  /\ ~ctxDone
  /\ conn' = "open"
  /\ UNCHANGED <<status, ctxDone>>

\* The call returns an error, closing the connection it opened.
Fail ==
  /\ status = "pending"
  /\ status' = "err"
  /\ conn' = IF conn = "none" THEN "none" ELSE "closed"
  /\ UNCHANGED ctxDone

\* The call returns the open connection.
Succeed ==
  /\ status = "pending"
  /\ conn = "open"
  /\ status' = "ok"
  /\ UNCHANGED <<conn, ctxDone>>

\* A cancellation closes the connection of a pending call.
CloseOnCancel ==
  /\ status = "pending"
  /\ ctxDone
  /\ conn = "open"
  /\ conn' = "closed"
  /\ UNCHANGED <<status, ctxDone>>

\* A returned connection is closed (by whoever holds it).
Release ==
  /\ status = "ok"
  /\ conn = "open"
  /\ conn' = "closed"
  /\ UNCHANGED <<status, ctxDone>>

\* The caller's context is cancelled.
Cancel ==
  /\ ~ctxDone
  /\ ctxDone' = TRUE
  /\ UNCHANGED <<status, conn>>

Next == Dial \/ Fail \/ Succeed \/ CloseOnCancel \/ Release \/ Cancel

\* A cancelled pending call does not stay pending.
Spec == Init /\ [][Next]_vars /\ WF_vars(ctxDone /\ (Fail \/ Succeed))
=============================================================================
