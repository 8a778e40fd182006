-------------------------- MODULE MCSocks4Listener --------------------------
(* Instantiation of Socks4Listener for TLC. *)
EXTENDS Socks4Listener

CONSTANTS c1

MCConns == {c1}

\* opts.RequestReadTimeout set by the application, or left 0 as cmd/socks4
\* and the tests leave it.
MCReadTimeoutSet == TRUE
MCNoReadTimeout == FALSE

\* OnAccept and OnRequest supplied by the application (which may fail or
\* panic), or the defaults.
MCAppHooks == TRUE
MCDefaultHooks == FALSE

MCMaxAcceptErrors == 1

\* errc := make(chan error, 2) in OnConnectDefault.
MCErrcCap == 2
=============================================================================
