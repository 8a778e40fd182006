--------------------------- MODULE MCSocks4Dialer ---------------------------
(* Model values for checking Socks4Dialer with TLC.                        *)
EXTENDS Socks4Dialer

\* One call, of either command.
MCCommands == {"CONNECT", "BIND"}

\* make(chan error, 1) in BindContext.
MCReadyChanCap == 1

\* Two replies: the first and the second BIND reply (a CONNECT proxy that
\* writes a second reply exercises a stray reply after the first).
MCMaxProxyReplies == 2
=============================================================================
