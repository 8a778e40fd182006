---------------------------- MODULE MCSocks4Server ----------------------------
(* Instantiation of Socks4Server for TLC. *)
EXTENDS Socks4Server

CONSTANTS c1

MCConns == {c1}

MCMaxAcceptErrors == 1

\* errc := make(chan error, 2) in OnConnectDefault.
MCErrcCap == 2
=============================================================================
