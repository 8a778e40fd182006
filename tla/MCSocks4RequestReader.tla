----------------------- MODULE MCSocks4RequestReader -----------------------
(* Instantiation of Socks4RequestReader for TLC: bounds of two bytes and a *)
(* buffer as large as a bound, as DefaultMaxUserIDLen, DefaultMaxDomainLen *)
(* and the pooled buffer are all 256.                                      *)
EXTENDS Socks4RequestReader

MCMaxUserIDLen == 2
MCMaxDomainLen == 2
MCBufSize == 2
MCMaxTrailing == 1
=============================================================================
