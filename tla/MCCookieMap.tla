---------------------------- MODULE MCCookieMap ----------------------------
(* CookieMap for TLC: sockets, pids and programs are model values. *)
EXTENDS CookieMap
=============================================================================
