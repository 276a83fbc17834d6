----------------------------- MODULE MCConnection -----------------------------
(***************************************************************************)
(* Instances of Connection for TLC: a process with two callers, and the    *)
(* API, which imports isMessagingConnected and closeMessaging but never    *)
(* calls getChannel.                                                       *)
(***************************************************************************)
EXTENDS Connection

CONSTANTS c1, c2
===============================================================================
