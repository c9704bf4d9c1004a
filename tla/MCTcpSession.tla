---------------------------- MODULE MCTcpSession ----------------------------
(* The instance of TcpSession for TLC.                                       *)
EXTENDS TcpSession
=============================================================================
