-------------------------- MODULE MCTcpConnection ---------------------------
(* Messages of two bytes and a send buffer of two: writes are short, blocked *)
(* or complete.                                                              *)
EXTENDS TcpConnection, TLC

MessageSymmetry == Permutations(Message) \union Permutations(Thread)
=============================================================================
