---------------------------- MODULE MCRAATStream ----------------------------
(***************************************************************************)
(* Two instances of the stream.                                            *)
(*                                                                         *)
(* MCRAATStream.cfg: a writer, a reader and one consumer over a timeline   *)
(* of three packets, the first two overlapping and a hole before the last, *)
(* with reads that start before, inside and after a packet.  The capacity  *)
(* holds two packets, so that overruns and late packets happen.            *)
(*                                                                         *)
(* MCRAATStreamConsumers.cfg: a writer and two consumers that share the    *)
(* condition variable, and no reader.                                      *)
(***************************************************************************)
EXTENDS RAATStream

P(s, n) == [start |-> s, len |-> n]

MCPackets == {P(0, 2), P(1, 2), P(4, 1)}
MCWindows == {P(0, 3), P(3, 2)}

TwoPackets == {P(0, 1), P(1, 2)}
NoWindows  == {}

=============================================================================
