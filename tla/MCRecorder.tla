------------------------------ MODULE MCRecorder ------------------------------
(* Small instance of Recorder: two times, that the rounding makes equal, and  *)
(* enough video packets for a config that changes between two media packets.  *)
EXTENDS Recorder

MCNoPts == -100
MCMaxPackets == [video |-> 3, audio |-> 2]
===============================================================================
