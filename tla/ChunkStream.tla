---------------------------- MODULE ChunkStream ----------------------------
(***************************************************************************)
(* What one connection of the ring promises: the packets handed to it are  *)
(* the whole stream of the files in order - for each file its file number  *)
(* packet and then its chunks 0, 1, ..., LastSeq - each exactly once and   *)
(* with its own bytes, and sooner or later all of them.  This module is    *)
(* the abstract specification; it says nothing of banks or threads.        *)
(***************************************************************************)
EXTENDS DataChunks

VARIABLE wire       \* the packets handed to the connection so far

Init == wire = <<>>
First == wire = <<>> /\ wire' = <<FilenoPacket(0)>>
Following ==
  /\ wire # <<>> /\ ~IsLast(wire[Len(wire)])
  /\ wire' = Append(wire, Successor(wire[Len(wire)]))
Next == First \/ Following

Spec == Init /\ [][Next]_wire /\ WF_wire(Next)
=============================================================================
