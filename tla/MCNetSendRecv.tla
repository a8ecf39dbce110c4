--------------------------- MODULE MCNetSendRecv ---------------------------
(* Constants for TLC: three packets, the middle one without contents; a      *)
(* behaviour with any fault, one with any but XOFF, one with a reconnection, *)
(* each with a socket that may refuse a write() and with one that blocks.    *)
EXTENDS NetSendRecv
PacketSizes == <<3, 0, 2>>
MCFaultSets == {FaultKinds \ without : without \in {{"blocking"}, {"eagain"}, {"blocking", "xoff"},
                                                    {"eagain", "xoff"}}}
               \cup {{"reconnect", "eagain"}, {"reconnect", "blocking"}}
MCXoffOnly == {{"stall", "xoff"}}
=============================================================================
