---------------------------- MODULE NetSendRecv ----------------------------
(***************************************************************************)
(* One data connection at the level of bytes (src/Net.cpp): on one end the *)
(* loop of writenet() around NetSend::send_packet(), on the other the one  *)
(* of readnet() around NetRecv::recv_packet(), and between them the bytes  *)
(* in the socket buffers.  sending() and recving() are loops of select()   *)
(* and write() or read(), which move as many bytes as there is room or     *)
(* data for, watch the exception port when one is registered, and give up  *)
(* when select() times out.  write() itself has no timeout: sending()      *)
(* repeats it while it gives EAGAIN, and with the option -L (blocking) it  *)
(* comes back only when it has taken all it was given.                     *)
(*                                                                         *)
(* A packet is its header (a magic byte and a length byte here) and its    *)
(* contents; a byte is named by the packet and the place it is of.         *)
(***************************************************************************)
EXTENDS Integers, Sequences

CONSTANTS
  NoPackets,       \* packets to send
  Size,            \* Size[p]: bytes of the contents of packet p; may be 0
  SocketBuffer,    \* bytes the socket buffers of both ends hold
  MAX_XOFF_WAIT,   \* send attempts under XOFF             (10 in the source)
  MaxGarbage,      \* bound: the largest length a garbled header is taken for
  FaultSets        \* the sets of faults that behaviours may have; see FaultKinds

\* "halts": a machine stops, and its end stays open; "stall": one is slower than the
\* timeouts; "errors": a call gives r_ERROR; "blocking": dollyS runs with -L
FaultKinds == {"stall", "halts", "senderdies", "receiverdies", "errors", "eagain", "blocking",
               "reconnect", "xoff"}
Pack == 1 .. NoPackets
HeaderBytes == 2

ASSUME ConnectionAssumption ==
  /\ NoPackets \in Nat \ {0}
  /\ Size \in [Pack -> Nat]
  /\ SocketBuffer \in Nat \ {0} /\ MAX_XOFF_WAIT \in Nat \ {0} /\ MaxGarbage \in Nat
  /\ FaultSets \subseteq SUBSET FaultKinds

Byte == [pack : Pack, pos : Nat]
Bytes(p, from, to) == [i \in 1 .. to - from + 1 |-> [pack |-> p, pos |-> from + i - 1]]
Contents(p) == Bytes(p, HeaderBytes + 1, HeaderBytes + Size[p])

VARIABLES
  sender,      \* send_packet() and its caller: pc, packet, bytes of it sent, attempts
  receiver,    \* recv_packet() and its caller: pc, rest_bytes, bytes read, socket cleared
  wire,        \* the bytes between the ends
  peer,        \* the ends that are open: "sender", "receiver"
  halted,      \* the ends whose machine has stopped without closing them
  delivered,   \* the contents recv_packet() returned, packet after packet
  control,     \* a command at an exception port: "no", "xoff", "reconnect"
  writeNetXoff,
  faults       \* what may happen in this behaviour

vars == <<sender, receiver, wire, peer, halted, delivered, control, writeNetXoff, faults>>

ReadHeader == [pc |-> "header", rest |-> HeaderBytes, got |-> <<>>, cleared |-> FALSE]

Init ==
  /\ sender = [pc |-> "sending", pack |-> 1, sent |-> 0, retry |-> 0]
  /\ receiver = ReadHeader
  /\ wire = <<>> /\ peer = {"sender", "receiver"} /\ halted = {} /\ delivered = <<>>
  /\ control = "no" /\ writeNetXoff = FALSE /\ faults \in FaultSets

Running == sender.pc \in {"sending", "writing"} /\ "sender" \in peer \ halted
Reading == receiver.pc \in {"header", "contents"} /\ "receiver" \in peer \ halted
TooSlow(end) == "stall" \in faults \/ end \in halted

(***************************************************************************)
(* send_packet(): header and contents are written one after the other, and *)
(* nothing tells where one ended when the call gives up.                   *)
(***************************************************************************)
Room == SocketBuffer - Len(wire)
Length(p) == HeaderBytes + Size[p]
Rest == Length(sender.pack) - sender.sent
SmallerOf(a, b) == IF a < b THEN a ELSE b

NextPacket(p) == [pc |-> IF p = NoPackets THEN "done" ELSE "sending",
                  pack |-> IF p = NoPackets THEN p ELSE p + 1, sent |-> 0, retry |-> 0]

\* write() takes what there is room for.  On a blocking socket it takes all it was
\* given, the header or the contents, before sending() looks at anything else.
Write ==
  /\ Running /\ "receiver" \in peer
  /\ \E n \in 1 .. SmallerOf(Room, Rest) :
       /\ wire' = wire \o Bytes(sender.pack, sender.sent + 1, sender.sent + n)
       /\ IF n = Rest
          THEN sender' = NextPacket(sender.pack) /\ writeNetXoff' = FALSE
          ELSE /\ sender' = [sender EXCEPT !.sent = @ + n, !.pc = IF "blocking" \in faults
                               /\ sender.sent + n # HeaderBytes THEN "writing" ELSE "sending"]
               /\ UNCHANGED writeNetXoff
  /\ UNCHANGED <<receiver, peer, halted, delivered, control, faults>>

\* EAGAIN, although select() saw room: from here on write() alone is repeated
WriteRefused ==
  /\ Running /\ sender.pc = "sending" /\ "receiver" \in peer
  /\ "eagain" \in faults
  /\ sender' = [sender EXCEPT !.pc = "writing"]
  /\ UNCHANGED <<receiver, wire, peer, halted, delivered, control, writeNetXoff, faults>>

\* r_TIMEOUT: select() saw no room for SENDTIMEOUT, or the write failed because
\* the other end is gone.  Under XOFF the caller sends the packet again from its
\* start, and goes on with the next one after MAX_XOFF_WAIT attempts; otherwise
\* it turns to recover_sending().
SendLost_never == FALSE /\ UNCHANGED vars
SendLost ==
  /\ Running
  /\ "receiver" \notin peer \/ (sender.pc = "sending" /\ TooSlow("receiver") /\ Room = 0)
  /\ IF ~writeNetXoff THEN sender' = [sender EXCEPT !.pc = "lost"]
     ELSE IF sender.retry + 1 < MAX_XOFF_WAIT
          THEN sender' = [sender EXCEPT !.pc = "sending", !.sent = 0, !.retry = @ + 1]
          ELSE sender' = NextPacket(sender.pack)
  /\ UNCHANGED <<receiver, wire, peer, halted, delivered, control, writeNetXoff, faults>>

\* r_ERROR of select() or write(): the caller exits
SendFails ==
  /\ Running /\ "errors" \in faults
  /\ sender' = [sender EXCEPT !.pc = "error"] /\ peer' = peer \ {"sender"}
  /\ UNCHANGED <<receiver, wire, halted, delivered, control, writeNetXoff, faults>>

\* recover_sending() deletes the connection, and the end of the process closes it
SenderCloses ==
  /\ sender.pc \in {"lost", "done"} /\ "sender" \in peer
  /\ peer' = peer \ {"sender"}
  /\ UNCHANGED <<sender, receiver, wire, halted, delivered, control, writeNetXoff, faults>>

(***************************************************************************)
(* recv_packet()                                                           *)
(***************************************************************************)
\* recving() reads what there is, and never more than it waits for
Read ==
  /\ Reading /\ ~receiver.cleared /\ receiver.rest > 0
  /\ \E n \in 1 .. SmallerOf(Len(wire), receiver.rest) :
       /\ receiver' = [receiver EXCEPT !.rest = @ - n, !.got = @ \o SubSeq(wire, 1, n)]
       /\ wire' = SubSeq(wire, n + 1, Len(wire))
  /\ UNCHANGED <<sender, peer, halted, delivered, control, writeNetXoff, faults>>

\* A read of 0 bytes: the other end has closed.  The socket is taken out of the
\* set, so that recving() goes on waiting for the exception port alone.
ReadEof ==
  /\ Reading /\ ~receiver.cleared /\ receiver.rest > 0
  /\ wire = <<>> /\ "sender" \notin peer
  /\ receiver' = [receiver EXCEPT !.cleared = TRUE]
  /\ UNCHANGED <<sender, wire, peer, halted, delivered, control, writeNetXoff, faults>>

\* checkheader_make(): the magic must be there, and the length is what it is
Intact(header) == \E p \in Pack : header = Bytes(p, 1, HeaderBytes)
Lengths(header) ==
  IF Intact(header) THEN {Size[header[1].pack]}
  ELSE IF header[1].pos = 1 THEN 0 .. MaxGarbage ELSE {}

CheckHeader_short ==
  /\ Reading /\ receiver.pc = "header" /\ receiver.rest = 0
  /\ \/ /\ \E n \in Lengths(receiver.got) :
             receiver' = [receiver EXCEPT !.pc = "contents", !.got = <<>>,
                                          !.rest = IF n > 1 THEN n - 1 ELSE n]
        /\ peer' = peer
     \/ /\ Lengths(receiver.got) = {}
        /\ receiver' = [receiver EXCEPT !.pc = "error"] /\ peer' = peer \ {"receiver"}
  /\ UNCHANGED <<sender, wire, halted, delivered, control, writeNetXoff, faults>>
CheckHeader ==
  /\ Reading /\ receiver.pc = "header" /\ receiver.rest = 0
  /\ \/ /\ \E n \in Lengths(receiver.got) :
             receiver' = [receiver EXCEPT !.pc = "contents", !.got = <<>>, !.rest = n]
        /\ peer' = peer
     \/ /\ Lengths(receiver.got) = {}
        /\ receiver' = [receiver EXCEPT !.pc = "error"] /\ peer' = peer \ {"receiver"}
  /\ UNCHANGED <<sender, wire, halted, delivered, control, writeNetXoff, faults>>

\* SR_success; readnet() goes for the next packet
Return ==
  /\ Reading /\ receiver.pc = "contents" /\ receiver.rest = 0
  /\ delivered' = Append(delivered, receiver.got)
  /\ receiver' = IF Len(delivered') = NoPackets THEN [ReadHeader EXCEPT !.pc = "done"]
                 ELSE ReadHeader
  /\ UNCHANGED <<sender, wire, peer, halted, control, writeNetXoff, faults>>

\* r_TIMEOUT after RECVTIMEOUT without a byte; readnet() exits.  A command that
\* waits at the exception port makes select() return before.
RecvLost_never == FALSE /\ UNCHANGED vars
RecvLost ==
  /\ Reading /\ receiver.rest > 0 /\ control # "reconnect"
  /\ receiver.cleared \/ (TooSlow("sender") /\ wire = <<>>)
  /\ receiver' = [receiver EXCEPT !.pc = "lost"]
  /\ peer' = peer \ {"receiver"}
  /\ UNCHANGED <<sender, wire, halted, delivered, control, writeNetXoff, faults>>

\* r_ERROR of select() or read(); readnet() exits
RecvFails ==
  /\ Reading /\ receiver.rest > 0 /\ "errors" \in faults
  /\ receiver' = [receiver EXCEPT !.pc = "error"] /\ peer' = peer \ {"receiver"}
  /\ UNCHANGED <<sender, wire, halted, delivered, control, writeNetXoff, faults>>

(***************************************************************************)
(* The exception ports (bound: one command).  XOFF reaches the sender in   *)
(* send_packet().  A request to reconnect reaches the receiver inside      *)
(* recv_packet() and is thrown through it: the packet that was being       *)
(* received is forgotten, the connection closed, another accepted, and a   *)
(* host that has the packet sends it on the new connection from its start. *)
(***************************************************************************)
CommandArrives ==
  /\ control = "no"
  /\ \/ "xoff" \in faults /\ control' = "xoff" /\ Running
     \/ "reconnect" \in faults /\ control' = "reconnect"
  /\ UNCHANGED <<sender, receiver, wire, peer, halted, delivered, writeNetXoff, faults>>

Xoff ==
  /\ Running /\ sender.pc = "sending" /\ control = "xoff"
  /\ control' = "served" /\ writeNetXoff' = TRUE
  /\ UNCHANGED <<sender, receiver, wire, peer, halted, delivered, faults>>

Reconnect_resumes ==
  /\ Reading /\ receiver.rest > 0 /\ control = "reconnect"
  /\ control' = "served" /\ wire' = <<>> /\ peer' = {"sender", "receiver"} /\ halted' = {}
  /\ receiver' = [receiver EXCEPT !.cleared = FALSE]
  /\ sender' = [pc |-> "sending", pack |-> Len(delivered) + 1, sent |-> 0, retry |-> 0]
  /\ UNCHANGED <<delivered, writeNetXoff, faults>>
Reconnect ==
  /\ Reading /\ receiver.rest > 0 /\ control = "reconnect"
  /\ control' = "served" /\ wire' = <<>> /\ peer' = {"sender", "receiver"} /\ halted' = {}
  /\ receiver' = ReadHeader
  /\ sender' = [pc |-> "sending", pack |-> Len(delivered) + 1, sent |-> 0, retry |-> 0]
  /\ UNCHANGED <<delivered, writeNetXoff, faults>>

\* A process dies, and the kernel closes its end; a machine stops, and nobody does
Dies ==
  /\ \/ "senderdies" \in faults /\ Running /\ peer' = peer \ {"sender"}
     \/ "receiverdies" \in faults /\ Reading /\ peer' = peer \ {"receiver"}
  /\ UNCHANGED <<sender, receiver, wire, halted, delivered, control, writeNetXoff, faults>>
Halts ==
  /\ "halts" \in faults
  /\ \/ Running /\ halted' = halted \cup {"sender"}
     \/ Reading /\ halted' = halted \cup {"receiver"}
  /\ UNCHANGED <<sender, receiver, wire, peer, delivered, control, writeNetXoff, faults>>

\* write() waits for room in the socket of an end that has stopped
StuckWriting ==
  /\ sender.pc = "writing" /\ Room = 0
  /\ "receiver" \in peer \cap halted
SenderOver == ~Running
ReceiverOver == ~Reading
Over == (SenderOver \/ StuckWriting) /\ ReceiverOver /\ UNCHANGED vars

Send == Write \/ WriteRefused \/ SendLost \/ SenderCloses \/ Xoff
Receive == Read \/ ReadEof \/ CheckHeader \/ Return \/ RecvLost \/ Reconnect
Faults == CommandArrives \/ SendFails \/ RecvFails \/ Dies \/ Halts
Next == Send \/ Receive \/ Faults \/ Over

Spec == Init /\ [][Next]_vars
\* A process whose machine runs is scheduled, select() returns by its timeout, and a
\* repeated write() sees the room there is
FairSpec == Spec /\ WF_vars(Send) /\ WF_vars(Receive)

(***************************************************************************)
(* Properties                                                              *)
(***************************************************************************)
\* Types of the two loops: neither counts its rest below zero, and the socket
\* buffers never hold more than their size.
TypeOK ==
  /\ sender \in [pc : {"sending", "writing", "lost", "error", "done"}, pack : Pack, sent : Nat, retry : Nat]
  /\ sender.sent <= Length(sender.pack) /\ sender.retry < MAX_XOFF_WAIT
  /\ receiver \in [pc : {"header", "contents", "lost", "error", "done"}, rest : Nat,
                   got : Seq(Byte), cleared : BOOLEAN]
  /\ wire \in Seq(Byte) /\ Len(wire) <= SocketBuffer
  /\ peer \subseteq {"sender", "receiver"} /\ halted \subseteq {"sender", "receiver"}
  /\ delivered \in Seq(Seq(Byte))
  /\ control \in {"no", "xoff", "reconnect", "served"} /\ writeNetXoff \in BOOLEAN
  /\ faults \subseteq FaultKinds

\* What recv_packet() returns is packet after packet as it was sent, whole and
\* with no other byte in it, however writes and reads are cut (sending(),
\* recving()), whichever end dies, and also when a reconnection falls into the
\* middle of a packet.  The retry under XOFF is another matter, see below.
DeliveredIntact ==
  "xoff" \notin faults => \A i \in DOMAIN delivered : delivered[i] = Contents(i)

\* Every call comes back: send_packet() and recv_packet() do not hang, whichever
\* end dies, stalls or stops (the timeouts of select(), the read of 0 bytes) - with one
\* exception, a write() that waits for room while the other machine has stopped
\* without closing: neither the retry of EAGAIN (Net.cpp:991-994) nor a blocking
\* socket (-L) has a timeout.
CallsReturn == <>((SenderOver \/ StuckWriting) /\ ReceiverOver)

\* As long as no end dies and nothing stalls, everything arrives, also when a
\* reconnection throws away what was on the connection and half a packet, when
\* write() has to be repeated and when it blocks.
EverythingArrives ==
  faults \subseteq {"reconnect", "eagain", "blocking"} => <>(Len(delivered) = NoPackets)

\* Claim of ServThread.cpp:424 and :460, "retry sending": the retry under XOFF
\* sends a packet again: whatever arrives is one of the packets that were sent.
RetrySendsThePacket ==
  \A i \in DOMAIN delivered : \E p \in Pack : delivered[i] = Contents(p)
=============================================================================
