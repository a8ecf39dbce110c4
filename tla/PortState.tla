------------------------------ MODULE PortState ------------------------------
(***************************************************************************)
(* The descriptors of a node, the threads that use them and the askers at  *)
(* its control port: the state of CntlPort, and what serving a request must*)
(* not break there.                                                        *)
(***************************************************************************)
EXTENDS Integers

CONSTANTS
  Askers,          \* programs that send a request to the control port (dolly ping)
  LastFd,          \* bound: descriptors the process has left for these three uses
  Transfers,       \* the transfers to look at: the kinds of files copied, "plain" or
                   \*   "archive" (unpacked by a forked filter), and whether a file may
                   \*   end at any time, also while a request is served
  Quitters,        \* the askers that may be interrupted once they have connected
  CHECKTRAILER     \* what CmdPacket::checktrailer() may return for a request that arrived
                   \*   whole: 0 is what the source returns, 1 what its caller takes for OK

ASSUME PortAssumption ==
  /\ LastFd \in Nat /\ LastFd >= 3
  /\ Transfers \subseteq [kinds : (SUBSET {"plain", "archive"}) \ {{}}, anyTime : BOOLEAN]
  /\ Transfers # {} /\ Quitters \subseteq Askers
  /\ CHECKTRAILER \in (SUBSET {0, 1}) \ {{}}

VARIABLES
  transfer,  \* the one of Transfers that runs
  fd,        \* descriptor -> what it is: "free", "port", "conn", "file", "pipe"
  net,       \* the thread in send_packet() or recv_packet(): its pc, exp_sock,
             \*   whether the call is complete, and the asker accepted
  port,      \* cntlin: sockDesc and accptSock
  file,      \* aFD of the file the disk thread has open
  heirs,     \* filters that hold the listening socket too: that of the open file
             \*   (now), one of an earlier file that still unpacks (late)
  backlog,   \* connections the kernel holds for the listening socket
  asker,     \* what each asker has got: "idle", "asked", "acked", "reset", "refused", "quit"
  exited     \* the call of exit() that ended the node, or "no"

(***************************************************************************)
(* Properties                                                              *)
(***************************************************************************)
\* No descriptor changes hands while a request waits or is served
Undisturbed == ~transfer.anyTime /\ transfer.kinds = {"plain"}

\* As long as no file ends while a request is served and none goes through a filter,
\* the exp_sock a call waits with is the control socket that exists, although
\* exception_reciever() has replaced it in the middle of the call (Net.cpp:1006,
\* ClntThread.cpp:297-300).
ExpSockIsPort == Undisturbed /\ net.pc = "select" => net.exp = port.sock

\* Claim of Net.h:59-61, "if you regist 'exception port', it will respond (call
\* 'function') the registered port access as well": serving the control port never
\* ends the node, unless the asker leaves before it has sent its request
\* (ClntThread.cpp:234, exit(1)).
SomeoneQuit == \E a \in Askers : asker[a] = "quit"
ServingIsHarmless == exited = "no" \/ SomeoneQuit

\* In an undisturbed transfer nothing but the request itself ends the node: it does
\* not arrive (the asker is gone) or is refused (checktrailer() returned 0,
\* Packet.h:140, Net.cpp:757, ClntThread.cpp:234-240).  However many requests come and
\* wherever they meet the call, there is always a connection to accept, a descriptor
\* for it and one for the new socket, and select() waits with a socket that exists
\* (Net.cpp:996-1018, ClntThread.cpp:224-300).
OnlyRequestsEnd ==
  Undisturbed => \/ exited = "no"
                 \/ exited = "command" /\ (0 \in CHECKTRAILER \/ SomeoneQuit)
=============================================================================
