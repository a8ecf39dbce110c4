------------------------------- MODULE Chain -------------------------------
(***************************************************************************)
(* Three hosts: dollyS (ServThread), a node in the middle, and the last    *)
(* node (ClntThread), with the connections between them as queues of       *)
(* packets.  Each program's environment is now the other programs.  The    *)
(* middle node forwards what it gets, which is what ForwardsTheStream of   *)
(* ClntThread says of it; here it is a queue, the packets in its banks and *)
(* in the sockets to both sides.  Its machine may go down.  Then the server*)
(* bypasses it: it asks the last node at its control port which chunk it   *)
(* waits for, and sends to it directly from there on.                      *)
(***************************************************************************)
EXTENDS DataChunks

CONSTANTS
  NO_BANK, NO_BIND, MAX_XOFF_WAIT,   \* as in ServThread and ClntThread
  CHECKTRAILER,   \* as there: 0 is what it returns in the source, 1 what is expected of it
  SocketSpace,    \* packets a connection holds that nobody reads
  RelaySpace,     \* packets the middle node and the socket behind it hold
  MaxLag,         \* how far the last node can be behind, for ServThread
  MayCrash        \* the machine in the middle may go down

ASSUME ChainAssumption ==
  /\ SocketSpace \in Nat \ {0} /\ RelaySpace \in Nat \ {0}
  /\ MayCrash \in BOOLEAN
  /\ NO_BIND \in Nat /\ NO_BANK \in Nat /\ NO_BANK >= 2 * NO_BIND + 1
  /\ MAX_XOFF_WAIT \in Nat \ {0} /\ MaxLag \in Nat
  /\ CHECKTRAILER \in (SUBSET {0, 1}) \ {{}}

VARIABLES
  \* dollyS: the variables of ServThread
  sBuffer, sWriteNet, sReadDisk, sBindTwo, sReader, sWriter, sOut, sCntlOut,
  sHostFlag, sHostIte, sXoff, sLastStop, sMain, sExited, sPeer,
  \* the last dollyC: the variables of ClntThread
  cBuffer, cWriteDisk, cReadNet, cWriteNet, cBindTwo, cLast, cReader, cWriter,
  cDisk, cIn, cOut, cBehind, cRepout, cXoff, cReconnect, cFiles, cStopped, cExited,
  \* the connections
  up,         \* the machine in the middle is running
  relay,      \* packets in the middle node and on the way to the last one
  direct,     \* the server is connected to the last node
  taken       \* packets of the server's connection that its peer has taken

server == <<sBuffer, sWriteNet, sReadDisk, sBindTwo, sReader, sWriter, sOut, sCntlOut,
            sHostFlag, sHostIte, sXoff, sLastStop, sMain, sExited, sPeer>>
client == <<cBuffer, cWriteDisk, cReadNet, cWriteNet, cBindTwo, cLast, cReader, cWriter,
            cDisk, cIn, cOut, cBehind, cRepout, cXoff, cReconnect, cFiles, cStopped, cExited>>
links == <<up, relay, direct, taken>>
vars == <<server, client, links>>

\* the modules with the theorems, so that ChainProofs can cite them
S == INSTANCE ServThreadProofs WITH
  flag_bind <- TRUE, NoHosts <- 2, Faults <- {"lost", "refused"},
  dataBuffer <- sBuffer, semWriteNet <- sWriteNet, semReadDisk <- sReadDisk,
  semBindTwo <- sBindTwo, readdisk <- sReader, writenet <- sWriter, dataout <- sOut,
  cntlOut <- sCntlOut, hostFlag <- sHostFlag, hostIte <- sHostIte, writeNetXoff <- sXoff,
  last_stop <- sLastStop, mainPc <- sMain, exited <- sExited, peer <- sPeer

C == INSTANCE ClntThreadProofs WITH
  flag_bind <- TRUE, Roles <- {"last"}, MaxBehind <- 0, SEARCH_FLAG <- {1},
  GET_NAME_LEN <- {1}, Faults <- {"inlost", "reconnect", "bind", "refused"},
  dataBuffer <- cBuffer, semWriteDisk <- cWriteDisk, semReadNet <- cReadNet,
  semWriteNet <- cWriteNet, semBindTwo <- cBindTwo, isNextServer <- cLast,
  readnet <- cReader, writenet <- cWriter, writedisk <- cDisk, datain <- cIn,
  dataout <- cOut, behind <- cBehind, repout <- cRepout, writeNetXoff <- cXoff,
  reconnect <- cReconnect, disk <- cFiles, stopped <- cStopped, exited <- cExited

Init ==
  /\ S!Init /\ sHostFlag[2] = "AVAIL"
  /\ C!Init
  /\ up = TRUE /\ relay = <<>> /\ direct = FALSE /\ taken = 0

(***************************************************************************)
(* The connections                                                         *)
(***************************************************************************)
Unread == Len(sOut.wire) - taken
PeerGone == IF direct THEN C!Ended ELSE ~up
\* what the last node finds on its connection
Incoming == IF direct THEN SubSeq(sOut.wire, taken + 1, Len(sOut.wire)) ELSE relay
Consume == IF direct THEN taken' = taken + 1 /\ relay' = relay
           ELSE relay' = Tail(relay) /\ taken' = taken

RelayTakes ==
  /\ up /\ ~direct /\ Unread > 0 /\ Len(relay) < RelaySpace
  /\ relay' = Append(relay, sOut.wire[taken + 1]) /\ taken' = taken + 1
  /\ UNCHANGED <<server, client, up, direct>>

\* The machine goes down, or its dollyC refuses a file number packet and ends.  What
\* has already reached the last node's socket stays there.
Crash ==
  /\ up /\ (MayCrash \/ 0 \in CHECKTRAILER)
  /\ up' = FALSE
  /\ \E k \in 0 .. Len(relay) : relay' = SubSeq(relay, 1, k)
  /\ UNCHANGED <<server, client, direct, taken>>

(***************************************************************************)
(* dollyS.  A send blocks while the connection is full, and is lost only if*)
(* the peer is gone.                                                       *)
(***************************************************************************)
ServerThreads ==
  /\ S!ReadDisk \/ S!Join \/ S!Poll
  /\ UNCHANGED <<client, links>>

ServerSends ==
  /\ S!WriteStart \/ S!WaitRdiskDone \/ S!SetWnetDone \/ S!SetBindTwoGo
     \/ S!SendFileno \/ S!SendData \/ S!RecoverCheck \/ S!RecoverSend
  /\ sOut'.wire # sOut.wire => Unread < SocketSpace
  /\ sWriter'.pc = "rec_host" \/ sExited' = "double" => PeerGone
  /\ UNCHANGED <<client, links>>

ServerBypasses ==
  \/ S!RecoverHost /\ taken' = 0 /\ UNCHANGED <<client, up, relay, direct>>
  \/ S!RecoverConnect /\ sOut'.open /\ C!Accepted /\ direct' = TRUE /\ UNCHANGED <<up, relay, taken>>
  \/ S!RecoverConnect /\ ~sOut'.open /\ C!Ended /\ UNCHANGED <<client, links>>

(***************************************************************************)
(* The control connection.  The last node answers from a receive; if that  *)
(* was the receive of a file number packet it ends, and with it what the   *)
(* server does next, whatever number the answer had.  Either program may   *)
(* refuse what the other sends there (CHECKTRAILER).                       *)
(***************************************************************************)
ServerAsks ==
  /\ sWriter.pc = "rec_ack" /\ ~S!Ended
  /\ cReader.pc # "start" /\ C!ReconnectArrives
  /\ UNCHANGED <<server, links>>

ClientAnswers ==
  /\ S!RecoverAck
  /\ \/ /\ C!Reconnects /\ sExited' # "control"
        /\ cReader.pc # "recv_fileno" /\ sPeer'.waits = C!Expected
     \/ /\ C!Reconnects /\ sExited' = "control"
        /\ cReader.pc = "recv_fileno" \/ 0 \in CHECKTRAILER
     \/ C!ReconnectFails /\ sExited' = "control"
  /\ relay' = <<>> /\ UNCHANGED <<up, direct, taken>>

\* The last node is gone, or has not opened its control port yet
NobodyAnswers ==
  /\ C!Ended \/ cReader.pc = "start"
  /\ S!RecoverAck /\ sExited' = "control"
  /\ UNCHANGED <<client, links>>

(***************************************************************************)
(* The last dollyC                                                         *)
(***************************************************************************)
ClientThreads ==
  /\ C!ReadBanks \/ C!WriteNet \/ C!WriteDisk \/ C!RecvFail
  /\ cExited' = "report" => S!Ended                  \* nobody at the control port
  /\ cStopped' # cStopped => ~S!Ended
  /\ UNCHANGED <<server, links>>

ClientReceives ==
  /\ Incoming # <<>>
  /\ LET packet == Head(Incoming)
     IN \/ C!RecvHeader(packet) /\ UNCHANGED links
        \/ C!RecvFileno(packet) /\ Consume /\ UNCHANGED <<up, direct>>
        \/ C!RecvBody(packet) /\ Consume /\ UNCHANGED <<up, direct>>
        \/ C!RefusePacket(packet) /\ UNCHANGED links
        \/ C!TrailerFails /\ C!Fits(packet) /\ UNCHANGED links
  /\ UNCHANGED server

\* The connection has been read to its end, and nobody writes to it any more
ClientSeesEnd ==
  /\ Incoming = <<>>
  /\ \/ ~direct /\ ~up
     \/ S!Ended /\ Unread = 0
  /\ C!ConnectionLost
  /\ UNCHANGED <<server, links>>

\* The last node was asked to reconnect and cannot open its data port again
AcceptFails == C!AcceptFails /\ UNCHANGED <<server, links>>

ClientOver == C!Ended \/ cReader.pc = "accept"
Over == S!Ended /\ ClientOver /\ UNCHANGED vars

Server == ServerThreads \/ ServerSends \/ ServerBypasses
Control == ServerAsks \/ ClientAnswers \/ NobodyAnswers
Client == ClientThreads \/ ClientReceives \/ ClientSeesEnd \/ AcceptFails
Next == Server \/ Control \/ Client \/ RelayTakes \/ Crash \/ Over

Spec == Init /\ [][Next]_vars
\* As in the parts: every thread is scheduled, and so is the node in the middle
FairSpec ==
  /\ Spec
  /\ WF_vars(ServerThreads) /\ WF_vars(ServerSends \/ ServerBypasses \/ Control)
  /\ WF_vars(ClientReceives \/ ClientSeesEnd) /\ WF_vars(ClientThreads)
  /\ WF_vars(RelayTakes)

(***************************************************************************)
(* Properties                                                              *)
(***************************************************************************)
DiskIsPrefix == C!DiskIsPrefix

\* What a recovery needs to put the stream together again, and does not check when it
\* sends: the last node waits for a chunk of the server's file, and the bank that had
\* it still has it.  readdisk() may fill it between the check and the resend.
Whole ==
  sPeer # S!Nobody =>
    sPeer.waits.fileno = sPeer.hand.fileno /\ ~S!Overwritten(sPeer.waits)

\* Whichever moment the machine in the middle chooses to go down, the last node's disk
\* is a prefix of the stream as long as that bank is not filled again: the window that
\* recover_sending() of ServThread.cpp sends again and the chunk that the catch clause
\* of readnet() (ClntThread.cpp:145-157) goes on with fit together.
WholeStaysPrefix == Whole => DiskIsPrefix

\* A bypass that comes so far that the server is connected to the last node completes
\* the copy (recover_sending() "Return from recover_sending."), if the bank the node
\* waits for is still there, or ends at the next file number packet, when
\* checktrailer() returns 0 for it (Net.cpp:757).
BypassCompletes == direct ~> (Len(cFiles) = C!Total \/ cExited = "trailer" \/ ~Whole)

\* Whatever happens, both programs end, but for a last node the server asked to
\* reconnect and then left in accept(), which has no timeout.  If the last node is the
\* first to refuse a file number packet, the middle one's own recovery decides how the
\* ring goes on (EndsUnlessCut of ClntThread), which is a queue here.
EveryoneEnds == <>((S!Ended /\ ClientOver) \/ (up /\ cExited = "trailer"))

\* A last node that says it is finished, or tries to, has got as many chunks as
\* there are, also when the bypass has mixed up two files.
FinishedHasAll == cStopped \/ cExited = "report" \/ cDisk.pc = "done" => Len(cFiles) = C!Total

\* Unless the machine in the middle goes down, or the last node refuses a file number
\* packet as it does in the source, the stream gets to the disk at the other end.
CopyArrives == <>(~up \/ Len(cFiles) = C!Total \/ cExited = "trailer")

\* Claim of Server.cpp:18, last_stop is "a flag show that the last node is
\* finished": when data_transfer() of the server has seen it and returns, the last
\* node has written everything.
LastStopMeansFinished == sMain = "done" => Len(cFiles) = C!Total
=============================================================================
