----------------------------- MODULE ClntThread -----------------------------
(***************************************************************************)
(* The data transfer of dollyC (src/ClntThread.cpp).  Three threads share  *)
(* a ring of NO_BANK buffers: readnet() receives the chunks, writenet()    *)
(* forwards each to the next host, writedisk() writes it to the local      *)
(* file.  A bank goes round them by three counting semaphores; the last    *)
(* node of the ring (isNextServer) has no writenet(), and its writedisk()  *)
(* takes the banks from readnet().                                         *)
(*                                                                         *)
(* The hosts on both sides are the environment: whether the connection of  *)
(* the previous host is lost, whether another host asks to reconnect, what *)
(* a send to the next host returns.                                        *)
(***************************************************************************)
EXTENDS DataChunks

CONSTANTS
  NO_BANK,        \* banks of the ring                    (21 in the source)
  NO_BIND,        \* intended readnet/writenet distance   (10 in the source)
  MAX_XOFF_WAIT,  \* send attempts under XOFF             (10 in the source)
  flag_bind,      \* the bind semaphores are used (dollyC -B turns them off)
  Roles,          \* what this node may start as: "middle", "last"
  MaxBehind,      \* bound: hosts of the list that come after the next one
  \* the values that three helpers of Packet.h and Packet.cpp may return when all is
  \* well: 0 is what they return in the source, 1 what their comments and callers expect
  CHECKTRAILER,   \* FileNoPacket::checktrailer(), CmdPacket::checktrailer()
  SEARCH_FLAG,    \* PacketIte::search_flag()
  GET_NAME_LEN,   \* PacketIte::get_name_len(); with 0 all host names are ""
  Faults          \* what the environment may do; see FaultKinds

FaultKinds == {"disk", "inlost", "reconnect", "bind", "lost", "error", "refused", "xoff", "badcmd"}

ASSUME RingAssumption ==
  /\ NO_BIND \in Nat
  /\ NO_BANK \in Nat /\ NO_BANK >= 2 * NO_BIND + 1
  /\ MAX_XOFF_WAIT \in Nat \ {0}
  /\ flag_bind \in BOOLEAN
ASSUME NetAssumption ==
  /\ {CHECKTRAILER, SEARCH_FLAG, GET_NAME_LEN} \subseteq (SUBSET {0, 1}) \ {{}}
  /\ MaxBehind \in Nat
  /\ Faults \subseteq FaultKinds
\* Without names a node cannot have connected to the server as its next host
ASSUME RoleAssumption ==
  Roles \subseteq {"middle", "last"} /\ ("last" \in Roles => 1 \in GET_NAME_LEN)

Bank == 0 .. NO_BANK - 1
NextBank_noWrap(b) == b + 1
NextBank(b) == (b + 1) % NO_BANK
BindBank(b) == (b - NO_BIND + NO_BANK) % NO_BANK

VARIABLES
  dataBuffer,     \* the banks
  semWriteDisk, semReadNet, semWriteNet, semBindTwo,     \* one semaphore per bank
  isNextServer,   \* this node is the last of the ring
  readnet,        \* readnet(): pc, bankno, fileno, seqno, is_1st_bankround
  writenet,       \* writenet() and recover_sending(): pc and locals
  writedisk,      \* writedisk(), the main thread: pc, bankno, entry of fileIte
  datain,         \* connection from the previous host: lost, exception registered
  dataout,        \* connection to the next one: open, exception, packets sent
  behind,         \* AVAIL_HOST entries of the host list after the next host
  repout,         \* the control connection to the server exists
  writeNetXoff,
  reconnect,      \* TYPE_RECONNECT at the control port: "no", "pending", "served"
  disk,           \* chunks written to the files, in order
  stopped,        \* TYPE_STOP was sent to the server
  exited          \* "no", or why the process ended before data_transfer() returned

semaphores == <<semWriteDisk, semReadNet, semWriteNet, semBindTwo>>
readVars == <<readnet, datain, reconnect>>
writeVars == <<writenet, dataout, behind, repout, writeNetXoff, isNextServer>>
diskVars == <<writedisk, disk, stopped>>
vars == <<dataBuffer, semaphores, readVars, writeVars, diskVars, exited>>

\* Operators named X_y are plausible slips in X, kept to see which property notices
\* them; no specification uses one.
InitiallyReady_twice == 2
InitiallyReady == 1                     \* "initial 'ready'"

Init ==
  /\ dataBuffer = [b \in Bank |-> [fileno |-> 0, seqno |-> 0, eof |-> "NORMAL", body |-> Torn]]
  /\ semWriteDisk = [b \in Bank |-> InitiallyReady]
  /\ semReadNet = [b \in Bank |-> 0]
  /\ semWriteNet = [b \in Bank |-> 0]
  /\ semBindTwo = [b \in Bank |-> 0]
  /\ isNextServer \in {r = "last" : r \in Roles}
  /\ behind \in (IF isNextServer THEN {0} ELSE 0 .. MaxBehind)
  /\ readnet = [pc |-> "start", bankno |-> 0, fileno |-> 0, seqno |-> 0, first |-> TRUE]
  /\ writenet = [pc |-> "start", bankno |-> 0, retry |-> 0, eof |-> "NORMAL", ret |-> "release"]
  /\ writedisk = [pc |-> "open", bankno |-> 0, fileno |-> 0]
  /\ datain = [lost |-> FALSE, exception |-> FALSE]
  /\ dataout = [open |-> TRUE, exception |-> FALSE, wire |-> <<>>]
  /\ repout = FALSE /\ writeNetXoff = FALSE /\ reconnect = "no"
  /\ disk = <<>> /\ stopped = FALSE /\ exited = "no"

\* the process is over: main() returned, or a thread ended it
Ended == writedisk.pc = "done" \/ exited # "no"

(***************************************************************************)
(* The previous host: its connection breaks, and the host before it asks   *)
(* this node to reconnect.  Bound: one reconnection.                       *)
(***************************************************************************)
ConnectionLost ==
  /\ ~Ended /\ "inlost" \in Faults /\ ~datain.lost /\ readnet.pc # "accept"
  /\ datain' = [datain EXCEPT !.lost = TRUE]
  /\ UNCHANGED <<dataBuffer, semaphores, readnet, reconnect, writeVars, diskVars, exited>>
ReconnectArrives ==
  /\ ~Ended /\ "reconnect" \in Faults /\ reconnect = "no"
  /\ reconnect' = "pending"
  /\ UNCHANGED <<dataBuffer, semaphores, readnet, datain, writeVars, diskVars, exited>>

(***************************************************************************)
(* readnet()                                                               *)
(***************************************************************************)
ReadAt(pc) == ~Ended /\ readnet.pc = pc
ReadGoto(pc) == readnet' = [readnet EXCEPT !.pc = pc]
ReadUnchanged == UNCHANGED <<writeVars, diskVars>>

ReadStart ==
  /\ ReadAt("start") /\ ReadGoto("recv_fileno")
  /\ datain' = [datain EXCEPT !.exception = isNextServer]
  /\ UNCHANGED <<dataBuffer, semaphores, reconnect, exited>> /\ ReadUnchanged

\* What comes is a parameter: what the host before sends is its own affair.
RecvFileno(packet) ==
  /\ ReadAt("recv_fileno") /\ ~datain.lost /\ 1 \in CHECKTRAILER
  /\ packet.kind = "fileno" /\ packet.chunk.fileno = readnet.fileno
  /\ readnet' = [readnet EXCEPT !.pc = "wait_wdisk", !.seqno = 0]
  /\ UNCHANGED <<dataBuffer, semaphores, datain, reconnect, exited>> /\ ReadUnchanged

\* isNextServer is read here and not again while the thread waits in wait_bindtwo_go()
WaitWdiskDone ==
  /\ ReadAt("wait_wdisk") /\ semWriteDisk[readnet.bankno] > 0
  /\ semWriteDisk' = [semWriteDisk EXCEPT ![readnet.bankno] = @ - 1]
  /\ ReadGoto(IF flag_bind /\ ~readnet.first /\ ~isNextServer THEN "wait_bind" ELSE "recv_header")
  /\ UNCHANGED <<dataBuffer, semReadNet, semWriteNet, semBindTwo, datain, reconnect, exited>>
  /\ ReadUnchanged

WaitBindTwo ==
  /\ ReadAt("wait_bind") /\ semBindTwo[BindBank(readnet.bankno)] > 0
  /\ semBindTwo' = [semBindTwo EXCEPT ![BindBank(readnet.bankno)] = @ - 1]
  /\ ReadGoto("recv_header")
  /\ UNCHANGED <<dataBuffer, semWriteDisk, semReadNet, semWriteNet, datain, reconnect, exited>>
  /\ ReadUnchanged

Expected == Chunk(readnet.fileno, readnet.seqno)
AtEof(packet) == MarkOf(packet.chunk) # "NORMAL"

\* The header of the packet goes straight into the bank (checkheader_make()),
\* and from then on the bytes are neither the old chunk's nor the new one's.
RecvHeader_unlocks(packet) ==
  /\ ReadAt("recv_header") /\ ~datain.lost /\ packet.kind = "data"
  /\ dataBuffer' = [dataBuffer EXCEPT ![readnet.bankno] =
       [fileno |-> readnet.fileno, seqno |-> packet.chunk.seqno, body |-> Torn,
        eof |-> IF AtEof(packet) THEN "EOF" ELSE "NORMAL"]]
  /\ semReadNet' = [semReadNet EXCEPT ![readnet.bankno] = @ + 1]
  /\ ReadGoto("recv_body")
  /\ UNCHANGED <<semWriteDisk, semWriteNet, semBindTwo, datain, reconnect, exited>>
  /\ ReadUnchanged
RecvHeader(packet) ==
  /\ ReadAt("recv_header") /\ ~datain.lost /\ packet.kind = "data"
  /\ dataBuffer' = [dataBuffer EXCEPT ![readnet.bankno] =
       [fileno |-> readnet.fileno, seqno |-> packet.chunk.seqno, body |-> Torn,
        eof |-> IF AtEof(packet) THEN "EOF" ELSE "NORMAL"]]
  /\ ReadGoto("recv_body")
  /\ UNCHANGED <<semaphores, datain, reconnect, exited>> /\ ReadUnchanged

FinalFile_early == readnet.fileno + 2 >= NoFiles
FinalFile == readnet.fileno + 1 = NoFiles

\* The mark of the last file is set before the bank is handed over; bankno and
\* is_1st_bankround are the thread's own and advance in the same step.
RecvBody(packet) ==
  LET b == readnet.bankno
      eof == dataBuffer[b].eof # "NORMAL"
  IN /\ ReadAt("recv_body") /\ ~datain.lost /\ dataBuffer[b].seqno = readnet.seqno
     /\ dataBuffer' = [dataBuffer EXCEPT ![b].body = packet.body,
                      ![b].eof = IF eof /\ FinalFile THEN "FINAL_EOF" ELSE @]
     /\ semReadNet' = [semReadNet EXCEPT ![b] = @ + 1]
     /\ readnet' = [bankno |-> NextBank(b), first |-> readnet.first /\ NextBank(b) # 0,
                    pc |-> IF ~eof THEN "wait_wdisk"
                           ELSE IF FinalFile THEN "done" ELSE "recv_fileno",
                    fileno |-> IF eof /\ ~FinalFile THEN readnet.fileno + 1 ELSE readnet.fileno,
                    seqno |-> IF eof THEN 0 ELSE readnet.seqno + 1]
     /\ UNCHANGED <<semWriteDisk, semWriteNet, semBindTwo, datain, reconnect, exited>>
     /\ ReadUnchanged

\* The packet is of another kind, of another file than the next (file number
\* packets name theirs) or has another seqno (only data packets have one).
\* Here the host before makes no such mistake; Chain uses this action.
Receiving == ReadAt("recv_fileno") \/ ReadAt("recv_header") \/ ReadAt("recv_body")
Fits(packet) ==
  CASE readnet.pc = "recv_fileno" -> packet = FilenoPacket(readnet.fileno)
    [] readnet.pc = "recv_header" -> packet.kind = "data"
    [] readnet.pc = "recv_body" -> dataBuffer[readnet.bankno].seqno = readnet.seqno
RefusePacket(packet) ==
  /\ Receiving /\ ~datain.lost /\ ~Fits(packet)
  /\ exited' = "packet"
  /\ UNCHANGED <<dataBuffer, semaphores, readVars>> /\ ReadUnchanged

\* The file number packet has come, and checktrailer() finds fault with it
TrailerFails ==
  /\ ReadAt("recv_fileno") /\ ~datain.lost /\ 0 \in CHECKTRAILER
  /\ exited' = "trailer"
  /\ UNCHANGED <<dataBuffer, semaphores, readVars>> /\ ReadUnchanged

\* Nothing comes any more: after the timeout the process exits.  While a control
\* packet waits at a registered port, select() returns for it and never times out.
RecvFail ==
  /\ Receiving /\ datain.lost /\ ~(datain.exception /\ reconnect = "pending")
  /\ exited' = "receive"
  /\ UNCHANGED <<dataBuffer, semaphores, readVars>> /\ ReadUnchanged

\* exception_reciever() answers with the number of the chunk being received and
\* throws.  The catch clause closes the connection and waits in open_accept() for
\* another.  Receiving a file number packet is outside the try block.
Requested == Receiving /\ datain.exception /\ reconnect = "pending"
Reconnects ==
  /\ Requested /\ 1 \in CHECKTRAILER
  /\ IF readnet.pc = "recv_fileno"
     THEN exited' = "terminate" /\ UNCHANGED <<readnet, datain, reconnect>>
     ELSE /\ ReadGoto("accept") /\ reconnect' = "served" /\ exited' = exited
          /\ datain' = [lost |-> FALSE, exception |-> FALSE]
  /\ UNCHANGED <<dataBuffer, semaphores>> /\ ReadUnchanged

\* the request is not received, or the answer not sent
ReconnectFails ==
  /\ Requested /\ (0 \in CHECKTRAILER \/ "error" \in Faults)
  /\ exited' = "exception"
  /\ UNCHANGED <<dataBuffer, semaphores, readVars>> /\ ReadUnchanged

\* Somebody connects, sooner or later or never: accept() has no timeout.  The packet is
\* received from its start into the same bank, on a connection without exception port.
Accepted ==
  /\ ReadAt("accept") /\ ReadGoto("recv_header")
  /\ UNCHANGED <<dataBuffer, semaphores, datain, reconnect, exited>> /\ ReadUnchanged

\* the data port cannot be opened again, or accept() returns an error
AcceptFails ==
  /\ ReadAt("accept") /\ "bind" \in Faults
  /\ exited' = "accept"
  /\ UNCHANGED <<dataBuffer, semaphores, readVars>> /\ ReadUnchanged

Receive(fileno, data) == RecvFileno(fileno) \/ RecvHeader(data) \/ RecvBody(data)
ReadBanks == ReadStart \/ WaitWdiskDone \/ WaitBindTwo
ReadNet == \/ ReadBanks \/ Receive(FilenoPacket(readnet.fileno), ChunkPacket(Expected))
           \/ TrailerFails \/ RecvFail \/ Reconnects \/ ReconnectFails

Upstream == ConnectionLost \/ ReconnectArrives \/ Accepted \/ AcceptFails

(***************************************************************************)
(* writenet()                                                              *)
(***************************************************************************)
Hand == dataBuffer[writenet.bankno]     \* the bank writenet() works on
WriteAt(pc) == ~Ended /\ writenet.pc = pc
WriteGoto(pc) == writenet' = [writenet EXCEPT !.pc = pc]
WriteUnchanged == UNCHANGED <<dataBuffer, readVars, diskVars>>
ListUnchanged == UNCHANGED <<behind, repout, isNextServer>>

WriteStart ==
  /\ WriteAt("start")
  /\ WriteGoto(IF isNextServer THEN "done" ELSE "wait_rnet")
  /\ dataout' = [dataout EXCEPT !.exception = ~isNextServer]
  /\ UNCHANGED <<semaphores, writeNetXoff, exited>> /\ ListUnchanged /\ WriteUnchanged

FirstOfFile_second(buff) == buff.seqno = 1
FirstOfFile(buff) == buff.seqno = 0

WaitRnetDone ==
  /\ WriteAt("wait_rnet") /\ semReadNet[writenet.bankno] > 0
  /\ semReadNet' = [semReadNet EXCEPT ![writenet.bankno] = @ - 1]
  /\ writenet' = [writenet EXCEPT !.retry = 0,
                    !.pc = IF FirstOfFile(Hand) THEN "send_fileno" ELSE "send_data"]
  /\ UNCHANGED <<semWriteDisk, semWriteNet, semBindTwo, dataout, writeNetXoff, exited>>
  /\ ListUnchanged /\ WriteUnchanged

\* The loop around send_packet(), the same for both packets.  What follows the
\* part of a packet is no packet to the next host, and is not recorded.
EndsTorn == dataout.wire # <<>> /\ dataout.wire[Len(dataout.wire)] = Fragment
Put(packet) == dataout' = IF EndsTorn THEN dataout ELSE [dataout EXCEPT !.wire = Append(@, packet)]
Cut == dataout' = dataout \/ Put(Fragment)
GoOn(pc) == writenet' = [writenet EXCEPT !.pc = pc, !.retry = 0]

SendSuccess(packet, pc) ==
  /\ dataout.open
  /\ Put(packet) /\ GoOn(pc) /\ writeNetXoff' = FALSE /\ exited' = exited

SendRetry(pc) ==
  /\ dataout.open /\ "lost" \in Faults /\ writeNetXoff
  /\ Cut
  /\ IF writenet.retry + 1 < MAX_XOFF_WAIT
     THEN writenet' = [writenet EXCEPT !.retry = @ + 1]
     ELSE GoOn(pc)
  /\ UNCHANGED <<writeNetXoff, exited>>

SendLost(pc) ==
  /\ dataout.open /\ "lost" \in Faults /\ ~writeNetXoff
  /\ Cut
  /\ writenet' = [writenet EXCEPT !.pc = "rec_report", !.ret = pc]
  /\ UNCHANGED <<writeNetXoff, exited>>

SendError ==
  /\ dataout.open /\ "error" \in Faults
  /\ exited' = "send" /\ UNCHANGED <<dataout, writenet, writeNetXoff>>

\* After a recovery inside the file number loop that made the server the next
\* host, the data packet goes to the DataOut that recover_sending() deleted: the
\* bytes go nowhere, or the process ends.
SendToDeleted(pc) ==
  /\ ~dataout.open
  /\ \/ GoOn(pc) /\ exited' = exited
     \/ exited' = "deleted" /\ writenet' = writenet
  /\ UNCHANGED <<dataout, writeNetXoff>>

SendPacket(packet, pc) ==
  /\ \/ SendSuccess(packet, pc) \/ SendRetry(pc) \/ SendLost(pc)
     \/ SendError \/ SendToDeleted(pc)
  /\ UNCHANGED semaphores /\ ListUnchanged /\ WriteUnchanged

SendFileno == WriteAt("send_fileno") /\ SendPacket(FilenoPacket(Hand.fileno), "send_data")
SendData == WriteAt("send_data") /\ SendPacket(DataPacket(Hand), "release")

\* eof is read before the bank is given to writedisk()
SetWnetDone ==
  /\ WriteAt("release")
  /\ semWriteNet' = [semWriteNet EXCEPT ![writenet.bankno] = @ + 1]
  /\ writenet' = [writenet EXCEPT !.pc = "bind", !.eof = Hand.eof]
  /\ UNCHANGED <<semWriteDisk, semReadNet, semBindTwo, dataout, writeNetXoff, exited>>
  /\ ListUnchanged /\ WriteUnchanged

SetBindTwoGo ==
  /\ WriteAt("bind")
  /\ semBindTwo' = IF flag_bind THEN [semBindTwo EXCEPT ![writenet.bankno] = @ + 1]
                   ELSE semBindTwo
  /\ writenet' = IF isNextServer \/ writenet.eof = "FINAL_EOF"
                 THEN [writenet EXCEPT !.pc = "done"]
                 ELSE [writenet EXCEPT !.pc = "wait_rnet", !.bankno = NextBank(@)]
  /\ UNCHANGED <<semWriteDisk, semReadNet, semWriteNet, dataout, writeNetXoff, exited>>
  /\ ListUnchanged /\ WriteUnchanged

(***************************************************************************)
(* recover_sending().  The report to the server always comes first, and    *)
(* its CntlOut stays.  When a host is left, the constructor of the second  *)
(* CntlOut finds the first and exits, so that no line after it runs: a     *)
(* recovery returns only when the server becomes the next host.            *)
(***************************************************************************)
RecoverReport ==
  /\ WriteAt("rec_report")
  /\ \/ /\ repout \/ 1 \in GET_NAME_LEN
        /\ repout' = TRUE /\ WriteGoto("rec_host") /\ exited' = exited
     \/ /\ 0 \in GET_NAME_LEN \/ "refused" \in Faults
        /\ exited' = "report" /\ UNCHANGED <<repout, writenet>>
  /\ UNCHANGED <<semaphores, dataout, behind, isNextServer, writeNetXoff>> /\ WriteUnchanged

RecoverHost ==
  /\ WriteAt("rec_host")
  /\ dataout' = [dataout EXCEPT !.open = FALSE, !.exception = FALSE]
  /\ \/ /\ behind > 0 /\ 1 \in SEARCH_FLAG
        /\ exited' = IF repout THEN "cntlout_exists" ELSE exited
        /\ behind' = behind - 1 /\ UNCHANGED <<isNextServer, writenet, writeNetXoff>>
     \/ /\ behind = 0 \/ 0 \in SEARCH_FLAG
        /\ isNextServer' = TRUE /\ GoOn(writenet.ret) /\ writeNetXoff' = FALSE
        /\ UNCHANGED <<behind, exited>>
  /\ UNCHANGED <<semaphores, repout>> /\ WriteUnchanged

(***************************************************************************)
(* exception_reciever(), called inside a send or a receive.  The request   *)
(* to reconnect throws, and writenet() catches nothing.  TYPE_REQBANKST    *)
(* changes no state kept here.                                             *)
(***************************************************************************)
Sending == dataout.open /\ dataout.exception /\ (WriteAt("send_fileno") \/ WriteAt("send_data"))
ExceptionReciever ==
  /\ \/ /\ "xoff" \in Faults /\ Sending /\ 1 \in CHECKTRAILER
        /\ writeNetXoff' = TRUE /\ exited' = exited
     \/ /\ "badcmd" \in Faults /\ (Sending \/ (Receiving /\ datain.exception))
        /\ exited' = "exception" /\ writeNetXoff' = writeNetXoff
     \/ /\ reconnect = "pending" /\ Sending
        /\ \/ 1 \in CHECKTRAILER /\ exited' = "terminate"
           \/ 0 \in CHECKTRAILER /\ exited' = "exception"
        /\ writeNetXoff' = writeNetXoff
  /\ UNCHANGED <<semaphores, writenet, dataout>> /\ ListUnchanged /\ WriteUnchanged

WriteNet == \/ WriteStart \/ WaitRnetDone \/ SendFileno \/ SendData
            \/ SetWnetDone \/ SetBindTwoGo \/ RecoverReport \/ RecoverHost

(***************************************************************************)
(* writedisk() and the end of data_transfer()                              *)
(***************************************************************************)
DiskAt(pc) == ~Ended /\ writedisk.pc = pc
DiskGoto(pc) == writedisk' = [writedisk EXCEPT !.pc = pc]
DiskUnchanged == UNCHANGED <<readVars, writeVars>>

OpenFile ==
  /\ DiskAt("open")
  /\ \/ DiskGoto("choose") /\ exited' = exited
     \/ "disk" \in Faults /\ exited' = "open" /\ writedisk' = writedisk
  /\ UNCHANGED <<dataBuffer, semaphores, disk, stopped>> /\ DiskUnchanged

\* isNextServer is read here, and not again while the thread waits
Awaited_always == "wait_rnet"
Awaited == IF isNextServer THEN "wait_rnet" ELSE "wait_wnet"
ChooseWait ==
  /\ DiskAt("choose") /\ DiskGoto(Awaited)
  /\ UNCHANGED <<dataBuffer, semaphores, disk, stopped, exited>> /\ DiskUnchanged

WaitChunk ==
  LET b == writedisk.bankno
  IN /\ \/ /\ DiskAt("wait_rnet") /\ semReadNet[b] > 0
           /\ semReadNet' = [semReadNet EXCEPT ![b] = @ - 1]
           /\ UNCHANGED semWriteNet
        \/ /\ DiskAt("wait_wnet") /\ semWriteNet[b] > 0
           /\ semWriteNet' = [semWriteNet EXCEPT ![b] = @ - 1]
           /\ UNCHANGED semReadNet
     /\ DiskGoto("write")
     /\ UNCHANGED <<dataBuffer, semWriteDisk, semBindTwo, disk, stopped, exited>>
     /\ DiskUnchanged

Taken == dataBuffer[writedisk.bankno]
WriteBuffer ==
  /\ DiskAt("write")
  /\ \/ disk' = Append(disk, [file |-> writedisk.fileno, body |-> Taken.body])
        /\ DiskGoto("release") /\ exited' = exited
     \/ "disk" \in Faults /\ exited' = "write" /\ UNCHANGED <<disk, writedisk>>
  /\ UNCHANGED <<dataBuffer, semaphores, stopped>> /\ DiskUnchanged

\* eof is read before the bank is given back; at the end of a file the next
\* entry of the file list is taken
AfterBank(eof) ==
  CASE eof = "NORMAL" -> "choose" [] eof = "EOF" -> "entry" [] eof = "FINAL_EOF" -> "report"
SetWdiskDone_missing ==
  /\ DiskAt("release")
  /\ writedisk' = [writedisk EXCEPT !.pc = AfterBank(Taken.eof), !.bankno = NextBank(@)]
  /\ UNCHANGED <<dataBuffer, semaphores, disk, stopped, exited>> /\ DiskUnchanged
SetWdiskDone ==
  /\ DiskAt("release")
  /\ semWriteDisk' = [semWriteDisk EXCEPT ![writedisk.bankno] = @ + 1]
  /\ writedisk' = [writedisk EXCEPT !.pc = AfterBank(Taken.eof), !.bankno = NextBank(@)]
  /\ UNCHANGED <<dataBuffer, semReadNet, semWriteNet, semBindTwo, disk, stopped, exited>>
  /\ DiskUnchanged

NextEntry ==
  /\ DiskAt("entry")
  /\ IF writedisk.fileno + 1 < NoFiles
     THEN writedisk' = [writedisk EXCEPT !.pc = "open", !.fileno = @ + 1] /\ exited' = exited
     ELSE exited' = "no_entry" /\ writedisk' = writedisk
  /\ UNCHANGED <<dataBuffer, semaphores, disk, stopped>> /\ DiskUnchanged

\* the last node reports the end, unless it has reported trouble before
EndReport ==
  /\ DiskAt("report")
  /\ \/ /\ DiskGoto("done") /\ stopped' = (isNextServer /\ ~repout) /\ exited' = exited
     \/ /\ isNextServer /\ ~repout /\ "refused" \in Faults
        /\ exited' = "report" /\ UNCHANGED <<writedisk, stopped>>
  /\ UNCHANGED <<dataBuffer, semaphores, disk>> /\ DiskUnchanged

WriteDisk == \/ OpenFile \/ ChooseWait \/ WaitChunk \/ WriteBuffer \/ SetWdiskDone
             \/ NextEntry \/ EndReport

Stopped == Ended /\ UNCHANGED vars
Next == Upstream \/ ReadNet \/ WriteNet \/ ExceptionReciever \/ WriteDisk \/ Stopped

Spec == Init /\ [][Next]_vars
\* Every thread of the process is scheduled; receives, sends and connects return,
\* by their timeouts at the latest.
FairSpec == Spec /\ WF_vars(ReadNet) /\ WF_vars(WriteNet) /\ WF_vars(WriteDisk)

(***************************************************************************)
(* Properties                                                              *)
(***************************************************************************)
ExitReason == {"no", "receive", "trailer", "packet", "terminate", "accept", "send", "deleted", "report",
               "cntlout_exists", "exception", "open", "write", "no_entry"}
ReaderType ==
  [pc : {"start", "recv_fileno", "wait_wdisk", "wait_bind", "recv_header", "recv_body", "accept", "done"},
   bankno : Bank, fileno : File, seqno : Nat, first : BOOLEAN]
WriterType ==
  [pc : {"start", "wait_rnet", "send_fileno", "send_data", "rec_report", "rec_host",
         "release", "bind", "done"},
   bankno : Bank, retry : Nat, eof : EofMark, ret : {"send_data", "release"}]
DiskType ==
  [pc : {"open", "choose", "wait_rnet", "wait_wnet", "write", "release", "entry", "report", "done"},
   bankno : Bank, fileno : File]
DatainType == [lost : BOOLEAN, exception : BOOLEAN]
DataoutType == [open : BOOLEAN, exception : BOOLEAN, wire : Seq(Packet)]

\* Every variable keeps its type: the semaphores never go below zero, and the
\* three threads stay on banks of the ring and files of the list.
TypeOK ==
  /\ dataBuffer \in [Bank -> BufferType]
  /\ semWriteDisk \in [Bank -> Nat]
  /\ semReadNet \in [Bank -> Nat]
  /\ semWriteNet \in [Bank -> Nat]
  /\ semBindTwo \in [Bank -> Nat]
  /\ isNextServer \in BOOLEAN /\ behind \in Nat
  /\ readnet \in ReaderType
  /\ writenet \in WriterType
  /\ writedisk \in DiskType
  /\ datain \in DatainType /\ dataout \in DataoutType
  /\ repout \in BOOLEAN /\ writeNetXoff \in BOOLEAN /\ stopped \in BOOLEAN
  /\ reconnect \in {"no", "pending", "served"} /\ exited \in ExitReason
  /\ disk \in Seq([file : File, body : ChunkType])

Filling == readnet.pc \in {"wait_bind", "recv_header", "recv_body", "accept"}
Holding == writenet.pc \in {"send_fileno", "send_data", "release", "rec_report", "rec_host"}
Writing == writedisk.pc \in {"write", "release"}

\* The semaphores of Buffer.h keep the three threads apart, also while a recovery
\* turns the node into the last one under writedisk()'s feet: no two of them
\* ever own the same bank.
BanksApart ==
  /\ Filling /\ Holding => readnet.bankno # writenet.bankno
  /\ Filling /\ Writing => readnet.bankno # writedisk.bankno
  /\ Holding /\ Writing => writenet.bankno # writedisk.bankno

\* Why: every bank has exactly one token, which is one of its semaphores (semBindTwo
\* is none) or with the thread that took it.
One(owns) == IF owns THEN 1 ELSE 0
ReaderOwns(b) == Filling /\ readnet.bankno = b
WriterOwns(b) == Holding /\ writenet.bankno = b
DiskOwns(b) == Writing /\ writedisk.bankno = b
OneToken ==
  \A b \in Bank :
    semWriteDisk[b] + semReadNet[b] + semWriteNet[b]
      + One(ReaderOwns(b)) + One(WriterOwns(b)) + One(DiskOwns(b)) = 1

\* If the host before sends what it was asked for, what is on the disk is always a
\* prefix of the stream, each chunk whole, once, and in the file it is of: through
\* lost connections, reconnections in the middle of a chunk, recoveries and changes
\* of role (writedisk(), readnet()).
DiskIsPrefix ==
  \A i \in DOMAIN disk :
    /\ disk[i].body \in Chunks /\ disk[i].file = disk[i].body.fileno
    /\ disk[i].body = IF i = 1 THEN Chunk(0, 0) ELSE NextChunk(disk[i - 1].body)

\* The node says that it has finished - it returns from data_transfer(), it
\* reports TYPE_STOP to the server - only when every chunk is on the disk: a prefix
\* of the stream that ends with the last chunk of the last file.
EndsWithLast == disk # <<>> /\ disk[Len(disk)].body = Chunk(NoFiles - 1, LastSeq[NoFiles - 1])
DoneMeansCopied == writedisk.pc = "done" \/ stopped => DiskIsPrefix /\ EndsWithLast
Total == FirstPos[NoFiles]

\* A node in the middle passes a chunk on before it writes it: what is on its
\* disk has been handed to the next host (wait_wnet_done() in writedisk()).
ForwardedFirst ==
  \A i \in DOMAIN disk :
    \E j \in DOMAIN dataout.wire : dataout.wire[j] = ChunkPacket(disk[i].body)

Stream == INSTANCE ChunkStream WITH wire <- dataout.wire
\* With no fault of its surroundings, what a node in the middle forwards is the abstract
\* connection, step by step: the stream it receives, in order, intact, nothing twice.
\* (ChunkStream promises all of it besides, which a node that exits at a packet cannot.)
ForwardsTheStream == Stream!Init /\ [][Stream!Next]_(dataout.wire)

\* With no fault every node ends with all the files on its disk, or ends because
\* checktrailer() returned 0 for a file number packet (Net.cpp:757), as it does in the
\* source: nothing else stands between a node and the copy.
CopiesUnlessRefused == <>((writedisk.pc = "done" /\ Len(disk) = Total) \/ exited = "trailer")

\* A node always ends, copied or with an exit: no thread waits on a semaphore for ever,
\* unless it became the last node in the middle of the transfer, or waits in accept()
\* for a host that asked it to reconnect and does not come (ClntThread.cpp:150).
BecameLast == isNextServer /\ ~dataout.open
EndsUnlessCut == []<>(Ended \/ BecameLast \/ readnet.pc = "accept")

\* Claim of README.md:7 and dolly_plus.spec:37-38, the "bypass" mechanism makes
\* the copy robust when a client machine is in trouble: the node whose next host
\* is lost still comes to an end.
BypassCompletes == <>Ended

\* Claim of Net.h:104, "CntlOut doubly exist" is a state the program is never in.
CntlOutOnce == exited # "cntlout_exists"

\* Claim of the same sentences: a node that the host before a lost one asks to
\* reconnect does so, it does not end with the request unanswered or half answered.
ReconnectAccepted == reconnect = "pending" => exited \notin {"receive", "terminate"}

\* Claim of Net.cpp:687-690 and of Packet.cpp:105, checktrailer(): "Return 1... OK":
\* a packet that arrived is received, so that with no fault the node has no reason to exit.
NoFaultNoExit == exited = "no"
=============================================================================
