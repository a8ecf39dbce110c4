----------------------------- MODULE ServThread -----------------------------
(***************************************************************************)
(* The data transfer of dollyS (src/ServThread.cpp): readdisk() fills a    *)
(* ring of NO_BANK buffers from the input files, writenet() sends each     *)
(* bank to the next host of the ring, and the two hand banks over with     *)
(* three counting semaphores per bank (src/Buffer.h).  When the connection *)
(* is lost writenet() runs recover_sending(): it bypasses the lost host,   *)
(* asks the next one which chunk it needs and resends from the ring.       *)
(*                                                                         *)
(* The clients are the environment: what a send returns, which chunk the   *)
(* host behind the lost one waits for, which control packets arrive.       *)
(***************************************************************************)
EXTENDS DataChunks

CONSTANTS
  NO_BANK,        \* banks of the ring                    (21 in the source)
  NO_BIND,        \* intended reader/writer distance      (10 in the source)
  MAX_XOFF_WAIT,  \* send attempts under XOFF             (10 in the source)
  flag_bind,      \* the bind semaphores are used (dollyS -b turns them off)
  NoHosts,        \* clients listed in the configuration, 1..NoHosts
  CHECKTRAILER,   \* the values CmdPacket::checktrailer() may return when all is well: 0 is what
                  \* it returns in the source, 1 what its callers expect
  MaxLag,         \* bound: chunks a client may be behind writenet()
  Faults          \* what the environment may do; see FaultKinds

FaultKinds == {"disk", "lost", "error", "refused", "xoff", "badcmd"}

ASSUME RingAssumption ==
  /\ NO_BIND \in Nat
  /\ NO_BANK \in Nat /\ NO_BANK >= 2 * NO_BIND + 1
  /\ MAX_XOFF_WAIT \in Nat \ {0}
  /\ flag_bind \in BOOLEAN
ASSUME NetAssumption ==
  /\ NoHosts \in Nat \ {0}
  /\ CHECKTRAILER \in (SUBSET {0, 1}) \ {{}}
  /\ MaxLag \in Nat
  /\ Faults \subseteq FaultKinds

Bank == 0 .. NO_BANK - 1
NextBank_noWrap(b) == b + 1
NextBank(b) == IF b + 1 = NO_BANK THEN 0 ELSE b + 1
BindBank_tooFar(b) == (b - NO_BIND - 1 + NO_BANK) % NO_BANK
BindBank(b) == (b - NO_BIND + NO_BANK) % NO_BANK

Nobody == [waits |-> Torn, hand |-> Torn]   \* no client has asked for a chunk yet

VARIABLES
  dataBuffer,     \* the banks: header fields, and the chunk the bytes are of
  semWriteNet, semReadDisk, semBindTwo,          \* one semaphore per bank
  readdisk,       \* readdisk(): pc, bankno, fileno, afile->seqNo, is_1st_bankround
  writenet,       \* writenet() and recover_sending(): pc and locals
  dataout,        \* the connection: open, exception registered, packets sent
  cntlOut,        \* CntlOut::exist
  hostFlag, hostIte,                             \* host list and its iterator
  writeNetXoff, last_stop,                       \* the shared flags
  mainPc,         \* data_transfer() after it started the threads
  exited,         \* "no", or why the process called exit()
  peer            \* environment: the chunk the reconnected client waits for,
                  \* and the one writenet() was at when it asked

semaphores == <<semWriteNet, semReadDisk, semBindTwo>>
hosts == <<hostFlag, hostIte, cntlOut>>
vars == <<dataBuffer, semaphores, readdisk, writenet, dataout, hosts,
          writeNetXoff, last_stop, mainPc, exited, peer>>

\* Operators named X_y are plausible slips in X, kept to see which property notices
\* them; no specification uses one.
InitiallyDone_twice == 2
InitiallyDone == 1                      \* "initially all 'ready'"

Init ==
  /\ dataBuffer = [b \in Bank |-> [fileno |-> 0, seqno |-> 0, eof |-> "NORMAL", body |-> Torn]]
  /\ semWriteNet = [b \in Bank |-> InitiallyDone]
  /\ semReadDisk = [b \in Bank |-> 0]
  /\ semBindTwo  = [b \in Bank |-> 0]
  /\ readdisk = [pc |-> "open", bankno |-> 0, fileno |-> 0, seqNo |-> 0, first |-> TRUE]
  /\ writenet = [pc |-> "start", bankno |-> 0, retry |-> 0, eof |-> "NORMAL",
                 req |-> 0, jj |-> 0, ret |-> "release"]
  /\ dataout = [open |-> TRUE, exception |-> FALSE, wire |-> <<>>]
  /\ cntlOut = FALSE
  /\ hostFlag \in [1 .. NoHosts -> {"AVAIL", "NOAVIL"}] /\ hostFlag[1] = "AVAIL"
  /\ hostIte = 1
  /\ writeNetXoff = FALSE /\ last_stop = FALSE
  /\ mainPc = "join" /\ exited = "no" /\ peer = Nobody

\* the process is over: data_transfer() returned, or a thread called exit()
Ended == mainPc = "done" \/ exited # "no"

(***************************************************************************)
(* readdisk()                                                              *)
(***************************************************************************)
ReadAt(pc) == ~Ended /\ readdisk.pc = pc
ReadGoto(pc) == readdisk' = [readdisk EXCEPT !.pc = pc]
ReadUnchanged == UNCHANGED <<writenet, dataout, hosts, writeNetXoff, mainPc, peer>>

OpenFile_keepsSeqno ==
  /\ ReadAt("open") /\ ReadGoto("wait_wnet") /\ exited' = exited
  /\ UNCHANGED <<dataBuffer, semaphores, last_stop>> /\ ReadUnchanged
OpenFile ==
  /\ ReadAt("open")
  /\ \/ readdisk' = [readdisk EXCEPT !.pc = "wait_wnet", !.seqNo = 0] /\ exited' = exited
     \/ "disk" \in Faults /\ exited' = "open" /\ readdisk' = readdisk
  /\ UNCHANGED <<dataBuffer, semaphores, last_stop>> /\ ReadUnchanged

WaitWnetDone ==
  /\ ReadAt("wait_wnet") /\ semWriteNet[readdisk.bankno] > 0
  /\ semWriteNet' = [semWriteNet EXCEPT ![readdisk.bankno] = @ - 1]
  /\ ReadGoto(IF flag_bind /\ ~readdisk.first THEN "wait_bind" ELSE "fill")
  /\ UNCHANGED <<dataBuffer, semReadDisk, semBindTwo, last_stop, exited>> /\ ReadUnchanged

WaitBindTwo ==
  /\ ReadAt("wait_bind") /\ semBindTwo[BindBank(readdisk.bankno)] > 0
  /\ semBindTwo' = [semBindTwo EXCEPT ![BindBank(readdisk.bankno)] = @ - 1]
  /\ ReadGoto("fill")
  /\ UNCHANGED <<dataBuffer, semWriteNet, semReadDisk, last_stop, exited>> /\ ReadUnchanged

\* set_fileno() and the first half of read_tobuff(): the header is new, and
\* the bytes are neither the old chunk's nor the new one's
ReadBegin ==
  /\ ReadAt("fill")
  /\ dataBuffer' = [dataBuffer EXCEPT ![readdisk.bankno] =
       [fileno |-> readdisk.fileno, seqno |-> readdisk.seqNo, eof |-> "NORMAL", body |-> Torn]]
  /\ readdisk' = [readdisk EXCEPT !.pc = "read", !.seqNo = @ + 1]
  /\ UNCHANGED <<semaphores, last_stop, exited>> /\ ReadUnchanged

AtEof == readdisk.seqNo = LastSeq[readdisk.fileno] + 1
Marked(mark) == [dataBuffer EXCEPT ![readdisk.bankno] =
  [@ EXCEPT !.eof = mark, !.body = Chunk(readdisk.fileno, readdisk.seqNo - 1)]]

\* The bank is handed over.  bankno and is_1st_bankround are the thread's own,
\* so that they can be advanced in the same step.
PassBank(pc, fileno) ==
  /\ semReadDisk' = [semReadDisk EXCEPT ![readdisk.bankno] = @ + 1]
  /\ readdisk' = [readdisk EXCEPT !.pc = pc, !.fileno = fileno,
                    !.bankno = NextBank(@),
                    !.first = IF NextBank(readdisk.bankno) = 0 THEN FALSE ELSE @]

ReadEnd ==
  /\ ReadAt("read") /\ ~AtEof
  /\ dataBuffer' = Marked("NORMAL")
  /\ PassBank("wait_wnet", readdisk.fileno)
  /\ UNCHANGED <<semWriteNet, semBindTwo, last_stop, exited>> /\ ReadUnchanged

\* EOF_DETECT: the bank stays locked until the next file has been looked for
ReadEof_unlocks ==
  /\ ReadAt("read") /\ AtEof
  /\ dataBuffer' = Marked("EOF")
  /\ semReadDisk' = [semReadDisk EXCEPT ![readdisk.bankno] = @ + 1]
  /\ ReadGoto("eof")
  /\ UNCHANGED <<semWriteNet, semBindTwo, last_stop, exited>> /\ ReadUnchanged
ReadEof ==
  /\ ReadAt("read") /\ AtEof
  /\ dataBuffer' = Marked("EOF")
  /\ ReadGoto("eof")
  /\ UNCHANGED <<semaphores, last_stop, exited>> /\ ReadUnchanged

ReadFail ==
  /\ ReadAt("read") /\ "disk" \in Faults
  /\ exited' = "read"
  /\ UNCHANGED <<dataBuffer, semaphores, readdisk, last_stop>> /\ ReadUnchanged

NextFile ==
  /\ ReadAt("eof") /\ readdisk.fileno + 1 < NoFiles
  /\ dataBuffer' = Marked("EOF")
  /\ PassBank("open", readdisk.fileno + 1)
  /\ UNCHANGED <<semWriteNet, semBindTwo, last_stop, exited>> /\ ReadUnchanged

LastFile ==
  /\ ReadAt("eof") /\ readdisk.fileno + 1 >= NoFiles
  /\ dataBuffer' = Marked("FINAL_EOF")
  /\ PassBank("done", readdisk.fileno)
  /\ last_stop' = TRUE
  /\ UNCHANGED <<semWriteNet, semBindTwo, exited>> /\ ReadUnchanged

ReadDisk == \/ OpenFile \/ WaitWnetDone \/ WaitBindTwo \/ ReadBegin
            \/ ReadEnd \/ ReadEof \/ ReadFail \/ NextFile \/ LastFile

(***************************************************************************)
(* writenet()                                                              *)
(***************************************************************************)
Hand == dataBuffer[writenet.bankno]     \* the bank writenet() works on
WriteAt(pc) == ~Ended /\ writenet.pc = pc
WriteUnchanged == UNCHANGED <<dataBuffer, readdisk, last_stop, mainPc>>

WriteStart ==
  /\ WriteAt("start")
  /\ dataout' = [dataout EXCEPT !.exception = TRUE]
  /\ writenet' = [writenet EXCEPT !.pc = "wait_rdisk"]
  /\ UNCHANGED <<semaphores, hosts, writeNetXoff, exited, peer>> /\ WriteUnchanged

WaitRdiskDone ==
  /\ WriteAt("wait_rdisk") /\ semReadDisk[writenet.bankno] > 0
  /\ semReadDisk' = [semReadDisk EXCEPT ![writenet.bankno] = @ - 1]
  /\ writenet' = [writenet EXCEPT !.retry = 0,
                    !.pc = IF Hand.seqno = 0 THEN "send_fileno" ELSE "send_data"]
  /\ UNCHANGED <<semWriteNet, semBindTwo, dataout, hosts, writeNetXoff, exited, peer>>
  /\ WriteUnchanged

(***************************************************************************)
(* The loop around send_packet(), the same for both packets: it ends with  *)
(* the packet sent, with a recovery, or with all the attempts used up, and *)
(* in each case the thread goes on at pc.                                  *)
(***************************************************************************)
Put(packet) == dataout' = [dataout EXCEPT !.wire = Append(@, packet)]
\* A failed attempt leaves nothing or a part of the packet on the connection;
\* parts in a row are one fragment to whoever reads it.
EndsTorn == dataout.wire # <<>> /\ dataout.wire[Len(dataout.wire)] = Fragment
Cut == dataout' = dataout \/ (~EndsTorn /\ Put(Fragment))
GoOn(pc) == writenet' = [writenet EXCEPT !.pc = pc, !.retry = 0]

SendSuccess(packet, pc) ==
  /\ Put(packet) /\ GoOn(pc) /\ writeNetXoff' = FALSE /\ exited' = exited

SendRetry(pc) ==
  /\ "lost" \in Faults /\ writeNetXoff
  /\ Cut
  /\ IF writenet.retry + 1 < MAX_XOFF_WAIT
     THEN writenet' = [writenet EXCEPT !.retry = @ + 1]
     ELSE GoOn(pc)
  /\ UNCHANGED <<writeNetXoff, exited>>

SendLost_sendsAgain(pc) ==
  /\ "lost" \in Faults /\ ~writeNetXoff
  /\ Cut
  /\ writenet' = [writenet EXCEPT !.pc = "rec_host", !.ret = "send_data"]
  /\ UNCHANGED <<writeNetXoff, exited>>
SendLost(pc) ==
  /\ "lost" \in Faults /\ ~writeNetXoff
  /\ Cut
  /\ writenet' = [writenet EXCEPT !.pc = "rec_host", !.ret = pc]
  /\ UNCHANGED <<writeNetXoff, exited>>

SendError ==
  /\ "error" \in Faults
  /\ exited' = "send" /\ UNCHANGED <<dataout, writenet, writeNetXoff>>

SendPacket(packet, pc) ==
  /\ \/ SendSuccess(packet, pc) \/ SendRetry(pc) \/ SendLost(pc) \/ SendError
  /\ UNCHANGED <<semaphores, hosts, peer>> /\ WriteUnchanged

SendFileno == WriteAt("send_fileno") /\ SendPacket(FilenoPacket(Hand.fileno), "send_data")
SendData == WriteAt("send_data") /\ SendPacket(DataPacket(Hand), "release")

\* eof is read before the bank is given back: "refer must be before semaphore set"
SetWnetDone_missing ==
  /\ WriteAt("release")
  /\ writenet' = [writenet EXCEPT !.pc = "bind", !.eof = Hand.eof]
  /\ UNCHANGED <<semaphores, dataout, hosts, writeNetXoff, exited, peer>>
  /\ WriteUnchanged
SetWnetDone ==
  /\ WriteAt("release")
  /\ semWriteNet' = [semWriteNet EXCEPT ![writenet.bankno] = @ + 1]
  /\ writenet' = [writenet EXCEPT !.pc = "bind", !.eof = Hand.eof]
  /\ UNCHANGED <<semReadDisk, semBindTwo, dataout, hosts, writeNetXoff, exited, peer>>
  /\ WriteUnchanged

SetBindTwoGo ==
  /\ WriteAt("bind")
  /\ semBindTwo' = IF flag_bind THEN [semBindTwo EXCEPT ![writenet.bankno] = @ + 1]
                   ELSE semBindTwo
  /\ writenet' = IF writenet.eof = "FINAL_EOF" THEN [writenet EXCEPT !.pc = "done"]
                 ELSE [writenet EXCEPT !.pc = "wait_rdisk", !.bankno = NextBank(@)]
  /\ UNCHANGED <<semWriteNet, semReadDisk, dataout, hosts, writeNetXoff, exited, peer>>
  /\ WriteUnchanged

(***************************************************************************)
(* exception_reciever(), called inside a send when a client connects to    *)
(* the control port.  TYPE_REPORT and TYPE_STOP only print.                *)
(***************************************************************************)
ExceptionReciever ==
  /\ WriteAt("send_fileno") \/ WriteAt("send_data")
  /\ dataout.exception
  /\ \/ /\ "xoff" \in Faults /\ 1 \in CHECKTRAILER
        /\ writeNetXoff' = TRUE /\ UNCHANGED <<last_stop, exited>>
     \/ /\ "badcmd" \in Faults /\ 1 \in CHECKTRAILER     \* unknown type
        /\ last_stop' = TRUE /\ UNCHANGED <<writeNetXoff, exited>>
     \/ /\ "badcmd" \in Faults \/ 0 \in CHECKTRAILER     \* RECONNECT, or not received
        /\ exited' = "exception" /\ UNCHANGED <<writeNetXoff, last_stop>>
  /\ UNCHANGED <<dataBuffer, semaphores, readdisk, writenet, dataout, hosts, mainPc, peer>>

(***************************************************************************)
(* recover_sending()                                                       *)
(***************************************************************************)
HandChunk == HeaderOf(Hand)

\* The chunks the host behind the lost one may be waiting for: it answers
\* only from the receive of a data packet, hence after the file number packet
MayWaitFor(c) ==
  /\ Pos(HandChunk) - Pos(c) \in 0 .. MaxLag
  /\ c = HandChunk => writenet.ret = "release"

Exit(why) == exited' = why /\ UNCHANGED <<writenet, dataout, writeNetXoff>>
RecoverGoto(pc) == writenet' = [writenet EXCEPT !.pc = pc] /\ UNCHANGED <<writeNetXoff, exited>>

RecoverHost ==
  LET next == {h \in hostIte + 1 .. NoHosts : hostFlag[h] = "AVAIL"}
  IN /\ WriteAt("rec_host")
     /\ dataout' = [open |-> FALSE, exception |-> FALSE, wire |-> <<>>]
     /\ hostFlag' = [hostFlag EXCEPT ![hostIte] = "NOAVIL"]
     /\ \/ /\ next = {} /\ exited' = "no_host"
           /\ UNCHANGED <<writenet, writeNetXoff, hostIte, cntlOut>>
        \/ \E h \in next :
             /\ \A g \in next : h <= g
             /\ hostIte' = h /\ cntlOut' = TRUE
             /\ IF cntlOut THEN exited' = "cntlout_exists" /\ UNCHANGED <<writenet, writeNetXoff>>
                ELSE RecoverGoto("rec_ack")
     /\ UNCHANGED <<semaphores, peer>> /\ WriteUnchanged

\* connect, TYPE_RECONNECT, TYPE_RECONNECT_ACK and the check of the answer
RecoverAck ==
  /\ WriteAt("rec_ack")
  /\ \/ /\ \/ "refused" \in Faults \/ 0 \in CHECKTRAILER
           \/ \A c \in Chunks : ~MayWaitFor(c)    \* the client cannot go on
        /\ Exit("control") /\ peer' = peer /\ dataout' = dataout
     \/ /\ 1 \in CHECKTRAILER
        /\ \E c \in Chunks :
             /\ MayWaitFor(c) /\ peer' = [waits |-> c, hand |-> HandChunk]
             /\ writenet' = [writenet EXCEPT !.pc = "rec_connect", !.req = c.seqno, !.jj = 0]
             /\ exited' = IF c.seqno < Hand.seqno - NO_BIND THEN "too_old"
                          ELSE IF Hand.seqno < c.seqno THEN "previous_file" ELSE "no"
        /\ UNCHANGED <<dataout, writeNetXoff>>
  /\ UNCHANGED <<semaphores, hosts>> /\ WriteUnchanged

RecoverConnect ==
  /\ WriteAt("rec_connect")
  /\ \/ /\ dataout' = [dataout EXCEPT !.open = TRUE] /\ RecoverGoto("rec_check")
     \/ "refused" \in Faults /\ Exit("refused")
  /\ UNCHANGED <<semaphores, hosts, peer>> /\ WriteUnchanged

ResendCount == Hand.seqno - writenet.req + 1
ReBankno_offByOne == (writenet.bankno + NO_BANK - ResendCount) % NO_BANK
ReBankno == (writenet.bankno + NO_BANK - (ResendCount - 1)) % NO_BANK
ResendBank == (ReBankno + writenet.jj) % NO_BANK

RecoverCheck ==
  /\ WriteAt("rec_check")
  /\ \/ /\ dataBuffer[ResendBank].seqno = writenet.req + writenet.jj
        /\ RecoverGoto("rec_send") /\ dataout' = dataout
     \/ dataBuffer[ResendBank].seqno # writenet.req + writenet.jj /\ Exit("mismatch")
  /\ UNCHANGED <<semaphores, hosts, peer>> /\ WriteUnchanged

\* readdisk() may begin to refill the bank before or after make() copied its
\* header into the packet; the bytes are read after that, in the send.
ResentHeaders == {HeaderOf(dataBuffer[ResendBank]), Chunk(Hand.fileno, writenet.req + writenet.jj)}
Resent(header) == [kind |-> "data", chunk |-> header, body |-> dataBuffer[ResendBank].body]

RecoverSend ==
  /\ WriteAt("rec_send")
  /\ \/ /\ \E header \in ResentHeaders : Put(Resent(header))
        /\ exited' = exited
        /\ IF writenet.jj + 1 < ResendCount
           THEN /\ writenet' = [writenet EXCEPT !.pc = "rec_check", !.jj = @ + 1]
                /\ writeNetXoff' = writeNetXoff
           ELSE GoOn(writenet.ret) /\ writeNetXoff' = FALSE
     \/ {"lost", "error"} \cap Faults # {} /\ Exit("double")
  /\ UNCHANGED <<semaphores, hosts, peer>> /\ WriteUnchanged

Recover == RecoverHost \/ RecoverAck \/ RecoverConnect \/ RecoverCheck \/ RecoverSend
WriteNet == \/ WriteStart \/ WaitRdiskDone \/ SendFileno \/ SendData
            \/ SetWnetDone \/ SetBindTwoGo \/ Recover

(***************************************************************************)
(* data_transfer(): join both threads, then poll last_stop                 *)
(***************************************************************************)
Join ==
  /\ mainPc = "join" /\ ReadAt("done") /\ WriteAt("done") /\ mainPc' = "poll"
  /\ UNCHANGED <<dataBuffer, semaphores, readdisk, writenet, dataout, hosts,
                 writeNetXoff, last_stop, exited, peer>>
Poll ==
  /\ ~Ended /\ mainPc = "poll" /\ last_stop /\ mainPc' = "done"
  /\ UNCHANGED <<dataBuffer, semaphores, readdisk, writenet, dataout, hosts,
                 writeNetXoff, last_stop, exited, peer>>

Stopped == Ended /\ UNCHANGED vars
Next == ReadDisk \/ WriteNet \/ ExceptionReciever \/ Join \/ Poll \/ Stopped

Spec == Init /\ [][Next]_vars
\* Every thread of the process is scheduled; send_packet() and connect() return,
\* by their timeouts at the latest.
FairSpec == Spec /\ WF_vars(ReadDisk) /\ WF_vars(WriteNet) /\ WF_vars(Join \/ Poll)

(***************************************************************************)
(* Properties                                                              *)
(***************************************************************************)
ExitReason == {"no", "open", "read", "send", "exception", "no_host", "cntlout_exists",
               "control", "too_old", "previous_file", "refused", "mismatch", "double"}
ReaderType ==
  [pc : {"open", "wait_wnet", "wait_bind", "fill", "read", "eof", "done"},
   bankno : Bank, fileno : File, seqNo : Nat, first : BOOLEAN]
WriterType ==
  [pc : {"start", "wait_rdisk", "send_fileno", "send_data", "release", "bind", "done",
         "rec_host", "rec_ack", "rec_connect", "rec_check", "rec_send"},
   bankno : Bank, retry : Nat, req : Nat, jj : Nat, eof : EofMark,
   ret : {"send_data", "release"}]
ConnectionType == [open : BOOLEAN, exception : BOOLEAN, wire : Seq(Packet)]
PeerType == [waits : ChunkType, hand : ChunkType]

\* Every variable keeps its type: the semaphores never go below zero and both
\* threads stay on banks of the ring.
TypeOK ==
  /\ dataBuffer \in [Bank -> BufferType]
  /\ semWriteNet \in [Bank -> Nat]
  /\ semReadDisk \in [Bank -> Nat]
  /\ semBindTwo \in [Bank -> Nat]
  /\ readdisk \in ReaderType
  /\ writenet \in WriterType
  /\ dataout \in ConnectionType
  /\ cntlOut \in BOOLEAN /\ writeNetXoff \in BOOLEAN /\ last_stop \in BOOLEAN
  /\ hostFlag \in [1 .. NoHosts -> {"AVAIL", "NOAVIL"}] /\ hostIte \in 1 .. NoHosts
  /\ mainPc \in {"join", "poll", "done"} /\ exited \in ExitReason
  /\ peer \in PeerType

Filling == readdisk.pc \in {"wait_bind", "fill", "read", "eof"}
Holding == writenet.pc \in {"send_fileno", "send_data", "release", "rec_host",
                            "rec_ack", "rec_connect", "rec_check", "rec_send"}

\* The semaphores of Buffer.h keep the two threads apart: readdisk() never
\* owns the bank that writenet() is sending or recovering from.
BankExclusive == Filling /\ Holding => readdisk.bankno # writenet.bankno

\* While writenet() works on a bank, through every retry and recovery, the bank
\* is complete: readdisk() defers set_rdisk_done() until the mark is known.
HandIntact == Holding => Complete(Hand)

\* The strengthening behind BankExclusive and HandIntact.  A bank has one token:
\* its semWriteNet, its semReadDisk, or a thread that took it.
ReaderOwns(b) == Filling /\ readdisk.bankno = b
WriterOwns(b) == Holding /\ writenet.bankno = b
OneToken ==
  \A b \in Bank : semWriteNet[b] + semReadDisk[b] + (IF ReaderOwns(b) THEN 1 ELSE 0)
                    + (IF WriterOwns(b) THEN 1 ELSE 0) = 1
ReadProgress ==
  /\ readdisk.pc \in {"wait_wnet", "wait_bind", "fill"} =>
       readdisk.seqNo <= LastSeq[readdisk.fileno]
  /\ readdisk.pc \in {"read", "eof"} =>
       /\ readdisk.seqNo \in 1 .. LastSeq[readdisk.fileno] + 1
       /\ dataBuffer[readdisk.bankno].fileno = readdisk.fileno
       /\ dataBuffer[readdisk.bankno].seqno = readdisk.seqNo - 1
  /\ readdisk.pc = "eof" => AtEof
ReadyComplete ==
  \A b \in Bank : semReadDisk[b] > 0 \/ WriterOwns(b) => Complete(dataBuffer[b])
Inductive == TypeOK /\ OneToken /\ ReadProgress /\ ReadyComplete

\* Chunks readdisk() has begun to read, over all the files.
ReadPos == FirstPos[readdisk.fileno] + IF readdisk.pc = "open" THEN 0 ELSE readdisk.seqNo
Overwritten(c) == ReadPos > Pos(c) + NO_BANK

\* What the bind semaphores do achieve: past the first round, the first
\* NO_BIND banks are filled only once the chunk NO_BIND before is sent.
BindHoldsBack ==
  flag_bind /\ readdisk.pc = "fill" /\ ~readdisk.first /\ readdisk.bankno < NO_BIND =>
    \E i \in DOMAIN dataout.wire :
      dataout.wire[i].kind = "data" /\ Pos(dataout.wire[i].chunk) = ReadPos - NO_BIND

Stream == INSTANCE ChunkStream WITH wire <- dataout.wire
\* With no fault dollyS implements the abstract connection: the packets of its
\* data connection are the files in order, complete and intact (data_transfer()).
SendsTheStream == Stream!Spec

\* A recovery gives the next host what it asked for: if it waits in the file
\* being sent and its chunk was not overwritten before the resend ended, the new
\* connection starts with that chunk and goes on with no gap, no repetition and no
\* torn chunk, back into writenet()'s own loop (recover_sending(), resend loop).
RecoveryServes ==
  LET wire == dataout.wire
  IN dataout.open /\ peer # Nobody /\ wire # <<>> /\ ~Overwritten(peer.waits)
       /\ peer.waits.fileno = peer.hand.fileno
     => wire[1] = ChunkPacket(peer.waits) /\ InOrder(wire)

\* recover_sending() refuses a request only for a reason: the chunk is more than
\* NO_BIND behind, or its bank was already read into again.
RefusalJustified ==
  peer.waits.fileno = peer.hand.fileno /\ exited \in {"too_old", "previous_file", "mismatch"} =>
    Pos(peer.hand) - Pos(peer.waits) > NO_BIND \/ Overwritten(peer.waits)

\* dollyS always ends: the transfer is done or the process exits, whatever the
\* connections do; no semaphore is left that a thread waits on for ever.
AlwaysEnds == <>Ended

\* Claim of ServThread.cpp:291, "is guranteed by BIND mech.": when a recovery
\* starts, the chunks NO_BIND back from the one in hand are still in their banks.
BindGuarantee ==
  writenet.pc = "rec_ack" =>
    \A k \in 0 .. NO_BIND : k <= Hand.seqno =>
      LET b == dataBuffer[(writenet.bankno + NO_BANK - k) % NO_BANK]
      IN b.body = Chunk(Hand.fileno, Hand.seqno - k)

\* Claim of ServThread.cpp:298-303: a client that waits for a chunk of the previous
\* file is told apart (and refused).
PreviousFileRefused ==
  peer # Nobody /\ peer.waits.fileno < peer.hand.fileno => dataout.wire = <<>>
=============================================================================
