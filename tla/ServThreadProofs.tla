-------------------------- MODULE ServThreadProofs --------------------------
(***************************************************************************)
(* Theorems about dollyS's data transfer, for every number of banks, files *)
(* and hosts and whatever the connections do.                              *)
(***************************************************************************)
EXTENDS ServThread, DataChunksProofs, TLAPS

LEMMA BanksOfTheRing ==
  /\ NO_BANK \in Nat \ {0} /\ NO_BIND \in Nat
  /\ 0 \in Bank /\ Bank \subseteq Nat
  /\ \A i \in Int : i % NO_BANK \in Bank
  /\ \A b \in Bank : NextBank(b) \in Bank /\ BindBank(b) \in Bank
<1>1. NO_BANK \in Nat \ {0} /\ NO_BIND \in Nat  BY RingAssumption
<1>2. 0 \in Bank /\ Bank \subseteq Nat  BY <1>1 DEF Bank
<1>3. \A i \in Int : i % NO_BANK \in Bank  BY <1>1 DEF Bank
<1>4. ASSUME NEW b \in Bank PROVE NextBank(b) \in Bank  BY <1>1 DEF Bank, NextBank
<1>5. ASSUME NEW b \in Bank PROVE BindBank(b) \in Bank
  <2>1. b - NO_BIND + NO_BANK \in Int  BY <1>1, <1>2
  <2> QED BY <2>1, <1>3 DEF BindBank
<1> QED BY <1>1, <1>2, <1>3, <1>4, <1>5

\* The chunks of the files are numbered by naturals.
LEMMA ChunkTypes ==
  /\ \A c \in Chunks : c \in ChunkType /\ c.fileno \in File /\ c.seqno \in Nat
  /\ \A f, s \in Int : Chunk(f, s) \in ChunkType
  /\ Torn \in ChunkType /\ Nobody \in PeerType
  /\ 0 \in File /\ File \subseteq Nat
<1>1. Torn \in ChunkType /\ Nobody \in PeerType
  BY TornIsTyped DEF Nobody, PeerType
<1> QED BY <1>1, FileTypes, ChunkIsTyped, ChunksAreTyped

-----------------------------------------------------------------------------
(* Type correctness *)

LEMMA InitType == Init => TypeOK
<1> SUFFICES ASSUME Init PROVE TypeOK  OBVIOUS
<1>1. dataBuffer \in [Bank -> BufferType]  BY ChunkTypes DEF Init, BufferType, EofMark
<1>2. /\ semWriteNet \in [Bank -> Nat] /\ semReadDisk \in [Bank -> Nat]
      /\ semBindTwo \in [Bank -> Nat]
  BY DEF Init, InitiallyDone
<1>3. readdisk \in ReaderType  BY ChunkTypes, BanksOfTheRing DEF Init, ReaderType
<1>4. writenet \in WriterType  BY BanksOfTheRing DEF Init, WriterType, EofMark
<1>5. dataout \in ConnectionType  BY DEF Init, ConnectionType
<1>6. hostIte \in 1 .. NoHosts  BY NetAssumption DEF Init
<1> QED BY <1>1, <1>2, <1>3, <1>4, <1>5, <1>6, ChunkTypes DEF Init, TypeOK, ExitReason

LEMMA ReadDiskType == TypeOK /\ ReadDisk => TypeOK'
<1> SUFFICES ASSUME TypeOK, ReadDisk PROVE TypeOK'  OBVIOUS
<1> USE DEF TypeOK, ExitReason, ReadUnchanged, hosts, semaphores
<1>1. /\ readdisk.bankno \in Bank /\ readdisk.seqNo \in Nat
      /\ readdisk.fileno \in File /\ readdisk.fileno \in Int
  <2>1. readdisk \in ReaderType  OBVIOUS
  <2>2. File \subseteq Int  BY ChunkTypes
  <2> HIDE DEF TypeOK
  <2> QED BY <2>1, <2>2 DEF ReaderType
<1>2. ASSUME NEW m \in EofMark, dataBuffer' = Marked(m)
      PROVE  dataBuffer' \in [Bank -> BufferType]
  <2>1. readdisk.seqNo - 1 \in Int  BY <1>1
  <2>2. Chunk(readdisk.fileno, readdisk.seqNo - 1) \in ChunkType  BY <1>1, <2>1, ChunkTypes
  <2> QED BY <1>1, <1>2, <2>2 DEF Marked, BufferType
<1>3. ASSUME NEW p \in {"wait_wnet", "open", "done"}, NEW f \in File, PassBank(p, f)
      PROVE  semReadDisk' \in [Bank -> Nat] /\ readdisk' \in ReaderType
  <2>1. NextBank(readdisk.bankno) \in Bank  BY <1>1, BanksOfTheRing
  <2>2. semReadDisk' \in [Bank -> Nat]  BY <1>1, <1>3 DEF PassBank
  <2>3. readdisk' \in ReaderType  BY <1>1, <1>3, <2>1 DEF PassBank, ReaderType
  <2> QED BY <2>2, <2>3
<1>4. CASE OpenFile
  <2>1. [readdisk EXCEPT !.pc = "wait_wnet", !.seqNo = 0] \in ReaderType  BY DEF ReaderType
  <2> QED BY <1>4, <2>1 DEF OpenFile
<1>5. CASE WaitWnetDone
  <2>1. semWriteNet' \in [Bank -> Nat]  BY <1>1, <1>5 DEF WaitWnetDone
  <2>2. readdisk' \in ReaderType  BY <1>5 DEF WaitWnetDone, ReadGoto, ReaderType
  <2> QED BY <1>5, <2>1, <2>2 DEF WaitWnetDone
<1>6. CASE WaitBindTwo
  <2>1. BindBank(readdisk.bankno) \in Bank  BY <1>1, BanksOfTheRing
  <2>2. semBindTwo' \in [Bank -> Nat]  BY <1>6, <2>1 DEF WaitBindTwo
  <2>3. readdisk' \in ReaderType  BY <1>6 DEF WaitBindTwo, ReadGoto, ReaderType
  <2> QED BY <1>6, <2>2, <2>3 DEF WaitBindTwo
<1>7. CASE ReadBegin
  <2>1. dataBuffer' \in [Bank -> BufferType]
    BY <1>1, <1>7, ChunkTypes DEF ReadBegin, BufferType, EofMark
  <2>2. readdisk.seqNo + 1 \in Nat  BY <1>1
  <2>3. [readdisk EXCEPT !.pc = "read", !.seqNo = @ + 1] \in ReaderType
    BY <2>2 DEF ReaderType
  <2> QED BY <1>7, <2>1, <2>3 DEF ReadBegin
<1>8. CASE ReadEnd  BY <1>1, <1>2, <1>3, <1>8 DEF ReadEnd, EofMark
<1>9. CASE ReadEof
  <2>1. readdisk' \in ReaderType  BY <1>9 DEF ReadEof, ReadGoto, ReaderType
  <2> QED BY <1>2, <1>9, <2>1 DEF ReadEof, EofMark
<1>10. CASE ReadFail  BY <1>10 DEF ReadFail
<1>11. CASE NextFile
  <2>1. readdisk.fileno + 1 \in File  BY <1>1, <1>11, FilesAssumption DEF NextFile, File
  <2> QED BY <1>2, <1>3, <1>11, <2>1 DEF NextFile, EofMark
<1>12. CASE LastFile  BY <1>1, <1>2, <1>3, <1>12 DEF LastFile, EofMark
<1> QED BY <1>4, <1>5, <1>6, <1>7, <1>8, <1>9, <1>10, <1>11, <1>12 DEF ReadDisk

\* What the writer puts on the connection is a packet.
LEMMA PacketTypes ==
  ASSUME TypeOK
  PROVE  /\ \A b \in Bank : DataPacket(dataBuffer[b]) \in Packet
         /\ \A b \in Bank : FilenoPacket(dataBuffer[b].fileno) \in Packet
         /\ Fragment \in Packet
<1>1. ASSUME NEW b \in Bank
      PROVE  dataBuffer[b] \in BufferType /\ dataBuffer[b].fileno \in Int
  BY DEF TypeOK, BufferType
<1> QED BY <1>1, DataIsPacket, FilenoIsPacket, TornIsTyped

LEMMA PutType ==
  ASSUME TypeOK, NEW packet \in Packet, Put(packet)
  PROVE  dataout' \in ConnectionType
<1>1. dataout \in ConnectionType  BY DEF TypeOK
<1>2. Append(dataout.wire, packet) \in Seq(Packet)  BY <1>1 DEF ConnectionType
<1> QED BY <1>1, <1>2 DEF Put, ConnectionType

LEMMA CutType == TypeOK /\ Cut => dataout' \in ConnectionType
  BY PacketTypes, PutType DEF Cut, TypeOK

LEMMA SendType ==
  ASSUME TypeOK, NEW packet \in Packet, NEW pc \in {"send_data", "release"},
         SendPacket(packet, pc)
  PROVE  TypeOK'
<1> USE DEF WriteUnchanged, hosts, semaphores
<1>1. writenet \in WriterType /\ writenet.retry \in Nat  BY DEF TypeOK, WriterType
<1>2. [writenet EXCEPT !.pc = pc, !.retry = 0] \in WriterType  BY <1>1 DEF WriterType
<1>3. CASE SendSuccess(packet, pc)
  BY <1>2, <1>3, PutType DEF SendPacket, SendSuccess, GoOn, TypeOK
<1>4. CASE SendRetry(pc)
  <2>1. writenet.retry + 1 \in Nat  BY <1>1
  <2>2. [writenet EXCEPT !.retry = @ + 1] \in WriterType  BY <1>1, <2>1 DEF WriterType
  <2>3. writenet' \in WriterType  BY <1>2, <1>4, <2>2 DEF SendRetry, GoOn
  <2> QED BY <1>4, <2>3, CutType DEF SendPacket, SendRetry, TypeOK
<1>5. CASE SendLost(pc)
  <2>1. [writenet EXCEPT !.pc = "rec_host", !.ret = pc] \in WriterType  BY <1>1 DEF WriterType
  <2> QED BY <1>5, <2>1, CutType DEF SendPacket, SendLost, TypeOK
<1>6. CASE SendError  BY <1>6 DEF SendPacket, SendError, TypeOK, ExitReason
<1> QED BY <1>3, <1>4, <1>5, <1>6 DEF SendPacket

LEMMA RecoverType == TypeOK /\ Recover => TypeOK'
<1> SUFFICES ASSUME TypeOK, Recover PROVE TypeOK'  OBVIOUS
<1> USE DEF WriteUnchanged, hosts, semaphores
<1>1. /\ writenet \in WriterType /\ writenet.jj \in Nat /\ writenet.bankno \in Bank
      /\ writenet.ret \in {"send_data", "release"}
  BY DEF TypeOK, WriterType
<1>2. \A pc \in {"rec_ack", "rec_check", "rec_send"} :
        [writenet EXCEPT !.pc = pc] \in WriterType
  BY <1>1 DEF WriterType
<1>3. CASE RecoverHost
  <2>1. dataout' \in ConnectionType  BY <1>3 DEF RecoverHost, ConnectionType
  <2>2. hostFlag' \in [1 .. NoHosts -> {"AVAIL", "NOAVIL"}]  BY <1>3 DEF RecoverHost, TypeOK
  <2>3. hostIte' \in 1 .. NoHosts  BY <1>3, NetAssumption DEF RecoverHost, TypeOK
  <2>4. writenet' \in WriterType  BY <1>1, <1>2, <1>3 DEF RecoverHost, RecoverGoto
  <2>5. /\ writeNetXoff' \in BOOLEAN /\ cntlOut' \in BOOLEAN /\ exited' \in ExitReason
    BY <1>3 DEF RecoverHost, RecoverGoto, TypeOK, ExitReason
  <2> QED BY <1>3, <2>1, <2>2, <2>3, <2>4, <2>5 DEF RecoverHost, TypeOK
<1>4. CASE RecoverAck
  <2>1. CASE Exit("control") /\ peer' = peer /\ dataout' = dataout
    BY <1>4, <2>1 DEF RecoverAck, Exit, TypeOK, ExitReason
  <2>2. ASSUME NEW c \in Chunks, peer' = [waits |-> c, hand |-> HandChunk],
               writenet' = [writenet EXCEPT !.pc = "rec_connect", !.req = c.seqno, !.jj = 0]
        PROVE  peer' \in PeerType /\ writenet' \in WriterType
    <3>1. c \in ChunkType /\ c.seqno \in Nat  BY ChunkTypes
    <3>2. dataBuffer[writenet.bankno] \in BufferType  BY <1>1 DEF TypeOK
    <3>3. Hand.fileno \in Int /\ Hand.seqno \in Int  BY <3>2 DEF Hand, BufferType
    <3>4. HandChunk \in ChunkType  BY <3>3, ChunkTypes DEF HandChunk, HeaderOf
    <3>5. writenet' \in WriterType  BY <1>1, <2>2, <3>1 DEF WriterType
    <3> QED BY <2>2, <3>1, <3>4, <3>5 DEF PeerType
  <2>3. CASE ~(Exit("control") /\ peer' = peer /\ dataout' = dataout)
    BY <1>4, <2>2, <2>3 DEF RecoverAck, TypeOK, ExitReason
  <2> QED BY <2>1, <2>3
<1>5. CASE RecoverConnect
  <2>1. [dataout EXCEPT !.open = TRUE] \in ConnectionType  BY DEF TypeOK, ConnectionType
  <2> QED BY <1>2, <1>5, <2>1 DEF RecoverConnect, RecoverGoto, Exit, TypeOK, ExitReason
<1>6. CASE RecoverCheck
  BY <1>2, <1>6 DEF RecoverCheck, RecoverGoto, Exit, TypeOK, ExitReason
<1>7. CASE RecoverSend
  <2>1. ResendBank \in Bank
    <3>1. writenet.bankno \in Int /\ writenet.req \in Int /\ writenet.jj \in Int
      <4>1. Bank \subseteq Int /\ Nat \subseteq Int  BY BanksOfTheRing
      <4> QED BY <1>1, <4>1 DEF WriterType
    <3>2. dataBuffer[writenet.bankno] \in BufferType  BY <1>1 DEF TypeOK
    <3>3. Hand.seqno \in Int  BY <3>2 DEF Hand, BufferType
    <3>4. ResendCount \in Int  BY <3>1, <3>3 DEF ResendCount
    <3>5. NO_BANK \in Int /\ Bank \subseteq Int  BY BanksOfTheRing
    <3>6. writenet.bankno + NO_BANK - (ResendCount - 1) \in Int  BY <3>1, <3>4, <3>5
    <3>7. ReBankno \in Int  BY <3>5, <3>6, BanksOfTheRing DEF ReBankno
    <3>8. ReBankno + writenet.jj \in Int  BY <3>1, <3>7
    <3> QED BY <3>8, BanksOfTheRing DEF ResendBank
  <2>2. ASSUME NEW header \in ResentHeaders PROVE Resent(header) \in Packet
    <3>1. dataBuffer[ResendBank] \in BufferType  BY <2>1 DEF TypeOK
    <3>2. dataBuffer[writenet.bankno] \in BufferType  BY <1>1 DEF TypeOK
    <3>3. writenet.req + writenet.jj \in Int  BY <1>1 DEF WriterType
    <3>4. header \in ChunkType
      BY <3>1, <3>2, <3>3, <2>2 DEF ResentHeaders, HeaderOf, Chunk, Hand, BufferType, ChunkType
    <3> QED BY <3>1, <3>4 DEF Resent, Packet, BufferType
  <2>3. writenet.jj + 1 \in Nat  BY <1>1
  <2>4. [writenet EXCEPT !.pc = "rec_check", !.jj = @ + 1] \in WriterType
    BY <1>1, <2>3 DEF WriterType
  <2>5. [writenet EXCEPT !.pc = writenet.ret, !.retry = 0] \in WriterType
    BY <1>1 DEF WriterType
  <2>6. CASE (\E header \in ResentHeaders : Put(Resent(header))) /\ exited' = exited
    <3>1. dataout' \in ConnectionType  BY <2>2, <2>6, PutType
    <3>2. CASE Exit("double")  BY <1>7, <3>2 DEF RecoverSend, Exit, TypeOK, ExitReason
    <3>3. CASE ~Exit("double")
      <4>1. writenet' \in WriterType /\ writeNetXoff' \in BOOLEAN
        BY <1>7, <2>4, <2>5, <3>3 DEF RecoverSend, GoOn, TypeOK
      <4> QED BY <1>7, <2>6, <3>1, <4>1 DEF RecoverSend, TypeOK
    <3> QED BY <3>2, <3>3
  <2>7. CASE Exit("double")  BY <1>7, <2>7 DEF RecoverSend, Exit, TypeOK, ExitReason
  <2> QED BY <1>7, <2>6, <2>7 DEF RecoverSend
<1> QED BY <1>3, <1>4, <1>5, <1>6, <1>7 DEF Recover

LEMMA StepType == TypeOK /\ [Next]_vars => TypeOK'
<1> SUFFICES ASSUME TypeOK, [Next]_vars PROVE TypeOK'  OBVIOUS
<1> USE DEF WriteUnchanged, hosts, semaphores
<1>1. writenet \in WriterType /\ writenet.bankno \in Bank  BY DEF TypeOK, WriterType
<1>2. dataBuffer[writenet.bankno] \in BufferType  BY <1>1 DEF TypeOK
<1>3. CASE WriteStart
  <2>1. [dataout EXCEPT !.exception = TRUE] \in ConnectionType  BY DEF TypeOK, ConnectionType
  <2>2. [writenet EXCEPT !.pc = "wait_rdisk"] \in WriterType  BY <1>1 DEF WriterType
  <2> QED BY <1>3, <2>1, <2>2 DEF WriteStart, TypeOK
<1>4. CASE WaitRdiskDone
  <2>1. semReadDisk' \in [Bank -> Nat]  BY <1>1, <1>4 DEF WaitRdiskDone, TypeOK
  <2>2. \A pc \in {"send_fileno", "send_data"} :
          [writenet EXCEPT !.retry = 0, !.pc = pc] \in WriterType
    BY <1>1 DEF WriterType
  <2>3. writenet' \in WriterType  BY <1>4, <2>2 DEF WaitRdiskDone
  <2> QED BY <1>4, <2>1, <2>3 DEF WaitRdiskDone, TypeOK
<1>5. CASE SendFileno  BY <1>1, <1>5, PacketTypes, SendType DEF SendFileno, Hand
<1>6. CASE SendData  BY <1>1, <1>6, PacketTypes, SendType DEF SendData, Hand
<1>7. CASE SetWnetDone
  <2>1. semWriteNet' \in [Bank -> Nat]  BY <1>1, <1>7 DEF SetWnetDone, TypeOK
  <2>2. Hand.eof \in EofMark  BY <1>2 DEF Hand, BufferType
  <2>3. [writenet EXCEPT !.pc = "bind", !.eof = Hand.eof] \in WriterType
    BY <1>1, <2>2 DEF WriterType
  <2> QED BY <1>7, <2>1, <2>3 DEF SetWnetDone, TypeOK
<1>8. CASE SetBindTwoGo
  <2>1. semBindTwo' \in [Bank -> Nat]  BY <1>1, <1>8 DEF SetBindTwoGo, TypeOK
  <2>2. NextBank(writenet.bankno) \in Bank  BY <1>1, BanksOfTheRing
  <2>3. /\ [writenet EXCEPT !.pc = "done"] \in WriterType
        /\ [writenet EXCEPT !.pc = "wait_rdisk", !.bankno = NextBank(@)] \in WriterType
    BY <1>1, <2>2 DEF WriterType
  <2> QED BY <1>8, <2>1, <2>3 DEF SetBindTwoGo, TypeOK
<1>9. CASE ExceptionReciever  BY <1>9 DEF ExceptionReciever, TypeOK, ExitReason
<1>10. CASE Join \/ Poll  BY <1>10 DEF Join, Poll, TypeOK
<1>11. CASE UNCHANGED vars  BY <1>11 DEF vars, TypeOK
<1> QED BY <1>3, <1>4, <1>5, <1>6, <1>7, <1>8, <1>9, <1>10, <1>11, ReadDiskType, RecoverType
     DEF Next, WriteNet, Stopped

\* Every reachable state is well typed: in particular no semaphore is taken below
\* zero and no thread leaves the ring, in any order of the two threads' steps.
THEOREM TypeCorrect == Spec => []TypeOK
<1>1. Init => TypeOK  BY InitType
<1>2. TypeOK /\ [Next]_vars => TypeOK'  BY StepType
<1> QED BY <1>1, <1>2, PTL DEF Spec

-----------------------------------------------------------------------------
(***************************************************************************)
(* One token per bank.  A step moves the token of at most one bank: from   *)
(* a semaphore to the thread that waits on it, or back to a semaphore.     *)
(***************************************************************************)
LEMMA InitToken == Init => OneToken
  BY DEF Init, InitiallyDone, OneToken, ReaderOwns, WriterOwns, Filling, Holding

\* Steps that take no token, give none and keep both threads where they were.
LEMMA KeepToken ==
  ASSUME OneToken, UNCHANGED <<semWriteNet, semReadDisk>>,
         Filling' = Filling, Filling => readdisk'.bankno = readdisk.bankno,
         Holding' = Holding, Holding => writenet'.bankno = writenet.bankno
  PROVE  OneToken'
  BY DEF OneToken, ReaderOwns, WriterOwns

\* Sending and recovering, however they end, leave the bank with the writer and
\* touch nothing of readdisk()'s.
LEMMA WriterKeepsBank ==
  ASSUME TypeOK, SendFileno \/ SendData \/ Recover
  PROVE  /\ Holding /\ Holding' /\ writenet'.bankno = writenet.bankno
         /\ UNCHANGED <<dataBuffer, semWriteNet, semReadDisk, readdisk>>
<1> USE DEF WriteUnchanged, semaphores
<1>1. writenet \in WriterType /\ writenet.ret \in {"send_data", "release"}
  BY DEF TypeOK, WriterType
<1>2. ASSUME NEW p, NEW pc \in {"send_data", "release"}, Holding, SendPacket(p, pc)
      PROVE  /\ Holding' /\ writenet'.bankno = writenet.bankno
             /\ UNCHANGED <<dataBuffer, semWriteNet, semReadDisk, readdisk>>
  BY <1>1, <1>2 DEF SendPacket, SendSuccess, SendRetry, SendLost, SendError, GoOn,
                    WriterType, Holding
<1>3. CASE SendFileno
  <2>1. Holding  BY <1>3 DEF SendFileno, WriteAt, Holding
  <2> QED BY <1>2, <1>3, <2>1 DEF SendFileno
<1>4. CASE SendData
  <2>1. Holding  BY <1>4 DEF SendData, WriteAt, Holding
  <2> QED BY <1>2, <1>4, <2>1 DEF SendData
<1>5. CASE Recover
  <2>1. Holding
    BY <1>5 DEF Recover, RecoverHost, RecoverAck, RecoverConnect, RecoverCheck,
                RecoverSend, WriteAt, Holding
  <2>2. UNCHANGED <<dataBuffer, semWriteNet, semReadDisk, readdisk>>
    BY <1>5 DEF Recover, RecoverHost, RecoverAck, RecoverConnect, RecoverCheck, RecoverSend
  <2>3. Holding' /\ writenet'.bankno = writenet.bankno
    <3>1. CASE RecoverHost
      BY <1>1, <2>1, <3>1 DEF RecoverHost, RecoverGoto, WriterType, Holding
    <3>2. CASE RecoverAck  BY <1>1, <2>1, <3>2 DEF RecoverAck, Exit, WriterType, Holding
    <3>3. CASE RecoverConnect
      BY <1>1, <2>1, <3>3 DEF RecoverConnect, Exit, RecoverGoto, WriterType, Holding
    <3>4. CASE RecoverCheck
      BY <1>1, <2>1, <3>4 DEF RecoverCheck, Exit, RecoverGoto, WriterType, Holding
    <3>5. CASE RecoverSend
      BY <1>1, <2>1, <3>5 DEF RecoverSend, Exit, GoOn, WriterType, Holding
    <3> QED BY <1>5, <3>1, <3>2, <3>3, <3>4, <3>5 DEF Recover
  <2> QED BY <2>1, <2>2, <2>3
<1> QED BY <1>3, <1>4, <1>5

LEMMA ReadDiskToken == TypeOK /\ OneToken /\ ReadDisk => OneToken'
<1> SUFFICES ASSUME TypeOK, OneToken, ReadDisk PROVE OneToken'  OBVIOUS
<1> USE DEF ReadUnchanged, semaphores
<1>1. /\ readdisk \in ReaderType /\ readdisk.bankno \in Bank
      /\ semWriteNet \in [Bank -> Nat] /\ semReadDisk \in [Bank -> Nat]
  BY DEF TypeOK, ReaderType
<1>2. CASE \/ OpenFile \/ WaitBindTwo \/ ReadBegin \/ ReadEof \/ ReadFail
  <2>1. /\ UNCHANGED <<semWriteNet, semReadDisk, writenet>>
        /\ readdisk'.bankno = readdisk.bankno /\ Filling' = Filling
    <3>1. CASE OpenFile
      <4>1. ~Filling /\ UNCHANGED <<semWriteNet, semReadDisk, writenet>>
        BY <3>1 DEF OpenFile, ReadAt, Filling
      <4>2. CASE readdisk' = readdisk  BY <4>1, <4>2 DEF Filling
      <4>3. CASE readdisk' = [readdisk EXCEPT !.pc = "wait_wnet", !.seqNo = 0]
        <5>1. readdisk'.pc = "wait_wnet" /\ readdisk'.bankno = readdisk.bankno
          BY <1>1, <4>3 DEF ReaderType
        <5> QED BY <4>1, <5>1 DEF Filling
      <4> QED BY <3>1, <4>2, <4>3 DEF OpenFile
    <3>2. CASE WaitBindTwo
      BY <1>1, <3>2 DEF WaitBindTwo, ReadAt, ReadGoto, ReaderType, Filling
    <3>3. CASE ReadBegin  BY <1>1, <3>3 DEF ReadBegin, ReadAt, ReaderType, Filling
    <3>4. CASE ReadEof  BY <1>1, <3>4 DEF ReadEof, ReadAt, ReadGoto, ReaderType, Filling
    <3>5. CASE ReadFail  BY <3>5 DEF ReadFail, Filling
    <3> QED BY <1>2, <3>1, <3>2, <3>3, <3>4, <3>5
  <2>2. Holding' = Holding  BY <2>1 DEF Holding
  <2> QED BY <2>1, <2>2, KeepToken
<1>3. CASE WaitWnetDone
  <2>1. /\ ~Filling /\ Filling' /\ readdisk'.bankno = readdisk.bankno
        /\ semWriteNet[readdisk.bankno] > 0
        /\ semWriteNet' = [semWriteNet EXCEPT ![readdisk.bankno] = @ - 1]
        /\ UNCHANGED <<semReadDisk, writenet>>
    BY <1>1, <1>3 DEF WaitWnetDone, ReadAt, ReadGoto, ReaderType, Filling
  <2>2. ASSUME NEW b \in Bank
        PROVE semWriteNet'[b] + (IF ReaderOwns(b)' THEN 1 ELSE 0)
                = semWriteNet[b] + (IF ReaderOwns(b) THEN 1 ELSE 0)
    BY <1>1, <2>1 DEF ReaderOwns
  <2> QED BY <1>1, <2>1, <2>2 DEF OneToken, WriterOwns, Holding, ReaderOwns
<1>4. CASE ReadEnd \/ NextFile \/ LastFile
  <2>1. /\ Filling /\ ~Filling'
        /\ semReadDisk' = [semReadDisk EXCEPT ![readdisk.bankno] = @ + 1]
        /\ UNCHANGED <<semWriteNet, writenet>>
    BY <1>1, <1>4 DEF ReadEnd, NextFile, LastFile, PassBank, ReadAt, ReaderType, Filling
  <2>2. ASSUME NEW b \in Bank
        PROVE semReadDisk'[b] + (IF ReaderOwns(b)' THEN 1 ELSE 0)
                = semReadDisk[b] + (IF ReaderOwns(b) THEN 1 ELSE 0)
    BY <1>1, <2>1 DEF ReaderOwns
  <2> QED BY <1>1, <2>1, <2>2 DEF OneToken, WriterOwns, Holding, ReaderOwns
<1> QED BY <1>2, <1>3, <1>4 DEF ReadDisk

LEMMA StepToken == TypeOK /\ OneToken /\ [Next]_vars => OneToken'
<1> SUFFICES ASSUME TypeOK, OneToken, [Next]_vars PROVE OneToken'  OBVIOUS
<1> USE DEF WriteUnchanged, semaphores
<1>1. /\ writenet \in WriterType /\ writenet.bankno \in Bank
      /\ semWriteNet \in [Bank -> Nat] /\ semReadDisk \in [Bank -> Nat]
      /\ writenet.ret \in {"send_data", "release"}
  BY DEF TypeOK, WriterType
<1>2. CASE \/ SendFileno \/ SendData \/ Recover
  BY <1>2, WriterKeepsBank, KeepToken DEF Filling
<1>6. CASE WriteStart \/ SetBindTwoGo
  <2>1. CASE WriteStart
    BY <1>1, <2>1, KeepToken DEF WriteStart, WriteAt, WriterType, Holding, Filling
  <2>2. CASE SetBindTwoGo
    BY <1>1, <2>2, KeepToken DEF SetBindTwoGo, WriteAt, WriterType, Holding, Filling
  <2> QED BY <1>6, <2>1, <2>2
<1>3. CASE WaitRdiskDone
  <2>1. /\ ~Holding /\ Holding' /\ writenet'.bankno = writenet.bankno
        /\ semReadDisk[writenet.bankno] > 0
        /\ semReadDisk' = [semReadDisk EXCEPT ![writenet.bankno] = @ - 1]
        /\ UNCHANGED <<semWriteNet, readdisk>>
    BY <1>1, <1>3 DEF WaitRdiskDone, WriteAt, WriterType, Holding
  <2>2. ASSUME NEW b \in Bank
        PROVE semReadDisk'[b] + (IF WriterOwns(b)' THEN 1 ELSE 0)
                = semReadDisk[b] + (IF WriterOwns(b) THEN 1 ELSE 0)
    BY <1>1, <2>1 DEF WriterOwns
  <2> QED BY <1>1, <2>1, <2>2 DEF OneToken, WriterOwns, ReaderOwns, Filling
<1>4. CASE SetWnetDone
  <2>1. /\ Holding /\ ~Holding'
        /\ semWriteNet' = [semWriteNet EXCEPT ![writenet.bankno] = @ + 1]
        /\ UNCHANGED <<semReadDisk, readdisk>>
    BY <1>1, <1>4 DEF SetWnetDone, WriteAt, WriterType, Holding
  <2>2. ASSUME NEW b \in Bank
        PROVE semWriteNet'[b] + (IF WriterOwns(b)' THEN 1 ELSE 0)
                = semWriteNet[b] + (IF WriterOwns(b) THEN 1 ELSE 0)
    BY <1>1, <2>1 DEF WriterOwns
  <2> QED BY <1>1, <2>1, <2>2 DEF OneToken, WriterOwns, ReaderOwns, Filling
<1>5. CASE ExceptionReciever \/ Join \/ Poll \/ UNCHANGED vars
  <2>1. UNCHANGED <<semWriteNet, semReadDisk, readdisk, writenet>>
    BY <1>5 DEF ExceptionReciever, Join, Poll, vars
  <2> QED BY <2>1, KeepToken DEF Filling, Holding
<1> QED BY <1>2, <1>3, <1>4, <1>5, <1>6, ReadDiskToken DEF Next, WriteNet, Stopped

-----------------------------------------------------------------------------
(***************************************************************************)
(* Completeness of the bank in hand.  The reader writes only the bank it   *)
(* owns, whose token is then nowhere else, and gives it away complete.     *)
(***************************************************************************)
LEMMA ReaderAlone ==
  ASSUME TypeOK, OneToken, Filling
  PROVE  semReadDisk[readdisk.bankno] = 0 /\ ~WriterOwns(readdisk.bankno)
<1>1. /\ readdisk.bankno \in Bank /\ ReaderOwns(readdisk.bankno)
      /\ semWriteNet \in [Bank -> Nat] /\ semReadDisk \in [Bank -> Nat]
  BY DEF TypeOK, ReaderType, ReaderOwns
<1> QED BY <1>1 DEF OneToken

LEMMA InitProgress == Init => ReadProgress /\ ReadyComplete
  BY DEF Init, ReadProgress, ReadyComplete, WriterOwns, Holding

\* What Marked does to the buffer of the bank in the reader's hand.
LEMMA MarkedBank ==
  ASSUME TypeOK, NEW m, dataBuffer' = Marked(m)
  PROVE  /\ dataBuffer'[readdisk.bankno].fileno = dataBuffer[readdisk.bankno].fileno
         /\ dataBuffer'[readdisk.bankno].seqno = dataBuffer[readdisk.bankno].seqno
         /\ dataBuffer'[readdisk.bankno].eof = m
         /\ dataBuffer'[readdisk.bankno].body = Chunk(readdisk.fileno, readdisk.seqNo - 1)
         /\ \A b \in Bank \ {readdisk.bankno} : dataBuffer'[b] = dataBuffer[b]
<1>1. readdisk.bankno \in Bank /\ dataBuffer \in [Bank -> BufferType]
  BY DEF TypeOK, ReaderType
<1>2. dataBuffer[readdisk.bankno] \in BufferType  BY <1>1
<1> QED BY <1>1, <1>2 DEF Marked, BufferType

LEMMA StepProgress == TypeOK /\ ReadProgress /\ [Next]_vars => ReadProgress'
<1> SUFFICES ASSUME TypeOK, ReadProgress, [Next]_vars PROVE ReadProgress'  OBVIOUS
<1>1. /\ readdisk \in ReaderType /\ readdisk.bankno \in Bank /\ readdisk.seqNo \in Nat
      /\ readdisk.fileno \in File /\ LastSeq[readdisk.fileno] \in Nat
      /\ dataBuffer \in [Bank -> BufferType]
  BY FilesAssumption DEF TypeOK, ReaderType
<1>2. CASE OpenFile
  <2>1. CASE readdisk' = readdisk  BY <1>2, <2>1 DEF OpenFile, ReadProgress, AtEof
  <2>2. CASE readdisk' = [readdisk EXCEPT !.pc = "wait_wnet", !.seqNo = 0]
    <3>1. readdisk'.pc = "wait_wnet" /\ readdisk'.seqNo = 0 /\ readdisk'.fileno = readdisk.fileno
      BY <1>1, <2>2 DEF ReaderType
    <3> QED BY <1>1, <3>1 DEF ReadProgress
  <2> QED BY <1>2, <2>1, <2>2 DEF OpenFile
<1>3. CASE WaitWnetDone
  BY <1>1, <1>3 DEF WaitWnetDone, ReadAt, ReadGoto, ReaderType, ReadProgress
<1>4. CASE WaitBindTwo
  BY <1>1, <1>4 DEF WaitBindTwo, ReadAt, ReadGoto, ReaderType, ReadProgress
<1>5. CASE ReadBegin
  <2>1. /\ dataBuffer'[readdisk.bankno].fileno = readdisk.fileno
        /\ dataBuffer'[readdisk.bankno].seqno = readdisk.seqNo
    BY <1>1, <1>5 DEF ReadBegin
  <2>2. /\ readdisk'.pc = "read" /\ readdisk'.seqNo = readdisk.seqNo + 1
        /\ readdisk'.fileno = readdisk.fileno /\ readdisk'.bankno = readdisk.bankno
    BY <1>1, <1>5 DEF ReadBegin, ReaderType
  <2>3. readdisk.seqNo <= LastSeq[readdisk.fileno]  BY <1>5 DEF ReadBegin, ReadAt, ReadProgress
  <2> QED BY <1>1, <2>1, <2>2, <2>3 DEF ReadProgress
<1>6. CASE ReadEnd
  BY <1>1, <1>6 DEF ReadEnd, PassBank, ReadAt, AtEof, ReaderType, ReadProgress
<1>7. CASE ReadEof
  <2>1. /\ readdisk.pc = "read" /\ AtEof /\ readdisk' = [readdisk EXCEPT !.pc = "eof"]
        /\ dataBuffer' = Marked("EOF")
    BY <1>7 DEF ReadEof, ReadAt, ReadGoto
  <2> QED BY <1>1, <2>1, MarkedBank DEF AtEof, ReaderType, ReadProgress
<1>8. CASE NextFile
  BY <1>1, <1>8 DEF NextFile, PassBank, ReaderType, ReadProgress
<1>9. CASE LastFile
  BY <1>1, <1>9 DEF LastFile, PassBank, ReaderType, ReadProgress
<1>10. CASE ReadFail  BY <1>10 DEF ReadFail, ReadProgress, AtEof
<1>11. CASE WriteNet \/ ExceptionReciever \/ Join \/ Poll \/ UNCHANGED vars
  <2>1. UNCHANGED <<dataBuffer, readdisk>>
    BY <1>11, WriterKeepsBank DEF WriteNet, WriteStart, WaitRdiskDone, SetWnetDone,
         SetBindTwoGo, WriteUnchanged, ExceptionReciever, Join, Poll, vars
  <2> QED BY <2>1 DEF ReadProgress, AtEof
<1> QED BY <1>2, <1>3, <1>4, <1>5, <1>6, <1>7, <1>8, <1>9, <1>10, <1>11
     DEF Next, ReadDisk, Stopped

\* The reader changes one bank, its own, and hands it over complete.
LEMMA ReadDiskComplete ==
  TypeOK /\ OneToken /\ ReadProgress /\ ReadyComplete /\ ReadDisk => ReadyComplete'
<1> SUFFICES ASSUME TypeOK, OneToken, ReadProgress, ReadyComplete, ReadDisk
             PROVE  ReadyComplete'
  OBVIOUS
<1>1. /\ readdisk \in ReaderType /\ readdisk.bankno \in Bank /\ readdisk.seqNo \in Nat
      /\ readdisk.fileno \in File /\ LastSeq[readdisk.fileno] \in Nat
      /\ dataBuffer \in [Bank -> BufferType] /\ semReadDisk \in [Bank -> Nat]
  BY FilesAssumption DEF TypeOK, ReaderType
<1>2. writenet' = writenet /\ \A b \in Bank : WriterOwns(b)' = WriterOwns(b)
  <2>1. writenet' = writenet
    BY DEF ReadDisk, OpenFile, WaitWnetDone, WaitBindTwo, ReadBegin, ReadEnd, ReadEof,
           ReadFail, NextFile, LastFile, ReadUnchanged
  <2> QED BY <2>1 DEF WriterOwns, Holding
<1>3. CASE OpenFile \/ WaitWnetDone \/ WaitBindTwo \/ ReadFail
  <2>1. UNCHANGED <<dataBuffer, semReadDisk>>
    BY <1>3 DEF OpenFile, WaitWnetDone, WaitBindTwo, ReadFail, semaphores
  <2> QED BY <1>2, <2>1 DEF ReadyComplete
<1>4. CASE ReadBegin \/ ReadEof
  <2>1. Filling /\ semReadDisk' = semReadDisk
    BY <1>4 DEF ReadBegin, ReadEof, ReadAt, Filling, semaphores
  <2>2. \A b \in Bank \ {readdisk.bankno} : dataBuffer'[b] = dataBuffer[b]
    BY <1>1, <1>4, MarkedBank DEF ReadBegin, ReadEof
  <2>3. semReadDisk[readdisk.bankno] = 0 /\ ~WriterOwns(readdisk.bankno)
    BY <2>1, ReaderAlone
  <2> QED BY <1>1, <1>2, <2>1, <2>2, <2>3 DEF ReadyComplete
<1>5. CASE ReadEnd \/ NextFile \/ LastFile
  <2>1. PICK m \in EofMark :
          /\ dataBuffer' = Marked(m) /\ readdisk.pc \in {"read", "eof"}
          /\ m = IF readdisk.seqNo - 1 < LastSeq[readdisk.fileno] THEN "NORMAL"
                 ELSE IF readdisk.fileno + 1 < NoFiles THEN "EOF" ELSE "FINAL_EOF"
    <3>1. CASE ReadEnd
      BY <1>1, <3>1 DEF ReadEnd, ReadAt, ReadProgress, AtEof, EofMark
    <3>2. CASE NextFile
      BY <1>1, <3>2 DEF NextFile, ReadAt, ReadProgress, AtEof, EofMark
    <3>3. CASE LastFile
      <4>1. /\ readdisk.pc = "eof" /\ readdisk.seqNo - 1 = LastSeq[readdisk.fileno]
            /\ readdisk.fileno + 1 >= NoFiles /\ dataBuffer' = Marked("FINAL_EOF")
        BY <1>1, <3>3 DEF LastFile, ReadAt, ReadProgress, AtEof
      <4>2. ~(readdisk.fileno + 1 < NoFiles)
        BY <1>1, <4>1, FilesAssumption DEF File
      <4> QED BY <1>1, <4>1, <4>2 DEF EofMark
    <3> QED BY <1>5, <3>1, <3>2, <3>3
  <2>2. semReadDisk' = [semReadDisk EXCEPT ![readdisk.bankno] = @ + 1]
    BY <1>5 DEF ReadEnd, NextFile, LastFile, PassBank
  <2>3. /\ dataBuffer'[readdisk.bankno].fileno = readdisk.fileno
        /\ dataBuffer'[readdisk.bankno].seqno = readdisk.seqNo - 1
        /\ readdisk.seqNo - 1 \in 0 .. LastSeq[readdisk.fileno]
    BY <1>1, <2>1, MarkedBank DEF ReadProgress
  <2>4. Chunk(readdisk.fileno, readdisk.seqNo - 1) \in Chunks  BY <1>1, <2>3 DEF Chunks
  <2>5. Complete(dataBuffer'[readdisk.bankno])
    BY <2>1, <2>3, <2>4, MarkedBank DEF Complete, HeaderOf, MarkOf, Chunk
  <2>6. \A b \in Bank \ {readdisk.bankno} : dataBuffer'[b] = dataBuffer[b]
    BY <2>1, MarkedBank
  <2> QED BY <1>1, <1>2, <2>2, <2>5, <2>6 DEF ReadyComplete
<1> QED BY <1>3, <1>4, <1>5 DEF ReadDisk

LEMMA StepComplete ==
  TypeOK /\ OneToken /\ ReadProgress /\ ReadyComplete /\ [Next]_vars => ReadyComplete'
<1> SUFFICES ASSUME TypeOK, OneToken, ReadProgress, ReadyComplete, [Next]_vars
             PROVE  ReadyComplete'
  OBVIOUS
<1> USE DEF WriteUnchanged, semaphores
<1>1. writenet \in WriterType /\ writenet.bankno \in Bank /\ semReadDisk \in [Bank -> Nat]
  BY DEF TypeOK, WriterType
<1>2. CASE SendFileno \/ SendData \/ Recover
  <2>1. /\ UNCHANGED <<dataBuffer, semReadDisk>>
        /\ \A b \in Bank : WriterOwns(b)' = WriterOwns(b)
    BY <1>2, WriterKeepsBank DEF WriterOwns
  <2> QED BY <2>1 DEF ReadyComplete
<1>3. CASE WriteStart \/ SetWnetDone \/ SetBindTwoGo
  <2>1. UNCHANGED <<dataBuffer, semReadDisk>> /\ ~Holding'
    <3>1. CASE WriteStart  BY <1>1, <3>1 DEF WriteStart, WriteAt, WriterType, Holding
    <3>2. CASE SetWnetDone  BY <1>1, <3>2 DEF SetWnetDone, WriteAt, WriterType, Holding
    <3>3. CASE SetBindTwoGo  BY <1>1, <3>3 DEF SetBindTwoGo, WriteAt, WriterType, Holding
    <3> QED BY <1>3, <3>1, <3>2, <3>3
  <2> QED BY <2>1 DEF ReadyComplete, WriterOwns
<1>4. CASE WaitRdiskDone
  <2>1. /\ writenet'.bankno = writenet.bankno /\ semReadDisk[writenet.bankno] > 0
        /\ semReadDisk' = [semReadDisk EXCEPT ![writenet.bankno] = @ - 1]
        /\ dataBuffer' = dataBuffer
    BY <1>1, <1>4 DEF WaitRdiskDone, WriteAt, WriterType
  <2>2. \A b \in Bank : semReadDisk'[b] > 0 \/ WriterOwns(b)' => semReadDisk[b] > 0
    BY <1>1, <2>1 DEF WriterOwns
  <2> QED BY <2>1, <2>2 DEF ReadyComplete
<1>5. CASE ExceptionReciever \/ Join \/ Poll \/ UNCHANGED vars
  <2>1. UNCHANGED <<dataBuffer, semReadDisk, writenet>>
    BY <1>5 DEF ExceptionReciever, Join, Poll, vars
  <2> QED BY <2>1 DEF ReadyComplete, WriterOwns, Holding
<1> QED BY <1>2, <1>3, <1>4, <1>5, ReadDiskComplete DEF Next, WriteNet, Stopped

-----------------------------------------------------------------------------
LEMMA InductiveAlways == Spec => []Inductive
<1>1. Init => Inductive  BY InitType, InitToken, InitProgress DEF Inductive
<1>2. Inductive /\ [Next]_vars => Inductive'
  BY StepType, StepToken, StepProgress, StepComplete DEF Inductive
<1> QED BY <1>1, <1>2, PTL DEF Spec

\* readdisk() and writenet() never own the same bank, whatever NO_BANK and NO_BIND
\* are, with the bind semaphores or without, and through every retry and recovery.
THEOREM Exclusive == Spec => []BankExclusive
<1>1. Inductive => BankExclusive
  <2> SUFFICES ASSUME Inductive, Filling PROVE ~WriterOwns(readdisk.bankno)
    BY DEF BankExclusive, WriterOwns
  <2> QED BY ReaderAlone DEF Inductive
<1> QED BY <1>1, InductiveAlways, PTL

\* The bank writenet() works on is always a whole chunk with the right end mark.
THEOREM HandAlwaysIntact == Spec => []HandIntact
<1>1. Inductive => HandIntact
  BY DEF Inductive, TypeOK, WriterType, ReadyComplete, WriterOwns, HandIntact, Hand
<1> QED BY <1>1, InductiveAlways, PTL

-----------------------------------------------------------------------------
(***************************************************************************)
(* The order in which dollyS moves chunks through its ring of banks, and   *)
(* what it makes of the packets on its connection: theorems about          *)
(* BindHoldsBack, RecoveryServes, RefusalJustified and the steps of the    *)
(* abstract stream.                                                        *)
(*                                                                         *)
(* A bank's age is measured back from the bank readdisk() is at, so that   *)
(* the argument is one of sums and comparisons; no division is needed.     *)
(***************************************************************************)

\* readdisk() is in the middle of a chunk, and the chunks it has handed over.
InBank == readdisk.pc \in {"read", "eof"}
ReadDone == ReadPos - IF InBank THEN 1 ELSE 0

\* How many chunks ago readdisk() handed over bank b: NO_BANK for the bank it is at.
Back(b) == IF b < readdisk.bankno THEN readdisk.bankno - b
           ELSE readdisk.bankno - b + NO_BANK

\* The banks handed over and not given back, the one writenet() takes next (or
\* works on), how many there are and the place of the oldest in the stream.
Pending(b) == semReadDisk[b] > 0 \/ WriterOwns(b)
NextUp == IF writenet.pc \in {"bind", "done"} THEN NextBank(writenet.bankno)
          ELSE writenet.bankno
InRing == IF Pending(NextUp) THEN Back(NextUp) ELSE 0
Due == ReadDone - InRing

\* The bank number is the count of chunks, modulo the first round.
Rounds ==
  /\ readdisk.first => readdisk.bankno = ReadDone
  /\ ~readdisk.first => NO_BANK <= ReadDone

\* The pending banks are the last ones handed over, and writenet() is at the oldest.
Queue ==
  /\ InRing <= ReadDone
  /\ \A b \in Bank : Pending(b) <=> Back(b) <= InRing
  /\ InRing = 0 => NextUp = readdisk.bankno

\* Every bank but the one being filled holds the chunk that was put there last.
Window ==
  \A b \in Bank :
    Back(b) <= ReadDone /\ ~(InBank /\ b = readdisk.bankno) =>
      Complete(dataBuffer[b]) /\ Pos(HeaderOf(dataBuffer[b])) = ReadDone - Back(b)

RingOrder == Rounds /\ Queue /\ Window

\* The bind semaphores of the last NO_BIND banks.  One is up when the bank's chunk
\* was posted and is among the last NO_BIND (less one when readdisk() has already
\* waited); none of those banks is both still unposted and further back than that; and
\* none of them is filled again before it is posted.
Unposted == InRing + IF writenet.pc = "bind" THEN 1 ELSE 0
Reach == NO_BIND - IF readdisk.pc \in {"fill", "read", "eof"} THEN 1 ELSE 0
Posted(b) == Unposted < Back(b) /\ Back(b) <= Reach /\ Back(b) <= ReadDone
BindCount(b) ==
  /\ semBindTwo[b] = IF Posted(b) THEN 1 ELSE 0
  /\ Unposted < Back(b) \/ Back(b) <= Reach
  /\ writenet.pc = "bind" /\ writenet.bankno = b => Back(b) = Unposted
LastBanks == NO_BANK - NO_BIND .. NO_BANK - 1
BindCounts == Unposted <= ReadDone /\ (flag_bind => \A b \in LastBanks : BindCount(b))

Recovering == writenet.pc \in {"rec_host", "rec_ack", "rec_connect", "rec_check", "rec_send"}
Resending == writenet.pc \in {"rec_connect", "rec_check", "rec_send"}

\* How far the recovery has come, and that there is only one.
OneRecovery ==
  /\ "lost" \notin Faults => ~Recovering /\ peer = Nobody
  /\ Recovering => ~writeNetXoff
  /\ writenet.pc = "send_fileno" => Hand.seqno = 0
  /\ Recovering /\ writenet.ret = "send_data" => Hand.seqno = 0
  /\ writenet.pc \in {"start", "rec_ack"} => peer = Nobody
  /\ writenet.pc = "rec_ack" \/ peer # Nobody => ~dataout.exception /\ cntlOut /\ ~writeNetXoff
  /\ writenet.pc \in {"rec_ack", "rec_connect"} => dataout.wire = <<>>
  /\ writenet.pc = "rec_connect" => writenet.jj = 0
  /\ Resending => peer # Nobody

\* What was asked for, and how far it is resent when it is of the file being sent.
SameFile == peer # Nobody /\ peer.waits.fileno = peer.hand.fileno
Request ==
  /\ peer # Nobody => /\ peer.waits \in Chunks /\ peer.hand \in Chunks
                      /\ Pos(peer.waits) <= Pos(peer.hand)
  /\ SameFile /\ Resending =>
       /\ peer.hand = HandChunk /\ writenet.req = peer.waits.seqno /\ writenet.ret = "release"
       /\ exited = "no" => Hand.seqno - NO_BIND <= writenet.req
       /\ writenet.jj < ResendCount
Recovery == OneRecovery /\ Request

\* The connection the theorems speak of: the first one, when it cannot be lost or no
\* send is retried on it, or the one after a recovery that could be served.
Served == IF peer = Nobody THEN "lost" \notin Faults \/ "xoff" \notin Faults
          ELSE SameFile /\ ~Overwritten(peer.waits)
Quiet == "xoff" \notin Faults => ~writeNetXoff
\* nothing but a part of the first packet
OnlyFragment == peer = Nobody /\ dataout.wire = <<Fragment>>
Opening == IF peer = Nobody THEN FilenoPacket(0) ELSE ChunkPacket(peer.waits)

Newest == dataout.wire[Len(dataout.wire)]
\* The last packet on the connection is the chunk before place q of the stream.
SentUpTo(q) ==
  /\ dataout.wire # <<>>
  /\ \E c \in Chunks : Newest = ChunkPacket(c) /\ Pos(c) = q - 1
Sent ==
  Served =>
    /\ InOrder(dataout.wire)
    /\ dataout.wire # <<>> => dataout.wire[1] = Opening \/ OnlyFragment
    /\ writenet.pc \in {"start", "wait_rdisk", "send_fileno", "bind", "done"} =>
         SentUpTo(Due) \/ (dataout.wire = <<>> /\ Due = 0 /\ peer = Nobody)
    /\ writenet.pc = "send_data" =>
         IF Hand.seqno = 0 THEN dataout.wire # <<>> /\ Newest = FilenoPacket(Hand.fileno)
         ELSE SentUpTo(Due)
    /\ writenet.pc = "release" => SentUpTo(Due + 1)
    /\ writenet.pc \in {"rec_check", "rec_send"} =>
         IF writenet.jj = 0 THEN dataout.wire = <<>>
         ELSE SentUpTo(Pos(peer.waits) + writenet.jj)

\* Every chunk before the one due is on the connection.
AllSent ==
  "lost" \notin Faults =>
    \A k \in 0 .. Due - 1 :
      \E i \in DOMAIN dataout.wire :
        dataout.wire[i].kind = "data" /\ Pos(dataout.wire[i].chunk) = k
-----------------------------------------------------------------------------
(* The numbers the invariant is made of *)

LEMMA PlaceTypes ==
  ASSUME Inductive
  PROVE  /\ ReadPos \in Nat /\ ReadDone \in Nat
         /\ readdisk \in ReaderType /\ writenet \in WriterType
         /\ readdisk.bankno \in Bank /\ writenet.bankno \in Bank /\ NextUp \in Bank
         /\ readdisk.fileno \in File /\ readdisk.seqNo \in Nat
         /\ FirstPos[readdisk.fileno] \in Nat /\ LastSeq[readdisk.fileno] \in Nat
<1>1. /\ readdisk \in ReaderType /\ readdisk.bankno \in Bank /\ readdisk.fileno \in File
      /\ readdisk.seqNo \in Nat /\ writenet \in WriterType /\ writenet.bankno \in Bank
  BY DEF Inductive, TypeOK, ReaderType, WriterType
<1>2. NextUp \in Bank  BY <1>1, BanksOfTheRing DEF NextUp
<1>3. LastSeq[readdisk.fileno] \in Nat /\ FirstPos[readdisk.fileno] \in Nat
  <2>1. readdisk.fileno \in 0 .. NoFiles  BY <1>1, FilesAssumption DEF File
  <2> QED BY <1>1, <2>1, FirstPosTyped, FilesAssumption
<1>4. ReadPos \in Nat  BY <1>1, <1>3 DEF ReadPos
<1>5. InBank => readdisk.seqNo >= 1 /\ ReadPos = FirstPos[readdisk.fileno] + readdisk.seqNo
  BY <1>1 DEF InBank, Inductive, ReadProgress, ReadPos
<1>6. ReadDone \in Nat  BY <1>1, <1>3, <1>4, <1>5 DEF ReadDone
<1> QED BY <1>1, <1>2, <1>3, <1>4, <1>6

\* Every bank has an age of its own, and the bank readdisk() is at is the oldest.
LEMMA Ages ==
  ASSUME readdisk.bankno \in Bank
  PROVE  /\ \A b \in Bank : Back(b) \in 1 .. NO_BANK
         /\ \A b \in Bank : Back(b) = NO_BANK <=> b = readdisk.bankno
         /\ \A b, c \in Bank : Back(b) = Back(c) => b = c
         /\ NO_BANK \in Nat
<1>1. NO_BANK \in Nat \ {0} /\ readdisk.bankno \in 0 .. NO_BANK - 1  BY BanksOfTheRing DEF Bank
<1>2. ASSUME NEW b \in Bank
      PROVE  Back(b) \in 1 .. NO_BANK /\ (Back(b) = NO_BANK <=> b = readdisk.bankno)
  BY <1>1 DEF Bank, Back
<1>3. ASSUME NEW b \in Bank, NEW c \in Bank, Back(b) = Back(c) PROVE b = c
  BY <1>1, <1>3 DEF Bank, Back
<1> QED BY <1>1, <1>2, <1>3

\* Stepping to the next bank makes it one younger; from the youngest it is the one
\* readdisk() is at.
LEMMA AgeOfNext ==
  ASSUME readdisk.bankno \in Bank, NEW b \in Bank
  PROVE  IF Back(b) = 1 THEN NextBank(b) = readdisk.bankno
         ELSE Back(NextBank(b)) = Back(b) - 1
<1>1. NO_BANK \in Nat \ {0} /\ readdisk.bankno \in 0 .. NO_BANK - 1  BY BanksOfTheRing DEF Bank
<1> QED BY <1>1 DEF Bank, Back, NextBank

\* When readdisk() goes on to the next bank every other one is a chunk older.
LEMMA AgeAfterPass ==
  ASSUME readdisk.bankno \in Bank, readdisk'.bankno = NextBank(readdisk.bankno),
         NEW b \in Bank
  PROVE  Back(b)' = IF b = readdisk.bankno THEN 1 ELSE Back(b) + 1
<1>1. NO_BANK \in Nat \ {0} /\ readdisk.bankno \in 0 .. NO_BANK - 1  BY BanksOfTheRing DEF Bank
<1> QED BY <1>1 DEF Bank, Back, NextBank

LEMMA InRingType ==
  ASSUME Inductive
  PROVE  InRing \in 0 .. NO_BANK /\ Due \in Int /\ (InRing > 0 <=> Pending(NextUp))
<1>1. NextUp \in Bank /\ readdisk.bankno \in Bank /\ ReadDone \in Nat  BY PlaceTypes
<1>2. Back(NextUp) \in 1 .. NO_BANK /\ NO_BANK \in Nat  BY <1>1, Ages
<1> QED BY <1>1, <1>2 DEF InRing, Due

-----------------------------------------------------------------------------
(***************************************************************************)
(* What the steps do to the ring.  readdisk() hands a bank over, writenet()*)
(* gives one back, and every other step keeps the order as it is.          *)
(***************************************************************************)
Passing == ReadEnd \/ NextFile \/ LastFile
ReadOn == OpenFile \/ WaitWnetDone \/ WaitBindTwo \/ ReadBegin \/ ReadEof \/ ReadFail
WriteOn == \/ WriteStart \/ WaitRdiskDone \/ SendFileno \/ SendData \/ SetBindTwoGo \/ Recover
           \/ ExceptionReciever \/ Join \/ Poll \/ UNCHANGED vars

LEMMA StepKinds == [Next]_vars => Passing \/ ReadOn \/ SetWnetDone \/ WriteOn
  BY DEF Next, ReadDisk, WriteNet, Stopped, Passing, ReadOn, WriteOn

\* readdisk() writes only the bank it is at, and only from ReadBegin on.
LEMMA ReadOnKeeps ==
  ASSUME Inductive, ReadOn
  PROVE  /\ ReadDone' = ReadDone
         /\ readdisk'.bankno = readdisk.bankno /\ readdisk'.first = readdisk.first
         /\ UNCHANGED <<semReadDisk, writenet, dataout, peer>>
         /\ \A b \in Bank \ {readdisk.bankno} : dataBuffer'[b] = dataBuffer[b]
         /\ ~InBank' => ~InBank \/ UNCHANGED <<readdisk, dataBuffer>>
         /\ ~InBank' => dataBuffer' = dataBuffer
<1>1. /\ readdisk \in ReaderType /\ readdisk.bankno \in Bank /\ readdisk.seqNo \in Nat
      /\ readdisk.fileno \in File /\ FirstPos[readdisk.fileno] \in Nat
      /\ dataBuffer \in [Bank -> BufferType] /\ TypeOK
  BY PlaceTypes DEF Inductive, TypeOK
<1>2. UNCHANGED <<semReadDisk, writenet, dataout, peer>>
  BY DEF ReadOn, OpenFile, WaitWnetDone, WaitBindTwo, ReadBegin, ReadEof, ReadFail,
         ReadUnchanged, semaphores
<1>3. CASE UNCHANGED <<readdisk, dataBuffer>>
  BY <1>2, <1>3 DEF ReadDone, ReadPos, InBank
<1>4. CASE OpenFile /\ readdisk' # readdisk
  <2>1. /\ readdisk.pc = "open" /\ dataBuffer' = dataBuffer
        /\ readdisk' = [readdisk EXCEPT !.pc = "wait_wnet", !.seqNo = 0]
    BY <1>4 DEF OpenFile, ReadAt
  <2>2. /\ readdisk'.pc = "wait_wnet" /\ readdisk'.seqNo = 0
        /\ readdisk'.fileno = readdisk.fileno
        /\ readdisk'.bankno = readdisk.bankno /\ readdisk'.first = readdisk.first
    BY <1>1, <2>1 DEF ReaderType
  <2> QED BY <1>1, <1>2, <2>1, <2>2 DEF ReadDone, ReadPos, InBank
<1>5. CASE WaitWnetDone \/ WaitBindTwo
  <2>1. PICK pc \in {"wait_bind", "fill"} :
          /\ readdisk.pc \in {"wait_wnet", "wait_bind"} /\ dataBuffer' = dataBuffer
          /\ readdisk' = [readdisk EXCEPT !.pc = pc]
    BY <1>5 DEF WaitWnetDone, WaitBindTwo, ReadAt, ReadGoto
  <2>2. /\ readdisk'.pc = pc /\ readdisk'.seqNo = readdisk.seqNo
        /\ readdisk'.fileno = readdisk.fileno
        /\ readdisk'.bankno = readdisk.bankno /\ readdisk'.first = readdisk.first
    BY <1>1, <2>1 DEF ReaderType
  <2> QED BY <1>1, <1>2, <2>1, <2>2 DEF ReadDone, ReadPos, InBank
<1>6. CASE ReadBegin
  <2>1. /\ readdisk.pc = "fill"
        /\ readdisk' = [readdisk EXCEPT !.pc = "read", !.seqNo = @ + 1]
        /\ \A b \in Bank \ {readdisk.bankno} : dataBuffer'[b] = dataBuffer[b]
    BY <1>1, <1>6 DEF ReadBegin, ReadAt
  <2>2. /\ readdisk'.pc = "read" /\ readdisk'.seqNo = readdisk.seqNo + 1
        /\ readdisk'.fileno = readdisk.fileno
        /\ readdisk'.bankno = readdisk.bankno /\ readdisk'.first = readdisk.first
    BY <1>1, <2>1 DEF ReaderType
  <2> QED BY <1>1, <1>2, <2>1, <2>2 DEF ReadDone, ReadPos, InBank
<1>7. CASE ReadEof
  <2>1. /\ readdisk.pc = "read" /\ readdisk' = [readdisk EXCEPT !.pc = "eof"]
        /\ \A b \in Bank \ {readdisk.bankno} : dataBuffer'[b] = dataBuffer[b]
    BY <1>1, <1>7, MarkedBank DEF ReadEof, ReadAt, ReadGoto
  <2>2. /\ readdisk'.pc = "eof" /\ readdisk'.seqNo = readdisk.seqNo
        /\ readdisk'.fileno = readdisk.fileno
        /\ readdisk'.bankno = readdisk.bankno /\ readdisk'.first = readdisk.first
    BY <1>1, <2>1 DEF ReaderType
  <2> QED BY <1>1, <1>2, <2>1, <2>2 DEF ReadDone, ReadPos, InBank
<1> QED BY <1>3, <1>4, <1>5, <1>6, <1>7 DEF ReadOn, OpenFile, ReadFail

\* The chunk handed over is complete and at the next place of the stream.
LEMMA PassingHandsOver ==
  ASSUME Inductive, Passing
  PROVE  /\ InBank /\ ~InBank' /\ ReadDone' = ReadDone + 1
         /\ readdisk'.bankno = NextBank(readdisk.bankno)
         /\ readdisk'.first = IF NextBank(readdisk.bankno) = 0 THEN FALSE ELSE readdisk.first
         /\ semReadDisk' = [semReadDisk EXCEPT ![readdisk.bankno] = @ + 1]
         /\ UNCHANGED <<semBindTwo, writenet, dataout, peer>>
         /\ \A b \in Bank \ {readdisk.bankno} : dataBuffer'[b] = dataBuffer[b]
         /\ Complete(dataBuffer'[readdisk.bankno])
         /\ Pos(HeaderOf(dataBuffer'[readdisk.bankno])) = ReadDone
<1>1. /\ readdisk \in ReaderType /\ readdisk.bankno \in Bank /\ readdisk.seqNo \in Nat
      /\ readdisk.fileno \in File /\ readdisk.fileno \in Nat /\ LastSeq[readdisk.fileno] \in Nat
      /\ FirstPos[readdisk.fileno] \in Nat /\ TypeOK /\ semReadDisk \in [Bank -> Nat]
  BY PlaceTypes, FileTypes DEF Inductive, TypeOK
<1>2. UNCHANGED <<semBindTwo, writenet, dataout, peer>>
  BY DEF Passing, ReadEnd, NextFile, LastFile, ReadUnchanged
<1>3. PICK m \in EofMark, pc \in {"wait_wnet", "open", "done"}, f \in Nat :
        /\ dataBuffer' = Marked(m) /\ PassBank(pc, f) /\ readdisk.pc \in {"read", "eof"}
        /\ IF pc = "open" THEN f = readdisk.fileno + 1 /\ AtEof ELSE f = readdisk.fileno
  <2>1. CASE ReadEnd  BY <1>1, <2>1 DEF ReadEnd, ReadAt, EofMark
  <2>2. CASE NextFile
    <3>1. AtEof  BY <2>2 DEF NextFile, ReadAt, Inductive, ReadProgress
    <3>2. readdisk.fileno + 1 \in Nat  BY <1>1
    <3> QED BY <2>2, <3>1, <3>2 DEF NextFile, ReadAt, EofMark
  <2>3. CASE LastFile  BY <1>1, <2>3 DEF LastFile, ReadAt, EofMark
  <2> QED BY <2>1, <2>2, <2>3 DEF Passing
<1>4. /\ readdisk.seqNo \in 1 .. LastSeq[readdisk.fileno] + 1
      /\ dataBuffer[readdisk.bankno].fileno = readdisk.fileno
      /\ dataBuffer[readdisk.bankno].seqno = readdisk.seqNo - 1
  BY <1>3 DEF Inductive, ReadProgress
<1>5. /\ readdisk'.pc = pc /\ readdisk'.fileno = f /\ readdisk'.seqNo = readdisk.seqNo
      /\ readdisk'.bankno = NextBank(readdisk.bankno)
      /\ readdisk'.first = IF NextBank(readdisk.bankno) = 0 THEN FALSE ELSE readdisk.first
      /\ semReadDisk' = [semReadDisk EXCEPT ![readdisk.bankno] = @ + 1]
  BY <1>1, <1>3 DEF PassBank, ReaderType
<1>6. InBank /\ ~InBank'  BY <1>3, <1>5 DEF InBank
<1>7. ReadDone = FirstPos[readdisk.fileno] + readdisk.seqNo - 1
  BY <1>1, <1>3, <1>6 DEF ReadDone, ReadPos
<1>8. ReadDone' = ReadDone + 1
  <2>1. CASE pc = "open"
    <3>1. FirstPos[f] = FirstPos[readdisk.fileno] + LastSeq[readdisk.fileno] + 1
      BY <1>1, <1>3, <2>1, FirstPosTyped
    <3>2. readdisk.seqNo = LastSeq[readdisk.fileno] + 1  BY <1>3, <2>1 DEF AtEof
    <3> QED BY <1>1, <1>5, <1>6, <1>7, <2>1, <3>1, <3>2 DEF ReadDone, ReadPos
  <2>2. CASE pc # "open"
    BY <1>1, <1>3, <1>5, <1>6, <1>7, <2>2 DEF ReadDone, ReadPos
  <2> QED BY <2>1, <2>2
<1>9. /\ \A b \in Bank \ {readdisk.bankno} : dataBuffer'[b] = dataBuffer[b]
      /\ HeaderOf(dataBuffer'[readdisk.bankno]) = Chunk(readdisk.fileno, readdisk.seqNo - 1)
  BY <1>1, <1>3, <1>4, MarkedBank DEF HeaderOf
<1>10. Pos(HeaderOf(dataBuffer'[readdisk.bankno])) = ReadDone
  BY <1>1, <1>7, <1>9 DEF Pos, Chunk
<1>11. Complete(dataBuffer'[readdisk.bankno])
  <2>1. ReadyComplete'
    BY ReadDiskComplete DEF Inductive, Passing, ReadDisk
  <2>2. semReadDisk'[readdisk.bankno] > 0  BY <1>1, <1>5
  <2> QED BY <1>1, <2>1, <2>2 DEF ReadyComplete
<1> QED BY <1>2, <1>5, <1>6, <1>8, <1>9, <1>10, <1>11

\* Neither a send, a recovery nor a wait moves a bank in the queue.
LEMMA WriteOnKeeps ==
  ASSUME Inductive, WriteOn
  PROVE  /\ UNCHANGED <<readdisk, dataBuffer>>
         /\ NextUp' = NextUp
         /\ \A b \in Bank : Pending(b)' <=> Pending(b)
<1>1. /\ writenet \in WriterType /\ writenet.bankno \in Bank /\ TypeOK
      /\ semReadDisk \in [Bank -> Nat]
  BY PlaceTypes DEF Inductive, TypeOK
<1>2. CASE SendFileno \/ SendData \/ Recover
  <2>1. /\ Holding /\ Holding' /\ writenet'.bankno = writenet.bankno
        /\ UNCHANGED <<dataBuffer, semReadDisk, readdisk>>
    BY <1>1, <1>2, WriterKeepsBank
  <2>2. NextUp' = NextUp  BY <2>1 DEF NextUp, Holding
  <2> QED BY <2>1, <2>2 DEF Pending, WriterOwns
<1>3. CASE WriteStart
  <2>1. /\ writenet.pc = "start" /\ writenet' = [writenet EXCEPT !.pc = "wait_rdisk"]
        /\ UNCHANGED <<dataBuffer, semReadDisk, readdisk>>
    BY <1>3 DEF WriteStart, WriteAt, WriteUnchanged, semaphores
  <2>2. writenet'.pc = "wait_rdisk" /\ writenet'.bankno = writenet.bankno
    BY <1>1, <2>1 DEF WriterType
  <2> QED BY <2>1, <2>2 DEF NextUp, Pending, WriterOwns, Holding
<1>4. CASE WaitRdiskDone
  <2>1. /\ writenet.pc = "wait_rdisk" /\ semReadDisk[writenet.bankno] > 0
        /\ semReadDisk' = [semReadDisk EXCEPT ![writenet.bankno] = @ - 1]
        /\ UNCHANGED <<dataBuffer, readdisk>>
    BY <1>4 DEF WaitRdiskDone, WriteAt, WriteUnchanged
  <2>2. writenet'.pc \in {"send_fileno", "send_data"} /\ writenet'.bankno = writenet.bankno
    BY <1>1, <1>4 DEF WaitRdiskDone, WriterType
  <2>3. ASSUME NEW b \in Bank PROVE Pending(b)' <=> Pending(b)
    BY <1>1, <2>1, <2>2 DEF Pending, WriterOwns, Holding
  <2> QED BY <2>1, <2>2, <2>3 DEF NextUp
<1>5. CASE SetBindTwoGo
  <2>1. /\ writenet.pc = "bind" /\ UNCHANGED <<dataBuffer, semReadDisk, readdisk>>
    BY <1>5 DEF SetBindTwoGo, WriteAt, WriteUnchanged
  <2>2. \/ writenet'.pc = "done" /\ writenet'.bankno = writenet.bankno
        \/ writenet'.pc = "wait_rdisk" /\ writenet'.bankno = NextBank(writenet.bankno)
    BY <1>1, <1>5 DEF SetBindTwoGo, WriterType
  <2> QED BY <2>1, <2>2 DEF NextUp, Pending, WriterOwns, Holding
<1>6. CASE ExceptionReciever \/ Join \/ Poll \/ UNCHANGED vars
  <2>1. UNCHANGED <<dataBuffer, semReadDisk, readdisk, writenet>>
    BY <1>6 DEF ExceptionReciever, Join, Poll, vars, semaphores
  <2> QED BY <2>1 DEF NextUp, Pending, WriterOwns, Holding
<1> QED BY <1>2, <1>3, <1>4, <1>5, <1>6 DEF WriteOn

\* Giving a bank back takes the oldest one out of the queue.
LEMMA ReleaseTakesOut ==
  ASSUME Inductive, SetWnetDone
  PROVE  /\ UNCHANGED <<readdisk, dataBuffer, dataout, peer>>
         /\ writenet.pc = "release" /\ writenet'.pc = "bind"
         /\ writenet'.bankno = writenet.bankno
         /\ NextUp = writenet.bankno /\ NextUp' = NextBank(writenet.bankno)
         /\ Pending(writenet.bankno) /\ ~Pending(writenet.bankno)'
         /\ \A b \in Bank \ {writenet.bankno} : Pending(b)' <=> Pending(b)
<1>1. /\ writenet \in WriterType /\ writenet.bankno \in Bank /\ OneToken
      /\ semReadDisk \in [Bank -> Nat] /\ semWriteNet \in [Bank -> Nat]
  BY PlaceTypes DEF Inductive, TypeOK
<1>2. /\ writenet.pc = "release" /\ UNCHANGED <<readdisk, dataBuffer, dataout, peer, semReadDisk>>
      /\ writenet' = [writenet EXCEPT !.pc = "bind", !.eof = Hand.eof]
  BY DEF SetWnetDone, WriteAt, WriteUnchanged
<1>3. writenet'.pc = "bind" /\ writenet'.bankno = writenet.bankno  BY <1>1, <1>2 DEF WriterType
<1>4. WriterOwns(writenet.bankno)  BY <1>2 DEF WriterOwns, Holding
<1>5. semReadDisk[writenet.bankno] = 0
  <2>1. semWriteNet[writenet.bankno] + semReadDisk[writenet.bankno]
          + (IF ReaderOwns(writenet.bankno) THEN 1 ELSE 0) + 1 = 1
    BY <1>1, <1>4 DEF OneToken
  <2>2. semWriteNet[writenet.bankno] \in Nat /\ semReadDisk[writenet.bankno] \in Nat  BY <1>1
  <2> QED BY <2>1, <2>2
<1> QED BY <1>1, <1>2, <1>3, <1>4, <1>5 DEF Pending, WriterOwns, Holding, NextUp

-----------------------------------------------------------------------------
(* The queue and the window *)

LEMMA InitRingOrder == Init => RingOrder
<1> SUFFICES ASSUME Init PROVE RingOrder  OBVIOUS
<1>1. /\ readdisk = [pc |-> "open", bankno |-> 0, fileno |-> 0, seqNo |-> 0, first |-> TRUE]
      /\ writenet.pc = "start" /\ writenet.bankno = 0 /\ \A b \in Bank : semReadDisk[b] = 0
  BY DEF Init
<1>2. ReadDone = 0  BY <1>1, FirstPosTyped DEF ReadDone, ReadPos, InBank
<1>3. readdisk.bankno \in Bank  BY <1>1, BanksOfTheRing
<1>4. \A b \in Bank : Back(b) \in 1 .. NO_BANK  BY <1>3, Ages
<1>5. \A b \in Bank : ~Pending(b)  BY <1>1 DEF Pending, WriterOwns, Holding
<1>6. NextUp = 0 /\ InRing = 0  BY <1>1, <1>3, <1>5 DEF NextUp, InRing
<1>7. Rounds  BY <1>1, <1>2 DEF Rounds
<1>8. Queue  BY <1>1, <1>2, <1>4, <1>5, <1>6 DEF Queue
<1>9. Window  BY <1>2, <1>4 DEF Window
<1> QED BY <1>7, <1>8, <1>9 DEF RingOrder

\* Where neither the queue nor the place of readdisk() changes, nothing else does.
LEMMA QueueStays ==
  ASSUME Inductive, readdisk'.bankno = readdisk.bankno, NextUp' = NextUp,
         \A b \in Bank : Pending(b)' <=> Pending(b)
  PROVE  InRing' = InRing /\ \A b \in Bank : Back(b)' = Back(b)
<1>1. NextUp \in Bank  BY PlaceTypes
<1>2. \A b \in Bank : Back(b)' = Back(b)  BY DEF Back
<1>3. Back(NextUp)' = Back(NextUp)  BY <1>1, <1>2 DEF Back
<1>4. Pending(NextUp)' <=> Pending(NextUp)  BY <1>1 DEF Pending, WriterOwns
<1> QED BY <1>2, <1>3, <1>4 DEF InRing

\* Handing a bank over makes the queue one longer.
LEMMA PassingOrder ==
  ASSUME Inductive, RingOrder, Passing
  PROVE  RingOrder' /\ InRing' = InRing + 1
<1> DEFINE r == readdisk.bankno
<1>1. /\ r \in Bank /\ NextUp \in Bank /\ ReadDone \in Nat /\ TypeOK /\ OneToken
      /\ semReadDisk \in [Bank -> Nat] /\ NO_BANK \in Nat \ {0}
  BY PlaceTypes, BanksOfTheRing DEF Inductive, TypeOK
<1>2. /\ ReadDone' = ReadDone + 1 /\ readdisk'.bankno = NextBank(r) /\ InBank /\ ~InBank'
      /\ semReadDisk' = [semReadDisk EXCEPT ![r] = @ + 1] /\ writenet' = writenet
  BY PassingHandsOver
<1>3. InRing \in 0 .. NO_BANK /\ (InRing > 0 <=> Pending(NextUp))  BY InRingType
<1>4. /\ \A b \in Bank : Back(b) \in 1 .. NO_BANK
      /\ \A b \in Bank : Back(b) = NO_BANK <=> b = r
  BY <1>1, Ages
<1>5. \A b \in Bank : Back(b)' = IF b = r THEN 1 ELSE Back(b) + 1
  BY <1>1, <1>2, AgeAfterPass
<1>6. ~Pending(r)
  <2>1. Filling  BY <1>2 DEF InBank, Filling
  <2> QED BY <1>1, <2>1, ReaderAlone DEF Pending
<1>7. ASSUME NEW b \in Bank PROVE Pending(b)' <=> b = r \/ Pending(b)
  <2>1. WriterOwns(b)' = WriterOwns(b)  BY <1>2 DEF WriterOwns, Holding
  <2> QED BY <1>1, <1>2, <2>1 DEF Pending
<1>8. NextUp' = NextUp  BY <1>2 DEF NextUp
<1>9. Queue  BY DEF RingOrder
<1>10. InRing' = InRing + 1
  <2>1. Back(NextUp)' = IF NextUp = r THEN 1 ELSE Back(NextUp) + 1
    BY <1>1, <1>2, <1>5, <1>8 DEF Back
  <2>2. Pending(NextUp)' <=> NextUp = r \/ Pending(NextUp)
    BY <1>1, <1>7, <1>8 DEF Pending, WriterOwns
  <2>3. CASE InRing = 0  BY <1>9, <2>1, <2>2, <2>3 DEF Queue, InRing
  <2>4. CASE InRing # 0
    <3>1. Pending(NextUp) /\ NextUp # r /\ InRing = Back(NextUp)
      BY <1>3, <1>6, <2>4 DEF InRing
    <3> QED BY <2>1, <2>2, <3>1 DEF InRing
  <2> QED BY <2>3, <2>4
<1>11. Queue'
  <2>1. ASSUME NEW b \in Bank PROVE Pending(b)' <=> Back(b)' <= InRing'
    <3>1. Back(b) \in 1 .. NO_BANK /\ (Pending(b) <=> Back(b) <= InRing)
      BY <1>4, <1>9 DEF Queue
    <3>2. Back(b)' = IF b = r THEN 1 ELSE Back(b) + 1  BY <1>5
    <3>3. Pending(b)' <=> b = r \/ Pending(b)  BY <1>7
    <3> QED BY <1>3, <1>10, <3>1, <3>2, <3>3
  <2>2. InRing' <= ReadDone' /\ InRing' # 0  BY <1>1, <1>2, <1>3, <1>9, <1>10 DEF Queue
  <2> QED BY <2>1, <2>2 DEF Queue
<1>12. Rounds'
  <2>1. readdisk'.first = IF NextBank(r) = 0 THEN FALSE ELSE readdisk.first
    BY PassingHandsOver
  <2>2. readdisk.first \in BOOLEAN  BY PlaceTypes DEF ReaderType
  <2>3. r \in 0 .. NO_BANK - 1 /\ NextBank(r) = IF r + 1 = NO_BANK THEN 0 ELSE r + 1
    BY <1>1 DEF Bank, NextBank
  <2>4. Rounds  BY DEF RingOrder
  <2> QED BY <1>1, <1>2, <2>1, <2>2, <2>3, <2>4 DEF Rounds
<1>13. Window'
  <2> SUFFICES ASSUME NEW b \in Bank, Back(b)' <= ReadDone'
               PROVE  /\ Complete(dataBuffer'[b])
                      /\ Pos(HeaderOf(dataBuffer'[b])) = ReadDone' - Back(b)'
    BY DEF Window
  <2>1. CASE b = r  BY <1>1, <1>2, <1>5, <2>1, PassingHandsOver
  <2>2. CASE b # r
    <3>1. dataBuffer'[b] = dataBuffer[b]  BY <2>2, PassingHandsOver
    <3>2. Back(b)' = Back(b) + 1 /\ Back(b) \in Nat  BY <1>1, <1>4, <1>5, <2>2
    <3>3. Back(b) <= ReadDone  BY <1>1, <1>2, <3>2
    <3>4. Complete(dataBuffer[b]) /\ Pos(HeaderOf(dataBuffer[b])) = ReadDone - Back(b)
      BY <2>2, <3>3 DEF RingOrder, Window
    <3> QED BY <1>1, <1>2, <3>1, <3>2, <3>4
  <2> QED BY <2>1, <2>2
<1> QED BY <1>10, <1>11, <1>12, <1>13 DEF RingOrder

\* Up to there readdisk() changes nothing but the bank it is at, which is the oldest.
LEMMA ReadOnOrder ==
  ASSUME Inductive, RingOrder, ReadOn
  PROVE  RingOrder' /\ InRing' = InRing
<1>1. /\ ReadDone' = ReadDone /\ readdisk'.bankno = readdisk.bankno
      /\ readdisk'.first = readdisk.first /\ UNCHANGED <<semReadDisk, writenet>>
  BY ReadOnKeeps
<1>2. NextUp' = NextUp /\ \A b \in Bank : Pending(b)' <=> Pending(b)
  BY <1>1 DEF NextUp, Pending, WriterOwns, Holding
<1>3. InRing' = InRing /\ \A b \in Bank : Back(b)' = Back(b)
  BY <1>1, <1>2, QueueStays
<1>4. Rounds' /\ Queue'
  BY <1>1, <1>2, <1>3 DEF RingOrder, Rounds, Queue
<1>5. Window'
  <2> SUFFICES ASSUME NEW b \in Bank, Back(b)' <= ReadDone', ~(InBank' /\ b = readdisk'.bankno)
               PROVE  /\ Complete(dataBuffer'[b])
                      /\ Pos(HeaderOf(dataBuffer'[b])) = ReadDone' - Back(b)'
    BY DEF Window
  <2>1. CASE b # readdisk.bankno
    <3>1. dataBuffer'[b] = dataBuffer[b]  BY <2>1, ReadOnKeeps
    <3> QED BY <1>1, <1>3, <2>1, <3>1 DEF RingOrder, Window
  <2>2. CASE b = readdisk.bankno
    <3>1. ~InBank'  BY <1>1, <2>2
    <3>2. dataBuffer' = dataBuffer /\ ~InBank  BY <3>1, ReadOnKeeps DEF InBank
    <3> QED BY <1>1, <1>3, <3>2 DEF RingOrder, Window
  <2> QED BY <2>1, <2>2
<1> QED BY <1>3, <1>4, <1>5 DEF RingOrder

\* Giving a bank back makes the queue one shorter.
LEMMA ReleaseOrder ==
  ASSUME Inductive, RingOrder, SetWnetDone
  PROVE  RingOrder' /\ InRing' = InRing - 1 /\ InRing > 0
<1> DEFINE w == writenet.bankno
<1>1. /\ readdisk.bankno \in Bank /\ w \in Bank /\ ReadDone \in Nat /\ NextBank(w) \in Bank
  BY PlaceTypes, BanksOfTheRing
<1>2. /\ UNCHANGED <<readdisk, dataBuffer>> /\ NextUp = w /\ NextUp' = NextBank(w)
      /\ writenet'.bankno = w /\ Pending(w) /\ ~Pending(w)' /\ \A b \in Bank \ {w} : Pending(b)' <=> Pending(b)
  BY ReleaseTakesOut
<1>3. /\ ReadDone' = ReadDone /\ InBank' = InBank /\ \A b \in Bank : Back(b)' = Back(b)
  BY <1>2 DEF ReadDone, ReadPos, InBank, Back
<1>4. /\ InRing = Back(w) /\ \A b \in Bank : Back(b) \in 1 .. NO_BANK
      /\ \A b \in Bank : Back(b) = NO_BANK <=> b = readdisk.bankno
      /\ \A b, c \in Bank : Back(b) = Back(c) => b = c
  BY <1>1, <1>2, Ages DEF InRing
<1>5. NO_BANK \in Nat  BY BanksOfTheRing
<1>6. IF Back(w) = 1 THEN NextBank(w) = readdisk.bankno ELSE Back(NextBank(w)) = Back(w) - 1
  BY <1>1, AgeOfNext
<1>7. Queue  BY DEF RingOrder
<1>8. ASSUME NEW b \in Bank PROVE Pending(b)' <=> Back(b) <= InRing - 1
  <2>1. Back(b) \in Nat /\ InRing \in Nat /\ (Pending(b) <=> Back(b) <= InRing)
    BY <1>1, <1>4, <1>5, <1>7 DEF Queue
  <2>2. Back(b) = InRing <=> b = w  BY <1>1, <1>4
  <2>3. CASE b = w
    <3>1. ~Pending(b)'  BY <1>2, <2>3 DEF Pending, WriterOwns
    <3> QED BY <1>4, <2>1, <2>3, <3>1
  <2>4. CASE b # w  BY <1>2, <2>1, <2>2, <2>4
  <2> QED BY <2>3, <2>4
<1>9. InRing' = InRing - 1
  <2>1. Pending(NextUp)' <=> Back(NextBank(w)) <= InRing - 1
    BY <1>1, <1>2, <1>8 DEF Pending, WriterOwns
  <2>2. Back(NextUp)' = Back(NextBank(w))  BY <1>1, <1>2, <1>3 DEF Back
  <2>3. Back(w) \in 1 .. NO_BANK /\ Back(NextBank(w)) \in 1 .. NO_BANK  BY <1>1, <1>4
  <2>4. CASE Back(w) = 1
    BY <1>4, <1>5, <2>1, <2>3, <2>4 DEF InRing
  <2>5. CASE Back(w) # 1
    BY <1>4, <1>5, <1>6, <2>1, <2>2, <2>3, <2>5 DEF InRing
  <2> QED BY <2>4, <2>5
<1>10. InRing \in 1 .. NO_BANK  BY <1>1, <1>4
<1>11. Queue'
  <2>1. InRing' <= ReadDone'  BY <1>1, <1>3, <1>5, <1>7, <1>9, <1>10 DEF Queue
  <2>2. \A b \in Bank : Pending(b)' <=> Back(b)' <= InRing'  BY <1>3, <1>8, <1>9
  <2>3. InRing' = 0 => NextUp' = readdisk'.bankno
    BY <1>2, <1>4, <1>5, <1>6, <1>9, <1>10
  <2> QED BY <2>1, <2>2, <2>3 DEF Queue
<1>12. Rounds' /\ Window'  BY <1>2, <1>3 DEF RingOrder, Rounds, Window
<1> QED BY <1>5, <1>9, <1>10, <1>11, <1>12 DEF RingOrder

LEMMA WriteOnOrder ==
  ASSUME Inductive, RingOrder, WriteOn
  PROVE  RingOrder' /\ InRing' = InRing /\ ReadDone' = ReadDone
<1>1. /\ UNCHANGED <<readdisk, dataBuffer>> /\ NextUp' = NextUp
      /\ \A b \in Bank : Pending(b)' <=> Pending(b)
  BY WriteOnKeeps
<1>2. InRing' = InRing /\ \A b \in Bank : Back(b)' = Back(b)
  BY <1>1, QueueStays
<1>3. ReadDone' = ReadDone /\ InBank' = InBank  BY <1>1 DEF ReadDone, ReadPos, InBank
<1>4. Rounds' /\ Queue' /\ Window'
  BY <1>1, <1>2, <1>3 DEF RingOrder, Rounds, Queue, Window
<1> QED BY <1>2, <1>3, <1>4 DEF RingOrder

LEMMA OrderStep == Inductive /\ RingOrder /\ [Next]_vars => RingOrder'
  BY StepKinds, PassingOrder, ReadOnOrder, ReleaseOrder, WriteOnOrder

\* In every reachable state the ring holds the last chunks in the order of the
\* stream, and writenet() is at the oldest one that was not given back.
THEOREM RingStaysOrdered == Spec => [](Inductive /\ RingOrder)
<1>1. Init => Inductive /\ RingOrder
  BY InitType, InitToken, InitProgress, InitRingOrder DEF Inductive
<1>2. (Inductive /\ RingOrder) /\ [Next]_vars => (Inductive /\ RingOrder)'
  BY StepType, StepToken, StepProgress, StepComplete, OrderStep DEF Inductive
<1> QED BY <1>1, <1>2, PTL DEF Spec

-----------------------------------------------------------------------------
(***************************************************************************)
(* The bind semaphores.  BindBank() goes NO_BIND banks back, so that a bank*)
(* below NO_BIND waits for one of the last NO_BIND banks of the ring; the  *)
(* count of exactly those follows the distance of the two threads.         *)
(***************************************************************************)
LEMMA BindBanks ==
  /\ NO_BANK \in Nat /\ NO_BIND \in Nat /\ NO_BANK > NO_BIND
  /\ LastBanks \subseteq Bank
  /\ \A b \in Bank : BindBank(b) = IF b < NO_BIND THEN b - NO_BIND + NO_BANK ELSE b - NO_BIND
<1>1. NO_BANK \in Nat \ {0} /\ NO_BIND \in Nat /\ NO_BANK > NO_BIND  BY RingAssumption
<1>2. ASSUME NEW b \in Bank
      PROVE  BindBank(b) = IF b < NO_BIND THEN b - NO_BIND + NO_BANK ELSE b - NO_BIND
  <2>1. b \in 0 .. NO_BANK - 1  BY DEF Bank
  <2>2. CASE b < NO_BIND
    <3>1. b - NO_BIND + NO_BANK \in 0 .. NO_BANK - 1  BY <1>1, <2>1, <2>2
    <3>2. (b - NO_BIND + NO_BANK) % NO_BANK = b - NO_BIND + NO_BANK  BY <1>1, <3>1
    <3> QED BY <2>2, <3>2 DEF BindBank
  <2>3. CASE ~(b < NO_BIND)
    <3> DEFINE k == b - NO_BIND
    <3>1. k \in 0 .. NO_BANK - 1  BY <1>1, <2>1, <2>3
    <3>2. (k + NO_BANK) % NO_BANK = k  BY <1>1, <3>1
    <3> QED BY <2>3, <3>2 DEF BindBank
  <2> QED BY <2>2, <2>3
<1> QED BY <1>1, <1>2 DEF Bank, LastBanks

LEMMA InitBind == Init => BindCounts
<1> SUFFICES ASSUME Init PROVE BindCounts  OBVIOUS
<1>1. /\ readdisk = [pc |-> "open", bankno |-> 0, fileno |-> 0, seqNo |-> 0, first |-> TRUE]
      /\ writenet.pc = "start" /\ writenet.bankno = 0 /\ \A c \in Bank : semReadDisk[c] = 0
  BY DEF Init
<1>3. ReadDone = 0  BY <1>1, FirstPosTyped DEF ReadDone, ReadPos, InBank
<1>4. readdisk.bankno \in Bank  BY <1>1, BanksOfTheRing
<1>6. ~Pending(NextUp)  BY <1>1, BanksOfTheRing DEF Pending, WriterOwns, Holding, NextUp
<1>7. Unposted = 0  BY <1>1, <1>6 DEF Unposted, InRing
<1>8. ASSUME NEW b \in LastBanks PROVE BindCount(b)
  <2>1. b \in Bank  BY BindBanks
  <2>2. Back(b) \in Nat \ {0}  BY <1>4, <2>1, Ages
  <2>3. semBindTwo[b] = 0  BY <2>1 DEF Init
  <2> QED BY <1>1, <1>3, <1>7, <2>2, <2>3 DEF BindCount, Posted
<1> QED BY <1>3, <1>7, <1>8 DEF BindCounts

\* A pass makes every bank and the queue one older and gives readdisk() its reach back.
LEMMA PassingBind ==
  ASSUME Inductive, RingOrder, BindCounts, Passing
  PROVE  BindCounts'
<1>0. Unposted' <= ReadDone'
  <2>1. ReadDone' = ReadDone + 1 /\ writenet' = writenet  BY PassingHandsOver
  <2>2. InRing' = InRing + 1  BY PassingOrder
  <2>3. InRing \in Nat /\ ReadDone \in Nat  BY PlaceTypes, InRingType
  <2> QED BY <2>1, <2>2, <2>3 DEF BindCounts, Unposted
<1> SUFFICES ASSUME flag_bind, NEW b \in LastBanks PROVE BindCount(b)'
  BY <1>0 DEF BindCounts
<1>1. /\ b \in Bank /\ NO_BANK \in Nat /\ NO_BIND \in Nat /\ NO_BANK > NO_BIND  BY BindBanks
<1>2. /\ readdisk.bankno \in Bank /\ ReadDone \in Nat /\ InRing \in Nat
  BY PlaceTypes, InRingType
<1>3. /\ ReadDone' = ReadDone + 1 /\ InBank /\ ~InBank' /\ semBindTwo' = semBindTwo
      /\ writenet' = writenet /\ readdisk'.bankno = NextBank(readdisk.bankno)
  BY PassingHandsOver
<1>4. InRing' = InRing + 1  BY PassingOrder
<1>5. Unposted' = Unposted + 1 /\ Unposted \in Nat  BY <1>2, <1>3, <1>4 DEF Unposted
<1>6. Reach = NO_BIND - 1 /\ Reach' = NO_BIND
  <2>1. readdisk'.pc \in {"wait_wnet", "open", "done"}
    <3>1. readdisk \in ReaderType  BY PlaceTypes
    <3> QED BY <3>1 DEF Passing, ReadEnd, NextFile, LastFile, PassBank, ReaderType
  <2>2. Reach = NO_BIND - 1  BY <1>3 DEF Reach, InBank
  <2>3. Reach' = NO_BIND  BY <1>1, <2>1 DEF Reach
  <2> QED BY <2>2, <2>3
<1>7. Back(b)' = IF b = readdisk.bankno THEN 1 ELSE Back(b) + 1
  BY <1>1, <1>2, <1>3, AgeAfterPass
<1>8. Back(b) \in 1 .. NO_BANK /\ (Back(b) = NO_BANK <=> b = readdisk.bankno)
  BY <1>1, <1>2, Ages
<1>9. /\ semBindTwo[b] = IF Posted(b) THEN 1 ELSE 0
      /\ Unposted < Back(b) \/ Back(b) <= Reach
      /\ writenet.pc = "bind" /\ writenet.bankno = b => Back(b) = Unposted
  BY DEF BindCounts, BindCount
<1>10. Posted(b)' <=> Posted(b)
  <2>1. Posted(b)' <=> Unposted' < Back(b)' /\ Back(b)' <= Reach' /\ Back(b)' <= ReadDone'
    BY DEF Posted
  <2>2. Posted(b) <=> Unposted < Back(b) /\ Back(b) <= Reach /\ Back(b) <= ReadDone
    BY DEF Posted
  <2>3. CASE b = readdisk.bankno
    BY <1>1, <1>2, <1>5, <1>6, <1>7, <1>8, <2>1, <2>2, <2>3
  <2>4. CASE b # readdisk.bankno
    BY <1>1, <1>2, <1>3, <1>5, <1>6, <1>7, <1>8, <2>1, <2>2, <2>4
  <2> QED BY <2>3, <2>4
<1>11. Unposted' < Back(b)' \/ Back(b)' <= Reach'
  BY <1>1, <1>5, <1>6, <1>7, <1>8, <1>9 DEF LastBanks
<1>12. writenet'.pc = "bind" /\ writenet'.bankno = b => Back(b)' = Unposted'
  BY <1>1, <1>3, <1>5, <1>6, <1>7, <1>8, <1>9
<1> QED BY <1>3, <1>9, <1>10, <1>11, <1>12 DEF BindCount

\* Waiting for a bind semaphore shortens the reach of readdisk() by one: by the bank
\* it has waited for, or by one that was never filled.
LEMMA ReadOnBind ==
  ASSUME Inductive, RingOrder, BindCounts, ReadOn
  PROVE  BindCounts'
<1>0. Unposted' <= ReadDone'
  <2>1. ReadDone' = ReadDone /\ writenet' = writenet /\ InRing' = InRing
    BY ReadOnKeeps, ReadOnOrder
  <2> QED BY <2>1 DEF BindCounts, Unposted
<1> SUFFICES ASSUME flag_bind, NEW b \in LastBanks PROVE BindCount(b)'
  BY <1>0 DEF BindCounts
<1>1. /\ b \in Bank /\ NO_BANK \in Nat /\ NO_BIND \in Nat /\ NO_BANK > NO_BIND  BY BindBanks
<1>2. /\ readdisk.bankno \in Bank /\ ReadDone \in Nat /\ InRing \in Nat /\ readdisk \in ReaderType
      /\ Unposted \in Nat
  BY PlaceTypes, InRingType DEF Unposted
<1>3. /\ ReadDone' = ReadDone /\ readdisk'.bankno = readdisk.bankno /\ writenet' = writenet
      /\ InRing' = InRing
  BY ReadOnKeeps, ReadOnOrder
<1>4. Back(b)' = Back(b) /\ Unposted' = Unposted  BY <1>3 DEF Back, Unposted
<1>5. Back(b) \in 1 .. NO_BANK  BY <1>1, <1>2, Ages
<1>6. /\ semBindTwo[b] = IF Posted(b) THEN 1 ELSE 0
      /\ Unposted < Back(b) \/ Back(b) <= Reach
      /\ writenet.pc = "bind" /\ writenet.bankno = b => Back(b) = Unposted
  BY DEF BindCounts, BindCount
<1>7. CASE semBindTwo' = semBindTwo /\ Reach' = Reach
  <2>1. Posted(b)' <=> Posted(b)  BY <1>3, <1>4, <1>7 DEF Posted
  <2> QED BY <1>3, <1>4, <1>6, <1>7, <2>1 DEF BindCount
<1>8. CASE OpenFile \/ ReadBegin \/ ReadEof \/ ReadFail
  <2>1. semBindTwo' = semBindTwo
    BY <1>8 DEF OpenFile, ReadBegin, ReadEof, ReadFail, semaphores
  <2>2. Reach' = Reach
    <3>1. CASE readdisk' = readdisk  BY <3>1 DEF Reach
    <3>2. CASE OpenFile /\ readdisk' # readdisk
      BY <1>2, <3>2 DEF OpenFile, ReadAt, ReaderType, Reach
    <3>3. CASE ReadBegin  BY <1>2, <3>3 DEF ReadBegin, ReadAt, ReaderType, Reach
    <3>4. CASE ReadEof  BY <1>2, <3>4 DEF ReadEof, ReadAt, ReadGoto, ReaderType, Reach
    <3> QED BY <1>8, <3>1, <3>2, <3>3, <3>4 DEF OpenFile, ReadFail
  <2> QED BY <1>7, <2>1, <2>2
<1>9. CASE WaitWnetDone /\ ~readdisk.first
  <2>1. semBindTwo' = semBindTwo  BY <1>9 DEF WaitWnetDone
  <2>2. readdisk.pc = "wait_wnet" /\ readdisk'.pc = "wait_bind"
    BY <1>2, <1>9 DEF WaitWnetDone, ReadAt, ReadGoto, ReaderType
  <2> QED BY <1>7, <2>1, <2>2 DEF Reach
<1>10. CASE WaitWnetDone /\ readdisk.first
  <2>1. semBindTwo' = semBindTwo  BY <1>10 DEF WaitWnetDone
  <2>2. readdisk.pc = "wait_wnet" /\ readdisk'.pc = "fill"
    BY <1>2, <1>10 DEF WaitWnetDone, ReadAt, ReadGoto, ReaderType
  <2>3. Reach = NO_BIND /\ Reach' = NO_BIND - 1  BY <1>1, <2>2 DEF Reach
  <2>4. readdisk.bankno = ReadDone  BY <1>10 DEF RingOrder, Rounds
  <2>5. Back(b) # NO_BIND \/ Back(b) > ReadDone
    BY <1>1, <1>2, <2>4 DEF Back, Bank, LastBanks
  <2>6. Posted(b)' <=> Posted(b)
    <3>1. Posted(b)' <=> Unposted < Back(b) /\ Back(b) <= NO_BIND - 1 /\ Back(b) <= ReadDone
      BY <1>3, <1>4, <2>3 DEF Posted
    <3>2. Posted(b) <=> Unposted < Back(b) /\ Back(b) <= NO_BIND /\ Back(b) <= ReadDone
      BY <2>3 DEF Posted
    <3> QED BY <1>1, <1>2, <1>5, <2>5, <3>1, <3>2
  <2>7. Unposted < Back(b) \/ Back(b) <= NO_BIND - 1
    <3>1. CASE Back(b) # NO_BIND  BY <1>1, <1>5, <1>6, <2>3, <3>1
    <3>2. CASE Back(b) > ReadDone  BY <1>2, <1>5, <3>2 DEF BindCounts
    <3> QED BY <2>5, <3>1, <3>2
  <2> QED BY <1>3, <1>4, <1>6, <2>1, <2>3, <2>6, <2>7 DEF BindCount
<1>11. CASE WaitBindTwo
  <2> DEFINE c == BindBank(readdisk.bankno)
  <2>1. /\ readdisk.pc = "wait_bind" /\ readdisk'.pc = "fill" /\ semBindTwo[c] > 0
        /\ semBindTwo' = [semBindTwo EXCEPT ![c] = @ - 1]
    BY <1>2, <1>11 DEF WaitBindTwo, ReadAt, ReadGoto, ReaderType
  <2>2. Reach = NO_BIND /\ Reach' = NO_BIND - 1  BY <1>1, <2>1 DEF Reach
  <2>3. b = c <=> Back(b) = NO_BIND
    <3>1. c = IF readdisk.bankno < NO_BIND THEN readdisk.bankno - NO_BIND + NO_BANK
              ELSE readdisk.bankno - NO_BIND
      BY <1>2, BindBanks
    <3>2. readdisk.bankno \in 0 .. NO_BANK - 1 /\ b \in NO_BANK - NO_BIND .. NO_BANK - 1
      BY <1>1, <1>2 DEF Bank, LastBanks
    <3>3. Back(b) = IF b < readdisk.bankno THEN readdisk.bankno - b
                    ELSE readdisk.bankno - b + NO_BANK
      BY DEF Back
    <3> HIDE DEF c
    <3> QED BY <1>1, <3>1, <3>2, <3>3
  <2>4. semBindTwo'[b] = semBindTwo[b] - IF b = c THEN 1 ELSE 0
    <3>1. semBindTwo \in [Bank -> Nat] /\ c \in Bank
      BY <1>2, BanksOfTheRing DEF Inductive, TypeOK
    <3> HIDE DEF c
    <3> QED BY <1>1, <2>1, <3>1
  <2>5. Posted(b)' <=> Unposted < Back(b) /\ Back(b) <= NO_BIND - 1 /\ Back(b) <= ReadDone
    BY <1>3, <1>4, <2>2 DEF Posted
  <2>6. Posted(b) <=> Unposted < Back(b) /\ Back(b) <= NO_BIND /\ Back(b) <= ReadDone
    BY <2>2 DEF Posted
  <2>7. CASE b = c
    <3>1. Posted(b)  BY <1>6, <2>1, <2>7
    <3> QED BY <1>1, <1>2, <1>3, <1>4, <1>5, <1>6, <2>2, <2>3, <2>4, <2>5, <2>6, <2>7, <3>1 DEF BindCount
  <2>8. CASE b # c
    BY <1>1, <1>2, <1>3, <1>4, <1>5, <1>6, <2>2, <2>3, <2>4, <2>5, <2>6, <2>8 DEF BindCount
  <2> QED BY <2>7, <2>8
<1> QED BY <1>8, <1>9, <1>10, <1>11 DEF ReadOn

LEMMA ReleaseBind ==
  ASSUME Inductive, RingOrder, BindCounts, SetWnetDone
  PROVE  BindCounts'
<1>1. /\ UNCHANGED <<readdisk, semBindTwo>> /\ writenet.pc = "release" /\ writenet'.pc = "bind"
      /\ writenet'.bankno = writenet.bankno /\ NextUp = writenet.bankno
      /\ Pending(writenet.bankno)
  BY ReleaseTakesOut DEF SetWnetDone
<1>2. ReadDone' = ReadDone /\ Reach' = Reach /\ \A b \in Bank : Back(b)' = Back(b)
  BY <1>1 DEF ReadDone, ReadPos, InBank, Reach, Back
<1>3. InRing' = InRing - 1 /\ InRing \in Nat  BY ReleaseOrder, InRingType
<1>4. Unposted' = Unposted  BY <1>1, <1>3 DEF Unposted
<1>5. Unposted = Back(writenet.bankno)
  BY <1>1, <1>3, InRingType, PlaceTypes DEF Unposted, InRing
<1>6. ASSUME flag_bind, NEW b \in LastBanks PROVE BindCount(b)'
  <2>1. b \in Bank /\ BindCount(b)  BY <1>6, BindBanks DEF BindCounts
  <2>2. Back(b)' = Back(b)  BY <1>2, <2>1
  <2>3. Posted(b)' <=> Posted(b)  BY <1>2, <1>4, <2>2 DEF Posted
  <2> QED BY <1>1, <1>2, <1>4, <1>5, <2>1, <2>2, <2>3 DEF BindCount
<1> QED BY <1>2, <1>4, <1>6 DEF BindCounts

\* Posting the bind semaphore of the bank just given back.
LEMMA PostBind ==
  ASSUME Inductive, RingOrder, BindCounts, SetBindTwoGo
  PROVE  BindCounts'
<1> DEFINE w == writenet.bankno
<1>1. /\ writenet.pc = "bind" /\ writenet'.pc # "bind" /\ UNCHANGED readdisk
      /\ semBindTwo' = IF flag_bind THEN [semBindTwo EXCEPT ![w] = @ + 1] ELSE semBindTwo
  <2>1. writenet \in WriterType  BY PlaceTypes
  <2> QED BY <2>1 DEF SetBindTwoGo, WriteAt, WriteUnchanged, WriterType
<1>2. InRing' = InRing  BY WriteOnOrder DEF WriteOn
<1>3. ReadDone' = ReadDone /\ Reach' = Reach /\ \A b \in Bank : Back(b)' = Back(b)
  BY <1>1 DEF ReadDone, ReadPos, InBank, Reach, Back
<1>4. Unposted' = Unposted - 1 /\ Unposted = InRing + 1 /\ InRing \in Nat /\ ReadDone \in Nat
  BY <1>1, <1>2, InRingType, PlaceTypes DEF Unposted
<1>5. /\ readdisk.bankno \in Bank /\ w \in Bank /\ NO_BANK \in Nat
      /\ NextUp = NextBank(w) /\ NextBank(w) \in Bank
  BY <1>1, PlaceTypes, BanksOfTheRing DEF NextUp
<1>6. ASSUME NEW b \in Bank, Back(b) = Unposted PROVE b = w
  <2>1. /\ Back(w) \in 1 .. NO_BANK /\ Back(b) \in 1 .. NO_BANK
        /\ Back(NextBank(w)) \in 1 .. NO_BANK
        /\ Back(NextBank(w)) = NO_BANK <=> NextBank(w) = readdisk.bankno
        /\ Back(b) = Back(w) => b = w
    BY <1>5, Ages
  <2>2. IF Back(w) = 1 THEN NextBank(w) = readdisk.bankno ELSE Back(NextBank(w)) = Back(w) - 1
    BY <1>5, AgeOfNext
  <2>3. IF InRing = 0 THEN NextBank(w) = readdisk.bankno ELSE Back(NextBank(w)) = InRing
    <3>1. Queue  BY DEF RingOrder
    <3> QED BY <1>5, <3>1 DEF Queue, InRing
  <2>4. Back(w) = Unposted
    BY <1>4, <1>5, <1>6, <2>1, <2>2, <2>3
  <2> QED BY <1>6, <2>1, <2>4
<1>7. ASSUME flag_bind, NEW b \in LastBanks PROVE BindCount(b)'
  <2>1. b \in Bank /\ BindCount(b) /\ Back(b) \in 1 .. NO_BANK /\ NO_BIND \in Nat
    BY <1>5, <1>7, BindBanks, Ages DEF BindCounts
  <2>2. Back(b)' = Back(b)  BY <1>3, <2>1
  <2>3. semBindTwo'[b] = semBindTwo[b] + IF b = w THEN 1 ELSE 0
    <3>1. semBindTwo \in [Bank -> Nat]  BY DEF Inductive, TypeOK
    <3>2. semBindTwo[b] \in Nat  BY <2>1, <3>1
    <3> QED BY <1>1, <1>5, <1>7, <2>1, <3>1, <3>2
  <2>4. Reach \in Int  BY <2>1 DEF Reach
  <2>5. Posted(b)' <=> Unposted - 1 < Back(b) /\ Back(b) <= Reach /\ Back(b) <= ReadDone
    BY <1>3, <1>4, <2>2 DEF Posted
  <2>6. Posted(b) <=> Unposted < Back(b) /\ Back(b) <= Reach /\ Back(b) <= ReadDone
    BY DEF Posted
  <2>7. /\ semBindTwo[b] = IF Posted(b) THEN 1 ELSE 0
        /\ Unposted < Back(b) \/ Back(b) <= Reach
        /\ w = b => Back(b) = Unposted
    BY <1>1, <2>1 DEF BindCount
  <2>8. CASE b = w
    <3>1. Back(b) = Unposted /\ Back(b) <= Reach /\ Unposted <= ReadDone
      BY <1>4, <2>4, <2>7, <2>8 DEF BindCounts
    <3>2. ~Posted(b) /\ Posted(b)'  BY <1>4, <2>5, <2>6, <3>1
    <3> QED BY <1>1, <1>3, <1>4, <2>2, <2>3, <2>7, <2>8, <3>1, <3>2 DEF BindCount
  <2>9. CASE b # w
    <3>1. Back(b) # Unposted  BY <1>6, <2>1, <2>9
    <3>2. Posted(b)' <=> Posted(b)  BY <1>4, <2>1, <2>4, <2>5, <2>6, <3>1
    <3>3. Unposted' < Back(b)' \/ Back(b)' <= Reach'
      BY <1>3, <1>4, <2>1, <2>2, <2>4, <2>7
    <3> QED BY <1>1, <2>3, <2>7, <2>9, <3>2, <3>3 DEF BindCount
  <2> QED BY <2>8, <2>9
<1>8. Unposted' <= ReadDone'  BY <1>3, <1>4 DEF BindCounts
<1> QED BY <1>7, <1>8 DEF BindCounts

LEMMA WriteOnBind ==
  ASSUME Inductive, RingOrder, BindCounts, WriteOn, ~SetBindTwoGo
  PROVE  BindCounts'
<1>1. readdisk' = readdisk /\ InRing' = InRing
  BY WriteOnKeeps, WriteOnOrder
<1>2. ReadDone' = ReadDone /\ Reach' = Reach /\ \A b \in Bank : Back(b)' = Back(b)
  BY <1>1 DEF ReadDone, ReadPos, InBank, Reach, Back
<1>3. /\ semBindTwo' = semBindTwo
      /\ \/ writenet' = writenet
         \/ writenet.pc # "bind" /\ writenet'.pc # "bind"
  <2>1. writenet \in WriterType /\ TypeOK  BY PlaceTypes DEF Inductive
  <2>2. CASE SendFileno \/ SendData \/ Recover
    <3>1. Holding /\ Holding'  BY <2>1, <2>2, WriterKeepsBank
    <3>2. semBindTwo' = semBindTwo
      BY <2>2 DEF SendFileno, SendData, SendPacket, Recover, RecoverHost, RecoverAck,
           RecoverConnect, RecoverCheck, RecoverSend, semaphores
    <3> QED BY <3>1, <3>2 DEF Holding
  <2>3. CASE WriteStart
    BY <2>1, <2>3 DEF WriteStart, WriteAt, WriterType, semaphores
  <2>4. CASE WaitRdiskDone
    BY <2>1, <2>4 DEF WaitRdiskDone, WriteAt, WriterType
  <2>5. CASE ExceptionReciever \/ Join \/ Poll \/ UNCHANGED vars
    BY <2>5 DEF ExceptionReciever, Join, Poll, vars, semaphores
  <2> QED BY <2>2, <2>3, <2>4, <2>5 DEF WriteOn
<1>4. Unposted' = Unposted  BY <1>1, <1>3 DEF Unposted
<1>5. ASSUME flag_bind, NEW b \in LastBanks PROVE BindCount(b)'
  <2>1. b \in Bank /\ BindCount(b)  BY <1>5, BindBanks DEF BindCounts
  <2>2. Back(b)' = Back(b)  BY <1>2, <2>1
  <2>3. Posted(b)' <=> Posted(b)  BY <1>2, <1>4, <2>2 DEF Posted
  <2> QED BY <1>2, <1>3, <1>4, <2>1, <2>2, <2>3 DEF BindCount
<1> QED BY <1>2, <1>4, <1>5 DEF BindCounts

LEMMA BindStep == Inductive /\ RingOrder /\ BindCounts /\ [Next]_vars => BindCounts'
  BY StepKinds, PassingBind, ReadOnBind, ReleaseBind, PostBind, WriteOnBind

LEMMA BindAlways == Spec => [](Inductive /\ RingOrder /\ BindCounts)
<1>1. Init => BindCounts  BY InitBind
<1>2. (Inductive /\ RingOrder) /\ (Inductive /\ RingOrder)' /\ BindCounts /\ [Next]_vars
      => BindCounts'
  BY BindStep
<1> QED BY <1>1, <1>2, RingStaysOrdered, PTL DEF Spec

BindDistance ==
  flag_bind /\ readdisk.pc = "fill" /\ ~readdisk.first /\ readdisk.bankno < NO_BIND =>
    Unposted < NO_BIND

LEMMA BindIsKept == Inductive /\ BindCounts => BindDistance
<1> SUFFICES ASSUME Inductive, BindCounts, flag_bind, readdisk.pc = "fill",
                    readdisk.bankno < NO_BIND
             PROVE  Unposted < NO_BIND
  BY DEF BindDistance
<1> DEFINE b == readdisk.bankno - NO_BIND + NO_BANK
<1>1. /\ NO_BANK \in Nat /\ NO_BIND \in Nat /\ NO_BANK > NO_BIND
      /\ readdisk.bankno \in 0 .. NO_BANK - 1
  BY BindBanks, PlaceTypes DEF Bank
<1>2. b \in LastBanks  BY <1>1 DEF LastBanks
<1>3. Back(b) = NO_BIND  BY <1>1 DEF Back
<1>4. Unposted < Back(b) \/ Back(b) <= Reach  BY <1>2 DEF BindCounts, BindCount
<1>5. Reach = NO_BIND - 1  BY <1>1 DEF Reach
<1> QED BY <1>1, <1>3, <1>4, <1>5

\* Past the first round readdisk() fills one of the first NO_BIND banks only when
\* writenet() is less than NO_BIND chunks behind; whatever the connections do, and
\* for any size of the ring (readdisk(), WaitBindTwo; writenet(), SetBindTwoGo).
THEOREM BindKeepsDistance == Spec => []BindDistance
  BY BindIsKept, BindAlways, PTL

-----------------------------------------------------------------------------
(***************************************************************************)
(* The recovery.  A lost connection is recovered once: CntlOut refuses the *)
(* second TYPE_RECONNECT, and the exception receiver that could set XOFF   *)
(* again is never registered for the new connection.                       *)
(***************************************************************************)
\* readdisk() does not touch the bank in writenet()'s hand.
LEMMA HandStays ==
  ASSUME Inductive, Holding, ReadOn \/ Passing
  PROVE  Hand' = Hand
<1>1. /\ writenet.bankno \in Bank /\ TypeOK /\ OneToken /\ WriterOwns(writenet.bankno)
  BY PlaceTypes DEF Inductive, WriterOwns
<1>2. CASE dataBuffer' = dataBuffer
  <2>1. writenet' = writenet  BY ReadOnKeeps, PassingHandsOver
  <2> QED BY <1>2, <2>1 DEF Hand
<1>3. CASE Filling
  <2>1. writenet.bankno # readdisk.bankno  BY <1>1, <1>3, ReaderAlone
  <2>2. /\ writenet' = writenet
        /\ \A b \in Bank \ {readdisk.bankno} : dataBuffer'[b] = dataBuffer[b]
    BY ReadOnKeeps, PassingHandsOver
  <2> QED BY <1>1, <2>1, <2>2 DEF Hand
<1>4. CASE ~Filling
  <2>1. ~Passing  BY <1>4, PassingHandsOver DEF InBank, Filling
  <2>2. dataBuffer' = dataBuffer
    BY <1>4, <2>1 DEF ReadOn, OpenFile, WaitWnetDone, WaitBindTwo, ReadBegin, ReadEof,
       ReadFail, ReadAt, Filling
  <2> QED BY <1>2, <2>2
<1> QED BY <1>3, <1>4

\* The bank that writenet() takes next or works on holds the chunk that is due.
LEMMA HandIsDue ==
  ASSUME Inductive, RingOrder, Pending(NextUp)
  PROVE  /\ Complete(dataBuffer[NextUp])
         /\ HeaderOf(dataBuffer[NextUp]) \in Chunks
         /\ Pos(HeaderOf(dataBuffer[NextUp])) = Due
         /\ Due \in Nat
<1>1. NextUp \in Bank /\ readdisk.bankno \in Bank /\ ReadDone \in Nat  BY PlaceTypes
<1>2. InRing = Back(NextUp)  BY DEF InRing
<1>3. Back(NextUp) <= ReadDone  BY <1>2 DEF RingOrder, Queue
<1>4. ~(InBank /\ NextUp = readdisk.bankno)
  <2> SUFFICES ASSUME Filling PROVE NextUp # readdisk.bankno  BY DEF InBank, Filling
  <2> QED BY <1>1, ReaderAlone DEF Inductive, Pending
<1>5. /\ Complete(dataBuffer[NextUp])
      /\ Pos(HeaderOf(dataBuffer[NextUp])) = ReadDone - Back(NextUp)
  BY <1>1, <1>3, <1>4 DEF RingOrder, Window
<1>6. HeaderOf(dataBuffer[NextUp]) \in Chunks  BY <1>5 DEF Complete
<1>7. Back(NextUp) \in Nat  BY <1>1, Ages
<1> QED BY <1>1, <1>2, <1>3, <1>5, <1>6, <1>7 DEF Due

LEMMA HoldingHand ==
  ASSUME Inductive, RingOrder, Holding
  PROVE  /\ NextUp = writenet.bankno /\ Pending(NextUp) /\ InRing = Back(writenet.bankno)
         /\ Complete(Hand) /\ HandChunk \in Chunks /\ Pos(HandChunk) = Due /\ Due \in Nat
<1>1. NextUp = writenet.bankno  BY DEF Holding, NextUp
<1>2. Pending(NextUp)  BY <1>1 DEF Pending, WriterOwns
<1>3. InRing = Back(writenet.bankno)  BY <1>1, <1>2 DEF InRing
<1> QED BY <1>1, <1>2, <1>3, HandIsDue DEF Hand, HandChunk

\* The ways the loop around send_packet() goes on.
LEMMA SendOutcome ==
  ASSUME Inductive, NEW packet, NEW pc \in {"send_data", "release"}, SendPacket(packet, pc)
  PROVE  /\ UNCHANGED <<dataBuffer, readdisk, peer, cntlOut, mainPc>>
         /\ writenet'.bankno = writenet.bankno
         /\ dataout'.exception = dataout.exception
         /\ \/ /\ Put(packet) /\ writenet'.pc = pc /\ writeNetXoff' = FALSE
            \/ /\ "lost" \in Faults /\ writeNetXoff /\ Cut
               /\ writenet'.pc \in {writenet.pc, pc} /\ writeNetXoff' = writeNetXoff
            \/ /\ "lost" \in Faults /\ ~writeNetXoff /\ Cut
               /\ writenet'.pc = "rec_host" /\ writenet'.ret = pc /\ writeNetXoff' = writeNetXoff
            \/ UNCHANGED <<dataout, writenet, writeNetXoff>>
<1>1. writenet \in WriterType /\ dataout \in ConnectionType
  BY PlaceTypes DEF Inductive, TypeOK
<1>2. UNCHANGED <<dataBuffer, readdisk, peer, cntlOut, mainPc>>
  BY DEF SendPacket, WriteUnchanged, hosts
<1>3. ASSUME NEW p, Put(p) PROVE dataout'.exception = dataout.exception
  BY <1>1, <1>3 DEF Put, ConnectionType
<1>4. Cut => dataout'.exception = dataout.exception  BY <1>3 DEF Cut
<1>5. CASE SendSuccess(packet, pc)
  BY <1>1, <1>2, <1>3, <1>5 DEF SendSuccess, GoOn, WriterType
<1>6. CASE SendRetry(pc)
  BY <1>1, <1>2, <1>4, <1>6 DEF SendRetry, GoOn, WriterType
<1>7. CASE SendLost(pc)
  BY <1>1, <1>2, <1>4, <1>7 DEF SendLost, WriterType
<1>8. CASE SendError  BY <1>2, <1>8 DEF SendError
<1> QED BY <1>5, <1>6, <1>7, <1>8 DEF SendPacket

LEMMA InitRecovery == Init => Recovery
  BY DEF Init, Recovery, OneRecovery, Request, SameFile, Recovering, Resending, Nobody

\* What the recovery does not look at.
LEMMA RecoveryKept ==
  ASSUME Recovery, UNCHANGED <<writenet, dataout, peer, cntlOut, writeNetXoff>>,
         Holding => Hand' = Hand, exited = "no" \/ exited' = exited
  PROVE  Recovery'
<1>1. Recovering => Holding /\ Recovering' = Recovering  BY DEF Recovering, Holding
<1>2. Resending => Holding  BY DEF Resending, Holding
<1>3. OneRecovery'
  <2>1. /\ Recovering' = Recovering /\ Resending' = Resending  BY DEF Recovering, Resending
  <2>2. writenet.pc = "send_fileno" => Holding  BY DEF Holding
  <2> QED BY <1>1, <2>1, <2>2 DEF Recovery, OneRecovery
<1>4. Request'
  <2>1. Resending' = Resending /\ SameFile' = SameFile  BY DEF Resending, SameFile
  <2>2. Resending => HandChunk' = HandChunk /\ ResendCount' = ResendCount /\ Hand' = Hand
    BY <1>2 DEF HandChunk, ResendCount
  <2> QED BY <2>1, <2>2 DEF Recovery, Request
<1> QED BY <1>3, <1>4 DEF Recovery

LEMMA SendRecovery ==
  ASSUME Inductive, Recovery, NEW packet, NEW pc \in {"send_data", "release"},
         SendPacket(packet, pc),
         \/ writenet.pc = "send_fileno" /\ pc = "send_data"
         \/ writenet.pc = "send_data" /\ pc = "release"
  PROVE  Recovery'
<1>1. /\ SendPacket(packet, pc)
      /\ \/ writenet.pc = "send_fileno" /\ pc = "send_data"
         \/ writenet.pc = "send_data" /\ pc = "release"
  OBVIOUS
<1>2. /\ UNCHANGED <<dataBuffer, peer, cntlOut>> /\ writenet'.bankno = writenet.bankno
      /\ dataout'.exception = dataout.exception
      /\ \/ /\ Put(packet) /\ writenet'.pc = pc /\ writeNetXoff' = FALSE
         \/ /\ "lost" \in Faults /\ writeNetXoff /\ Cut
            /\ writenet'.pc \in {writenet.pc, pc} /\ writeNetXoff' = writeNetXoff
         \/ /\ "lost" \in Faults /\ ~writeNetXoff /\ Cut
            /\ writenet'.pc = "rec_host" /\ writenet'.ret = pc /\ writeNetXoff' = writeNetXoff
         \/ UNCHANGED <<dataout, writenet, writeNetXoff>>
  BY <1>1, SendOutcome
<1>3. Hand' = Hand  BY <1>2 DEF Hand
<1>4. writenet.pc = "send_fileno" => Hand.seqno = 0  BY DEF Recovery, OneRecovery
<1>5. peer # Nobody => ~dataout.exception /\ cntlOut /\ ~writeNetXoff
  BY DEF Recovery, OneRecovery
<1>6. ~Recovering /\ ~Resending /\ ~Resending'
  BY <1>1, <1>2 DEF Recovering, Resending
<1>7. OneRecovery'
  <2>1. "lost" \notin Faults => ~Recovering' /\ peer' = Nobody
    BY <1>1, <1>2, <1>6 DEF Recovery, OneRecovery, Recovering
  <2>2. Recovering' => ~writeNetXoff'  BY <1>1, <1>2 DEF Recovering
  <2>3. Recovering' /\ writenet'.ret = "send_data" => Hand'.seqno = 0
    BY <1>1, <1>2, <1>3, <1>4 DEF Recovering
  <2>4. writenet'.pc \notin {"start", "rec_ack", "rec_connect"}  BY <1>1, <1>2
  <2>5. writenet'.pc = "send_fileno" => Hand'.seqno = 0  BY <1>1, <1>2, <1>3, <1>4
  <2>6. peer' # Nobody => ~dataout'.exception /\ cntlOut' /\ ~writeNetXoff'  BY <1>2, <1>5
  <2> QED BY <1>6, <2>1, <2>2, <2>3, <2>4, <2>5, <2>6 DEF OneRecovery
<1>8. Request'  BY <1>2, <1>6 DEF Recovery, Request
<1> QED BY <1>7, <1>8 DEF Recovery

\* Outside recover_sending() little can go wrong.
LEMMA RecoveryElsewhere ==
  ASSUME Recovery, ~Recovering', writenet'.pc # "start", peer' = peer, cntlOut' = cntlOut,
         writenet'.pc = "send_fileno" => Hand'.seqno = 0,
         peer # Nobody => ~dataout'.exception /\ ~writeNetXoff'
  PROVE  Recovery'
<1>1. ~Resending' /\ writenet'.pc \notin {"rec_ack", "rec_connect"}
  BY DEF Recovering, Resending
<1>2. OneRecovery'  BY <1>1 DEF Recovery, OneRecovery
<1>3. Request'  BY <1>1 DEF Recovery, Request, SameFile
<1> QED BY <1>2, <1>3 DEF Recovery

LEMMA WriteRecovery ==
  ASSUME Inductive, Recovery, WriteStart \/ WaitRdiskDone \/ SetWnetDone \/ SetBindTwoGo
  PROVE  Recovery'
<1>1. writenet \in WriterType /\ dataout \in ConnectionType
  BY PlaceTypes DEF Inductive, TypeOK
<1>2. UNCHANGED <<peer, cntlOut, writeNetXoff, dataBuffer>>
  BY DEF WriteStart, WaitRdiskDone, SetWnetDone, SetBindTwoGo, WriteUnchanged, hosts
<1>3. peer # Nobody => ~dataout.exception /\ ~writeNetXoff  BY DEF Recovery, OneRecovery
<1>4. CASE WriteStart
  <2>1. writenet.pc = "start" /\ writenet'.pc = "wait_rdisk"
    BY <1>1, <1>4 DEF WriteStart, WriteAt, WriterType
  <2>2. peer = Nobody  BY <2>1 DEF Recovery, OneRecovery
  <2> QED BY <1>2, <2>1, <2>2, RecoveryElsewhere DEF Recovering
<1>5. CASE WaitRdiskDone
  <2>1. /\ dataout' = dataout /\ writenet'.bankno = writenet.bankno
        /\ writenet'.pc = IF Hand.seqno = 0 THEN "send_fileno" ELSE "send_data"
    BY <1>1, <1>5 DEF WaitRdiskDone, WriterType
  <2>2. Hand' = Hand  BY <1>2, <2>1 DEF Hand
  <2> QED BY <1>2, <1>3, <2>1, <2>2, RecoveryElsewhere DEF Recovering
<1>6. CASE SetWnetDone \/ SetBindTwoGo
  <2>1. dataout' = dataout /\ writenet'.pc \in {"bind", "done", "wait_rdisk"}
    BY <1>1, <1>6 DEF SetWnetDone, SetBindTwoGo, WriterType
  <2> QED BY <1>2, <1>3, <2>1, RecoveryElsewhere DEF Recovering
<1> QED BY <1>4, <1>5, <1>6

LEMMA ExceptionRecovery ==
  ASSUME Recovery, ExceptionReciever
  PROVE  Recovery'
<1>1. /\ writenet.pc \in {"send_fileno", "send_data"} /\ dataout.exception
      /\ UNCHANGED <<writenet, dataBuffer, dataout, peer, cntlOut>>
  BY DEF ExceptionReciever, WriteAt, hosts
<1>2. peer = Nobody  BY <1>1 DEF Recovery, OneRecovery
<1>3. writenet'.pc = "send_fileno" => Hand'.seqno = 0
  BY <1>1 DEF Recovery, OneRecovery, Hand
<1> QED BY <1>1, <1>2, <1>3, RecoveryElsewhere DEF Recovering

\* Steps of the others, and the ways out of recover_sending() by exit().
LEMMA OtherRecovery ==
  ASSUME Inductive, Recovery, ReadOn \/ Passing \/ Join \/ Poll \/ UNCHANGED vars
  PROVE  Recovery'
<1>1. CASE ReadOn \/ Passing
  <2>1. /\ UNCHANGED <<writenet, dataout, peer, cntlOut, writeNetXoff>>
        /\ exited = "no"
    BY <1>1 DEF ReadOn, Passing, OpenFile, WaitWnetDone, WaitBindTwo, ReadBegin, ReadEof,
         ReadFail, ReadEnd, NextFile, LastFile, ReadUnchanged, hosts, ReadAt, Ended
  <2> QED BY <1>1, <2>1, HandStays, RecoveryKept
<1>2. CASE Join \/ Poll \/ UNCHANGED vars
  <2>1. /\ UNCHANGED <<writenet, dataout, peer, cntlOut, writeNetXoff, exited, dataBuffer>>
    BY <1>2 DEF Join, Poll, vars, hosts
  <2>2. Hand' = Hand  BY <2>1 DEF Hand
  <2> QED BY <2>1, <2>2, RecoveryKept
<1> QED BY <1>1, <1>2

LEMMA ExitRecovery ==
  ASSUME Recovery, NEW why, Exit(why), exited = "no",
         UNCHANGED <<peer, cntlOut, dataBuffer>>
  PROVE  Recovery'
<1>1. Hand' = Hand  BY DEF Exit, Hand
<1> QED BY <1>1, RecoveryKept DEF Exit

LEMMA HostRecovery ==
  ASSUME Inductive, Recovery, RecoverHost
  PROVE  Recovery'
<1>1. /\ writenet.pc = "rec_host" /\ writenet \in WriterType
      /\ dataout' = [open |-> FALSE, exception |-> FALSE, wire |-> <<>>]
      /\ UNCHANGED <<peer, dataBuffer>>
  BY PlaceTypes DEF RecoverHost, WriteAt, WriteUnchanged
<1>2. /\ Recovering /\ ~Resending /\ ~writeNetXoff /\ "lost" \in Faults
      /\ peer # Nobody => cntlOut
  BY <1>1 DEF Recovery, OneRecovery, Recovering, Resending
<1>3. /\ writeNetXoff' = writeNetXoff /\ writenet'.bankno = writenet.bankno
      /\ writenet'.ret = writenet.ret
      /\ \/ writenet'.pc = "rec_host" /\ cntlOut' \in {cntlOut, TRUE}
         \/ writenet'.pc = "rec_ack" /\ cntlOut' = TRUE /\ ~cntlOut
  BY <1>1 DEF RecoverHost, RecoverGoto, WriterType
<1>4. Hand' = Hand  BY <1>1, <1>3 DEF Hand
<1>5. ~Resending'  BY <1>3 DEF Resending
<1>6. OneRecovery'
  <2>1. writenet'.ret = "send_data" => Hand'.seqno = 0
    BY <1>2, <1>3, <1>4 DEF Recovery, OneRecovery
  <2> QED BY <1>1, <1>2, <1>3, <1>5, <2>1 DEF OneRecovery
<1>7. Request'  BY <1>1, <1>5 DEF Recovery, Request, SameFile
<1> QED BY <1>6, <1>7 DEF Recovery

LEMMA AckRecovery ==
  ASSUME Inductive, RingOrder, Recovery, RecoverAck
  PROVE  Recovery'
<1>1. /\ writenet.pc = "rec_ack" /\ writenet \in WriterType /\ exited = "no"
      /\ UNCHANGED <<dataBuffer, dataout, cntlOut, writeNetXoff>>
  BY PlaceTypes DEF RecoverAck, WriteAt, WriteUnchanged, hosts, Exit, Ended
<1>2. CASE Exit("control") /\ peer' = peer  BY <1>1, <1>2, ExitRecovery
<1>3. ASSUME NEW c \in Chunks, MayWaitFor(c), peer' = [waits |-> c, hand |-> HandChunk],
             writenet' = [writenet EXCEPT !.pc = "rec_connect", !.req = c.seqno, !.jj = 0],
             exited' = IF c.seqno < Hand.seqno - NO_BIND THEN "too_old"
                       ELSE IF Hand.seqno < c.seqno THEN "previous_file" ELSE "no"
      PROVE  Recovery'
  <2>1. /\ writenet'.pc = "rec_connect" /\ writenet'.req = c.seqno /\ writenet'.jj = 0
        /\ writenet'.ret = writenet.ret /\ writenet'.bankno = writenet.bankno
    BY <1>1, <1>3 DEF WriterType
  <2>2. Hand' = Hand /\ HandChunk' = HandChunk
    BY <1>1, <2>1 DEF Hand, HandChunk
  <2>3. HandChunk \in Chunks  BY <1>1, HoldingHand DEF Holding
  <2>4. /\ c.seqno \in Nat /\ HandChunk.seqno \in Nat /\ Pos(c) \in Nat /\ Pos(HandChunk) \in Nat
        /\ c = Chunk(c.fileno, c.seqno) /\ HandChunk = Chunk(HandChunk.fileno, HandChunk.seqno)
        /\ FirstPos[c.fileno] \in Nat
    BY <2>3, ChunkPlace
  <2>5. Hand.seqno = HandChunk.seqno /\ Hand.fileno = HandChunk.fileno
    BY DEF HandChunk, HeaderOf, Chunk
  <2>6. Pos(c) <= Pos(HandChunk)  BY <1>3, <2>4, NetAssumption DEF MayWaitFor
  <2>7. peer'.waits = c /\ peer'.hand = HandChunk /\ peer' # Nobody
    BY <1>3, <2>4 DEF Nobody, Torn, Chunk
  <2>8. /\ "lost" \in Faults /\ ~writeNetXoff /\ ~dataout.exception /\ cntlOut
        /\ dataout.wire = <<>> /\ (writenet.ret = "send_data" => Hand.seqno = 0)
    BY <1>1 DEF Recovery, OneRecovery, Recovering
  <2>9. OneRecovery'
    BY <1>1, <2>1, <2>2, <2>7, <2>8 DEF OneRecovery, Recovering, Resending
  <2>10. ASSUME c.fileno = HandChunk.fileno
         PROVE  c.seqno <= Hand.seqno /\ writenet.ret = "release"
    <3>1. c.seqno <= Hand.seqno  BY <2>4, <2>5, <2>6, <2>10 DEF Pos
    <3>2. CASE writenet.ret = "send_data"
      <4>1. c.seqno = HandChunk.seqno  BY <2>4, <2>5, <2>8, <3>1, <3>2
      <4>2. c = HandChunk  BY <2>4, <2>10, <4>1
      <4> QED BY <1>3, <3>1, <4>2 DEF MayWaitFor
    <3> QED BY <1>1, <3>1, <3>2 DEF WriterType
  <2>11. Request'
    <3>1. SameFile' => c.fileno = HandChunk.fileno  BY <2>7 DEF SameFile
    <3>2. ASSUME SameFile'
          PROVE /\ writenet'.ret = "release" /\ writenet'.jj < ResendCount'
                /\ exited' = "no" => Hand'.seqno - NO_BIND <= writenet'.req
      <4>1. c.seqno <= Hand.seqno /\ writenet.ret = "release"  BY <2>10, <3>1, <3>2
      <4>2. ResendCount' = Hand.seqno - c.seqno + 1  BY <2>1, <2>2 DEF ResendCount
      <4>3. exited' = "no" => ~(c.seqno < Hand.seqno - NO_BIND)  BY <1>3
      <4> QED BY <2>1, <2>2, <2>4, <2>5, <4>1, <4>2, <4>3, RingAssumption
    <3>3. peer'.hand = HandChunk' /\ writenet'.req = peer'.waits.seqno
      BY <2>1, <2>2, <2>7
    <3> QED BY <2>3, <2>6, <2>7, <3>2, <3>3 DEF Request, Pos
  <2> QED BY <2>9, <2>11 DEF Recovery
<1> QED BY <1>2, <1>3 DEF RecoverAck

\* One packet after the other is resent.
LEMMA ResendOn ==
  ASSUME Recovery, Resending, writenet'.pc \in {"rec_check", "rec_send"},
         UNCHANGED <<peer, cntlOut, writeNetXoff, exited, dataBuffer>>,
         dataout'.exception = dataout.exception,
         UNCHANGED <<writenet.req, writenet.ret, writenet.bankno>>,
         writenet'.jj = writenet.jj \/ writenet'.jj < ResendCount
  PROVE  Recovery'
<1>1. Hand' = Hand /\ HandChunk' = HandChunk /\ ResendCount' = ResendCount
  BY DEF Hand, HandChunk, ResendCount
<1>2. Recovering /\ Recovering' /\ Resending'  BY DEF Recovering, Resending
<1>3. OneRecovery'  BY <1>1, <1>2 DEF Recovery, OneRecovery
<1>4. Request'  BY <1>1, <1>2 DEF Recovery, Request, SameFile
<1> QED BY <1>3, <1>4 DEF Recovery

LEMMA ResendRecovery ==
  ASSUME Inductive, Recovery, RecoverConnect \/ RecoverCheck \/ RecoverSend
  PROVE  Recovery'
<1>1. /\ writenet \in WriterType /\ dataout \in ConnectionType /\ exited = "no" /\ Resending
      /\ writenet.ret \in {"send_data", "release"}
      /\ UNCHANGED <<dataBuffer, peer, cntlOut>>
  BY PlaceTypes DEF RecoverConnect, RecoverCheck, RecoverSend, WriteAt, WriteUnchanged, hosts,
     Ended, Resending, Inductive, TypeOK, WriterType
<1>2. CASE \E why : Exit(why)  BY <1>1, <1>2, ExitRecovery
<1>3. CASE RecoverConnect /\ RecoverGoto("rec_check") /\ dataout' = [dataout EXCEPT !.open = TRUE]
  BY <1>1, <1>3, ResendOn DEF RecoverGoto, WriterType, ConnectionType
<1>4. CASE RecoverCheck /\ RecoverGoto("rec_send") /\ dataout' = dataout
  BY <1>1, <1>4, ResendOn DEF RecoverGoto, WriterType
<1>5. CASE RecoverSend /\ ~ \E why : Exit(why)
  <2>1. dataout'.exception = dataout.exception /\ exited' = exited
    BY <1>1, <1>5 DEF RecoverSend, Put, ConnectionType
  <2>2. CASE /\ writenet.jj + 1 < ResendCount /\ writeNetXoff' = writeNetXoff
             /\ writenet' = [writenet EXCEPT !.pc = "rec_check", !.jj = @ + 1]
    <3>1. /\ writenet'.pc = "rec_check" /\ writenet'.jj = writenet.jj + 1
          /\ UNCHANGED <<writenet.req, writenet.ret, writenet.bankno>>
      BY <1>1, <2>2 DEF WriterType
    <3> QED BY <1>1, <2>1, <2>2, <3>1, ResendOn
  <2>3. CASE GoOn(writenet.ret) /\ writeNetXoff' = FALSE
    <3>1. writenet'.pc = writenet.ret  BY <1>1, <2>3 DEF GoOn, WriterType
    <3>2. peer # Nobody => ~dataout.exception  BY DEF Recovery, OneRecovery
    <3> QED BY <1>1, <2>1, <2>3, <3>1, <3>2, RecoveryElsewhere DEF Recovering
  <2> QED BY <1>5, <2>2, <2>3 DEF RecoverSend
<1> QED BY <1>2, <1>3, <1>4, <1>5 DEF RecoverConnect, RecoverCheck

LEMMA RecoveryStep == Inductive /\ RingOrder /\ Recovery /\ [Next]_vars => Recovery'
<1> SUFFICES ASSUME Inductive, RingOrder, Recovery, [Next]_vars PROVE Recovery'  OBVIOUS
<1>1. Recover => Recovery'  BY HostRecovery, AckRecovery, ResendRecovery DEF Recover
<1>2. WriteOn => Recovery'
  <2>1. SendFileno \/ SendData => Recovery'
    BY SendRecovery DEF SendFileno, SendData, WriteAt
  <2> QED BY <1>1, <2>1, WriteRecovery, ExceptionRecovery, OtherRecovery DEF WriteOn
<1> QED BY <1>2, StepKinds, WriteRecovery, OtherRecovery

LEMMA RecoveryAlways == Spec => [](Inductive /\ RingOrder /\ Recovery)
<1>1. Init => Recovery  BY InitRecovery
<1>2. (Inductive /\ RingOrder) /\ (Inductive /\ RingOrder)' /\ Recovery /\ [Next]_vars
      => Recovery'
  BY RecoveryStep
<1> QED BY <1>1, <1>2, RingStaysOrdered, PTL DEF Spec

-----------------------------------------------------------------------------
(***************************************************************************)
(* The banks a recovery resends from.  A refusal ends the process, and     *)
(* until the asked chunk is overwritten its bank is where the arithmetic   *)
(* of recover_sending() looks for it.                                      *)
(***************************************************************************)
LEMMA EndedStays == Ended /\ [Next]_vars => UNCHANGED vars
  BY DEF Next, ReadDisk, WriteNet, Recover, Stopped, OpenFile, WaitWnetDone, WaitBindTwo,
     ReadBegin, ReadEnd, ReadEof, ReadFail, NextFile, LastFile, WriteStart, WaitRdiskDone,
     SendFileno, SendData, SetWnetDone, SetBindTwoGo, RecoverHost, RecoverAck, RecoverConnect,
     RecoverCheck, RecoverSend, ExceptionReciever, Join, Poll, ReadAt, WriteAt

LEMMA ReadPosSplit ==
  ASSUME Inductive
  PROVE  ReadPos = ReadDone + IF InBank THEN 1 ELSE 0
BY PlaceTypes DEF ReadDone

\* One turn of the ring back.
LEMMA ModOnce ==
  ASSUME NEW N \in Nat \ {0}, NEW a \in 0 .. 2 * N - 1
  PROVE  a % N = IF a < N THEN a ELSE a - N
  OBVIOUS

LEMMA ResendBankIs ==
  ASSUME NEW w \in Bank, NEW d \in 0 .. NO_BANK, NEW j \in 0 .. d
  PROVE  (((w + NO_BANK - d) % NO_BANK) + j) % NO_BANK
           = IF d - j <= w THEN w - (d - j) ELSE w - (d - j) + NO_BANK
<1>1. /\ NO_BANK \in Nat \ {0} /\ w \in 0 .. NO_BANK - 1 /\ d \in Nat /\ j \in Nat
      /\ d <= NO_BANK /\ j <= d
  BY BanksOfTheRing DEF Bank
<1> DEFINE u == IF d <= w THEN w - d ELSE w + NO_BANK - d
<1>2. (w + NO_BANK - d) % NO_BANK = u
  <2>1. PICK a \in 0 .. 2 * NO_BANK - 1 : a = w + NO_BANK - d  BY <1>1
  <2>2. a % NO_BANK = IF a < NO_BANK THEN a ELSE a - NO_BANK  BY <1>1, ModOnce
  <2>3. u = IF a < NO_BANK THEN a ELSE a - NO_BANK  BY <1>1, <2>1
  <2> QED BY <2>1, <2>2, <2>3
<1>3. u \in 0 .. NO_BANK - 1  BY <1>1
<1>4. (u + j) % NO_BANK = IF d - j <= w THEN w - (d - j) ELSE w - (d - j) + NO_BANK
  <2> HIDE DEF u
  <2>1. PICK a \in 0 .. 2 * NO_BANK - 1 : a = u + j  BY <1>1, <1>3
  <2>2. a % NO_BANK = IF a < NO_BANK THEN a ELSE a - NO_BANK  BY <1>1, ModOnce
  <2>3. (IF d - j <= w THEN w - (d - j) ELSE w - (d - j) + NO_BANK)
          = IF a < NO_BANK THEN a ELSE a - NO_BANK
    BY <1>1, <2>1 DEF u
  <2> QED BY <2>1, <2>2, <2>3
<1> HIDE DEF u
<1> QED BY <1>2, <1>4

\* How far the chunk to send again is behind the one in hand, and where in the ring the
\* arithmetic of recover_sending() looks for it: that many banks further back, round the
\* ring.
ResendLag == Hand.seqno - (writenet.req + writenet.jj)

LEMMA ResendAge ==
  ASSUME Inductive, RingOrder, Recovery, writenet.pc \in {"rec_check", "rec_send"},
         SameFile, exited = "no"
  PROVE  LET age == Back(writenet.bankno) + ResendLag
             c == Chunk(Hand.fileno, writenet.req + writenet.jj)
         IN /\ ResendLag \in Nat /\ ResendLag <= NO_BIND /\ age \in Nat
            /\ ResendBank \in Bank
            /\ Back(ResendBank) = IF age <= NO_BANK THEN age ELSE age - NO_BANK
            /\ c \in Chunks /\ Pos(c) = ReadDone - age
            /\ Pos(c) = Pos(peer.waits) + writenet.jj /\ Pos(peer.waits) \in Nat
<1> DEFINE w == writenet.bankno
           d == Hand.seqno - writenet.req
           e == d - writenet.jj
           p == Back(w)
<1>1. Holding /\ Resending  BY DEF Holding, Resending
<1>2. /\ w \in Bank /\ readdisk.bankno \in Bank /\ ReadDone \in Nat
      /\ writenet.req \in Nat /\ writenet.jj \in Nat
  BY PlaceTypes DEF WriterType
<1>3. /\ p \in 1 .. NO_BANK /\ NO_BANK \in Nat \ {0} /\ NO_BIND \in Nat /\ NO_BIND < NO_BANK
  BY <1>2, Ages, RingAssumption
<1>4. HandChunk \in Chunks /\ Pos(HandChunk) = ReadDone - p
  BY <1>1, HoldingHand DEF Due
<1>5. /\ peer.waits \in Chunks /\ Pos(peer.waits) <= Pos(HandChunk) /\ peer.hand = HandChunk
      /\ writenet.req = peer.waits.seqno /\ Hand.seqno - NO_BIND <= writenet.req
      /\ writenet.jj < ResendCount /\ peer.waits.fileno = Hand.fileno
  BY <1>1 DEF Recovery, Request, SameFile, HandChunk, HeaderOf, Chunk
<1>6. /\ Hand.seqno \in Nat /\ Hand.fileno \in File /\ Hand.seqno <= LastSeq[Hand.fileno]
      /\ LastSeq[Hand.fileno] \in Nat
      /\ FirstPos[Hand.fileno] \in Nat
      /\ Pos(HandChunk) = FirstPos[Hand.fileno] + Hand.seqno
      /\ Pos(peer.waits) = FirstPos[Hand.fileno] + writenet.req
      /\ Pos(peer.waits) \in Nat
  BY <1>4, <1>5, ChunkPlace DEF HandChunk, HeaderOf, Chunk, Pos
<1>7. d \in 0 .. NO_BANK /\ d <= NO_BIND  BY <1>2, <1>3, <1>5, <1>6
<1>8. writenet.jj \in 0 .. d /\ e \in 0 .. d /\ ResendLag = e
  BY <1>2, <1>5, <1>6, <1>7 DEF ResendCount, ResendLag
<1>9. Pos(peer.waits) = ReadDone - p - d  BY <1>2, <1>3, <1>4, <1>6
<1>10. ResendBank = IF e <= w THEN w - e ELSE w - e + NO_BANK
  <2>1. ReBankno = (w + NO_BANK - d) % NO_BANK
    <3>1. ResendCount - 1 = d  BY <1>2, <1>6 DEF ResendCount
    <3> QED BY <3>1 DEF ReBankno
  <2>2. ResendBank = (((w + NO_BANK - d) % NO_BANK) + writenet.jj) % NO_BANK
    BY <2>1 DEF ResendBank
  <2> QED BY <1>2, <1>7, <1>8, <2>2, ResendBankIs
<1>11. /\ ResendBank \in Bank
       /\ Back(ResendBank) = IF p + e <= NO_BANK THEN p + e ELSE p + e - NO_BANK
  <2>1. /\ w \in 0 .. NO_BANK - 1 /\ readdisk.bankno \in 0 .. NO_BANK - 1
        /\ e \in Nat /\ e < NO_BANK
    BY <1>2, <1>3, <1>7, <1>8 DEF Bank
  <2> HIDE DEF d, e
  <2> QED BY <1>3, <1>10, <2>1 DEF Bank, Back
<1> DEFINE c == Chunk(Hand.fileno, writenet.req + writenet.jj)
<1>12. c \in Chunks /\ Pos(c) = Pos(peer.waits) + writenet.jj
  <2>1. writenet.req + writenet.jj \in 0 .. LastSeq[Hand.fileno]
    BY <1>2, <1>6, <1>7, <1>8
  <2>2. c \in Chunks  BY <1>6, <2>1 DEF Chunks
  <2>3. Pos(c) = FirstPos[Hand.fileno] + (writenet.req + writenet.jj)  BY DEF Pos, Chunk
  <2> QED BY <1>2, <1>6, <2>2, <2>3
<1>13. Pos(c) = ReadDone - (p + e)
  <2> HIDE DEF c
  <2> QED BY <1>2, <1>3, <1>6, <1>7, <1>8, <1>9, <1>12
<1>14. e \in Nat /\ e <= NO_BIND /\ p + e \in Nat
  BY <1>3, <1>7, <1>8
<1> HIDE DEF c, e
<1>15. /\ ResendLag \in Nat /\ ResendLag <= NO_BIND /\ p + ResendLag \in Nat
       /\ Back(ResendBank) = IF p + ResendLag <= NO_BANK THEN p + ResendLag
                             ELSE (p + ResendLag) - NO_BANK
       /\ Pos(c) = ReadDone - (p + ResendLag)
  BY <1>3, <1>8, <1>11, <1>13, <1>14
<1>16. c \in Chunks /\ Pos(c) = Pos(peer.waits) + writenet.jj /\ Pos(peer.waits) \in Nat
  BY <1>6, <1>12
<1>17. ResendBank \in Bank  BY <1>11
<1> QED BY <1>15, <1>16, <1>17 DEF c

LEMMA ResendBankHolds ==
  ASSUME Inductive, RingOrder, Recovery, writenet.pc \in {"rec_check", "rec_send"},
         SameFile, exited = "no", ~Overwritten(peer.waits)
  PROVE  /\ ResendBank \in Bank
         /\ Complete(dataBuffer[ResendBank])
         /\ HeaderOf(dataBuffer[ResendBank]) = Chunk(Hand.fileno, writenet.req + writenet.jj)
         /\ HeaderOf(dataBuffer[ResendBank]) \in Chunks
         /\ Pos(HeaderOf(dataBuffer[ResendBank])) = Pos(peer.waits) + writenet.jj
<1> DEFINE age == Back(writenet.bankno) + ResendLag
           c == Chunk(Hand.fileno, writenet.req + writenet.jj)
<1>1. /\ ResendLag \in Nat /\ ResendLag <= NO_BIND /\ age \in Nat /\ ResendBank \in Bank
      /\ Back(ResendBank) = IF age <= NO_BANK THEN age ELSE age - NO_BANK
      /\ c \in Chunks /\ Pos(c) = ReadDone - age
      /\ Pos(c) = Pos(peer.waits) + writenet.jj /\ Pos(peer.waits) \in Nat
  BY ResendAge
<1>2. /\ ReadDone \in Nat /\ ReadPos \in Nat /\ NO_BANK \in Nat /\ Pos(c) \in Nat
      /\ writenet.jj \in Nat /\ readdisk.bankno \in Bank
  BY <1>1, PlaceTypes, ChunkPlace, RingAssumption DEF WriterType
<1> HIDE DEF age, c
<1>3. age <= NO_BANK /\ (InBank => age < NO_BANK)
  BY <1>1, <1>2, ReadPosSplit DEF Overwritten
<1>4. Back(ResendBank) = age /\ age <= ReadDone  BY <1>1, <1>2, <1>3
<1>5. ~(InBank /\ ResendBank = readdisk.bankno)
  <2>1. ResendBank = readdisk.bankno => Back(ResendBank) = NO_BANK  BY <1>1, <1>2, Ages
  <2> QED BY <1>1, <1>2, <1>3, <1>4, <2>1
<1>6. /\ Complete(dataBuffer[ResendBank])
      /\ Pos(HeaderOf(dataBuffer[ResendBank])) = ReadDone - age
  BY <1>1, <1>4, <1>5 DEF RingOrder, Window
<1>7. HeaderOf(dataBuffer[ResendBank]) \in Chunks  BY <1>6 DEF Complete
<1>8. HeaderOf(dataBuffer[ResendBank]) = c  BY <1>1, <1>6, <1>7, OneChunkPerPlace
<1> QED BY <1>1, <1>6, <1>7, <1>8 DEF c

\* When a bank the resend loop comes to was read into again, what it holds is a chunk
\* further on in the stream, complete or not; the last one, the bank in hand, is as it was.
LEMMA ResentOnward ==
  ASSUME Inductive, RingOrder, Recovery, writenet.pc \in {"rec_check", "rec_send"},
         SameFile, exited = "no"
  PROVE  LET c == Chunk(Hand.fileno, writenet.req + writenet.jj)
             held == HeaderOf(dataBuffer[ResendBank])
         IN /\ c \in Chunks /\ held \in Chunks /\ Pos(c) <= Pos(held)
            /\ ~(writenet.jj + 1 < ResendCount) =>
                 c = HandChunk /\ held = HandChunk /\ Complete(dataBuffer[ResendBank])
<1> DEFINE age == Back(writenet.bankno) + ResendLag
           c == Chunk(Hand.fileno, writenet.req + writenet.jj)
           held == HeaderOf(dataBuffer[ResendBank])
<1>1. /\ ResendLag \in Nat /\ age \in Nat /\ ResendBank \in Bank
      /\ Back(ResendBank) = IF age <= NO_BANK THEN age ELSE age - NO_BANK
      /\ c \in Chunks /\ Pos(c) = ReadDone - age
  BY ResendAge
<1>2. /\ ReadDone \in Nat /\ NO_BANK \in Nat /\ Pos(c) \in Nat
      /\ writenet.jj \in Nat /\ writenet.req \in Nat
      /\ readdisk.bankno \in Bank /\ writenet.bankno \in Bank
  BY <1>1, PlaceTypes, ChunkPlace, RingAssumption DEF WriterType
<1>3. Holding /\ Resending  BY DEF Holding, Resending
<1>4. HandChunk \in Chunks /\ Complete(Hand)  BY <1>3, HoldingHand
<1>5. held \in Chunks /\ Pos(c) <= Pos(held)
  <2> HIDE DEF age, c
  <2>1. CASE ~(InBank /\ ResendBank = readdisk.bankno)
    <3>1. Back(ResendBank) <= ReadDone /\ ReadDone - age <= ReadDone - Back(ResendBank)
      BY <1>1, <1>2
    <3>2. /\ Complete(dataBuffer[ResendBank])
          /\ Pos(HeaderOf(dataBuffer[ResendBank])) = ReadDone - Back(ResendBank)
      BY <1>1, <2>1, <3>1 DEF RingOrder, Window
    <3> QED BY <1>1, <3>1, <3>2 DEF Complete
  <2>2. CASE InBank /\ ResendBank = readdisk.bankno
    <3>1. /\ readdisk.fileno \in File /\ readdisk.seqNo \in 1 .. LastSeq[readdisk.fileno] + 1
          /\ LastSeq[readdisk.fileno] \in Nat /\ FirstPos[readdisk.fileno] \in Nat
          /\ held = Chunk(readdisk.fileno, readdisk.seqNo - 1)
      BY <2>2, PlaceTypes DEF Inductive, ReadProgress, InBank, HeaderOf
    <3>2. held \in Chunks
      <4>1. readdisk.seqNo - 1 \in 0 .. LastSeq[readdisk.fileno]  BY <3>1
      <4> QED BY <3>1, <4>1 DEF Chunks
    <3>3. Pos(held) = FirstPos[readdisk.fileno] + (readdisk.seqNo - 1)
      BY <3>1 DEF Pos, Chunk
    <3>4. ReadDone = FirstPos[readdisk.fileno] + readdisk.seqNo - 1
      BY <2>2, <3>1 DEF ReadDone, ReadPos, InBank
    <3>5. Pos(held) = ReadDone  BY <3>1, <3>3, <3>4
    <3> QED BY <1>1, <1>2, <3>2, <3>5
  <2> QED BY <2>1, <2>2
<1>6. ASSUME ~(writenet.jj + 1 < ResendCount)
      PROVE  c = HandChunk /\ held = HandChunk /\ Complete(dataBuffer[ResendBank])
  <2>1. writenet.jj < ResendCount  BY <1>3 DEF Recovery, Request
  <2>2. Hand.seqno \in Nat  BY <1>4, ChunkPlace DEF HandChunk, HeaderOf, Chunk
  <2>3. ResendLag = 0 /\ writenet.req + writenet.jj = Hand.seqno
    BY <1>2, <1>6, <2>1, <2>2 DEF ResendCount, ResendLag
  <2>4. Back(ResendBank) = Back(writenet.bankno)
    <3>1. Back(writenet.bankno) \in 1 .. NO_BANK  BY <1>2, Ages
    <3> QED BY <1>1, <1>2, <2>3, <3>1
  <2>5. ResendBank = writenet.bankno  BY <1>1, <1>2, <2>4, Ages
  <2> QED BY <1>4, <2>3, <2>5 DEF Hand, HandChunk, HeaderOf
<1> QED BY <1>1, <1>5, <1>6

\* recover_sending() refuses a request, or stops on a mismatch, only when the chunk
\* is more than NO_BIND behind the one in hand or its bank was read into again: for
\* every ring, every file layout and whatever the connections do.
THEOREM RefusalAlwaysJustified == Spec => []RefusalJustified
<1>1. Init => RefusalJustified  BY DEF Init, RefusalJustified
<1>2. ASSUME Inductive, RingOrder, Recovery, RefusalJustified, [Next]_vars
      PROVE  RefusalJustified'
  <2>1. CASE exited # "no"
    <3>1. UNCHANGED vars  BY <1>2, <2>1, EndedStays DEF Ended
    <3> QED BY <1>2, <3>1 DEF vars, RefusalJustified, Overwritten, ReadPos, Pos
  <2>2. CASE exited = "no" /\ exited' \notin {"too_old", "previous_file", "mismatch"}
    BY <2>2 DEF RefusalJustified
  <2>3. CASE exited = "no" /\ exited' \in {"too_old", "previous_file", "mismatch"}
    <3>1. RecoverAck \/ RecoverCheck
      BY <1>2, <2>3 DEF Next, ReadDisk, WriteNet, Recover, Stopped, vars, OpenFile,
         WaitWnetDone, WaitBindTwo, ReadBegin, ReadEnd, ReadEof, ReadFail, NextFile, LastFile,
         WriteStart, WaitRdiskDone, SendFileno, SendData, SendPacket, SendSuccess, SendRetry,
         SendLost, SendError, SetWnetDone, SetBindTwoGo, RecoverHost, RecoverGoto,
         RecoverConnect, Exit, RecoverSend, ExceptionReciever, Join, Poll
    <3>2. readdisk' = readdisk
      BY <3>1 DEF RecoverAck, RecoverCheck, WriteUnchanged
    <3>3. CASE RecoverAck
      <4>1. PICK c \in Chunks :
              /\ MayWaitFor(c) /\ peer' = [waits |-> c, hand |-> HandChunk]
              /\ exited' = IF c.seqno < Hand.seqno - NO_BIND THEN "too_old"
                           ELSE IF Hand.seqno < c.seqno THEN "previous_file" ELSE "no"
        BY <2>3, <3>3 DEF RecoverAck, Exit
      <4>2. HandChunk \in Chunks  BY <1>2, <3>3, HoldingHand DEF RecoverAck, WriteAt, Holding
      <4>3. /\ Pos(c) \in Nat /\ Pos(HandChunk) \in Nat /\ c.seqno \in Nat
            /\ HandChunk.seqno \in Nat /\ FirstPos[c.fileno] \in Nat
        BY <4>2, ChunkPlace
      <4>4. Hand.seqno = HandChunk.seqno  BY DEF HandChunk, HeaderOf, Chunk
      <4>5. Pos(c) <= Pos(HandChunk)  BY <4>1, <4>3, NetAssumption DEF MayWaitFor
      <4>6. peer'.waits = c /\ peer'.hand = HandChunk  BY <4>1
      <4>7. ASSUME c.fileno = HandChunk.fileno PROVE Pos(HandChunk) - Pos(c) > NO_BIND
        <5>1. c.seqno <= Hand.seqno /\ Pos(HandChunk) - Pos(c) = Hand.seqno - c.seqno
          BY <4>3, <4>4, <4>5, <4>7 DEF Pos
        <5>2. c.seqno < Hand.seqno - NO_BIND  BY <2>3, <4>1, <4>3, <4>4, <5>1
        <5> QED BY <4>3, <4>4, <5>1, <5>2, RingAssumption
      <4>8. Pos(peer.waits)' = Pos(c) /\ Pos(peer.hand)' = Pos(HandChunk)
        BY <4>6 DEF Pos
      <4> QED BY <4>6, <4>7, <4>8 DEF RefusalJustified
    <3>4. CASE RecoverCheck
      <4>1. /\ peer' = peer /\ writenet.pc = "rec_check"
            /\ dataBuffer[ResendBank].seqno # writenet.req + writenet.jj
        BY <2>3, <3>4 DEF RecoverCheck, WriteAt, RecoverGoto
      <4>2. peer # Nobody  BY <1>2, <4>1 DEF Recovery, OneRecovery, Resending
      <4>3. SameFile => Overwritten(peer.waits)
        BY <1>2, <2>3, <4>1, ResendBankHolds DEF HeaderOf, Chunk
      <4>4. Overwritten(peer.waits)' = Overwritten(peer.waits)
        BY <3>2, <4>1 DEF Overwritten, ReadPos, Pos
      <4> QED BY <4>1, <4>2, <4>3, <4>4 DEF RefusalJustified, SameFile
    <3> QED BY <3>1, <3>3, <3>4
  <2> QED BY <2>1, <2>2, <2>3
<1>3. (Inductive /\ RingOrder /\ Recovery) /\ RefusalJustified /\ [Next]_vars
      => RefusalJustified'
  BY <1>2
<1> QED BY <1>1, <1>3, RecoveryAlways, PTL DEF Spec

-----------------------------------------------------------------------------
(***************************************************************************)
(* The packets on the connection.  They are in order up to the place that  *)
(* writenet(), or the resend loop, has come to.                            *)
(***************************************************************************)
\* Only giving a bank back moves what is due, and readdisk() never goes back.
LEMMA DueKept ==
  ASSUME Inductive, RingOrder, [Next]_vars
  PROVE  /\ Due' = IF SetWnetDone THEN Due + 1 ELSE Due
         /\ ReadPos <= ReadPos'
<1>1. ReadDone \in Nat /\ InRing \in Nat /\ ReadPos \in Nat  BY PlaceTypes, InRingType
<1>2. ReadPos = ReadDone + IF InBank THEN 1 ELSE 0  BY ReadPosSplit
<1>3. TypeOK' /\ Inductive'
  BY StepType, StepToken, StepProgress, StepComplete DEF Inductive
<1>4. PICK q \in Nat : q = ReadPos' /\ ReadDone' = q - IF InBank' THEN 1 ELSE 0
  <2>1. readdisk'.fileno \in File /\ readdisk'.seqNo \in Nat  BY <1>3 DEF TypeOK, ReaderType
  <2>2. FirstPos[readdisk'.fileno] \in Nat
    BY <2>1, FirstPosTyped, FilesAssumption DEF File
  <2>3. ReadPos' \in Nat  BY <2>1, <2>2 DEF ReadPos
  <2> QED BY <2>3 DEF ReadDone
<1>5. CASE Passing
  <2>1. InRing' = InRing + 1 /\ ReadDone' = ReadDone + 1 /\ InBank /\ ~InBank'
    BY <1>5, PassingOrder, PassingHandsOver
  <2>2. readdisk' # readdisk  BY <2>1 DEF InBank
  <2>3. ~SetWnetDone  BY <2>2, ReleaseTakesOut
  <2>4. Due' = (ReadDone + 1) - (InRing + 1)  BY <2>1 DEF Due
  <2>5. q = ReadDone + 1
    <3>1. q - 0 = ReadDone + 1  BY <1>4, <2>1
    <3> QED BY <1>1, <3>1
  <2>6. Due' = Due  BY <1>1, <2>4 DEF Due
  <2>7. ReadPos <= q  BY <1>1, <1>2, <2>1, <2>5
  <2> QED BY <1>4, <2>3, <2>6, <2>7
<1>6. CASE ReadOn
  <2>1. /\ InRing' = InRing /\ ReadDone' = ReadDone /\ writenet' = writenet
        /\ ~InBank' => ~InBank \/ readdisk' = readdisk
    BY <1>6, ReadOnOrder, ReadOnKeeps
  <2>2. ~SetWnetDone  BY <2>1, ReleaseTakesOut
  <2>3. InBank => InBank'  BY <2>1 DEF InBank
  <2>4. Due' = Due  BY <2>1 DEF Due
  <2>5. q = ReadDone + IF InBank' THEN 1 ELSE 0
    <3>1. ReadDone = q - IF InBank' THEN 1 ELSE 0  BY <1>4, <2>1
    <3> QED BY <1>1, <3>1
  <2>6. ReadPos <= q
    <3>1. CASE InBank'  BY <1>1, <1>2, <2>5, <3>1
    <3>2. CASE ~InBank'  BY <1>1, <1>2, <2>3, <2>5, <3>2
    <3> QED BY <3>1, <3>2
  <2> QED BY <1>4, <2>2, <2>4, <2>6
<1>7. CASE SetWnetDone
  <2>1. readdisk' = readdisk /\ InRing' = InRing - 1  BY <1>7, ReleaseTakesOut, ReleaseOrder
  <2>2. ReadDone' = ReadDone /\ ReadPos' = ReadPos  BY <2>1 DEF ReadDone, ReadPos, InBank
  <2> QED BY <1>1, <1>7, <2>1, <2>2 DEF Due
<1>8. CASE WriteOn
  <2>1. readdisk' = readdisk /\ InRing' = InRing /\ NextUp' = NextUp
    BY <1>8, WriteOnKeeps, WriteOnOrder
  <2>2. ReadDone' = ReadDone /\ ReadPos' = ReadPos  BY <2>1 DEF ReadDone, ReadPos, InBank
  <2>3. SetWnetDone => InRing' = InRing - 1  BY ReleaseOrder
  <2> QED BY <1>1, <2>1, <2>2, <2>3 DEF Due
<1> QED BY <1>5, <1>6, <1>7, <1>8, StepKinds

\* A connection that can still be served could be served all the time.
LEMMA ServedBefore ==
  ASSUME Inductive, RingOrder, [Next]_vars, peer' = peer, Served', Request
  PROVE  Served
<1>1. CASE peer = Nobody  BY <1>1 DEF Served
<1>2. CASE peer # Nobody
  <2>1. SameFile /\ ~Overwritten(peer.waits)'  BY <1>2 DEF Served, SameFile
  <2>2. Pos(peer.waits)' = Pos(peer.waits)  BY DEF Pos
  <2>3. Pos(peer.waits) \in Nat /\ NO_BANK \in Nat /\ ReadPos \in Nat
    BY <1>2, ChunkPlace, PlaceTypes, BanksOfTheRing DEF Request
  <2>4. ReadPos <= ReadPos' /\ ~(ReadPos' > Pos(peer.waits) + NO_BANK)
    BY <2>1, <2>2, DueKept DEF Overwritten
  <2>5. ReadPos' \in Int
    <3>1. TypeOK'  BY StepType DEF Inductive
    <3>2. readdisk'.fileno \in File /\ readdisk'.seqNo \in Nat  BY <3>1 DEF TypeOK, ReaderType
    <3>3. FirstPos[readdisk'.fileno] \in Nat
      BY <3>2, FirstPosTyped, FilesAssumption DEF File
    <3> QED BY <3>2, <3>3 DEF ReadPos
  <2>6. ~(ReadPos > Pos(peer.waits) + NO_BANK)  BY <2>3, <2>4, <2>5
  <2> QED BY <1>2, <2>1, <2>6 DEF Served, Overwritten
<1> QED BY <1>1, <1>2

\* The packet that may follow the newest one.
Follows(p) ==
  dataout.wire # <<>> /\ Newest.kind # "frag" /\ ~IsLast(Newest) /\ p = Successor(Newest)
Opens(p) == dataout.wire = <<>> /\ p = Opening

LEMMA SentFollows ==
  ASSUME NEW c \in Chunks, SentUpTo(Pos(c))
  PROVE  Follows(IF c.seqno = 0 THEN FilenoPacket(c.fileno) ELSE ChunkPacket(c))
<1>1. PICK b \in Chunks : Newest = ChunkPacket(b) /\ Pos(b) = Pos(c) - 1  BY DEF SentUpTo
<1>2. Pos(b) \in Nat /\ Pos(c) \in Nat  BY ChunkPlace
<1>3. Pos(c) = Pos(b) + 1  BY <1>1, <1>2
<1>4. /\ Successor(Newest) = IF c.seqno = 0 THEN FilenoPacket(c.fileno) ELSE ChunkPacket(c)
      /\ ~IsLast(Newest)
  BY <1>1, <1>3, AfterChunk, NextPlace
<1> QED BY <1>1, <1>4 DEF Follows, SentUpTo, ChunkPacket

\* In a connection that is served the next packet always fits.
LEMMA NextPacketFits ==
  ASSUME Inductive, RingOrder, Recovery, Sent, Served
  PROVE  /\ SendFileno => \/ Follows(FilenoPacket(Hand.fileno))
                          \/ Opens(FilenoPacket(Hand.fileno))
         /\ SendData => Follows(DataPacket(Hand)) /\ DataPacket(Hand) = ChunkPacket(HandChunk)
<1>1. ASSUME SendFileno
      PROVE Follows(FilenoPacket(Hand.fileno)) \/ Opens(FilenoPacket(Hand.fileno))
  <2>1. writenet.pc = "send_fileno" /\ Holding  BY <1>1 DEF SendFileno, WriteAt, Holding
  <2>2. HandChunk \in Chunks /\ Pos(HandChunk) = Due  BY <2>1, HoldingHand
  <2>3. HandChunk.fileno = Hand.fileno /\ HandChunk.seqno = 0
    BY <2>1 DEF Recovery, OneRecovery, HandChunk, HeaderOf, Chunk
  <2>4. CASE SentUpTo(Due)  BY <2>2, <2>3, <2>4, SentFollows
  <2>5. CASE dataout.wire = <<>> /\ Due = 0 /\ peer = Nobody
    <3>1. Chunk(0, 0) \in Chunks /\ Pos(Chunk(0, 0)) = 0
      <4>1. 0 \in 0 .. LastSeq[0] /\ 0 \in File  BY FileTypes, FilesAssumption
      <4> QED BY <4>1, FirstPosTyped DEF Chunks, Pos, Chunk
    <3>2. HandChunk = Chunk(0, 0)  BY <2>2, <2>5, <3>1, OneChunkPerPlace
    <3> QED BY <2>3, <2>5, <3>2 DEF Opens, Opening, Chunk
  <2> QED BY <2>1, <2>4, <2>5 DEF Sent
<1>2. ASSUME SendData
      PROVE  Follows(DataPacket(Hand)) /\ DataPacket(Hand) = ChunkPacket(HandChunk)
  <2>1. writenet.pc = "send_data" /\ Holding  BY <1>2 DEF SendData, WriteAt, Holding
  <2>2. HandChunk \in Chunks /\ Pos(HandChunk) = Due /\ Complete(Hand)  BY <2>1, HoldingHand
  <2>3. HandChunk.fileno = Hand.fileno /\ HandChunk.seqno = Hand.seqno
    BY DEF HandChunk, HeaderOf, Chunk
  <2>4. DataPacket(Hand) = ChunkPacket(HandChunk)
    BY <2>2 DEF Complete, HandChunk, DataPacket, ChunkPacket
  <2>5. CASE Hand.seqno = 0
    <3>1. dataout.wire # <<>> /\ Newest = FilenoPacket(HandChunk.fileno)
      BY <2>1, <2>3, <2>5 DEF Sent
    <3>2. Follows(ChunkPacket(HandChunk))
      BY <2>2, <2>3, <2>5, <3>1, AfterFileno DEF Follows, FilenoPacket
    <3> QED BY <2>4, <3>2
  <2>6. CASE Hand.seqno # 0
    <3>1. SentUpTo(Due)  BY <2>1, <2>6 DEF Sent
    <3> QED BY <2>2, <2>3, <2>4, <2>6, <3>1, SentFollows
  <2> QED BY <2>4, <2>5, <2>6
<1> QED BY <1>1, <1>2

LEMMA SentKept ==
  ASSUME Sent, Served' => Served, Due' = Due, UNCHANGED <<writenet, dataout, peer>>,
         Holding => Hand' = Hand
  PROVE  Sent'
<1> SUFFICES ASSUME Served' PROVE
      /\ InOrder(dataout.wire)
      /\ dataout.wire # <<>> => dataout.wire[1] = Opening \/ OnlyFragment
      /\ writenet.pc \in {"start", "wait_rdisk", "send_fileno", "bind", "done"} =>
           SentUpTo(Due) \/ (dataout.wire = <<>> /\ Due = 0 /\ peer = Nobody)
      /\ writenet.pc = "send_data" =>
           IF Hand'.seqno = 0 THEN dataout.wire # <<>> /\ Newest = FilenoPacket(Hand'.fileno)
           ELSE SentUpTo(Due)
      /\ writenet.pc = "release" => SentUpTo(Due + 1)
      /\ writenet.pc \in {"rec_check", "rec_send"} =>
           IF writenet.jj = 0 THEN dataout.wire = <<>>
           ELSE SentUpTo(Pos(peer.waits) + writenet.jj)
  BY DEF Sent, SentUpTo, Newest, Opening, OnlyFragment, Pos
<1>1. writenet.pc = "send_data" => Hand' = Hand  BY DEF Holding
<1> QED BY <1>1 DEF Sent

\* Where writenet() is outside its sends and the resend loop.
LEMMA SentElsewhere ==
  ASSUME Sent, Served' => Served, Due' = Due, UNCHANGED <<dataout.wire, peer>>,
         \/ writenet'.pc \in {"rec_host", "rec_ack", "rec_connect"}
         \/ /\ writenet.pc \in {"start", "wait_rdisk", "bind", "done"}
            /\ writenet'.pc \in {"start", "wait_rdisk", "send_fileno", "bind", "done"}
  PROVE  Sent'
BY DEF Sent, SentUpTo, Newest, Opening, OnlyFragment

\* A packet that fits keeps the wire in order.
LEMMA PutInOrder ==
  ASSUME Inductive, NEW p \in Packet, Put(p), Sent, Served, peer' = peer,
         Follows(p) \/ Opens(p)
  PROVE  /\ InOrder(dataout'.wire) /\ dataout'.wire # <<>> /\ Newest' = p
         /\ dataout'.wire[1] = Opening
<1>1. dataout.wire \in Seq(Packet) /\ dataout'.wire = Append(dataout.wire, p)
  BY DEF Inductive, TypeOK, ConnectionType, Put
<1>2. InOrder(dataout.wire) /\ (dataout.wire # <<>> => dataout.wire[1] = Opening)
  BY DEF Sent, Follows, Opens, Newest, OnlyFragment, Fragment
<1>3. dataout.wire # <<>> => /\ dataout.wire[Len(dataout.wire)].kind # "frag"
                             /\ p = Successor(dataout.wire[Len(dataout.wire)])
  BY DEF Follows, Opens, Newest
<1>4. /\ InOrder(dataout'.wire) /\ dataout'.wire # <<>>
      /\ dataout'.wire[Len(dataout'.wire)] = p
      /\ dataout'.wire[1] = IF dataout.wire = <<>> THEN p ELSE dataout.wire[1]
  BY <1>1, <1>2, <1>3, InOrderAppend
<1> QED BY <1>2, <1>4 DEF Newest, Follows, Opens

\* A part of a packet may end it.
LEMMA CutInOrder ==
  ASSUME Inductive, Cut, Sent, Served, dataout.wire # <<>>, Newest.kind # "frag"
  PROVE  InOrder(dataout'.wire) /\ dataout'.wire[1] = Opening
<1>1. InOrder(dataout.wire) /\ dataout.wire[1] = Opening /\ dataout.wire \in Seq(Packet)
  BY DEF Sent, Inductive, TypeOK, ConnectionType, OnlyFragment, Newest, Fragment
<1>2. CASE dataout' = dataout  BY <1>1, <1>2
<1>3. CASE Put(Fragment)
  <2>1. /\ dataout'.wire = Append(dataout.wire, Fragment) /\ Fragment \in Packet
        /\ Fragment.kind = "frag"
    BY <1>3, TornIsTyped DEF Put, Inductive, TypeOK, ConnectionType, Fragment
  <2> QED BY <1>1, <2>1, InOrderAppend DEF Newest
<1> QED BY <1>2, <1>3 DEF Cut

\* The sends of writenet(): where the connection is served an attempt never fails half
\* way, except at the end of it.
LEMMA SendSent ==
  ASSUME Inductive, RingOrder, Recovery, Quiet, Sent, Served, Due' = Due,
         NEW packet \in Packet, NEW pc \in {"send_data", "release"},
         SendPacket(packet, pc), writenet.pc \in {"send_fileno", "send_data"},
         Follows(packet) \/ Opens(packet),
         pc = "send_data" => Hand.seqno = 0 /\ packet = FilenoPacket(Hand.fileno),
         pc = "release" => packet = ChunkPacket(HandChunk)
  PROVE  Sent'
<1>1. /\ UNCHANGED <<dataBuffer, peer>> /\ writenet'.bankno = writenet.bankno
      /\ \/ Put(packet) /\ writenet'.pc = pc
         \/ "lost" \in Faults /\ writeNetXoff
         \/ "lost" \in Faults /\ Cut /\ writenet'.pc = "rec_host"
         \/ UNCHANGED <<dataout, writenet>>
  BY SendOutcome
<1>2. Holding /\ Hand' = Hand  BY <1>1 DEF Holding, Hand
<1>3. HandChunk \in Chunks /\ Pos(HandChunk) = Due /\ Due \in Nat  BY <1>2, HoldingHand
<1>4. ~("lost" \in Faults /\ writeNetXoff)  BY DEF Served, Quiet, Recovery, OneRecovery
<1>5. CASE Put(packet) /\ writenet'.pc = pc
  <2>1. /\ InOrder(dataout'.wire) /\ dataout'.wire # <<>> /\ Newest' = packet
        /\ dataout'.wire[1] = Opening
    BY <1>1, <1>5, PutInOrder
  <2>2. Opening' = Opening  BY <1>1 DEF Opening
  <2>3. CASE pc = "send_data"  BY <1>2, <1>5, <2>1, <2>2, <2>3 DEF Sent
  <2>4. CASE pc = "release"
    <3>1. SentUpTo(Due + 1)'
      <4>1. Pos(HandChunk) = (Due' + 1) - 1  BY <1>3
      <4> QED BY <1>3, <2>1, <2>4, <4>1 DEF SentUpTo
    <3> QED BY <1>5, <2>1, <2>2, <2>4, <3>1 DEF Sent
  <2> QED BY <2>3, <2>4
<1>6. CASE "lost" \in Faults /\ Cut /\ writenet'.pc = "rec_host"
  <2>1. Opening' = Opening  BY <1>1 DEF Opening
  <2>2. CASE Follows(packet)
    <3>1. dataout.wire # <<>> /\ Newest.kind # "frag"  BY <2>2 DEF Follows
    <3>2. InOrder(dataout'.wire) /\ dataout'.wire[1] = Opening
      BY <1>6, <3>1, CutInOrder
    <3> QED BY <1>6, <2>1, <3>2 DEF Sent
  <2>3. CASE Opens(packet)
    <3>1. dataout.wire = <<>> /\ dataout \in ConnectionType
      BY <2>3 DEF Opens, Inductive, TypeOK
    <3>2. peer = Nobody  BY <3>1 DEF Sent, SentUpTo
    <3>3. dataout'.wire = <<>> \/ dataout'.wire = <<Fragment>>
      BY <1>6, <3>1 DEF Cut, Put, ConnectionType
    <3>4. InOrder(dataout'.wire)
      <4>1. InOrder(<<>>) /\ InOrder(<<Fragment>>)  BY DEF InOrder
      <4> QED BY <3>3, <4>1
    <3> QED BY <1>1, <1>6, <3>2, <3>3, <3>4 DEF Sent, OnlyFragment
  <2> QED BY <2>2, <2>3
<1>7. CASE UNCHANGED <<dataout, writenet>>
  BY <1>1, <1>2, <1>7, SentKept
<1> QED BY <1>1, <1>4, <1>5, <1>6, <1>7

\* The resend loop puts the asked chunk first and then one after the other.
LEMMA ResendSent ==
  ASSUME Inductive, RingOrder, Recovery, Sent, Served, Due' = Due, RecoverSend
  PROVE  Sent'
<1>1. /\ writenet.pc = "rec_send" /\ exited = "no" /\ Holding /\ Resending
      /\ writenet \in WriterType /\ writenet.jj \in Nat /\ writenet.req \in Nat
      /\ UNCHANGED <<dataBuffer, peer>>
  BY PlaceTypes DEF RecoverSend, WriteAt, Ended, WriteUnchanged, Holding, Resending, WriterType
<1>2. peer # Nobody  BY <1>1 DEF Recovery, OneRecovery
<1>3. SameFile /\ ~Overwritten(peer.waits)  BY <1>2 DEF Served
<1>4. CASE Exit("double")
  <2>1. UNCHANGED <<dataout, writenet>>  BY <1>4 DEF Exit
  <2>2. Hand' = Hand  BY <1>1, <2>1 DEF Hand
  <2> QED BY <1>1, <2>1, <2>2, SentKept
<1>5. CASE /\ \E header \in ResentHeaders : Put(Resent(header))
           /\ \/ /\ writenet.jj + 1 < ResendCount
                 /\ writenet' = [writenet EXCEPT !.pc = "rec_check", !.jj = @ + 1]
              \/ ~(writenet.jj + 1 < ResendCount) /\ GoOn(writenet.ret)
  <2> DEFINE c == HeaderOf(dataBuffer[ResendBank])
  <2>1. /\ c \in Chunks /\ c = Chunk(Hand.fileno, writenet.req + writenet.jj)
        /\ Pos(c) = Pos(peer.waits) + writenet.jj /\ Complete(dataBuffer[ResendBank])
    BY <1>1, <1>3, ResendBankHolds
  <2>2. /\ peer.waits \in Chunks /\ writenet.req = peer.waits.seqno
        /\ writenet.ret = "release" /\ peer.hand = HandChunk /\ writenet.jj < ResendCount
        /\ peer.waits.fileno = Hand.fileno
    BY <1>1, <1>3 DEF Recovery, Request, SameFile, HandChunk, HeaderOf, Chunk
  <2> HIDE DEF c
  <2>3. Put(ChunkPacket(c))
    <3>1. PICK header \in ResentHeaders : Put(Resent(header))  BY <1>5
    <3>2. header = c  BY <2>1, <3>1 DEF ResentHeaders, c
    <3>3. Resent(header) = ChunkPacket(c)  BY <2>1, <3>2 DEF Resent, ChunkPacket, Complete, c
    <3> QED BY <3>1, <3>3
  <2>4. ChunkPacket(c) \in Packet  BY <2>1, ChunksAreTyped DEF ChunkPacket, Packet
  <2>5. Follows(ChunkPacket(c)) \/ Opens(ChunkPacket(c))
    <3>1. CASE writenet.jj = 0
      <4>1. c = peer.waits  BY <2>1, <2>2, <3>1, ChunkPlace
      <4> QED BY <1>1, <1>2, <3>1, <4>1 DEF Sent, Opens, Opening
    <3>2. CASE writenet.jj # 0
      <4>1. SentUpTo(Pos(c))  BY <1>1, <2>1, <3>2 DEF Sent
      <4>2. c.seqno = writenet.req + writenet.jj  BY <2>1 DEF Chunk
      <4>3. c.seqno # 0  BY <1>1, <3>2, <4>2
      <4> QED BY <2>1, <4>1, <4>3, SentFollows
    <3> QED BY <3>1, <3>2
  <2>6. /\ InOrder(dataout'.wire) /\ dataout'.wire # <<>> /\ Newest' = ChunkPacket(c)
        /\ dataout'.wire[1] = Opening
    BY <1>1, <2>3, <2>4, <2>5, PutInOrder
  <2>7. Opening' = Opening /\ Pos(peer.waits)' = Pos(peer.waits)
    BY <1>1 DEF Opening, Pos
  <2>8. Pos(peer.waits) \in Nat /\ Hand.seqno \in Int
    <3>1. HandChunk \in Chunks  BY <1>1, HoldingHand
    <3>2. Hand.seqno = HandChunk.seqno  BY DEF HandChunk, HeaderOf, Chunk
    <3> QED BY <2>2, <3>1, <3>2, ChunkPlace
  <2>9. CASE /\ writenet.jj + 1 < ResendCount
             /\ writenet' = [writenet EXCEPT !.pc = "rec_check", !.jj = @ + 1]
    <3>1. writenet'.pc = "rec_check" /\ writenet'.jj = writenet.jj + 1
      BY <1>1, <2>9 DEF WriterType
    <3>2. SentUpTo(Pos(peer.waits) + writenet.jj)'
      <4>1. Pos(c) = (Pos(peer.waits) + (writenet.jj + 1)) - 1  BY <1>1, <2>1, <2>8
      <4>2. Pos(c) = (Pos(peer.waits)' + writenet'.jj) - 1  BY <2>7, <3>1, <4>1
      <4> QED BY <2>1, <2>6, <4>2 DEF SentUpTo
    <3>3. writenet'.jj # 0  BY <1>1, <3>1
    <3> QED BY <2>6, <2>7, <3>1, <3>2, <3>3 DEF Sent
  <2>10. CASE ~(writenet.jj + 1 < ResendCount) /\ GoOn(writenet.ret)
    <3>1. writenet'.pc = "release"  BY <1>1, <2>2, <2>10 DEF GoOn, WriterType
    <3>2. Pos(c) = Due
      <4>1. HandChunk \in Chunks /\ Pos(HandChunk) = Due  BY <1>1, HoldingHand
      <4>2. writenet.req + writenet.jj = Hand.seqno
        BY <1>1, <2>2, <2>8, <2>10 DEF ResendCount
      <4>3. c = HandChunk  BY <2>1, <4>2 DEF HandChunk, HeaderOf
      <4> QED BY <4>1, <4>3
    <3>3. SentUpTo(Due + 1)'
      <4>1. Due \in Nat  BY <1>1, HoldingHand
      <4>2. Pos(c) = (Due' + 1) - 1  BY <3>2, <4>1
      <4> QED BY <2>1, <2>6, <4>2 DEF SentUpTo
    <3> QED BY <2>6, <2>7, <3>1, <3>3 DEF Sent
  <2> QED BY <1>5, <2>9, <2>10
<1> QED BY <1>4, <1>5 DEF RecoverSend

LEMMA RecoverSent ==
  ASSUME Inductive, RingOrder, Recovery, Sent, Due' = Due, Recover,
         Served' /\ peer' = peer => Served
  PROVE  Sent'
<1>1. writenet \in WriterType /\ dataout \in ConnectionType
  BY PlaceTypes DEF Inductive, TypeOK
<1>2. CASE RecoverHost
  <2>1. dataout'.wire = <<>> /\ writenet'.pc \in {"rec_host", "rec_ack"}
    BY <1>1, <1>2 DEF RecoverHost, RecoverGoto, WriteAt, WriterType
  <2> QED BY <2>1 DEF Sent, InOrder
<1>3. CASE RecoverAck
  <2>1. dataout' = dataout /\ dataout.wire = <<>> /\ writenet'.pc \in {"rec_ack", "rec_connect"}
    BY <1>1, <1>3 DEF RecoverAck, Exit, WriteAt, WriterType, Recovery, OneRecovery
  <2> QED BY <2>1 DEF Sent, InOrder
<1>4. CASE RecoverConnect
  <2>1. /\ dataout'.wire = dataout.wire /\ dataout.wire = <<>> /\ writenet.jj = 0
        /\ writenet'.pc \in {"rec_connect", "rec_check"} /\ writenet'.jj = writenet.jj
    BY <1>1, <1>4 DEF RecoverConnect, Exit, RecoverGoto, WriteAt, WriterType, ConnectionType,
       Recovery, OneRecovery
  <2> QED BY <2>1 DEF Sent, InOrder
<1>5. CASE RecoverCheck
  <2>1. /\ UNCHANGED <<dataout, peer>> /\ writenet.pc = "rec_check"
        /\ writenet'.pc \in {"rec_check", "rec_send"} /\ writenet'.jj = writenet.jj
    BY <1>1, <1>5 DEF RecoverCheck, Exit, RecoverGoto, WriteAt, WriterType
  <2>2. Pos(peer.waits)' = Pos(peer.waits) /\ Opening' = Opening /\ Newest' = Newest
    BY <2>1 DEF Pos, Opening, Newest
  <2> QED BY <2>1, <2>2 DEF Sent, SentUpTo, OnlyFragment
<1>6. CASE RecoverSend
  <2>1. peer' = peer  BY <1>6 DEF RecoverSend
  <2>2. CASE Served  BY <1>6, <2>2, ResendSent
  <2>3. CASE ~Served  BY <2>1, <2>3 DEF Sent
  <2> QED BY <2>2, <2>3
<1> QED BY <1>2, <1>3, <1>4, <1>5, <1>6 DEF Recover

LEMMA QuietStep == Quiet /\ [Next]_vars => Quiet'
<1> SUFFICES ASSUME Quiet, [Next]_vars PROVE Quiet'  OBVIOUS
<1>1. UNCHANGED writeNetXoff \/ writeNetXoff' = FALSE \/ "xoff" \in Faults
  <2>1. CASE Passing \/ ReadOn
    BY <2>1 DEF Passing, ReadOn, OpenFile, WaitWnetDone, WaitBindTwo, ReadBegin, ReadEof,
       ReadFail, ReadEnd, NextFile, LastFile, ReadUnchanged
  <2>2. CASE SendFileno \/ SendData
    BY <2>2 DEF SendFileno, SendData, SendPacket, SendSuccess, SendRetry, SendLost, SendError
  <2>3. CASE Recover
    BY <2>3 DEF Recover, RecoverHost, RecoverAck, RecoverConnect, RecoverCheck, RecoverSend,
       RecoverGoto, Exit
  <2>4. CASE \/ WriteStart \/ WaitRdiskDone \/ SetWnetDone \/ SetBindTwoGo
             \/ ExceptionReciever \/ Join \/ Poll \/ UNCHANGED vars
    BY <2>4 DEF WriteStart, WaitRdiskDone, SetWnetDone, SetBindTwoGo, ExceptionReciever, Join,
       Poll, vars
  <2> QED BY <2>1, <2>2, <2>3, <2>4, StepKinds DEF WriteOn
<1> QED BY <1>1 DEF Quiet

LEMMA SentStep ==
  ASSUME Inductive, RingOrder, Recovery, Quiet, Sent, [Next]_vars
  PROVE  Sent'
<1>1. writenet \in WriterType /\ dataout \in ConnectionType /\ writenet.bankno \in Bank
      /\ TypeOK
  BY PlaceTypes DEF Inductive, TypeOK
<1>2. Served' /\ peer' = peer => Served  BY ServedBefore DEF Recovery
<1>3. ~SetWnetDone => Due' = Due  BY DueKept
<1>4. CASE Passing \/ ReadOn
  <2>1. UNCHANGED <<writenet, dataout, peer>>  BY <1>4, PassingHandsOver, ReadOnKeeps
  <2>2. ~SetWnetDone  BY <2>1, ReleaseTakesOut
  <2> QED BY <1>2, <1>3, <1>4, <2>1, <2>2, HandStays, SentKept
<1>5. CASE SetWnetDone
  <2>1. /\ UNCHANGED <<dataout, peer>> /\ writenet.pc = "release" /\ writenet'.pc = "bind"
        /\ Due' = Due + 1
    BY <1>5, ReleaseTakesOut, DueKept
  <2> QED BY <1>2, <2>1 DEF Sent, SentUpTo, Newest, Opening, OnlyFragment
<1>6. CASE WriteOn
  <2>1. Due' = Due
    <3>1. UNCHANGED readdisk /\ InRing' = InRing  BY <1>6, WriteOnKeeps, WriteOnOrder
    <3> QED BY <3>1 DEF Due, ReadDone, ReadPos, InBank
  <2>2. CASE SendFileno \/ SendData
    <3>1. CASE Served
      <4>1. CASE SendFileno
        <5>1. /\ Follows(FilenoPacket(Hand.fileno)) \/ Opens(FilenoPacket(Hand.fileno))
              /\ writenet.pc = "send_fileno" /\ Hand.seqno = 0
              /\ FilenoPacket(Hand.fileno) \in Packet
              /\ SendPacket(FilenoPacket(Hand.fileno), "send_data")
          BY <1>1, <3>1, <4>1, NextPacketFits, PacketTypes
             DEF SendFileno, WriteAt, Recovery, OneRecovery, Hand
        <5> QED BY <2>1, <3>1, <5>1, SendSent
      <4>2. CASE SendData
        <5>1. /\ Follows(DataPacket(Hand)) /\ DataPacket(Hand) = ChunkPacket(HandChunk)
              /\ writenet.pc = "send_data" /\ DataPacket(Hand) \in Packet
              /\ SendPacket(DataPacket(Hand), "release")
          BY <1>1, <3>1, <4>2, NextPacketFits, PacketTypes DEF SendData, WriteAt, Hand
        <5> QED BY <2>1, <3>1, <5>1, SendSent
      <4> QED BY <2>2, <4>1, <4>2
    <3>2. CASE ~Served
      <4>1. peer' = peer  BY <2>2 DEF SendFileno, SendData, SendPacket
      <4> QED BY <1>2, <3>2, <4>1 DEF Sent
    <3> QED BY <3>1, <3>2
  <2>3. CASE Recover  BY <1>2, <2>1, <2>3, RecoverSent
  <2>4. CASE WriteStart \/ SetBindTwoGo
    <3>1. /\ peer' = peer /\ dataout'.wire = dataout.wire
          /\ writenet.pc \in {"start", "bind"} /\ writenet'.pc \in {"wait_rdisk", "done"}
      BY <1>1, <2>4 DEF WriteStart, SetBindTwoGo, WriteAt, WriterType, ConnectionType
    <3> QED BY <1>2, <2>1, <3>1, SentElsewhere
  <2>5. CASE WaitRdiskDone
    <3>1. /\ UNCHANGED <<peer, dataout>> /\ writenet.pc = "wait_rdisk"
          /\ writenet'.pc = IF Hand.seqno = 0 THEN "send_fileno" ELSE "send_data"
          /\ writenet'.bankno = writenet.bankno /\ dataBuffer' = dataBuffer
          /\ semReadDisk[writenet.bankno] > 0
      BY <1>1, <2>5 DEF WaitRdiskDone, WriteAt, WriterType, WriteUnchanged
    <3>2. CASE Hand.seqno = 0  BY <1>2, <2>1, <3>1, <3>2, SentElsewhere
    <3>3. CASE Hand.seqno # 0
      <4>1. /\ HandChunk \in Chunks /\ Pos(HandChunk) = Due
            /\ HandChunk.seqno = Hand.seqno
        <5>1. Pending(NextUp) /\ NextUp = writenet.bankno  BY <3>1 DEF NextUp, Pending
        <5> QED BY <5>1, HandIsDue DEF HandChunk, Hand, HeaderOf, Chunk
      <4>2. Due # 0
        <5>1. HandChunk.seqno \in Nat /\ FirstPos[HandChunk.fileno] \in Nat
          BY <4>1, ChunkPlace
        <5> QED BY <3>3, <4>1, <5>1 DEF Pos
      <4>3. Hand' = Hand  BY <3>1 DEF Hand
      <4> QED BY <1>2, <2>1, <3>1, <3>3, <4>2, <4>3 DEF Sent, SentUpTo, Newest, Opening, OnlyFragment
    <3> QED BY <3>2, <3>3
  <2>6. CASE ExceptionReciever \/ Join \/ Poll \/ UNCHANGED vars
    <3>1. UNCHANGED <<writenet, dataout, peer, dataBuffer>>
      BY <2>6 DEF ExceptionReciever, Join, Poll, vars
    <3>2. Hand' = Hand  BY <3>1 DEF Hand
    <3> QED BY <1>2, <2>1, <3>1, <3>2, SentKept
  <2> QED BY <1>6, <2>2, <2>3, <2>4, <2>5, <2>6 DEF WriteOn
<1> QED BY <1>4, <1>5, <1>6, StepKinds

LEMMA InitSent == Init => Sent
<1> SUFFICES ASSUME Init PROVE Sent  OBVIOUS
<1>1. dataout.wire = <<>> /\ writenet.pc = "start" /\ peer = Nobody  BY DEF Init
<1>2. Due = 0
  <2>1. /\ readdisk = [pc |-> "open", bankno |-> 0, fileno |-> 0, seqNo |-> 0, first |-> TRUE]
        /\ writenet.bankno = 0 /\ \A b \in Bank : semReadDisk[b] = 0
    BY DEF Init
  <2>2. ReadDone = 0  BY <2>1, FirstPosTyped DEF ReadDone, ReadPos, InBank
  <2>3. ~Pending(NextUp)
    <3>1. NextUp = 0 /\ ~Holding  BY <1>1, <2>1 DEF NextUp, Holding
    <3>2. semReadDisk[0] = 0  BY <2>1, BanksOfTheRing
    <3> QED BY <3>1, <3>2 DEF Pending, WriterOwns
  <2> QED BY <2>2, <2>3 DEF Due, InRing
<1> QED BY <1>1, <1>2 DEF Sent, InOrder

LEMMA SentAlways == Spec => [](Inductive /\ RingOrder /\ Recovery /\ Sent)
<1>1. Init => Quiet /\ Sent  BY InitSent DEF Init, Quiet
<1>2. (Inductive /\ RingOrder /\ Recovery) /\ Quiet /\ Sent /\ [Next]_vars => Quiet' /\ Sent'
  BY SentStep, QuietStep
<1> QED BY <1>1, <1>2, RecoveryAlways, PTL DEF Spec

\* A recovery whose chunk was still in the ring gives the next host exactly the stream
\* from that chunk on: its packet first, then no gap, no repetition and no torn chunk,
\* through the resend loop of recover_sending() and back into writenet()'s own loop.
THEOREM RecoveryAlwaysServes == Spec => []RecoveryServes
<1>1. Sent => RecoveryServes
  <2> SUFFICES ASSUME Sent, peer # Nobody, dataout.wire # <<>>, ~Overwritten(peer.waits),
                      peer.waits.fileno = peer.hand.fileno
               PROVE  dataout.wire[1] = ChunkPacket(peer.waits) /\ InOrder(dataout.wire)
    BY DEF RecoveryServes
  <2>1. Served  BY DEF Served, SameFile
  <2>2. Opening = ChunkPacket(peer.waits) /\ ~OnlyFragment  BY DEF Opening, OnlyFragment
  <2> QED BY <2>1, <2>2 DEF Sent
<1> QED BY <1>1, SentAlways, PTL

-----------------------------------------------------------------------------
(***************************************************************************)
(* dollyS and whoever reads its connection, for Chain: what a step puts on *)
(* the connection, where no send is retried.                               *)
(***************************************************************************)
LEMMA WireStep ==
  ASSUME Inductive, RingOrder, Recovery, Quiet, "xoff" \notin Faults, [Next]_vars
  PROVE  \/ dataout'.wire = dataout.wire
         \/ writenet.pc = "rec_host" /\ dataout'.wire = <<>>
         \/ Put(Fragment) /\ writenet'.pc = "rec_host"
         \/ \E p \in Packet : /\ Put(p) /\ p.kind # "frag"
                              /\ RecoverSend \/ p \in StreamPacket
                              /\ Served => p \in StreamPacket
<1>1. dataout \in ConnectionType /\ writenet \in WriterType /\ TypeOK
  BY PlaceTypes DEF Inductive, TypeOK
<1>2. ~writeNetXoff  BY DEF Quiet
<1>3. ASSUME NEW p \in StreamPacket, Put(p)
      PROVE  \E q \in Packet : /\ Put(q) /\ q.kind # "frag"
                               /\ RecoverSend \/ q \in StreamPacket
                               /\ Served => q \in StreamPacket
  BY <1>3, StreamIsTyped
<1>4. Holding => /\ HandChunk \in Chunks /\ HandChunk.fileno = Hand.fileno /\ Hand.fileno \in File
                 /\ DataPacket(Hand) = ChunkPacket(HandChunk)
  <2> SUFFICES ASSUME Holding
               PROVE  /\ HandChunk \in Chunks /\ HandChunk.fileno = Hand.fileno
                      /\ Hand.fileno \in File /\ DataPacket(Hand) = ChunkPacket(HandChunk)
    OBVIOUS
  <2>1. HandChunk \in Chunks /\ Complete(Hand)  BY HoldingHand
  <2>2. HandChunk.fileno \in File  BY <2>1, ChunkPlace
  <2> QED BY <2>1, <2>2 DEF HandChunk, HeaderOf, Chunk, Complete, DataPacket, ChunkPacket
<1>5. CASE SendFileno
  <2>1. SendPacket(FilenoPacket(Hand.fileno), "send_data") /\ Holding
    BY <1>5 DEF SendFileno, WriteAt, Holding
  <2>2. FilenoPacket(Hand.fileno) \in StreamPacket  BY <1>4, <2>1 DEF StreamPacket
  <2> QED BY <1>2, <1>3, <2>1, <2>2, SendOutcome DEF Cut
<1>6. CASE SendData
  <2>1. SendPacket(DataPacket(Hand), "release") /\ Holding
    BY <1>6 DEF SendData, WriteAt, Holding
  <2>2. DataPacket(Hand) \in StreamPacket  BY <1>4, <2>1 DEF StreamPacket
  <2> QED BY <1>2, <1>3, <2>1, <2>2, SendOutcome DEF Cut
<1>7. CASE RecoverSend
  <2>1. /\ writenet.pc = "rec_send" /\ exited = "no" /\ Resending
        /\ dataout' = dataout \/ \E header \in ResentHeaders : Put(Resent(header))
    BY <1>7 DEF RecoverSend, WriteAt, Ended, Resending, Exit
  <2>2. ASSUME NEW header \in ResentHeaders, Put(Resent(header))
        PROVE  \E q \in Packet : /\ Put(q) /\ q.kind # "frag"
                                 /\ RecoverSend \/ q \in StreamPacket
                                 /\ Served => q \in StreamPacket
    <3>1. Resent(header).kind = "data"  BY DEF Resent
    <3>2. Resent(header) \in Packet
      <4>1. dataout'.wire = Append(dataout.wire, Resent(header)) /\ dataout.wire \in Seq(Packet)
        BY <1>1, <2>2 DEF Put, ConnectionType
      <4>2. TypeOK'  BY <1>1, StepType
      <4>3. dataout'.wire \in Seq(Packet)  BY <4>2 DEF TypeOK, ConnectionType
      <4>4. Len(dataout.wire) + 1 \in 1 .. Len(dataout'.wire)
            /\ dataout'.wire[Len(dataout.wire) + 1] = Resent(header)
        BY <4>1
      <4> QED BY <4>3, <4>4
    <3>3. ASSUME Served PROVE Resent(header) \in StreamPacket
      <4>1. SameFile /\ ~Overwritten(peer.waits)
        BY <2>1, <3>3 DEF Served, Recovery, OneRecovery
      <4>2. /\ Complete(dataBuffer[ResendBank])
            /\ HeaderOf(dataBuffer[ResendBank]) = Chunk(Hand.fileno, writenet.req + writenet.jj)
            /\ HeaderOf(dataBuffer[ResendBank]) \in Chunks
        BY <2>1, <4>1, ResendBankHolds
      <4>3. Resent(header) = ChunkPacket(header) /\ header \in Chunks
        BY <4>2 DEF ResentHeaders, Resent, ChunkPacket, Complete
      <4> QED BY <4>3 DEF StreamPacket
    <3> QED BY <1>7, <2>2, <3>1, <3>2, <3>3
  <2> QED BY <2>1, <2>2
<1>8. CASE RecoverHost  BY <1>8 DEF RecoverHost, WriteAt
<1>9. CASE RecoverAck \/ RecoverConnect \/ RecoverCheck
  BY <1>1, <1>9 DEF RecoverAck, RecoverConnect, RecoverCheck, Exit, RecoverGoto, ConnectionType
<1>10. CASE Passing \/ ReadOn \/ SetWnetDone
  BY <1>10, PassingHandsOver, ReadOnKeeps, ReleaseTakesOut
<1>11. CASE WriteStart  BY <1>1, <1>11 DEF WriteStart, ConnectionType
<1>12. CASE WaitRdiskDone \/ SetBindTwoGo \/ ExceptionReciever \/ Join \/ Poll \/ UNCHANGED vars
  BY <1>12 DEF WaitRdiskDone, SetBindTwoGo, ExceptionReciever, Join, Poll, vars
<1> QED BY <1>5, <1>6, <1>7, <1>8, <1>9, <1>10, <1>11, <1>12, StepKinds DEF WriteOn, Recover

\* A connection that is served carries packets of the stream, and at most a part of one.
OnWire == Served => \A i \in 1 .. Len(dataout.wire) : dataout.wire[i] \in StreamPacket \cup {Fragment}

LEMMA OnWireStep ==
  ASSUME Inductive, RingOrder, Recovery, Quiet, "xoff" \notin Faults, OnWire, [Next]_vars
  PROVE  OnWire'
<1>1. dataout.wire \in Seq(Packet)  BY DEF Inductive, TypeOK, ConnectionType
<1>2. CASE peer' = peer
  <2> SUFFICES ASSUME Served', NEW i \in 1 .. Len(dataout'.wire)
               PROVE  dataout'.wire[i] \in StreamPacket \cup {Fragment}
    BY DEF OnWire
  <2>1. Served  BY <1>2, ServedBefore DEF Recovery
  <2>2. \A k \in 1 .. Len(dataout.wire) : dataout.wire[k] \in StreamPacket \cup {Fragment}
    BY <2>1 DEF OnWire
  <2>3. \/ dataout'.wire = dataout.wire \/ dataout'.wire = <<>>
        \/ \E p \in StreamPacket \cup {Fragment} : dataout'.wire = Append(dataout.wire, p)
    <3>1. ASSUME NEW p, Put(p) PROVE dataout'.wire = Append(dataout.wire, p)
      BY <3>1 DEF Put, Inductive, TypeOK, ConnectionType
    <3> QED BY <2>1, <3>1, WireStep
  <2>4. CASE dataout'.wire = <<>>  BY <2>4
  <2>5. ASSUME NEW p \in StreamPacket \cup {Fragment}, dataout'.wire = Append(dataout.wire, p)
        PROVE  dataout'.wire[i] \in StreamPacket \cup {Fragment}
    <3>1. i \in 1 .. Len(dataout.wire) + 1  BY <1>1, <2>5
    <3>2. CASE i \in 1 .. Len(dataout.wire)
      <4>1. dataout'.wire[i] = dataout.wire[i]  BY <1>1, <2>5, <3>2
      <4> QED BY <2>2, <3>2, <4>1
    <3>3. CASE i = Len(dataout.wire) + 1
      <4>1. dataout'.wire[i] = p  BY <1>1, <2>5, <3>3
      <4> QED BY <2>5, <4>1
    <3> QED BY <1>1, <3>1, <3>2, <3>3
  <2> QED BY <2>2, <2>3, <2>4, <2>5
<1>3. CASE peer' # peer
  <2>1. RecoverAck
    <3>1. CASE Passing \/ ReadOn \/ SetWnetDone
      BY <1>3, <3>1, PassingHandsOver, ReadOnKeeps, ReleaseTakesOut
    <3>2. CASE WriteOn /\ ~RecoverAck
      BY <1>3, <3>2 DEF WriteOn, WriteStart, WaitRdiskDone, SendFileno, SendData, SendPacket,
         SetBindTwoGo, Recover, RecoverHost, RecoverConnect, RecoverCheck, RecoverSend,
         ExceptionReciever, Join, Poll, vars
    <3> QED BY <3>1, <3>2, StepKinds
  <2>2. dataout'.wire = <<>>
    BY <2>1 DEF RecoverAck, Exit, WriteAt, Recovery, OneRecovery
  <2>3. \A i \in 1 .. Len(dataout'.wire) : FALSE  BY <2>2
  <2> QED BY <2>3 DEF OnWire
<1> QED BY <1>2, <1>3

\* Where writenet() goes: on with its sends, and through a recovery.
Sends == \/ WriteStart \/ WaitRdiskDone \/ SetWnetDone \/ SetBindTwoGo
         \/ SendFileno \/ SendData \/ RecoverCheck \/ RecoverSend

LEMMA SendsMove ==
  ASSUME Inductive, Sends
  PROVE  /\ peer' = peer
         /\ writenet.pc \notin {"rec_host", "rec_ack", "rec_connect"}
         /\ writenet'.pc \notin {"rec_ack", "rec_connect"}
         /\ writenet'.pc \in {"rec_check", "rec_send"} => writenet.pc \in {"rec_check", "rec_send"}
<1>1. writenet \in WriterType  BY DEF Inductive, TypeOK
<1>2. CASE WriteStart \/ WaitRdiskDone \/ SetWnetDone \/ SetBindTwoGo
  BY <1>1, <1>2 DEF WriteStart, WaitRdiskDone, SetWnetDone, SetBindTwoGo, WriteAt, WriterType
<1>3. CASE SendFileno
  <2>1. SendPacket(FilenoPacket(Hand.fileno), "send_data") /\ writenet.pc = "send_fileno"
    BY <1>3 DEF SendFileno, WriteAt
  <2>2. peer' = peer /\ writenet'.pc \in {writenet.pc, "send_data", "rec_host"}  BY <2>1, SendOutcome
  <2> QED BY <2>1, <2>2
<1>4. CASE SendData
  <2>1. SendPacket(DataPacket(Hand), "release") /\ writenet.pc = "send_data"
    BY <1>4 DEF SendData, WriteAt
  <2>2. peer' = peer /\ writenet'.pc \in {writenet.pc, "release", "rec_host"}  BY <2>1, SendOutcome
  <2> QED BY <2>1, <2>2
<1>5. CASE RecoverCheck \/ RecoverSend
  <2>1. writenet.ret \in {"send_data", "release"}  BY <1>1 DEF WriterType
  <2> QED BY <1>1, <1>5, <2>1 DEF RecoverCheck, RecoverSend, RecoverGoto, Exit, GoOn, WriteAt, WriterType
<1> QED BY <1>2, <1>3, <1>4, <1>5 DEF Sends

LEMMA RecoverMoves ==
  ASSUME Inductive, Recovery
  PROVE  /\ RecoverHost =>
              /\ writenet.pc = "rec_host" /\ writenet'.pc \in {"rec_host", "rec_ack"}
              /\ peer' = peer /\ dataout'.wire = <<>> /\ ~dataout'.open
         /\ RecoverAck =>
              /\ writenet.pc = "rec_ack" /\ dataout' = dataout /\ dataout.wire = <<>> /\ peer = Nobody
              /\ IF exited' = "control" THEN writenet'.pc = "rec_ack" /\ peer' = peer
                 ELSE writenet'.pc = "rec_connect"
         /\ RecoverConnect =>
              /\ writenet.pc = "rec_connect" /\ peer' = peer /\ peer # Nobody
              /\ dataout'.wire = <<>> /\ dataout.wire = <<>>
              /\ \/ writenet'.pc = "rec_check" /\ dataout'.open
                 \/ writenet'.pc = "rec_connect" /\ dataout'.open = dataout.open
<1>1. writenet \in WriterType /\ dataout \in ConnectionType  BY DEF Inductive, TypeOK
<1>2. ASSUME RecoverHost
      PROVE  /\ writenet.pc = "rec_host" /\ writenet'.pc \in {"rec_host", "rec_ack"}
             /\ peer' = peer /\ dataout'.wire = <<>> /\ ~dataout'.open
  BY <1>1, <1>2 DEF RecoverHost, RecoverGoto, WriteAt, WriterType
<1>3. ASSUME RecoverAck
      PROVE  /\ writenet.pc = "rec_ack" /\ dataout' = dataout /\ dataout.wire = <<>> /\ peer = Nobody
             /\ IF exited' = "control" THEN writenet'.pc = "rec_ack" /\ peer' = peer
                ELSE writenet'.pc = "rec_connect"
  BY <1>1, <1>3 DEF RecoverAck, Exit, WriteAt, WriterType, Recovery, OneRecovery
<1>4. ASSUME RecoverConnect
      PROVE  /\ writenet.pc = "rec_connect" /\ peer' = peer /\ peer # Nobody
             /\ dataout'.wire = <<>> /\ dataout.wire = <<>>
             /\ \/ writenet'.pc = "rec_check" /\ dataout'.open
                \/ writenet'.pc = "rec_connect" /\ dataout'.open = dataout.open
  BY <1>1, <1>4 DEF RecoverConnect, RecoverGoto, Exit, WriteAt, WriterType, ConnectionType, Recovery,
     OneRecovery, Resending
<1> QED BY <1>2, <1>3, <1>4

LEMMA OthersMove ==
  ASSUME Inductive, ReadDisk \/ Join \/ Poll
  PROVE  UNCHANGED <<writenet, dataout, peer>>
BY DEF ReadDisk, OpenFile, WaitWnetDone, WaitBindTwo, ReadBegin, ReadEnd, ReadEof, ReadFail, NextFile,
       LastFile, ReadUnchanged, Join, Poll

\* When readdisk() is done it has read the last chunk and no more.
ReadEnds == readdisk.pc = "done" => readdisk.seqNo <= LastSeq[readdisk.fileno] + 1

LEMMA ReadEndsStep ==
  ASSUME Inductive, ReadEnds, [Next]_vars
  PROVE  ReadEnds'
<1>1. TypeOK /\ readdisk \in ReaderType /\ readdisk.seqNo \in Nat /\ LastSeq[readdisk.fileno] \in Nat
  BY FilesAssumption DEF Inductive, TypeOK, ReaderType
<1>2. CASE LastFile
  BY <1>1, <1>2 DEF LastFile, PassBank, ReadAt, ReaderType, Inductive, ReadProgress, ReadEnds
<1>3. CASE ReadDisk /\ ~LastFile
  <2>1. readdisk'.pc = "done" => readdisk' = readdisk
    BY <1>1, <1>3 DEF ReadDisk, OpenFile, WaitWnetDone, WaitBindTwo, ReadBegin,
       ReadEnd, ReadEof, ReadFail, NextFile, PassBank, ReadAt, ReadGoto, ReaderType
  <2> QED BY <2>1 DEF ReadEnds
<1>4. CASE WriteNet \/ ExceptionReciever \/ Join \/ Poll \/ UNCHANGED vars
  <2>1. UNCHANGED <<dataBuffer, readdisk>>
    BY <1>1, <1>4, WriterKeepsBank DEF WriteNet, WriteStart, WaitRdiskDone, SetWnetDone,
         SetBindTwoGo, WriteUnchanged, ExceptionReciever, Join, Poll, vars
  <2> QED BY <2>1 DEF ReadEnds
<1> QED BY <1>2, <1>3, <1>4 DEF Next, Stopped

-----------------------------------------------------------------------------
(***************************************************************************)
(* After a request, whatever the ring still holds.  The connection is the  *)
(* stream from the chunk in hand on, and what is sent before that is of    *)
(* the same file and no earlier than what was asked for.                   *)
(***************************************************************************)
\* What the other steps of writenet() do once a client has asked: a packet sent, a part
\* of one before it is lost, the connection opened again, a chunk sent again, or nothing.
Sending(pc, p, next) ==
  writenet.pc = pc /\ writenet'.pc = next /\ Put(p) /\ p \in StreamPacket
Losing ==
  /\ writenet.pc \in {"send_fileno", "send_data"} /\ writenet'.pc = "rec_host"
  /\ dataout'.wire = dataout.wire \/ (~EndsTorn /\ Put(Fragment))
Reopening ==
  dataout'.wire = <<>> /\ writenet'.pc \in {"rec_host", "rec_ack", "rec_connect", "rec_check"}
  /\ (writenet'.pc \in {"rec_connect", "rec_check"} => writenet.pc = "rec_connect")
ResendingOne ==
  /\ writenet.pc = "rec_send" /\ exited = "no"
  /\ \E header \in ResentHeaders : Put(Resent(header))
  /\ IF writenet.jj + 1 < ResendCount THEN writenet'.pc = "rec_check"
     ELSE writenet'.pc = writenet.ret
SendingNothing ==
  /\ dataout'.wire = dataout.wire
  /\ \/ writenet'.pc = writenet.pc
     \/ writenet.pc = "rec_check" /\ writenet'.pc = "rec_send"
     \/ /\ writenet.pc = "wait_rdisk"
        /\ writenet'.pc = IF Hand.seqno = 0 THEN "send_fileno" ELSE "send_data"
     \/ writenet.pc = "bind" /\ writenet'.pc \in {"done", "wait_rdisk"}

LEMMA AskedGoesOn ==
  ASSUME Inductive, RingOrder, Recovery, peer # Nobody, WriteOn
  PROVE  /\ peer' = peer /\ Due' = Due /\ (Holding' => Hand' = Hand)
         /\ \/ Sending("send_fileno", FilenoPacket(HandChunk.fileno), "send_data")
            \/ Sending("send_data", ChunkPacket(HandChunk), "release")
            \/ Losing \/ Reopening \/ ResendingOne \/ SendingNothing
<1>1. /\ writenet \in WriterType /\ dataout \in ConnectionType /\ TypeOK
      /\ UNCHANGED <<readdisk, dataBuffer>>
  BY PlaceTypes, WriteOnKeeps DEF Inductive, TypeOK
<1>2. Due' = Due
  <2>1. InRing' = InRing /\ ReadDone' = ReadDone  BY WriteOnOrder
  <2> QED BY <2>1 DEF Due
<1>3. ~writeNetXoff /\ writenet.pc \notin {"start", "rec_ack"}
  BY DEF Recovery, OneRecovery
<1>4. ASSUME Holding PROVE HandChunk \in Chunks /\ HandChunk.fileno = Hand.fileno
                           /\ Hand.fileno \in File /\ DataPacket(Hand) = ChunkPacket(HandChunk)
  <2>1. HandChunk \in Chunks /\ Complete(Hand)  BY <1>4, HoldingHand
  <2>2. HandChunk.fileno \in File  BY <2>1, ChunkPlace
  <2> QED BY <2>1, <2>2 DEF HandChunk, HeaderOf, Chunk, Complete, DataPacket, ChunkPacket
<1>5. CASE SendFileno
  <2>1. /\ SendPacket(FilenoPacket(Hand.fileno), "send_data") /\ Holding
        /\ writenet.pc = "send_fileno"
    BY <1>5 DEF SendFileno, WriteAt, Holding
  <2>2. FilenoPacket(Hand.fileno) \in StreamPacket /\ HandChunk.fileno = Hand.fileno
    BY <1>4, <2>1 DEF StreamPacket
  <2>3. /\ peer' = peer /\ Hand' = Hand
        /\ \/ Put(FilenoPacket(Hand.fileno)) /\ writenet'.pc = "send_data"
           \/ Cut /\ writenet'.pc = "rec_host"
           \/ UNCHANGED <<dataout, writenet>>
    BY <1>1, <1>3, <2>1, SendOutcome DEF Hand
  <2> QED BY <1>2, <2>1, <2>2, <2>3 DEF Sending, Losing, SendingNothing, Cut
<1>6. CASE SendData
  <2>1. SendPacket(DataPacket(Hand), "release") /\ Holding /\ writenet.pc = "send_data"
    BY <1>6 DEF SendData, WriteAt, Holding
  <2>2. ChunkPacket(HandChunk) \in StreamPacket /\ DataPacket(Hand) = ChunkPacket(HandChunk)
    BY <1>4, <2>1 DEF StreamPacket
  <2>3. /\ peer' = peer /\ Hand' = Hand
        /\ \/ Put(DataPacket(Hand)) /\ writenet'.pc = "release"
           \/ Cut /\ writenet'.pc = "rec_host"
           \/ UNCHANGED <<dataout, writenet>>
    BY <1>1, <1>3, <2>1, SendOutcome DEF Hand
  <2> QED BY <1>2, <2>1, <2>2, <2>3 DEF Sending, Losing, SendingNothing, Cut
<1>7. CASE Recover
  <2>1. Hand' = Hand  BY <1>1, <1>7, WriterKeepsBank DEF Hand
  <2>2. RecoverHost \/ RecoverConnect => peer' = peer /\ Reopening
    BY <1>3, RecoverMoves DEF Reopening
  <2>3. ~RecoverAck  BY <1>3 DEF RecoverAck, WriteAt
  <2>4. RecoverCheck => peer' = peer /\ SendingNothing
    BY <1>1 DEF RecoverCheck, RecoverGoto, Exit, WriteAt, WriterType, SendingNothing
  <2>5. RecoverSend => peer' = peer /\ (ResendingOne \/ SendingNothing)
    BY <1>1 DEF RecoverSend, Exit, GoOn, WriteAt, Ended, WriterType, ResendingOne, SendingNothing
  <2> QED BY <1>2, <1>7, <2>1, <2>2, <2>3, <2>4, <2>5 DEF Recover
<1>8. CASE WaitRdiskDone
  BY <1>1, <1>2, <1>8 DEF WaitRdiskDone, WriteAt, WriterType, Hand, SendingNothing
<1>9. CASE SetBindTwoGo
  BY <1>1, <1>2, <1>9 DEF SetBindTwoGo, WriteAt, WriterType, Holding, SendingNothing
<1>10. ~WriteStart  BY <1>3 DEF WriteStart, WriteAt
<1>11. CASE ExceptionReciever \/ Join \/ Poll \/ UNCHANGED vars
  BY <1>1, <1>2, <1>11 DEF ExceptionReciever, Join, Poll, vars, Hand, SendingNothing
<1> QED BY <1>5, <1>6, <1>7, <1>8, <1>9, <1>10, <1>11 DEF WriteOn

\* Only an answer to TYPE_RECONNECT names the chunk a client waits for.
LEMMA PeerStep ==
  ASSUME Inductive, Recovery, [Next]_vars, peer' # peer
  PROVE  /\ dataout'.wire = <<>> /\ writenet'.pc = "rec_connect"
         /\ peer'.hand = HandChunk /\ Hand' = Hand
<1>1. RecoverAck
  <2>1. CASE Passing \/ ReadOn \/ SetWnetDone
    BY <2>1, PassingHandsOver, ReadOnKeeps, ReleaseTakesOut
  <2>2. CASE WriteOn /\ ~RecoverAck
    BY <2>2 DEF WriteOn, WriteStart, WaitRdiskDone, SendFileno, SendData, SendPacket,
       SetBindTwoGo, Recover, RecoverHost, RecoverConnect, RecoverCheck, RecoverSend,
       ExceptionReciever, Join, Poll, vars
  <2> QED BY <2>1, <2>2, StepKinds
<1>2. dataout'.wire = <<>>
  BY <1>1 DEF RecoverAck, Exit, WriteAt, Recovery, OneRecovery
<1>3. /\ writenet \in WriterType /\ TypeOK  BY DEF Inductive, TypeOK
<1>4. Hand' = Hand  BY <1>1, <1>3, WriterKeepsBank DEF Recover, Hand
<1>5. writenet'.pc = "rec_connect" /\ peer'.hand = HandChunk
  <2>1. PICK c \in Chunks :
          /\ peer' = [waits |-> c, hand |-> HandChunk]
          /\ writenet' = [writenet EXCEPT !.pc = "rec_connect", !.req = c.seqno, !.jj = 0]
    BY <1>1 DEF RecoverAck
  <2> QED BY <1>3, <2>1 DEF WriterType
<1> QED BY <1>2, <1>4, <1>5

\* What was sent since the request, and how far writenet() is.
NoFileno == \A i \in 1 .. Len(dataout.wire) : dataout.wire[i].kind # "fileno"
Onward ==
  peer # Nobody =>
    /\ Beyond(dataout.wire, peer.hand.fileno)
    /\ Resending => peer.hand = HandChunk /\ NoFileno
    /\ writenet.pc \in {"send_data", "release"} => Pos(peer.hand) <= Due
    /\ writenet.pc \in {"wait_rdisk", "send_fileno", "bind", "done"} => Pos(peer.hand) < Due

LEMMA ResentPacket ==
  ASSUME Inductive, [Next]_vars, NEW header \in ResentHeaders, Put(Resent(header))
  PROVE  /\ dataout'.wire = Append(dataout.wire, Resent(header))
         /\ Resent(header) \in Packet /\ Resent(header).kind = "data"
         /\ NoFileno => NoFileno'
<1>1. dataout.wire \in Seq(Packet) /\ dataout \in ConnectionType
  BY DEF Inductive, TypeOK, ConnectionType
<1>2. dataout'.wire = Append(dataout.wire, Resent(header)) /\ Resent(header).kind = "data"
  BY <1>1 DEF Put, ConnectionType, Resent
<1>3. Resent(header) \in Packet
  <2>1. TypeOK'  BY StepType DEF Inductive
  <2>2. dataout'.wire \in Seq(Packet)  BY <2>1 DEF TypeOK, ConnectionType
  <2>3. Len(dataout.wire) + 1 \in 1 .. Len(dataout'.wire)
        /\ dataout'.wire[Len(dataout.wire) + 1] = Resent(header)
    BY <1>1, <1>2
  <2> QED BY <2>2, <2>3
<1>4. /\ Len(dataout.wire) \in Nat /\ Len(dataout'.wire) = Len(dataout.wire) + 1
      /\ dataout'.wire[Len(dataout.wire) + 1] = Resent(header)
      /\ \A i \in 1 .. Len(dataout.wire) : dataout'.wire[i] = dataout.wire[i]
  BY <1>1, <1>2, <1>3, AppendEnds
<1>5. ASSUME NoFileno, NEW i \in 1 .. Len(dataout'.wire) PROVE dataout'.wire[i].kind # "fileno"
  <2>1. CASE i = Len(dataout.wire) + 1  BY <1>2, <1>4, <2>1
  <2>2. CASE i # Len(dataout.wire) + 1
    <3>1. i \in 1 .. Len(dataout.wire) /\ dataout'.wire[i] = dataout.wire[i]
      BY <1>4, <2>2
    <3> QED BY <1>5, <3>1 DEF NoFileno
  <2> QED BY <2>1, <2>2
<1> QED BY <1>2, <1>3, <1>5 DEF NoFileno

LEMMA OnwardStep ==
  ASSUME Inductive, RingOrder, Recovery, Onward, [Next]_vars
  PROVE  Onward'
<1>1. dataout.wire \in Seq(Packet) /\ writenet \in WriterType /\ dataout \in ConnectionType
  BY PlaceTypes DEF Inductive, TypeOK, ConnectionType
<1>2. CASE peer' # peer
  <2>1. /\ dataout'.wire = <<>> /\ writenet'.pc = "rec_connect"
        /\ peer'.hand = HandChunk /\ HandChunk' = HandChunk
    BY <1>2, PeerStep DEF HandChunk
  <2>2. Len(dataout'.wire) = 0  BY <2>1
  <2> QED BY <2>1, <2>2, NothingSent DEF Onward, NoFileno
<1>3. CASE peer' = peer /\ peer = Nobody  BY <1>3 DEF Onward
<1>4. CASE peer' = peer /\ peer # Nobody
  <2>1. /\ Beyond(dataout.wire, peer.hand.fileno)
        /\ Resending => peer.hand = HandChunk /\ NoFileno
        /\ writenet.pc \in {"send_data", "release"} => Pos(peer.hand) <= Due
        /\ writenet.pc \in {"wait_rdisk", "send_fileno", "bind", "done"} => Pos(peer.hand) < Due
    BY <1>4 DEF Onward
  <2>2. peer.hand \in Chunks /\ Pos(peer.hand) \in Nat /\ peer.hand.fileno \in Int
    BY <1>4, ChunkPlace, ChunksAreTyped, FileTypes DEF Recovery, Request
  <2>3. peer'.hand = peer.hand /\ Pos(peer.hand)' = Pos(peer.hand)  BY <1>4 DEF Pos
  <2>4. Holding => HandChunk \in Chunks /\ Pos(HandChunk) = Due /\ Due \in Nat
    BY HoldingHand
  <2>5. Resending => Holding  BY DEF Resending, Holding
  <2>6. ASSUME dataout'.wire = dataout.wire
        PROVE  Beyond(dataout'.wire, peer'.hand.fileno) /\ (NoFileno => NoFileno')
    BY <2>1, <2>3, <2>6 DEF NoFileno
  <2>7. CASE Passing \/ ReadOn
    <3>1. UNCHANGED <<writenet, dataout>>  BY <2>7, PassingHandsOver, ReadOnKeeps
    <3>2. Due' = Due  BY <3>1, DueKept, ReleaseTakesOut
    <3>3. Resending => HandChunk' = HandChunk  BY <2>5, <2>7, HandStays DEF HandChunk
    <3>4. Resending' = Resending  BY <3>1 DEF Resending
    <3> QED BY <2>1, <2>3, <2>6, <3>1, <3>2, <3>3, <3>4 DEF Onward
  <2>8. CASE SetWnetDone
    <3>1. /\ dataout' = dataout /\ writenet.pc = "release" /\ writenet'.pc = "bind"
          /\ Due' = Due + 1
      BY <2>8, ReleaseTakesOut, DueKept
    <3>2. Pos(peer.hand) < Due + 1
      <4>1. Due \in Nat  BY <2>4, <3>1 DEF Holding
      <4> QED BY <2>1, <2>2, <3>1, <4>1
    <3> QED BY <2>3, <2>6, <3>1, <3>2 DEF Onward, Resending
  <2>9. CASE WriteOn
    <3>1. /\ Due' = Due /\ (Holding' => Hand' = Hand)
          /\ \/ Sending("send_fileno", FilenoPacket(HandChunk.fileno), "send_data")
             \/ Sending("send_data", ChunkPacket(HandChunk), "release")
             \/ Losing \/ Reopening \/ ResendingOne \/ SendingNothing
      BY <1>4, <2>9, AskedGoesOn
    <3>2. Resending' => HandChunk' = HandChunk  BY <3>1 DEF HandChunk, Resending, Holding
    <3>3. ASSUME NEW p \in Packet, Put(p),
                 p.kind = "fileno" => p \in StreamPacket /\ p.chunk.fileno > peer.hand.fileno
          PROVE  Beyond(dataout'.wire, peer'.hand.fileno)
      <4>1. dataout'.wire = Append(dataout.wire, p)  BY <1>1, <3>3 DEF Put, ConnectionType
      <4> QED BY <1>1, <2>1, <2>3, <3>3, <4>1, BeyondAppend
    <3>4. CASE Sending("send_fileno", FilenoPacket(HandChunk.fileno), "send_data")
      <4>1. /\ writenet.pc = "send_fileno" /\ writenet'.pc = "send_data"
            /\ Put(FilenoPacket(HandChunk.fileno)) /\ FilenoPacket(HandChunk.fileno) \in StreamPacket
        BY <3>4 DEF Sending
      <4>2. HandChunk.seqno = 0
        BY <4>1 DEF Recovery, OneRecovery, HandChunk, HeaderOf, Chunk
      <4>3. HandChunk \in Chunks /\ Pos(HandChunk) = Due /\ Due \in Nat
        BY <2>4, <4>1 DEF Holding
      <4>4. peer.hand.fileno < HandChunk.fileno
        BY <2>1, <2>2, <4>1, <4>2, <4>3, PlacesByFile
      <4>5. HandChunk.fileno \in Int  BY <4>3, ChunksAreTyped, FileTypes
      <4>6. FilenoPacket(HandChunk.fileno).chunk.fileno > peer.hand.fileno
        BY <2>2, <4>4, <4>5 DEF FilenoPacket, Chunk
      <4>7. Beyond(dataout'.wire, peer'.hand.fileno)
        BY <3>3, <4>1, <4>6, StreamIsTyped
      <4>8. Pos(peer.hand) <= Due  BY <2>1, <2>2, <4>1, <4>3
      <4> QED BY <2>3, <3>1, <4>1, <4>7, <4>8 DEF Onward, Resending
    <3>5. CASE Sending("send_data", ChunkPacket(HandChunk), "release")
      <4>1. /\ writenet.pc = "send_data" /\ writenet'.pc = "release"
            /\ Put(ChunkPacket(HandChunk)) /\ ChunkPacket(HandChunk) \in StreamPacket
            /\ ChunkPacket(HandChunk).kind = "data"
        BY <3>5 DEF Sending, ChunkPacket
      <4>2. Beyond(dataout'.wire, peer'.hand.fileno)  BY <3>3, <4>1, StreamIsTyped
      <4> QED BY <2>1, <2>3, <3>1, <4>1, <4>2 DEF Onward, Resending
    <3>6. CASE Losing
      <4>1. Beyond(dataout'.wire, peer'.hand.fileno)
        BY <2>6, <3>3, <3>6, TornIsTyped DEF Losing, Fragment
      <4> QED BY <3>6, <4>1 DEF Losing, Onward, Resending
    <3>7. CASE Reopening
      <4>1. dataout'.wire = <<>>  BY <3>7 DEF Reopening
      <4>2. Len(dataout'.wire) = 0  BY <4>1
      <4>3. Resending' => Resending  BY <3>7 DEF Reopening, Resending
      <4> QED BY <2>1, <2>3, <3>2, <3>7, <4>1, <4>2, <4>3, NothingSent DEF Reopening, Onward, NoFileno
    <3>8. CASE ResendingOne
      <4>1. PICK header \in ResentHeaders : Put(Resent(header))  BY <3>8 DEF ResendingOne
      <4>2. /\ Resending /\ writenet'.pc \in {"rec_check", "send_data", "release"}
        BY <1>1, <3>8 DEF ResendingOne, Resending, WriterType
      <4>3. /\ Resent(header) \in Packet /\ Resent(header).kind = "data"
            /\ NoFileno => NoFileno'
        BY <4>1, ResentPacket
      <4>5. Beyond(dataout'.wire, peer'.hand.fileno)  BY <3>3, <4>1, <4>3
      <4>7. Pos(peer.hand) <= Due
        BY <2>1, <2>2, <2>4, <2>5, <4>2
      <4> QED BY <2>1, <2>3, <3>1, <3>2, <4>2, <4>3, <4>5, <4>7 DEF Onward
    <3>9. CASE SendingNothing
      <4>1. dataout'.wire = dataout.wire  BY <3>9 DEF SendingNothing
      <4>2. Resending' => Resending  BY <3>9 DEF SendingNothing, Resending
      <4>3. /\ writenet'.pc \in {"send_data", "release"} => Pos(peer.hand) <= Due
            /\ writenet'.pc \in {"wait_rdisk", "send_fileno", "bind", "done"} => Pos(peer.hand) < Due
        <5>1. Due \in Int  BY InRingType
        <5> QED BY <2>1, <2>2, <3>9, <5>1 DEF SendingNothing
      <4> QED BY <2>1, <2>3, <2>6, <3>1, <3>2, <4>1, <4>2, <4>3 DEF Onward
    <3> QED BY <3>1, <3>4, <3>5, <3>6, <3>7, <3>8, <3>9
  <2> QED BY <2>7, <2>8, <2>9, StepKinds
<1> QED BY <1>2, <1>3, <1>4

\* Where the request is of the file in hand.
Renewed ==
  SameFile =>
    /\ Flows(dataout.wire) /\ Later(dataout.wire, peer.hand.fileno)
    /\ writenet.pc \in {"wait_rdisk", "send_fileno", "bind", "done"} => SentUpTo(Due)
    /\ writenet.pc = "send_data" =>
         IF Hand.seqno = 0 THEN dataout.wire # <<>> /\ Newest = FilenoPacket(Hand.fileno)
         ELSE SentUpTo(Due)
    /\ writenet.pc = "release" => SentUpTo(Due + 1)

\* A packet that follows the newest one.
LEMMA PutFlows ==
  ASSUME Inductive, Flows(dataout.wire), NEW h, Later(dataout.wire, h), NEW p \in Packet, Put(p),
         dataout.wire # <<>>, Newest.kind # "frag",
         p.kind = "frag" \/ (p \in StreamPacket /\ p = Successor(Newest)),
         p.kind = "data" => p.chunk \in Chunks /\ p.chunk.fileno >= h
  PROVE  Flows(dataout'.wire) /\ Later(dataout'.wire, h) /\ dataout'.wire # <<>> /\ Newest' = p
<1>1. dataout.wire \in Seq(Packet) /\ dataout'.wire = Append(dataout.wire, p)
  BY DEF Inductive, TypeOK, ConnectionType, Put
<1>2. Flows(dataout'.wire)  BY <1>1, FlowsAppend DEF Newest
<1>3. Later(dataout'.wire, h)  BY <1>1, LaterAppend
<1>4. dataout'.wire # <<>> /\ dataout'.wire[Len(dataout'.wire)] = p  BY <1>1, AppendEnds
<1> QED BY <1>2, <1>3, <1>4 DEF Newest

LEMMA RenewedStep ==
  ASSUME Inductive, RingOrder, Recovery, Onward, Renewed, [Next]_vars
  PROVE  Renewed'
<1>1. dataout.wire \in Seq(Packet) /\ writenet \in WriterType /\ dataout \in ConnectionType
  BY PlaceTypes DEF Inductive, TypeOK, ConnectionType
<1>2. CASE peer' # peer
  <2>1. dataout'.wire = <<>> /\ writenet'.pc = "rec_connect"  BY <1>2, PeerStep
  <2> QED BY <2>1, NothingSent DEF Renewed
<1>3. CASE peer' = peer /\ ~SameFile  BY <1>3 DEF Renewed, SameFile
<1>4. CASE peer' = peer /\ SameFile
  <2> DEFINE g == peer.hand.fileno
  <2>1. /\ Flows(dataout.wire) /\ Later(dataout.wire, g)
        /\ writenet.pc \in {"wait_rdisk", "send_fileno", "bind", "done"} => SentUpTo(Due)
        /\ writenet.pc = "send_data" =>
             IF Hand.seqno = 0 THEN dataout.wire # <<>> /\ Newest = FilenoPacket(Hand.fileno)
             ELSE SentUpTo(Due)
        /\ writenet.pc = "release" => SentUpTo(Due + 1)
        /\ peer # Nobody /\ peer'.hand = peer.hand
    BY <1>4 DEF Renewed, SameFile
  <2>2. /\ Resending => peer.hand = HandChunk /\ NoFileno
        /\ writenet.pc \in {"send_data", "release"} => Pos(peer.hand) <= Due
    BY <2>1 DEF Onward
  <2>3. peer.hand \in Chunks /\ Pos(peer.hand) \in Nat /\ g \in Int
    BY <2>1, ChunkPlace, ChunksAreTyped, FileTypes DEF Recovery, Request
  <2>4. Holding => /\ HandChunk \in Chunks /\ Pos(HandChunk) = Due /\ Due \in Nat
                   /\ HandChunk.fileno = Hand.fileno /\ HandChunk.seqno = Hand.seqno
                   /\ HandChunk.fileno \in Int
    BY HoldingHand, ChunksAreTyped, FileTypes DEF HandChunk, HeaderOf, Chunk
  <2>5. ASSUME dataout'.wire = dataout.wire
        PROVE  /\ Flows(dataout'.wire) /\ Later(dataout'.wire, peer'.hand.fileno)
               /\ Newest' = Newest /\ \A q : SentUpTo(q) => SentUpTo(q)'
    BY <2>1, <2>5 DEF Newest, SentUpTo
  <2>6. CASE Passing \/ ReadOn
    <3>1. UNCHANGED <<writenet, dataout>>  BY <2>6, PassingHandsOver, ReadOnKeeps
    <3>2. Due' = Due  BY <3>1, DueKept, ReleaseTakesOut
    <3>3. writenet.pc = "send_data" => Hand' = Hand  BY <2>6, HandStays DEF Holding
    <3>4. /\ SentUpTo(Due) => SentUpTo(Due)'
          /\ SentUpTo(Due + 1) => SentUpTo(Due + 1)'
      BY <3>1, <3>2 DEF SentUpTo, Newest
    <3> QED BY <2>1, <2>5, <3>1, <3>3, <3>4 DEF Renewed
  <2>7. CASE SetWnetDone
    <3>1. /\ dataout' = dataout /\ writenet.pc = "release" /\ writenet'.pc = "bind"
          /\ Due' = Due + 1
      BY <2>7, ReleaseTakesOut, DueKept
    <3>2. SentUpTo(Due)'  BY <2>1, <3>1 DEF SentUpTo, Newest
    <3> QED BY <2>5, <3>1, <3>2 DEF Renewed
  <2>8. CASE WriteOn
    <3>1. /\ Due' = Due /\ (Holding' => Hand' = Hand)
          /\ \/ Sending("send_fileno", FilenoPacket(HandChunk.fileno), "send_data")
             \/ Sending("send_data", ChunkPacket(HandChunk), "release")
             \/ Losing \/ Reopening \/ ResendingOne \/ SendingNothing
      BY <2>1, <2>8, AskedGoesOn
    <3>2. writenet.pc = "send_fileno" => /\ Hand.seqno = 0 /\ SentUpTo(Due)
                                         /\ Follows(FilenoPacket(HandChunk.fileno))
      <4> SUFFICES ASSUME writenet.pc = "send_fileno"
                   PROVE  Hand.seqno = 0 /\ SentUpTo(Due) /\ Follows(FilenoPacket(HandChunk.fileno))
        OBVIOUS
      <4>1. Hand.seqno = 0  BY DEF Recovery, OneRecovery
      <4>2. SentUpTo(Due) /\ Holding  BY <2>1 DEF Holding
      <4> QED BY <2>4, <4>1, <4>2, SentFollows
    <3>3. writenet.pc = "send_data" => Follows(ChunkPacket(HandChunk))
      <4> SUFFICES ASSUME writenet.pc = "send_data" PROVE Follows(ChunkPacket(HandChunk))
        OBVIOUS
      <4>1. Holding  BY DEF Holding
      <4>2. CASE Hand.seqno = 0
        <5>1. dataout.wire # <<>> /\ Newest = FilenoPacket(HandChunk.fileno)
          BY <2>1, <2>4, <4>1, <4>2
        <5> QED BY <2>4, <4>1, <4>2, <5>1, AfterFileno DEF Follows, FilenoPacket
      <4>3. CASE Hand.seqno # 0
        BY <2>1, <2>4, <4>1, <4>3, SentFollows
      <4> QED BY <4>2, <4>3
    <3>4. CASE Sending("send_fileno", FilenoPacket(HandChunk.fileno), "send_data")
      <4> DEFINE p == FilenoPacket(HandChunk.fileno)
      <4>1. /\ writenet.pc = "send_fileno" /\ writenet'.pc = "send_data"
            /\ Put(p) /\ p \in StreamPacket /\ p \in Packet /\ p.kind = "fileno"
        BY <3>4, StreamIsTyped DEF Sending, FilenoPacket
      <4>2. Follows(p)  BY <3>2, <4>1
      <4> HIDE DEF p
      <4>3. Flows(dataout'.wire) /\ Later(dataout'.wire, g) /\ dataout'.wire # <<>> /\ Newest' = p
        BY <2>1, <4>1, <4>2, PutFlows DEF Follows
      <4>4. Hand'.seqno = 0 /\ p = FilenoPacket(Hand'.fileno)
        BY <2>4, <3>1, <3>2, <4>1 DEF Holding, p
      <4> QED BY <2>1, <4>1, <4>3, <4>4 DEF Renewed
    <3>5. CASE Sending("send_data", ChunkPacket(HandChunk), "release")
      <4> DEFINE p == ChunkPacket(HandChunk)
      <4>1. /\ writenet.pc = "send_data" /\ writenet'.pc = "release" /\ Holding
            /\ Put(p) /\ p \in StreamPacket /\ p \in Packet /\ p.kind = "data" /\ p.chunk = HandChunk
        BY <3>5, StreamIsTyped DEF Sending, ChunkPacket, Holding
      <4>2. Follows(p)  BY <3>3, <4>1
      <4>3. HandChunk.fileno >= g
        BY <2>2, <2>3, <2>4, <4>1, PlacesByFile
      <4>4. HandChunk \in Chunks /\ Pos(HandChunk) = (Due' + 1) - 1  BY <2>4, <3>1, <4>1
      <4>5. p = ChunkPacket(HandChunk)  OBVIOUS
      <4> HIDE DEF p
      <4>6. Flows(dataout'.wire) /\ Later(dataout'.wire, g) /\ dataout'.wire # <<>> /\ Newest' = p
        BY <2>1, <4>1, <4>2, <4>3, <4>4, PutFlows DEF Follows
      <4>7. SentUpTo(Due + 1)'  BY <4>4, <4>5, <4>6 DEF SentUpTo
      <4> QED BY <2>1, <4>1, <4>6, <4>7 DEF Renewed
    <3>6. CASE Losing
      <4>1. Flows(dataout'.wire) /\ Later(dataout'.wire, g)
        <5>1. CASE dataout'.wire = dataout.wire  BY <2>1, <5>1
        <5>2. CASE Put(Fragment)
          <6>1. dataout.wire # <<>> /\ Newest.kind # "frag"
            BY <3>2, <3>3, <3>6 DEF Losing, Follows
          <6>2. Fragment \in Packet /\ Fragment.kind = "frag"
            BY TornIsTyped DEF Fragment
          <6> QED BY <2>1, <5>2, <6>1, <6>2, PutFlows
        <5> QED BY <3>6, <5>1, <5>2 DEF Losing
      <4> QED BY <2>1, <3>6, <4>1 DEF Losing, Renewed
    <3>7. CASE Reopening
      <4>1. /\ dataout'.wire = <<>>
            /\ writenet'.pc \in {"rec_host", "rec_ack", "rec_connect", "rec_check"}
        BY <3>7 DEF Reopening
      <4> QED BY <4>1, NothingSent DEF Renewed
    <3>8. CASE ResendingOne
      <4>1. PICK header \in ResentHeaders : Put(Resent(header))  BY <3>8 DEF ResendingOne
      <4>2. /\ Resending /\ Holding /\ exited = "no" /\ writenet.pc = "rec_send"
            /\ writenet.ret = "release"
            /\ IF writenet.jj + 1 < ResendCount THEN writenet'.pc = "rec_check"
               ELSE writenet'.pc = "release"
        BY <1>4, <3>8 DEF ResendingOne, Resending, Holding, Recovery, Request
      <4> DEFINE p == Resent(header)
                 c == Chunk(Hand.fileno, writenet.req + writenet.jj)
                 held == HeaderOf(dataBuffer[ResendBank])
      <4>3. /\ dataout'.wire = Append(dataout.wire, p)
            /\ p \in Packet /\ p.kind = "data" /\ NoFileno'
        BY <2>2, <4>1, <4>2, ResentPacket
      <4>4. /\ c \in Chunks /\ held \in Chunks /\ Pos(c) <= Pos(held)
            /\ ~(writenet.jj + 1 < ResendCount) =>
                 c = HandChunk /\ held = HandChunk /\ Complete(dataBuffer[ResendBank])
        BY <1>4, <4>2, ResentOnward
      <4>5. p.chunk = header /\ header \in {held, c}  BY DEF Resent, ResentHeaders
      <4>6. c.fileno = g
        BY <2>2, <2>4, <4>2 DEF Chunk
      <4>7. ~(writenet.jj + 1 < ResendCount) => p = ChunkPacket(HandChunk)
        BY <4>4, <4>5 DEF Complete, Resent, ChunkPacket
      <4>8. p.chunk \in Chunks /\ p.chunk.fileno >= g
        <5> HIDE DEF c, held
        <5>1. c.fileno <= held.fileno  BY <4>4, PlacesByFile
        <5>2. held.fileno \in Int /\ c.fileno \in Int  BY <4>4, ChunksAreTyped, FileTypes
        <5> QED BY <2>3, <4>4, <4>5, <4>6, <5>1, <5>2
      <4> HIDE DEF p, c, held
      <4>9. Flows(dataout'.wire)
        <5>1. \A i \in 1 .. Len(dataout'.wire) : dataout'.wire[i].kind # "fileno"
          BY <4>3 DEF NoFileno
        <5> QED BY <1>1, <2>1, <4>3, <5>1, FlowsAppend
      <4>10. Later(dataout'.wire, g)  BY <1>1, <2>1, <4>3, <4>8, LaterAppend
      <4>11. CASE writenet.jj + 1 < ResendCount
        BY <2>1, <4>2, <4>9, <4>10, <4>11 DEF Renewed
      <4>12. CASE ~(writenet.jj + 1 < ResendCount)
        <5>1. dataout'.wire # <<>> /\ Newest' = ChunkPacket(HandChunk)
          BY <1>1, <4>3, <4>7, <4>12, AppendEnds DEF Newest
        <5>2. HandChunk \in Chunks /\ Pos(HandChunk) = (Due' + 1) - 1  BY <2>4, <3>1, <4>2
        <5>3. SentUpTo(Due + 1)'  BY <5>1, <5>2 DEF SentUpTo
        <5> QED BY <2>1, <4>2, <4>9, <4>10, <4>12, <5>3 DEF Renewed
      <4> QED BY <4>11, <4>12
    <3>9. CASE SendingNothing
      <4>1. dataout'.wire = dataout.wire  BY <3>9 DEF SendingNothing
      <4>2. /\ SentUpTo(Due) => SentUpTo(Due)'
            /\ SentUpTo(Due + 1) => SentUpTo(Due + 1)'
            /\ Newest' = Newest
        BY <3>1, <4>1 DEF SentUpTo, Newest
      <4>3. writenet'.pc = "send_data" => Hand' = Hand  BY <3>1 DEF Holding
      <4> QED BY <2>1, <2>5, <3>9, <4>1, <4>2, <4>3 DEF SendingNothing, Renewed
    <3> QED BY <3>1, <3>4, <3>5, <3>6, <3>7, <3>8, <3>9
  <2> QED BY <2>6, <2>7, <2>8, StepKinds
<1> QED BY <1>2, <1>3, <1>4

-----------------------------------------------------------------------------
(***************************************************************************)
(* The first connection, when none is ever lost: everything handed to it   *)
(* stays, and each step of dollyS is a step of the stream or none.         *)
(***************************************************************************)
LEMMA WireGrows ==
  ASSUME Inductive, Recovery, [Next]_vars, "lost" \notin Faults
  PROVE  \/ dataout'.wire = dataout.wire
         \/ SendFileno /\ Put(FilenoPacket(Hand.fileno))
         \/ SendData /\ Put(DataPacket(Hand))
<1>1. dataout \in ConnectionType  BY DEF Inductive, TypeOK
<1>2. CASE Passing \/ ReadOn \/ SetWnetDone
  BY <1>2, PassingHandsOver, ReadOnKeeps, ReleaseTakesOut
<1>3. CASE WriteOn
  <2>1. CASE SendFileno
    <3>1. SendPacket(FilenoPacket(Hand.fileno), "send_data")  BY <2>1 DEF SendFileno
    <3> QED BY <2>1, <3>1, SendOutcome
  <2>2. CASE SendData
    <3>1. SendPacket(DataPacket(Hand), "release")  BY <2>2 DEF SendData
    <3> QED BY <2>2, <3>1, SendOutcome
  <2>3. ~Recover
    BY DEF Recovery, OneRecovery, Recovering, Recover, RecoverHost, RecoverAck, RecoverConnect,
       RecoverCheck, RecoverSend, WriteAt
  <2>4. CASE WriteStart  BY <1>1, <2>4 DEF WriteStart, ConnectionType
  <2>5. CASE WaitRdiskDone \/ SetBindTwoGo \/ ExceptionReciever \/ Join \/ Poll \/ UNCHANGED vars
    BY <2>5 DEF WaitRdiskDone, SetBindTwoGo, ExceptionReciever, Join, Poll, vars
  <2> QED BY <1>3, <2>1, <2>2, <2>3, <2>4, <2>5 DEF WriteOn
<1> QED BY <1>2, <1>3, StepKinds

LEMMA AllSentStep ==
  ASSUME Inductive, RingOrder, Recovery, Sent, AllSent, [Next]_vars
  PROVE  AllSent'
<1> SUFFICES ASSUME "lost" \notin Faults, NEW k \in 0 .. Due' - 1
             PROVE  \E i \in DOMAIN dataout'.wire :
                      dataout'.wire[i].kind = "data" /\ Pos(dataout'.wire[i].chunk) = k
  BY DEF AllSent, Pos
<1>1. /\ dataout.wire \in Seq(Packet) /\ dataout \in ConnectionType
      /\ DOMAIN dataout.wire = 1 .. Len(dataout.wire) /\ Len(dataout.wire) \in Nat
  BY DEF Inductive, TypeOK, ConnectionType
<1>2. \A i \in DOMAIN dataout.wire :
        i \in DOMAIN dataout'.wire /\ dataout'.wire[i] = dataout.wire[i]
  <2>1. \/ dataout'.wire = dataout.wire
        \/ \E p : dataout'.wire = Append(dataout.wire, p)
    BY <1>1, WireGrows DEF Put, ConnectionType
  <2>2. ASSUME NEW p, dataout'.wire = Append(dataout.wire, p), NEW i \in DOMAIN dataout.wire
        PROVE  i \in DOMAIN dataout'.wire /\ dataout'.wire[i] = dataout.wire[i]
    BY <1>1, <2>2
  <2> QED BY <2>1, <2>2
<1>3. \E i \in DOMAIN dataout.wire :
        dataout.wire[i].kind = "data" /\ Pos(dataout.wire[i].chunk) = k
  <2>1. Due \in Int  BY InRingType
  <2>2. CASE k \in 0 .. Due - 1  BY <2>2 DEF AllSent
  <2>3. CASE k \notin 0 .. Due - 1
    <3>1. SetWnetDone /\ k = Due  BY <2>1, <2>3, DueKept
    <3>2. writenet.pc = "release" /\ peer = Nobody
      BY <3>1, ReleaseTakesOut DEF Recovery, OneRecovery
    <3>3. SentUpTo(Due + 1)  BY <3>2 DEF Sent, Served
    <3>4. PICK c \in Chunks : Newest = ChunkPacket(c) /\ Pos(c) = (Due + 1) - 1
      BY <3>3 DEF SentUpTo
    <3>5. Pos(c) = k /\ Newest.kind = "data" /\ Newest.chunk = c
      BY <2>1, <3>1, <3>4 DEF ChunkPacket
    <3>6. Len(dataout.wire) \in DOMAIN dataout.wire
      <4>1. dataout.wire # <<>>  BY <3>3 DEF SentUpTo
      <4> QED BY <1>1, <4>1
    <3> QED BY <3>5, <3>6 DEF Newest
  <2> QED BY <2>2, <2>3
<1>4. PICK i \in DOMAIN dataout.wire :
        dataout.wire[i].kind = "data" /\ Pos(dataout.wire[i].chunk) = k
  BY <1>3
<1>5. i \in DOMAIN dataout'.wire /\ dataout'.wire[i] = dataout.wire[i]  BY <1>2
<1> QED BY <1>4, <1>5

LEMMA AllSentAlways ==
  Spec => [](Inductive /\ RingOrder /\ BindCounts /\ Recovery /\ Sent /\ AllSent)
<1>1. Init => AllSent
  <2> SUFFICES ASSUME Init PROVE AllSent  OBVIOUS
  <2>1. Sent /\ writenet.pc = "start" /\ dataout.wire = <<>>  BY InitSent DEF Init
  <2>2. peer = Nobody  BY DEF Init
  <2>3. "lost" \notin Faults => Due = 0
    BY <2>1, <2>2 DEF Sent, Served, SentUpTo
  <2> QED BY <2>3 DEF AllSent
<1>2. (Inductive /\ RingOrder /\ Recovery /\ Sent) /\ AllSent /\ [Next]_vars => AllSent'
  BY AllSentStep
<1> QED BY <1>1, <1>2, SentAlways, BindAlways, PTL DEF Spec

\* With the bind semaphores, past the first round, readdisk() fills one of the first
\* NO_BIND banks only once the chunk NO_BIND before is on the connection: for every ring
\* and every file layout, as long as no connection is lost (after a recovery the
\* connection is a new one).
THEOREM BindAlwaysHoldsBack ==
  ASSUME "lost" \notin Faults
  PROVE  Spec => []BindHoldsBack
<1>1. ASSUME Inductive, RingOrder, BindCounts, AllSent PROVE BindHoldsBack
  <2> SUFFICES ASSUME flag_bind, readdisk.pc = "fill", ~readdisk.first,
                      readdisk.bankno < NO_BIND
               PROVE  \E i \in DOMAIN dataout.wire :
                        /\ dataout.wire[i].kind = "data"
                        /\ Pos(dataout.wire[i].chunk) = ReadPos - NO_BIND
    BY DEF BindHoldsBack
  <2>1. Unposted < NO_BIND  BY <1>1, BindIsKept DEF BindDistance
  <2>2. /\ ReadDone \in Nat /\ InRing \in Nat /\ NO_BANK \in Nat /\ NO_BIND \in Nat
        /\ NO_BIND < NO_BANK
    BY <1>1, PlaceTypes, InRingType, BindBanks
  <2>3. ReadPos = ReadDone  BY <1>1, <2>2, ReadPosSplit DEF InBank
  <2>4. NO_BANK <= ReadDone  BY <1>1 DEF RingOrder, Rounds
  <2>5. InRing < NO_BIND  BY <2>1, <2>2 DEF Unposted
  <2>6. ReadPos - NO_BIND \in 0 .. Due - 1  BY <2>2, <2>3, <2>4, <2>5 DEF Due
  <2> QED BY <1>1, <2>6 DEF AllSent
<1>2. Inductive /\ RingOrder /\ BindCounts /\ AllSent => BindHoldsBack  BY <1>1
<1> QED BY <1>2, AllSentAlways, PTL

\* dollyS implements the abstract connection (ChunkStream) as long as it is not lost:
\* what its threads hand to the data connection is a beginning of the stream of the
\* files, packet for packet, whatever else goes wrong (data_transfer()).  That the stream
\* is sent to its end is the liveness part of SendsTheStream, which is model-checked.
THEOREM StreamStep ==
  ASSUME "lost" \notin Faults
  PROVE  Spec => Stream!Init /\ [][Stream!Next]_(dataout.wire)
<1>1. Init => Stream!Init  BY DEF Init, Stream!Init
<1>2. ASSUME Inductive, RingOrder, Recovery, Sent, [Next]_vars
      PROVE  [Stream!Next]_(dataout.wire)
  <2>1. peer = Nobody /\ Served  BY <1>2 DEF Recovery, OneRecovery, Served
  <2>2. ASSUME NEW p, Put(p), Follows(p) \/ (p = FilenoPacket(0) /\ dataout.wire = <<>>)
        PROVE  Stream!Next
    <3>1. dataout'.wire = Append(dataout.wire, p)
      BY <1>2, <2>2 DEF Put, Inductive, TypeOK, ConnectionType
    <3>2. CASE Follows(p)
      BY <3>1, <3>2 DEF Follows, Newest, Stream!Next, Stream!Following, IsLast, Successor,
         Stream!IsLast, Stream!Successor, ChunkPacket, Stream!ChunkPacket, Chunk, Stream!Chunk,
         FilenoPacket, Stream!FilenoPacket, NextChunk, Stream!NextChunk
    <3>3. CASE p = FilenoPacket(0) /\ dataout.wire = <<>>
      <4>1. dataout'.wire = <<p>>  BY <3>1, <3>3
      <4> QED BY <3>3, <4>1 DEF Stream!Next, Stream!First, FilenoPacket, Stream!FilenoPacket,
              Chunk, Stream!Chunk
    <3> QED BY <2>2, <3>2, <3>3
  <2>3. CASE SendFileno /\ Put(FilenoPacket(Hand.fileno))
    <3>1. Follows(FilenoPacket(Hand.fileno)) \/ Opens(FilenoPacket(Hand.fileno))
      BY <1>2, <2>1, <2>3, NextPacketFits
    <3>2. Opens(FilenoPacket(Hand.fileno)) =>
            FilenoPacket(Hand.fileno) = FilenoPacket(0) /\ dataout.wire = <<>>
      BY <2>1 DEF Opens, Opening
    <3> QED BY <2>2, <2>3, <3>1, <3>2
  <2>4. CASE SendData /\ Put(DataPacket(Hand))
    <3>1. Follows(DataPacket(Hand))  BY <1>2, <2>1, <2>4, NextPacketFits
    <3> QED BY <2>2, <2>4, <3>1
  <2> QED BY <1>2, <2>3, <2>4, WireGrows
<1>3. (Inductive /\ RingOrder /\ Recovery /\ Sent) /\ [Next]_vars
      => [Stream!Next]_(dataout.wire)
  BY <1>2
<1> QED BY <1>1, <1>3, SentAlways, PTL DEF Spec
=============================================================================
