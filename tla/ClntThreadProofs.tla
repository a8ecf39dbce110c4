-------------------------- MODULE ClntThreadProofs --------------------------
(***************************************************************************)
(* Theorems about dollyC's data transfer, for every number of banks and of *)
(* files, both roles, and whatever happens on either side of the node.     *)
(***************************************************************************)
EXTENDS ClntThread, DataChunksProofs, TLAPS

LEMMA BanksOfTheRing ==
  /\ NO_BANK \in Nat \ {0} /\ NO_BIND \in Nat
  /\ 0 \in Bank /\ Bank \subseteq Nat
  /\ \A i \in Int : i % NO_BANK \in Bank
  /\ \A b \in Bank : NextBank(b) \in Bank /\ BindBank(b) \in Bank
<1>1. NO_BANK \in Nat \ {0} /\ NO_BIND \in Nat  BY RingAssumption
<1>2. 0 \in Bank /\ Bank \subseteq Nat  BY <1>1 DEF Bank
<1>3. \A i \in Int : i % NO_BANK \in Bank  BY <1>1 DEF Bank
<1>4. ASSUME NEW b \in Bank PROVE NextBank(b) \in Bank  BY <1>1 DEF Bank, NextBank
<1>5. ASSUME NEW b \in Bank PROVE BindBank(b) \in Bank
  <2>1. b - NO_BIND + NO_BANK \in Int  BY <1>1, <1>2
  <2> QED BY <2>1, <1>3 DEF BindBank
<1> QED BY <1>1, <1>2, <1>3, <1>4, <1>5

-----------------------------------------------------------------------------
(* Type correctness *)

LEMMA InitType == Init => TypeOK
<1> SUFFICES ASSUME Init PROVE TypeOK  OBVIOUS
<1>1. dataBuffer \in [Bank -> BufferType]  BY TornIsTyped DEF Init, BufferType, EofMark
<1>2. /\ semWriteDisk \in [Bank -> Nat] /\ semReadNet \in [Bank -> Nat]
      /\ semWriteNet \in [Bank -> Nat] /\ semBindTwo \in [Bank -> Nat]
  BY DEF Init, InitiallyReady
<1>3. readnet \in ReaderType  BY FileTypes, BanksOfTheRing DEF Init, ReaderType
<1>4. writenet \in WriterType  BY BanksOfTheRing DEF Init, WriterType, EofMark
<1>5. writedisk \in DiskType  BY FileTypes, BanksOfTheRing DEF Init, DiskType
<1>6. datain \in DatainType /\ dataout \in DataoutType  BY DEF Init, DatainType, DataoutType
<1>7. isNextServer \in BOOLEAN
  <2>1. PICK r \in Roles : isNextServer = (r = "last")  BY DEF Init
  <2> QED BY <2>1
<1>8. behind \in Nat
  <2>1. behind \in {0} \/ behind \in 0 .. MaxBehind  BY DEF Init
  <2> QED BY <2>1, NetAssumption
<1>9. /\ repout \in BOOLEAN /\ writeNetXoff \in BOOLEAN /\ stopped \in BOOLEAN
      /\ reconnect \in {"no", "pending", "served"} /\ exited \in ExitReason
  BY DEF Init, ExitReason
<1>10. disk \in Seq([file : File, body : ChunkType])
  BY DEF Init
<1> QED BY <1>1, <1>2, <1>3, <1>4, <1>5, <1>6, <1>7, <1>8, <1>9, <1>10 DEF TypeOK

\* What readnet() does when any two packets are there for it: here the host before
\* sends those it is asked for, in Chain another program does.
Fails(d) == RefusePacket(d) \/ TrailerFails \/ RecvFail \/ ReconnectFails \/ AcceptFails
Reconnection == Reconnects \/ Accepted
Arrivals == ConnectionLost \/ ReconnectArrives     \* Upstream but for Accepted, AcceptFails
Reads(f, d) == ReadBanks \/ Receive(f, d) \/ Fails(d) \/ Reconnection
Asked == FilenoPacket(readnet.fileno)
Wanted == ChunkPacket(Expected)

\* A reconnection leaves readnet() where it is to receive the chunk again.
LEMMA ReconnectionMoves ==
  ASSUME Reconnection
  PROVE  \/ readnet' = readnet
         \/ /\ readnet.pc \in {"recv_header", "recv_body", "accept"}
            /\ \E pc \in {"accept", "recv_header"} : readnet' = [readnet EXCEPT !.pc = pc]
BY DEF Reconnection, Reconnects, Accepted, Requested, Receiving, ReadAt, ReadGoto

LEMMA ArrivalsType == TypeOK /\ Arrivals => TypeOK'
  BY DEF Arrivals, ConnectionLost, ReconnectArrives, TypeOK, DatainType, semaphores,
         writeVars, diskVars

LEMMA ReadsAsked ==
  /\ ReadNet => Reads(Asked, Wanted)
  /\ Upstream => Arrivals \/ Reads(Asked, Wanted)
  /\ TypeOK => Asked \in Packet /\ Wanted \in Packet
<1>1. /\ ReadNet => Reads(Asked, Wanted)
      /\ Upstream => Arrivals \/ Reads(Asked, Wanted)
  BY DEF ReadNet, Reads, Fails, Reconnection, Upstream, Arrivals, Asked, Wanted
<1>2. ASSUME TypeOK PROVE Asked \in Packet /\ Wanted \in Packet
  <2>1. readnet.fileno \in Int /\ readnet.seqno \in Int
    <3>1. readnet.fileno \in File /\ readnet.seqno \in Nat  BY <1>2 DEF TypeOK, ReaderType
    <3>2. readnet.fileno \in Int  BY <3>1, FileTypes
    <3>3. readnet.seqno \in Int  BY <3>1
    <3> QED BY <3>2, <3>3
  <2>2. Expected \in ChunkType  BY <2>1, ChunkIsTyped DEF Expected
  <2> QED BY <2>1, <2>2, FilenoIsPacket DEF Asked, Wanted, ChunkPacket, Packet
<1> QED BY <1>1, <1>2

LEMMA ReadsType ==
  ASSUME TypeOK, NEW f \in Packet, NEW d \in Packet, Reads(f, d)
  PROVE  TypeOK'
<1> USE DEF ReadUnchanged, semaphores, readVars, writeVars, diskVars
<1>1. /\ readnet \in ReaderType /\ readnet.bankno \in Bank /\ readnet.fileno \in File
      /\ readnet.fileno \in Int /\ readnet.seqno \in Nat
  BY FileTypes DEF TypeOK, ReaderType
<1>2. \A pc \in {"start", "recv_fileno", "wait_wdisk", "wait_bind", "recv_header", "recv_body", "done"} :
        [readnet EXCEPT !.pc = pc] \in ReaderType
  BY <1>1 DEF ReaderType
<1>3. datain \in DatainType  BY DEF TypeOK
<1>4. CASE ReadStart
  <2>1. datain' \in DatainType  BY <1>3, <1>4 DEF ReadStart, DatainType, TypeOK
  <2>2. readnet' \in ReaderType  BY <1>2, <1>4 DEF ReadStart, ReadGoto
  <2> QED BY <1>4, <2>1, <2>2 DEF ReadStart, TypeOK
<1>5. CASE WaitWdiskDone
  <2>1. semWriteDisk' \in [Bank -> Nat]  BY <1>1, <1>5 DEF WaitWdiskDone, TypeOK
  <2>2. readnet' \in ReaderType  BY <1>2, <1>5 DEF WaitWdiskDone, ReadGoto
  <2> QED BY <1>5, <2>1, <2>2 DEF WaitWdiskDone, TypeOK
<1>6. CASE WaitBindTwo
  <2>1. BindBank(readnet.bankno) \in Bank  BY <1>1, BanksOfTheRing
  <2>2. semBindTwo' \in [Bank -> Nat]  BY <1>6, <2>1 DEF WaitBindTwo, TypeOK
  <2>3. readnet' \in ReaderType  BY <1>2, <1>6 DEF WaitBindTwo, ReadGoto
  <2> QED BY <1>6, <2>2, <2>3 DEF WaitBindTwo, TypeOK
<1>7. CASE RecvFileno(f)
  <2>1. [readnet EXCEPT !.pc = "wait_wdisk", !.seqno = 0] \in ReaderType  BY <1>1 DEF ReaderType
  <2> QED BY <1>7, <2>1 DEF RecvFileno, TypeOK
<1>8. CASE RecvHeader(d)
  <2>1. d.chunk.seqno \in Int  BY DEF Packet, ChunkType
  <2>2. dataBuffer' \in [Bank -> BufferType]
    BY <1>1, <1>8, <2>1, TornIsTyped DEF RecvHeader, TypeOK, BufferType, EofMark
  <2>3. readnet' \in ReaderType  BY <1>2, <1>8 DEF RecvHeader, ReadGoto
  <2> QED BY <1>8, <2>2, <2>3 DEF RecvHeader, TypeOK
<1>9. CASE RecvBody(d)
  <2> DEFINE b == readnet.bankno
             eof == dataBuffer[b].eof # "NORMAL"
  <2>1. d.body \in ChunkType  BY DEF Packet
  <2>2. dataBuffer[b] \in BufferType  BY <1>1 DEF TypeOK
  <2>3. [dataBuffer[b] EXCEPT !.body = d.body,
                              !.eof = IF eof /\ FinalFile THEN "FINAL_EOF" ELSE @] \in BufferType
    BY <2>1, <2>2 DEF BufferType, EofMark
  <2>4. dataBuffer' \in [Bank -> BufferType]  BY <1>1, <1>9, <2>3 DEF RecvBody, TypeOK
  <2>5. semReadNet' \in [Bank -> Nat]  BY <1>1, <1>9 DEF RecvBody, TypeOK
  <2>5a. NextBank(b) \in Bank  BY <1>1, BanksOfTheRing
  <2>5b. readnet.seqno + 1 \in Nat  BY <1>1
  <2>6. NextBank(b) \in Bank /\ readnet.seqno + 1 \in Nat  BY <2>5a, <2>5b
  <2>7. ~FinalFile => readnet.fileno + 1 \in File  BY <1>1, FilesAssumption DEF FinalFile, File
  <2>8. readnet.first \in BOOLEAN  BY <1>1 DEF ReaderType
  <2>9. /\ (IF ~eof THEN "wait_wdisk" ELSE IF FinalFile THEN "done" ELSE "recv_fileno")
             \in {"wait_wdisk", "done", "recv_fileno"}
        /\ (IF eof /\ ~FinalFile THEN readnet.fileno + 1 ELSE readnet.fileno) \in File
        /\ (IF eof THEN 0 ELSE readnet.seqno + 1) \in Nat
        /\ (readnet.first /\ NextBank(b) # 0) \in BOOLEAN
    BY <1>1, <2>6, <2>7, <2>8
  <2>10. readnet' = [bankno |-> NextBank(b), first |-> readnet.first /\ NextBank(b) # 0,
                     pc |-> IF ~eof THEN "wait_wdisk"
                            ELSE IF FinalFile THEN "done" ELSE "recv_fileno",
                     fileno |-> IF eof /\ ~FinalFile THEN readnet.fileno + 1 ELSE readnet.fileno,
                     seqno |-> IF eof THEN 0 ELSE readnet.seqno + 1]
    BY <1>9 DEF RecvBody
  <2>11. readnet' \in ReaderType  BY <2>6, <2>9, <2>10 DEF ReaderType
  <2> QED BY <1>9, <2>4, <2>5, <2>11 DEF RecvBody, TypeOK
<1>10. CASE Fails(d)
  BY <1>10 DEF Fails, RefusePacket, TrailerFails, RecvFail, ReconnectFails, AcceptFails, TypeOK, ExitReason
<1>11. CASE Reconnection
  <2>1. readnet' \in ReaderType  BY <1>1, <1>11, ReconnectionMoves DEF ReaderType
  <2>2. datain' = datain \/ datain' = [lost |-> FALSE, exception |-> FALSE]
    BY <1>11 DEF Reconnection, Reconnects, Accepted, Requested
  <2>3. [lost |-> FALSE, exception |-> FALSE] \in DatainType  BY DEF DatainType
  <2>4. datain' \in DatainType  BY <1>3, <2>2, <2>3
  <2> QED BY <1>11, <2>1, <2>4 DEF Reconnection, Reconnects, Accepted, Requested, TypeOK, ExitReason
<1> QED BY <1>4, <1>5, <1>6, <1>7, <1>8, <1>9, <1>10, <1>11 DEF Reads, ReadBanks, Receive

LEMMA PutType ==
  ASSUME TypeOK, NEW packet \in Packet, Put(packet)
  PROVE  dataout' \in DataoutType
<1>1. dataout \in DataoutType  BY DEF TypeOK
<1>2. Append(dataout.wire, packet) \in Seq(Packet)  BY <1>1 DEF DataoutType
<1> QED BY <1>1, <1>2 DEF Put, DataoutType

LEMMA CutType == TypeOK /\ Cut => dataout' \in DataoutType
  BY TornIsTyped, PutType DEF Cut, TypeOK

LEMMA SendType ==
  ASSUME TypeOK, NEW packet \in Packet, NEW pc \in {"send_data", "release"},
         SendPacket(packet, pc)
  PROVE  TypeOK'
<1> USE DEF WriteUnchanged, ListUnchanged, semaphores, readVars, diskVars
<1>1. writenet \in WriterType /\ writenet.retry \in Nat  BY DEF TypeOK, WriterType
<1>2. [writenet EXCEPT !.pc = pc, !.retry = 0] \in WriterType  BY <1>1 DEF WriterType
<1>3. CASE SendSuccess(packet, pc)
  BY <1>2, <1>3, PutType DEF SendPacket, SendSuccess, GoOn, TypeOK
<1>4. CASE SendRetry(pc)
  <2>1. writenet.retry + 1 \in Nat  BY <1>1
  <2>2. [writenet EXCEPT !.retry = @ + 1] \in WriterType  BY <1>1, <2>1 DEF WriterType
  <2>3. writenet' \in WriterType  BY <1>2, <1>4, <2>2 DEF SendRetry, GoOn
  <2> QED BY <1>4, <2>3, CutType DEF SendPacket, SendRetry, TypeOK
<1>5. CASE SendLost(pc)
  <2>1. [writenet EXCEPT !.pc = "rec_report", !.ret = pc] \in WriterType  BY <1>1 DEF WriterType
  <2> QED BY <1>5, <2>1, CutType DEF SendPacket, SendLost, TypeOK
<1>6. CASE SendError  BY <1>6 DEF SendPacket, SendError, TypeOK, ExitReason
<1>7. CASE SendToDeleted(pc)
  BY <1>2, <1>7 DEF SendPacket, SendToDeleted, GoOn, TypeOK, ExitReason
<1> QED BY <1>3, <1>4, <1>5, <1>6, <1>7 DEF SendPacket

LEMMA WriteNetType == TypeOK /\ (WriteNet \/ ExceptionReciever) => TypeOK'
<1> SUFFICES ASSUME TypeOK, WriteNet \/ ExceptionReciever PROVE TypeOK'  OBVIOUS
<1> USE DEF WriteUnchanged, ListUnchanged, semaphores, readVars, diskVars
<1>1. /\ writenet \in WriterType /\ writenet.bankno \in Bank
      /\ writenet.ret \in {"send_data", "release"}
  BY DEF TypeOK, WriterType
<1>2. Hand \in BufferType /\ Hand.fileno \in Int /\ Hand.eof \in EofMark
  BY <1>1 DEF TypeOK, Hand, BufferType
<1>3. dataout \in DataoutType  BY DEF TypeOK
<1>4. \A pc \in {"start", "wait_rnet", "rec_host", "done"} : [writenet EXCEPT !.pc = pc] \in WriterType
  BY <1>1 DEF WriterType
<1>5. CASE WriteStart
  <2>1. dataout' \in DataoutType  BY <1>3, <1>5 DEF WriteStart, DataoutType, TypeOK
  <2>2. writenet' \in WriterType  BY <1>4, <1>5 DEF WriteStart, WriteGoto
  <2> QED BY <1>5, <2>1, <2>2 DEF WriteStart, TypeOK
<1>6. CASE WaitRnetDone
  <2>1. semReadNet' \in [Bank -> Nat]  BY <1>1, <1>6 DEF WaitRnetDone, TypeOK
  <2>2. \A pc \in {"send_fileno", "send_data"} :
          [writenet EXCEPT !.retry = 0, !.pc = pc] \in WriterType
    BY <1>1 DEF WriterType
  <2>3. writenet' \in WriterType  BY <1>6, <2>2 DEF WaitRnetDone
  <2> QED BY <1>6, <2>1, <2>3 DEF WaitRnetDone, TypeOK
<1>7. CASE SendFileno  BY <1>2, <1>7, FilenoIsPacket, SendType DEF SendFileno
<1>8. CASE SendData  BY <1>2, <1>8, DataIsPacket, SendType DEF SendData
<1>9. CASE SetWnetDone
  <2>1. semWriteNet' \in [Bank -> Nat]  BY <1>1, <1>9 DEF SetWnetDone, TypeOK
  <2>2. [writenet EXCEPT !.pc = "bind", !.eof = Hand.eof] \in WriterType
    BY <1>1, <1>2 DEF WriterType
  <2> QED BY <1>9, <2>1, <2>2 DEF SetWnetDone, TypeOK
<1>10. CASE SetBindTwoGo
  <2>1. semBindTwo' \in [Bank -> Nat]  BY <1>1, <1>10 DEF SetBindTwoGo, TypeOK
  <2>2. NextBank(writenet.bankno) \in Bank  BY <1>1, BanksOfTheRing
  <2>3. [writenet EXCEPT !.pc = "wait_rnet", !.bankno = NextBank(@)] \in WriterType
    BY <1>1, <2>2 DEF WriterType
  <2> QED BY <1>4, <1>10, <2>1, <2>3 DEF SetBindTwoGo, TypeOK
<1>11. CASE RecoverReport
  BY <1>4, <1>11 DEF RecoverReport, WriteGoto, TypeOK, ExitReason
<1>12. CASE RecoverHost
  <2>1. dataout' \in DataoutType  BY <1>3, <1>12 DEF RecoverHost, DataoutType
  <2>2. [writenet EXCEPT !.pc = writenet.ret, !.retry = 0] \in WriterType
    BY <1>1 DEF WriterType
  <2>3. writenet' \in WriterType  BY <1>1, <1>12, <2>2 DEF RecoverHost, GoOn
  <2>4. behind' \in Nat  BY <1>12 DEF RecoverHost, TypeOK
  <2>5. isNextServer' \in BOOLEAN /\ writeNetXoff' \in BOOLEAN /\ exited' \in ExitReason
    BY <1>12 DEF RecoverHost, TypeOK, ExitReason
  <2> QED BY <1>12, <2>1, <2>3, <2>4, <2>5 DEF RecoverHost, TypeOK
<1>13. CASE ExceptionReciever  BY <1>13 DEF ExceptionReciever, TypeOK, ExitReason
<1> QED BY <1>5, <1>6, <1>7, <1>8, <1>9, <1>10, <1>11, <1>12, <1>13 DEF WriteNet

LEMMA WriteDiskType == TypeOK /\ WriteDisk => TypeOK'
<1> SUFFICES ASSUME TypeOK, WriteDisk PROVE TypeOK'  OBVIOUS
<1> USE DEF DiskUnchanged, semaphores, readVars, writeVars
<1>1. /\ writedisk \in DiskType /\ writedisk.bankno \in Bank /\ writedisk.fileno \in File
      /\ writedisk.fileno \in Int
  BY FileTypes DEF TypeOK, DiskType
<1>2. Taken \in BufferType /\ Taken.eof \in EofMark /\ Taken.body \in ChunkType
  BY <1>1 DEF TypeOK, Taken, BufferType
<1>3. \A pc \in {"choose", "wait_rnet", "wait_wnet", "write", "release", "done"} :
        [writedisk EXCEPT !.pc = pc] \in DiskType
  BY <1>1 DEF DiskType
<1>4. CASE OpenFile
  <2>1. writedisk' \in DiskType  BY <1>1, <1>3, <1>4 DEF OpenFile, DiskGoto
  <2> QED BY <1>4, <2>1 DEF OpenFile, TypeOK, ExitReason
<1>5. CASE ChooseWait
  <2>1. writedisk' \in DiskType  BY <1>3, <1>5 DEF ChooseWait, DiskGoto, Awaited
  <2> QED BY <1>5, <2>1 DEF ChooseWait, TypeOK
<1>6. CASE WaitChunk
  <2>1. semReadNet' \in [Bank -> Nat] /\ semWriteNet' \in [Bank -> Nat]
    <3>1. CASE DiskAt("wait_rnet") /\ semReadNet[writedisk.bankno] > 0
               /\ semReadNet' = [semReadNet EXCEPT ![writedisk.bankno] = @ - 1]
               /\ UNCHANGED semWriteNet
      BY <1>1, <3>1 DEF TypeOK
    <3>2. CASE DiskAt("wait_wnet") /\ semWriteNet[writedisk.bankno] > 0
               /\ semWriteNet' = [semWriteNet EXCEPT ![writedisk.bankno] = @ - 1]
               /\ UNCHANGED semReadNet
      BY <1>1, <3>2 DEF TypeOK
    <3> QED BY <1>6, <3>1, <3>2 DEF WaitChunk
  <2>2. writedisk' \in DiskType  BY <1>3, <1>6 DEF WaitChunk, DiskGoto
  <2> QED BY <1>6, <2>1, <2>2 DEF WaitChunk, TypeOK
<1>7. CASE WriteBuffer
  <2>1. Append(disk, [file |-> writedisk.fileno, body |-> Taken.body])
          \in Seq([file : File, body : ChunkType])
    BY <1>1, <1>2 DEF TypeOK
  <2>2. writedisk' \in DiskType  BY <1>1, <1>3, <1>7 DEF WriteBuffer, DiskGoto
  <2> QED BY <1>7, <2>1, <2>2 DEF WriteBuffer, TypeOK, ExitReason
<1>8. CASE SetWdiskDone
  <2>1. semWriteDisk' \in [Bank -> Nat]  BY <1>1, <1>8 DEF SetWdiskDone, TypeOK
  <2>2. NextBank(writedisk.bankno) \in Bank  BY <1>1, BanksOfTheRing
  <2>3. AfterBank(Taken.eof) \in {"choose", "entry", "report"}
    BY <1>2 DEF AfterBank, EofMark
  <2>4. [writedisk EXCEPT !.pc = AfterBank(Taken.eof), !.bankno = NextBank(@)] \in DiskType
    BY <1>1, <2>2, <2>3 DEF DiskType
  <2> QED BY <1>8, <2>1, <2>4 DEF SetWdiskDone, TypeOK
<1>9. CASE NextEntry
  <2>1. writedisk.fileno + 1 < NoFiles => writedisk.fileno + 1 \in File
    BY <1>1, FilesAssumption DEF File
  <2>2. writedisk.fileno + 1 \in File => [writedisk EXCEPT !.pc = "open", !.fileno = @ + 1] \in DiskType
    BY <1>1 DEF DiskType
  <2> QED BY <1>1, <1>9, <2>1, <2>2 DEF NextEntry, TypeOK, ExitReason
<1>10. CASE EndReport
  <2>1. writedisk' \in DiskType  BY <1>1, <1>3, <1>10 DEF EndReport, DiskGoto
  <2>2. stopped' \in BOOLEAN  BY <1>10 DEF EndReport, TypeOK
  <2> QED BY <1>10, <2>1, <2>2 DEF EndReport, TypeOK, ExitReason
<1> QED BY <1>4, <1>5, <1>6, <1>7, <1>8, <1>9, <1>10 DEF WriteDisk

LEMMA StepType == TypeOK /\ [Next]_vars => TypeOK'
<1>1. TypeOK /\ UNCHANGED vars => TypeOK'
  BY DEF vars, TypeOK, semaphores, readVars, writeVars, diskVars
<1> QED BY <1>1, ArrivalsType, ReadsAsked, ReadsType, WriteNetType, WriteDiskType DEF Next, Stopped

\* Every reachable state of a node is well typed, in any order of the steps of its
\* three threads and for every fault: no semaphore is taken below zero, no thread
\* leaves the ring or the list of files (readnet(), writenet(), writedisk()).
THEOREM TypeCorrect == Spec => []TypeOK
<1>1. Init => TypeOK  BY InitType
<1>2. TypeOK /\ [Next]_vars => TypeOK'  BY StepType
<1> QED BY <1>1, <1>2, PTL DEF Spec
-----------------------------------------------------------------------------
(***************************************************************************)
(* One token per bank.  A step moves the token of at most one bank, between *)
(* a semaphore and the thread that waits on it.                            *)
(***************************************************************************)
LEMMA InitToken == Init => OneToken
  BY DEF Init, InitiallyReady, OneToken, One, ReaderOwns, WriterOwns, DiskOwns,
         Filling, Holding, Writing

\* Where a thread is, and on which bank, as far as its tokens go.
ReaderStays == Filling' = Filling /\ (Filling => readnet'.bankno = readnet.bankno)
WriterStays == Holding' = Holding /\ (Holding => writenet'.bankno = writenet.bankno)
DiskStays == Writing' = Writing /\ (Writing => writedisk'.bankno = writedisk.bankno)

LEMMA Staying ==
  /\ readnet' = readnet => ReaderStays
  /\ writenet' = writenet => WriterStays
  /\ writedisk' = writedisk => DiskStays
BY DEF ReaderStays, WriterStays, DiskStays, Filling, Holding, Writing

LEMMA StayingOwns ==
  /\ ReaderStays => \A b \in Bank : One(ReaderOwns(b))' = One(ReaderOwns(b))
  /\ WriterStays => \A b \in Bank : One(WriterOwns(b))' = One(WriterOwns(b))
  /\ DiskStays => \A b \in Bank : One(DiskOwns(b))' = One(DiskOwns(b))
BY DEF ReaderStays, WriterStays, DiskStays, ReaderOwns, WriterOwns, DiskOwns, One

LEMMA KeepToken ==
  ASSUME OneToken, ReaderStays, WriterStays, DiskStays,
         UNCHANGED <<semWriteDisk, semReadNet, semWriteNet>>
  PROVE  OneToken'
BY StayingOwns DEF OneToken

LEMMA ReadsToken ==
  ASSUME TypeOK, OneToken, NEW f, NEW d, Reads(f, d)
  PROVE  OneToken'
<1> USE DEF ReadUnchanged, semaphores, readVars, writeVars, diskVars
<1>1. /\ readnet \in ReaderType /\ readnet.bankno \in Bank
      /\ semWriteDisk \in [Bank -> Nat] /\ semReadNet \in [Bank -> Nat]
      /\ semWriteNet \in [Bank -> Nat]
  BY DEF TypeOK, ReaderType
<1>2. WriterStays /\ DiskStays
  <2>1. UNCHANGED <<writenet, writedisk>>
    BY DEF Reads, ReadBanks, Receive, ReadStart, WaitWdiskDone, WaitBindTwo, RecvFileno,
           RecvHeader, RecvBody, Fails, RefusePacket, TrailerFails, RecvFail, ReconnectFails, AcceptFails,
           Reconnection,
           Reconnects, Accepted, Requested
  <2> QED BY <2>1, Staying
<1>3. CASE ReadStart \/ WaitBindTwo \/ RecvFileno(f)
           \/ RecvHeader(d) \/ Fails(d) \/ Reconnection
  <2>1. UNCHANGED <<semWriteDisk, semReadNet, semWriteNet>>
    BY <1>3 DEF ReadStart, WaitBindTwo, RecvFileno, RecvHeader, Fails, RefusePacket, TrailerFails,
                RecvFail, ReconnectFails, AcceptFails, Reconnection, Reconnects, Accepted, Requested
  <2>2. ReaderStays
    <3>1. CASE ReadStart
      BY <1>1, <3>1 DEF ReadStart, ReadAt, ReadGoto, ReaderType, ReaderStays, Filling
    <3>2. CASE WaitBindTwo
      BY <1>1, <3>2 DEF WaitBindTwo, ReadAt, ReadGoto, ReaderType, ReaderStays, Filling
    <3>3. CASE RecvFileno(f)
      BY <1>1, <3>3 DEF RecvFileno, ReadAt, ReaderType, ReaderStays, Filling
    <3>4. CASE RecvHeader(d)
      BY <1>1, <3>4 DEF RecvHeader, ReadAt, ReadGoto, ReaderType, ReaderStays, Filling
    <3>5. CASE Fails(d)
      BY <3>5, Staying DEF Fails, RefusePacket, TrailerFails, RecvFail, ReconnectFails, AcceptFails
    <3>6. CASE Reconnection
      BY <1>1, <3>6 DEF Reconnection, Reconnects, Accepted, Requested, Receiving, ReadAt, ReadGoto,
                        ReaderType, ReaderStays, Filling
    <3> QED BY <1>3, <3>1, <3>2, <3>3, <3>4, <3>5, <3>6
  <2> QED BY <1>2, <2>1, <2>2, KeepToken
<1>4. CASE WaitWdiskDone
  <2>1. /\ ~Filling /\ Filling' /\ readnet'.bankno = readnet.bankno
        /\ semWriteDisk[readnet.bankno] > 0
        /\ semWriteDisk' = [semWriteDisk EXCEPT ![readnet.bankno] = @ - 1]
        /\ UNCHANGED <<semReadNet, semWriteNet>>
    BY <1>1, <1>4 DEF WaitWdiskDone, ReadAt, ReadGoto, ReaderType, Filling
  <2>2. ASSUME NEW b \in Bank
        PROVE  semWriteDisk'[b] + One(ReaderOwns(b))' = semWriteDisk[b] + One(ReaderOwns(b))
    BY <1>1, <2>1 DEF ReaderOwns, One
  <2> QED BY <1>1, <1>2, <2>1, <2>2, StayingOwns DEF OneToken, One
<1>5. CASE RecvBody(d)
  <2>1. /\ Filling /\ ~Filling'
        /\ semReadNet' = [semReadNet EXCEPT ![readnet.bankno] = @ + 1]
        /\ UNCHANGED <<semWriteDisk, semWriteNet>>
    BY <1>1, <1>5 DEF RecvBody, ReadAt, ReaderType, Filling
  <2>2. ASSUME NEW b \in Bank
        PROVE  semReadNet'[b] + One(ReaderOwns(b))' = semReadNet[b] + One(ReaderOwns(b))
    BY <1>1, <2>1 DEF ReaderOwns, One
  <2> QED BY <1>1, <1>2, <2>1, <2>2, StayingOwns DEF OneToken, One
<1> QED BY <1>3, <1>4, <1>5 DEF Reads, ReadBanks, Receive

\* Sending and recovering, however they end, leave the bank with the writer.
LEMMA WriterKeepsBank ==
  ASSUME TypeOK, SendFileno \/ SendData \/ RecoverReport \/ RecoverHost
  PROVE  WriterStays /\ UNCHANGED <<dataBuffer, semWriteDisk, semReadNet, semWriteNet, readnet, writedisk>>
<1> USE DEF WriteUnchanged, semaphores, readVars, diskVars
<1>1. writenet \in WriterType /\ writenet.ret \in {"send_data", "release"}
  BY DEF TypeOK, WriterType
<1>2. UNCHANGED <<dataBuffer, semWriteDisk, semReadNet, semWriteNet, readnet, writedisk>>
  BY DEF SendFileno, SendData, SendPacket, RecoverReport, RecoverHost
<1> SUFFICES WriterStays  BY <1>2
<1>3. ASSUME NEW p, NEW pc \in {"send_data", "release"}, Holding, SendPacket(p, pc)
      PROVE  WriterStays
  BY <1>1, <1>3, Staying DEF SendPacket, SendSuccess, SendRetry, SendLost, SendError, SendToDeleted,
                    GoOn, WriterType, WriterStays, Holding
<1>4. CASE SendFileno
  <2>1. Holding  BY <1>4 DEF SendFileno, WriteAt, Holding
  <2> QED BY <1>3, <1>4, <2>1 DEF SendFileno
<1>5. CASE SendData
  <2>1. Holding  BY <1>5 DEF SendData, WriteAt, Holding
  <2> QED BY <1>3, <1>5, <2>1 DEF SendData
<1>6. CASE RecoverReport
  BY <1>1, <1>6 DEF RecoverReport, WriteAt, WriteGoto, WriterType, WriterStays, Holding
<1>7. CASE RecoverHost
  <2>1. CASE writenet' = writenet  BY <2>1, Staying
  <2>2. CASE GoOn(writenet.ret)
    BY <1>1, <1>7, <2>2 DEF RecoverHost, WriteAt, GoOn, WriterType, WriterStays, Holding
  <2> QED BY <1>7, <2>1, <2>2 DEF RecoverHost
<1> QED BY <1>4, <1>5, <1>6, <1>7

LEMMA WriteNetToken == TypeOK /\ OneToken /\ (WriteNet \/ ExceptionReciever) => OneToken'
<1> SUFFICES ASSUME TypeOK, OneToken, WriteNet \/ ExceptionReciever PROVE OneToken'  OBVIOUS
<1> USE DEF WriteUnchanged, semaphores, readVars, diskVars
<1>1. /\ writenet \in WriterType /\ writenet.bankno \in Bank
      /\ semWriteDisk \in [Bank -> Nat] /\ semReadNet \in [Bank -> Nat]
      /\ semWriteNet \in [Bank -> Nat]
  BY DEF TypeOK, WriterType
<1>2. ReaderStays /\ DiskStays
  <2>1. UNCHANGED <<readnet, writedisk>>
    BY DEF WriteNet, ExceptionReciever, WriteStart, WaitRnetDone, SendFileno, SendData, SendPacket,
           SetWnetDone, SetBindTwoGo, RecoverReport, RecoverHost
  <2> QED BY <2>1, Staying
<1>3. CASE SendFileno \/ SendData \/ RecoverReport \/ RecoverHost
  BY <1>2, <1>3, WriterKeepsBank, KeepToken
<1>4. CASE WriteStart \/ SetBindTwoGo \/ ExceptionReciever
  <2>1. UNCHANGED <<semWriteDisk, semReadNet, semWriteNet>>
    BY <1>4 DEF WriteStart, SetBindTwoGo, ExceptionReciever
  <2>2. WriterStays
    <3>1. CASE WriteStart
      BY <1>1, <3>1 DEF WriteStart, WriteAt, WriteGoto, WriterType, WriterStays, Holding
    <3>2. CASE SetBindTwoGo
      BY <1>1, <3>2 DEF SetBindTwoGo, WriteAt, WriterType, WriterStays, Holding
    <3>3. CASE ExceptionReciever  BY <3>3, Staying DEF ExceptionReciever
    <3> QED BY <1>4, <3>1, <3>2, <3>3
  <2> QED BY <1>2, <2>1, <2>2, KeepToken
<1>5. CASE WaitRnetDone
  <2>1. /\ ~Holding /\ Holding' /\ writenet'.bankno = writenet.bankno
        /\ semReadNet[writenet.bankno] > 0
        /\ semReadNet' = [semReadNet EXCEPT ![writenet.bankno] = @ - 1]
        /\ UNCHANGED <<semWriteDisk, semWriteNet>>
    BY <1>1, <1>5 DEF WaitRnetDone, WriteAt, WriterType, Holding
  <2>2. ASSUME NEW b \in Bank
        PROVE  semReadNet'[b] + One(WriterOwns(b))' = semReadNet[b] + One(WriterOwns(b))
    BY <1>1, <2>1 DEF WriterOwns, One
  <2> QED BY <1>1, <1>2, <2>1, <2>2, StayingOwns DEF OneToken, One
<1>6. CASE SetWnetDone
  <2>1. /\ Holding /\ ~Holding'
        /\ semWriteNet' = [semWriteNet EXCEPT ![writenet.bankno] = @ + 1]
        /\ UNCHANGED <<semWriteDisk, semReadNet>>
    BY <1>1, <1>6 DEF SetWnetDone, WriteAt, WriterType, Holding
  <2>2. ASSUME NEW b \in Bank
        PROVE  semWriteNet'[b] + One(WriterOwns(b))' = semWriteNet[b] + One(WriterOwns(b))
    BY <1>1, <2>1 DEF WriterOwns, One
  <2> QED BY <1>1, <1>2, <2>1, <2>2, StayingOwns DEF OneToken, One
<1> QED BY <1>3, <1>4, <1>5, <1>6 DEF WriteNet

LEMMA WriteDiskToken == TypeOK /\ OneToken /\ WriteDisk => OneToken'
<1> SUFFICES ASSUME TypeOK, OneToken, WriteDisk PROVE OneToken'  OBVIOUS
<1> USE DEF DiskUnchanged, semaphores, readVars, writeVars
<1>1. /\ writedisk \in DiskType /\ writedisk.bankno \in Bank
      /\ semWriteDisk \in [Bank -> Nat] /\ semReadNet \in [Bank -> Nat]
      /\ semWriteNet \in [Bank -> Nat]
  BY DEF TypeOK, DiskType
<1>2. ReaderStays /\ WriterStays
  <2>1. UNCHANGED <<readnet, writenet>>
    BY DEF WriteDisk, OpenFile, ChooseWait, WaitChunk, WriteBuffer, SetWdiskDone, NextEntry, EndReport
  <2> QED BY <2>1, Staying
<1>3. CASE OpenFile \/ ChooseWait \/ WriteBuffer \/ NextEntry \/ EndReport
  <2>1. UNCHANGED <<semWriteDisk, semReadNet, semWriteNet>>
    BY <1>3 DEF OpenFile, ChooseWait, WriteBuffer, NextEntry, EndReport
  <2>2. DiskStays
    <3>1. CASE OpenFile
      BY <1>1, <3>1 DEF OpenFile, DiskAt, DiskGoto, DiskType, DiskStays, Writing
    <3>2. CASE ChooseWait
      BY <1>1, <3>2 DEF ChooseWait, Awaited, DiskAt, DiskGoto, DiskType, DiskStays, Writing
    <3>3. CASE WriteBuffer
      BY <1>1, <3>3 DEF WriteBuffer, DiskAt, DiskGoto, DiskType, DiskStays, Writing
    <3>4. CASE NextEntry
      <4>1. CASE writedisk' = writedisk  BY <4>1, Staying
      <4>2. CASE writedisk' = [writedisk EXCEPT !.pc = "open", !.fileno = @ + 1]
        BY <1>1, <3>4, <4>2 DEF NextEntry, DiskAt, DiskType, DiskStays, Writing
      <4> QED BY <3>4, <4>1, <4>2 DEF NextEntry
    <3>5. CASE EndReport
      BY <1>1, <3>5 DEF EndReport, DiskAt, DiskGoto, DiskType, DiskStays, Writing
    <3> QED BY <1>3, <3>1, <3>2, <3>3, <3>4, <3>5
  <2> QED BY <1>2, <2>1, <2>2, KeepToken
<1>4. CASE WaitChunk
  <2>1. ~Writing /\ Writing' /\ writedisk'.bankno = writedisk.bankno /\ semWriteDisk' = semWriteDisk
    BY <1>1, <1>4 DEF WaitChunk, DiskAt, DiskGoto, DiskType, Writing
  <2>2. \/ /\ semReadNet' = [semReadNet EXCEPT ![writedisk.bankno] = @ - 1]
           /\ semWriteNet' = semWriteNet /\ semReadNet[writedisk.bankno] > 0
        \/ /\ semWriteNet' = [semWriteNet EXCEPT ![writedisk.bankno] = @ - 1]
           /\ semReadNet' = semReadNet /\ semWriteNet[writedisk.bankno] > 0
    BY <1>4 DEF WaitChunk
  <2>3. ASSUME NEW b \in Bank
        PROVE  semReadNet'[b] + semWriteNet'[b] + One(DiskOwns(b))'
                 = semReadNet[b] + semWriteNet[b] + One(DiskOwns(b))
    BY <1>1, <2>1, <2>2 DEF DiskOwns, One
  <2>4. semReadNet' \in [Bank -> Int] /\ semWriteNet' \in [Bank -> Int]
    BY <1>1, <2>2
  <2>5. ASSUME NEW b \in Bank
        PROVE  /\ semReadNet[b] \in Int /\ semWriteNet[b] \in Int /\ semWriteDisk[b] \in Int
               /\ semReadNet'[b] \in Int /\ semWriteNet'[b] \in Int
               /\ One(ReaderOwns(b)) \in Int /\ One(WriterOwns(b)) \in Int
               /\ One(DiskOwns(b)) \in Int /\ One(DiskOwns(b))' \in Int
               /\ One(ReaderOwns(b))' = One(ReaderOwns(b)) /\ One(WriterOwns(b))' = One(WriterOwns(b))
    BY <1>1, <1>2, <2>4, StayingOwns DEF One
  <2> QED BY <2>1, <2>3, <2>5 DEF OneToken
<1>5. CASE SetWdiskDone
  <2>1. Writing  BY <1>5 DEF SetWdiskDone, DiskAt, Writing
  <2>2. Taken.eof \in EofMark  BY <1>1 DEF TypeOK, Taken, BufferType
  <2>3. AfterBank(Taken.eof) \in {"choose", "entry", "report"}  BY <2>2 DEF AfterBank, EofMark
  <2>4. ~Writing'  BY <1>1, <1>5, <2>3 DEF SetWdiskDone, DiskType, Writing
  <2>5. /\ semWriteDisk' = [semWriteDisk EXCEPT ![writedisk.bankno] = @ + 1]
        /\ UNCHANGED <<semReadNet, semWriteNet>>
    BY <1>5 DEF SetWdiskDone
  <2>6. ASSUME NEW b \in Bank
        PROVE  semWriteDisk'[b] + One(DiskOwns(b))' = semWriteDisk[b] + One(DiskOwns(b))
    BY <1>1, <2>1, <2>4, <2>5 DEF DiskOwns, One
  <2> QED BY <1>1, <1>2, <2>5, <2>6, StayingOwns DEF OneToken, One
<1> QED BY <1>3, <1>4, <1>5 DEF WriteDisk

LEMMA StepToken == TypeOK /\ OneToken /\ [Next]_vars => OneToken'
<1>1. OneToken /\ (Arrivals \/ UNCHANGED vars) => OneToken'
  BY Staying, KeepToken
     DEF Arrivals, ConnectionLost, ReconnectArrives, vars, semaphores, readVars, writeVars, diskVars
<1> QED BY <1>1, ReadsAsked, ReadsToken, WriteNetToken, WriteDiskToken DEF Next, Stopped

LEMMA TokensAlways == Spec => [](TypeOK /\ OneToken)
<1>1. Init => TypeOK /\ OneToken  BY InitType, InitToken
<1>2. (TypeOK /\ OneToken) /\ [Next]_vars => (TypeOK /\ OneToken)'  BY StepType, StepToken
<1> QED BY <1>1, <1>2, PTL DEF Spec

\* Two threads on one bank would be two tokens.
LEMMA TokensApart ==
  ASSUME TypeOK, OneToken
  PROVE  BanksApart
<1>1. /\ readnet.bankno \in Bank /\ writenet.bankno \in Bank /\ writedisk.bankno \in Bank
  BY DEF TypeOK, ReaderType, WriterType, DiskType
<1>2. ASSUME NEW b \in Bank
      PROVE  One(ReaderOwns(b)) + One(WriterOwns(b)) + One(DiskOwns(b)) <= 1
  BY DEF OneToken, TypeOK, One
<1> QED BY <1>1, <1>2 DEF BanksApart, ReaderOwns, WriterOwns, DiskOwns, One

\* No two of the three threads of a node own a bank at the same time, whatever the
\* size of the ring, with or without bind, through reconnections, recoveries and the
\* change of role under writedisk()'s feet.
THEOREM Exclusive == Spec => []BanksApart
<1>1. TypeOK /\ OneToken => BanksApart  BY TokensApart
<1> QED BY <1>1, TokensAlways, PTL
-----------------------------------------------------------------------------
(***************************************************************************)
(* The order in which dollyC moves chunks through its ring of banks.  What *)
(* it writes is a prefix of the stream, and a node in the middle forwards  *)
(* the stream, every chunk before it writes it.                            *)
(*                                                                         *)
(* The chunks received so far, numbered from 0, are a function; the banks  *)
(* from the one writedisk() works on to the one readnet() works on hold    *)
(* those that are not written yet, each at its number modulo NO_BANK.      *)
(***************************************************************************)

(***************************************************************************)
(* Numbers modulo the size of the ring                                     *)
(***************************************************************************)
LEMMA ModSplit ==
  ASSUME NEW N \in Nat \ {0}, NEW x \in Nat
  PROVE  (x % N) \in 0 .. N - 1 /\ x = N * (x \div N) + (x % N) /\ (x \div N) \in Int
OBVIOUS

LEMMA ModUnique ==
  ASSUME NEW N \in Nat \ {0}, NEW q \in Int, NEW r \in 0 .. N - 1, N * q + r \in Nat
  PROVE  (N * q + r) % N = r
OBVIOUS

LEMMA Multiple ==
  ASSUME NEW N \in Nat \ {0}, NEW q \in Int, 0 < N * q
  PROVE  N * q >= N
<1>1. q >= 1  OBVIOUS
<1> QED BY <1>1

BankOf(k) == k % NO_BANK

LEMMA BankOfType == \A k \in Nat : BankOf(k) \in Bank
  BY BanksOfTheRing DEF BankOf

LEMMA BankOfNext ==
  ASSUME NEW k \in Nat
  PROVE  NextBank(BankOf(k)) = BankOf(k + 1)
<1> DEFINE q == k \div NO_BANK
           r == k % NO_BANK
<1>1. NO_BANK \in Nat \ {0}  BY BanksOfTheRing
<1>2. k = NO_BANK * q + r /\ q \in Int /\ r \in 0 .. NO_BANK - 1  BY <1>1, ModSplit
<1> HIDE DEF q, r
<1>3. CASE r + 1 < NO_BANK
  <2>1. k + 1 = NO_BANK * q + (r + 1) /\ r + 1 \in 0 .. NO_BANK - 1  BY <1>1, <1>2, <1>3
  <2>2. (k + 1) % NO_BANK = r + 1  BY <1>1, <1>2, <2>1, ModUnique
  <2>3. (r + 1) % NO_BANK = r + 1  BY <1>1, <1>2, <1>3
  <2> QED BY <2>2, <2>3 DEF BankOf, NextBank, r
<1>4. CASE r + 1 = NO_BANK
  <2>1. k + 1 = NO_BANK * (q + 1) + 0 /\ q + 1 \in Int  BY <1>1, <1>2, <1>4
  <2>2. (k + 1) % NO_BANK = 0  BY <1>1, <2>1, ModUnique
  <2>3. (r + 1) % NO_BANK = 0  BY <1>1, <1>4
  <2> QED BY <2>2, <2>3 DEF BankOf, NextBank, r
<1> QED BY <1>1, <1>2, <1>3, <1>4

\* Two numbers less than a round apart have the same bank only if they are equal.
LEMMA BankOfOnce ==
  ASSUME NEW j \in Nat, NEW k \in Nat, BankOf(j) = BankOf(k), j <= k, k < j + NO_BANK
  PROVE  j = k
<1>1. NO_BANK \in Nat \ {0}  BY BanksOfTheRing
<1>2. /\ j = NO_BANK * (j \div NO_BANK) + (j % NO_BANK) /\ (j \div NO_BANK) \in Int
      /\ k = NO_BANK * (k \div NO_BANK) + (k % NO_BANK) /\ (k \div NO_BANK) \in Int
  BY <1>1, ModSplit
<1> DEFINE q == (k \div NO_BANK) - (j \div NO_BANK)
<1>3. q \in Int /\ k - j = NO_BANK * q  BY <1>1, <1>2 DEF BankOf
<1> HIDE DEF q
<1>4. CASE j < k
  <2>1. NO_BANK * q >= NO_BANK  BY <1>1, <1>3, <1>4, Multiple
  <2> QED BY <1>1, <1>3, <2>1
<1> QED BY <1>4

LEMMA BankOfRound ==
  ASSUME NEW k \in Nat
  PROVE  BankOf(k + NO_BANK) = BankOf(k)
<1>1. NO_BANK \in Nat \ {0}  BY BanksOfTheRing
<1> DEFINE q == k \div NO_BANK
           r == k % NO_BANK
<1>2. k = NO_BANK * q + r /\ q \in Int /\ r \in 0 .. NO_BANK - 1  BY <1>1, ModSplit
<1> HIDE DEF q, r
<1>3. k + NO_BANK = NO_BANK * (q + 1) + r /\ q + 1 \in Int  BY <1>1, <1>2
<1>4. (k + NO_BANK) % NO_BANK = r  BY <1>1, <1>2, <1>3, ModUnique
<1> QED BY <1>4 DEF BankOf, r
-----------------------------------------------------------------------------
(***************************************************************************)
(* The invariant.  c[0], c[1], ... are the chunks of the stream, n of them *)
(* are received, and c[n] is the one that comes next.                      *)
(***************************************************************************)
Numbered(n, c) ==
  /\ c[0] = Chunk(0, 0)
  /\ \A k \in 0 .. n - 1 : c[k] \in Chunks /\ c[k + 1] = NextChunk(c[k])

\* readnet() fills the bank of number n with the chunk of number n.
InBank == dataBuffer[readnet.bankno]
Reading(n, c) ==
  /\ readnet.bankno = BankOf(n)
  /\ readnet.pc # "done" => Expected = c[n] /\ c[n] \in Chunks
  /\ readnet.pc \in {"start", "recv_fileno"} => readnet.seqno = 0
  /\ readnet.pc = "recv_body" =>
       /\ HeaderOf(InBank) = c[n]
       /\ InBank.eof = IF MarkOf(c[n]) = "NORMAL" THEN "NORMAL" ELSE "EOF"

\* The banks with something in them are those of the chunks that are received and
\* not given back, at most a round.  Every one of them is named for its chunk; that
\* its bytes are the chunk's too is what w = "whole" adds, here and on the disk.
Given == Len(disk) - One(writedisk.pc = "release")
Full(b) == semWriteDisk[b] = 0 /\ ~ReaderOwns(b)
Holds(w, b, chunk) ==
  /\ HeaderOf(dataBuffer[b]) = chunk /\ chunk \in Chunks /\ dataBuffer[b].eof = MarkOf(chunk)
  /\ w = "whole" => dataBuffer[b].body = chunk
Window(w, n, c) ==
  /\ Given \in Nat /\ Given <= n /\ n <= Given + NO_BANK
  /\ \A k \in Given .. n - 1 : Full(BankOf(k)) /\ Holds(w, BankOf(k), c[k])
  /\ \A b \in Bank : Full(b) => \E k \in Given .. n - 1 : b = BankOf(k)

\* writedisk() takes them in their order, with the file of each open.
OnDisk(w, n, c) ==
  /\ Len(disk) <= n
  /\ \A i \in 1 .. Len(disk) :
       disk[i].file = c[i - 1].fileno /\ (w = "whole" => disk[i].body = c[i - 1])
  /\ writedisk.bankno = BankOf(Given)
  /\ writedisk.pc \in {"open", "choose", "wait_rnet", "wait_wnet", "write", "release"} =>
       writedisk.fileno = c[Given].fileno
  /\ writedisk.pc = "entry" => writedisk.fileno + 1 = c[Given].fileno
  /\ writedisk.pc \in {"report", "done"} =>
       disk # <<>> /\ c[Len(disk) - 1] = Chunk(NoFiles - 1, LastSeq[NoFiles - 1])
  /\ stopped => writedisk.pc = "done"

OrderedBy(w, n, c) == Numbered(n, c) /\ Reading(n, c) /\ Window(w, n, c) /\ OnDisk(w, n, c)
Ordered(w) == \E n \in Nat : \E c \in [Nat -> ChunkType] : OrderedBy(w, n, c)

LEMMA InitOrderedBy ==
  ASSUME NEW w, Init
  PROVE  \E n \in Nat : \E c \in [Nat -> ChunkType] : n = 0 /\ OrderedBy(w, n, c)
<1> DEFINE c == [k \in Nat |-> Chunk(0, 0)]
<1>1. c \in [Nat -> ChunkType]  BY ChunkIsTyped
<1>2. Chunk(0, 0) \in Chunks
  <2>1. 0 \in File /\ 0 \in 0 .. LastSeq[0]  BY FileTypes, FilesAssumption
  <2> QED BY <2>1 DEF Chunks
<1>3. BankOf(0) = 0  BY BanksOfTheRing DEF BankOf
<1>4. Given = 0 /\ disk = <<>>  BY DEF Init, Given, One
<1>5. \A b \in Bank : ~Full(b)  BY DEF Init, InitiallyReady, Full
<1>6. Numbered(0, c)  BY DEF Numbered
<1>7. Reading(0, c)  BY <1>2, <1>3 DEF Init, Reading, Expected
<1>8. Window(w, 0, c)  BY <1>4, <1>5, BanksOfTheRing DEF Window
<1>9. OnDisk(w, 0, c)  BY <1>3, <1>4 DEF Init, OnDisk, Chunk
<1> QED BY <1>1, <1>6, <1>7, <1>8, <1>9 DEF OrderedBy

LEMMA InitOrdered ==
  ASSUME NEW w, Init
  PROVE  Ordered(w)
BY InitOrderedBy DEF Ordered

-----------------------------------------------------------------------------
(* Steps of readnet() *)

\* A bank that a thread has, or that has been posted to the next one, is full, unless
\* readnet() has it.
LEMMA WhoIsFull ==
  ASSUME TypeOK, OneToken, NEW b \in Bank
  PROVE  /\ ReaderOwns(b) => semWriteDisk[b] = 0 /\ ~Full(b)
         /\ semWriteDisk[b] > 0 => ~Full(b)
         /\ semReadNet[b] > 0 \/ semWriteNet[b] > 0 \/ DiskOwns(b) => Full(b)
<1>1. semWriteDisk[b] \in Nat /\ semReadNet[b] \in Nat /\ semWriteNet[b] \in Nat  BY DEF TypeOK
<1>2. semWriteDisk[b] + semReadNet[b] + semWriteNet[b]
        + One(ReaderOwns(b)) + One(WriterOwns(b)) + One(DiskOwns(b)) = 1
  BY DEF OneToken
<1> QED BY <1>1, <1>2 DEF Full, One

LEMMA KeepWindow ==
  ASSUME NEW w, NEW n \in Nat, NEW c, Window(w, n, c), Given' = Given,
         \A b \in Bank : Full(b)' <=> Full(b),
         \A b \in Bank : Full(b) => dataBuffer'[b] = dataBuffer[b]
  PROVE  Window(w, n, c)'
<1>1. ASSUME NEW k \in Given .. n - 1
      PROVE  Full(BankOf(k))' /\ Holds(w, BankOf(k), c[k])'
  <2>1. k \in Nat /\ BankOf(k) \in Bank  BY <1>1, BankOfType DEF Window
  <2>2. Full(BankOf(k)) /\ Holds(w, BankOf(k), c[k])  BY <1>1 DEF Window
  <2> QED BY <2>1, <2>2 DEF Holds
<1> QED BY <1>1 DEF Window

\* Steps that leave the banks, the files and the place of both threads alone.
LEMMA Untouched ==
  ASSUME NEW w, NEW n \in Nat, NEW c, OrderedBy(w, n, c),
         UNCHANGED <<dataBuffer, semWriteDisk, disk, stopped, readnet, writedisk>>
  PROVE  OrderedBy(w, n, c)'
<1>1. Numbered(n, c)'  BY DEF OrderedBy, Numbered
<1>2. Reading(n, c)'  BY DEF OrderedBy, Reading, Expected, InBank
<1>3. Given' = Given /\ \A b \in Bank : Full(b)' <=> Full(b)
  BY DEF Given, Full, ReaderOwns, Filling
<1>4. Window(w, n, c)'  BY <1>3, KeepWindow DEF OrderedBy
<1>5. OnDisk(w, n, c)'  BY <1>3 DEF OrderedBy, OnDisk
<1> QED BY <1>1, <1>2, <1>4, <1>5 DEF OrderedBy

LEMMA ReadQuietly ==
  ASSUME TypeOK, OneToken, NEW w, NEW n \in Nat, NEW c, OrderedBy(w, n, c), NEW p,
         ReadBanks \/ RecvFileno(p) \/ Fails(p) \/ Reconnection
  PROVE  OrderedBy(w, n, c)'
<1> USE DEF ReadBanks, ReadUnchanged, semaphores, readVars, writeVars, diskVars
<1>1. readnet \in ReaderType /\ readnet.bankno \in Bank  BY DEF TypeOK, ReaderType
<1>2. UNCHANGED <<dataBuffer, disk, stopped, writedisk>>
  BY DEF ReadStart, WaitWdiskDone, WaitBindTwo, RecvFileno, Fails, RefusePacket, TrailerFails, RecvFail,
         ReconnectFails, AcceptFails, Reconnection, Reconnects, Accepted, Requested
<1>3. /\ readnet'.bankno = readnet.bankno /\ readnet'.fileno = readnet.fileno
      /\ readnet'.seqno = readnet.seqno
      /\ readnet.pc # "done" \/ readnet' = readnet
      /\ readnet'.pc \in {"start", "recv_fileno"} => readnet.seqno = 0
      /\ readnet'.pc = "recv_body" => readnet' = readnet
  <2>1. CASE ReadStart
    BY <1>1, <2>1 DEF ReadStart, ReadAt, ReadGoto, ReaderType, OrderedBy, Reading
  <2>2. CASE WaitWdiskDone
    BY <1>1, <2>2 DEF WaitWdiskDone, ReadAt, ReadGoto, ReaderType, OrderedBy, Reading
  <2>3. CASE WaitBindTwo
    BY <1>1, <2>3 DEF WaitBindTwo, ReadAt, ReadGoto, ReaderType, OrderedBy, Reading
  <2>4. CASE RecvFileno(p)
    BY <1>1, <2>4 DEF RecvFileno, ReadAt, ReaderType, OrderedBy, Reading
  <2>5. CASE readnet' = readnet
    BY <1>1, <2>5 DEF ReaderType, OrderedBy, Reading
  <2>6. CASE Reconnection
    BY <1>1, <2>5, <2>6, ReconnectionMoves DEF ReaderType
  <2>7. CASE Fails(p)
    BY <2>5, <2>7 DEF Fails, RefusePacket, TrailerFails, RecvFail, ReconnectFails, AcceptFails
  <2> QED BY <2>1, <2>2, <2>3, <2>4, <2>6, <2>7
<1>4. Reading(n, c)'
  <2>1. Expected' = Expected  BY <1>3 DEF Expected
  <2> QED BY <1>2, <1>3, <2>1 DEF OrderedBy, Reading, InBank
<1>5. \A b \in Bank : Full(b)' <=> Full(b)
  <2>1. CASE WaitWdiskDone
    <3>1. /\ semWriteDisk[readnet.bankno] > 0 /\ semWriteDisk \in [Bank -> Nat]
          /\ semWriteDisk' = [semWriteDisk EXCEPT ![readnet.bankno] = @ - 1]
          /\ ~Filling /\ Filling'
      BY <1>1, <2>1 DEF WaitWdiskDone, ReadAt, ReadGoto, ReaderType, Filling, TypeOK
    <3>2. ASSUME NEW b \in Bank, b = readnet.bankno
          PROVE  ~Full(b) /\ ~Full(b)'
      BY <1>3, <3>1, <3>2 DEF Full, ReaderOwns
    <3>3. ASSUME NEW b \in Bank, b # readnet.bankno
          PROVE  Full(b)' <=> Full(b)
      BY <1>1, <1>3, <3>1, <3>3 DEF Full, ReaderOwns
    <3> QED BY <3>2, <3>3
  <2>2. CASE ~WaitWdiskDone
    <3>1. semWriteDisk' = semWriteDisk
      BY <2>2 DEF ReadStart, WaitBindTwo, RecvFileno, Fails, RefusePacket, TrailerFails, RecvFail,
                  ReconnectFails, AcceptFails, Reconnection, Reconnects, Accepted, Requested
    <3>2. Filling' = Filling
      <4>1. CASE ReadStart  BY <1>1, <4>1 DEF ReadStart, ReadAt, ReadGoto, ReaderType, Filling
      <4>2. CASE WaitBindTwo
        BY <1>1, <4>2 DEF WaitBindTwo, ReadAt, ReadGoto, ReaderType, Filling
      <4>3. CASE RecvFileno(p)
        BY <1>1, <4>3 DEF RecvFileno, ReadAt, ReaderType, Filling
      <4>4. CASE readnet' = readnet  BY <4>4 DEF Filling
      <4>5. CASE Reconnection
        BY <1>1, <4>4, <4>5, ReconnectionMoves DEF ReaderType, Filling
      <4>6. CASE Fails(p)
        BY <4>4, <4>6 DEF Fails, RefusePacket, TrailerFails, RecvFail, ReconnectFails, AcceptFails
      <4> QED BY <2>2, <4>1, <4>2, <4>3, <4>5, <4>6
    <3> QED BY <1>3, <3>1, <3>2 DEF Full, ReaderOwns
  <2> QED BY <2>1, <2>2
<1>6. Given' = Given  BY <1>2 DEF Given
<1>7. Window(w, n, c)'  BY <1>2, <1>5, <1>6, KeepWindow DEF OrderedBy
<1>8. OnDisk(w, n, c)'  BY <1>2, <1>6 DEF OrderedBy, OnDisk
<1>9. Numbered(n, c)'  BY DEF OrderedBy, Numbered
<1> QED BY <1>4, <1>7, <1>8, <1>9 DEF OrderedBy

LEMMA HeaderOrdered ==
  ASSUME TypeOK, OneToken, NEW w, NEW n \in Nat, NEW c, OrderedBy(w, n, c),
         NEW p, p.chunk = Expected, RecvHeader(p)
  PROVE  OrderedBy(w, n, c)'
<1> USE DEF ReadUnchanged, semaphores, readVars, writeVars, diskVars
<1>1. /\ readnet \in ReaderType /\ readnet.bankno \in Bank
      /\ readnet.pc = "recv_header" /\ readnet' = [readnet EXCEPT !.pc = "recv_body"]
      /\ UNCHANGED <<semWriteDisk, disk, stopped, writedisk>>
  BY DEF TypeOK, ReaderType, RecvHeader, ReadAt, ReadGoto
<1>2. dataBuffer' = [dataBuffer EXCEPT ![readnet.bankno] =
        [fileno |-> readnet.fileno, seqno |-> Expected.seqno, body |-> Torn,
         eof |-> IF MarkOf(Expected) # "NORMAL" THEN "EOF" ELSE "NORMAL"]]
  BY DEF RecvHeader, AtEof
<1>3. /\ readnet'.pc = "recv_body" /\ readnet'.bankno = readnet.bankno
      /\ readnet'.fileno = readnet.fileno /\ readnet'.seqno = readnet.seqno
  BY <1>1 DEF ReaderType
<1>4. Expected' = Expected /\ Expected = c[n] /\ c[n] \in Chunks
  BY <1>1, <1>3 DEF Expected, OrderedBy, Reading
<1>5. InBank' = [fileno |-> readnet.fileno, seqno |-> Expected.seqno, body |-> Torn,
                 eof |-> IF MarkOf(Expected) # "NORMAL" THEN "EOF" ELSE "NORMAL"]
  BY <1>1, <1>2, <1>3 DEF InBank, TypeOK
<1>6. HeaderOf(InBank)' = Expected
  BY <1>5 DEF HeaderOf, Expected, Chunk
<1>7. Reading(n, c)'
  BY <1>3, <1>4, <1>5, <1>6 DEF OrderedBy, Reading
<1>8. \A b \in Bank : Full(b)' <=> Full(b)
  BY <1>1, <1>3 DEF Full, ReaderOwns, Filling
<1>9. ~Full(readnet.bankno)
  BY <1>1 DEF Full, ReaderOwns, Filling
<1>10. \A b \in Bank : Full(b) => dataBuffer'[b] = dataBuffer[b]
  BY <1>1, <1>2, <1>9 DEF TypeOK
<1>11. Given' = Given  BY <1>1 DEF Given
<1>12. Window(w, n, c)'  BY <1>8, <1>10, <1>11, KeepWindow DEF OrderedBy
<1>13. OnDisk(w, n, c)'  BY <1>1, <1>11 DEF OrderedBy, OnDisk
<1>14. Numbered(n, c)'  BY DEF OrderedBy, Numbered
<1> QED BY <1>7, <1>12, <1>13, <1>14 DEF OrderedBy

\* A chunk that is received makes one more; its bank was not full, so that there was
\* room for it.
WithNext(n, c) == [c EXCEPT ![n + 1] = NextChunk(c[n])]

LEMMA WithNextType ==
  ASSUME NEW n \in Nat, NEW c \in [Nat -> ChunkType]
  PROVE  /\ WithNext(n, c) \in [Nat -> ChunkType] /\ WithNext(n, c)[n + 1] = NextChunk(c[n])
         /\ \A k \in Nat : k <= n => WithNext(n, c)[k] = c[k]
<1>1. NextChunk(c[n]) \in ChunkType
  <2>1. c[n].fileno \in Int /\ c[n].seqno \in Int  BY DEF ChunkType
  <2> QED BY <2>1, ChunkIsTyped DEF NextChunk
<1> QED BY <1>1 DEF WithNext

LEMMA BodyOrdered ==
  ASSUME TypeOK, OneToken, NEW w, NEW n \in Nat, NEW c \in [Nat -> ChunkType], OrderedBy(w, n, c),
         NEW p, w = "whole" => p.body = Expected, RecvBody(p)
  PROVE  OrderedBy(w, n + 1, WithNext(n, c))'
<1> USE DEF ReadUnchanged, semaphores, readVars, writeVars, diskVars
<1> DEFINE b0 == readnet.bankno
           next == NextChunk(c[n])
           d == WithNext(n, c)
           eof == dataBuffer[b0].eof # "NORMAL"
<1>1. /\ readnet \in ReaderType /\ b0 \in Bank /\ readnet.fileno \in File /\ readnet.seqno \in Nat
      /\ readnet.fileno \in Int
      /\ readnet.pc = "recv_body" /\ dataBuffer \in [Bank -> BufferType]
  BY FileTypes DEF TypeOK, ReaderType, RecvBody, ReadAt
<1>2. /\ Numbered(n, c) /\ Reading(n, c) /\ Window(w, n, c) /\ OnDisk(w, n, c)
      /\ b0 = BankOf(n) /\ Expected = c[n] /\ c[n] \in Chunks
      /\ HeaderOf(dataBuffer[b0]) = c[n]
      /\ dataBuffer[b0].eof = IF MarkOf(c[n]) = "NORMAL" THEN "NORMAL" ELSE "EOF"
  BY <1>1 DEF OrderedBy, Reading, InBank
<1>3. /\ dataBuffer' = [dataBuffer EXCEPT ![b0].body = p.body,
                          ![b0].eof = IF eof /\ FinalFile THEN "FINAL_EOF" ELSE @]
      /\ readnet' = [bankno |-> NextBank(b0), first |-> readnet.first /\ NextBank(b0) # 0,
                     pc |-> IF ~eof THEN "wait_wdisk"
                            ELSE IF FinalFile THEN "done" ELSE "recv_fileno",
                     fileno |-> IF eof /\ ~FinalFile THEN readnet.fileno + 1 ELSE readnet.fileno,
                     seqno |-> IF eof THEN 0 ELSE readnet.seqno + 1]
      /\ UNCHANGED <<semWriteDisk, disk, stopped, writedisk>>
  BY <1>2 DEF RecvBody
<1>4. /\ c[n].fileno = readnet.fileno /\ c[n].seqno = readnet.seqno
      /\ eof <=> ~(readnet.seqno < LastSeq[readnet.fileno])
  BY <1>1, <1>2 DEF Expected, Chunk, MarkOf
<1>6. /\ d \in [Nat -> ChunkType] /\ n + 1 \in Nat /\ d[n + 1] = next
      /\ \A k \in Nat : k <= n => d[k] = c[k]
  BY WithNextType
<1> HIDE DEF d
<1>7. Numbered(n + 1, d)
  <2>1. d[0] = Chunk(0, 0)  BY <1>2, <1>6 DEF Numbered
  <2>2. ASSUME NEW k \in 0 .. n
        PROVE  d[k] \in Chunks /\ d[k + 1] = NextChunk(d[k])
    <3>1. CASE k = n  BY <1>2, <1>6, <3>1
    <3>2. CASE k # n
      <4>1. k \in 0 .. n - 1 /\ k + 1 \in Nat /\ k + 1 <= n  BY <3>2
      <4> QED BY <1>2, <1>6, <4>1 DEF Numbered
    <3> QED BY <3>1, <3>2
  <2> QED BY <2>1, <2>2 DEF Numbered
<1>8. ~FinalFile => readnet.fileno + 1 \in File
  BY <1>1, FilesAssumption DEF FinalFile, File
<1>9. Reading(n + 1, d)'
  <2>1. readnet'.bankno = BankOf(n + 1)  BY <1>2, <1>3, BankOfNext
  <2>2. readnet'.pc \in {"start", "recv_fileno"} => readnet'.seqno = 0  BY <1>3
  <2>3. readnet'.pc # "recv_body"  BY <1>3
  <2>4. ASSUME readnet'.pc # "done" PROVE Expected' = next /\ next \in Chunks
    <3>1. CASE ~eof
      <4>1. Expected' = Chunk(readnet.fileno, readnet.seqno + 1)
        BY <1>3, <3>1 DEF Expected
      <4>2. readnet.seqno + 1 \in 0 .. LastSeq[readnet.fileno]
        BY <1>1, <1>4, <3>1, FilesAssumption
      <4> QED BY <1>1, <1>4, <3>1, <4>1, <4>2 DEF NextChunk, Chunks
    <3>2. CASE eof
      <4>1. ~FinalFile  BY <1>3, <2>4, <3>2
      <4>2. Expected' = Chunk(readnet.fileno + 1, 0)  BY <1>3, <3>2, <4>1 DEF Expected
      <4>3. 0 \in 0 .. LastSeq[readnet.fileno + 1]  BY <1>8, <4>1, FilesAssumption
      <4> QED BY <1>4, <1>8, <3>2, <4>1, <4>2, <4>3 DEF NextChunk, Chunks
    <3> QED BY <3>1, <3>2
  <2> QED BY <1>6, <2>1, <2>2, <2>3, <2>4 DEF Reading
<1>10. ReaderOwns(b0) /\ semWriteDisk[b0] = 0 /\ ~Full(b0)
  BY <1>1, WhoIsFull DEF ReaderOwns, Filling
<1>11. ~Filling'  BY <1>3 DEF Filling
<1>12. ASSUME NEW b \in Bank
       PROVE  Full(b)' <=> (Full(b) \/ b = b0)
  BY <1>3, <1>10, <1>11 DEF Full, ReaderOwns
<1>13. /\ HeaderOf(dataBuffer'[b0]) = c[n] /\ dataBuffer'[b0].eof = MarkOf(c[n])
       /\ w = "whole" => dataBuffer'[b0].body = c[n]
  <2>1. /\ dataBuffer'[b0].body = p.body /\ HeaderOf(dataBuffer'[b0]) = c[n]
        /\ dataBuffer'[b0].eof = IF eof /\ FinalFile THEN "FINAL_EOF" ELSE dataBuffer[b0].eof
    BY <1>1, <1>2, <1>3 DEF BufferType, HeaderOf
  <2>2. dataBuffer'[b0].eof = MarkOf(c[n])
    <3>1. readnet.fileno + 1 < NoFiles <=> ~FinalFile
      BY <1>1, FilesAssumption DEF FinalFile, File
    <3> QED BY <1>2, <1>4, <2>1, <3>1 DEF MarkOf
  <2> QED BY <1>2, <2>1, <2>2
<1>14. Given' = Given /\ Given \in Nat /\ Given <= n /\ n <= Given + NO_BANK
  BY <1>2, <1>3 DEF Given, Window
<1>15. n + 1 <= Given + NO_BANK
  <2>1. SUFFICES ASSUME n = Given + NO_BANK PROVE FALSE
    BY <1>14, BanksOfTheRing
  <2>2. BankOf(Given) = b0  BY <1>2, <1>14, <2>1, BankOfRound
  <2>3. Given \in Given .. n - 1  BY <1>14, <2>1, BanksOfTheRing
  <2>4. Full(BankOf(Given))  BY <1>2, <2>3 DEF Window
  <2> QED BY <1>10, <2>2, <2>4
<1>16. Window(w, n + 1, d)'
  <2>1. ASSUME NEW k \in Given .. n
        PROVE  Full(BankOf(k))' /\ Holds(w, BankOf(k), d[k])'
    <3>1. k \in Nat /\ k <= n /\ BankOf(k) \in Bank /\ d[k] = c[k]  BY <1>6, <1>14, BankOfType
    <3>2. CASE k = n
      <4>1. BankOf(k) = b0  BY <1>2, <3>2
      <4>2. Full(BankOf(k))'  BY <1>12, <3>1, <4>1
      <4> QED BY <1>2, <1>13, <3>1, <3>2, <4>1, <4>2 DEF Holds
    <3>3. CASE k # n
      <4>1. k \in Given .. n - 1  BY <1>14, <3>3
      <4>2. Full(BankOf(k)) /\ Holds(w, BankOf(k), c[k])  BY <1>2, <4>1 DEF Window
      <4>3. BankOf(k) # b0  BY <1>10, <4>2
      <4>4. dataBuffer'[BankOf(k)] = dataBuffer[BankOf(k)]  BY <1>1, <1>3, <3>1, <4>3
      <4> QED BY <1>12, <3>1, <4>2, <4>4 DEF Holds
    <3> QED BY <3>2, <3>3
  <2>2. ASSUME NEW b \in Bank, Full(b)'
        PROVE  \E k \in Given .. n : b = BankOf(k)
    <3>1. CASE Full(b)
      <4>1. PICK k \in Given .. n - 1 : b = BankOf(k)  BY <1>2, <3>1 DEF Window
      <4> QED BY <1>14, <4>1
    <3>2. CASE b = b0  BY <1>2, <1>14, <3>2
    <3> QED BY <1>12, <2>2, <3>1, <3>2
  <2> QED BY <1>14, <1>15, <2>1, <2>2 DEF Window
<1>17. OnDisk(w, n + 1, d)'
  <2>1. Given \in Nat /\ d[Given] = c[Given]  BY <1>6, <1>14
  <2>2. Len(disk) \in Nat /\ Len(disk) <= n  BY <1>2 DEF OnDisk, TypeOK
  <2>3. ASSUME NEW i \in 1 .. Len(disk) PROVE d[i - 1] = c[i - 1]
    <3>1. i - 1 \in Nat /\ i - 1 <= n  BY <2>2
    <3> QED BY <1>6, <3>1
  <2> QED BY <1>2, <1>3, <1>14, <2>1, <2>2, <2>3 DEF OnDisk
<1>18. Numbered(n + 1, d)'  BY <1>7 DEF Numbered
<1> QED BY <1>9, <1>16, <1>17, <1>18 DEF OrderedBy, d

-----------------------------------------------------------------------------
(* Steps of writedisk() *)

\* A full bank that writedisk() stands at is the one of the chunk it has to write next.
LEMMA InHand ==
  ASSUME NEW w, NEW n \in Nat, NEW c, OrderedBy(w, n, c), Full(writedisk.bankno)
  PROVE  Given < n /\ Holds(w, writedisk.bankno, c[Given])
<1>1. /\ Given \in Nat /\ Given <= n /\ n <= Given + NO_BANK
      /\ writedisk.bankno = BankOf(Given)
  BY DEF OrderedBy, Window, OnDisk
<1>2. PICK k \in Given .. n - 1 : BankOf(Given) = BankOf(k)
  BY <1>1, BankOfType DEF OrderedBy, Window
<1>3. k \in Nat /\ Given <= k /\ k < Given + NO_BANK /\ k < n
  BY <1>1, <1>2, BanksOfTheRing
<1>4. k = Given  BY <1>1, <1>2, <1>3, BankOfOnce
<1> QED BY <1>1, <1>2, <1>3, <1>4 DEF OrderedBy, Window

LEMMA DiskQuietly ==
  ASSUME TypeOK, OneToken, NEW w, NEW n \in Nat, NEW c, OrderedBy(w, n, c),
         OpenFile \/ ChooseWait \/ WaitChunk \/ NextEntry \/ EndReport
  PROVE  OrderedBy(w, n, c)'
<1> USE DEF DiskUnchanged, semaphores, readVars, writeVars
<1>1. writedisk \in DiskType  BY DEF TypeOK
<1>2. UNCHANGED <<dataBuffer, semWriteDisk, disk, readnet>>
  BY DEF OpenFile, ChooseWait, WaitChunk, NextEntry, EndReport
<1> DEFINE Before == {"open", "choose", "wait_rnet", "wait_wnet", "write"}
<1>3. /\ writedisk'.bankno = writedisk.bankno
      /\ \/ writedisk' = writedisk
         \/ writedisk.pc \in Before /\ writedisk'.pc \in Before /\ writedisk'.fileno = writedisk.fileno
         \/ writedisk.pc = "entry" /\ writedisk'.pc \in Before
              /\ writedisk'.fileno = writedisk.fileno + 1
         \/ writedisk.pc = "report" /\ writedisk'.pc = "done"
  <2>1. CASE OpenFile  BY <1>1, <2>1 DEF OpenFile, DiskAt, DiskGoto, DiskType
  <2>2. CASE ChooseWait  BY <1>1, <2>2 DEF ChooseWait, Awaited, DiskAt, DiskGoto, DiskType
  <2>3. CASE WaitChunk  BY <1>1, <2>3 DEF WaitChunk, DiskAt, DiskGoto, DiskType
  <2>4. CASE NextEntry
    <3>1. CASE writedisk' = writedisk  BY <3>1
    <3>2. CASE writedisk' = [writedisk EXCEPT !.pc = "open", !.fileno = @ + 1]
      BY <1>1, <2>4, <3>2 DEF NextEntry, DiskAt, DiskType
    <3> QED BY <2>4, <3>1, <3>2 DEF NextEntry
  <2>5. CASE EndReport
    <3>1. CASE writedisk' = writedisk  BY <3>1
    <3>2. CASE DiskGoto("done")  BY <1>1, <2>5, <3>2 DEF EndReport, DiskAt, DiskGoto, DiskType
    <3> QED BY <2>5, <3>1, <3>2 DEF EndReport
  <2> QED BY <2>1, <2>2, <2>3, <2>4, <2>5
<1>4. Given' = Given  BY <1>2, <1>3 DEF Given
<1>5. OnDisk(w, n, c)'
  <2>1. stopped' => writedisk'.pc = "done"
    BY <1>1, <1>2, <1>3 DEF OpenFile, ChooseWait, WaitChunk, NextEntry, EndReport,
       DiskAt, DiskGoto, DiskType, Ended, OrderedBy, OnDisk
  <2> QED BY <1>2, <1>3, <1>4, <2>1 DEF OrderedBy, OnDisk
<1>6. \A b \in Bank : Full(b)' <=> Full(b)  BY <1>2 DEF Full, ReaderOwns, Filling
<1>7. Window(w, n, c)'  BY <1>2, <1>4, <1>6, KeepWindow DEF OrderedBy
<1>8. Numbered(n, c)' /\ Reading(n, c)'
  BY <1>2 DEF OrderedBy, Numbered, Reading, Expected, InBank
<1> QED BY <1>5, <1>7, <1>8 DEF OrderedBy

LEMMA WriteOrdered ==
  ASSUME TypeOK, OneToken, NEW w, NEW n \in Nat, NEW c, OrderedBy(w, n, c), WriteBuffer
  PROVE  OrderedBy(w, n, c)'
<1> USE DEF DiskUnchanged, semaphores, readVars, writeVars
<1>1. writedisk \in DiskType /\ writedisk.bankno \in Bank /\ writedisk.pc = "write"
  BY DEF TypeOK, DiskType, WriteBuffer, DiskAt
<1>2. UNCHANGED <<dataBuffer, semWriteDisk, readnet>>
  BY DEF WriteBuffer
<1>3. CASE UNCHANGED <<disk, writedisk>>
  BY <1>2, <1>3, Untouched DEF WriteBuffer
<1>4. CASE /\ disk' = Append(disk, [file |-> writedisk.fileno, body |-> Taken.body])
           /\ writedisk' = [writedisk EXCEPT !.pc = "release"]
  <2>1. Given < n /\ Holds(w, writedisk.bankno, c[Given])
    <3>1. DiskOwns(writedisk.bankno)  BY <1>1 DEF DiskOwns, Writing
    <3> QED BY <1>1, <3>1, WhoIsFull, InHand
  <2>2. w = "whole" => Taken.body = c[Given]  BY <2>1 DEF Holds, Taken
  <2>3. Len(disk) \in Nat /\ Given = Len(disk)  BY <1>1 DEF Given, One, TypeOK
  <2>4. /\ writedisk'.pc = "release" /\ writedisk'.bankno = writedisk.bankno
        /\ writedisk'.fileno = writedisk.fileno
    BY <1>1, <1>4 DEF DiskType
  <2>5. /\ Len(disk') = Len(disk) + 1
        /\ \A i \in 1 .. Len(disk) : disk'[i] = disk[i]
        /\ disk'[Len(disk) + 1] = [file |-> writedisk.fileno, body |-> Taken.body]
    BY <1>4 DEF TypeOK
  <2>6. Given' = Given  BY <2>3, <2>4, <2>5 DEF Given, One
  <2>7. writedisk.fileno = c[Given].fileno  BY <1>1 DEF OrderedBy, OnDisk
  <2>8. ASSUME NEW i \in 1 .. Len(disk')
        PROVE  disk'[i].file = c[i - 1].fileno /\ (w = "whole" => disk'[i].body = c[i - 1])
    <3>1. CASE i = Len(disk) + 1  BY <2>2, <2>3, <2>5, <2>7, <3>1
    <3>2. CASE i # Len(disk) + 1
      <4>1. i \in 1 .. Len(disk)  BY <2>3, <2>5, <3>2
      <4> QED BY <2>5, <4>1 DEF OrderedBy, OnDisk
    <3> QED BY <3>1, <3>2
  <2>9. Len(disk') <= n
    <3>1. Given \in Nat  BY DEF OrderedBy, Window
    <3> QED BY <2>1, <2>3, <2>5
  <2>10. OnDisk(w, n, c)'
    <3>1. stopped' = stopped /\ ~stopped
      BY <1>1 DEF WriteBuffer, OrderedBy, OnDisk
    <3> QED BY <2>4, <2>6, <2>7, <2>8, <2>9, <3>1 DEF OrderedBy, OnDisk
  <2>11. \A b \in Bank : Full(b)' <=> Full(b)  BY <1>2 DEF Full, ReaderOwns, Filling
  <2>12. Window(w, n, c)'  BY <1>2, <2>6, <2>11, KeepWindow DEF OrderedBy
  <2>13. Numbered(n, c)' /\ Reading(n, c)'
    BY <1>2 DEF OrderedBy, Numbered, Reading, Expected, InBank
  <2> QED BY <2>10, <2>12, <2>13 DEF OrderedBy
<1> QED BY <1>3, <1>4 DEF WriteBuffer, DiskGoto

\* A bank that is given back leaves the window at its lower end.
LEMMA GiveOrdered ==
  ASSUME TypeOK, OneToken, NEW w, NEW n \in Nat, NEW c, OrderedBy(w, n, c), SetWdiskDone
  PROVE  OrderedBy(w, n, c)'
<1> USE DEF DiskUnchanged, semaphores, readVars, writeVars
<1> DEFINE b0 == writedisk.bankno
<1>1. /\ writedisk \in DiskType /\ b0 \in Bank /\ writedisk.pc = "release"
      /\ semWriteDisk \in [Bank -> Nat] /\ Taken.eof \in EofMark
  BY DEF TypeOK, DiskType, SetWdiskDone, DiskAt, Taken, BufferType
<1>2. /\ semWriteDisk' = [semWriteDisk EXCEPT ![b0] = @ + 1]
      /\ writedisk' = [writedisk EXCEPT !.pc = AfterBank(Taken.eof), !.bankno = NextBank(@)]
      /\ UNCHANGED <<dataBuffer, readnet, disk, stopped>>
  BY DEF SetWdiskDone
<1>3. AfterBank(Taken.eof) \in {"choose", "entry", "report"}
  BY <1>1 DEF AfterBank, EofMark
<1>4. /\ writedisk'.pc = AfterBank(Taken.eof) /\ writedisk'.bankno = NextBank(b0)
      /\ writedisk'.fileno = writedisk.fileno
  BY <1>1, <1>2 DEF DiskType
<1>5. Given \in Nat /\ n <= Given + NO_BANK /\ b0 = BankOf(Given) /\ writedisk.fileno = c[Given].fileno
  BY <1>1 DEF OrderedBy, Window, OnDisk
<1>6. Given < n /\ Holds(w, b0, c[Given])
  <2>1. DiskOwns(b0)  BY <1>1 DEF DiskOwns, Writing
  <2> QED BY <1>1, <2>1, WhoIsFull, InHand
<1>7. Given' = Given + 1 /\ Given + 1 = Len(disk)
  BY <1>1, <1>2, <1>3, <1>4 DEF Given, One, TypeOK
<1>8. ASSUME NEW b \in Bank
      PROVE  Full(b)' <=> Full(b) /\ b # b0
  BY <1>1, <1>2 DEF Full, ReaderOwns, Filling
<1>9. Window(w, n, c)'
  <2>1. ASSUME NEW k \in Given + 1 .. n - 1
        PROVE  Full(BankOf(k))' /\ Holds(w, BankOf(k), c[k])'
    <3>1. k \in Nat /\ BankOf(k) \in Bank /\ k \in Given .. n - 1 /\ k < Given + NO_BANK
      <4> DEFINE g == Given
      <4>1. g \in Nat /\ n \in Nat /\ n <= g + NO_BANK /\ k \in g + 1 .. n - 1 /\ NO_BANK \in Nat
        BY <1>5, BanksOfTheRing
      <4> HIDE DEF g
      <4>2. k \in Nat /\ k \in g .. n - 1 /\ k < g + NO_BANK  BY <4>1
      <4> QED BY <4>2, BankOfType DEF g
    <3>2. BankOf(k) # b0  BY <1>5, <3>1, BankOfOnce
    <3>3. Full(BankOf(k)) /\ Holds(w, BankOf(k), c[k])  BY <3>1 DEF OrderedBy, Window
    <3> QED BY <1>2, <1>8, <3>1, <3>2, <3>3 DEF Holds
  <2>2. ASSUME NEW b \in Bank, Full(b)'
        PROVE  \E k \in Given + 1 .. n - 1 : b = BankOf(k)
    <3>1. Full(b) /\ b # b0  BY <1>8, <2>2
    <3>2. PICK k \in Given .. n - 1 : b = BankOf(k)  BY <3>1 DEF OrderedBy, Window
    <3>3. k # Given  BY <1>5, <3>1, <3>2
    <3> QED BY <1>5, <3>2, <3>3
  <2>3. n <= Given + 1 + NO_BANK  BY <1>5, BanksOfTheRing
  <2> QED BY <1>5, <1>6, <1>7, <2>1, <2>2, <2>3 DEF Window
<1>10. OnDisk(w, n, c)'
  <2>1. writedisk'.bankno = BankOf(Given + 1)  BY <1>4, <1>5, BankOfNext
  <2>2. /\ c[Given] \in Chunks /\ c[Given + 1] = NextChunk(c[Given])
        /\ c[Given].fileno \in Int /\ Taken.eof = MarkOf(c[Given])
    <3>1. c[Given] \in Chunks /\ c[Given + 1] = NextChunk(c[Given])
      <4>1. Given \in 0 .. n - 1  BY <1>5, <1>6
      <4> QED BY <4>1 DEF OrderedBy, Numbered
    <3>2. c[Given].fileno \in Int  BY <3>1, ChunksAreTyped, FileTypes
    <3> QED BY <1>6, <3>1, <3>2 DEF Holds, Taken
  <2>3. ~stopped' /\ \A i \in 1 .. Len(disk') : disk'[i] = disk[i]
    BY <1>1, <1>2 DEF OrderedBy, OnDisk
  <2>4. CASE Taken.eof = "NORMAL"
    <3>1. writedisk'.pc = "choose"  BY <1>4, <2>4 DEF AfterBank
    <3>2. c[Given + 1].fileno = c[Given].fileno  BY <2>2, <2>4 DEF MarkOf, NextChunk, Chunk
    <3> QED BY <1>2, <1>4, <1>5, <1>7, <2>1, <2>3, <3>1, <3>2 DEF OrderedBy, OnDisk
  <2>5. CASE Taken.eof = "EOF"
    <3>1. writedisk'.pc = "entry"  BY <1>4, <2>5 DEF AfterBank
    <3>2. c[Given + 1].fileno = c[Given].fileno + 1  BY <2>2, <2>5 DEF MarkOf, NextChunk, Chunk
    <3> QED BY <1>2, <1>4, <1>5, <1>7, <2>1, <2>3, <3>1, <3>2 DEF OrderedBy, OnDisk
  <2>6. CASE Taken.eof = "FINAL_EOF"
    <3>1. writedisk'.pc = "report"  BY <1>4, <2>6 DEF AfterBank
    <3>2. c[Given] = Chunk(NoFiles - 1, LastSeq[NoFiles - 1])  BY <2>2, <2>6, FinalIsLast
    <3>3. disk # <<>> /\ Len(disk) - 1 = Given  BY <1>5, <1>7 DEF TypeOK
    <3>4. disk' # <<>> /\ c[Len(disk') - 1] = Chunk(NoFiles - 1, LastSeq[NoFiles - 1])
      BY <1>2, <3>2, <3>3
    <3> QED BY <1>2, <1>7, <2>1, <2>3, <3>1, <3>4 DEF OrderedBy, OnDisk
  <2> QED BY <1>1, <2>4, <2>5, <2>6 DEF EofMark
<1>11. Numbered(n, c)' /\ Reading(n, c)'
  BY <1>2 DEF OrderedBy, Numbered, Reading, Expected, InBank
<1> QED BY <1>9, <1>10, <1>11 DEF OrderedBy

-----------------------------------------------------------------------------
\* Every step of the node but a receive; and a receive of the packet that comes next.
Besides(p) == Arrivals \/ ReadBanks \/ Fails(p) \/ Reconnection
              \/ WriteNet \/ ExceptionReciever \/ WriteDisk \/ Stopped

LEMMA BesidesOrdered ==
  ASSUME TypeOK, OneToken, NEW w, Ordered(w), NEW p, Besides(p) \/ UNCHANGED vars
  PROVE  Ordered(w)'
<1> USE DEF semaphores, readVars, writeVars, diskVars
<1>1. PICK n \in Nat : \E c \in [Nat -> ChunkType] : OrderedBy(w, n, c)  BY DEF Ordered
<1>2. PICK c \in [Nat -> ChunkType] : OrderedBy(w, n, c)  BY <1>1
<1>3. OrderedBy(w, n, c)' => Ordered(w)'  BY DEF Ordered
<1>4. CASE ReadBanks \/ Fails(p) \/ Reconnection
  BY <1>2, <1>3, <1>4, ReadQuietly
<1>5. CASE WriteDisk
  BY <1>2, <1>3, <1>5, DiskQuietly, WriteOrdered, GiveOrdered DEF WriteDisk
<1>6. CASE WriteNet \/ ExceptionReciever
  <2>1. UNCHANGED <<dataBuffer, semWriteDisk, disk, stopped, readnet, writedisk>>
    BY <1>6 DEF WriteNet, ExceptionReciever, WriteStart, WaitRnetDone, SendFileno, SendData, SendPacket,
                SetWnetDone, SetBindTwoGo, RecoverReport, RecoverHost, WriteUnchanged
  <2> QED BY <1>2, <1>3, <2>1, Untouched
<1>7. CASE Arrivals \/ UNCHANGED vars
  <2>1. UNCHANGED <<dataBuffer, semWriteDisk, disk, stopped, readnet, writedisk>>
    BY <1>7 DEF Arrivals, ConnectionLost, ReconnectArrives, vars
  <2> QED BY <1>2, <1>3, <2>1, Untouched
<1> QED BY <1>4, <1>5, <1>6, <1>7 DEF Besides, Stopped

LEMMA ReceiveOrdered ==
  ASSUME TypeOK, OneToken, NEW w, Ordered(w), NEW f, NEW d, Receive(f, d),
         readnet.pc = "recv_header" => d.chunk = Expected,
         readnet.pc = "recv_body" /\ w = "whole" => d.body = Expected
  PROVE  Ordered(w)'
<1>1. PICK n \in Nat : \E c \in [Nat -> ChunkType] : OrderedBy(w, n, c)  BY DEF Ordered
<1>2. PICK c \in [Nat -> ChunkType] : OrderedBy(w, n, c)  BY <1>1
<1>3. OrderedBy(w, n, c)' => Ordered(w)'  BY DEF Ordered
<1>4. CASE RecvFileno(f)  BY <1>2, <1>3, <1>4, ReadQuietly
<1>5. CASE RecvHeader(d)
  <2>1. d.chunk = Expected  BY <1>5 DEF RecvHeader, ReadAt
  <2> QED BY <1>2, <1>3, <1>5, <2>1, HeaderOrdered
<1>6. CASE RecvBody(d)
  <2>1. w = "whole" => d.body = Expected  BY <1>6 DEF RecvBody, ReadAt
  <2>2. OrderedBy(w, n + 1, WithNext(n, c))'  BY <1>2, <1>6, <2>1, BodyOrdered
  <2>3. n + 1 \in Nat /\ WithNext(n, c) \in [Nat -> ChunkType]  BY WithNextType
  <2> QED BY <2>2, <2>3 DEF Ordered
<1> QED BY <1>4, <1>5, <1>6 DEF Receive

LEMMA StepOrdered ==
  ASSUME TypeOK, OneToken, NEW w, Ordered(w), [Next]_vars
  PROVE  Ordered(w)'
<1>1. CASE Receive(Asked, Wanted)
  <2>1. Wanted.chunk = Expected /\ Wanted.body = Expected  BY DEF Wanted, ChunkPacket
  <2> QED BY <1>1, <2>1, ReceiveOrdered
<1>2. CASE Besides(Wanted) \/ UNCHANGED vars  BY <1>2, BesidesOrdered
<1>3. ReadNet \/ Upstream => Receive(Asked, Wanted) \/ Besides(Wanted)
  BY DEF ReadNet, Upstream, Besides, Fails, Reconnection, Arrivals, Asked, Wanted
<1> QED BY <1>1, <1>2, <1>3 DEF Next, Besides

LEMMA OrderedIsPrefix ==
  ASSUME TypeOK, Ordered("whole")
  PROVE  DiskIsPrefix
<1>1. PICK n \in Nat : \E c \in [Nat -> ChunkType] : OrderedBy("whole", n, c)  BY DEF Ordered
<1>2. PICK c \in [Nat -> ChunkType] : OrderedBy("whole", n, c)  BY <1>1
<1>3. DOMAIN disk = 1 .. Len(disk) /\ Len(disk) \in Nat /\ Len(disk) <= n
  BY <1>2 DEF TypeOK, OrderedBy, OnDisk
<1> SUFFICES ASSUME NEW i \in 1 .. Len(disk)
             PROVE  /\ disk[i].body \in Chunks /\ disk[i].file = disk[i].body.fileno
                    /\ disk[i].body = IF i = 1 THEN Chunk(0, 0) ELSE NextChunk(disk[i - 1].body)
  BY <1>3 DEF DiskIsPrefix
<1>4. disk[i].body = c[i - 1] /\ disk[i].file = c[i - 1].fileno  BY <1>2 DEF OrderedBy, OnDisk
<1>5. c[i - 1] \in Chunks
  <2>1. i - 1 \in 0 .. n - 1  BY <1>3
  <2> QED BY <1>2, <2>1 DEF OrderedBy, Numbered
<1>6. CASE i = 1
  <2>1. c[0] = Chunk(0, 0)  BY <1>2 DEF OrderedBy, Numbered
  <2> QED BY <1>4, <1>5, <1>6, <2>1
<1>7. CASE i # 1
  <2>1. i - 1 \in 1 .. Len(disk) /\ i - 2 \in 0 .. n - 1 /\ (i - 1) - 1 = i - 2 /\ (i - 2) + 1 = i - 1
    BY <1>3, <1>7
  <2>2. disk[i - 1].body = c[i - 2]  BY <1>2, <2>1 DEF OrderedBy, OnDisk
  <2>3. c[i - 1] = NextChunk(c[i - 2])  BY <1>2, <2>1 DEF OrderedBy, Numbered
  <2> QED BY <1>4, <1>5, <1>7, <2>2, <2>3
<1> QED BY <1>6, <1>7

\* What writedisk() has written is at every moment a prefix of the stream: every chunk
\* whole, none left out, none twice, and each in its file - for every number of banks
\* and files, in both roles, and through lost connections, reconnections in the middle
\* of a chunk, recoveries and the change of role (ClntThread.cpp:106-193, 640-712).
THEOREM DiskStaysPrefix == Spec => []DiskIsPrefix
<1>1. Init => TypeOK /\ OneToken /\ Ordered("whole")  BY InitType, InitToken, InitOrdered
<1>2. (TypeOK /\ OneToken /\ Ordered("whole")) /\ [Next]_vars => (TypeOK /\ OneToken /\ Ordered("whole"))'
  BY StepType, StepToken, StepOrdered
<1>3. TypeOK /\ OneToken /\ Ordered("whole") => DiskIsPrefix  BY OrderedIsPrefix
<1> QED BY <1>1, <1>2, <1>3, PTL DEF Spec

LEMMA OrderedIsFinished ==
  ASSUME TypeOK, Ordered("whole")
  PROVE  DoneMeansCopied
<1>1. PICK n \in Nat : \E c \in [Nat -> ChunkType] : OrderedBy("whole", n, c)  BY DEF Ordered
<1>2. PICK c \in [Nat -> ChunkType] : OrderedBy("whole", n, c)  BY <1>1
<1>3. writedisk.pc = "done" \/ stopped => EndsWithLast
  <2>1. ASSUME disk # <<>> PROVE Len(disk) \in 1 .. Len(disk)  BY <2>1 DEF TypeOK
  <2> QED BY <1>2, <2>1 DEF OrderedBy, OnDisk, EndsWithLast
<1>4. DiskIsPrefix  BY OrderedIsPrefix
<1> QED BY <1>3, <1>4 DEF DoneMeansCopied

\* A node never says that it has finished before it has: when main() comes back from
\* data_transfer(), and when the last node sends TYPE_STOP, its disk holds the stream
\* up to the last chunk of the last file (ClntThread.cpp:640-712, 731-759).
THEOREM FinishedIsCopied == Spec => []DoneMeansCopied
<1>1. Init => TypeOK /\ OneToken /\ Ordered("whole")  BY InitType, InitToken, InitOrdered
<1>2. (TypeOK /\ OneToken /\ Ordered("whole")) /\ [Next]_vars => (TypeOK /\ OneToken /\ Ordered("whole"))'
  BY StepType, StepToken, StepOrdered
<1>3. TypeOK /\ OneToken /\ Ordered("whole") => DoneMeansCopied  BY OrderedIsFinished
<1> QED BY <1>1, <1>2, <1>3, PTL DEF Spec

-----------------------------------------------------------------------------
(***************************************************************************)
(* Forwarding.  A node that starts in the middle of the ring and whose     *)
(* next host is never lost stays there.  Of the n chunks received, m have  *)
(* been given on by writenet(), and it works on the one of number m.       *)
(***************************************************************************)
Middle ==
  /\ ~isNextServer /\ dataout.open
  /\ writenet.pc \notin {"rec_report", "rec_host"}
  /\ writedisk.pc # "wait_rnet"

\* What is posted to writenet() comes at or after m, what is posted to writedisk()
\* before it; so the disk is never ahead of the connection.
Passing(n, c, m) ==
  /\ Given \in Nat /\ Len(disk) <= m /\ m <= n
  /\ writenet.pc \in {"start", "wait_rnet", "send_fileno", "send_data", "release"} =>
       writenet.bankno = BankOf(m)
  /\ writenet.pc = "bind" => NextBank(writenet.bankno) = BankOf(m)
  /\ \A b \in Bank : semReadNet[b] > 0 \/ WriterOwns(b) => \E k \in m .. n - 1 : b = BankOf(k)
  /\ \A b \in Bank : semWriteNet[b] > 0 \/ DiskOwns(b) => \E k \in Given .. m - 1 : b = BankOf(k)

\* The connection ends with chunk k - 1, or is still empty.
Newest == dataout.wire[Len(dataout.wire)]
SentUpTo(c, k) ==
  IF k = 0 THEN dataout.wire = <<>>
  ELSE dataout.wire # <<>> /\ Newest = ChunkPacket(c[k - 1])
Sent(c, m) ==
  /\ \A k \in 0 .. m - 1 : \E j \in DOMAIN dataout.wire : dataout.wire[j] = ChunkPacket(c[k])
  /\ writenet.pc = "send_fileno" => c[m].seqno = 0
  /\ IF writenet.pc = "release" THEN SentUpTo(c, m + 1)
     ELSE IF writenet.pc = "send_data" /\ c[m].seqno = 0
     THEN dataout.wire # <<>> /\ Newest = FilenoPacket(c[m].fileno)
     ELSE SentUpTo(c, m)

ForwardedBy(n, c, m) == OrderedBy("whole", n, c) /\ Passing(n, c, m) /\ Sent(c, m)
Forwarded ==
  \E n \in Nat : \E c \in [Nat -> ChunkType] : \E m \in Nat : ForwardedBy(n, c, m)

NextHostStays == "lost" \notin Faults /\ "last" \notin Roles

LEMMA MiddleStays ==
  ASSUME NextHostStays
  PROVE  /\ Init => Middle
         /\ TypeOK /\ Middle /\ [Next]_vars => Middle'
<1> USE DEF semaphores, readVars, writeVars, diskVars, ReadUnchanged, WriteUnchanged,
            DiskUnchanged, ListUnchanged
<1>1. Init => Middle
  <2> SUFFICES ASSUME Init PROVE Middle  OBVIOUS
  <2>1. PICK r \in Roles : isNextServer = (r = "last")  BY DEF Init
  <2>2. ~isNextServer  BY <2>1 DEF NextHostStays
  <2>3. dataout.open /\ writenet.pc = "start" /\ writedisk.pc = "open"  BY DEF Init
  <2> QED BY <2>2, <2>3 DEF Middle
<1>2. ASSUME TypeOK, Middle, [Next]_vars PROVE Middle'
  <2>1. writenet \in WriterType /\ writedisk \in DiskType /\ dataout \in DataoutType
    BY <1>2 DEF TypeOK
  <2>2. CASE ReadNet \/ Arrivals \/ Accepted \/ AcceptFails \/ UNCHANGED vars
    <3>1. UNCHANGED <<isNextServer, dataout, writenet, writedisk>>
      BY <2>2 DEF ReadNet, ReadBanks, Receive, ReadStart, WaitWdiskDone, WaitBindTwo, RecvFileno,
                  RecvHeader, RecvBody, Fails, RefusePacket, TrailerFails, RecvFail, ReconnectFails,
                  AcceptFails,
                  Reconnection, Reconnects, Accepted, Requested, Arrivals, ConnectionLost,
                  ReconnectArrives, vars
    <3> QED BY <1>2, <3>1 DEF Middle
  <2>3. CASE ExceptionReciever
    BY <1>2, <2>3 DEF ExceptionReciever, Middle
  <2>4. CASE WriteDisk
    <3>1. UNCHANGED <<isNextServer, dataout, writenet>>
      BY <2>4 DEF WriteDisk, OpenFile, ChooseWait, WaitChunk, WriteBuffer, SetWdiskDone, NextEntry,
                  EndReport
    <3>2. writedisk'.pc # "wait_rnet"
      <4>1. CASE OpenFile  BY <1>2, <2>1, <4>1 DEF OpenFile, Middle, DiskGoto, DiskType
      <4>2. CASE ChooseWait
        BY <1>2, <2>1, <4>2 DEF ChooseWait, Awaited, Middle, DiskGoto, DiskType
      <4>3. CASE WaitChunk  BY <1>2, <2>1, <4>3 DEF WaitChunk, DiskGoto, DiskType
      <4>4. CASE WriteBuffer  BY <1>2, <2>1, <4>4 DEF WriteBuffer, Middle, DiskGoto, DiskType
      <4>5. CASE SetWdiskDone
        <5>1. Taken.eof \in EofMark  BY <1>2, <2>1 DEF Taken, TypeOK, BufferType, DiskType
        <5>2. AfterBank(Taken.eof) # "wait_rnet"  BY <5>1 DEF AfterBank, EofMark
        <5>3. writedisk' = [writedisk EXCEPT !.pc = AfterBank(Taken.eof), !.bankno = NextBank(@)]
          BY <4>5 DEF SetWdiskDone
        <5> QED BY <2>1, <5>2, <5>3 DEF DiskType
      <4>6. CASE NextEntry
        <5>1. \/ writedisk' = writedisk
              \/ writedisk' = [writedisk EXCEPT !.pc = "open", !.fileno = @ + 1]
          BY <4>6 DEF NextEntry
        <5>2. writedisk'.pc \in {writedisk.pc, "open"}  BY <2>1, <5>1 DEF DiskType
        <5> QED BY <1>2, <5>2 DEF Middle
      <4>7. CASE EndReport  BY <1>2, <2>1, <4>7 DEF EndReport, Middle, DiskGoto, DiskType
      <4> QED BY <2>4, <4>1, <4>2, <4>3, <4>4, <4>5, <4>6, <4>7 DEF WriteDisk
    <3> QED BY <1>2, <3>1, <3>2 DEF Middle
  <2>5. CASE WriteNet
    <3>1. ~RecoverReport /\ ~RecoverHost
      BY <1>2 DEF Middle, RecoverReport, RecoverHost, WriteAt
    <3>2. UNCHANGED <<isNextServer, writedisk>>
      BY <2>5, <3>1 DEF WriteNet, WriteStart, WaitRnetDone, SendFileno, SendData, SendPacket,
                        SetWnetDone, SetBindTwoGo
    <3>3. dataout'.open /\ writenet'.pc \notin {"rec_report", "rec_host"}
      <4>1. CASE WriteStart  BY <1>2, <2>1, <4>1 DEF WriteStart, WriteGoto, Middle, WriterType, DataoutType
      <4>2. CASE WaitRnetDone  BY <1>2, <2>1, <4>2 DEF WaitRnetDone, Middle, WriterType
      <4>3. ASSUME NEW p, NEW pc \in {"send_data", "release"}, SendPacket(p, pc)
            PROVE  dataout'.open /\ writenet'.pc \notin {"rec_report", "rec_host"}
        <5>1. CASE SendSuccess(p, pc)
          BY <1>2, <2>1, <4>3, <5>1 DEF SendSuccess, Put, GoOn, Middle, WriterType, DataoutType
        <5>2. ~SendRetry(pc) /\ ~SendLost(pc) /\ ~SendToDeleted(pc)
          BY <1>2 DEF SendRetry, SendLost, SendToDeleted, Middle, NextHostStays
        <5>3. CASE SendError  BY <1>2, <5>3 DEF SendError, Middle
        <5> QED BY <4>3, <5>1, <5>2, <5>3 DEF SendPacket
      <4>4. CASE SendFileno \/ SendData  BY <4>3, <4>4 DEF SendFileno, SendData
      <4>5. CASE SetWnetDone  BY <1>2, <2>1, <4>5 DEF SetWnetDone, Middle, WriterType
      <4>6. CASE SetBindTwoGo  BY <1>2, <2>1, <4>6 DEF SetBindTwoGo, Middle, WriterType
      <4> QED BY <2>5, <3>1, <4>1, <4>2, <4>4, <4>5, <4>6 DEF WriteNet
    <3> QED BY <1>2, <3>2, <3>3 DEF Middle
  <2> QED BY <1>2, <2>2, <2>3, <2>4, <2>5 DEF Next, Stopped, Upstream, Arrivals
<1> QED BY <1>1, <1>2

\* What a thread that has a bank of the ring has there.
LEMMA PassingHands ==
  ASSUME TypeOK, OneToken, NEW n \in Nat, NEW c, NEW m \in Nat,
         OrderedBy("whole", n, c), Passing(n, c, m)
  PROVE  /\ WriterOwns(BankOf(m)) \/ semReadNet[BankOf(m)] > 0 =>
              m < n /\ Holds("whole", BankOf(m), c[m]) /\ c[m] \in Chunks
         /\ semWriteNet[BankOf(Given)] > 0 \/ DiskOwns(BankOf(Given)) => Given < m
<1>1. /\ Given \in Nat /\ Len(disk) \in Nat /\ Given <= Len(disk) /\ Len(disk) <= m /\ m <= n
      /\ n <= Given + NO_BANK /\ NO_BANK \in Nat /\ n <= m + NO_BANK /\ Given <= m
  <2>1. Len(disk) \in Nat /\ Given \in Nat /\ Given <= Len(disk)
    BY DEF TypeOK, Given, One, Passing
  <2>2. PICK g \in Nat : g = Given  BY <2>1
  <2>3. g <= Len(disk) /\ Len(disk) <= m /\ m <= n /\ n <= g + NO_BANK /\ NO_BANK \in Nat
    BY <2>1, <2>2, BanksOfTheRing DEF Passing, OrderedBy, Window
  <2>4. n <= m + NO_BANK /\ g <= m  BY <2>1, <2>3
  <2> QED BY <2>1, <2>2, <2>3, <2>4
<1>2. BankOf(m) \in Bank /\ BankOf(Given) \in Bank  BY <1>1, BankOfType
<1>3. ASSUME WriterOwns(BankOf(m)) \/ semReadNet[BankOf(m)] > 0
      PROVE  m < n /\ Holds("whole", BankOf(m), c[m]) /\ c[m] \in Chunks
  <2>1. PICK k \in m .. n - 1 : BankOf(m) = BankOf(k)  BY <1>2, <1>3 DEF Passing
  <2>2. k \in Nat /\ m <= k /\ k < m + NO_BANK  BY <1>1, <2>1
  <2>3. k = m  BY <2>1, <2>2, BankOfOnce
  <2>4. m < n  BY <2>1, <2>3
  <2>5. m \in Given .. n - 1 /\ m \in 0 .. n - 1
    <3>1. PICK g \in Nat : g = Given  BY <1>1
    <3>2. g <= m  BY <1>1, <3>1
    <3>3. m \in g .. n - 1 /\ m \in 0 .. n - 1  BY <2>4, <3>2
    <3> QED BY <3>1, <3>3
  <2>6. Holds("whole", BankOf(m), c[m])  BY <2>5 DEF OrderedBy, Window
  <2>7. c[m] \in Chunks  BY <2>5 DEF OrderedBy, Numbered
  <2> QED BY <2>4, <2>6, <2>7
<1>4. ASSUME semWriteNet[BankOf(Given)] > 0 \/ DiskOwns(BankOf(Given))
      PROVE  Given < m
  <2>1. PICK g \in Nat : g = Given  BY <1>1
  <2>2. PICK k \in g .. m - 1 : BankOf(g) = BankOf(k)  BY <1>2, <1>4, <2>1 DEF Passing
  <2>3. g <= m /\ n <= g + NO_BANK /\ NO_BANK \in Nat /\ m <= n  BY <1>1, <2>1
  <2>4. k \in Nat /\ g <= k /\ k < g + NO_BANK  BY <2>2, <2>3
  <2>5. k = g  BY <2>2, <2>4, BankOfOnce
  <2>6. g < m  BY <2>2, <2>5
  <2> QED BY <2>1, <2>6
<1> QED BY <1>3, <1>4

\* The chunk in writenet()'s hand.
LEMMA InWriterHand ==
  ASSUME TypeOK, OneToken, NEW n \in Nat, NEW c, NEW m \in Nat,
         OrderedBy("whole", n, c), Passing(n, c, m),
         \/ writenet.pc \in {"send_fileno", "send_data", "release"}
         \/ writenet.pc = "wait_rnet" /\ semReadNet[writenet.bankno] > 0
  PROVE  /\ writenet.bankno = BankOf(m) /\ m < n /\ c[m] \in Chunks
         /\ HeaderOf(Hand) = c[m] /\ Hand.seqno = c[m].seqno /\ Hand.fileno = c[m].fileno
         /\ DataPacket(Hand) = ChunkPacket(c[m])
<1>1. writenet.bankno = BankOf(m)  BY DEF Passing
<1>2. WriterOwns(BankOf(m)) \/ semReadNet[BankOf(m)] > 0
  BY <1>1 DEF WriterOwns, Holding
<1>3. m < n /\ Holds("whole", BankOf(m), c[m]) /\ c[m] \in Chunks  BY <1>2, PassingHands
<1>4. HeaderOf(Hand) = c[m] /\ Hand.body = c[m]  BY <1>1, <1>3 DEF Holds, Hand
<1>5. Hand.seqno = c[m].seqno /\ Hand.fileno = c[m].fileno
  <2>1. HeaderOf(Hand).seqno = Hand.seqno /\ HeaderOf(Hand).fileno = Hand.fileno
    BY DEF HeaderOf, Chunk
  <2> QED BY <1>4, <2>1
<1> QED BY <1>1, <1>3, <1>4, <1>5 DEF DataPacket, ChunkPacket

\* Steps that change nothing that forwarding depends on.
LEMMA PassingUntouched ==
  ASSUME NEW n \in Nat, NEW c, NEW m \in Nat, Passing(n, c, m), Sent(c, m),
         UNCHANGED <<writenet, writedisk, disk, semReadNet, semWriteNet, dataout.wire>>
  PROVE  Passing(n, c, m)' /\ Sent(c, m)'
<1>1. Given' = Given  BY DEF Given
<1>2. \A b \in Bank : (WriterOwns(b)' <=> WriterOwns(b)) /\ (DiskOwns(b)' <=> DiskOwns(b))
  BY DEF WriterOwns, DiskOwns, Holding, Writing
<1>3. Passing(n, c, m)'  BY <1>1, <1>2 DEF Passing
<1>4. Sent(c, m)'  BY DEF Sent, SentUpTo, Newest
<1> QED BY <1>3, <1>4

\* One more chunk is received and posted to writenet().
LEMMA BodyPassing ==
  ASSUME TypeOK, NEW n \in Nat, NEW c \in [Nat -> ChunkType], NEW m \in Nat,
         OrderedBy("whole", n, c), Passing(n, c, m), Sent(c, m), RecvBody(Wanted)
  PROVE  Passing(n + 1, WithNext(n, c), m)' /\ Sent(WithNext(n, c), m)'
<1> DEFINE d == WithNext(n, c)
<1>1. /\ readnet.bankno = BankOf(n) /\ m <= n /\ Len(disk) <= m /\ Given \in Nat
      /\ Given <= m
  <2>1. Len(disk) \in Nat /\ Given \in Nat /\ Given <= Len(disk)
    BY DEF TypeOK, Given, One, Passing
  <2>2. PICK g \in Nat : g = Given  BY <2>1
  <2>3. g <= m  BY <2>1, <2>2 DEF Passing
  <2> QED BY <2>1, <2>2, <2>3 DEF OrderedBy, Reading, Passing
<1>2. /\ semReadNet' = [semReadNet EXCEPT ![readnet.bankno] = @ + 1]
      /\ UNCHANGED <<writenet, writedisk, disk, semWriteNet, dataout>>
  BY DEF RecvBody, ReadUnchanged, writeVars, diskVars
<1>3. Given' = Given  BY <1>2 DEF Given
<1>4. \A b \in Bank : (WriterOwns(b)' <=> WriterOwns(b)) /\ (DiskOwns(b)' <=> DiskOwns(b))
  BY <1>2 DEF WriterOwns, DiskOwns, Holding, Writing
<1>5. \A k \in Nat : k <= n => d[k] = c[k]  BY WithNextType
<1> HIDE DEF d
<1>6. Passing(n + 1, d, m)'
  <2>1. ASSUME NEW b \in Bank, (semReadNet[b] > 0 \/ WriterOwns(b))'
        PROVE  \E k \in m .. (n + 1) - 1 : b = BankOf(k)
    <3>1. CASE b = BankOf(n)  BY <1>1, <3>1
    <3>2. CASE b # BankOf(n)
      <4>1. semReadNet'[b] = semReadNet[b]  BY <1>1, <1>2, <3>2 DEF TypeOK
      <4>2. PICK k \in m .. n - 1 : b = BankOf(k)  BY <1>4, <2>1, <4>1 DEF Passing
      <4>3. k \in m .. (n + 1) - 1  BY <4>2
      <4> QED BY <4>2, <4>3
    <3> QED BY <3>1, <3>2
  <2>2. m <= n + 1  BY <1>1
  <2> QED BY <1>2, <1>3, <1>4, <2>1, <2>2 DEF Passing
<1>7. Sent(d, m)'
  <2>1. d[m] = c[m] /\ \A k \in 0 .. m - 1 : d[k] = c[k]
    <3>1. \A k \in 0 .. m - 1 : k \in Nat /\ k <= n  BY <1>1
    <3> QED BY <1>1, <1>5, <3>1
  <2>2. m # 0 => m - 1 \in 0 .. m - 1  OBVIOUS
  <2>3. SentUpTo(d, m)' <=> SentUpTo(c, m)  BY <1>2, <2>1, <2>2 DEF SentUpTo, Newest
  <2>4. SentUpTo(d, m + 1)' <=> SentUpTo(c, m + 1)
    <3>1. (m + 1) - 1 = m /\ m + 1 # 0  OBVIOUS
    <3> QED BY <1>2, <2>1, <3>1 DEF SentUpTo, Newest
  <2> QED BY <1>2, <2>1, <2>3, <2>4 DEF Sent, Newest
<1> QED BY <1>6, <1>7 DEF d

\* The stream goes on after a chunk that is followed by another.
LEMMA AfterNext ==
  ASSUME NEW a \in Chunks, NextChunk(a) \in Chunks
  PROVE  /\ ~IsLast(ChunkPacket(a))
         /\ Successor(ChunkPacket(a)) = IF NextChunk(a).seqno = 0
              THEN FilenoPacket(NextChunk(a).fileno) ELSE ChunkPacket(NextChunk(a))
<1>1. /\ a.fileno \in File /\ a.fileno \in Int /\ a.seqno \in Nat /\ NextChunk(a).fileno \in File
  BY ChunksAreTyped, FileTypes
<1>2. ChunkPacket(a).kind = "data" /\ ChunkPacket(a).chunk = a  BY DEF ChunkPacket
<1>3. CASE a.seqno < LastSeq[a.fileno]
  <2>1. NextChunk(a).seqno = a.seqno + 1 /\ NextChunk(a).seqno # 0
    BY <1>1, <1>3 DEF NextChunk, Chunk
  <2>2. ~IsLast(ChunkPacket(a))
    <3>1. SUFFICES ASSUME a = Chunk(NoFiles - 1, LastSeq[NoFiles - 1]) PROVE FALSE
      BY DEF IsLast, ChunkPacket
    <3>2. a.fileno = NoFiles - 1 /\ a.seqno = LastSeq[NoFiles - 1]  BY <3>1 DEF Chunk
    <3>3. LastSeq[a.fileno] \in Nat  BY <1>1, FilesAssumption
    <3> QED BY <1>1, <1>3, <3>2, <3>3
  <2> QED BY <1>2, <1>3, <2>1, <2>2 DEF Successor
<1>4. CASE ~(a.seqno < LastSeq[a.fileno])
  <2>1. NextChunk(a).seqno = 0 /\ NextChunk(a).fileno = a.fileno + 1
    BY <1>4 DEF NextChunk, Chunk
  <2>2. ~IsLast(ChunkPacket(a))
    <3>1. a.fileno # NoFiles - 1  BY <1>1, <2>1, FilesAssumption DEF File
    <3> QED BY <3>1 DEF IsLast, ChunkPacket, Chunk
  <2> QED BY <1>2, <1>4, <2>1, <2>2 DEF Successor
<1> QED BY <1>3, <1>4

\* A packet that continues the stream on the wire.
Continues(p) ==
  \/ dataout.wire = <<>> /\ p = FilenoPacket(0)
  \/ dataout.wire # <<>> /\ ~IsLast(Newest) /\ p = Successor(Newest)

LEMMA NextContinues ==
  ASSUME TypeOK, OneToken, NEW n \in Nat, NEW c, NEW m \in Nat,
         OrderedBy("whole", n, c), Passing(n, c, m), Sent(c, m),
         writenet.pc \in {"send_fileno", "send_data"}
  PROVE  /\ ~EndsTorn
         /\ writenet.pc = "send_fileno" => Continues(FilenoPacket(Hand.fileno))
         /\ writenet.pc = "send_data" => Continues(DataPacket(Hand))
<1>1. /\ m < n /\ c[m] \in Chunks /\ Hand.fileno = c[m].fileno
      /\ DataPacket(Hand) = ChunkPacket(c[m])
  BY InWriterHand
<1>2. /\ c[0] = Chunk(0, 0)
      /\ m # 0 => c[m - 1] \in Chunks /\ c[m] = NextChunk(c[m - 1])
  <2>1. m # 0 => m - 1 \in 0 .. n - 1 /\ (m - 1) + 1 = m  BY <1>1
  <2> QED BY <2>1 DEF OrderedBy, Numbered
<1>3. CASE writenet.pc = "send_data" /\ c[m].seqno = 0
  <2>1. dataout.wire # <<>> /\ Newest = FilenoPacket(c[m].fileno)  BY <1>3 DEF Sent
  <2>2. c[m] = Chunk(c[m].fileno, 0)  BY <1>1, <1>3, ChunkPlace
  <2>3. Successor(Newest) = ChunkPacket(c[m]) /\ ~IsLast(Newest)
    BY <2>1, <2>2 DEF Successor, FilenoPacket, ChunkPacket, IsLast
  <2>4. ~EndsTorn  BY <2>1 DEF EndsTorn, Newest, FilenoPacket, Fragment
  <2> QED BY <1>1, <1>3, <2>1, <2>3, <2>4 DEF Continues
<1>4. CASE ~(writenet.pc = "send_data" /\ c[m].seqno = 0)
  <2>1. SentUpTo(c, m) /\ (writenet.pc = "send_fileno" <=> c[m].seqno = 0)  BY <1>4 DEF Sent
  <2>2. CASE m = 0
    <3>1. dataout.wire = <<>> /\ c[m].fileno = 0 /\ c[m].seqno = 0
      BY <1>2, <2>1, <2>2 DEF SentUpTo, Chunk
    <3> QED BY <1>1, <2>1, <3>1 DEF Continues, EndsTorn
  <2>3. CASE m # 0
    <3>1. dataout.wire # <<>> /\ Newest = ChunkPacket(c[m - 1])  BY <2>1, <2>3 DEF SentUpTo
    <3>2. ~IsLast(Newest)
          /\ Successor(Newest) = IF c[m].seqno = 0 THEN FilenoPacket(c[m].fileno)
                                 ELSE ChunkPacket(c[m])
      BY <1>1, <1>2, <2>3, <3>1, AfterNext
    <3>3. ~EndsTorn  BY <3>1 DEF EndsTorn, Newest, ChunkPacket, Fragment
    <3> QED BY <1>1, <2>1, <3>1, <3>2, <3>3 DEF Continues
  <2> QED BY <2>2, <2>3
<1> QED BY <1>3, <1>4

LEMMA WireGrows ==
  ASSUME TypeOK, NEW p, Put(p), ~EndsTorn
  PROVE  /\ dataout'.wire = Append(dataout.wire, p)
         /\ dataout'.wire # <<>> /\ Newest' = p
         /\ \E j \in DOMAIN dataout'.wire : dataout'.wire[j] = p
         /\ \A i \in DOMAIN dataout.wire :
              i \in DOMAIN dataout'.wire /\ dataout'.wire[i] = dataout.wire[i]
<1>1. dataout.wire \in Seq(Packet) /\ dataout' = [dataout EXCEPT !.wire = Append(@, p)]
  BY DEF TypeOK, DataoutType, Put
<1>2. dataout'.wire = Append(dataout.wire, p)  BY <1>1 DEF TypeOK, DataoutType
<1> DEFINE v == dataout.wire
           w == Append(v, p)
<1>3. /\ Len(v) \in Nat /\ DOMAIN v = 1 .. Len(v)
      /\ Len(w) = Len(v) + 1 /\ DOMAIN w = 1 .. Len(v) + 1
      /\ w[Len(v) + 1] = p /\ \A i \in 1 .. Len(v) : w[i] = v[i]
  BY <1>1
<1>4. w # <<>> /\ w[Len(w)] = p
  <2> HIDE DEF w
  <2>1. Len(<<>>) = 0  OBVIOUS
  <2> QED BY <1>3, <2>1
<1>5. Newest' = w[Len(w)]  BY <1>2 DEF Newest
<1> HIDE DEF v, w
<1>6. \E j \in DOMAIN w : w[j] = p  BY <1>3
<1>7. \A i \in DOMAIN v : i \in DOMAIN w /\ w[i] = v[i]  BY <1>3
<1> QED BY <1>2, <1>4, <1>5, <1>6, <1>7 DEF v, w

\* Steps of writenet().
LEMMA WriterPassing ==
  ASSUME TypeOK, OneToken, Middle, NextHostStays,
         NEW n \in Nat, NEW c, NEW m \in Nat, OrderedBy("whole", n, c), Passing(n, c, m), Sent(c, m),
         WriteStart \/ WaitRnetDone \/ SendFileno \/ SendData \/ SetBindTwoGo
  PROVE  Passing(n, c, m)' /\ Sent(c, m)'
<1> USE DEF WriteUnchanged, ListUnchanged, semaphores, readVars, diskVars
<1>1. /\ writenet \in WriterType /\ writenet.bankno \in Bank /\ dataout \in DataoutType
      /\ semReadNet \in [Bank -> Nat]
  BY DEF TypeOK, WriterType
<1>2. UNCHANGED <<writedisk, disk, semWriteNet>> /\ Given' = Given
      /\ \A b \in Bank : DiskOwns(b)' <=> DiskOwns(b)
  BY DEF WriteStart, WaitRnetDone, SendFileno, SendData, SendPacket, SetBindTwoGo, Given, DiskOwns,
         Writing
<1>3. CASE WriteStart
  <2>1. /\ writenet.pc = "start" /\ writenet'.pc = "wait_rnet"
        /\ writenet'.bankno = writenet.bankno /\ semReadNet' = semReadNet
        /\ dataout'.wire = dataout.wire
    BY <1>1, <1>3 DEF WriteStart, WriteAt, WriteGoto, Middle, WriterType, DataoutType
  <2>2. \A b \in Bank : ~WriterOwns(b)'  BY <2>1 DEF WriterOwns, Holding
  <2>3. Passing(n, c, m)'  BY <1>2, <2>1, <2>2 DEF Passing
  <2>4. Sent(c, m)'  BY <2>1 DEF Sent, SentUpTo, Newest
  <2> QED BY <2>3, <2>4
<1>4. CASE WaitRnetDone
  <2>1. /\ writenet.pc = "wait_rnet" /\ semReadNet[writenet.bankno] > 0
        /\ writenet'.pc = IF Hand.seqno = 0 THEN "send_fileno" ELSE "send_data"
        /\ writenet'.bankno = writenet.bankno
        /\ semReadNet' = [semReadNet EXCEPT ![writenet.bankno] = @ - 1]
        /\ dataout' = dataout
    BY <1>1, <1>4 DEF WaitRnetDone, WriteAt, FirstOfFile, WriterType
  <2>2. writenet.bankno = BankOf(m) /\ m < n /\ Hand.seqno = c[m].seqno
    BY <2>1, InWriterHand
  <2>3. Passing(n, c, m)'
    <3>1. ASSUME NEW b \in Bank, (semReadNet[b] > 0 \/ WriterOwns(b))'
          PROVE  \E k \in m .. n - 1 : b = BankOf(k)
      <4>1. CASE b = BankOf(m)
        <5>1. m \in m .. n - 1  BY <2>2
        <5> QED BY <4>1, <5>1
      <4>2. CASE b # BankOf(m)
        <5>1. semReadNet'[b] = semReadNet[b] /\ ~WriterOwns(b)'
          BY <1>1, <2>1, <2>2, <4>2 DEF WriterOwns
        <5> QED BY <3>1, <5>1 DEF Passing
      <4> QED BY <4>1, <4>2
    <3>2. writenet'.pc # "bind" /\ writenet'.bankno = BankOf(m)  BY <2>1, <2>2
    <3> QED BY <1>2, <3>1, <3>2 DEF Passing
  <2>4. Sent(c, m)'
    <3>1. SentUpTo(c, m) /\ SentUpTo(c, m)'  BY <2>1 DEF Sent, SentUpTo, Newest
    <3> QED BY <2>1, <2>2, <3>1 DEF Sent
  <2> QED BY <2>3, <2>4
<1>5. ASSUME NEW p, NEW pc \in {"send_data", "release"}, SendPacket(p, pc),
             writenet.pc \in {"send_fileno", "send_data"}
      PROVE  \/ UNCHANGED <<writenet, dataout, semReadNet>>
             \/ /\ Put(p) /\ semReadNet' = semReadNet
                /\ writenet'.pc = pc /\ writenet'.bankno = writenet.bankno
  <2>1. semReadNet' = semReadNet  BY <1>5 DEF SendPacket
  <2>2. ~SendRetry(pc) /\ ~SendLost(pc) /\ ~SendToDeleted(pc)
    BY DEF SendRetry, SendLost, SendToDeleted, Middle, NextHostStays
  <2>3. CASE SendError  BY <2>1, <2>3 DEF SendError
  <2>4. CASE SendSuccess(p, pc)  BY <1>1, <2>1, <2>4 DEF SendSuccess, GoOn, WriterType
  <2> QED BY <1>5, <2>2, <2>3, <2>4 DEF SendPacket
<1>6. ASSUME NEW p, NEW pc \in {"send_data", "release"}, SendPacket(p, pc),
             writenet.pc \in {"send_fileno", "send_data"}
      PROVE  Passing(n, c, m)'
  <2>1. CASE UNCHANGED <<writenet, dataout, semReadNet>>
    <3>1. \A b \in Bank : WriterOwns(b)' <=> WriterOwns(b)  BY <2>1 DEF WriterOwns, Holding
    <3> QED BY <1>2, <2>1, <3>1 DEF Passing
  <2>2. CASE /\ semReadNet' = semReadNet
             /\ writenet'.pc = pc /\ writenet'.bankno = writenet.bankno
    <3>1. \A b \in Bank : WriterOwns(b)' <=> WriterOwns(b)
      BY <1>6, <2>2 DEF WriterOwns, Holding
    <3>2. writenet'.pc # "bind" /\ writenet'.bankno = BankOf(m)  BY <1>6, <2>2 DEF Passing
    <3> QED BY <1>2, <2>2, <3>1, <3>2 DEF Passing
  <2> QED BY <1>5, <1>6, <2>1, <2>2
<1>7. CASE SendFileno
  <2>1. writenet.pc = "send_fileno" /\ SendPacket(FilenoPacket(Hand.fileno), "send_data")
    BY <1>7 DEF SendFileno, WriteAt
  <2>2. c[m].seqno = 0 /\ ~EndsTorn /\ Hand.fileno = c[m].fileno
    BY <2>1, NextContinues, InWriterHand DEF Sent
  <2>3. Sent(c, m)'
    <3>1. CASE UNCHANGED <<writenet, dataout>>  BY <3>1 DEF Sent, SentUpTo, Newest
    <3>2. CASE Put(FilenoPacket(Hand.fileno)) /\ writenet'.pc = "send_data"
      <4>1. /\ dataout'.wire # <<>> /\ Newest' = FilenoPacket(c[m].fileno)
            /\ \A i \in DOMAIN dataout.wire :
                 i \in DOMAIN dataout'.wire /\ dataout'.wire[i] = dataout.wire[i]
        BY <2>2, <3>2, WireGrows
      <4>2. \A k \in 0 .. m - 1 : \E j \in DOMAIN dataout'.wire : dataout'.wire[j] = ChunkPacket(c[k])
        BY <4>1 DEF Sent
      <4> QED BY <2>2, <3>2, <4>1, <4>2 DEF Sent
    <3> QED BY <1>5, <2>1, <3>1, <3>2
  <2> QED BY <1>6, <2>1, <2>3
<1>8. CASE SendData
  <2>1. writenet.pc = "send_data" /\ SendPacket(DataPacket(Hand), "release")
    BY <1>8 DEF SendData, WriteAt
  <2>2. ~EndsTorn /\ DataPacket(Hand) = ChunkPacket(c[m])
    BY <2>1, NextContinues, InWriterHand
  <2>3. Sent(c, m)'
    <3>1. CASE UNCHANGED <<writenet, dataout>>  BY <3>1 DEF Sent, SentUpTo, Newest
    <3>2. CASE Put(DataPacket(Hand)) /\ writenet'.pc = "release"
      <4>1. /\ dataout'.wire # <<>> /\ Newest' = ChunkPacket(c[m])
            /\ \A i \in DOMAIN dataout.wire :
                 i \in DOMAIN dataout'.wire /\ dataout'.wire[i] = dataout.wire[i]
        BY <2>2, <3>2, WireGrows
      <4>2. \A k \in 0 .. m - 1 : \E j \in DOMAIN dataout'.wire : dataout'.wire[j] = ChunkPacket(c[k])
        BY <4>1 DEF Sent
      <4>3. (m + 1) - 1 = m /\ m + 1 # 0  OBVIOUS
      <4>4. SentUpTo(c, m + 1)'  BY <4>1, <4>3 DEF SentUpTo
      <4> QED BY <3>2, <4>2, <4>4 DEF Sent
    <3> QED BY <1>5, <2>1, <3>1, <3>2
  <2> QED BY <1>6, <2>1, <2>3
<1>9. CASE SetBindTwoGo
  <2>1. /\ writenet.pc = "bind" /\ UNCHANGED <<semReadNet, dataout>>
        /\ \/ writenet'.pc = "done"
           \/ writenet'.pc = "wait_rnet" /\ writenet'.bankno = NextBank(writenet.bankno)
    BY <1>1, <1>9 DEF SetBindTwoGo, WriteAt, WriterType
  <2>2. \A b \in Bank : ~WriterOwns(b)'  BY <2>1 DEF WriterOwns, Holding
  <2>3. Passing(n, c, m)'
    <3>1. NextBank(writenet.bankno) = BankOf(m)  BY <2>1 DEF Passing
    <3> QED BY <1>2, <2>1, <2>2, <3>1 DEF Passing
  <2>4. Sent(c, m)'  BY <2>1 DEF Sent, SentUpTo, Newest
  <2> QED BY <2>3, <2>4
<1> QED BY <1>3, <1>4, <1>7, <1>8, <1>9

\* The bank is given on to writedisk(): one more chunk is forwarded.
LEMMA GivePassing ==
  ASSUME TypeOK, OneToken, NEW n \in Nat, NEW c, NEW m \in Nat,
         OrderedBy("whole", n, c), Passing(n, c, m), Sent(c, m), SetWnetDone
  PROVE  Passing(n, c, m + 1)' /\ Sent(c, m + 1)'
<1> USE DEF WriteUnchanged, ListUnchanged, semaphores, readVars, diskVars
<1>1. /\ writenet \in WriterType /\ writenet.bankno \in Bank /\ writenet.pc = "release"
      /\ semWriteNet \in [Bank -> Nat] /\ semReadNet \in [Bank -> Nat] /\ Len(disk) \in Nat
  BY DEF TypeOK, WriterType, SetWnetDone, WriteAt
<1>2. /\ semWriteNet' = [semWriteNet EXCEPT ![writenet.bankno] = @ + 1]
      /\ writenet'.pc = "bind" /\ writenet'.bankno = writenet.bankno
      /\ UNCHANGED <<writedisk, disk, semReadNet, semWriteDisk, dataout, readnet>> /\ Given' = Given
      /\ \A b \in Bank : (DiskOwns(b)' <=> DiskOwns(b)) /\ ~WriterOwns(b)'
  BY <1>1 DEF SetWnetDone, WriterType, Given, DiskOwns, Writing, WriterOwns, Holding
<1>3. writenet.bankno = BankOf(m) /\ m < n  BY <1>1, InWriterHand
<1>4. Given \in Nat /\ Given <= Len(disk) /\ Len(disk) <= m
  BY <1>1 DEF Passing, Given, One
<1>5. semReadNet[BankOf(m)] = 0
  <2>1. WriterOwns(BankOf(m)) /\ BankOf(m) \in Bank  BY <1>1, <1>3 DEF WriterOwns, Holding
  <2>2. semWriteDisk[BankOf(m)] \in Nat /\ semReadNet[BankOf(m)] \in Nat /\ semWriteNet[BankOf(m)] \in Nat
    BY <2>1 DEF TypeOK
  <2>3. semWriteDisk[BankOf(m)] + semReadNet[BankOf(m)] + semWriteNet[BankOf(m)]
          + One(ReaderOwns(BankOf(m))) + 1 + One(DiskOwns(BankOf(m))) = 1
    BY <2>1 DEF OneToken, One
  <2> QED BY <2>2, <2>3 DEF One
<1>6. Passing(n, c, m + 1)'
  <2>1. ASSUME NEW b \in Bank, (semReadNet[b] > 0 \/ WriterOwns(b))'
        PROVE  \E k \in m + 1 .. n - 1 : b = BankOf(k)
    <3>1. semReadNet[b] > 0  BY <1>2, <2>1
    <3>2. PICK k \in m .. n - 1 : b = BankOf(k)  BY <3>1 DEF Passing
    <3>3. k # m  BY <1>5, <3>1, <3>2
    <3> QED BY <3>2, <3>3
  <2>2. ASSUME NEW b \in Bank, (semWriteNet[b] > 0 \/ DiskOwns(b))'
        PROVE  \E k \in Given .. (m + 1) - 1 : b = BankOf(k)
    <3>1. PICK g \in Nat : g = Given  BY <1>4
    <3>2. g <= m  BY <1>1, <1>4, <3>1
    <3>3. CASE b = BankOf(m)
      <4>1. m \in g .. (m + 1) - 1  BY <3>2
      <4> QED BY <3>1, <3>3, <4>1
    <3>4. CASE b # BankOf(m)
      <4>1. semWriteNet'[b] = semWriteNet[b]  BY <1>1, <1>2, <1>3, <3>4
      <4>2. PICK k \in g .. m - 1 : b = BankOf(k)  BY <1>2, <2>2, <3>1, <4>1 DEF Passing
      <4>3. k \in g .. (m + 1) - 1  BY <4>2
      <4> QED BY <3>1, <4>2, <4>3
    <3> QED BY <3>3, <3>4
  <2>3. NextBank(writenet'.bankno) = BankOf(m + 1)  BY <1>2, <1>3, BankOfNext
  <2>4. m + 1 \in Nat /\ m + 1 <= n /\ Len(disk) <= m + 1  BY <1>1, <1>3, <1>4
  <2> QED BY <1>2, <1>4, <2>1, <2>2, <2>3, <2>4 DEF Passing
<1>7. Sent(c, m + 1)'
  <2>1. SentUpTo(c, m + 1)  BY <1>1 DEF Sent
  <2>2. dataout.wire # <<>> /\ Newest = ChunkPacket(c[m])
    <3>1. (m + 1) - 1 = m /\ m + 1 # 0  OBVIOUS
    <3> QED BY <2>1, <3>1 DEF SentUpTo
  <2>3. Len(dataout.wire) \in DOMAIN dataout.wire
    <3>1. dataout.wire \in Seq(Packet)  BY DEF TypeOK, DataoutType
    <3> QED BY <2>2, <3>1
  <2>4. ASSUME NEW k \in 0 .. (m + 1) - 1
        PROVE  \E j \in DOMAIN dataout.wire : dataout.wire[j] = ChunkPacket(c[k])
    <3>1. CASE k = m  BY <2>2, <2>3, <3>1 DEF Newest
    <3>2. CASE k # m
      <4>1. k \in 0 .. m - 1  BY <3>2
      <4> QED BY <4>1 DEF Sent
    <3> QED BY <3>1, <3>2
  <2> QED BY <1>2, <2>1, <2>4 DEF Sent, SentUpTo, Newest
<1> QED BY <1>6, <1>7

\* Steps of writedisk().
LEMMA DiskPassing ==
  ASSUME TypeOK, OneToken, Middle, NEW n \in Nat, NEW c, NEW m \in Nat,
         OrderedBy("whole", n, c), Passing(n, c, m), Sent(c, m), WriteDisk
  PROVE  Passing(n, c, m)' /\ Sent(c, m)'
<1> USE DEF DiskUnchanged, semaphores, readVars, writeVars
<1>1. /\ writedisk \in DiskType /\ writedisk.bankno \in Bank /\ Len(disk) \in Nat
      /\ semWriteNet \in [Bank -> Nat] /\ Given \in Nat
  BY DEF TypeOK, DiskType, Passing
<1>2. UNCHANGED <<writenet, dataout>> /\ \A b \in Bank : WriterOwns(b)' <=> WriterOwns(b)
  BY DEF WriteDisk, OpenFile, ChooseWait, WaitChunk, WriteBuffer, SetWdiskDone, NextEntry,
         EndReport, WriterOwns, Holding
<1>3. Sent(c, m)'  BY <1>2 DEF Sent, SentUpTo, Newest
<1>4. writedisk.bankno = BankOf(Given)  BY DEF OrderedBy, OnDisk
<1>5. CASE OpenFile \/ ChooseWait \/ NextEntry \/ EndReport
  <2>1. UNCHANGED <<disk, semReadNet, semWriteNet>> /\ writedisk.pc \notin {"write", "release"}
    BY <1>5 DEF OpenFile, ChooseWait, NextEntry, EndReport, DiskAt
  <2>2. writedisk'.pc \notin {"write", "release"}
    <3>1. CASE OpenFile  BY <1>1, <2>1, <3>1 DEF OpenFile, DiskGoto, DiskType
    <3>2. CASE ChooseWait  BY <1>1, <3>2 DEF ChooseWait, Awaited, DiskGoto, DiskType
    <3>3. CASE NextEntry
      <4>1. \/ writedisk' = writedisk
            \/ writedisk' = [writedisk EXCEPT !.pc = "open", !.fileno = @ + 1]
        BY <3>3 DEF NextEntry
      <4> QED BY <1>1, <2>1, <4>1 DEF DiskType
    <3>4. CASE EndReport  BY <1>1, <2>1, <3>4 DEF EndReport, DiskGoto, DiskType
    <3> QED BY <1>5, <3>1, <3>2, <3>3, <3>4
  <2>3. Given' = Given  BY <2>1, <2>2 DEF Given
  <2>4. \A b \in Bank : DiskOwns(b)' <=> DiskOwns(b)  BY <2>1, <2>2 DEF DiskOwns, Writing
  <2>5. Passing(n, c, m)'  BY <1>2, <2>1, <2>3, <2>4 DEF Passing
  <2> QED BY <1>3, <2>5
<1>6. CASE WaitChunk
  <2>1. /\ writedisk.pc = "wait_wnet" /\ semWriteNet[writedisk.bankno] > 0
        /\ semWriteNet' = [semWriteNet EXCEPT ![writedisk.bankno] = @ - 1]
        /\ UNCHANGED <<semReadNet, disk>>
        /\ writedisk'.pc = "write" /\ writedisk'.bankno = writedisk.bankno
    BY <1>1, <1>6 DEF WaitChunk, DiskAt, DiskGoto, DiskType, Middle
  <2>2. Given' = Given  BY <2>1 DEF Given
  <2>3. ASSUME NEW b \in Bank, (semWriteNet[b] > 0 \/ DiskOwns(b))'
        PROVE  semWriteNet[b] > 0
    <3>1. CASE b = writedisk.bankno  BY <2>1, <3>1
    <3>2. CASE b # writedisk.bankno  BY <1>1, <2>1, <2>3, <3>2 DEF DiskOwns
    <3> QED BY <3>1, <3>2
  <2>4. Passing(n, c, m)'  BY <1>2, <2>1, <2>2, <2>3 DEF Passing
  <2> QED BY <1>3, <2>4
<1>7. CASE WriteBuffer
  <2>1. writedisk.pc = "write" /\ UNCHANGED <<semReadNet, semWriteNet>>
    BY <1>7 DEF WriteBuffer, DiskAt
  <2>2. CASE UNCHANGED <<writedisk, disk>>
    BY <1>2, <2>1, <2>2, PassingUntouched
  <2>3. CASE DiskGoto("release") /\ disk' = Append(disk, [file |-> writedisk.fileno, body |-> Taken.body])
    <3>1. writedisk'.pc = "release" /\ writedisk'.bankno = writedisk.bankno
      BY <1>1, <2>3 DEF DiskGoto, DiskType
    <3>2. Len(disk') = Len(disk) + 1  BY <2>3 DEF TypeOK
    <3>3. Given = Len(disk) /\ Given' = Given  BY <1>1, <2>1, <3>1, <3>2 DEF Given, One
    <3>4. \A b \in Bank : DiskOwns(b)' <=> DiskOwns(b)  BY <2>1, <3>1 DEF DiskOwns, Writing
    <3>5. Given < m
      <4>1. DiskOwns(BankOf(Given))  BY <1>4, <2>1 DEF DiskOwns, Writing
      <4> QED BY <4>1, PassingHands
    <3>6. Len(disk') <= m  BY <1>1, <3>2, <3>3, <3>5
    <3>7. Passing(n, c, m)'  BY <1>2, <2>1, <3>3, <3>4, <3>6 DEF Passing
    <3> QED BY <1>3, <3>7
  <2> QED BY <1>7, <2>2, <2>3 DEF WriteBuffer
<1>8. CASE SetWdiskDone
  <2>1. /\ writedisk.pc = "release" /\ UNCHANGED <<disk, semReadNet, semWriteNet>>
        /\ writedisk' = [writedisk EXCEPT !.pc = AfterBank(Taken.eof), !.bankno = NextBank(@)]
    BY <1>8 DEF SetWdiskDone, DiskAt
  <2>2. writedisk'.pc \in {"choose", "entry", "report"}
    <3>1. Taken.eof \in EofMark  BY <1>1 DEF Taken, TypeOK, BufferType
    <3> QED BY <1>1, <2>1, <3>1 DEF AfterBank, EofMark, DiskType
  <2>3. Given' = Given + 1  BY <1>1, <2>1, <2>2 DEF Given, One
  <2>4. \A b \in Bank : ~DiskOwns(b)'  BY <2>2 DEF DiskOwns, Writing
  <2>5. semWriteNet[BankOf(Given)] = 0
    <3>1. DiskOwns(BankOf(Given)) /\ BankOf(Given) \in Bank
      BY <1>1, <1>4, <2>1 DEF DiskOwns, Writing
    <3> DEFINE b == BankOf(Given)
    <3>2. semWriteDisk[b] \in Nat /\ semReadNet[b] \in Nat /\ semWriteNet[b] \in Nat
      BY <3>1 DEF TypeOK
    <3>3. semWriteDisk[b] + semReadNet[b] + semWriteNet[b]
            + One(ReaderOwns(b)) + One(WriterOwns(b)) + 1 = 1
      BY <3>1 DEF OneToken, One
    <3> QED BY <3>2, <3>3 DEF One
  <2>6. ASSUME NEW b \in Bank, (semWriteNet[b] > 0 \/ DiskOwns(b))'
        PROVE  \E k \in Given + 1 .. m - 1 : b = BankOf(k)
    <3>1. semWriteNet[b] > 0  BY <2>1, <2>4, <2>6
    <3>2. PICK k \in Given .. m - 1 : b = BankOf(k)  BY <3>1 DEF Passing
    <3>3. k # Given  BY <2>5, <3>1, <3>2
    <3> QED BY <1>1, <3>2, <3>3
  <2>7. Passing(n, c, m)'
    <3>1. Given + 1 \in Nat  BY <1>1
    <3> QED BY <1>2, <2>1, <2>3, <2>6, <3>1 DEF Passing
  <2> QED BY <1>3, <2>7
<1> QED BY <1>5, <1>6, <1>7, <1>8 DEF WriteDisk

LEMMA InitForwarded == Init => Forwarded
<1> SUFFICES ASSUME Init PROVE Forwarded  OBVIOUS
<1>1. PICK n \in Nat : \E c \in [Nat -> ChunkType] : n = 0 /\ OrderedBy("whole", n, c)
  BY InitOrderedBy
<1>2. PICK c \in [Nat -> ChunkType] : n = 0 /\ OrderedBy("whole", n, c)  BY <1>1
<1>3. BankOf(0) = 0  BY BanksOfTheRing DEF BankOf
<1>4. disk = <<>> /\ writenet.pc = "start" /\ writenet.bankno = 0 /\ writedisk.pc = "open"
      /\ dataout.wire = <<>>
  BY DEF Init
<1>5. Given = 0  BY <1>4 DEF Given, One
<1>6. \A b \in Bank : semReadNet[b] = 0 /\ semWriteNet[b] = 0 /\ ~WriterOwns(b) /\ ~DiskOwns(b)
  BY DEF Init, WriterOwns, DiskOwns, Holding, Writing
<1>7. Passing(0, c, 0)  BY <1>3, <1>4, <1>5, <1>6 DEF Passing
<1>8. Sent(c, 0)  BY <1>4 DEF Sent, SentUpTo
<1>9. ForwardedBy(0, c, 0)  BY <1>2, <1>7, <1>8 DEF ForwardedBy
<1> QED BY <1>2, <1>9 DEF Forwarded

LEMMA StepForwarded ==
  ASSUME NextHostStays
  PROVE  TypeOK /\ OneToken /\ Middle /\ Forwarded /\ [Next]_vars => Forwarded'
<1> SUFFICES ASSUME TypeOK, OneToken, Middle, Forwarded, [Next]_vars PROVE Forwarded'
  OBVIOUS
<1> USE DEF semaphores, readVars, writeVars, diskVars
<1>1. PICK n \in Nat : \E c \in [Nat -> ChunkType] : \E m \in Nat : ForwardedBy(n, c, m)
  BY DEF Forwarded
<1>2. PICK c \in [Nat -> ChunkType] : \E m \in Nat : ForwardedBy(n, c, m)  BY <1>1
<1>3. PICK m \in Nat : ForwardedBy(n, c, m)  BY <1>2
<1>4. OrderedBy("whole", n, c) /\ Passing(n, c, m) /\ Sent(c, m)  BY <1>3 DEF ForwardedBy
<1>5. ASSUME NEW k \in Nat, OrderedBy("whole", n, c)', Passing(n, c, k)', Sent(c, k)'
      PROVE  Forwarded'
  BY <1>5 DEF Forwarded, ForwardedBy
<1>6. CASE RecvBody(Wanted)
  <2>1. WithNext(n, c) \in [Nat -> ChunkType] /\ n + 1 \in Nat  BY WithNextType
  <2>2. OrderedBy("whole", n + 1, WithNext(n, c))'
    BY <1>4, <1>6, BodyOrdered DEF Wanted, ChunkPacket
  <2>3. Passing(n + 1, WithNext(n, c), m)' /\ Sent(WithNext(n, c), m)'
    BY <1>4, <1>6, BodyPassing
  <2>4. ForwardedBy(n + 1, WithNext(n, c), m)'  BY <2>2, <2>3 DEF ForwardedBy
  <2> QED BY <2>1, <2>4 DEF Forwarded
<1>7. CASE (ReadNet \/ Accepted \/ AcceptFails) /\ ~RecvBody(Wanted)
  <2>1. OrderedBy("whole", n, c)'
    <3>1. Wanted.chunk = Expected  BY DEF Wanted, ChunkPacket
    <3>2. CASE RecvHeader(Wanted)  BY <1>4, <3>1, <3>2, HeaderOrdered
    <3>3. CASE ~RecvHeader(Wanted)
      <4>1. ReadBanks \/ RecvFileno(Asked) \/ Fails(Asked) \/ Reconnection
        BY <1>7, <3>3 DEF ReadNet, Receive, Fails, Reconnection, Asked, Wanted
      <4> QED BY <1>4, <4>1, ReadQuietly
    <3> QED BY <3>2, <3>3
  <2>2. UNCHANGED <<writenet, writedisk, disk, semReadNet, semWriteNet, dataout.wire>>
    BY <1>7 DEF ReadNet, ReadBanks, Receive, ReadStart, WaitWdiskDone, WaitBindTwo, RecvFileno,
                RecvHeader, Fails, RefusePacket, TrailerFails, RecvFail, ReconnectFails, AcceptFails,
                Reconnection,
                Reconnects, Accepted, Requested, ReadUnchanged, Wanted
  <2> QED BY <1>4, <1>5, <2>1, <2>2, PassingUntouched
<1>8. CASE WriteNet
  <2>1. ~RecoverReport /\ ~RecoverHost  BY DEF Middle, RecoverReport, RecoverHost, WriteAt
  <2>2. UNCHANGED <<dataBuffer, semWriteDisk, disk, stopped, readnet, writedisk>>
    BY <1>8, <2>1 DEF WriteNet, WriteStart, WaitRnetDone, SendFileno, SendData, SendPacket,
                      SetWnetDone, SetBindTwoGo, WriteUnchanged
  <2>3. OrderedBy("whole", n, c)'  BY <1>4, <2>2, Untouched
  <2>4. CASE SetWnetDone
    <3>1. Passing(n, c, m + 1)' /\ Sent(c, m + 1)'  BY <1>4, <2>4, GivePassing
    <3> QED BY <1>5, <2>3, <3>1
  <2>5. CASE ~SetWnetDone
    <3>1. Passing(n, c, m)' /\ Sent(c, m)'
      BY <1>4, <1>8, <2>1, <2>5, WriterPassing DEF WriteNet
    <3> QED BY <1>5, <2>3, <3>1
  <2> QED BY <2>4, <2>5
<1>9. CASE WriteDisk
  <2>1. OrderedBy("whole", n, c)'
    BY <1>4, <1>9, DiskQuietly, WriteOrdered, GiveOrdered DEF WriteDisk
  <2>2. Passing(n, c, m)' /\ Sent(c, m)'  BY <1>4, <1>9, DiskPassing
  <2> QED BY <1>5, <2>1, <2>2
<1>10. CASE Arrivals \/ ExceptionReciever \/ UNCHANGED vars
  <2>1. /\ UNCHANGED <<dataBuffer, semWriteDisk, disk, stopped, readnet, writedisk>>
        /\ UNCHANGED <<writenet, semReadNet, semWriteNet, dataout.wire>>
    BY <1>10 DEF Arrivals, ConnectionLost, ReconnectArrives, ExceptionReciever, WriteUnchanged, vars
  <2>2. OrderedBy("whole", n, c)'  BY <1>4, <2>1, Untouched
  <2> QED BY <1>4, <1>5, <2>1, <2>2, PassingUntouched
<1> QED BY <1>6, <1>7, <1>8, <1>9, <1>10 DEF Next, Stopped, Upstream, Arrivals

LEMMA ForwardedAlways ==
  ASSUME NextHostStays
  PROVE  Spec => [](TypeOK /\ OneToken /\ Middle /\ Forwarded)
<1>1. Init => TypeOK /\ OneToken /\ Middle /\ Forwarded
  BY InitType, InitToken, MiddleStays, InitForwarded
<1>2. (TypeOK /\ OneToken /\ Middle /\ Forwarded) /\ [Next]_vars
      => (TypeOK /\ OneToken /\ Middle /\ Forwarded)'
  BY StepType, StepToken, MiddleStays, StepForwarded
<1> QED BY <1>1, <1>2, PTL DEF Spec

\* A node in the middle of the ring whose next host stays has handed every chunk it
\* writes to that host before: writedisk() waits for writenet(), whatever happens on the
\* connection to the host before, and whatever else goes wrong (ClntThread.cpp:420-423,
\* 640-712).
THEOREM ForwardedAlwaysFirst ==
  ASSUME NextHostStays
  PROVE  Spec => []ForwardedFirst
<1>1. ASSUME TypeOK, Forwarded PROVE ForwardedFirst
  <2>1. PICK n \in Nat : \E c \in [Nat -> ChunkType] : \E m \in Nat : ForwardedBy(n, c, m)
    BY <1>1 DEF Forwarded
  <2>2. PICK c \in [Nat -> ChunkType] : \E m \in Nat : ForwardedBy(n, c, m)  BY <2>1
  <2>3. PICK m \in Nat : ForwardedBy(n, c, m)  BY <2>2
  <2>4. DOMAIN disk = 1 .. Len(disk) /\ Len(disk) \in Nat /\ Len(disk) <= m
    BY <1>1, <2>3 DEF TypeOK, ForwardedBy, Passing
  <2> SUFFICES ASSUME NEW i \in 1 .. Len(disk)
               PROVE  \E j \in DOMAIN dataout.wire : dataout.wire[j] = ChunkPacket(disk[i].body)
    BY <2>4 DEF ForwardedFirst
  <2>5. disk[i].body = c[i - 1]  BY <2>3 DEF ForwardedBy, OrderedBy, OnDisk
  <2>6. i - 1 \in 0 .. m - 1  BY <2>4
  <2> QED BY <2>3, <2>5, <2>6 DEF ForwardedBy, Sent
<1>2. TypeOK /\ OneToken /\ Middle /\ Forwarded => ForwardedFirst  BY <1>1
<1> QED BY <1>2, ForwardedAlways, PTL

\* Such a node implements the abstract connection (ChunkStream) step by step: what it
\* hands to the next host is a beginning of the stream of the files, packet for packet,
\* through every reconnection of the host before, wherever the node ends.
THEOREM ForwardStep ==
  ASSUME NextHostStays
  PROVE  Spec => ForwardsTheStream
<1>1. Init => Stream!Init  BY DEF Init, Stream!Init
<1>2. ASSUME TypeOK, OneToken, Middle, Forwarded, [Next]_vars
      PROVE  [Stream!Next]_(dataout.wire)
  <2>1. PICK n \in Nat : \E c \in [Nat -> ChunkType] : \E m \in Nat : ForwardedBy(n, c, m)
    BY <1>2 DEF Forwarded
  <2>2. PICK c \in [Nat -> ChunkType] : \E m \in Nat : ForwardedBy(n, c, m)  BY <2>1
  <2>3. PICK m \in Nat : ForwardedBy(n, c, m)  BY <2>2
  <2>4. ASSUME NEW p, Put(p), ~EndsTorn, Continues(p) PROVE Stream!Next
    <3>1. dataout'.wire = Append(dataout.wire, p)  BY <1>2, <2>4, WireGrows
    <3>2. CASE dataout.wire # <<>>
      BY <2>4, <3>1, <3>2 DEF Continues, Newest, Stream!Next, Stream!Following, IsLast, Successor,
         Stream!IsLast, Stream!Successor, ChunkPacket, Stream!ChunkPacket, Chunk, Stream!Chunk,
         FilenoPacket, Stream!FilenoPacket, NextChunk, Stream!NextChunk
    <3>3. CASE dataout.wire = <<>>
      <4>1. dataout'.wire = <<p>> /\ p = FilenoPacket(0)  BY <2>4, <3>1, <3>3 DEF Continues
      <4> QED BY <3>3, <4>1 DEF Stream!Next, Stream!First, FilenoPacket, Stream!FilenoPacket,
              Chunk, Stream!Chunk
    <3> QED BY <3>2, <3>3
  <2>5. ASSUME NEW p, NEW pc, SendPacket(p, pc)
        PROVE  dataout' = dataout \/ Put(p)
    BY <1>2, <2>5 DEF SendPacket, SendSuccess, SendRetry, SendLost, SendError, SendToDeleted,
       NextHostStays
  <2>6. CASE SendFileno \/ SendData
    <3>1. ~EndsTorn
      BY <1>2, <2>3, <2>6, NextContinues DEF ForwardedBy, SendFileno, SendData, WriteAt
    <3>2. CASE SendFileno
      <4>1. Continues(FilenoPacket(Hand.fileno)) /\ SendPacket(FilenoPacket(Hand.fileno), "send_data")
        BY <1>2, <2>3, <3>2, NextContinues DEF ForwardedBy, SendFileno, WriteAt
      <4> QED BY <2>4, <2>5, <3>1, <4>1
    <3>3. CASE SendData
      <4>1. Continues(DataPacket(Hand)) /\ SendPacket(DataPacket(Hand), "release")
        BY <1>2, <2>3, <3>3, NextContinues DEF ForwardedBy, SendData, WriteAt
      <4> QED BY <2>4, <2>5, <3>1, <4>1
    <3> QED BY <2>6, <3>2, <3>3
  <2>7. CASE ~(SendFileno \/ SendData)
    <3>1. ~RecoverReport /\ ~RecoverHost  BY <1>2 DEF Middle, RecoverReport, RecoverHost, WriteAt
    <3>2. dataout'.wire = dataout.wire
      <4>1. CASE WriteStart  BY <1>2, <4>1 DEF WriteStart, TypeOK, DataoutType
      <4>2. CASE ReadNet \/ Arrivals \/ Accepted \/ AcceptFails \/ UNCHANGED vars
        BY <4>2 DEF ReadNet, ReadBanks, Receive, ReadStart, WaitWdiskDone, WaitBindTwo, RecvFileno,
                    RecvHeader, RecvBody, Fails, RefusePacket, TrailerFails, RecvFail, ReconnectFails,
                    AcceptFails,
                    Reconnection, Reconnects, Accepted, Requested, Arrivals, ConnectionLost,
                    ReconnectArrives, vars, ReadUnchanged, writeVars
      <4>3. CASE WriteDisk \/ ExceptionReciever
        BY <4>3 DEF WriteDisk, OpenFile, ChooseWait, WaitChunk, WriteBuffer, SetWdiskDone, NextEntry,
                    EndReport, DiskUnchanged, ExceptionReciever, writeVars
      <4>4. CASE WaitRnetDone \/ SetWnetDone \/ SetBindTwoGo
        BY <4>4 DEF WaitRnetDone, SetWnetDone, SetBindTwoGo
      <4> QED BY <1>2, <2>7, <3>1, <4>1, <4>2, <4>3, <4>4 DEF Next, WriteNet, Stopped, Upstream, Arrivals
    <3> QED BY <3>2
  <2> QED BY <2>6, <2>7
<1>3. (TypeOK /\ OneToken /\ Middle /\ Forwarded) /\ [Next]_vars => [Stream!Next]_(dataout.wire)
  BY <1>2
<1> QED BY <1>1, <1>3, ForwardedAlways, PTL DEF Spec, ForwardsTheStream
-----------------------------------------------------------------------------
(***************************************************************************)
(* A client and whoever sends to it, for Chain: which packet readnet() is  *)
(* ready for, and what is true of a last node whatever it is sent.         *)
(***************************************************************************)
NextPacket == IF readnet.pc \in {"start", "recv_fileno"} THEN Asked ELSE Wanted
Awaits(p) == readnet.pc # "done" /\ p = NextPacket
\* p was the packet before: the next is its successor, or there is none
AwaitsAfter(p) == IF readnet.pc = "done" THEN IsLast(p) ELSE NextPacket = Successor(p)

\* An ended node takes no step, and only Reconnects serves a request.
LEMMA EndedStays ==
  ASSUME NEW f, NEW d, Ended, Besides(d) \/ Receive(f, d) \/ UNCHANGED vars
  PROVE  UNCHANGED vars
BY DEF Besides, Receive, Arrivals, ConnectionLost, ReconnectArrives, ReadBanks, ReadStart, WaitWdiskDone,
       WaitBindTwo, RecvFileno, RecvHeader, RecvBody, Fails, RefusePacket, TrailerFails, RecvFail,
       ReconnectFails, AcceptFails, Reconnection, Reconnects, Accepted, Requested, Receiving, ReadAt,
       WriteNet, WriteStart, WaitRnetDone, SendFileno, SendData, SetWnetDone, SetBindTwoGo, RecoverReport,
       RecoverHost, WriteAt, ExceptionReciever, Sending, WriteDisk, OpenFile, ChooseWait, WaitChunk,
       WriteBuffer, SetWdiskDone, NextEntry, EndReport, DiskAt, Stopped

LEMMA ReconnectStays ==
  ASSUME NEW f, NEW d,
         ReadBanks \/ WriteNet \/ WriteDisk \/ Fails(d) \/ Receive(f, d) \/ ConnectionLost
  PROVE  reconnect' = reconnect /\ (readnet.pc = "accept" => readnet' = readnet)
BY DEF ReadAt, ConnectionLost, ReadBanks, Receive, ReadStart, WaitWdiskDone, WaitBindTwo, RecvFileno,
       RecvHeader,
       RecvBody, Fails, RefusePacket, TrailerFails, RecvFail, ReconnectFails, AcceptFails, readVars,
       WriteNet,
       WriteStart, WaitRnetDone, SendFileno,
       SendData, SendPacket, SetWnetDone, SetBindTwoGo, RecoverReport, RecoverHost, WriteUnchanged,
       WriteDisk,
       OpenFile, ChooseWait, WaitChunk, WriteBuffer, SetWdiskDone, NextEntry, EndReport, DiskUnchanged

\* The invariants of types and tokens do not depend on what comes.
LEMMA AnyPacketKeeps ==
  ASSUME TypeOK, OneToken, NEW f \in Packet, NEW d \in Packet,
         Besides(d) \/ Receive(f, d) \/ UNCHANGED vars
  PROVE  TypeOK' /\ OneToken'
<1>1. CASE ReadBanks \/ Fails(d) \/ Reconnection \/ Receive(f, d)
  <2>1. Reads(f, d)  BY <1>1 DEF Reads
  <2>2. TypeOK'  BY <2>1, ReadsType
  <2>3. OneToken'  BY <2>1, ReadsToken
  <2> QED BY <2>2, <2>3
<1>2. CASE ~(ReadBanks \/ Fails(d) \/ Reconnection \/ Receive(f, d))
  <2>1. [Next]_vars  BY <1>2 DEF Besides, Next, Stopped, Upstream, Arrivals
  <2> QED BY <2>1, StepType, StepToken
<1> QED BY <1>1, <1>2

LEMMA BesidesAwaits ==
  ASSUME TypeOK, NEW p, Besides(p) \/ RecvHeader(p) \/ UNCHANGED vars
  PROVE  /\ NextPacket' = NextPacket
         /\ readnet'.pc = "done" <=> readnet.pc = "done"
<1>1. readnet \in ReaderType  BY DEF TypeOK
<1>2. /\ readnet'.fileno = readnet.fileno /\ readnet'.seqno = readnet.seqno
      /\ readnet'.pc \in {"start", "recv_fileno"} <=> readnet.pc \in {"start", "recv_fileno"}
      /\ readnet'.pc = "done" <=> readnet.pc = "done"
  <2>1. CASE ReadBanks
    BY <1>1, <2>1 DEF ReadBanks, ReadStart, WaitWdiskDone, WaitBindTwo, ReadAt, ReadGoto, ReaderType
  <2>2. CASE RecvHeader(p)  BY <1>1, <2>2 DEF RecvHeader, ReadAt, ReadGoto, ReaderType
  <2>3. CASE Fails(p)  BY <2>3 DEF Fails, RefusePacket, TrailerFails, RecvFail, ReconnectFails,
                                   AcceptFails, readVars
  <2>4. CASE Reconnection
    BY <1>1, <2>4 DEF Reconnection, Reconnects, Accepted, Requested, Receiving, ReadAt, ReadGoto, ReaderType
  <2>5. CASE WriteNet \/ ExceptionReciever
    BY <2>5 DEF WriteNet, ExceptionReciever, WriteStart, WaitRnetDone, SendFileno, SendData, SendPacket,
                SetWnetDone, SetBindTwoGo, RecoverReport, RecoverHost, WriteUnchanged, readVars
  <2>6. CASE WriteDisk
    BY <2>6 DEF WriteDisk, OpenFile, ChooseWait, WaitChunk, WriteBuffer, SetWdiskDone, NextEntry,
                EndReport, DiskUnchanged, readVars
  <2>7. CASE Arrivals \/ UNCHANGED vars
    BY <2>7 DEF Arrivals, ConnectionLost, ReconnectArrives, vars, readVars
  <2> QED BY <2>1, <2>2, <2>3, <2>4, <2>5, <2>6, <2>7 DEF Besides, Stopped
<1> QED BY <1>2 DEF NextPacket, Asked, Wanted, Expected

\* A packet that comes when it is awaited is followed by its successor.
LEMMA ReceivedNext ==
  ASSUME TypeOK, NEW w, Ordered(w), NEW p, RecvFileno(p) \/ RecvBody(p), Awaits(p)
  PROVE  AwaitsAfter(p)'
<1>1. PICK n \in Nat : \E c \in [Nat -> ChunkType] : OrderedBy(w, n, c)  BY DEF Ordered
<1>2. PICK c \in [Nat -> ChunkType] : OrderedBy(w, n, c)  BY <1>1
<1>3. /\ readnet \in ReaderType /\ readnet.fileno \in File /\ readnet.seqno \in Nat
      /\ readnet.fileno \in Int
  BY FileTypes DEF TypeOK, ReaderType
<1>4. CASE RecvFileno(p)
  <2>1. /\ readnet.pc = "recv_fileno" /\ readnet'.pc = "wait_wdisk" /\ readnet'.seqno = 0
        /\ readnet'.fileno = readnet.fileno
    BY <1>3, <1>4 DEF RecvFileno, ReadAt, ReaderType
  <2>2. p = FilenoPacket(readnet.fileno)  BY <2>1 DEF Awaits, NextPacket, Asked
  <2>3. Successor(p) = ChunkPacket(Chunk(readnet.fileno, 0))
    BY <2>2 DEF Successor, FilenoPacket
  <2> QED BY <2>1, <2>3 DEF AwaitsAfter, NextPacket, Wanted, Expected
<1>5. CASE RecvBody(p)
  <2> DEFINE eof == InBank.eof # "NORMAL"
  <2>1. /\ readnet.pc = "recv_body"
        /\ readnet'.pc = IF ~eof THEN "wait_wdisk"
                         ELSE IF FinalFile THEN "done" ELSE "recv_fileno"
        /\ readnet'.fileno = IF eof /\ ~FinalFile THEN readnet.fileno + 1 ELSE readnet.fileno
        /\ readnet'.seqno = IF eof THEN 0 ELSE readnet.seqno + 1
    BY <1>5 DEF RecvBody, ReadAt, InBank
  <2>2. Expected \in Chunks /\ (eof <=> MarkOf(Expected) # "NORMAL")
    BY <1>2, <2>1 DEF OrderedBy, Reading
  <2>3. /\ Expected.fileno = readnet.fileno /\ Expected.seqno = readnet.seqno
        /\ eof <=> ~(readnet.seqno < LastSeq[readnet.fileno])
    BY <2>2 DEF Expected, Chunk, MarkOf
  <2>4. p = ChunkPacket(Expected) /\ p.kind = "data" /\ p.chunk = Expected
    BY <2>1 DEF Awaits, NextPacket, Wanted, ChunkPacket
  <2> HIDE DEF eof
  <2>5. CASE ~eof
    <3>1. Successor(p) = ChunkPacket(Chunk(readnet.fileno, readnet.seqno + 1))
      BY <2>3, <2>4, <2>5 DEF Successor, NextChunk
    <3> QED BY <2>1, <2>5, <3>1 DEF AwaitsAfter, NextPacket, Wanted, Expected
  <2>6. CASE eof /\ FinalFile
    <3>1. readnet.seqno = LastSeq[readnet.fileno]
      <4>1. Expected.seqno \in 0 .. LastSeq[Expected.fileno] /\ LastSeq[Expected.fileno] \in Nat
        BY <2>2, ChunkPlace
      <4> QED BY <1>3, <2>3, <2>6, <4>1
    <3>2. readnet.fileno = NoFiles - 1  BY <1>3, <2>6, FilesAssumption DEF FinalFile
    <3>3. IsLast(p)  BY <2>4, <3>1, <3>2 DEF IsLast, Expected
    <3> QED BY <2>1, <2>6, <3>3 DEF AwaitsAfter
  <2>7. CASE eof /\ ~FinalFile
    <3>1. Successor(p) = FilenoPacket(readnet.fileno + 1)
      BY <2>3, <2>4, <2>7 DEF Successor
    <3> QED BY <2>1, <2>7, <3>1 DEF AwaitsAfter, NextPacket, Asked
  <2> QED BY <2>5, <2>6, <2>7
<1> QED BY <1>4, <1>5

\* The last node of a ring stays it, and its writenet() has nothing to do.
LastNode == isNextServer /\ writenet.pc \in {"start", "done"}
\* It says that it is finished, or tries to, only when writedisk() is.
Reporting == exited = "report" => writedisk.pc = "report"

LEMMA LastNodeStays ==
  ASSUME TypeOK, LastNode, Reporting, NEW f, NEW d,
         Besides(d) \/ Receive(f, d) \/ UNCHANGED vars
  PROVE  LastNode' /\ Reporting'
<1> USE DEF ReadUnchanged, WriteUnchanged, DiskUnchanged, ListUnchanged, readVars, writeVars, diskVars
<1>1. ~Ended => exited = "no"  BY DEF Ended
<1>2. CASE ReadBanks \/ Receive(f, d) \/ Fails(d) \/ Reconnection
  BY <1>2 DEF LastNode, Reporting, ReadBanks, Receive, ReadStart, WaitWdiskDone, WaitBindTwo, RecvFileno,
     RecvHeader, RecvBody, Fails, RefusePacket, TrailerFails, RecvFail, ReconnectFails, AcceptFails,
     Reconnection,
     Reconnects, Accepted, Requested
<1>3. CASE WriteDisk
  <2>1. LastNode'
    BY <1>3 DEF LastNode, WriteDisk, OpenFile, ChooseWait, WaitChunk, WriteBuffer, SetWdiskDone,
       NextEntry, EndReport
  <2>2. exited' \in {"no", "open", "write", "no_entry"} \/ (exited' = "report" /\ writedisk' = writedisk)
    BY <1>1, <1>3 DEF WriteDisk, OpenFile, ChooseWait, WaitChunk, WriteBuffer, SetWdiskDone,
       NextEntry, EndReport, DiskAt
  <2>3. exited' = "report" => writedisk.pc = "report" /\ writedisk' = writedisk
    BY <1>1, <1>3, <2>2 DEF WriteDisk, OpenFile, ChooseWait, WaitChunk, WriteBuffer, SetWdiskDone,
       NextEntry, EndReport, DiskAt
  <2> QED BY <2>1, <2>3 DEF Reporting
<1>4. CASE WriteNet
  <2>1. WriteStart
    BY <1>4 DEF LastNode, WriteNet, WaitRnetDone, SendFileno, SendData, SetWnetDone, SetBindTwoGo,
       RecoverReport, RecoverHost, WriteAt
  <2>2. writenet \in WriterType  BY DEF TypeOK
  <2> QED BY <2>1, <2>2 DEF LastNode, Reporting, WriteStart, WriteGoto, WriterType
<1>5. CASE ExceptionReciever  BY <1>5 DEF ExceptionReciever, LastNode, Reporting
<1>6. CASE Arrivals \/ UNCHANGED vars
  BY <1>6 DEF Arrivals, ConnectionLost, ReconnectArrives, vars, LastNode, Reporting
<1> QED BY <1>2, <1>3, <1>4, <1>5, <1>6 DEF Besides, Stopped

\* Named for the whole stream in its order, the chunks on the disk of a node that is
\* finished are as many as there are.
LEMMA OrderedIsTotal ==
  ASSUME TypeOK, NEW w, Ordered(w), writedisk.pc \in {"report", "done"}
  PROVE  Len(disk) = Total
<1>1. PICK n \in Nat : \E c \in [Nat -> ChunkType] : OrderedBy(w, n, c)  BY DEF Ordered
<1>2. PICK c \in [Nat -> ChunkType] : OrderedBy(w, n, c)  BY <1>1
<1> DEFINE len == Len(disk)
           S == {k \in Nat : k < n => Pos(c[k]) = k}
<1>3. len \in Nat /\ len <= n /\ len # 0 /\ len - 1 \in 0 .. n - 1
  <2>1. len \in Nat /\ disk # <<>> /\ len <= n  BY <1>2 DEF OrderedBy, OnDisk, TypeOK
  <2>2. len # 0  BY <2>1 DEF TypeOK
  <2> QED BY <2>1, <2>2
<1>4. c[len - 1] = Chunk(NoFiles - 1, LastSeq[NoFiles - 1])
  BY <1>2 DEF OrderedBy, OnDisk
<1>5. 0 \in S
  <2>1. c[0] = Chunk(0, 0)  BY <1>2 DEF OrderedBy, Numbered
  <2>2. Pos(c[0]) = 0  BY <2>1, FirstPosTyped DEF Pos, Chunk
  <2> QED BY <2>2
<1>6. ASSUME NEW k \in 0 .. (len - 1) - 1, k \in S PROVE k + 1 \in S
  <2>1. k \in 0 .. n - 1 /\ k + 1 \in 0 .. n - 1 /\ k \in Nat /\ k < n  BY <1>3
  <2>2. c[k] \in Chunks /\ c[k + 1] = NextChunk(c[k]) /\ c[k + 1] \in Chunks
    BY <1>2, <2>1 DEF OrderedBy, Numbered
  <2>3. Pos(c[k + 1]) = k + 1  BY <1>6, <2>1, <2>2, PlaceOfNext
  <2> QED BY <2>1, <2>3
<1>7. len - 1 \in Nat  BY <1>3
<1> HIDE DEF S, len
<1>8. len - 1 \in S  BY <1>5, <1>6, <1>7, InductionUpTo
<1>9. Pos(c[len - 1]) = len - 1  BY <1>3, <1>8 DEF S
<1>10. FirstPos[NoFiles] \in Nat  BY FirstPosTyped, FilesAssumption
<1>11. FirstPos[NoFiles] - 1 = len - 1  BY <1>4, <1>9, PlaceOfLast
<1> QED BY <1>3, <1>10, <1>11 DEF Total, len
-----------------------------------------------------------------------------
(***************************************************************************)
(* A client that may be sent the wrong chunks, for Chain: how far it goes  *)
(* with them, and what it never says of itself.                            *)
(***************************************************************************)
\* A node does not come near saying that it is finished before readnet() is through.
Unfinished ==
  /\ readnet.pc # "done" =>
       /\ \A b \in Bank : dataBuffer[b].eof # "FINAL_EOF"
       /\ writedisk.pc \notin {"report", "done"}
  /\ stopped => writedisk.pc = "done"

LEMMA UnfinishedStep ==
  ASSUME TypeOK, Unfinished, NEW f, NEW d, Besides(d) \/ Receive(f, d) \/ UNCHANGED vars
  PROVE  Unfinished'
<1> USE DEF ReadUnchanged, WriteUnchanged, DiskUnchanged, semaphores, readVars, writeVars, diskVars
<1>1. /\ readnet \in ReaderType /\ readnet.bankno \in Bank /\ dataBuffer \in [Bank -> BufferType]
      /\ writedisk \in DiskType /\ writedisk.bankno \in Bank
  BY DEF TypeOK, ReaderType, DiskType
<1>2. CASE WriteDisk
  <2>1. UNCHANGED <<dataBuffer, readnet>>
    BY <1>2 DEF WriteDisk, OpenFile, ChooseWait, WaitChunk, WriteBuffer, SetWdiskDone, NextEntry, EndReport
  <2>2. CASE EndReport
    <3>1. writedisk.pc = "report" /\ writedisk' \in {writedisk, [writedisk EXCEPT !.pc = "done"]}
          /\ (stopped' # stopped => writedisk'.pc = "done")
      BY <1>1, <2>2 DEF EndReport, DiskAt, DiskGoto, DiskType
    <3> QED BY <1>1, <2>1, <2>2, <3>1 DEF Unfinished, EndReport, DiskGoto, DiskType
  <2>3. CASE SetWdiskDone
    <3>1. /\ writedisk.pc = "release" /\ stopped' = stopped /\ writedisk'.pc = AfterBank(Taken.eof)
      BY <1>1, <2>3 DEF SetWdiskDone, DiskAt, DiskType
    <3>2. Taken.eof \in EofMark  BY <1>1 DEF Taken, BufferType
    <3>3. readnet.pc # "done" => writedisk'.pc \in {"choose", "entry"}
      BY <1>1, <3>1, <3>2 DEF Unfinished, Taken, AfterBank, EofMark
    <3> QED BY <2>1, <3>1, <3>3 DEF Unfinished
  <2>4. CASE OpenFile \/ ChooseWait \/ WaitChunk \/ WriteBuffer \/ NextEntry
    <3>1. /\ stopped' = stopped /\ writedisk.pc \notin {"report", "done"}
          /\ writedisk'.pc \notin {"report", "done"}
      BY <1>1, <2>4 DEF OpenFile, ChooseWait, WaitChunk, WriteBuffer, NextEntry, DiskAt, DiskGoto, DiskType,
                        Awaited
    <3> QED BY <2>1, <3>1 DEF Unfinished
  <2> QED BY <1>2, <2>2, <2>3, <2>4 DEF WriteDisk
<1>3. CASE RecvBody(d)
  <2>1. readnet.pc = "recv_body" /\ UNCHANGED <<writedisk, stopped>>
    BY <1>3 DEF RecvBody, ReadAt
  <2>2. ASSUME readnet'.pc # "done", NEW b \in Bank PROVE dataBuffer'[b].eof = dataBuffer[b].eof
    BY <1>1, <1>3, <2>2 DEF RecvBody, BufferType
  <2> QED BY <2>1, <2>2 DEF Unfinished
<1>4. CASE RecvHeader(d)
  <2>1. readnet.pc = "recv_header" /\ UNCHANGED <<writedisk, stopped>>
    BY <1>4 DEF RecvHeader, ReadAt
  <2>2. ASSUME NEW b \in Bank PROVE dataBuffer'[b].eof \in {dataBuffer[b].eof, "EOF", "NORMAL"}
    BY <1>1, <1>4, <2>2 DEF RecvHeader
  <2> QED BY <2>1, <2>2 DEF Unfinished
<1>5. CASE RecvFileno(f)
  <2>1. readnet.pc = "recv_fileno" /\ UNCHANGED <<dataBuffer, writedisk, stopped>>
    BY <1>5 DEF RecvFileno, ReadAt
  <2> QED BY <2>1 DEF Unfinished
<1>6. CASE ReadBanks \/ Fails(d) \/ Reconnection
  <2>1. UNCHANGED <<dataBuffer, writedisk, stopped>>
    BY <1>6 DEF ReadBanks, ReadStart, WaitWdiskDone, WaitBindTwo, Fails, RefusePacket, TrailerFails,
                RecvFail, ReconnectFails, AcceptFails, Reconnection, Reconnects, Accepted, Requested
  <2>2. Besides(d)  BY <1>6 DEF Besides
  <2>3. readnet'.pc = "done" <=> readnet.pc = "done"  BY <2>2, BesidesAwaits
  <2> QED BY <2>1, <2>3 DEF Unfinished
<1>7. CASE Arrivals \/ WriteNet \/ ExceptionReciever \/ UNCHANGED vars
  <2>1. UNCHANGED <<dataBuffer, readnet, writedisk, stopped>>
    BY <1>7 DEF Arrivals, ConnectionLost, ReconnectArrives, WriteNet, ExceptionReciever, WriteStart,
       WaitRnetDone, SendFileno, SendData, SendPacket, SetWnetDone, SetBindTwoGo, RecoverReport,
       RecoverHost, vars
  <2> QED BY <2>1 DEF Unfinished
<1> QED BY <1>2, <1>3, <1>4, <1>5, <1>6, <1>7 DEF Besides, Receive, Stopped

\* readnet() is in file h: it receives its chunks, or the number of the file after it.
InFile(h) ==
  /\ readnet.pc # "start"
  /\ readnet.fileno = IF readnet.pc = "recv_fileno" THEN h + 1 ELSE h

LEMMA BesidesStays ==
  ASSUME TypeOK, NEW p, Besides(p) \/ UNCHANGED vars
  PROVE  /\ InBank' = InBank /\ readnet'.fileno = readnet.fileno /\ readnet'.seqno = readnet.seqno
         /\ readnet.pc # "start" =>
              readnet'.pc # "start" /\ (readnet'.pc = "recv_fileno" <=> readnet.pc = "recv_fileno")
         /\ reconnect # "pending" =>
              /\ readnet'.pc = "recv_body" <=> readnet.pc = "recv_body"
              /\ readnet.pc = "recv_header" => readnet'.pc = "recv_header"
         /\ \A h : InFile(h) => InFile(h)'
<1>1. readnet \in ReaderType  BY DEF TypeOK
<1>2. /\ UNCHANGED dataBuffer
      /\ readnet'.bankno = readnet.bankno /\ readnet'.fileno = readnet.fileno
      /\ readnet'.seqno = readnet.seqno
      /\ readnet.pc # "start" =>
           readnet'.pc # "start" /\ (readnet'.pc = "recv_fileno" <=> readnet.pc = "recv_fileno")
      /\ reconnect # "pending" =>
           /\ readnet'.pc = "recv_body" <=> readnet.pc = "recv_body"
           /\ readnet.pc = "recv_header" => readnet'.pc = "recv_header"
  <2>1. CASE ReadBanks
    BY <1>1, <2>1 DEF ReadBanks, ReadStart, WaitWdiskDone, WaitBindTwo, ReadAt, ReadGoto, ReaderType
  <2>2. CASE Fails(p)  BY <2>2 DEF Fails, RefusePacket, TrailerFails, RecvFail, ReconnectFails,
                                   AcceptFails, readVars
  <2>3. CASE Reconnection
    BY <1>1, <2>3 DEF Reconnection, Reconnects, Accepted, Requested, Receiving, ReadAt, ReadGoto, ReaderType
  <2>4. CASE WriteNet \/ ExceptionReciever
    BY <2>4 DEF WriteNet, ExceptionReciever, WriteStart, WaitRnetDone, SendFileno, SendData, SendPacket,
                SetWnetDone, SetBindTwoGo, RecoverReport, RecoverHost, WriteUnchanged, readVars
  <2>5. CASE WriteDisk
    BY <2>5 DEF WriteDisk, OpenFile, ChooseWait, WaitChunk, WriteBuffer, SetWdiskDone, NextEntry,
                EndReport, DiskUnchanged, readVars
  <2>6. CASE Arrivals \/ UNCHANGED vars
    BY <2>6 DEF Arrivals, ConnectionLost, ReconnectArrives, vars, readVars
  <2> QED BY <2>1, <2>2, <2>3, <2>4, <2>5, <2>6 DEF Besides, Stopped
<1> QED BY <1>2 DEF InBank, InFile

LEMMA HeaderMoves ==
  ASSUME TypeOK, NEW p, RecvHeader(p)
  PROVE  /\ readnet.pc = "recv_header" /\ readnet'.pc = "recv_body" /\ p.kind = "data"
         /\ readnet'.fileno = readnet.fileno /\ readnet'.seqno = readnet.seqno
         /\ InBank'.seqno = p.chunk.seqno
         /\ InBank'.eof = IF MarkOf(p.chunk) = "NORMAL" THEN "NORMAL" ELSE "EOF"
         /\ \A h : InFile(h) => InFile(h)'
<1>1. readnet \in ReaderType /\ readnet.bankno \in Bank /\ dataBuffer \in [Bank -> BufferType]
  BY DEF TypeOK, ReaderType
<1>2. /\ readnet.pc = "recv_header" /\ readnet' = [readnet EXCEPT !.pc = "recv_body"] /\ p.kind = "data"
      /\ dataBuffer' = [dataBuffer EXCEPT ![readnet.bankno] =
           [fileno |-> readnet.fileno, seqno |-> p.chunk.seqno, body |-> Torn,
            eof |-> IF AtEof(p) THEN "EOF" ELSE "NORMAL"]]
  BY DEF RecvHeader, ReadAt, ReadGoto
<1>3. readnet'.pc = "recv_body" /\ readnet'.fileno = readnet.fileno /\ readnet'.seqno = readnet.seqno
      /\ readnet'.bankno = readnet.bankno
  BY <1>1, <1>2 DEF ReaderType
<1>4. InBank' = [fileno |-> readnet.fileno, seqno |-> p.chunk.seqno, body |-> Torn,
                 eof |-> IF AtEof(p) THEN "EOF" ELSE "NORMAL"]
  BY <1>1, <1>2, <1>3 DEF InBank
<1> QED BY <1>2, <1>3, <1>4 DEF AtEof, InFile

LEMMA BodyMoves ==
  ASSUME TypeOK, NEW p, RecvBody(p)
  PROVE  /\ readnet.pc = "recv_body" /\ InBank.seqno = readnet.seqno
         /\ readnet'.pc = IF InBank.eof = "NORMAL" THEN "wait_wdisk"
                          ELSE IF FinalFile THEN "done" ELSE "recv_fileno"
         /\ InBank.eof = "NORMAL" => readnet'.seqno = readnet.seqno + 1
         /\ \A h : InFile(h) => InFile(h)'
<1>1. /\ readnet.pc = "recv_body" /\ InBank.seqno = readnet.seqno
      /\ readnet'.pc = IF InBank.eof = "NORMAL" THEN "wait_wdisk"
                       ELSE IF FinalFile THEN "done" ELSE "recv_fileno"
      /\ readnet'.fileno = IF readnet'.pc = "recv_fileno" THEN readnet.fileno + 1 ELSE readnet.fileno
      /\ InBank.eof = "NORMAL" => readnet'.seqno = readnet.seqno + 1
  BY DEF RecvBody, ReadAt, InBank
<1> QED BY <1>1 DEF InFile

\* A header with the number and the mark that were to come is as good as the one that
\* was: the file of a bank is set by readnet() itself (ClntThread.cpp:141).
LEMMA HeaderMarked ==
  ASSUME TypeOK, OneToken, NEW w, Ordered(w), NEW p, RecvHeader(p), p.chunk.seqno = readnet.seqno,
         AtEof(p) <=> AtEof(Wanted)
  PROVE  Ordered(w)'
<1>1. Wanted.kind = "data" /\ Wanted.chunk = Expected /\ Expected.seqno = readnet.seqno
      /\ readnet.pc = "recv_header"
  BY DEF Wanted, ChunkPacket, Expected, Chunk, RecvHeader, ReadAt
<1>2. RecvHeader(Wanted)  BY <1>1 DEF RecvHeader
<1> QED BY <1>1, <1>2, ReceiveOrdered DEF Receive

LEMMA WholeIsNamed == Ordered("whole") => Ordered("named")
BY DEF Ordered, OrderedBy, Numbered, Reading, Window, Holds, OnDisk
=============================================================================
