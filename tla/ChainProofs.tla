----------------------------- MODULE ChainProofs -----------------------------
(***************************************************************************)
(* The three hosts together: what the theorems of ServThread and of        *)
(* ClntThread say of each program fits at the connections between them, so *)
(* that the disk at the end of the ring is a prefix of the stream through  *)
(* the crash of the machine in the middle and the bypass.                  *)
(*                                                                         *)
(* S and C are instances of the modules with the proofs, and their lemmas  *)
(* about single states and steps are cited from them.                      *)
(***************************************************************************)
EXTENDS Chain, DataChunksProofs

\* The constants of Chain are constants of both programs.
LEMMA ServerConstants == S!FilesAssumption /\ S!RingAssumption /\ S!NetAssumption
  BY ChainAssumption, FilesAssumption
     DEF S!FilesAssumption, S!RingAssumption, S!NetAssumption, S!FaultKinds, S!File, File

LEMMA ClientConstants ==
  C!FilesAssumption /\ C!RingAssumption /\ C!NetAssumption /\ C!RoleAssumption
<1>1. {1} \in (SUBSET {0, 1}) \ {{}}  OBVIOUS
<1>2. {CHECKTRAILER, {1}, {1}} \subseteq (SUBSET {0, 1}) \ {{}}  BY <1>1,
                                        ChainAssumption DEF ChainAssumption
<1>3. C!NetAssumption  BY <1>2 DEF C!NetAssumption, C!FaultKinds
<1> QED BY <1>3, ChainAssumption, FilesAssumption
        DEF C!FilesAssumption, C!RingAssumption, C!RoleAssumption, C!File, File

\* Both speak of the same files and packets.
LEMMA ServerWords ==
  /\ S!Packet = Packet /\ S!Chunks = Chunks /\ S!StreamPacket = StreamPacket
  /\ S!Fragment = Fragment /\ S!Torn = Torn
  /\ \A p : S!Successor(p) = Successor(p) /\ (S!IsLast(p) <=> IsLast(p))
  /\ \A w : S!InOrder(w) <=> InOrder(w)
  /\ \A c : S!ChunkPacket(c) = ChunkPacket(c) /\ S!FilenoPacket(c) = FilenoPacket(c)
  /\ \A w, h : /\ S!Flows(w) <=> Flows(w)
               /\ S!Later(w, h) <=> Later(w, h)
               /\ S!Beyond(w, h) <=> Beyond(w, h)
<1> USE DEF S!Chunk, Chunk
<1>1. S!Packet = Packet /\ S!Chunks = Chunks /\ S!Fragment = Fragment /\ S!Torn = Torn
  BY DEF S!Packet, Packet, S!ChunkType, ChunkType, S!Chunks, Chunks, S!File, File,
         S!Fragment, Fragment, S!Torn, Torn
<1>2. \A c : S!ChunkPacket(c) = ChunkPacket(c) /\ S!FilenoPacket(c) = FilenoPacket(c)
  BY DEF S!ChunkPacket, ChunkPacket, S!FilenoPacket, FilenoPacket
<1>3. \A p : S!Successor(p) = Successor(p)
  BY <1>2 DEF S!Successor, Successor, S!NextChunk, NextChunk
<1>4. \A p : S!IsLast(p) <=> IsLast(p)  BY <1>2 DEF S!IsLast, IsLast
<1>5. \A w : S!InOrder(w) <=> InOrder(w)  BY <1>3 DEF S!InOrder, InOrder
<1>6. S!StreamPacket = StreamPacket
  BY <1>1, <1>2 DEF S!StreamPacket, StreamPacket, S!File, File
<1>7. \A w : S!Flows(w) <=> Flows(w)  BY <1>3, <1>6 DEF S!Flows, Flows
<1>8. \A w, h : (S!Later(w, h) <=> Later(w, h)) /\ (S!Beyond(w, h) <=> Beyond(w, h))
  BY <1>1, <1>6 DEF S!Later, Later, S!Beyond, Beyond
<1> QED BY <1>1, <1>2, <1>3, <1>4, <1>5, <1>6, <1>7, <1>8

LEMMA ClientWords ==
  /\ C!Packet = Packet /\ C!Chunks = Chunks
  /\ \A p : C!Successor(p) = Successor(p) /\ (C!IsLast(p) <=> IsLast(p))
  /\ \A c : C!ChunkPacket(c) = ChunkPacket(c) /\ C!FilenoPacket(c) = FilenoPacket(c)
  /\ \A c : C!MarkOf(c) = MarkOf(c)
<1> USE DEF C!Chunk, Chunk
<1>1. C!Packet = Packet /\ C!Chunks = Chunks
  BY DEF C!Packet, Packet, C!ChunkType, ChunkType, C!Chunks, Chunks, C!File, File
<1>2. \A c : C!ChunkPacket(c) = ChunkPacket(c) /\ C!FilenoPacket(c) = FilenoPacket(c)
  BY DEF C!ChunkPacket, ChunkPacket, C!FilenoPacket, FilenoPacket
<1>3. \A p : C!Successor(p) = Successor(p)
  BY <1>2 DEF C!Successor, Successor, C!NextChunk, NextChunk
<1>4. \A p : C!IsLast(p) <=> IsLast(p)  BY <1>2 DEF C!IsLast, IsLast
<1>5. \A c : C!MarkOf(c) = MarkOf(c)  BY DEF C!MarkOf, MarkOf
<1> QED BY <1>1, <1>2, <1>3, <1>4, <1>5

-----------------------------------------------------------------------------
(***************************************************************************)
(* Each program takes its own steps                                        *)
(***************************************************************************)
ServerOk == S!Inductive /\ S!RingOrder /\ S!Recovery /\ S!Quiet /\ S!Sent /\ S!OnWire
ClientOk == C!TypeOK /\ C!OneToken /\ C!LastNode /\ C!Reporting
LinksType ==
  /\ up \in BOOLEAN /\ direct \in BOOLEAN /\ relay \in Seq(Packet)
  /\ taken \in 0 .. Len(sOut.wire)

LEMMA ServerMoves == [Next]_vars => [S!Next]_(S!vars)
<1>1. UNCHANGED server => UNCHANGED S!vars  BY DEF server, S!vars, S!semaphores, S!hosts
<1>2. ServerThreads \/ ServerSends \/ ServerBypasses \/ NobodyAnswers \/ ClientAnswers => S!Next
  BY DEF ServerThreads, ServerSends, ServerBypasses, NobodyAnswers, ClientAnswers, S!Next,
         S!WriteNet, S!Recover
<1>3. \/ ServerAsks \/ ClientThreads \/ AcceptFails \/ ClientReceives \/ ClientSeesEnd \/ RelayTakes \/ Crash
      \/ Over \/ UNCHANGED vars
      => UNCHANGED server
  BY DEF ServerAsks, ClientThreads, AcceptFails, ClientReceives, ClientSeesEnd, RelayTakes, Crash, Over,
         vars
<1> QED BY <1>1, <1>2, <1>3 DEF Next, Server, Control, Client

LEMMA ServerStep == ServerOk /\ [Next]_vars => ServerOk'
<1> SUFFICES ASSUME ServerOk, [Next]_vars PROVE ServerOk'  OBVIOUS
<1> USE ServerConstants
<1>1. [S!Next]_(S!vars)  BY ServerMoves
<1>2. S!Inductive'  BY <1>1, S!StepType, S!StepToken, S!StepProgress, S!StepComplete DEF ServerOk,
                                        S!Inductive
<1>3. S!RingOrder'  BY <1>1, S!OrderStep DEF ServerOk
<1>4. S!Recovery'  BY <1>1, S!RecoveryStep DEF ServerOk
<1>5. S!Quiet'  BY <1>1, S!QuietStep DEF ServerOk
<1>6. S!Sent'  BY <1>1, S!SentStep DEF ServerOk
<1>7. S!OnWire'  BY <1>1, S!OnWireStep DEF ServerOk
<1> QED BY <1>2, <1>3, <1>4, <1>5, <1>6, <1>7 DEF ServerOk

\* What the last node finds on its connection is a packet.
LEMMA IncomingType ==
  ASSUME ServerOk, LinksType, Incoming # <<>>
  PROVE  Head(Incoming) \in Packet
<1>1. sOut.wire \in Seq(Packet)
  BY ServerWords DEF ServerOk, S!Inductive, S!TypeOK, S!ConnectionType
<1>2. CASE ~direct  BY <1>2 DEF LinksType, Incoming
<1>3. CASE direct
  <2>1. Incoming = SubSeq(sOut.wire, taken + 1, Len(sOut.wire))  BY <1>3 DEF Incoming
  <2>2. Incoming \in Seq(Packet)  BY <1>1, <2>1 DEF LinksType
  <2> QED BY <2>2
<1> QED BY <1>2, <1>3

\* But for a receive, the last node's steps are those of any packet.
LEMMA ClientBesides ==
  ASSUME [Next]_vars, ~ClientReceives
  PROVE  \E p \in Packet : C!Besides(p) \/ UNCHANGED C!vars
<1>1. Fragment \in Packet  BY TornIsTyped
<1>2. UNCHANGED client => UNCHANGED C!vars
  BY DEF client, C!vars, C!semaphores, C!readVars, C!writeVars, C!diskVars
<1>3. \/ ServerThreads \/ ServerSends \/ NobodyAnswers \/ RelayTakes \/ Crash
      \/ Over \/ UNCHANGED vars
      => UNCHANGED client
  BY DEF ServerThreads, ServerSends, NobodyAnswers, RelayTakes, Crash, Over, vars, links
<1>4. ServerAsks \/ ClientAnswers \/ ClientThreads \/ AcceptFails \/ ClientSeesEnd => C!Besides(Fragment)
  BY DEF ServerAsks, ClientAnswers, ClientThreads, AcceptFails, ClientSeesEnd, C!Besides, C!Arrivals,
         C!Reconnection, C!Fails
<1>5. ServerBypasses => C!Besides(Fragment) \/ UNCHANGED client
  BY DEF ServerBypasses, C!Besides, C!Reconnection
<1> QED BY <1>1, <1>2, <1>3, <1>4, <1>5 DEF Next, Server, Control, Client

\* A packet is received, or refused.
LEMMA ReceiveActs ==
  ASSUME ClientReceives, NEW p, p = Head(Incoming)
  PROVE  /\ ~C!Ended /\ cReader.pc # "accept" /\ UNCHANGED <<server, up, direct>>
         /\ C!Fails(p) \/ C!Receive(p, p)
         /\ \/ C!RecvHeader(p) /\ UNCHANGED links
            \/ C!RecvFileno(p) /\ Consume
            \/ C!RecvBody(p) /\ Consume
            \/ C!Fails(p) /\ C!Ended' /\ UNCHANGED links
<1>1. C!RefusePacket(p) \/ C!TrailerFails => C!Ended' /\ C!Fails(p)
  BY DEF C!RefusePacket, C!TrailerFails, C!Fails, C!Ended
<1>2. C!RecvHeader(p) \/ C!RecvFileno(p) \/ C!RecvBody(p) => C!Receive(p, p)  BY DEF C!Receive
<1>3. C!RecvHeader(p) \/ C!RecvFileno(p) \/ C!RecvBody(p) \/ C!RefusePacket(p) \/ C!TrailerFails
      => ~C!Ended /\ cReader.pc # "accept"
  BY DEF C!RecvHeader, C!RecvFileno, C!RecvBody, C!RefusePacket, C!TrailerFails, C!Receiving, C!ReadAt
<1> QED BY <1>1, <1>2, <1>3 DEF ClientReceives, links

LEMMA ClientMoves ==
  ASSUME ServerOk, LinksType, [Next]_vars
  PROVE  \E p \in Packet : C!Besides(p) \/ C!Receive(p, p) \/ UNCHANGED C!vars
<1>1. CASE ClientReceives
  <2>1. PICK p \in Packet : p = Head(Incoming)  BY <1>1, IncomingType DEF ClientReceives
  <2>2. C!Fails(p) \/ C!Receive(p, p)  BY <1>1, <2>1, ReceiveActs
  <2> QED BY <2>2 DEF C!Besides
<1>2. CASE ~ClientReceives  BY <1>2, ClientBesides
<1> QED BY <1>1, <1>2

LEMMA ClientStep == ServerOk /\ LinksType /\ ClientOk /\ [Next]_vars => ClientOk'
<1> SUFFICES ASSUME ServerOk, LinksType, ClientOk, [Next]_vars PROVE ClientOk'  OBVIOUS
<1> USE ClientConstants
<1>1. PICK p \in Packet : C!Besides(p) \/ C!Receive(p, p) \/ UNCHANGED C!vars  BY ClientMoves
<1>2. p \in C!Packet  BY ClientWords
<1>3. C!TypeOK' /\ C!OneToken'  BY <1>1, <1>2, C!AnyPacketKeeps DEF ClientOk
<1>4. C!LastNode' /\ C!Reporting'  BY <1>1, C!LastNodeStays DEF ClientOk
<1> QED BY <1>3, <1>4 DEF ClientOk
-----------------------------------------------------------------------------
(***************************************************************************)
(* Who is connected to whom.  Up to the bypass the server's peer is the    *)
(* node in the middle, and there is a bypass only when that one is gone;   *)
(* from then on it is the last node, which has been asked to reconnect.    *)
(***************************************************************************)
Bypassing == sWriter.pc \in {"rec_host", "rec_ack", "rec_connect"}
Untorn == \A i \in 1 .. Len(sOut.wire) : sOut.wire[i].kind # "frag"
Accepting == cReconnect = "served" /\ ~direct /\ sPeer # S!Nobody
BeforeBypass ==
  /\ sWriter.pc \notin {"rec_check", "rec_send"}
  /\ Bypassing => ~up
  /\ sWriter.pc \in {"rec_ack", "rec_connect"} => taken = 0 /\ ~sOut.open
  /\ sWriter.pc # "rec_connect" => sPeer = S!Nobody
  /\ sPeer # S!Nobody => cReconnect = "served" \/ C!Ended
AfterBypass ==
  /\ ~up /\ cReconnect = "served" /\ sPeer # S!Nobody
  /\ Bypassing => C!Ended
Route ==
  /\ IF direct THEN AfterBypass ELSE BeforeBypass
  /\ Accepting => C!Ended \/ cReader.pc = "accept"
  /\ up \/ (direct /\ ~C!Ended) => Untorn

Base == ServerOk /\ LinksType /\ ClientOk /\ Route

LEMMA InitBase == Init => Base
<1> SUFFICES ASSUME Init PROVE Base  OBVIOUS
<1> USE ServerConstants, ClientConstants
<1>1. S!Init /\ C!Init  BY DEF Init
<1>2. sOut.wire = <<>> /\ sPeer = S!Nobody /\ sWriter.pc = "start"  BY <1>1 DEF S!Init
<1>3. ServerOk
  <2>1. S!TypeOK /\ S!OneToken /\ S!ReadProgress /\ S!ReadyComplete
    BY <1>1, S!InitType, S!InitToken, S!InitProgress
  <2>2. S!RingOrder /\ S!Recovery /\ S!Sent
    BY <1>1, S!InitRingOrder, S!InitRecovery, S!InitSent
  <2>3. S!Quiet /\ S!OnWire  BY <1>1, <1>2 DEF S!Init, S!Quiet, S!OnWire
  <2> QED BY <2>1, <2>2, <2>3 DEF ServerOk, S!Inductive
<1>4. ClientOk
  <2>1. C!TypeOK /\ C!OneToken  BY <1>1, C!InitType, C!InitToken
  <2>2. C!LastNode /\ C!Reporting
    BY <1>1 DEF C!Init, C!LastNode, C!Reporting
  <2> QED BY <2>1, <2>2 DEF ClientOk
<1>5. LinksType
  <2>1. <<>> \in Seq(Packet) /\ 0 \in 0 .. Len(<<>>)  OBVIOUS
  <2> QED BY <1>2, <2>1 DEF Init, LinksType
<1>6. Route
  <2>1. ~direct /\ cReconnect = "no"  BY <1>1 DEF Init, C!Init
  <2> QED BY <1>2, <2>1 DEF Route, BeforeBypass, Bypassing, Accepting, Untorn
<1> QED BY <1>3, <1>4, <1>5, <1>6 DEF Base

\* What the server puts on its connection: whole packets, and a part of one at the end
\* of it, on the way to a recovery.
LEMMA WireStep ==
  ASSUME ServerOk, [Next]_vars
  PROVE  \/ sOut'.wire = sOut.wire
         \/ sWriter.pc = "rec_host" /\ sOut'.wire = <<>>
         \/ \E p \in Packet :
              /\ sOut'.wire = Append(sOut.wire, p)
              /\ p.kind = "frag" => sWriter'.pc = "rec_host"
              /\ S!RecoverSend \/ p \in StreamPacket \cup {Fragment}
<1> USE ServerConstants
<1>1. [S!Next]_(S!vars)  BY ServerMoves
<1>2. ASSUME NEW p, S!Put(p) PROVE sOut'.wire = Append(sOut.wire, p)
  BY <1>2 DEF S!Put, ServerOk, S!Inductive, S!TypeOK, S!ConnectionType
<1>3. "xoff" \notin {"lost", "refused"}  OBVIOUS
<1>4. \/ sOut'.wire = sOut.wire
      \/ sWriter.pc = "rec_host" /\ sOut'.wire = <<>>
      \/ S!Put(S!Fragment) /\ sWriter'.pc = "rec_host"
      \/ \E p \in S!Packet : /\ S!Put(p) /\ p.kind # "frag"
                             /\ S!RecoverSend \/ p \in S!StreamPacket
                             /\ S!Served => p \in S!StreamPacket
  BY <1>1, <1>3, S!WireStep DEF ServerOk
<1> QED BY <1>2, <1>4, ServerWords, TornIsTyped

LEMMA WireKeeps ==
  ASSUME ServerOk, [Next]_vars, sWriter.pc # "rec_host" \/ sOut'.wire = sOut.wire
  PROVE  /\ Len(sOut.wire) \in Nat /\ Len(sOut'.wire) \in Nat /\ Len(sOut.wire) <= Len(sOut'.wire)
         /\ \A i \in 1 .. Len(sOut.wire) : sOut'.wire[i] = sOut.wire[i]
<1>1. sOut.wire \in Seq(Packet)
  BY ServerWords DEF ServerOk, S!Inductive, S!TypeOK, S!ConnectionType
<1>2. sOut'.wire = sOut.wire \/ \E p \in Packet : sOut'.wire = Append(sOut.wire, p)  BY WireStep
<1> QED BY <1>1, <1>2

\* The actions of the server, as far as they matter to the others.
LEMMA ServerActs ==
  ASSUME ServerOk
  PROVE  /\ ServerThreads => UNCHANGED <<sWriter, sOut, sPeer>>
         /\ ServerSends => /\ sPeer' = sPeer /\ ~Bypassing
                           /\ sWriter'.pc \notin {"rec_ack", "rec_connect"}
                           /\ sWriter'.pc \in {"rec_check", "rec_send"} =>
                                sWriter.pc \in {"rec_check", "rec_send"}
         /\ S!RecoverHost =>
              /\ sWriter.pc = "rec_host" /\ sWriter'.pc \in {"rec_host", "rec_ack"}
              /\ sPeer' = sPeer /\ sOut'.wire = <<>> /\ ~sOut'.open
         /\ S!RecoverAck =>
              /\ sWriter.pc = "rec_ack" /\ sOut' = sOut /\ sOut.wire = <<>> /\ sPeer = S!Nobody
              /\ IF sExited' = "control" THEN sWriter'.pc = "rec_ack" /\ sPeer' = sPeer
                 ELSE sWriter'.pc = "rec_connect"
         /\ S!RecoverConnect =>
              /\ sWriter.pc = "rec_connect" /\ sPeer' = sPeer /\ sPeer # S!Nobody
              /\ sOut'.wire = <<>> /\ sOut.wire = <<>>
              /\ \/ sWriter'.pc = "rec_check" /\ sOut'.open
                 \/ sWriter'.pc = "rec_connect" /\ sOut'.open = sOut.open
<1> USE ServerConstants DEF ServerOk
<1>1. ServerThreads => UNCHANGED <<sWriter, sOut, sPeer>>  BY S!OthersMove DEF ServerThreads
<1>2. ASSUME ServerSends
      PROVE  /\ sPeer' = sPeer /\ ~Bypassing /\ sWriter'.pc \notin {"rec_ack", "rec_connect"}
             /\ sWriter'.pc \in {"rec_check", "rec_send"} => sWriter.pc \in {"rec_check", "rec_send"}
  BY <1>2, S!SendsMove DEF ServerSends, S!Sends, Bypassing
<1> QED BY <1>1, <1>2, S!RecoverMoves

LEMMA LinksStep ==
  ASSUME Base, [Next]_vars
  PROVE  LinksType'
<1> USE DEF Base
<1>1. /\ sOut.wire \in Seq(Packet) /\ relay \in Seq(Packet) /\ Len(sOut.wire) \in Nat
      /\ taken \in 0 .. Len(sOut.wire) /\ up \in BOOLEAN /\ direct \in BOOLEAN
  BY ServerWords DEF ServerOk, S!Inductive, S!TypeOK, S!ConnectionType, LinksType
<1>2. ASSUME up' \in BOOLEAN, direct' \in BOOLEAN, relay' \in Seq(Packet),
             \/ sOut'.wire = sOut.wire /\ taken' \in 0 .. Len(sOut.wire)
             \/ sWriter.pc # "rec_host" /\ taken' = taken
             \/ sOut'.wire = <<>> /\ taken' = 0
      PROVE  LinksType'
  BY <1>1, <1>2, WireKeeps DEF LinksType
<1>3. CASE ServerThreads \/ ServerSends
  BY <1>1, <1>2, <1>3, ServerActs DEF ServerThreads, ServerSends, links, Bypassing
<1>4. CASE ServerBypasses  BY <1>1, <1>2, <1>4, ServerActs DEF ServerBypasses, links
<1>5. CASE ServerAsks \/ ClientThreads \/ AcceptFails \/ ClientSeesEnd \/ Over \/ UNCHANGED vars
  BY <1>1, <1>2, <1>5 DEF ServerAsks, ClientThreads, AcceptFails, ClientSeesEnd, Over, vars, links, server
<1>6. CASE ClientAnswers \/ NobodyAnswers
  BY <1>1, <1>2, <1>6, ServerActs DEF ClientAnswers, NobodyAnswers, links
<1>7. CASE ClientReceives
  <2>1. sOut' = sOut /\ UNCHANGED <<up, direct>> /\ (UNCHANGED links \/ Consume)
    BY <1>7, ReceiveActs DEF server
  <2>2. Consume => relay' \in Seq(Packet) /\ taken' \in 0 .. Len(sOut.wire)
    <3>1. CASE direct
      <4>1. taken < Len(sOut.wire)
        <5>1. SubSeq(sOut.wire, taken + 1, Len(sOut.wire)) # <<>>
          BY <1>7, <3>1 DEF ClientReceives, Incoming
        <5> QED BY <1>1, <5>1
      <4> QED BY <1>1, <3>1, <4>1 DEF Consume
    <3>2. CASE ~direct
      BY <1>1, <1>7, <3>2 DEF ClientReceives, Incoming, Consume
    <3> QED BY <3>1, <3>2
  <2> QED BY <1>1, <1>2, <2>1, <2>2 DEF links
<1>8. CASE RelayTakes
  <2>1. taken + 1 \in 1 .. Len(sOut.wire)  BY <1>1, <1>8 DEF RelayTakes, Unread
  <2>2. sOut.wire[taken + 1] \in Packet  BY <1>1, <2>1
  <2>3. relay' \in Seq(Packet)  BY <1>1, <1>8, <2>2 DEF RelayTakes
  <2> QED BY <1>1, <1>2, <1>8, <2>1, <2>3 DEF RelayTakes, server
<1>9. CASE Crash
  <2>1. PICK k \in 0 .. Len(relay) : relay' = SubSeq(relay, 1, k)  BY <1>9 DEF Crash
  <2>2. relay' \in Seq(Packet)  BY <1>1, <2>1
  <2> QED BY <1>1, <1>2, <1>9, <2>2 DEF Crash, server
<1> QED BY <1>3, <1>4, <1>5, <1>6, <1>7, <1>8, <1>9 DEF Next, Server, Control, Client

LEMMA EndedKept ==
  ASSUME ServerOk, LinksType, [Next]_vars, C!Ended
  PROVE  UNCHANGED <<cDisk, cExited, cReader, cReconnect>> /\ C!Ended'
<1>1. PICK p \in Packet : C!Besides(p) \/ C!Receive(p, p) \/ UNCHANGED C!vars  BY ClientMoves
<1>2. UNCHANGED C!vars  BY <1>1, ClientConstants, C!EndedStays
<1> QED BY <1>2 DEF C!vars, C!readVars, C!diskVars, C!Ended

LEMMA WaitsOn ==
  ASSUME ClientThreads \/ AcceptFails \/ ClientSeesEnd
  PROVE  cReconnect' = cReconnect /\ (cReader.pc = "accept" => cReader' = cReader)
<1>1. \/ C!ReadBanks \/ C!WriteNet \/ C!WriteDisk \/ C!Fails(Fragment)
      \/ C!Receive(Fragment, Fragment) \/ C!ConnectionLost
  BY DEF ClientThreads, AcceptFails, ClientSeesEnd, C!Fails
<1> QED BY <1>1, ClientConstants, C!ReconnectStays

LEMMA RouteStep ==
  ASSUME Base, [Next]_vars
  PROVE  Route'
<1> USE DEF Base
<1>1. Route /\ ServerOk /\ LinksType /\ (C!Ended => C!Ended')  BY EndedKept
<1>2. client' = client => cReconnect' = cReconnect /\ cReader' = cReader /\ (C!Ended' <=> C!Ended)
  BY DEF client, C!Ended
<1>3. server' = server => UNCHANGED <<sWriter, sOut, sPeer>>  BY DEF server
<1>4. CASE ServerThreads \/ NobodyAnswers
  <2>1. UNCHANGED <<client, links, sOut, sPeer>> /\ sWriter'.pc = sWriter.pc
    BY <1>1, <1>4, ServerActs DEF ServerThreads, NobodyAnswers
  <2> QED BY <1>1, <1>2, <2>1 DEF Route, BeforeBypass, AfterBypass, Bypassing, Accepting, Untorn, links
<1>5. CASE ServerSends
  <2>1. /\ UNCHANGED <<client, links, sPeer>> /\ ~Bypassing
        /\ sWriter'.pc \notin {"rec_ack", "rec_connect"}
        /\ sWriter'.pc \in {"rec_check", "rec_send"} => sWriter.pc \in {"rec_check", "rec_send"}
        /\ sWriter'.pc = "rec_host" => PeerGone
    BY <1>1, <1>5, ServerActs DEF ServerSends
  <2>2. PeerGone => IF direct THEN C!Ended ELSE ~up  BY DEF PeerGone
  <2>3. (up \/ (direct /\ ~C!Ended)) /\ Untorn => Untorn'
    <3> SUFFICES ASSUME up \/ (direct /\ ~C!Ended), Untorn PROVE Untorn'  OBVIOUS
    <3>1. sWriter'.pc # "rec_host"  BY <1>1, <2>1, <2>2 DEF Route, AfterBypass
    <3>2. sOut.wire \in Seq(Packet)
      BY ServerWords DEF ServerOk, S!Inductive, S!TypeOK, S!ConnectionType
    <3>3. \/ sOut'.wire = sOut.wire
          \/ \E p \in Packet : sOut'.wire = Append(sOut.wire, p) /\ p.kind # "frag"
      BY <1>1, <2>1, <3>1, WireStep DEF Bypassing
    <3>4. ASSUME NEW p \in Packet, sOut'.wire = Append(sOut.wire, p), p.kind # "frag",
                 NEW i \in 1 .. Len(sOut'.wire)
          PROVE  sOut'.wire[i].kind # "frag"
      <4>1. i \in 1 .. Len(sOut.wire) \/ i = Len(sOut.wire) + 1  BY <3>2, <3>4
      <4>2. i = Len(sOut.wire) + 1 => sOut'.wire[i] = p  BY <3>2, <3>4
      <4>3. i \in 1 .. Len(sOut.wire) => sOut'.wire[i] = sOut.wire[i]  BY <3>2, <3>4
      <4> QED BY <3>4, <4>1, <4>2, <4>3 DEF Untorn
    <3> QED BY <3>3, <3>4 DEF Untorn
  <2>4. UNCHANGED <<up, direct, taken>>  BY <2>1 DEF links
  <2>5. Bypassing' => sWriter'.pc = "rec_host"  BY <2>1 DEF Bypassing
  <2>6. Accepting' = Accepting /\ cReader' = cReader  BY <1>2, <2>1, <2>4 DEF Accepting
  <2>7. CASE direct
    <3>1. AfterBypass'  BY <1>1, <1>2, <2>1, <2>2, <2>4, <2>5, <2>7 DEF Route, AfterBypass
    <3> QED BY <1>1, <1>2, <2>1, <2>3, <2>4, <2>6, <2>7, <3>1 DEF Route
  <2>8. CASE ~direct
    <3>1. BeforeBypass'
      BY <1>1, <1>2, <2>1, <2>2, <2>4, <2>5, <2>8 DEF Route, BeforeBypass, Bypassing
    <3> QED BY <1>1, <1>2, <2>1, <2>3, <2>4, <2>6, <2>8, <3>1 DEF Route
  <2> QED BY <2>7, <2>8
<1>6. CASE ServerBypasses
  <2>1. UNCHANGED <<up, relay, sPeer>> /\ Untorn'
    BY <1>1, <1>6, ServerActs DEF ServerBypasses, Untorn, links
  <2>2. CASE S!RecoverHost /\ taken' = 0 /\ UNCHANGED <<client, up, relay, direct>>
    <3>1. /\ sWriter.pc = "rec_host" /\ sWriter'.pc \in {"rec_host", "rec_ack"} /\ ~sOut'.open
      BY <1>1, <2>2, ServerActs
    <3> QED BY <1>1, <1>2, <2>1, <2>2, <3>1
            DEF Route, BeforeBypass, AfterBypass, Bypassing, Accepting
  <2>3. CASE S!RecoverConnect /\ sOut'.open /\ C!Accepted /\ direct' = TRUE
    <3>1. /\ sWriter.pc = "rec_connect" /\ sPeer # S!Nobody /\ sWriter'.pc \in {"rec_check", "rec_connect"}
          /\ sWriter'.pc = "rec_connect" => sOut.open
      BY <1>1, <2>3, ServerActs
    <3>2. ~C!Ended /\ cReconnect' = cReconnect  BY <2>3 DEF C!Accepted, C!ReadAt
    <3>3. ~direct  BY <1>1, <3>1, <3>2 DEF Route, AfterBypass, Bypassing
    <3>4. AfterBypass'
      BY <1>1, <2>1, <3>1, <3>2, <3>3 DEF Route, BeforeBypass, AfterBypass, Bypassing
    <3> QED BY <2>1, <2>3, <3>4 DEF Route, Accepting
  <2>4. CASE S!RecoverConnect /\ ~sOut'.open /\ C!Ended /\ UNCHANGED <<client, links>>
    <3>1. sWriter.pc = "rec_connect" /\ sWriter'.pc = "rec_connect" /\ sOut'.open = sOut.open
      BY <1>1, <2>4, ServerActs
    <3> QED BY <1>1, <1>2, <2>1, <2>4, <3>1
            DEF Route, BeforeBypass, AfterBypass, Bypassing, Accepting, links
  <2> QED BY <1>6, <2>2, <2>3, <2>4 DEF ServerBypasses
<1>7. CASE ServerAsks
  <2>1. UNCHANGED <<server, links>> /\ cReconnect = "no" /\ cReconnect' = "pending" /\ ~C!Ended
    BY <1>7 DEF ServerAsks, C!ReconnectArrives
  <2> QED BY <1>1, <1>3, <2>1
          DEF Route, BeforeBypass, AfterBypass, Bypassing, Accepting, Untorn, links
<1>8. CASE ClientAnswers
  <2>1. /\ sWriter.pc = "rec_ack" /\ sOut' = sOut /\ sPeer = S!Nobody /\ UNCHANGED <<up, direct, taken>>
        /\ IF sExited' = "control" THEN sWriter'.pc = "rec_ack" /\ sPeer' = sPeer
           ELSE sWriter'.pc = "rec_connect"
    BY <1>1, <1>8, ServerActs DEF ClientAnswers
  <2>2. ~direct /\ ~up  BY <1>1, <2>1 DEF Route, AfterBypass, BeforeBypass, Bypassing
  <2>3. CASE sExited' = "control"
    BY <1>1, <2>1, <2>2, <2>3 DEF Route, BeforeBypass, AfterBypass, Bypassing, Accepting, Untorn
  <2>4. CASE sExited' # "control"
    <3>1. sWriter'.pc = "rec_connect" /\ cReconnect' = "served" /\ cReader'.pc = "accept"
      <4>1. C!Reconnects /\ cReader.pc # "recv_fileno"  BY <1>8, <2>4 DEF ClientAnswers
      <4>2. cReader \in C!ReaderType  BY DEF ClientOk, C!TypeOK
      <4> QED BY <2>1, <2>4, <4>1, <4>2 DEF C!Reconnects, C!ReadGoto, C!ReaderType
    <3>2. sPeer' # S!Nobody
      <4>1. ServerOk'  BY ServerStep
      <4> QED BY <3>1, <4>1 DEF ServerOk, S!Recovery, S!OneRecovery, S!Resending
    <3> QED BY <1>1, <2>1, <2>2, <3>1, <3>2
            DEF Route, BeforeBypass, AfterBypass, Bypassing, Accepting, Untorn
  <2> QED BY <2>3, <2>4
<1>9. CASE ClientThreads \/ AcceptFails \/ ClientReceives \/ ClientSeesEnd
  <2>1. UNCHANGED <<server, up, direct>> /\ (~direct => taken' = taken)
    BY <1>9, ReceiveActs DEF ClientThreads, AcceptFails, ClientSeesEnd, links, Consume
  <2>2. cReconnect' = cReconnect /\ (cReader.pc = "accept" => cReader' = cReader)
    <3>1. CASE ClientThreads \/ AcceptFails \/ ClientSeesEnd  BY <3>1, WaitsOn
    <3>2. CASE ClientReceives
      <4>1. PICK p : p = Head(Incoming)  OBVIOUS
      <4>2. C!Fails(p) \/ C!Receive(p, p)  BY <3>2, <4>1, ReceiveActs
      <4> QED BY <4>2, ClientConstants, C!ReconnectStays
    <3> QED BY <1>9, <3>1, <3>2
  <2> QED BY <1>1, <1>3, <2>1, <2>2
          DEF Route, BeforeBypass, AfterBypass, Bypassing, Accepting, Untorn
<1>10. CASE RelayTakes \/ Crash
  <2>1. UNCHANGED <<server, client, direct>> /\ (up' = up \/ ~up') /\ (taken' = taken \/ (up /\ ~direct))
    BY <1>10 DEF RelayTakes, Crash
  <2> QED BY <1>1, <1>2, <1>3, <2>1
          DEF Route, BeforeBypass, AfterBypass, Bypassing, Accepting, Untorn
<1>11. CASE Over \/ UNCHANGED vars
  <2>1. UNCHANGED <<server, client, links>>  BY <1>11 DEF Over, vars
  <2> QED BY <1>1, <1>2, <1>3, <2>1
          DEF Route, BeforeBypass, AfterBypass, Bypassing, Accepting, Untorn, links
<1> QED BY <1>4, <1>5, <1>6, <1>7, <1>8, <1>9, <1>10, <1>11 DEF Next, Server, Control, Client

LEMMA BaseStep == Base /\ [Next]_vars => Base'
BY ServerStep, ClientStep, LinksStep, RouteStep DEF Base
-----------------------------------------------------------------------------
(***************************************************************************)
(* What meets at the last node.  A bypass is whole when the chunk it was   *)
(* asked for is of the file the server was sending and is still in a bank  *)
(* of the server; until there is a bypass nothing can be missing.  Then    *)
(* the packets on the way to the last node are a piece of the stream, and  *)
(* the first of them is the one it waits for.                              *)
(***************************************************************************)
\* The next packet the peer takes from the server's connection is the one the last node
\* waits for (when there is no other on the way).
Ready == IF taken = 0 THEN C!Awaits(S!Opening) ELSE C!AwaitsAfter(sOut.wire[taken])
Linked ==
  IF direct \/ Accepting THEN Ready
  ELSE /\ InOrder(relay)
       /\ \A i \in 1 .. Len(relay) : relay[i] \in StreamPacket
       /\ relay # <<>> => C!Awaits(relay[1])
       /\ up => IF relay = <<>> THEN Ready ELSE taken > 0 /\ relay[Len(relay)] = sOut.wire[taken]
Linking == Whole /\ ~C!Ended => Linked
Arriving == Whole => C!Ordered("whole")

LEMMA ServedIsWhole == S!Served <=> Whole
<1>1. "xoff" \notin {"lost", "refused"}  OBVIOUS
<1> QED BY <1>1 DEF Whole, S!Served, S!SameFile

\* It stays whole only if it was, because the server does not get chunks back.
LEMMA WholeBefore ==
  ASSUME Base, [Next]_vars, Whole'
  PROVE  Whole
<1> USE ServerConstants
<1>1. CASE sPeer' = sPeer
  <2>1. [S!Next]_(S!vars)  BY ServerMoves
  <2>2. S!Served'  BY ServedIsWhole DEF S!Served, Whole, S!SameFile
  <2>3. S!Served
    BY <1>1, <2>1, <2>2, S!ServedBefore DEF Base, ServerOk, S!Recovery
  <2> QED BY <2>3, ServedIsWhole
<1>2. CASE sPeer' # sPeer
  <2>1. sPeer = S!Nobody
    <3>1. ClientAnswers \/ NobodyAnswers
      BY <1>2, ServerActs
      DEF Base, Next, Server, Control, Client, ServerThreads, ServerBypasses, ServerAsks, ClientThreads,
          AcceptFails,
          ClientReceives, ClientSeesEnd, RelayTakes, Crash, Over, vars, server
    <3> QED BY <3>1, ServerActs DEF Base, ClientAnswers, NobodyAnswers
  <2> QED BY <2>1 DEF Whole
<1> QED BY <1>1, <1>2

\* The packet that comes next on the server's connection is the next of the stream.
LEMMA NextOnWire ==
  ASSUME Base, Whole, Untorn, up \/ direct, taken < Len(sOut.wire), NEW p, p = sOut.wire[taken + 1]
  PROVE  /\ p \in StreamPacket
         /\ IF taken = 0 THEN p = S!Opening ELSE p = Successor(sOut.wire[taken])
<1> USE DEF Base
<1>1. sOut.wire \in Seq(Packet) /\ Len(sOut.wire) \in Nat /\ taken \in Nat
  BY ServerWords DEF ServerOk, S!Inductive, S!TypeOK, S!ConnectionType, LinksType
<1>2. taken + 1 \in 1 .. Len(sOut.wire)  BY <1>1
<1>3. S!Served  BY ServedIsWhole
<1>4. InOrder(sOut.wire) /\ (sOut.wire[1] = S!Opening \/ S!OnlyFragment)
  <2>1. sOut.wire # <<>>  BY <1>1
  <2> QED BY <1>3, <2>1, ServerWords DEF ServerOk, S!Sent
<1>5. p.kind # "frag"  BY <1>2 DEF Untorn
<1>6. p \in StreamPacket
  <2>1. p \in StreamPacket \cup {Fragment}  BY <1>2, <1>3, ServerWords DEF ServerOk, S!OnWire
  <2> QED BY <1>5, <2>1 DEF Fragment
<1>7. CASE taken = 0
  <2>1. p = sOut.wire[1]  BY <1>7
  <2>2. S!OnlyFragment => p = Fragment  BY <2>1, ServerWords DEF S!OnlyFragment
  <2> QED BY <1>4, <1>5, <1>6, <1>7, <2>1, <2>2 DEF Fragment
<1>8. CASE taken # 0
  <2>1. taken \in 1 .. Len(sOut.wire) - 1  BY <1>1, <1>8
  <2>2. p.kind = "frag" \/ p = Successor(sOut.wire[taken])  BY <1>4, <2>1 DEF InOrder
  <2> QED BY <1>5, <1>6, <1>8, <2>2
<1> QED BY <1>7, <1>8

LEMMA ReadyForIt ==
  ASSUME Base, Whole, Untorn, up \/ direct, taken < Len(sOut.wire), Ready
  PROVE  C!Awaits(sOut.wire[taken + 1])
<1>1. PICK p : p = sOut.wire[taken + 1]  OBVIOUS
<1>2. p \in StreamPacket /\ IF taken = 0 THEN p = S!Opening ELSE p = Successor(sOut.wire[taken])
  BY <1>1, NextOnWire
<1>3. CASE taken = 0  BY <1>1, <1>2, <1>3 DEF Ready
<1>4. CASE taken # 0
  <2>1. C!AwaitsAfter(sOut.wire[taken])  BY <1>4 DEF Ready
  <2>2. ~IsLast(sOut.wire[taken])  BY <1>2, <1>4, NothingAfterLast
  <2> QED BY <1>1, <1>2, <1>4, <2>1, <2>2, ClientWords DEF C!AwaitsAfter, C!Awaits
<1> QED BY <1>3, <1>4

\* What the last node receives is what it waits for.
LEMMA HeadAwaited ==
  ASSUME Base, Whole, Linking, ~C!Ended, Incoming # <<>>, ~Accepting
  PROVE  C!Awaits(Head(Incoming))
<1> USE DEF Base
<1>1. Linked  BY DEF Linking
<1>2. CASE direct
  <2>1. sOut.wire \in Seq(Packet) /\ Len(sOut.wire) \in Nat /\ taken \in Nat
    BY ServerWords DEF ServerOk, S!Inductive, S!TypeOK, S!ConnectionType, LinksType
  <2>2. taken < Len(sOut.wire) /\ Head(Incoming) = sOut.wire[taken + 1]
    BY <1>2, <2>1 DEF Incoming
  <2>3. Untorn /\ Ready  BY <1>1, <1>2 DEF Route, Linked
  <2> QED BY <1>2, <2>2, <2>3, ReadyForIt
<1>3. CASE ~direct  BY <1>1, <1>3 DEF Linked, Incoming, LinksType
<1> QED BY <1>2, <1>3

\* Whatever neither takes a packet nor connects leaves it so.
LEMMA LinkedStays ==
  ASSUME Base, Linked, UNCHANGED <<up, relay, direct, taken, sPeer>>, Accepting' = Accepting,
         C!NextPacket' = C!NextPacket, cReader'.pc = "done" <=> cReader.pc = "done",
         sOut'.wire[taken] = sOut.wire[taken] \/ taken = 0
  PROVE  Linked'
<1>1. \A p : C!Awaits(p)' <=> C!Awaits(p)  BY DEF C!Awaits
<1>2. \A p : C!AwaitsAfter(p)' <=> C!AwaitsAfter(p)  BY DEF C!AwaitsAfter
<1>3. S!Opening' = S!Opening  BY DEF S!Opening
<1>4. Ready => Ready'
  <2>1. CASE taken = 0
    <3>1. PICK p : p = S!Opening  OBVIOUS
    <3> QED BY <1>1, <1>3, <2>1, <3>1 DEF Ready
  <2>2. CASE taken # 0
    <3>1. PICK p : p = sOut.wire[taken]  OBVIOUS
    <3> QED BY <1>2, <2>2, <3>1 DEF Ready
  <2> QED BY <2>1, <2>2
<1>5. C!Awaits(relay[1]) => C!Awaits(relay[1])'
  <2>1. PICK p : p = relay[1]  OBVIOUS
  <2> QED BY <1>1, <2>1
<1>6. CASE direct \/ Accepting  BY <1>4, <1>6 DEF Linked
<1>7. CASE ~(direct \/ Accepting)
  <2>1. InOrder(relay)' <=> InOrder(relay)  BY DEF InOrder
  <2>2. up /\ relay # <<>> => sOut'.wire[taken] = sOut.wire[taken]  BY <1>7 DEF Linked
  <2>3. up => IF relay' = <<>> THEN Ready' ELSE taken > 0 /\ relay'[Len(relay')] = sOut'.wire[taken']
    BY <1>4, <1>7, <2>2 DEF Linked
  <2>4. relay' # <<>> => C!Awaits(relay[1])'  BY <1>5, <1>7 DEF Linked
  <2>5. InOrder(relay') /\ \A i \in 1 .. Len(relay') : relay'[i] \in StreamPacket
    BY <1>7 DEF Linked
  <2> QED BY <1>7, <2>3, <2>4, <2>5 DEF Linked
<1> QED BY <1>6, <1>7

LEMMA ClientReceivesStep ==
  ASSUME Base, Whole, Linking, Arriving, ~C!Ended, ClientReceives
  PROVE  Linking' /\ C!Ordered("whole")'
<1> USE ClientConstants DEF Base, ClientOk
<1>1. Incoming # <<>> /\ server' = server  BY DEF ClientReceives
<1>2. PICK p \in Packet : p = Head(Incoming)  BY <1>1, IncomingType
<1>5. /\ ~Accepting
      /\ \/ C!RecvHeader(p) /\ UNCHANGED links
         \/ C!RecvFileno(p) /\ Consume /\ UNCHANGED <<up, direct>>
         \/ C!RecvBody(p) /\ Consume /\ UNCHANGED <<up, direct>>
         \/ C!Fails(p) /\ C!Ended' /\ UNCHANGED links
  BY <1>2, ReceiveActs DEF Route
<1>3. C!Awaits(p) /\ Linked  BY <1>1, <1>2, <1>5, HeadAwaited DEF Linking
<1>4. C!Ordered("whole")  BY DEF Arriving
<1>6. UNCHANGED <<sOut, sPeer, sWriter>>  BY <1>1 DEF server
<1>7. cReconnect' = cReconnect
  <2>1. C!Fails(p) \/ C!Receive(p, p)  BY <1>2, ReceiveActs
  <2> QED BY <2>1, C!ReconnectStays
<1>8. C!Ordered("whole")'
  <2>1. CASE C!Fails(p)
    <3>1. C!Besides(p)  BY <2>1 DEF C!Besides
    <3> QED BY <1>4, <3>1, C!BesidesOrdered
  <2>2. CASE C!Receive(p, p)
    <3>1. cReader.pc \in {"recv_header", "recv_body"} => p = C!ChunkPacket(C!Expected)
      BY <1>3 DEF C!Awaits, C!NextPacket, C!Wanted
    <3>2. cReader.pc \in {"recv_header", "recv_body"} => p.chunk = C!Expected /\ p.body = C!Expected
      BY <3>1 DEF C!ChunkPacket
    <3> QED BY <1>4, <2>2, <3>2, C!ReceiveOrdered
  <2> QED BY <1>5, <2>1, <2>2 DEF C!Receive
<1>9. CASE C!RecvHeader(p) /\ UNCHANGED links
  <2>1. C!NextPacket' = C!NextPacket /\ (cReader'.pc = "done" <=> cReader.pc = "done")
    BY <1>9, C!BesidesAwaits
  <2>2. UNCHANGED <<up, relay, direct, taken, sPeer>> /\ Accepting' = Accepting
    BY <1>6, <1>7, <1>9 DEF links, Accepting
  <2>3. Linked'  BY <1>3, <1>6, <2>1, <2>2, LinkedStays
  <2> QED BY <1>8, <2>3 DEF Linking
<1>10. CASE C!Ended'  BY <1>8, <1>10 DEF Linking
<1>11. CASE (C!RecvFileno(p) \/ C!RecvBody(p)) /\ Consume /\ UNCHANGED <<up, direct>>
  <2>1. C!AwaitsAfter(p)'  BY <1>3, <1>4, <1>11, C!ReceivedNext
  <2>2. sOut.wire \in Seq(Packet) /\ Len(sOut.wire) \in Nat /\ taken \in Nat /\ relay \in Seq(Packet)
    BY ServerWords DEF ServerOk, S!Inductive, S!TypeOK, S!ConnectionType, LinksType
  <2>3. CASE direct
    <3>1. taken' = taken + 1 /\ direct'  BY <1>11, <2>3 DEF Consume
    <3>2. sOut'.wire[taken'] = p  BY <1>1, <1>2, <1>6, <2>2, <2>3, <3>1 DEF Incoming
    <3>3. Ready'  BY <2>1, <2>2, <3>1, <3>2 DEF Ready
    <3> QED BY <1>8, <3>1, <3>3 DEF Linking, Linked
  <2>4. CASE ~direct
    <3>1. relay' = Tail(relay) /\ taken' = taken /\ ~direct' /\ ~Accepting' /\ up' = up
      BY <1>5, <1>6, <1>7, <1>11, <2>4 DEF Consume, Accepting
    <3>2. relay # <<>> /\ p = relay[1]  BY <1>1, <1>2, <2>2, <2>4 DEF Incoming
    <3>3. /\ InOrder(relay) /\ \A i \in 1 .. Len(relay) : relay[i] \in StreamPacket
          /\ up => taken > 0 /\ relay[Len(relay)] = sOut.wire[taken]
      BY <1>1, <1>3, <1>5, <2>4, <3>2 DEF Linked
    <3>4. /\ Len(relay) \in Nat \ {0} /\ Len(relay') = Len(relay) - 1
          /\ \A i \in 1 .. Len(relay') : relay'[i] = relay[i + 1]
      BY <2>2, <3>1, <3>2
    <3>5. InOrder(relay')
      <4> SUFFICES ASSUME NEW i \in 1 .. Len(relay') - 1
                   PROVE  /\ relay'[i].kind # "frag"
                          /\ relay'[i + 1].kind = "frag" \/ relay'[i + 1] = Successor(relay'[i])
        BY DEF InOrder
      <4>1. i + 1 \in 1 .. Len(relay) - 1 /\ relay'[i] = relay[i + 1] /\ relay'[i + 1] = relay[i + 1 + 1]
        BY <3>4
      <4> QED BY <3>3, <4>1 DEF InOrder
    <3>6. \A i \in 1 .. Len(relay') : relay'[i] \in StreamPacket
      <4> TAKE i \in 1 .. Len(relay')
      <4>1. i + 1 \in 1 .. Len(relay) /\ relay'[i] = relay[i + 1]  BY <3>4
      <4> QED BY <3>3, <4>1
    <3>7. ASSUME relay' # <<>> PROVE C!Awaits(relay[1])'
      <4>1. 1 \in 1 .. Len(relay) - 1 /\ 2 \in 1 .. Len(relay)
        <5>1. relay' \in Seq(Packet)  BY <2>2, <3>1, <3>2
        <5> QED BY <3>4, <3>7, <5>1
      <4>2. PICK q : q = relay[2]  OBVIOUS
      <4>3. q \in StreamPacket /\ q.kind # "frag"  BY <3>3, <4>1, <4>2, StreamIsTyped
      <4>4. q = Successor(p)  BY <3>2, <3>3, <4>1, <4>2, <4>3 DEF InOrder
      <4>5. ~IsLast(p)  BY <4>3, <4>4, NothingAfterLast
      <4>6. C!Awaits(q)'  BY <2>1, <4>4, <4>5, ClientWords DEF C!AwaitsAfter, C!Awaits
      <4>7. relay'[1] = q  BY <3>4, <4>1, <4>2
      <4> QED BY <4>6, <4>7
    <3>8. ASSUME up' PROVE IF relay' = <<>> THEN Ready'
                           ELSE taken' > 0 /\ relay'[Len(relay')] = sOut'.wire[taken']
      <4>1. taken > 0 /\ relay[Len(relay)] = sOut.wire[taken]  BY <3>1, <3>3, <3>8
      <4>2. CASE relay' = <<>>
        <5>1. Len(relay) = 1  BY <3>4, <4>2
        <5>2. sOut'.wire[taken'] = p /\ taken' # 0  BY <1>6, <3>1, <3>2, <4>1, <5>1, <2>2
        <5> QED BY <2>1, <4>2, <5>2 DEF Ready
      <4>3. CASE relay' # <<>>
        <5>1. Len(relay') \in 1 .. Len(relay')
          <6>1. relay' \in Seq(Packet)  BY <2>2, <3>1, <3>2
          <6> QED BY <4>3, <6>1
        <5>2. relay'[Len(relay')] = relay[Len(relay)]  BY <3>4, <5>1
        <5> QED BY <1>6, <3>1, <4>1, <4>3, <5>2
      <4> QED BY <4>2, <4>3
    <3>9. Linked'
      <4>1. ~(direct' \/ Accepting')  BY <3>1
      <4> QED BY <3>5, <3>6, <3>7, <3>8, <4>1 DEF Linked, InOrder
    <3> QED BY <1>8, <3>9 DEF Linking
  <2> QED BY <2>3, <2>4
<1> QED BY <1>5, <1>9, <1>10, <1>11

LEMMA RelayStep ==
  ASSUME Base, Linking, RelayTakes \/ Crash
  PROVE  Linking'
<1> USE DEF Base
<1>1. up /\ UNCHANGED <<server, client, direct>>  BY DEF RelayTakes, Crash
<1>2. UNCHANGED <<sOut, sPeer, cReader, cReconnect, cDisk, cExited>>  BY <1>1 DEF server, client
<1>3. ~direct /\ sPeer = S!Nobody /\ Untorn  BY <1>1 DEF Route, AfterBypass, BeforeBypass, Bypassing
<1>4. C!Ended' <=> C!Ended  BY <1>2 DEF C!Ended
<1> SUFFICES ASSUME ~C!Ended PROVE Linked'  BY <1>4 DEF Linking
<1>5. ~Accepting /\ ~(direct' \/ Accepting')  BY <1>1, <1>2, <1>3 DEF Route, Accepting
<1>6. Whole /\ Linked  BY <1>3 DEF Whole, Linking
<1>7. /\ InOrder(relay) /\ \A i \in 1 .. Len(relay) : relay[i] \in StreamPacket
      /\ relay # <<>> => C!Awaits(relay[1])
      /\ IF relay = <<>> THEN Ready ELSE taken > 0 /\ relay[Len(relay)] = sOut.wire[taken]
  BY <1>1, <1>3, <1>5, <1>6 DEF Linked
<1>8. /\ sOut.wire \in Seq(Packet) /\ Len(sOut.wire) \in Nat /\ taken \in Nat
      /\ relay \in Seq(Packet) /\ Len(relay) \in Nat
  BY ServerWords DEF ServerOk, S!Inductive, S!TypeOK, S!ConnectionType, LinksType
<1>9. \A q : C!Awaits(q)' <=> C!Awaits(q)
  BY <1>2 DEF C!Awaits, C!NextPacket, C!Asked, C!Wanted, C!Expected
<1>10. CASE RelayTakes
  <2>1. taken < Len(sOut.wire) /\ taken' = taken + 1 /\ relay' = Append(relay, sOut.wire[taken + 1])
    BY <1>8, <1>10 DEF RelayTakes, Unread
  <2>2. PICK p \in Packet : p = sOut.wire[taken + 1]
    <3>1. taken + 1 \in 1 .. Len(sOut.wire)  BY <1>8, <2>1
    <3> QED BY <1>8, <3>1
  <2>3. /\ p \in StreamPacket
        /\ IF taken = 0 THEN p = S!Opening ELSE p = Successor(sOut.wire[taken])
    BY <1>1, <1>3, <1>6, <2>1, <2>2, NextOnWire
  <2>4. relay' = Append(relay, p)  BY <2>1, <2>2
  <2>5. relay # <<>> => relay[Len(relay)].kind # "frag" /\ p = Successor(relay[Len(relay)])
    <3>1. relay # <<>> => Len(relay) \in 1 .. Len(relay)  BY <1>8
    <3>2. relay # <<>> => relay[Len(relay)] \in StreamPacket  BY <1>7, <3>1
    <3> QED BY <1>7, <1>8, <2>3, <3>2, StreamIsTyped
  <2>6. /\ InOrder(relay') /\ relay' # <<>> /\ relay'[Len(relay')] = p
        /\ relay'[1] = IF relay = <<>> THEN p ELSE relay[1]
    BY <1>7, <1>8, <2>4, <2>5, InOrderAppend
  <2>7. \A i \in 1 .. Len(relay') : relay'[i] \in StreamPacket
    <3> TAKE i \in 1 .. Len(relay')
    <3>1. i \in 1 .. Len(relay) \/ i = Len(relay) + 1  BY <1>8, <2>4
    <3>2. relay'[i] = IF i = Len(relay) + 1 THEN p ELSE relay[i]  BY <1>8, <2>4, <3>1
    <3> QED BY <1>7, <2>3, <3>1, <3>2
  <2>8. C!Awaits(relay[1])'
    <3>1. PICK q : q = relay'[1]  OBVIOUS
    <3>2. C!Awaits(q)
      <4>1. CASE relay = <<>>
        <5>1. C!Awaits(sOut.wire[taken + 1])
          BY <1>1, <1>3, <1>6, <1>7, <2>1, <4>1, ReadyForIt
        <5> QED BY <2>2, <2>6, <3>1, <4>1, <5>1
      <4>2. CASE relay # <<>>  BY <1>7, <2>6, <3>1, <4>2
      <4> QED BY <4>1, <4>2
    <3> QED BY <1>9, <3>1, <3>2
  <2>9. taken' > 0 /\ relay'[Len(relay')] = sOut'.wire[taken']  BY <1>2, <1>8, <2>1, <2>2, <2>6
  <2>10. InOrder(relay)'  BY <2>6 DEF InOrder
  <2> QED BY <1>5, <2>6, <2>7, <2>8, <2>9, <2>10 DEF Linked
<1>11. CASE Crash
  <2>1. PICK k \in 0 .. Len(relay) : relay' = SubSeq(relay, 1, k)  BY <1>11 DEF Crash
  <2>2. Len(relay') = k /\ \A i \in 1 .. k : relay'[i] = relay[i] /\ i \in 1 .. Len(relay)
    BY <1>8, <2>1
  <2>3. InOrder(relay)'
    <3> SUFFICES ASSUME NEW i \in 1 .. k - 1
                 PROVE  /\ relay'[i].kind # "frag"
                        /\ relay'[i + 1].kind = "frag" \/ relay'[i + 1] = Successor(relay'[i])
      BY <2>2 DEF InOrder
    <3>1. i \in 1 .. Len(relay) - 1 /\ relay'[i] = relay[i] /\ relay'[i + 1] = relay[i + 1]
      BY <1>8, <2>2
    <3> QED BY <1>7, <3>1 DEF InOrder
  <2>4. \A i \in 1 .. Len(relay') : relay'[i] \in StreamPacket  BY <1>7, <2>2
  <2>5. ASSUME relay' # <<>> PROVE C!Awaits(relay[1])'
    <3>1. 1 \in 1 .. k
      <4>1. relay' \in Seq(Packet)  BY <1>8, <2>1
      <4> QED BY <2>2, <2>5, <4>1
    <3>2. PICK q : q = relay[1]  OBVIOUS
    <3>3. C!Awaits(q)
      <4>1. relay # <<>>  BY <1>8, <3>1
      <4> QED BY <1>7, <3>2, <4>1
    <3>4. q = relay'[1]  BY <2>2, <3>1, <3>2
    <3> QED BY <1>9, <3>3, <3>4
  <2>6. ~up'  BY <1>11 DEF Crash
  <2> QED BY <1>5, <2>3, <2>4, <2>5, <2>6 DEF Linked
<1> QED BY <1>10, <1>11

\* The answer of the last node is the chunk it waits for, and the first packet of the
\* new connection is that chunk.
LEMMA AnswerStep ==
  ASSUME Base, ClientAnswers
  PROVE  Linking'
<1> USE DEF Base
<1>1. /\ sWriter.pc = "rec_ack" /\ sPeer = S!Nobody /\ UNCHANGED <<up, direct, taken>>
  BY ServerActs DEF ClientAnswers
<1>2. ~direct /\ taken = 0  BY <1>1 DEF Route, AfterBypass, BeforeBypass, Bypassing
<1>3. CASE sExited' = "control"
  <2>1. relay' = <<>> /\ ~direct' /\ ~up' /\ sPeer' = S!Nobody
    <3>1. ~up  BY <1>1, <1>2 DEF Route, BeforeBypass, Bypassing
    <3> QED BY <1>1, <1>2, <1>3, <3>1, ServerActs DEF ClientAnswers
  <2>2. InOrder(<<>>) /\ \A i \in 1 .. Len(<<>>) : <<>>[i] \in StreamPacket  BY DEF InOrder
  <2> QED BY <2>1, <2>2 DEF Linking, Linked, Accepting, InOrder
<1>4. CASE sExited' # "control"
  <2>1. /\ cReconnect' = "served" /\ cReader' = [cReader EXCEPT !.pc = "accept"]
        /\ sPeer'.waits = C!Expected
    BY <1>4 DEF ClientAnswers, C!Reconnects, C!ReadGoto
  <2>2. sPeer' # S!Nobody
    <3>1. sWriter'.pc = "rec_connect"  BY <1>4, ServerActs DEF ClientAnswers
    <3>2. ServerOk'  BY ServerStep DEF Next, Control
    <3> QED BY <3>1, <3>2 DEF ServerOk, S!Recovery, S!OneRecovery, S!Resending
  <2>3. cReader \in C!ReaderType  BY DEF ClientOk, C!TypeOK
  <2>4. /\ cReader'.pc = "accept" /\ cReader'.fileno = cReader.fileno
        /\ cReader'.seqno = cReader.seqno
    BY <2>1, <2>3 DEF C!ReaderType
  <2>5. PICK c : c = C!Expected  OBVIOUS
  <2>6. C!NextPacket' = ChunkPacket(c)
    BY <2>4, <2>5, ClientWords DEF C!NextPacket, C!Wanted, C!Expected
  <2>7. S!Opening' = ChunkPacket(c)  BY <2>1, <2>2, <2>5, ServerWords DEF S!Opening
  <2>8. C!Awaits(S!Opening)'  BY <2>4, <2>6, <2>7 DEF C!Awaits
  <2>9. Accepting' /\ taken' = 0  BY <1>1, <1>2, <2>1, <2>2 DEF Accepting
  <2> QED BY <2>8, <2>9 DEF Linking, Linked, Ready
<1> QED BY <1>3, <1>4

LEMMA BypassStep ==
  ASSUME Base, Linking, Whole, ServerBypasses, ~C!Ended
  PROVE  Linking'
<1> USE DEF Base
<1>1. UNCHANGED <<up, relay, sPeer>> /\ Bypassing
  BY ServerActs DEF ServerBypasses, Bypassing, links
<1>2. ~direct /\ ~up  BY <1>1 DEF Route, AfterBypass, BeforeBypass
<1>3. Linked  BY DEF Linking
<1>4. C!NextPacket' = C!NextPacket /\ (cReader'.pc = "done" <=> cReader.pc = "done")
  <2>1. \E p \in Packet : C!Besides(p) \/ UNCHANGED C!vars
    <3>1. UNCHANGED client => UNCHANGED C!vars
      BY DEF client, C!vars, C!semaphores, C!readVars, C!writeVars, C!diskVars
    <3>2. C!Besides(Fragment) \/ UNCHANGED client
      BY DEF ServerBypasses, C!Besides, C!Reconnection
    <3> QED BY <3>1, <3>2, TornIsTyped
  <2> QED BY <2>1, ClientConstants, C!BesidesAwaits DEF ClientOk
<1>5. \A q : C!Awaits(q)' <=> C!Awaits(q)
  BY <1>4 DEF C!Awaits
<1>6. CASE S!RecoverHost /\ taken' = 0 /\ UNCHANGED <<client, up, relay, direct>>
  <2>1. ~Accepting /\ ~(direct' \/ Accepting')
    <3>1. sWriter.pc = "rec_host"  BY <1>6, ServerActs
    <3> QED BY <1>1, <1>2, <1>6, <3>1 DEF Route, BeforeBypass, Accepting
  <2>2. relay' # <<>> => C!Awaits(relay[1])'
    <3>1. PICK q : q = relay[1]  OBVIOUS
    <3>2. relay # <<>> => C!Awaits(q)  BY <1>2, <1>3, <2>1, <3>1 DEF Linked
    <3> QED BY <1>1, <1>5, <3>1, <3>2
  <2>3. InOrder(relay)' /\ \A i \in 1 .. Len(relay') : relay'[i] \in StreamPacket
    BY <1>1, <1>2, <1>3, <2>1 DEF Linked, InOrder
  <2> QED BY <1>1, <1>2, <2>1, <2>2, <2>3 DEF Linking, Linked
<1>7. CASE S!RecoverConnect /\ C!Accepted /\ direct' = TRUE /\ UNCHANGED <<up, relay, taken>>
  <2>1. sWriter.pc = "rec_connect" /\ sPeer # S!Nobody  BY <1>7, ServerActs
  <2>2. Accepting /\ taken = 0  BY <1>2, <2>1 DEF Route, BeforeBypass, Accepting
  <2>3. Ready'
    <3>1. PICK q : q = S!Opening  OBVIOUS
    <3>2. C!Awaits(q)  BY <1>3, <2>2, <3>1 DEF Linked, Ready
    <3>3. S!Opening' = q  BY <1>1, <3>1 DEF S!Opening
    <3>4. C!Awaits(S!Opening)'  BY <1>5, <3>2, <3>3
    <3> QED BY <1>7, <2>2, <3>4 DEF Ready
  <2>4. direct' \/ Accepting'  BY <1>7
  <2> QED BY <2>3, <2>4 DEF Linking, Linked
<1> QED BY <1>6, <1>7 DEF ServerBypasses

\* The invariant of the three hosts.
LEMMA MeetingStep ==
  ASSUME Base, Linking, Arriving, [Next]_vars
  PROVE  Linking' /\ Arriving'
<1> USE ClientConstants DEF Base
<1>1. CASE ~Whole \/ ~Whole'  
  <2>1. ~Whole'  BY <1>1, WholeBefore
  <2> QED BY <2>1 DEF Linking, Arriving
<1>2. CASE Whole /\ ClientReceives
  <2>1. ~C!Ended  BY <1>2, ReceiveActs
  <2> QED BY <1>2, <2>1, ClientReceivesStep DEF Arriving
<1>3. CASE Whole /\ ~ClientReceives
  <2>2. PICK p \in Packet : C!Besides(p) \/ UNCHANGED C!vars  BY <1>3, ClientBesides
  <2>3. Arriving'  BY <1>3, <2>2, C!BesidesOrdered DEF Arriving, ClientOk
  <2>4. C!NextPacket' = C!NextPacket /\ (cReader'.pc = "done" <=> cReader.pc = "done")
    BY <2>2, C!BesidesAwaits DEF ClientOk
  <2>5. CASE C!Ended  BY <2>3, <2>5, EndedKept DEF Linking
  <2>6. CASE ~C!Ended
    <3>1. Linked  BY <1>3, <2>6 DEF Linking
    <3>2. CASE RelayTakes \/ Crash  BY <2>3, <3>2, RelayStep
    <3>3. CASE ClientAnswers  BY <2>3, <3>3, AnswerStep
    <3>4. CASE ServerBypasses  BY <1>3, <2>3, <2>6, <3>4, BypassStep
    <3>5. CASE ServerThreads \/ ServerSends \/ NobodyAnswers \/ ServerAsks \/ ClientThreads \/ AcceptFails
               \/ ClientSeesEnd \/ Over \/ UNCHANGED vars
      <4>1. UNCHANGED links
        BY <3>5 DEF ServerThreads, ServerSends, NobodyAnswers, ServerAsks, ClientThreads, AcceptFails,
                    ClientSeesEnd,
                    Over, vars
      <4>2. sPeer' = sPeer /\ (sOut' = sOut \/ ~Bypassing)
        BY <3>5, ServerActs DEF ServerThreads, ServerSends, NobodyAnswers, ServerAsks, ClientThreads,
                                AcceptFails,
                    ClientSeesEnd, Over, vars, server
      <4>3. sOut'.wire[taken] = sOut.wire[taken] \/ taken = 0
        <5>1. taken \in 0 .. Len(sOut.wire)  BY DEF LinksType
        <5>2. sOut' = sOut \/ taken \in 1 .. Len(sOut.wire) => sOut'.wire[taken] = sOut.wire[taken]
          BY <4>2, WireKeeps DEF Bypassing
        <5>3. Len(sOut.wire) \in Nat
          BY DEF ServerOk, S!Inductive, S!TypeOK, S!ConnectionType
        <5> QED BY <5>1, <5>2, <5>3
      <4>4. Accepting' = Accepting
        <5>1. CASE ServerAsks  BY <4>1, <4>2, <5>1 DEF ServerAsks, C!ReconnectArrives, Accepting, links
        <5>2. CASE ClientThreads \/ AcceptFails \/ ClientSeesEnd
          BY <4>1, <4>2, <5>2, WaitsOn DEF Accepting, links
        <5>3. CASE ServerThreads \/ ServerSends \/ NobodyAnswers \/ Over \/ UNCHANGED vars
          BY <4>2, <5>3 DEF ServerThreads, ServerSends, NobodyAnswers, Over, vars, client, links, Accepting
        <5> QED BY <3>5, <5>1, <5>2, <5>3
      <4>5. Linked'  BY <2>4, <3>1, <4>1, <4>2, <4>3, <4>4, LinkedStays DEF links
      <4> QED BY <2>3, <4>5 DEF Linking
    <3> QED BY <1>3, <3>2, <3>3, <3>4, <3>5 DEF Next, Server, Control, Client
  <2> QED BY <2>5, <2>6
<1> QED BY <1>1, <1>2, <1>3

LEMMA InitMeeting == Init => Linking /\ Arriving
<1> SUFFICES ASSUME Init PROVE Linking /\ Arriving  OBVIOUS
<1>1. S!Init /\ C!Init /\ up /\ relay = <<>> /\ ~direct /\ taken = 0  BY DEF Init
<1>2. sPeer = S!Nobody /\ cReader.pc = "start" /\ cReader.fileno = 0 /\ ~Accepting
  BY <1>1 DEF S!Init, C!Init, Accepting
<1>3. C!Awaits(S!Opening)
  BY <1>2, ServerWords, ClientWords DEF C!Awaits, C!NextPacket, C!Asked, S!Opening
<1>4. Linking
  <2>1. InOrder(<<>>) /\ \A i \in 1 .. Len(<<>>) : <<>>[i] \in StreamPacket  BY DEF InOrder
  <2> QED BY <1>1, <1>2, <1>3, <2>1 DEF Linking, Linked, Ready
<1>5. Arriving
  <2>1. PICK n \in Nat : \E c \in [Nat -> C!ChunkType] : n = 0 /\ C!OrderedBy("whole", n, c)
    BY <1>1, ClientConstants, C!InitOrderedBy
  <2> QED BY <2>1 DEF Arriving, C!Ordered
<1> QED BY <1>4, <1>5

LEMMA MeetingAlways == Spec => [](Base /\ Linking /\ Arriving)
<1>1. Init => Base /\ Linking /\ Arriving  BY InitBase, InitMeeting
<1>2. (Base /\ Linking /\ Arriving) /\ [Next]_vars => (Base /\ Linking /\ Arriving)'
  BY BaseStep, MeetingStep
<1> QED BY <1>1, <1>2, PTL DEF Spec

LEMMA ArrivesWhole ==
  ASSUME Base, Arriving, Whole
  PROVE  DiskIsPrefix /\ FinishedHasAll
<1> USE ClientConstants DEF Base, ClientOk
<1>1. C!Ordered("whole")  BY DEF Arriving
<1>2. DiskIsPrefix  BY <1>1, C!OrderedIsPrefix DEF DiskIsPrefix
<1>3. cStopped => cDisk.pc = "done"  BY <1>1 DEF C!Ordered, C!OrderedBy, C!OnDisk
<1>4. cExited = "report" => cDisk.pc = "report"  BY DEF C!Reporting
<1>5. cDisk.pc \in {"report", "done"} => Len(cFiles) = C!Total  BY <1>1, C!OrderedIsTotal
<1> QED BY <1>2, <1>3, <1>4, <1>5 DEF FinishedHasAll

-----------------------------------------------------------------------------
(***************************************************************************)
(* Where a bypass is not whole.  The last node may then be sent chunks it  *)
(* does not wait for, and takes them.  If so it has left the stream, and   *)
(* it never gets to the end; if not, what it takes it takes in the order   *)
(* of the stream.                                                          *)
(***************************************************************************)
\* The server's part: of the connection after a request, and how far writenet() is.
Resuming == S!Onward /\ S!Renewed

LEMMA InitResuming == Init => Resuming
BY DEF Init, S!Init, Resuming, S!Onward, S!Renewed, S!SameFile

LEMMA ResumingStep == Base /\ Resuming /\ [Next]_vars => Resuming'
BY ServerConstants, ServerMoves, S!OnwardStep, S!RenewedStep DEF Base, ServerOk, S!Inductive, Resuming

\* The packet the last node is to get next.
Offered == sOut.wire[taken + 1]
\* It has got the number of a file since it was connected to the server.
NumberSeen == \E k \in 1 .. taken : sOut.wire[k].kind = "fileno"
OnTrack ==
  /\ S!SameFile /\ C!Ordered("named")
  /\ C!InFile(sPeer.hand.fileno) \/ (NumberSeen /\ C!AwaitsAfter(sOut.wire[taken]))

\* It is past the end of the file it asked for, or about to be, and the packet of that
\* end, which the number of the next file follows, is behind it.
EndsFile(p) ==
  LET f == sPeer.waits.fileno IN p.kind = "data" /\ p.chunk = Chunk(f, LastSeq[f])
PastEnd ==
  LET last == LastSeq[sPeer.waits.fileno]
  IN IF cReader.pc = "recv_fileno" THEN taken > 0 /\ ~EndsFile(sOut.wire[taken])
     ELSE IF cReader.pc = "recv_body"
     THEN \/ C!InBank.seqno # cReader.seqno
          \/ /\ taken < Len(sOut.wire) /\ ~EndsFile(Offered)
             /\ C!InBank.eof = "NORMAL" => cReader.seqno >= last
     ELSE cReader.seqno > last
\* It waits in that file for a number that never comes, or refuses the chunk it gets.
OffTrack ==
  \/ LET f == sPeer.waits.fileno
     IN /\ f + 1 < NoFiles /\ f <= sPeer.hand.fileno
        /\ cReader.pc # "done" /\ C!InFile(f)
        /\ f = sPeer.hand.fileno => PastEnd
  \/ cReader.pc = "recv_body" /\ C!InBank.seqno # cReader.seqno

Invited == C!Expected = sPeer.waits /\ C!Ordered("named")
Fate ==
  /\ ~C!Ended => (direct => OnTrack \/ OffTrack) /\ (Accepting => Invited)
  /\ C!Unfinished /\ (cReader.pc = "done" => C!Ordered("named"))

LEMMA Connected ==
  ASSUME Base, direct, ~C!Ended
  PROVE  /\ sPeer # S!Nobody /\ Untorn /\ ~Bypassing /\ cReconnect = "served" /\ ~Accepting
         /\ sPeer.waits \in Chunks /\ sPeer.hand \in Chunks
         /\ sPeer.waits.fileno \in File /\ sPeer.hand.fileno \in File
         /\ sPeer.waits.fileno <= sPeer.hand.fileno
         /\ sOut.wire \in Seq(Packet) /\ Len(sOut.wire) \in Nat /\ taken \in 0 .. Len(sOut.wire)
<1> USE DEF Base
<1>1. sPeer # S!Nobody /\ Untorn /\ ~Bypassing /\ cReconnect = "served" /\ ~Accepting
  BY DEF Route, AfterBypass, Accepting
<1>2. /\ sPeer.waits \in Chunks /\ sPeer.hand \in Chunks
      /\ S!Pos(sPeer.waits) <= S!Pos(sPeer.hand)
  BY <1>1, ServerWords DEF ServerOk, S!Recovery, S!Request
<1>3. sPeer.waits.fileno <= sPeer.hand.fileno
  BY <1>2, ServerConstants, ServerWords, S!PlacesByFile
<1>4. sOut.wire \in Seq(Packet) /\ Len(sOut.wire) \in Nat /\ taken \in 0 .. Len(sOut.wire)
  BY ServerWords DEF ServerOk, S!Inductive, S!TypeOK, S!ConnectionType, LinksType
<1> QED BY <1>1, <1>2, <1>3, <1>4, ChunkPlace

\* Steps that take nothing from the connection.
LEMMA TrackStays ==
  ASSUME Base, direct, ~C!Ended, NEW p \in Packet, C!Besides(p) \/ UNCHANGED C!vars,
         UNCHANGED <<taken, sPeer>>, Len(sOut'.wire) \in Nat, Len(sOut.wire) <= Len(sOut'.wire),
         \A i \in 1 .. Len(sOut.wire) : sOut'.wire[i] = sOut.wire[i]
  PROVE  (OnTrack => OnTrack') /\ (OffTrack => OffTrack')
<1> USE ClientConstants DEF Base, ClientOk
<1>1. /\ cReconnect = "served" /\ Len(sOut.wire) \in Nat /\ taken \in 0 .. Len(sOut.wire)
  BY Connected
<1>2. /\ C!InBank' = C!InBank /\ cReader'.fileno = cReader.fileno /\ cReader'.seqno = cReader.seqno
      /\ cReader.pc # "start" =>
           cReader'.pc # "start" /\ (cReader'.pc = "recv_fileno" <=> cReader.pc = "recv_fileno")
      /\ cReader'.pc = "recv_body" <=> cReader.pc = "recv_body"
      /\ \A h : C!InFile(h) => C!InFile(h)'
  BY <1>1, C!BesidesStays
<1>3. C!NextPacket' = C!NextPacket /\ (cReader'.pc = "done" <=> cReader.pc = "done")
  BY C!BesidesAwaits
<1>4. C!Ordered("named") => C!Ordered("named")'  BY C!BesidesOrdered
<1>5. \A k \in 1 .. taken : sOut'.wire[k] = sOut.wire[k]  BY <1>1
<1>6. taken > 0 => sOut'.wire[taken] = sOut.wire[taken]  BY <1>1
<1>7. taken < Len(sOut.wire) => Offered' = Offered /\ taken' < Len(sOut'.wire)
  BY <1>1 DEF Offered
<1>8. ASSUME OnTrack PROVE OnTrack'
  <2>1. S!SameFile'  BY <1>8 DEF OnTrack, S!SameFile
  <2>2. CASE C!InFile(sPeer.hand.fileno)
    <3>1. PICK h : h = sPeer.hand.fileno  OBVIOUS
    <3>2. C!InFile(h)'  BY <1>2, <2>2, <3>1
    <3>3. C!InFile(sPeer.hand.fileno)'  BY <3>1, <3>2
    <3> QED BY <1>4, <1>8, <2>1, <3>3 DEF OnTrack
  <2>3. CASE NumberSeen /\ C!AwaitsAfter(sOut.wire[taken])
    <3>1. NumberSeen'  BY <1>5, <2>3 DEF NumberSeen
    <3>2. taken > 0  BY <1>1, <2>3 DEF NumberSeen
    <3>3. PICK q : q = sOut.wire[taken]  OBVIOUS
    <3>4. C!AwaitsAfter(q)'  BY <1>3, <2>3, <3>3 DEF C!AwaitsAfter
    <3>5. C!AwaitsAfter(sOut.wire[taken])'  BY <1>6, <3>2, <3>3, <3>4
    <3> QED BY <1>4, <1>8, <2>1, <3>1, <3>5 DEF OnTrack
  <2> QED BY <1>8, <2>2, <2>3 DEF OnTrack
<1>9. ASSUME OffTrack PROVE OffTrack'
  <2>1. CASE cReader.pc = "recv_body" /\ C!InBank.seqno # cReader.seqno
    BY <1>2, <2>1 DEF OffTrack
  <2>2. CASE ~(cReader.pc = "recv_body" /\ C!InBank.seqno # cReader.seqno)
    <3>1. PICK f : f = sPeer.waits.fileno  OBVIOUS
    <3>2. /\ f + 1 < NoFiles /\ f <= sPeer.hand.fileno /\ cReader.pc # "done" /\ C!InFile(f)
          /\ f = sPeer.hand.fileno => PastEnd
      BY <1>9, <2>2, <3>1 DEF OffTrack
    <3>3. cReader.pc # "start"  BY <3>2 DEF C!InFile
    <3>4. PastEnd => PastEnd'
      BY <1>2, <1>6, <1>7, <3>3 DEF PastEnd, EndsFile
    <3>5. C!InFile(f)'  BY <1>2, <3>2
    <3> QED BY <1>3, <3>1, <3>2, <3>4, <3>5 DEF OffTrack
  <2> QED BY <2>1, <2>2
<1> QED BY <1>8, <1>9

LEMMA ReceivedPacket ==
  ASSUME Base, direct, ClientReceives
  PROVE  /\ ~C!Ended /\ taken < Len(sOut.wire) /\ Offered \in Packet
         /\ UNCHANGED <<sOut, sPeer, direct>> /\ cReconnect' = cReconnect
         /\ \/ (C!Fails(Offered) \/ C!RecvHeader(Offered)) /\ taken' = taken
            \/ (C!RecvFileno(Offered) \/ C!RecvBody(Offered)) /\ taken' = taken + 1
<1> USE ClientConstants DEF Base
<1>1. ~C!Ended  BY ReceiveActs
<1>2. sOut.wire \in Seq(Packet) /\ Len(sOut.wire) \in Nat /\ taken \in 0 .. Len(sOut.wire)
  BY <1>1, Connected
<1>3. Incoming = SubSeq(sOut.wire, taken + 1, Len(sOut.wire)) /\ Incoming # <<>>
  BY DEF ClientReceives, Incoming
<1>4. taken < Len(sOut.wire)  BY <1>2, <1>3
<1>5. Offered \in Packet /\ Head(Incoming) = Offered
  BY <1>2, <1>3, <1>4 DEF Offered
<1>6. UNCHANGED <<sOut, sPeer>>  BY DEF ClientReceives, server
<1>7. /\ direct' = direct
      /\ \/ (C!Fails(Offered) \/ C!RecvHeader(Offered)) /\ taken' = taken
         \/ (C!RecvFileno(Offered) \/ C!RecvBody(Offered)) /\ taken' = taken + 1
  BY <1>5, ReceiveActs DEF Consume, links
<1>8. cReconnect' = cReconnect
  <2>1. C!Fails(Offered) \/ C!Receive(Offered, Offered)  BY <1>5, ReceiveActs
  <2> QED BY <2>1, C!ReconnectStays
<1> QED BY <1>1, <1>4, <1>5, <1>6, <1>7, <1>8

\* What a request of the file in hand brings: chunks of that file and of later ones,
\* and from the first file number on the stream.
LEMMA OfferedThen ==
  ASSUME Base, Resuming, direct, ~C!Ended, taken < Len(sOut.wire)
  PROVE  /\ Offered.kind = "fileno" =>
              Offered = FilenoPacket(Offered.chunk.fileno) /\ Offered.chunk.fileno > sPeer.hand.fileno
         /\ S!SameFile /\ Offered.kind = "data" =>
              Offered.chunk \in Chunks /\ Offered.chunk.fileno >= sPeer.hand.fileno
         /\ S!SameFile /\ taken > 0 /\ (NumberSeen \/ Offered.kind = "fileno") =>
              Offered = Successor(sOut.wire[taken])
<1>1. /\ sPeer # S!Nobody /\ Untorn /\ sOut.wire \in Seq(Packet) /\ Len(sOut.wire) \in Nat
      /\ taken \in 0 .. Len(sOut.wire)
  BY Connected
<1>2. taken + 1 \in 1 .. Len(sOut.wire) /\ Offered = sOut.wire[taken + 1]
  BY <1>1 DEF Offered
<1>3. Beyond(sOut.wire, sPeer.hand.fileno)
  BY <1>1, ServerWords DEF Resuming, S!Onward
<1>4. S!SameFile => Flows(sOut.wire) /\ Later(sOut.wire, sPeer.hand.fileno)
  BY ServerWords DEF Resuming, S!Renewed
<1>5. ASSUME Offered.kind = "fileno"
      PROVE  Offered = FilenoPacket(Offered.chunk.fileno) /\ Offered.chunk.fileno > sPeer.hand.fileno
  <2>1. Offered \in StreamPacket /\ Offered.chunk.fileno > sPeer.hand.fileno
    BY <1>2, <1>3, <1>5 DEF Beyond
  <2>2. Offered \notin {ChunkPacket(c) : c \in Chunks}  BY <1>5 DEF ChunkPacket
  <2>3. PICK f \in File : Offered = FilenoPacket(f)  BY <2>1, <2>2 DEF StreamPacket
  <2> QED BY <2>1, <2>3 DEF FilenoPacket, Chunk
<1>6. S!SameFile /\ Offered.kind = "data" =>
        Offered.chunk \in Chunks /\ Offered.chunk.fileno >= sPeer.hand.fileno
  BY <1>2, <1>4 DEF Later
<1>7. ASSUME S!SameFile, taken > 0, NumberSeen \/ Offered.kind = "fileno"
      PROVE  Offered = Successor(sOut.wire[taken])
  <2>1. taken + 1 \in 2 .. Len(sOut.wire) /\ (taken + 1) - 1 = taken  BY <1>1, <1>2, <1>7
  <2>2. \E k \in 1 .. taken + 1 : sOut.wire[k].kind = "fileno"
    <3>1. CASE NumberSeen  BY <1>1, <3>1 DEF NumberSeen
    <3>2. CASE Offered.kind = "fileno"  BY <1>1, <1>2, <3>2
    <3> QED BY <1>7, <3>1, <3>2
  <2>3. Offered.kind = "frag" \/ Offered = Successor(sOut.wire[taken])
    BY <1>2, <1>4, <1>7, <2>1, <2>2 DEF Flows
  <2> QED BY <1>2, <2>3, <1>1 DEF Untorn
<1> QED BY <1>5, <1>6, <1>7

\* A node on the track that has got a file number gets what it waits for.
LEMMA NumberedAwaits ==
  ASSUME Base, Resuming, direct, ~C!Ended, taken < Len(sOut.wire), S!SameFile, NumberSeen,
         C!AwaitsAfter(sOut.wire[taken]), cReader.pc # "done"
  PROVE  C!Awaits(Offered)
<1>1. taken > 0
  <2>1. taken \in 0 .. Len(sOut.wire) /\ Len(sOut.wire) \in Nat  BY Connected
  <2> QED BY <2>1 DEF NumberSeen
<1>2. Offered = Successor(sOut.wire[taken])  BY <1>1, OfferedThen
<1> QED BY <1>2, ClientWords DEF C!AwaitsAfter, C!Awaits

\* What the order of the chunks says of the one that is read.
LEMMA ReadsInOrder ==
  ASSUME C!TypeOK, C!Ordered("named"), cReader.pc # "done"
  PROVE  /\ C!Expected \in Chunks
         /\ cReader.pc = "recv_body" =>
              C!InBank.eof = IF MarkOf(C!Expected) = "NORMAL" THEN "NORMAL" ELSE "EOF"
BY ClientWords DEF C!Ordered, C!OrderedBy, C!Reading

LEMMA OnTrackReceives ==
  ASSUME Base, Resuming, direct, OnTrack, ClientReceives
  PROVE  OnTrack' \/ OffTrack'
<1> USE ClientConstants DEF Base, ClientOk
<1>0. PICK p, g : p = Offered /\ g = sPeer.hand.fileno  OBVIOUS
<1>1. /\ ~C!Ended /\ taken < Len(sOut.wire) /\ p \in Packet
      /\ UNCHANGED <<sOut, sPeer, direct>> /\ cReconnect' = cReconnect
      /\ \/ (C!Fails(p) \/ C!RecvHeader(p)) /\ taken' = taken
         \/ (C!RecvFileno(p) \/ C!RecvBody(p)) /\ taken' = taken + 1
  BY <1>0, ReceivedPacket
<1>2. /\ Len(sOut.wire) \in Nat /\ taken \in 0 .. Len(sOut.wire) /\ g \in File
      /\ sPeer.waits.fileno \in File
  BY <1>0, <1>1, Connected
<1>3. S!SameFile /\ S!SameFile' /\ C!Ordered("named") /\ sPeer.waits.fileno = g
      /\ sPeer'.hand.fileno = g /\ sPeer'.waits.fileno = g
  BY <1>0, <1>1 DEF OnTrack, S!SameFile
<1>4. /\ p.kind = "fileno" => p = FilenoPacket(p.chunk.fileno)
      /\ p.kind = "data" => p.chunk \in Chunks /\ p.chunk.fileno >= g
  BY <1>0, <1>1, <1>3, OfferedThen
<1>5. NumberSeen /\ C!AwaitsAfter(sOut.wire[taken]) /\ cReader.pc # "done" => C!Awaits(p)
  BY <1>0, <1>1, <1>3, NumberedAwaits
<1>6. taken' = taken + 1 => sOut'.wire[taken'] = p  BY <1>0, <1>1 DEF Offered
<1>7. ASSUME taken' = taken + 1, NumberSeen \/ p.kind = "fileno" PROVE NumberSeen'
  <2>1. taken + 1 \in 1 .. taken'  BY <1>2, <1>7
  <2>2. CASE p.kind = "fileno"  BY <1>0, <1>1, <2>1, <2>2 DEF NumberSeen, Offered
  <2>3. CASE NumberSeen
    <3>1. PICK k \in 1 .. taken : sOut.wire[k].kind = "fileno"  BY <2>3 DEF NumberSeen
    <3>2. k \in 1 .. taken'  BY <1>2, <1>7
    <3> QED BY <1>1, <3>1, <3>2 DEF NumberSeen
  <2> QED BY <1>7, <2>2, <2>3
<1>8. CASE C!Fails(p) /\ taken' = taken
  <2>1. C!Besides(p)  BY <1>8 DEF C!Besides
  <2> QED BY <1>1, <1>2, <1>8, <2>1, TrackStays
<1>9. CASE C!RecvFileno(p) /\ taken' = taken + 1
  <2>1. /\ cReader.pc = "recv_fileno" /\ p.kind = "fileno" /\ p.chunk.fileno = cReader.fileno
    BY <1>9 DEF C!RecvFileno, C!ReadAt
  <2>2. C!Awaits(p)
    BY <1>4, <2>1, ClientWords DEF C!Awaits, C!NextPacket, C!Asked
  <2>3. C!AwaitsAfter(p)'  BY <1>3, <1>9, <2>2, C!ReceivedNext
  <2>4. C!Ordered("named")'
    <3>1. C!Receive(p, p)  BY <1>9 DEF C!Receive
    <3> QED BY <1>3, <2>1, <3>1, C!ReceiveOrdered
  <2>5. NumberSeen' /\ C!AwaitsAfter(sOut.wire[taken])'
    <3>1. NumberSeen'  BY <1>7, <1>9, <2>1
    <3> QED BY <1>6, <1>9, <2>3, <3>1
  <2> QED BY <1>3, <2>4, <2>5 DEF OnTrack
<1>10. CASE C!RecvHeader(p) /\ taken' = taken
  <2>1. /\ cReader.pc = "recv_header" /\ cReader'.pc = "recv_body" /\ p.kind = "data"
        /\ cReader'.fileno = cReader.fileno /\ cReader'.seqno = cReader.seqno
        /\ C!InBank'.seqno = p.chunk.seqno
        /\ C!InBank'.eof = IF MarkOf(p.chunk) = "NORMAL" THEN "NORMAL" ELSE "EOF"
        /\ \A h : C!InFile(h) => C!InFile(h)'
    BY <1>10, ClientWords, C!HeaderMoves
  <2>2. C!Expected \in Chunks /\ C!Expected.fileno = cReader.fileno /\ C!Expected.seqno = cReader.seqno
    BY <1>3, <2>1, ReadsInOrder DEF C!Expected, C!Chunk
  <2>3. CASE C!InFile(g)
    <3>1. cReader.fileno = g  BY <2>1, <2>3 DEF C!InFile
    <3>2. C!InFile(g)'  BY <2>1, <2>3
    <3>3. C!InFile(sPeer.hand.fileno)' /\ C!InFile(sPeer.waits.fileno)'  BY <1>3, <3>2
    <3>4. CASE p.chunk.seqno # cReader.seqno
      BY <2>1, <3>4 DEF OffTrack
    <3>5. CASE p.chunk.seqno = cReader.seqno /\ (MarkOf(p.chunk) = "NORMAL" <=> MarkOf(C!Expected) = "NORMAL")
      <4>1. C!AtEof(p) <=> C!AtEof(C!Wanted)
        BY <3>5, ClientWords DEF C!AtEof, C!Wanted, C!ChunkPacket
      <4>2. C!Ordered("named")'  BY <1>3, <1>10, <3>5, <4>1, C!HeaderMarked
      <4> QED BY <1>3, <3>3, <4>2 DEF OnTrack
    <3>6. CASE p.chunk.seqno = cReader.seqno /\ ~(MarkOf(p.chunk) = "NORMAL" <=> MarkOf(C!Expected) = "NORMAL")
      <4>1. p.chunk \in Chunks /\ p.chunk.fileno >= g /\ p.chunk.fileno \in File
        BY <1>4, <2>1, ChunkPlace
      <4>2. p.chunk.fileno # g
        BY <2>2, <3>1, <3>6, <4>1, ChunkPlace
      <4>3. g + 1 < NoFiles  BY <1>2, <4>1, <4>2, FilesAssumption DEF File
      <4>4. C!InBank'.eof = "NORMAL" => cReader.seqno >= LastSeq[g]
        <5>1. cReader.seqno \in Nat /\ LastSeq[g] \in Nat
          BY <1>2, FilesAssumption DEF C!TypeOK, C!ReaderType
        <5>2. MarkOf(C!Expected) # "NORMAL" => cReader.seqno >= LastSeq[g]
          BY <2>2, <3>1, <5>1 DEF MarkOf
        <5> QED BY <2>1, <3>6, <5>2
      <4>5. PastEnd'
        <5>1. Offered' = p /\ taken' < Len(sOut'.wire)  BY <1>0, <1>1, <1>10 DEF Offered
        <5>2. ~EndsFile(Offered)'  BY <1>3, <4>2, <5>1 DEF EndsFile, Chunk
        <5> QED BY <1>3, <2>1, <4>4, <5>1, <5>2 DEF PastEnd
      <4>6. cReader'.pc # "done"  BY <2>1
      <4>7. g <= g  BY <1>2, FileTypes
      <4> QED BY <1>3, <3>3, <4>3, <4>5, <4>6, <4>7 DEF OffTrack
    <3> QED BY <3>4, <3>5, <3>6
  <2>4. CASE NumberSeen /\ C!AwaitsAfter(sOut.wire[taken])
    <3>1. C!Awaits(p)  BY <1>5, <2>1, <2>4
    <3>2. p.chunk = C!Expected
      BY <2>1, <3>1, ClientWords DEF C!Awaits, C!NextPacket, C!Wanted, C!ChunkPacket
    <3>3. C!Ordered("named")'
      <4>1. C!Receive(p, p)  BY <1>10 DEF C!Receive
      <4> QED BY <1>3, <2>1, <3>2, <4>1, C!ReceiveOrdered
    <3>4. C!NextPacket' = C!NextPacket /\ (cReader'.pc = "done" <=> cReader.pc = "done")
      BY <1>10, C!BesidesAwaits
    <3>5. NumberSeen' /\ C!AwaitsAfter(sOut.wire[taken])'
      BY <1>1, <1>10, <2>4, <3>4 DEF NumberSeen, C!AwaitsAfter
    <3> QED BY <1>3, <3>3, <3>5 DEF OnTrack
  <2> QED BY <1>0, <2>3, <2>4 DEF OnTrack
<1>11. CASE C!RecvBody(p) /\ taken' = taken + 1
  <2>1. cReader.pc = "recv_body" /\ \A h : C!InFile(h) => C!InFile(h)'
    BY <1>11, C!BodyMoves
  <2>2. C!Ordered("named")'
    <3>1. C!Receive(p, p)  BY <1>11 DEF C!Receive
    <3> QED BY <1>3, <2>1, <3>1, C!ReceiveOrdered
  <2>3. CASE C!InFile(g)
    <3>1. C!InFile(g)'  BY <2>1, <2>3
    <3>2. C!InFile(sPeer.hand.fileno)'  BY <1>3, <3>1
    <3> QED BY <1>3, <2>2, <3>2 DEF OnTrack
  <2>4. CASE NumberSeen /\ C!AwaitsAfter(sOut.wire[taken])
    <3>1. C!Awaits(p)  BY <1>5, <2>1, <2>4
    <3>2. C!AwaitsAfter(p)'  BY <1>3, <1>11, <3>1, C!ReceivedNext
    <3>3. NumberSeen'  BY <1>7, <1>11, <2>4
    <3>4. C!AwaitsAfter(sOut.wire[taken])'  BY <1>6, <1>11, <3>2
    <3> QED BY <1>3, <2>2, <3>3, <3>4 DEF OnTrack
  <2> QED BY <1>0, <2>3, <2>4 DEF OnTrack
<1> QED BY <1>1, <1>8, <1>9, <1>10, <1>11

LEMMA OffTrackReceives ==
  ASSUME Base, Resuming, direct, OffTrack, ClientReceives
  PROVE  OffTrack'
<1> USE ClientConstants DEF Base, ClientOk
<1>0. PICK p, f : p = Offered /\ f = sPeer.waits.fileno  OBVIOUS
<1>1. /\ ~C!Ended /\ taken < Len(sOut.wire) /\ p \in Packet
      /\ UNCHANGED <<sOut, sPeer, direct>> /\ cReconnect' = cReconnect
      /\ \/ (C!Fails(p) \/ C!RecvHeader(p)) /\ taken' = taken
         \/ (C!RecvFileno(p) \/ C!RecvBody(p)) /\ taken' = taken + 1
  BY <1>0, ReceivedPacket
<1>2. /\ Len(sOut.wire) \in Nat /\ taken \in 0 .. Len(sOut.wire) /\ sPeer # S!Nobody
      /\ f \in File /\ sPeer.hand.fileno \in File /\ f \in Int /\ sPeer.hand.fileno \in Int
      /\ sOut.wire \in Seq(Packet) /\ Untorn /\ f <= sPeer.hand.fileno
      /\ f <= sPeer'.hand.fileno /\ f = sPeer'.waits.fileno
  BY <1>0, <1>1, Connected, FileTypes
<1>3. cReader \in C!ReaderType /\ cReader.seqno \in Nat /\ LastSeq[f] \in Nat
  BY <1>2, FilesAssumption DEF C!TypeOK, C!ReaderType
<1>4. CASE C!Fails(p) /\ taken' = taken
  <2>1. C!Besides(p)  BY <1>4 DEF C!Besides
  <2> QED BY <1>1, <1>2, <1>4, <2>1, TrackStays
<1>5. ASSUME C!RecvFileno(p) \/ C!RecvHeader(p) \/ C!RecvBody(p)
      PROVE  /\ f + 1 < NoFiles /\ C!InFile(f)
             /\ f = sPeer.hand.fileno => PastEnd
  <2>1. ~(cReader.pc = "recv_body" /\ C!InBank.seqno # cReader.seqno)
    BY <1>5 DEF C!RecvFileno, C!RecvHeader, C!RecvBody, C!ReadAt, C!InBank
  <2> QED BY <1>0, <2>1 DEF OffTrack
<1>6. f = sPeer.hand.fileno => S!SameFile  BY <1>0, <1>2 DEF S!SameFile
<1>7. ASSUME C!RecvFileno(p) PROVE FALSE
  <2>1. cReader.pc = "recv_fileno" /\ p.kind = "fileno" /\ p.chunk.fileno = cReader.fileno
    BY <1>7 DEF C!RecvFileno, C!ReadAt
  <2>2. cReader.fileno = f + 1  BY <1>5, <1>7, <2>1 DEF C!InFile
  <2>3. p = FilenoPacket(f + 1) /\ f + 1 > sPeer.hand.fileno
    BY <1>0, <1>1, <2>1, <2>2, OfferedThen
  <2>4. f = sPeer.hand.fileno  BY <1>2, <2>3
  <2>5. taken > 0 /\ ~EndsFile(sOut.wire[taken])  BY <1>5, <1>7, <2>1, <2>4 DEF PastEnd
  <2>6. p = Successor(sOut.wire[taken])  BY <1>0, <1>1, <1>6, <2>1, <2>4, <2>5, OfferedThen
  <2>7. PICK q \in Packet : q = sOut.wire[taken]  BY <1>2, <2>5
  <2>8. q.kind = "data"
    <3>1. q.kind # "frag"
      <4>1. taken \in 1 .. Len(sOut.wire)  BY <1>2, <2>5
      <4> QED BY <1>2, <2>7, <4>1 DEF Untorn
    <3>2. q.kind # "fileno"  BY <2>1, <2>6, <2>7 DEF Successor, ChunkPacket
    <3> QED BY <2>7, <3>1, <3>2 DEF Packet
  <2>9. q.chunk \in Chunks
    <3>1. Later(sOut.wire, sPeer.hand.fileno)
      BY <1>6, <2>4, ServerWords DEF Resuming, S!Renewed
    <3>2. taken \in 1 .. Len(sOut.wire)  BY <1>2, <2>5
    <3> QED BY <2>7, <2>8, <3>1, <3>2 DEF Later
  <2>10. /\ q.chunk = Chunk(q.chunk.fileno, q.chunk.seqno) /\ q.chunk.fileno \in Int
         /\ q.chunk.seqno \in 0 .. LastSeq[q.chunk.fileno] /\ LastSeq[q.chunk.fileno] \in Nat
    BY <2>9, ChunkPlace, FileTypes
  <2>11. ~(q.chunk.seqno < LastSeq[q.chunk.fileno])
    BY <2>1, <2>6, <2>7, <2>8 DEF Successor, ChunkPacket
  <2>12. p = FilenoPacket(q.chunk.fileno + 1)  BY <2>6, <2>7, <2>8, <2>11 DEF Successor
  <2>13. q.chunk.fileno + 1 = f + 1  BY <2>1, <2>2, <2>12 DEF FilenoPacket, Chunk
  <2>14. q.chunk.fileno = f  BY <1>2, <2>10, <2>13
  <2>15. q.chunk.seqno = LastSeq[f]  BY <2>10, <2>11, <2>14
  <2>16. q.chunk = Chunk(f, LastSeq[f])  BY <2>10, <2>14, <2>15
  <2> QED BY <1>0, <2>5, <2>7, <2>8, <2>16 DEF EndsFile
<1>8. ASSUME NEW h, h = f, C!InFile(h)' PROVE C!InFile(sPeer.waits.fileno)'
  BY <1>2, <1>8
<1>9. CASE C!RecvHeader(p) /\ taken' = taken
  <2>1. /\ cReader.pc = "recv_header" /\ cReader'.pc = "recv_body"
        /\ cReader'.seqno = cReader.seqno
        /\ C!InBank'.seqno = p.chunk.seqno
        /\ \A h : C!InFile(h) => C!InFile(h)'
    BY <1>9, C!HeaderMoves
  <2>2. C!InFile(sPeer.waits.fileno)'  BY <1>5, <1>8, <1>9, <2>1
  <2>3. f = sPeer.hand.fileno => PastEnd'
    <3> SUFFICES ASSUME f = sPeer.hand.fileno PROVE PastEnd'  OBVIOUS
    <3>1. cReader.seqno > LastSeq[f]  BY <1>0, <1>5, <1>9, <2>1 DEF PastEnd
    <3>2. Offered' = p /\ taken' < Len(sOut'.wire)  BY <1>0, <1>1, <1>9 DEF Offered
    <3>3. p.chunk.seqno = cReader.seqno => ~EndsFile(Offered)'
      BY <1>2, <1>3, <3>1, <3>2 DEF EndsFile, Chunk
    <3> QED BY <1>2, <1>3, <2>1, <3>1, <3>2, <3>3 DEF PastEnd
  <2> QED BY <1>1, <1>2, <1>5, <1>9, <2>1, <2>2, <2>3 DEF OffTrack
<1>10. CASE C!RecvBody(p) /\ taken' = taken + 1
  <2>1. /\ cReader.pc = "recv_body" /\ C!InBank.seqno = cReader.seqno
        /\ cReader'.pc = IF C!InBank.eof = "NORMAL" THEN "wait_wdisk"
                         ELSE IF C!FinalFile THEN "done" ELSE "recv_fileno"
        /\ C!InBank.eof = "NORMAL" => cReader'.seqno = cReader.seqno + 1
        /\ \A h : C!InFile(h) => C!InFile(h)'
    BY <1>10, C!BodyMoves
  <2>2. C!InFile(sPeer.waits.fileno)'  BY <1>5, <1>8, <1>10, <2>1
  <2>3. cReader.fileno = f  BY <1>5, <1>10, <2>1 DEF C!InFile
  <2>4. ~C!FinalFile  BY <1>2, <1>5, <1>10, <2>3, FilesAssumption DEF C!FinalFile
  <2>5. f = sPeer.hand.fileno => PastEnd'
    <3> SUFFICES ASSUME f = sPeer.hand.fileno PROVE PastEnd'  OBVIOUS
    <3>1. ~EndsFile(p) /\ (C!InBank.eof = "NORMAL" => cReader.seqno >= LastSeq[f])
      BY <1>0, <1>5, <1>10, <2>1 DEF PastEnd
    <3>2. sOut'.wire[taken'] = p /\ taken' > 0  BY <1>0, <1>1, <1>2, <1>10 DEF Offered
    <3>3. ~EndsFile(sOut.wire[taken])'  BY <1>0, <1>2, <3>1, <3>2 DEF EndsFile
    <3> QED BY <1>2, <1>3, <2>1, <2>4, <3>1, <3>2, <3>3 DEF PastEnd
  <2> QED BY <1>1, <1>2, <1>5, <1>10, <2>1, <2>2, <2>4, <2>5 DEF OffTrack
<1> QED BY <1>1, <1>4, <1>7, <1>9, <1>10

LEMMA PeerStays ==
  ASSUME Base, [Next]_vars, sPeer # S!Nobody \/ ~Bypassing
  PROVE  /\ sPeer' = sPeer
         /\ ~Bypassing => UNCHANGED direct
<1> USE DEF Base
<1>1. CASE ServerBypasses \/ ClientAnswers \/ NobodyAnswers
  <2>1. Bypassing /\ (sPeer = S!Nobody \/ ServerBypasses)
    BY <1>1, ServerActs DEF ServerBypasses, ClientAnswers, NobodyAnswers, Bypassing
  <2> QED BY <2>1, ServerActs DEF ServerBypasses
<1>2. CASE ServerThreads \/ ServerSends
  BY <1>2, ServerActs DEF ServerThreads, ServerSends, links
<1>3. CASE \/ ServerAsks \/ ClientThreads \/ AcceptFails \/ ClientReceives \/ ClientSeesEnd \/ RelayTakes \/ Crash
           \/ Over \/ UNCHANGED vars
  BY <1>3 DEF ServerAsks, ClientThreads, AcceptFails, ClientReceives, ClientSeesEnd, RelayTakes, Crash,
              Over, vars,
              server, links
<1> QED BY <1>1, <1>2, <1>3 DEF Next, Server, Control, Client

\* The last node, while it is connected to the server.
LEMMA DirectStep ==
  ASSUME Base, Resuming, direct, ~C!Ended, OnTrack \/ OffTrack, [Next]_vars
  PROVE  (OnTrack \/ OffTrack)' /\ direct'
<1> USE DEF Base
<1>1. ~Bypassing /\ sPeer' = sPeer /\ direct'  BY Connected, PeerStays
<1>2. CASE ClientReceives  BY <1>1, <1>2, OnTrackReceives, OffTrackReceives
<1>3. CASE ~ClientReceives
  <2>1. PICK p \in Packet : C!Besides(p) \/ UNCHANGED C!vars  BY <1>3, ClientBesides
  <2>2. taken' = taken
    <3>1. ~ServerBypasses /\ ~ClientAnswers /\ ~RelayTakes
      BY <1>1, ServerActs DEF ServerBypasses, ClientAnswers, RelayTakes, Bypassing
    <3> QED BY <1>3, <3>1 DEF Next, Server, Control, Client, ServerThreads, ServerSends, ServerAsks,
              NobodyAnswers, ClientThreads, AcceptFails, ClientSeesEnd, Crash, Over, vars, links
  <2>3. /\ Len(sOut'.wire) \in Nat /\ Len(sOut.wire) <= Len(sOut'.wire)
        /\ \A i \in 1 .. Len(sOut.wire) : sOut'.wire[i] = sOut.wire[i]
    BY <1>1, WireKeeps DEF Bypassing
  <2> QED BY <1>1, <2>1, <2>2, <2>3, TrackStays
<1> QED BY <1>2, <1>3

\* It is in accept(), and the server connects to it.
LEMMA InvitedStep ==
  ASSUME Base, Accepting, ~C!Ended, Invited, [Next]_vars
  PROVE  /\ C!Ordered("named")' /\ (Accepting' => Invited')
         /\ direct' => (OnTrack \/ OffTrack)'
<1> USE ClientConstants DEF Base, ClientOk
<1>1. cReconnect = "served" /\ ~direct /\ sPeer # S!Nobody /\ cReader.pc = "accept"
  BY DEF Accepting, Route
<1>2. PICK p \in Packet : C!Besides(p) \/ UNCHANGED C!vars
  <2>1. ~ClientReceives  BY <1>1, ReceiveActs
  <2> QED BY <2>1, ClientBesides
<1>3. /\ cReader'.pc \notin {"start", "recv_fileno", "done"} /\ cReader'.fileno = cReader.fileno
      /\ cReader'.seqno = cReader.seqno
  BY <1>1, <1>2, C!BesidesStays, C!BesidesAwaits
<1>4. C!Ordered("named")'  BY <1>2, C!BesidesOrdered DEF Invited
<1>5. sPeer' = sPeer  BY <1>1, PeerStays
<1>6. Invited'  BY <1>3, <1>4, <1>5 DEF Invited, C!Expected
<1>7. ASSUME direct' PROVE (OnTrack \/ OffTrack)'
  <2>1. /\ sPeer.waits \in Chunks /\ sPeer.hand \in Chunks
        /\ S!Pos(sPeer.waits) <= S!Pos(sPeer.hand)
    BY <1>1, ServerWords DEF ServerOk, S!Recovery, S!Request
  <2>2. PICK f, g : f = sPeer.waits.fileno /\ g = sPeer.hand.fileno  OBVIOUS
  <2>3. f \in File /\ g \in File /\ f <= g
    BY <2>1, <2>2, ChunkPlace, ServerConstants, ServerWords, S!PlacesByFile
  <2>4. cReader'.fileno = f
    BY <1>6, <1>5, <2>2 DEF Invited, C!Expected, C!Chunk
  <2>5. C!InFile(f)'  BY <1>3, <2>4 DEF C!InFile
  <2>6. CASE f = g
    <3>1. C!InFile(sPeer.hand.fileno)'  BY <1>5, <2>2, <2>5, <2>6
    <3>2. S!SameFile'  BY <1>1, <1>5, <2>2, <2>6 DEF S!SameFile
    <3> QED BY <1>4, <3>1, <3>2 DEF OnTrack
  <2>7. CASE f # g
    <3>1. f + 1 < NoFiles  BY <2>3, <2>7, FilesAssumption DEF File
    <3>2. C!InFile(sPeer.waits.fileno)'  BY <1>5, <2>2, <2>5
    <3> QED BY <1>3, <1>5, <2>2, <2>3, <2>7, <3>1, <3>2 DEF OffTrack
  <2> QED BY <2>6, <2>7
<1> QED BY <1>4, <1>6, <1>7

\* Before it is asked to reconnect.
LEMMA UnaskedStep ==
  ASSUME Base, Linking, Arriving, ~direct, ~Accepting, ~C!Ended, [Next]_vars
  PROVE  /\ C!Ordered("named")' /\ ~direct'
         /\ Accepting' /\ ~C!Ended' => Invited'
<1> USE ClientConstants DEF Base, ClientOk
<1>1. sPeer = S!Nobody /\ Whole
  BY DEF Accepting, Route, BeforeBypass, Whole
<1>2. C!Ordered("whole")  BY <1>1 DEF Arriving
<1>3. C!Ordered("named")'
  <2>1. C!Ordered("whole")'
    <3>1. CASE ClientReceives  BY <1>1, <3>1, ClientReceivesStep
    <3>2. CASE ~ClientReceives  BY <1>2, <3>2, ClientBesides, C!BesidesOrdered
    <3> QED BY <3>1, <3>2
  <2>2. C!Ordered("whole") => C!Ordered("named")  BY C!WholeIsNamed
  <2> QED BY <2>1, C!WholeIsNamed, PTL
<1>4. ~direct'
  <2>1. ~S!RecoverConnect  BY <1>1, ServerActs
  <2> QED BY <2>1 DEF Next, Server, Control, Client, ServerThreads, ServerSends, ServerBypasses, ServerAsks,
       ClientAnswers, NobodyAnswers, ClientThreads, AcceptFails, ClientReceives, ClientSeesEnd, RelayTakes,
       Crash, Over,
       vars, links
<1>5. ASSUME Accepting', ~C!Ended' PROVE Invited'
  <2>1. sPeer' # sPeer  BY <1>1, <1>5 DEF Accepting
  <2>2. ClientAnswers /\ sExited' # "control"
    <3>1. ClientAnswers \/ NobodyAnswers
      BY <2>1, ServerActs
      DEF Next, Server, Control, Client, ServerThreads, ServerBypasses, ServerAsks, ClientThreads,
          AcceptFails,
          ClientReceives, ClientSeesEnd, RelayTakes, Crash, Over, vars, server
    <3> QED BY <2>1, <3>1, ServerActs DEF ClientAnswers, NobodyAnswers
  <2>3. C!Reconnects /\ cReader.pc # "recv_fileno" /\ sPeer'.waits = C!Expected
    BY <2>2 DEF ClientAnswers
  <2>4. cReader' = [cReader EXCEPT !.pc = "accept"]
    BY <2>3 DEF C!Reconnects, C!ReadGoto
  <2>5. cReader \in C!ReaderType  BY DEF C!TypeOK
  <2> QED BY <1>3, <2>3, <2>4, <2>5 DEF Invited, C!Expected, C!ReaderType
<1> QED BY <1>3, <1>4, <1>5

LEMMA FateStep ==
  ASSUME Base, Linking, Arriving, Resuming, Fate, [Next]_vars
  PROVE  Fate'
<1> USE ClientConstants DEF Base, ClientOk
<1>1. PICK p \in Packet : C!Besides(p) \/ C!Receive(p, p) \/ UNCHANGED C!vars  BY ClientMoves
<1>2. C!Unfinished'  BY <1>1, C!UnfinishedStep DEF Fate
<1>3. CASE C!Ended
  <2>1. UNCHANGED C!vars  BY <1>1, <1>3, C!EndedStays
  <2>2. C!Ordered("named") => C!Ordered("named")'  BY <1>1, <2>1, C!BesidesOrdered
  <2>3. cReader' = cReader /\ C!Ended'  BY <1>3, EndedKept
  <2> QED BY <1>2, <2>2, <2>3 DEF Fate
<1>4. CASE ~C!Ended /\ direct
  <2>1. (OnTrack \/ OffTrack)' /\ direct'  BY <1>4, DirectStep DEF Fate
  <2>2. OnTrack' => C!Ordered("named")'  BY DEF OnTrack
  <2>3. OffTrack' => cReader'.pc # "done"  BY DEF OffTrack
  <2> QED BY <1>2, <2>1, <2>2, <2>3 DEF Fate, Accepting
<1>5. CASE ~C!Ended /\ Accepting
  <2>1. Invited  BY <1>5 DEF Fate
  <2> QED BY <1>2, <1>5, <2>1, InvitedStep DEF Fate
<1>6. CASE ~C!Ended /\ ~direct /\ ~Accepting
  BY <1>2, <1>6, UnaskedStep DEF Fate
<1> QED BY <1>3, <1>4, <1>5, <1>6

LEMMA InitFate == Init => Fate
<1> SUFFICES ASSUME Init PROVE Fate  OBVIOUS
<1>1. C!Init /\ ~direct /\ cReconnect = "no" /\ cReader.pc = "start"  BY DEF Init, C!Init
<1>2. C!Unfinished  BY <1>1 DEF C!Init, C!Unfinished
<1> QED BY <1>1, <1>2 DEF Fate, Accepting

LEMMA FateAlways == Spec => [](Base /\ Fate)
<1> DEFINE Inv == (Base /\ Linking /\ Arriving) /\ Resuming /\ Fate
<1>1. Init => Inv  BY InitBase, InitMeeting, InitResuming, InitFate
<1>2. Inv /\ [Next]_vars => Inv'  BY BaseStep, MeetingStep, ResumingStep, FateStep
<1>3. Inv => Base /\ Fate  OBVIOUS
<1> QED BY <1>1, <1>2, <1>3, PTL DEF Spec

\* Unless it has taken its chunks in the order of the stream, the last node never gets as
\* far as to say that it is finished.
LEMMA FatedToAll == Base /\ Fate => FinishedHasAll
<1> SUFFICES ASSUME Base, Fate, cStopped \/ cExited = "report" \/ cDisk.pc = "done"
             PROVE  Len(cFiles) = C!Total
  BY DEF FinishedHasAll
<1> USE ClientConstants DEF Base, ClientOk
<1>1. cDisk.pc \in {"report", "done"}  BY DEF Fate, C!Unfinished, C!Reporting
<1>2. cReader.pc = "done"  BY <1>1 DEF Fate, C!Unfinished
<1>3. C!Ordered("named")  BY <1>2 DEF Fate
<1> QED BY <1>1, <1>3, C!OrderedIsTotal

-----------------------------------------------------------------------------
(***************************************************************************)
(* What the copy at the end of the ring is                                 *)
(***************************************************************************)
\* Through the crash of the machine in the middle and the bypass: as long as what the
\* last node asked for is of the file the server was sending, and still in its banks,
\* the disk at the end is a prefix of the stream (recover_sending(), ServThread.cpp:231-370,
\* and the catch clause of readnet(), ClntThread.cpp:145-157).
THEOREM WholeBypass == Spec => []WholeStaysPrefix
<1>1. Base /\ Linking /\ Arriving => WholeStaysPrefix  BY ArrivesWhole DEF WholeStaysPrefix
<1> QED BY <1>1, MeetingAlways, PTL

\* Whatever the last node asked for, and whichever chunks it was sent for it - of another
\* file, or torn because they were overwritten meanwhile - a node that says it is finished,
\* or tries to, has got as many chunks as there are: a bypass that mixes up two files ends
\* with a refused chunk or file number (readnet(), ClntThread.cpp:162-166 and 107-112), or
\* with a wait for one that never comes; the report is data_transfer()'s, ClntThread.cpp:747-767.
THEOREM BypassFinishes == Spec => []FinishedHasAll
BY FateAlways, FatedToAll, PTL

\* While the machine in the middle is up nobody is bypassed, so there is no such
\* condition: every chunk is written, in order and intact, and a finished node has got
\* all of it.
StandingCopies == up => DiskIsPrefix /\ FinishedHasAll
LEMMA StandingIsWhole == Base /\ up => Whole
BY DEF Base, Route, AfterBypass, BeforeBypass, Bypassing, Whole

\* As long as the machine in the middle has not gone down, the disk at the end of the ring
\* is a prefix of the stream the server reads.
THEOREM StandingAlwaysCopies == Spec => []StandingCopies
<1>1. Base /\ Arriving => StandingCopies  BY StandingIsWhole, ArrivesWhole DEF StandingCopies
<1> QED BY <1>1, MeetingAlways, PTL

\* Nor is there one when the copy is of one file that fits into the banks: all of it can
\* be sent again, whenever the machine goes down and wherever the last node was.
Short == NoFiles = 1 /\ LastSeq[0] < NO_BANK

LEMMA ShortIsWhole == ASSUME Short PROVE Base /\ S!ReadEnds => Whole
<1> SUFFICES ASSUME Base, S!ReadEnds, sPeer # S!Nobody PROVE Whole  BY DEF Whole
<1> USE ServerConstants DEF Base, ServerOk
<1>1. sPeer.waits \in Chunks /\ sPeer.hand \in Chunks
  BY ServerWords DEF S!Recovery, S!Request
<1>2. /\ sPeer.waits.fileno \in File /\ sPeer.hand.fileno \in File
      /\ sPeer.waits.seqno \in Nat
  BY <1>1, ChunksAreTyped
<1>3. File = {0} /\ LastSeq[0] \in Nat /\ LastSeq[0] < NO_BANK /\ NO_BANK \in Nat
  <2>1. NoFiles = 1  BY DEF Short
  <2>2. File = {0}  BY <2>1 DEF File
  <2> QED BY <2>2, FilesAssumption, ChainAssumption DEF Short
<1>4. S!FirstPos[0] = 0  BY S!FirstPosTyped
<1>5. S!Pos(sPeer.waits) \in Nat  BY <1>2, <1>3, <1>4 DEF S!Pos
<1>6. S!ReadPos <= LastSeq[0] + 1
  <2>1. /\ sReader \in S!ReaderType /\ sReader.fileno = 0 /\ sReader.seqNo \in Nat
    BY <1>3 DEF S!Inductive, S!TypeOK, S!ReaderType, S!File, File
  <2>2. sReader.pc # "open" => sReader.seqNo <= LastSeq[0] + 1
    BY <1>3, <2>1 DEF S!Inductive, S!ReadProgress, S!ReadEnds, S!ReaderType
  <2> QED BY <1>3, <1>4, <2>1, <2>2 DEF S!ReadPos
<1>7. S!ReadPos \in Nat  BY S!PlaceTypes
<1>8. ~S!Overwritten(sPeer.waits)  BY <1>3, <1>5, <1>6, <1>7 DEF S!Overwritten
<1> QED BY <1>2, <1>3, <1>8 DEF Whole

LEMMA ReadEndsAlways == Spec => []S!ReadEnds
<1>1. Init => S!ReadEnds  BY DEF Init, S!Init, S!ReadEnds
<1>2. ServerOk /\ S!ReadEnds /\ [Next]_vars => S!ReadEnds'
  BY ServerConstants, ServerMoves, S!ReadEndsStep DEF ServerOk
<1>3. Base => ServerOk  BY DEF Base
<1> QED BY <1>1, <1>2, <1>3, MeetingAlways, PTL DEF Spec

\* One file that fits into the server's banks reaches the end of the ring whole and in
\* order, whenever the machine in the middle is lost (recover_sending(), ServThread.cpp:323-368).
THEOREM ShortSurvives == ASSUME Short PROVE Spec => [](DiskIsPrefix /\ FinishedHasAll)
<1>1. Base /\ Arriving /\ S!ReadEnds => DiskIsPrefix /\ FinishedHasAll  BY ShortIsWhole, ArrivesWhole
<1> QED BY <1>1, ReadEndsAlways, MeetingAlways, PTL
=============================================================================
