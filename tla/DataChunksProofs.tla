-------------------------- MODULE DataChunksProofs --------------------------
(***************************************************************************)
(* Types of chunks, buffers and packets, and the places of the chunks in   *)
(* the stream of all the files: the lemmas that the proofs about the       *)
(* server and about a client share.                                        *)
(***************************************************************************)
EXTENDS DataChunks, FiniteSetTheorems, TLAPS

LEMMA FileTypes == 0 \in File /\ File \subseteq Nat /\ File \subseteq Int
  BY FilesAssumption DEF File

LEMMA ChunkIsTyped == \A f, s \in Int : Chunk(f, s) \in ChunkType
  BY DEF Chunk, ChunkType

LEMMA TornIsTyped == Torn \in ChunkType /\ Fragment \in Packet
  BY ChunkIsTyped DEF Torn, Fragment, Packet

\* The chunks of the files are numbered by naturals.
LEMMA ChunksAreTyped ==
  ASSUME NEW c \in Chunks
  PROVE  c \in ChunkType /\ c.fileno \in File /\ c.seqno \in Nat
<1>1. PICK f \in File : \E s \in 0 .. LastSeq[f] : c = Chunk(f, s)  BY DEF Chunks
<1>2. PICK s \in 0 .. LastSeq[f] : c = Chunk(f, s)  BY <1>1
<1>3. s \in Nat /\ f \in Int  BY FileTypes, FilesAssumption
<1> QED BY <1>2, <1>3, ChunkIsTyped DEF Chunk

\* Only the last chunk of the last file carries the mark of the end.
LEMMA FinalIsLast ==
  ASSUME NEW c \in Chunks, MarkOf(c) = "FINAL_EOF"
  PROVE  c = Chunk(NoFiles - 1, LastSeq[NoFiles - 1])
<1>1. PICK f \in File : \E s \in 0 .. LastSeq[f] : c = Chunk(f, s)  BY DEF Chunks
<1>2. PICK s \in 0 .. LastSeq[f] : c = Chunk(f, s)  BY <1>1
<1>3. c.fileno = f /\ c.seqno = s  BY <1>2 DEF Chunk
<1>4. LastSeq[f] \in Nat /\ s \in Int /\ s <= LastSeq[f]  BY <1>2, FilesAssumption
<1>5. ~(s < LastSeq[f]) /\ ~(f + 1 < NoFiles)  BY <1>3 DEF MarkOf
<1>6. s = LastSeq[f]  BY <1>4, <1>5
<1>7. f = NoFiles - 1  BY <1>5, FilesAssumption DEF File
<1> QED BY <1>2, <1>6, <1>7

\* What is made of a file number or of a buffer is a packet.
LEMMA FilenoIsPacket ==
  ASSUME NEW f \in Int
  PROVE  FilenoPacket(f) \in Packet
<1>1. Chunk(f, 0) \in ChunkType  BY ChunkIsTyped
<1> QED BY <1>1 DEF FilenoPacket, Packet

LEMMA DataIsPacket ==
  ASSUME NEW buff \in BufferType
  PROVE  DataPacket(buff) \in Packet
<1>1. buff.fileno \in Int /\ buff.seqno \in Int /\ buff.body \in ChunkType
  BY DEF BufferType
<1>2. Chunk(buff.fileno, buff.seqno) \in ChunkType  BY <1>1, ChunkIsTyped
<1> QED BY <1>1, <1>2 DEF DataPacket, HeaderOf, Packet

-----------------------------------------------------------------------------
(***************************************************************************)
(* The places of the chunks.  FirstPos is defined by recursion on the file *)
(* number, and what it computes needs an induction: over the members of a  *)
(* set, by counting.                                                       *)
(***************************************************************************)

\* Induction up to m.  Were m not in S, adding one would map the members of S below
\* m one to one to those that are not 0, which are fewer.
LEMMA InductionUpTo ==
  ASSUME NEW m \in Nat, NEW S, 0 \in S,
         \A n \in 0 .. m - 1 : n \in S => n + 1 \in S
  PROVE  m \in S
<1> SUFFICES ASSUME m \notin S PROVE FALSE  OBVIOUS
<1> DEFINE below == S \cap (0 .. m - 1)
           above == below \ {0}
           plusOne == [n \in below |-> n + 1]
<1>1. IsFiniteSet(below)
  <2>1. IsFiniteSet(0 .. m - 1)  BY FS_Interval
  <2> QED BY <2>1, FS_Subset
<1>2. 0 \in below  OBVIOUS
<1>3. IsFiniteSet(above) /\ Cardinality(above) = Cardinality(below) - 1
  BY <1>1, <1>2, FS_RemoveElement
<1>4. Cardinality(above) < Cardinality(below)  BY <1>1, <1>3, FS_CardinalityType
<1>5. ASSUME NEW n \in below PROVE n + 1 \in above
  <2>1. n + 1 \in S /\ n + 1 \in 0 .. m /\ n + 1 # m  OBVIOUS
  <2> QED BY <2>1
<1>6. plusOne \in [below -> above] /\ \A n \in below : plusOne[n] = n + 1  BY <1>5
<1> HIDE DEF above, plusOne
<1>7. PICK x, y \in below : x # y /\ plusOne[x] = plusOne[y]
  BY <1>1, <1>3, <1>4, <1>6, FS_PigeonHole
<1> QED BY <1>6, <1>7

\* The recursion has a solution, so that FirstPos, which chooses one, is it.
Places(p, n) ==
  p = [f \in 0 .. n |-> IF f = 0 THEN 0 ELSE p[f - 1] + LastSeq[f - 1] + 1]

LEMMA FirstPosDefined == Places(FirstPos, NoFiles)
<1> DEFINE S == {n \in 0 .. NoFiles : \E p : Places(p, n)}
<1>1. 0 \in S
  <2>1. Places([f \in 0 .. 0 |-> 0], 0)  BY DEF Places
  <2> QED BY <2>1, FilesAssumption
<1>2. ASSUME NEW n \in 0 .. NoFiles - 1, n \in S PROVE n + 1 \in S
  <2>1. PICK p : Places(p, n)  BY <1>2
  <2> DEFINE q == [f \in 0 .. n + 1 |-> IF f = 0 THEN 0 ELSE p[f - 1] + LastSeq[f - 1] + 1]
  <2>2. \A f \in 0 .. n : q[f] = p[f]  BY <2>1, FilesAssumption DEF Places
  <2>3. \A f \in 0 .. n + 1 : f # 0 => f - 1 \in 0 .. n  BY FilesAssumption
  <2>4. q = [f \in 0 .. n + 1 |-> IF f = 0 THEN 0 ELSE q[f - 1] + LastSeq[f - 1] + 1]
    BY <2>2, <2>3
  <2> HIDE DEF q
  <2>5. Places(q, n + 1)  BY <2>4 DEF Places
  <2>6. n + 1 \in 0 .. NoFiles  BY FilesAssumption
  <2> QED BY <2>5, <2>6
<1>3. NoFiles \in S
  <2> HIDE DEF S
  <2> QED BY <1>1, <1>2, InductionUpTo, FilesAssumption
<1>4. PICK p : Places(p, NoFiles)  BY <1>3
<1> QED BY <1>4 DEF Places, FirstPos

\* The first chunk of a file comes right after the last one of the file before.
LEMMA FirstPosTyped ==
  /\ \A f \in 0 .. NoFiles : FirstPos[f] \in Nat
  /\ FirstPos[0] = 0
  /\ \A f \in File : FirstPos[f + 1] = FirstPos[f] + LastSeq[f] + 1
<1>1. FirstPos = [f \in 0 .. NoFiles |->
                   IF f = 0 THEN 0 ELSE FirstPos[f - 1] + LastSeq[f - 1] + 1]
  BY FirstPosDefined DEF Places
<1>2. FirstPos[0] = 0  BY <1>1, FilesAssumption
<1>3. ASSUME NEW f \in File PROVE FirstPos[f + 1] = FirstPos[f] + LastSeq[f] + 1
  <2>1. f \in Int /\ f + 1 \in 0 .. NoFiles /\ f + 1 # 0 /\ f + 1 - 1 = f
    BY FilesAssumption DEF File
  <2>2. \A h \in 0 .. NoFiles : h # 0 => FirstPos[h] = FirstPos[h - 1] + LastSeq[h - 1] + 1
    BY <1>1
  <2> QED BY <2>1, <2>2
<1>4. ASSUME NEW g \in 0 .. NoFiles PROVE FirstPos[g] \in Nat
  <2> DEFINE S == {f \in 0 .. NoFiles : FirstPos[f] \in Nat}
  <2>1. 0 \in S  BY <1>2, FilesAssumption
  <2>2. ASSUME NEW f \in 0 .. g - 1, f \in S PROVE f + 1 \in S
    <3>1. f \in File /\ f + 1 \in 0 .. NoFiles  BY FilesAssumption DEF File
    <3>2. FirstPos[f] \in Nat /\ LastSeq[f] \in Nat  BY <2>2, <3>1, FilesAssumption
    <3> QED BY <1>3, <3>1, <3>2
  <2>3. g \in Nat  BY FilesAssumption
  <2> HIDE DEF S
  <2>4. g \in S  BY <2>1, <2>2, <2>3, InductionUpTo
  <2> QED BY <2>4 DEF S
<1> QED BY <1>2, <1>3, <1>4

\* The files do not overlap in the stream.
LEMMA FilesApart ==
  ASSUME NEW f \in File, NEW g \in File, f < g
  PROVE  FirstPos[f] + LastSeq[f] < FirstPos[g]
<1> DEFINE S == {d \in Nat : f + 1 + d \in File => FirstPos[f] + LastSeq[f] < FirstPos[f + 1 + d]}
<1>1. f \in Nat /\ g \in Nat /\ FirstPos[f] \in Nat /\ LastSeq[f] \in Nat
      /\ \A h \in File : FirstPos[h] \in Nat /\ LastSeq[h] \in Nat
  BY FirstPosTyped, FilesAssumption DEF File
<1>2. 0 \in S
  <2>1. FirstPos[f + 1] = FirstPos[f] + LastSeq[f] + 1 /\ f + 1 + 0 = f + 1
    BY <1>1, FirstPosTyped
  <2>2. FirstPos[f] + LastSeq[f] < FirstPos[f + 1]  BY <1>1, <2>1
  <2>3. FirstPos[f + 1 + 0] = FirstPos[f + 1]  BY <2>1
  <2> QED BY <2>2, <2>3
<1>3. ASSUME NEW d \in 0 .. (g - f - 1) - 1, d \in S PROVE d + 1 \in S
  <2> SUFFICES ASSUME f + 1 + (d + 1) \in File
               PROVE  FirstPos[f] + LastSeq[f] < FirstPos[f + 1 + (d + 1)]
    BY <1>1
  <2>1. f + 1 + d \in File /\ f + 1 + (d + 1) = (f + 1 + d) + 1
    BY <1>1, FilesAssumption DEF File
  <2>2. FirstPos[(f + 1 + d) + 1] = FirstPos[f + 1 + d] + LastSeq[f + 1 + d] + 1
    BY <2>1, FirstPosTyped
  <2>3. FirstPos[f] + LastSeq[f] < FirstPos[f + 1 + d]  BY <1>3, <2>1
  <2> QED BY <1>1, <2>1, <2>2, <2>3
<1>4. g - f - 1 \in Nat  BY <1>1
<1> HIDE DEF S
<1>5. g - f - 1 \in S  BY <1>2, <1>3, <1>4, InductionUpTo
<1>6. f + 1 + (g - f - 1) = g  BY <1>1
<1> QED BY <1>5, <1>6 DEF S

\* The place of a chunk, what its file and number are.
LEMMA ChunkPlace ==
  ASSUME NEW c \in Chunks
  PROVE  /\ c = Chunk(c.fileno, c.seqno)
         /\ c.fileno \in File /\ c.seqno \in 0 .. LastSeq[c.fileno]
         /\ LastSeq[c.fileno] \in Nat /\ FirstPos[c.fileno] \in Nat
         /\ Pos(c) \in Nat
<1>1. PICK f \in File : \E s \in 0 .. LastSeq[f] : c = Chunk(f, s)  BY DEF Chunks
<1>2. PICK s \in 0 .. LastSeq[f] : c = Chunk(f, s)  BY <1>1
<1>3. c.fileno = f /\ c.seqno = s  BY <1>2 DEF Chunk
<1>4. LastSeq[f] \in Nat /\ FirstPos[f] \in Nat
  BY FirstPosTyped, FilesAssumption DEF File
<1> QED BY <1>2, <1>3, <1>4 DEF Pos

\* Two chunks at one place are the same.
LEMMA OneChunkPerPlace ==
  ASSUME NEW c \in Chunks, NEW d \in Chunks, Pos(c) = Pos(d)
  PROVE  c = d
<1>1. c.fileno \in Int /\ d.fileno \in Int  BY ChunkPlace, FileTypes
<1>2. ~(c.fileno < d.fileno) /\ ~(d.fileno < c.fileno)
  BY ChunkPlace, FilesApart DEF Pos
<1>3. c.fileno = d.fileno  BY <1>1, <1>2
<1>4. c.seqno = d.seqno  BY <1>3, ChunkPlace DEF Pos
<1> QED BY <1>3, <1>4, ChunkPlace

\* The chunk after c is at the next place; only the last chunk of all has none.
LEMMA NextPlace ==
  ASSUME NEW c \in Chunks, NEW d \in Chunks, Pos(d) = Pos(c) + 1
  PROVE  /\ d = NextChunk(c)
         /\ ~IsLast(ChunkPacket(c))
         /\ d.seqno = 0 <=> ~(c.seqno < LastSeq[c.fileno])
<1>1. /\ c.fileno \in File /\ d.fileno \in File /\ c.fileno \in Int /\ d.fileno \in Int
  BY ChunkPlace, FileTypes
<1>2. c.seqno \in Nat /\ d.seqno \in Nat /\ c.seqno <= LastSeq[c.fileno]
      /\ d.seqno <= LastSeq[d.fileno] /\ LastSeq[c.fileno] \in Nat /\ LastSeq[d.fileno] \in Nat
      /\ FirstPos[c.fileno] \in Nat /\ FirstPos[d.fileno] \in Nat
  BY ChunkPlace
<1>3. ~(d.fileno < c.fileno)
  BY <1>1, <1>2, FilesApart DEF Pos
<1>4. CASE c.fileno = d.fileno
  <2>1. d.seqno = c.seqno + 1 /\ c.seqno < LastSeq[c.fileno]  BY <1>2, <1>4 DEF Pos
  <2>2. d = NextChunk(c)  BY <1>4, <2>1, ChunkPlace DEF NextChunk
  <2>3. ~IsLast(ChunkPacket(c))
    <3>1. c.fileno = NoFiles - 1 => c # Chunk(NoFiles - 1, LastSeq[NoFiles - 1])
      BY <1>2, <2>1 DEF Chunk
    <3>2. c = Chunk(NoFiles - 1, LastSeq[NoFiles - 1]) => c.fileno = NoFiles - 1  BY DEF Chunk
    <3> QED BY <3>1, <3>2 DEF IsLast, ChunkPacket
  <2> QED BY <1>2, <2>1, <2>2, <2>3
<1>5. CASE c.fileno < d.fileno
  <2>1. /\ c.fileno + 1 \in File /\ c.fileno # NoFiles - 1
    BY <1>1, <1>5, FilesAssumption DEF File
  <2>2. FirstPos[c.fileno + 1] = FirstPos[c.fileno] + LastSeq[c.fileno] + 1
    BY <1>1, FirstPosTyped
  <2>3. ~(c.fileno + 1 < d.fileno)
    <3>1. SUFFICES ASSUME c.fileno + 1 < d.fileno PROVE FALSE  OBVIOUS
    <3>2. FirstPos[c.fileno + 1] + LastSeq[c.fileno + 1] < FirstPos[d.fileno]
      BY <1>1, <2>1, <3>1, FilesApart
    <3>3. LastSeq[c.fileno + 1] \in Nat  BY <2>1, FilesAssumption
    <3> QED BY <1>2, <2>2, <3>2, <3>3 DEF Pos
  <2>4. d.fileno = c.fileno + 1  BY <1>1, <1>5, <2>3
  <2>5. d.seqno = 0 /\ c.seqno = LastSeq[c.fileno]  BY <1>2, <2>2, <2>4 DEF Pos
  <2>6. d = NextChunk(c)  BY <1>2, <2>4, <2>5, ChunkPlace DEF NextChunk
  <2>7. ~IsLast(ChunkPacket(c))  BY <2>1 DEF IsLast, ChunkPacket, Chunk
  <2> QED BY <1>2, <2>5, <2>6, <2>7
<1> QED BY <1>1, <1>3, <1>4, <1>5

\* What follows a packet in the stream: after the last chunk of a file the next file's
\* number, after the number its first chunk, and after any other chunk the next one.
LEMMA AfterChunk ==
  ASSUME NEW c \in Chunks, NEW d \in Chunks, Pos(d) = Pos(c) + 1
  PROVE  Successor(ChunkPacket(c)) = IF d.seqno = 0 THEN FilenoPacket(d.fileno) ELSE ChunkPacket(d)
<1>1. d = NextChunk(c) /\ (d.seqno = 0 <=> ~(c.seqno < LastSeq[c.fileno]))  BY NextPlace
<1>2. ChunkPacket(c).kind = "data" /\ ChunkPacket(c).chunk = c  BY DEF ChunkPacket
<1>3. CASE d.seqno # 0  BY <1>1, <1>2, <1>3 DEF Successor
<1>4. CASE d.seqno = 0
  <2>1. d.fileno = c.fileno + 1  BY <1>1, <1>4 DEF NextChunk, Chunk
  <2> QED BY <1>1, <1>2, <1>4, <2>1 DEF Successor
<1> QED BY <1>3, <1>4

LEMMA AfterFileno ==
  ASSUME NEW c \in Chunks, c.seqno = 0
  PROVE  /\ Successor(FilenoPacket(c.fileno)) = ChunkPacket(c)
         /\ ~IsLast(FilenoPacket(c.fileno))
<1>1. c = Chunk(c.fileno, 0)  BY ChunkPlace
<1> QED BY <1>1 DEF Successor, FilenoPacket, ChunkPacket, IsLast

\* A wire stays in order when what follows is put at its end.
LEMMA InOrderAppend ==
  ASSUME NEW S, NEW wire \in Seq(S), NEW p \in S, InOrder(wire),
         wire # <<>> => /\ wire[Len(wire)].kind # "frag"
                        /\ p.kind = "frag" \/ p = Successor(wire[Len(wire)])
  PROVE  /\ InOrder(Append(wire, p)) /\ Append(wire, p) # <<>>
         /\ Append(wire, p)[Len(Append(wire, p))] = p
         /\ Append(wire, p)[1] = IF wire = <<>> THEN p ELSE wire[1]
<1> DEFINE w == Append(wire, p)
<1>1. /\ Len(wire) \in Nat /\ Len(w) = Len(wire) + 1 /\ w[Len(w)] = p /\ w # <<>>
      /\ \A i \in 1 .. Len(wire) : w[i] = wire[i]
  <2>1. Len(wire) \in Nat /\ Len(w) = Len(wire) + 1  OBVIOUS
  <2>2. w[Len(wire) + 1] = p /\ \A i \in 1 .. Len(wire) : w[i] = wire[i]  OBVIOUS
  <2> HIDE DEF w
  <2>3. w # <<>>
    <3>1. Len(<<>>) = 0  OBVIOUS
    <3> QED BY <2>1, <3>1
  <2> QED BY <2>1, <2>2, <2>3
<1>2. wire = <<>> <=> Len(wire) = 0  OBVIOUS
<1> HIDE DEF w
<1>3. ASSUME NEW i \in 1 .. Len(w) - 1
      PROVE  w[i].kind # "frag" /\ (w[i + 1].kind = "frag" \/ w[i + 1] = Successor(w[i]))
  <2>1. CASE i = Len(wire)
    <3>1. w[i] = wire[Len(wire)] /\ w[i + 1] = p /\ wire # <<>>  BY <1>1, <1>2, <1>3, <2>1
    <3> QED BY <3>1
  <2>2. CASE i # Len(wire)
    <3>1. i \in 1 .. Len(wire) - 1 /\ w[i] = wire[i] /\ w[i + 1] = wire[i + 1]
      BY <1>1, <1>3, <2>2
    <3> QED BY <3>1 DEF InOrder
  <2> QED BY <2>1, <2>2
<1>4. InOrder(w)  BY <1>3 DEF InOrder
<1>5. w[1] = IF wire = <<>> THEN p ELSE wire[1]  BY <1>1, <1>2
<1> QED BY <1>1, <1>4, <1>5 DEF w

\* The place of the chunk after c, and the place after all of them.
LEMMA PlaceOfNext ==
  ASSUME NEW c \in Chunks, NextChunk(c) \in Chunks
  PROVE  Pos(NextChunk(c)) = Pos(c) + 1
<1>1. c.fileno \in File /\ c.seqno \in 0 .. LastSeq[c.fileno] /\ LastSeq[c.fileno] \in Nat
      /\ FirstPos[c.fileno] \in Nat
  BY ChunkPlace
<1>2. CASE c.seqno < LastSeq[c.fileno]  BY <1>1, <1>2 DEF NextChunk, Pos, Chunk
<1>3. CASE ~(c.seqno < LastSeq[c.fileno])
  <2>1. NextChunk(c) = Chunk(c.fileno + 1, 0) /\ c.seqno = LastSeq[c.fileno]
    BY <1>1, <1>3 DEF NextChunk
  <2>2. FirstPos[c.fileno + 1] = FirstPos[c.fileno] + LastSeq[c.fileno] + 1
    BY <1>1, FirstPosTyped
  <2> QED BY <1>1, <2>1, <2>2 DEF Pos, Chunk
<1> QED BY <1>2, <1>3

LEMMA PlaceOfLast ==
  LET last == Chunk(NoFiles - 1, LastSeq[NoFiles - 1])
  IN last \in Chunks /\ Pos(last) = FirstPos[NoFiles] - 1
<1>1. NoFiles - 1 \in File /\ NoFiles - 1 + 1 = NoFiles  BY FilesAssumption DEF File
<1>2. LastSeq[NoFiles - 1] \in Nat /\ FirstPos[NoFiles - 1] \in Nat
      /\ FirstPos[NoFiles] = FirstPos[NoFiles - 1] + LastSeq[NoFiles - 1] + 1
  BY <1>1, FirstPosTyped, FilesAssumption DEF File
<1>3. LastSeq[NoFiles - 1] \in 0 .. LastSeq[NoFiles - 1]  BY <1>2
<1>4. Chunk(NoFiles - 1, LastSeq[NoFiles - 1]) \in Chunks  BY <1>1, <1>3 DEF Chunks
<1> QED BY <1>2, <1>4 DEF Pos, Chunk

\* The packets of the stream, none of which follows the last chunk.
StreamPacket == {FilenoPacket(f) : f \in File} \cup {ChunkPacket(c) : c \in Chunks}

LEMMA NothingAfterLast ==
  ASSUME NEW p, IsLast(p)
  PROVE  p.kind # "frag" /\ Successor(p) \notin StreamPacket
<1>1. LastSeq[NoFiles - 1] \in Nat /\ NoFiles \in Nat  BY FilesAssumption DEF File
<1>2. p.kind = "data" /\ p.chunk.fileno = NoFiles - 1 /\ p.chunk.seqno = LastSeq[NoFiles - 1]
  BY DEF IsLast, ChunkPacket, Chunk
<1>3. Successor(p) = FilenoPacket(NoFiles)  BY <1>1, <1>2 DEF Successor
<1>4. FilenoPacket(NoFiles).kind = "fileno" /\ FilenoPacket(NoFiles).chunk.fileno = NoFiles
  BY DEF FilenoPacket, Chunk
<1>5. ASSUME NEW f \in File PROVE FilenoPacket(NoFiles) # FilenoPacket(f)
  BY <1>1, <1>4 DEF FilenoPacket, Chunk, File
<1>6. ASSUME NEW c \in Chunks PROVE FilenoPacket(NoFiles) # ChunkPacket(c)
  BY <1>4 DEF ChunkPacket
<1> QED BY <1>2, <1>3, <1>5, <1>6 DEF StreamPacket

LEMMA StreamIsTyped ==
  ASSUME NEW p \in StreamPacket
  PROVE  p \in Packet /\ p.kind # "frag" /\ p # Fragment
<1>1. CASE p \in {FilenoPacket(f) : f \in File}
  BY <1>1, FilenoIsPacket, FileTypes DEF FilenoPacket, Fragment
<1>2. CASE p \in {ChunkPacket(c) : c \in Chunks}
  BY <1>2, ChunksAreTyped DEF ChunkPacket, Packet, Fragment
<1> QED BY <1>1, <1>2 DEF StreamPacket

\* Chunks at later places are of later files, or of the same one.
LEMMA PlacesByFile ==
  ASSUME NEW c \in Chunks, NEW d \in Chunks
  PROVE  /\ Pos(c) <= Pos(d) => c.fileno <= d.fileno
         /\ Pos(c) < Pos(d) /\ d.seqno = 0 => c.fileno < d.fileno
<1>1. c.fileno \in File /\ d.fileno \in File /\ c.fileno \in Int /\ d.fileno \in Int
  BY ChunkPlace, FileTypes
<1>2. /\ c.seqno \in Nat /\ d.seqno \in Nat /\ c.seqno <= LastSeq[c.fileno]
      /\ d.seqno <= LastSeq[d.fileno] /\ LastSeq[c.fileno] \in Nat /\ LastSeq[d.fileno] \in Nat
      /\ FirstPos[c.fileno] \in Nat /\ FirstPos[d.fileno] \in Nat
  BY ChunkPlace
<1>3. d.fileno < c.fileno => Pos(d) < Pos(c)
  BY <1>1, <1>2, FilesApart DEF Pos
<1>4. Pos(c) \in Nat /\ Pos(d) \in Nat  BY ChunkPlace
<1>5. c.fileno = d.fileno /\ d.seqno = 0 => Pos(d) <= Pos(c)
  BY <1>2 DEF Pos
<1> QED BY <1>1, <1>3, <1>4, <1>5

-----------------------------------------------------------------------------
(***************************************************************************)
(* A connection on which chunks are sent again.  From its first file       *)
(* number on it carries the stream; its chunks are of file h and later     *)
(* ones, and its file numbers are of files after h.                        *)
(***************************************************************************)
Flows(w) ==
  \A i \in 2 .. Len(w) : (\E k \in 1 .. i : w[k].kind = "fileno") =>
    /\ w[i - 1].kind # "frag"
    /\ w[i].kind = "frag" \/ (w[i] \in StreamPacket /\ w[i] = Successor(w[i - 1]))
Later(w, h) ==
  \A i \in 1 .. Len(w) : w[i].kind = "data" => w[i].chunk \in Chunks /\ w[i].chunk.fileno >= h
Beyond(w, h) ==
  \A i \in 1 .. Len(w) : w[i].kind = "fileno" => w[i] \in StreamPacket /\ w[i].chunk.fileno > h

LEMMA AppendEnds ==
  ASSUME NEW S, NEW w \in Seq(S), NEW p \in S
  PROVE  /\ Len(w) \in Nat /\ Len(Append(w, p)) = Len(w) + 1 /\ Append(w, p)[Len(w) + 1] = p
         /\ \A i \in 1 .. Len(w) : Append(w, p)[i] = w[i]
         /\ Append(w, p) # <<>>
<1>1. Len(w) \in Nat /\ Len(Append(w, p)) = Len(w) + 1  OBVIOUS
<1>2. Append(w, p)[Len(w) + 1] = p /\ \A i \in 1 .. Len(w) : Append(w, p)[i] = w[i]  OBVIOUS
<1>3. Len(<<>>) = 0  OBVIOUS
<1> QED BY <1>1, <1>2, <1>3

LEMMA FlowsAppend ==
  ASSUME NEW S, NEW w \in Seq(S), NEW p \in S, Flows(w),
         \/ \A i \in 1 .. Len(Append(w, p)) : Append(w, p)[i].kind # "fileno"
         \/ w # <<>> => /\ w[Len(w)].kind # "frag"
                        /\ p.kind = "frag" \/ (p \in StreamPacket /\ p = Successor(w[Len(w)]))
  PROVE  Flows(Append(w, p))
<1> DEFINE v == Append(w, p)
<1>1. /\ Len(w) \in Nat /\ Len(v) = Len(w) + 1 /\ v[Len(w) + 1] = p
      /\ \A i \in 1 .. Len(w) : v[i] = w[i]
  BY AppendEnds
<1>2. w = <<>> => Len(w) = 0  OBVIOUS
<1>3. \/ \A i \in 1 .. Len(v) : v[i].kind # "fileno"
      \/ w # <<>> => /\ w[Len(w)].kind # "frag"
                     /\ p.kind = "frag" \/ (p \in StreamPacket /\ p = Successor(w[Len(w)]))
  OBVIOUS
<1> HIDE DEF v
<1> SUFFICES ASSUME NEW i \in 2 .. Len(v), NEW k \in 1 .. i, v[k].kind = "fileno"
             PROVE  /\ v[i - 1].kind # "frag"
                    /\ v[i].kind = "frag" \/ (v[i] \in StreamPacket /\ v[i] = Successor(v[i - 1]))
  BY DEF Flows, v
<1>4. CASE i = Len(w) + 1
  <2>1. v[i] = p /\ v[i - 1] = w[Len(w)] /\ w # <<>> /\ k \in 1 .. Len(v)
    BY <1>1, <1>2, <1>4
  <2> QED BY <1>3, <2>1
<1>5. CASE i # Len(w) + 1
  <2>1. /\ i \in 2 .. Len(w) /\ v[i] = w[i] /\ v[i - 1] = w[i - 1] /\ v[k] = w[k]
    BY <1>1, <1>5
  <2> QED BY <2>1 DEF Flows
<1> QED BY <1>4, <1>5

LEMMA LaterAppend ==
  ASSUME NEW S, NEW w \in Seq(S), NEW p \in S, NEW h, Later(w, h),
         p.kind = "data" => p.chunk \in Chunks /\ p.chunk.fileno >= h
  PROVE  Later(Append(w, p), h)
<1> DEFINE v == Append(w, p)
<1>1. /\ Len(w) \in Nat /\ Len(v) = Len(w) + 1 /\ v[Len(w) + 1] = p
      /\ \A i \in 1 .. Len(w) : v[i] = w[i]
  BY AppendEnds
<1> HIDE DEF v
<1>2. ASSUME NEW i \in 1 .. Len(v), v[i].kind = "data"
      PROVE  v[i].chunk \in Chunks /\ v[i].chunk.fileno >= h
  <2>1. CASE i = Len(w) + 1  BY <1>1, <1>2, <2>1
  <2>2. CASE i # Len(w) + 1
    <3>1. i \in 1 .. Len(w) /\ v[i] = w[i]  BY <1>1, <2>2
    <3> QED BY <1>2, <3>1 DEF Later
  <2> QED BY <2>1, <2>2
<1> QED BY <1>2 DEF Later, v

LEMMA BeyondAppend ==
  ASSUME NEW S, NEW w \in Seq(S), NEW p \in S, NEW h, Beyond(w, h),
         p.kind = "fileno" => p \in StreamPacket /\ p.chunk.fileno > h
  PROVE  Beyond(Append(w, p), h)
<1> DEFINE v == Append(w, p)
<1>1. /\ Len(w) \in Nat /\ Len(v) = Len(w) + 1 /\ v[Len(w) + 1] = p
      /\ \A i \in 1 .. Len(w) : v[i] = w[i]
  BY AppendEnds
<1> HIDE DEF v
<1>2. ASSUME NEW i \in 1 .. Len(v), v[i].kind = "fileno"
      PROVE  v[i] \in StreamPacket /\ v[i].chunk.fileno > h
  <2>1. CASE i = Len(w) + 1  BY <1>1, <1>2, <2>1
  <2>2. CASE i # Len(w) + 1
    <3>1. i \in 1 .. Len(w) /\ v[i] = w[i]  BY <1>1, <2>2
    <3> QED BY <1>2, <3>1 DEF Beyond
  <2> QED BY <2>1, <2>2
<1> QED BY <1>2 DEF Beyond, v

LEMMA NothingSent ==
  ASSUME NEW h
  PROVE  Flows(<<>>) /\ Later(<<>>, h) /\ Beyond(<<>>, h)
<1>1. Len(<<>>) = 0  OBVIOUS
<1> QED BY <1>1 DEF Flows, Later, Beyond
=============================================================================
