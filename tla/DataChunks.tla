----------------------------- MODULE DataChunks -----------------------------
(***************************************************************************)
(* The data that goes round the ring, as every node sees it: the files cut *)
(* into chunks, the packets that carry them (src/Packet.h) and the buffer  *)
(* a chunk is kept in (src/Buffer.h).  A chunk is its file number and its  *)
(* sequence number in that file; the bytes are abstracted to the name of   *)
(* the chunk they are of.                                                  *)
(***************************************************************************)
EXTENDS Integers, Sequences

CONSTANTS
  NoFiles,     \* files to copy
  LastSeq      \* LastSeq[f] is the seqno of the last chunk of file f

File == 0 .. NoFiles - 1

ASSUME FilesAssumption == NoFiles \in Nat \ {0} /\ LastSeq \in [File -> Nat]

Chunk(f, s) == [fileno |-> f, seqno |-> s]
Chunks == UNION {{Chunk(f, s) : s \in 0 .. LastSeq[f]} : f \in File}
Torn == Chunk(-1, -1)          \* the bytes of a buffer that is being filled

\* the chunk after another in the stream of all the files, and the place of a chunk there
NextChunk(c) == IF c.seqno < LastSeq[c.fileno] THEN Chunk(c.fileno, c.seqno + 1)
                ELSE Chunk(c.fileno + 1, 0)
FirstPos[f \in 0 .. NoFiles] == IF f = 0 THEN 0 ELSE FirstPos[f - 1] + LastSeq[f - 1] + 1
Pos(c) == FirstPos[c.fileno] + c.seqno

(***************************************************************************)
(* Buffers.  A buffer is complete when its bytes are the chunk its header  *)
(* names and its mark says whether the file, and the job, end there.       *)
(***************************************************************************)
EofMark == {"NORMAL", "EOF", "FINAL_EOF"}
MarkOf(c) == IF c.seqno < LastSeq[c.fileno] THEN "NORMAL"
             ELSE IF c.fileno + 1 < NoFiles THEN "EOF" ELSE "FINAL_EOF"
HeaderOf(buff) == Chunk(buff.fileno, buff.seqno)
Complete(buff) ==
  LET c == HeaderOf(buff)
  IN buff.body = c /\ c \in Chunks /\ buff.eof = MarkOf(c)

ChunkType == [fileno : Int, seqno : Int]
BufferType == [fileno : Int, seqno : Int, body : ChunkType, eof : EofMark]

(***************************************************************************)
(* Packets of a data connection: the chunk the header names and the one    *)
(* the bytes are of.  A "frag" is what a send that timed out half way has  *)
(* left on the connection.                                                 *)
(***************************************************************************)
Packet == [kind : {"fileno", "data", "frag"}, chunk : ChunkType, body : ChunkType]
FilenoPacket(f) == [kind |-> "fileno", chunk |-> Chunk(f, 0), body |-> Chunk(f, 0)]
ChunkPacket(c) == [kind |-> "data", chunk |-> c, body |-> c]
DataPacket(buff) == [kind |-> "data", chunk |-> HeaderOf(buff), body |-> buff.body]
Fragment == [kind |-> "frag", chunk |-> Torn, body |-> Torn]

IsLast(p) == p = ChunkPacket(Chunk(NoFiles - 1, LastSeq[NoFiles - 1]))
Successor(p) ==
  IF p.kind = "fileno" THEN ChunkPacket(p.chunk)
  ELSE IF p.chunk.seqno < LastSeq[p.chunk.fileno]
       THEN ChunkPacket(NextChunk(p.chunk))
       ELSE FilenoPacket(p.chunk.fileno + 1)

\* Every packet is the one that follows the packet before it, and nothing
\* follows a fragment.
InOrder(wire) ==
  \A i \in 1 .. Len(wire) - 1 :
    wire[i].kind # "frag" /\ (wire[i + 1].kind = "frag" \/ wire[i + 1] = Successor(wire[i]))
=============================================================================
