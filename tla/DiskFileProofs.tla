--------------------------- MODULE DiskFileProofs ---------------------------
(***************************************************************************)
(* What DiskFile's runs show for a few sizes, for every image and every    *)
(* buffer: a copy that is done has the size of the image; when the calls   *)
(* transfer what they are asked for it has its content too, and the image  *)
(* was cut into the chunks that DataChunks and ServThread count with.      *)
(***************************************************************************)
EXTENDS DiskFile, TLAPS

PCs == {"reading", "writing", "done", "readfailed", "writefailed"}

TypeInv ==
  /\ length \in Nat /\ pos \in 0 .. length
  /\ buff \in [bytes : [1 .. BufferSize -> Nat], contsize : 0 .. BufferSize, eof : BOOLEAN]
  /\ loop \in [ii : Nat, rest : 0 .. BufferSize, sum : 0 .. BufferSize]
  /\ output \in Seq(Nat) /\ pc \in PCs
  /\ pc = "reading" => loop.rest + loop.sum = BufferSize /\ loop.rest > 0

\* The bytes read and not written yet are those the locals of the call count
SizeInv ==
  /\ pc = "reading" => Len(output) + loop.sum = pos
  /\ pc = "writing" => Len(output) + loop.rest = pos /\ (buff.eof => pos = length)
  /\ pc = "done" => Len(output) = pos /\ pos = length
  /\ pc \in {"readfailed", "writefailed"} => Len(output) <= pos

\* A call that returns what is there leaves only the end of the file to find
WholeInv ==
  /\ \A i \in 1 .. Len(output) : output[i] = i
  /\ pc = "reading" =>
       /\ loop.sum > 0 => pos = length
       /\ \A i \in 1 .. loop.sum : buff.bytes[i] = Len(output) + i
  /\ pc = "writing" => \A i \in 1 .. loop.rest : buff.bytes[i] = Len(output) + i

\* What a read() or a write() returns lies between nothing and what was asked.
LEMMA ReturnedBounds ==
  ASSUME NEW asked \in Nat, NEW present \in Nat, NEW ret \in Returned(asked, present)
  PROVE  ret \in Nat /\ ret <= asked /\ ret <= present
PROOF BY DEF Returned, Lesser

LEMMA WholeReturn ==
  ASSUME NEW asked \in Nat, NEW present \in Nat, NEW ret \in Returned(asked, present), ~short
  PROVE  ret = IF asked < present THEN asked ELSE present
PROOF BY DEF Returned, Lesser

\* The types, and that a read() is never asked for nothing.
LEMMA TypeStep == TypeInv /\ [Next]_vars => TypeInv'
<1> SUFFICES ASSUME TypeInv, [Next]_vars PROVE TypeInv'
  OBVIOUS
<1> USE DiskAssumption DEF TypeInv
<1>1. CASE Read
  <2>1. PICK ret \in Returned(loop.rest, length - pos) \ {0} :
          LET sum == loop.sum + ret  rest == loop.rest - ret
          IN /\ pos' = pos + ret
             /\ IF rest = 0 THEN Filled(Overlaid(ret), sum, FALSE)
                ELSE /\ buff' = [buff EXCEPT !.bytes = Overlaid(ret)]
                     /\ loop' = [ii |-> loop.ii + 1, rest |-> rest, sum |-> sum]
                     /\ pc' = IF loop.ii + 1 < MAX_DISK_RETRY THEN "reading" ELSE "readfailed"
                     /\ UNCHANGED chunks
    BY <1>1 DEF Read
  <2>2. /\ ret \in Nat /\ ret > 0 /\ ret <= loop.rest /\ ret <= length - pos
        /\ pc = "reading" /\ UNCHANGED <<length, output>>
    <3>1. pc = "reading" /\ UNCHANGED <<length, output>>
      BY <1>1 DEF Read
    <3>2. loop.rest \in Nat /\ length - pos \in Nat
      OBVIOUS
    <3>3. ret \in Returned(loop.rest, length - pos) /\ ret # 0
      BY <2>1
    <3>4. ret \in Nat /\ ret <= loop.rest /\ ret <= length - pos
      BY ONLY <3>2, <3>3, ReturnedBounds
    <3> QED BY <3>1, <3>3, <3>4
  <2>3. Overlaid(ret) \in [1 .. BufferSize -> Nat]
    BY <2>2 DEF Overlaid
  <2>4. length' \in Nat /\ pos' \in 0 .. length' /\ output' \in Seq(Nat)
    BY <2>1, <2>2
  <2>5. CASE loop.rest - ret = 0
    <3>1. /\ buff' = [bytes |-> Overlaid(ret), contsize |-> loop.sum + ret, eof |-> FALSE]
          /\ loop' = [ii |-> 0, rest |-> loop.sum + ret, sum |-> 0] /\ pc' = "writing"
      BY <2>1, <2>5 DEF Filled, Writing
    <3>2. loop.sum + ret \in 0 .. BufferSize
      BY <2>2, <2>5
    <3>3. pc' \in PCs /\ pc' # "reading"
      BY <3>1 DEF PCs
    <3>4. buff' \in [bytes : [1 .. BufferSize -> Nat], contsize : 0 .. BufferSize, eof : BOOLEAN]
      BY <2>3, <3>1, <3>2
    <3>5. loop' \in [ii : Nat, rest : 0 .. BufferSize, sum : 0 .. BufferSize]
      BY <3>1, <3>2
    <3> QED BY <2>4, <3>3, <3>4, <3>5
  <2>6. CASE loop.rest - ret # 0
    <3>1. /\ buff' = [buff EXCEPT !.bytes = Overlaid(ret)]
          /\ loop' = [ii |-> loop.ii + 1, rest |-> loop.rest - ret, sum |-> loop.sum + ret]
          /\ pc' \in {"reading", "readfailed"}
      BY <2>1, <2>6
    <3>2. loop.rest - ret \in 1 .. BufferSize /\ loop.sum + ret \in 0 .. BufferSize
      BY <2>2, <2>6
    <3>3. loop.rest - ret + (loop.sum + ret) = BufferSize
      BY <2>2
    <3>4. buff' \in [bytes : [1 .. BufferSize -> Nat], contsize : 0 .. BufferSize, eof : BOOLEAN]
      BY <2>3, <3>1
    <3>5. loop' \in [ii : Nat, rest : 0 .. BufferSize, sum : 0 .. BufferSize]
      <4>1. loop.ii + 1 \in Nat /\ loop.rest - ret \in 0 .. BufferSize
        BY <3>2
      <4> QED BY ONLY <3>1, <3>2, <4>1
    <3>6. loop'.rest + loop'.sum = BufferSize /\ loop'.rest > 0
      BY <3>1, <3>2, <3>3
    <3>7. pc' \in PCs
      BY <3>1 DEF PCs
    <3> QED BY <2>4, <3>4, <3>5, <3>6, <3>7
  <2> QED BY <2>5, <2>6
<1>2. CASE ReadEof
  BY <1>2 DEF ReadEof, Filled, Writing, PCs
<1>3. CASE Write
  <2>1. PICK ret \in Returned(loop.rest, loop.rest) :
          LET rest == loop.rest - ret
          IN /\ output' = output \o SubSeq(buff.bytes, 1, ret)
             /\ IF rest = 0
                THEN /\ loop' = Reading
                     /\ pc' = IF buff.eof THEN "done" ELSE "reading"
                ELSE /\ loop' = [ii |-> loop.ii + 1, rest |-> rest, sum |-> 0]
                     /\ pc' = IF loop.ii + 1 < MAX_DISK_RETRY THEN "writing" ELSE "writefailed"
    BY <1>3 DEF Write
  <2>2. /\ ret \in Nat /\ ret <= loop.rest /\ pc = "writing" /\ UNCHANGED <<length, pos, buff>>
    BY <1>3, ReturnedBounds DEF Write
  <2>3. output' \in Seq(Nat)
    <3>1. buff.bytes \in Seq(Nat) /\ Len(buff.bytes) = BufferSize
      OBVIOUS
    <3>2. SubSeq(buff.bytes, 1, ret) \in Seq(Nat)
      BY <2>2, <3>1
    <3> QED BY <2>1, <3>2
  <2>4. loop' \in [ii : Nat, rest : 0 .. BufferSize, sum : 0 .. BufferSize]
    BY <2>1, <2>2 DEF Reading
  <2>5. pc' = "reading" => loop'.rest + loop'.sum = BufferSize /\ loop'.rest > 0
    BY <2>1 DEF Reading
  <2> QED BY <2>1, <2>2, <2>3, <2>4, <2>5 DEF PCs
<1>4. CASE UNCHANGED vars
  BY <1>4 DEF vars
<1>5. CASE ReadFails \/ WriteFails
  BY <1>5 DEF ReadFails, WriteFails, TypeInv, PCs
<1> QED BY <1>1, <1>2, <1>3, <1>4, <1>5 DEF Next, Copying, Ended

\* write() appends as many bytes as it says, from the start of the buffer.
LEMMA Written ==
  ASSUME TypeInv, pc = "writing", NEW ret \in Nat, ret <= loop.rest
  PROVE  LET more == output \o SubSeq(buff.bytes, 1, ret)
         IN /\ Len(more) = Len(output) + ret
            /\ \A i \in 1 .. Len(output) : more[i] = output[i]
            /\ \A i \in 1 .. ret : more[Len(output) + i] = buff.bytes[i]
<1>1. buff.bytes \in Seq(Nat) /\ Len(buff.bytes) = BufferSize /\ ret <= BufferSize /\ output \in Seq(Nat)
  BY DiskAssumption DEF TypeInv
<1>2. /\ SubSeq(buff.bytes, 1, ret) \in Seq(Nat) /\ Len(SubSeq(buff.bytes, 1, ret)) = ret
      /\ \A i \in 1 .. ret : SubSeq(buff.bytes, 1, ret)[i] = buff.bytes[i]
  BY <1>1
<1> DEFINE part == SubSeq(buff.bytes, 1, ret)
<1>3. Len(output \o part) = Len(output) + ret
  BY <1>1, <1>2
<1>4. \A i \in 1 .. Len(output) : (output \o part)[i] = output[i]
  BY <1>1, <1>2
<1>5. \A i \in 1 .. ret : (output \o part)[Len(output) + i] = part[i]
  BY <1>1, <1>2
<1> QED BY <1>2, <1>3, <1>4, <1>5

LEMMA SizeStep == TypeInv /\ SizeInv /\ [Next]_vars => SizeInv'
<1> SUFFICES ASSUME TypeInv, SizeInv, [Next]_vars PROVE SizeInv'
  OBVIOUS
<1>0. Len(output) \in Nat
  BY DEF TypeInv
<1>1. CASE Read
  <2>1. PICK ret \in Returned(loop.rest, length - pos) \ {0} :
          /\ pos' = pos + ret
          /\ IF loop.rest - ret = 0 THEN Filled(Overlaid(ret), loop.sum + ret, FALSE)
             ELSE /\ loop' = [ii |-> loop.ii + 1, rest |-> loop.rest - ret, sum |-> loop.sum + ret]
                  /\ pc' = IF loop.ii + 1 < MAX_DISK_RETRY THEN "reading" ELSE "readfailed"
    BY <1>1 DEF Read
  <2>2. pc = "reading" /\ UNCHANGED <<output, length>>
    BY <1>1 DEF Read
  <2>3. loop.rest \in Nat /\ length - pos \in Nat /\ loop.sum \in Nat /\ pos \in Nat
    BY DEF TypeInv
  <2>4. ret \in Nat
    BY <2>1, <2>3, ReturnedBounds
  <2>5. CASE loop.rest - ret = 0
    <3>1. loop' = [ii |-> 0, rest |-> loop.sum + ret, sum |-> 0] /\ pc' = "writing" /\ ~buff'.eof
      BY <2>1, <2>5 DEF Filled, Writing
    <3> QED BY <1>0, <2>1, <2>2, <2>3, <2>4, <3>1 DEF SizeInv
  <2>6. CASE loop.rest - ret # 0
    <3>1. loop'.sum = loop.sum + ret /\ pc' \in {"reading", "readfailed"}
      BY <2>1, <2>6
    <3>2. Len(output') = Len(output) /\ pos' = pos + ret /\ Len(output) + loop.sum = pos
      BY <2>1, <2>2 DEF SizeInv
    <3>3. Len(output') + loop'.sum = pos' /\ Len(output') <= pos'
      BY <1>0, <2>3, <2>4, <3>1, <3>2
    <3> QED BY <3>1, <3>3 DEF SizeInv
  <2> QED BY <2>5, <2>6
<1>2. CASE ReadEof
  BY <1>0, <1>2 DEF ReadEof, TypeInv, SizeInv, Filled, Writing
<1>3. CASE Write
  <2>1. PICK ret \in Returned(loop.rest, loop.rest) :
          /\ output' = output \o SubSeq(buff.bytes, 1, ret)
          /\ IF loop.rest - ret = 0
             THEN /\ loop' = Reading
                  /\ pc' = IF buff.eof THEN "done" ELSE "reading"
             ELSE /\ loop' = [ii |-> loop.ii + 1, rest |-> loop.rest - ret, sum |-> 0]
                  /\ pc' = IF loop.ii + 1 < MAX_DISK_RETRY THEN "writing" ELSE "writefailed"
    BY <1>3 DEF Write
  <2>2. /\ ret \in Nat /\ ret <= loop.rest /\ pc = "writing" /\ UNCHANGED <<length, pos, buff>>
    BY <1>3, ReturnedBounds DEF Write, TypeInv
  <2>3. Len(output') = Len(output) + ret
    BY <2>1, <2>2, Written
  <2>4. Len(output) + loop.rest = pos /\ (buff.eof => pos = length) /\ loop.rest \in Nat /\ pos \in Nat
    BY <2>2 DEF TypeInv, SizeInv
  <2>5. CASE loop.rest - ret = 0
    <3>1. loop'.sum = 0 /\ pc' = IF buff.eof THEN "done" ELSE "reading"
      BY <2>1, <2>5 DEF Reading
    <3>2. Len(output') = pos /\ pos' = pos /\ length' = length
      BY <1>0, <2>2, <2>3, <2>4, <2>5
    <3>3. CASE buff.eof
      BY <2>4, <3>1, <3>2, <3>3 DEF SizeInv
    <3>4. CASE ~buff.eof
      BY <2>4, <3>1, <3>2, <3>4 DEF SizeInv
    <3> QED BY <3>3, <3>4
  <2>6. CASE loop.rest - ret # 0
    <3>1. loop'.rest = loop.rest - ret /\ pc' \in {"writing", "writefailed"}
      BY <2>1, <2>6
    <3>2. /\ Len(output') + loop'.rest = pos /\ Len(output') <= pos
          /\ pos' = pos /\ length' = length /\ (buff'.eof => pos = length)
      BY <1>0, <2>2, <2>3, <2>4, <3>1
    <3> QED BY <3>1, <3>2 DEF SizeInv
  <2> QED BY <2>5, <2>6
<1>4. CASE UNCHANGED vars
  BY <1>4 DEF vars, SizeInv
<1>5. CASE ReadFails \/ WriteFails
  BY <1>5 DEF ReadFails, WriteFails, TypeInv, SizeInv
<1> QED BY <1>1, <1>2, <1>3, <1>4, <1>5 DEF Next, Copying, Ended

LEMMA WholeStep ==
  ASSUME ~short, TypeInv, SizeInv, WholeInv, [Next]_vars
  PROVE  WholeInv'
<1>0. Len(output) \in Nat
  BY DEF TypeInv
<1>1. CASE Read
  <2>1. PICK ret \in Returned(loop.rest, length - pos) \ {0} :
          /\ pos' = pos + ret
          /\ IF loop.rest - ret = 0 THEN Filled(Overlaid(ret), loop.sum + ret, FALSE)
             ELSE /\ buff' = [buff EXCEPT !.bytes = Overlaid(ret)]
                  /\ loop' = [ii |-> loop.ii + 1, rest |-> loop.rest - ret, sum |-> loop.sum + ret]
                  /\ pc' = IF loop.ii + 1 < MAX_DISK_RETRY THEN "reading" ELSE "readfailed"
    BY <1>1 DEF Read
  <2>2. pc = "reading" /\ output' = output /\ length' = length
    BY <1>1 DEF Read
  <2>3. ret = (IF loop.rest < length - pos THEN loop.rest ELSE length - pos) /\ ret > 0
    BY WholeReturn, ReturnedBounds DEF TypeInv
  <2>4. loop.sum = 0 /\ Len(output) = pos
    BY <2>2, <2>3 DEF TypeInv, SizeInv, WholeInv
  <2>5. \A i \in 1 .. ret : Overlaid(ret)[i] = pos + i
    <3>1. loop.rest \in Nat /\ length - pos \in Nat /\ BufferSize \in Nat /\ loop.rest <= BufferSize
      BY DiskAssumption DEF TypeInv
    <3>2. ret \in Nat /\ ret <= loop.rest
      BY <2>1, <3>1, ReturnedBounds
    <3>3. ret <= BufferSize
      BY <3>1, <3>2
    <3> QED BY <3>1, <3>2, <3>3 DEF Overlaid
  <2>6. CASE loop.rest - ret = 0
    BY <1>0, <2>1, <2>2, <2>3, <2>4, <2>5, <2>6 DEF TypeInv, WholeInv, Filled, Writing
  <2>7. CASE loop.rest - ret # 0
    BY <1>0, <2>1, <2>2, <2>3, <2>4, <2>5, <2>7 DEF TypeInv, WholeInv
  <2> QED BY <2>6, <2>7
<1>2. CASE ReadEof
  BY <1>0, <1>2 DEF ReadEof, TypeInv, WholeInv, Filled, Writing
<1>3. CASE Write
  <2>1. PICK ret \in Returned(loop.rest, loop.rest) :
          /\ output' = output \o SubSeq(buff.bytes, 1, ret)
          /\ loop.rest - ret = 0 => loop' = Reading /\ pc' = IF buff.eof THEN "done" ELSE "reading"
    BY <1>3 DEF Write
  <2>2. ret = loop.rest /\ ret \in Nat /\ pc = "writing"
    BY <1>3, WholeReturn DEF Write, TypeInv
  <2>3. /\ Len(output') = Len(output) + ret
        /\ \A i \in 1 .. Len(output) : output'[i] = output[i]
        /\ \A i \in 1 .. ret : output'[Len(output) + i] = buff.bytes[i]
    BY <2>1, <2>2, Written
  <2>4. \A i \in 1 .. Len(output') : output'[i] = i
    <3> SUFFICES ASSUME NEW i \in 1 .. Len(output') PROVE output'[i] = i
      OBVIOUS
    <3>1. CASE i <= Len(output)
      BY <1>0, <2>3, <3>1 DEF WholeInv
    <3>2. CASE i > Len(output)
      <4> DEFINE j == i - Len(output)
      <4>1. j \in 1 .. ret /\ i = Len(output) + j
        BY <1>0, <2>2, <2>3, <3>2
      <4>2. output'[Len(output) + j] = buff.bytes[j] /\ buff.bytes[j] = Len(output) + j
        BY <2>2, <2>3, <4>1 DEF WholeInv
      <4> QED BY <4>1, <4>2
    <3> QED BY <1>0, <2>2, <2>3, <3>1, <3>2
  <2> QED BY <2>1, <2>2, <2>4 DEF WholeInv, Reading, TypeInv
<1>4. CASE UNCHANGED vars
  BY <1>4 DEF vars, WholeInv
<1>5. CASE ReadFails \/ WriteFails
  BY <1>5 DEF ReadFails, WriteFails, TypeInv, WholeInv
<1> QED BY <1>1, <1>2, <1>3, <1>4, <1>5 DEF Next, Copying, Ended

\* The transfers stay what they were when the copy began
LEMMA ShortStays == [Next]_vars => short' = short
BY DEF Next, Copying, Read, ReadEof, ReadFails, Write, WriteFails, Ended, vars

LEMMA Initially == Init => TypeInv /\ SizeInv /\ WholeInv
BY DiskAssumption DEF Init, TypeInv, SizeInv, WholeInv, Reading, PCs, Stale

\* Whatever read() and write() return, for every size of the image and of the buffer:
\* a copy that is said to be done is as long as the image (Disk.cpp:205-273).
THEOREM SizeIsKept == Spec => []SizeKept
<1>1. Init => TypeInv /\ SizeInv
  BY Initially
<1>2. TypeInv /\ SizeInv /\ [Next]_vars => TypeInv' /\ SizeInv'
  BY TypeStep, SizeStep
<1>3. TypeInv /\ SizeInv => SizeKept
  BY DEF TypeInv, SizeInv, SizeKept, PCs
<1> QED BY <1>1, <1>2, <1>3, PTL DEF Spec

\* With whole transfers the target is the image, for every size of both: cutting it
\* into chunks and the retry loops lose, double and disorder nothing.
THEOREM ContentIsKept == Spec => []ContentKept
<1> DEFINE IInv == TypeInv /\ SizeInv /\ (~short => WholeInv)
<1>1. Init => IInv
  BY Initially
<1>2. IInv /\ [Next]_vars => IInv'
  BY TypeStep, SizeStep, WholeStep, ShortStays
<1>3. IInv => ContentKept
  <2> SUFFICES ASSUME IInv, ~short, pc = "done" PROVE output = Image
    BY DEF ContentKept, ContentAnyway
  <2>1. output \in [1 .. Len(output) -> Nat] /\ Len(output) = length
    BY DEF TypeInv, SizeInv
  <2> QED BY <2>1 DEF WholeInv, Image
<1> QED BY <1>1, <1>2, <1>3, PTL DEF Spec

-----------------------------------------------------------------------------
(***************************************************************************)
(* The buffers that are filled                                             *)
(***************************************************************************)
FullBuffer == [size |-> BufferSize, eof |-> FALSE]
Before == Len(chunks) - 1            \* buffers filled before the last one

\* With whole transfers every buffer but the last is full, and the one marked EOF never.
ChunkInv ==
  /\ chunks \in Seq([size : Nat, eof : BOOLEAN])
  /\ pc = "reading" =>
       /\ Len(output) = BufferSize * Len(chunks)
       /\ \A i \in 1 .. Len(chunks) : chunks[i] = FullBuffer
  /\ pc \in {"writing", "done"} =>
       /\ Len(chunks) >= 1 /\ \A i \in 1 .. Before : chunks[i] = FullBuffer
       /\ chunks[Len(chunks)].eof => chunks[Len(chunks)].size < BufferSize
       /\ ~chunks[Len(chunks)].eof => chunks[Len(chunks)] = FullBuffer
  /\ pc = "writing" =>
       /\ Len(output) = BufferSize * Before
       /\ chunks[Len(chunks)] = [size |-> loop.rest, eof |-> buff.eof]
  /\ pc = "done" =>
       /\ chunks[Len(chunks)].eof
       /\ length = BufferSize * Before + chunks[Len(chunks)].size

LEMMA Division ==
  ASSUME NEW N \in Nat \ {0}, NEW q \in Nat, NEW r \in Nat, r < N
  PROVE  (N * q + r) \div N = q /\ (N * q + r) % N = r
<1>1. N * q + r \in Nat  OBVIOUS
<1>2. (N * q + r) % N = r  OBVIOUS
<1>3. (N * q + r) \div N = q  OBVIOUS
<1> QED BY <1>2, <1>3

LEMMA LastOf ==
  ASSUME NEW S, NEW s \in Seq(S), Len(s) >= 1
  PROVE  s[Len(s)] \in S
OBVIOUS

LEMMA OneMore == \A N, q \in Nat : N * (q + 1) = N * q + N
OBVIOUS

\* A buffer is filled: it is the next of them.
LEMMA FilledChunk ==
  ASSUME ChunkInv, pc = "reading", NEW bytes, NEW contsize \in Nat, NEW eof \in BOOLEAN,
         Filled(bytes, contsize, eof), output' = output,
         eof => contsize < BufferSize, ~eof => contsize = BufferSize
  PROVE  ChunkInv'
<1> DEFINE item == [size |-> contsize, eof |-> eof]
           more == Append(chunks, item)
<1>1. /\ chunks' = more /\ buff'.eof = eof /\ loop'.rest = contsize /\ pc' = "writing"
  BY DEF Filled, Writing
<1>2. /\ chunks \in Seq([size : Nat, eof : BOOLEAN]) /\ Len(chunks) \in Nat
      /\ Len(output) = BufferSize * Len(chunks)
      /\ \A i \in 1 .. Len(chunks) : chunks[i] = FullBuffer
  BY DEF ChunkInv
<1>3. /\ more \in Seq([size : Nat, eof : BOOLEAN]) /\ Len(more) = Len(chunks) + 1
      /\ more[Len(chunks) + 1] = item /\ \A i \in 1 .. Len(chunks) : more[i] = chunks[i]
  BY <1>2
<1> HIDE DEF more
<1>4. Before' = Len(chunks) /\ Len(chunks') >= 1  BY <1>1, <1>2, <1>3 DEF Before
<1>5. \A i \in 1 .. Before' : chunks'[i] = FullBuffer  BY <1>1, <1>2, <1>3, <1>4
<1>6. chunks'[Len(chunks')] = item  BY <1>1, <1>3
<1>7. FullBuffer' = FullBuffer  BY DEF FullBuffer
<1>8. ~item.eof => item = FullBuffer  BY DEF FullBuffer
<1> QED BY <1>1, <1>2, <1>3, <1>4, <1>5, <1>6, <1>7, <1>8 DEF ChunkInv

LEMMA ChunkStep ==
  ASSUME ~short, TypeInv, SizeInv, WholeInv, ChunkInv, [Next]_vars
  PROVE  ChunkInv'
<1>0. /\ BufferSize \in Nat \ {0} /\ Len(output) \in Nat /\ Len(chunks) \in Nat
      /\ loop.rest \in Nat /\ loop.sum \in Nat /\ length - pos \in Nat
      /\ chunks \in Seq([size : Nat, eof : BOOLEAN])
  BY DiskAssumption DEF TypeInv, ChunkInv
<1>1. CASE Read
  <2>1. PICK ret \in Returned(loop.rest, length - pos) \ {0} :
          IF loop.rest - ret = 0 THEN Filled(Overlaid(ret), loop.sum + ret, FALSE)
          ELSE /\ pc' = IF loop.ii + 1 < MAX_DISK_RETRY THEN "reading" ELSE "readfailed"
               /\ UNCHANGED chunks
    BY <1>1 DEF Read
  <2>2. pc = "reading" /\ output' = output /\ loop.rest + loop.sum = BufferSize
    BY <1>1 DEF Read, TypeInv
  <2>3. ret \in Nat /\ ret <= loop.rest  BY <1>0, <2>1, ReturnedBounds
  <2>4. CASE loop.rest - ret = 0
    <3>1. loop.sum + ret = BufferSize  BY <1>0, <2>2, <2>3, <2>4
    <3>2. Filled(Overlaid(ret), BufferSize, FALSE)  BY <2>1, <2>4, <3>1
    <3> QED BY <1>0, <2>2, <3>2, FilledChunk
  <2>5. CASE loop.rest - ret # 0
    <3>1. pc' \in {"reading", "readfailed"} /\ chunks' = chunks  BY <2>1, <2>5
    <3> QED BY <2>2, <3>1 DEF ChunkInv, FullBuffer
  <2> QED BY <2>4, <2>5
<1>2. CASE ReadEof
  <2>1. /\ pc = "reading" /\ output' = output /\ Filled(buff.bytes, loop.sum, TRUE)
        /\ loop.rest + loop.sum = BufferSize /\ loop.rest > 0
    BY <1>2 DEF ReadEof, TypeInv
  <2>2. loop.sum < BufferSize  BY <1>0, <2>1
  <2> QED BY <1>0, <2>1, <2>2, FilledChunk
<1>3. CASE Write
  <2>1. PICK ret \in Returned(loop.rest, loop.rest) :
          /\ output' = output \o SubSeq(buff.bytes, 1, ret)
          /\ loop.rest - ret = 0 => pc' = IF buff.eof THEN "done" ELSE "reading"
    BY <1>3 DEF Write
  <2>2. ret = loop.rest /\ pc = "writing" /\ UNCHANGED <<length, pos, chunks>>
    BY <1>0, <1>3, WholeReturn DEF Write
  <2>3. Len(output') = Len(output) + loop.rest
    BY <1>0, <2>1, <2>2, Written
  <2>4. pc' = IF buff.eof THEN "done" ELSE "reading"  BY <1>0, <2>1, <2>2
  <2>5. /\ Len(chunks) >= 1 /\ \A i \in 1 .. Before : chunks[i] = FullBuffer
        /\ Len(output) = BufferSize * Before
        /\ chunks[Len(chunks)] = [size |-> loop.rest, eof |-> buff.eof]
        /\ buff.eof => loop.rest < BufferSize
        /\ ~buff.eof => chunks[Len(chunks)] = FullBuffer
    BY <2>2 DEF ChunkInv
  <2>6. Before \in Nat /\ Before + 1 = Len(chunks) /\ Before' = Before
    BY <1>0, <2>2, <2>5 DEF Before
  <2>7. CASE buff.eof
    <3>1. Len(output) + loop.rest = pos /\ pos = length  BY <2>2, <2>7 DEF SizeInv
    <3>2. length = BufferSize * Before + loop.rest  BY <1>0, <2>5, <3>1
    <3>3. /\ pc' = "done" /\ chunks' = chunks /\ Before' = Before /\ length' = length
          /\ chunks[Len(chunks)].eof /\ chunks[Len(chunks)].size = loop.rest
      BY <2>2, <2>4, <2>5, <2>6, <2>7
    <3> QED BY <1>0, <2>5, <2>7, <3>2, <3>3 DEF ChunkInv, FullBuffer
  <2>8. CASE ~buff.eof
    <3>1. loop.rest = BufferSize  BY <2>5, <2>8 DEF FullBuffer
    <3>2. BufferSize * (Before + 1) = BufferSize * Before + BufferSize
      BY <1>0, <2>6, OneMore
    <3>3. Len(output') = BufferSize * Len(chunks)  BY <2>3, <2>5, <2>6, <3>1, <3>2
    <3>4. \A i \in 1 .. Len(chunks) : chunks[i] = FullBuffer
      <4> SUFFICES ASSUME NEW i \in 1 .. Len(chunks) PROVE chunks[i] = FullBuffer  OBVIOUS
      <4>1. i = Len(chunks) \/ i \in 1 .. Before  BY <1>0, <2>6
      <4> QED BY <2>5, <2>8, <4>1
    <3> QED BY <1>0, <2>2, <2>4, <2>8, <3>3, <3>4 DEF ChunkInv, FullBuffer
  <2> QED BY <2>7, <2>8
<1>4. CASE UNCHANGED vars
  BY <1>4 DEF vars, ChunkInv, FullBuffer, Before
<1>5. CASE ReadFails \/ WriteFails
  BY <1>5 DEF ReadFails, WriteFails, ChunkInv, FullBuffer, Before
<1> QED BY <1>1, <1>2, <1>3, <1>4, <1>5 DEF Next, Copying, Ended

\* With whole transfers an image is cut as the models of the two programs count it, for
\* every size of the image and of the buffer: full buffers, then one marked EOF with the
\* rest, which is empty when the image fills the buffer before it (Disk.cpp:205-244).
THEOREM CutIsAsCounted == Spec => []CutAsCounted
<1> DEFINE IInv == TypeInv /\ SizeInv /\ (~short => WholeInv /\ ChunkInv)
<1>1. Init => IInv
  <2> SUFFICES ASSUME Init PROVE ChunkInv  BY Initially
  <2>1. chunks = <<>> /\ output = <<>> /\ pc = "reading" /\ BufferSize \in Nat
    BY DiskAssumption DEF Init
  <2>2. Len(output) = BufferSize * Len(chunks)  BY <2>1
  <2> QED BY <2>1, <2>2 DEF ChunkInv
<1>2. IInv /\ [Next]_vars => IInv'
  BY TypeStep, SizeStep, WholeStep, ChunkStep, ShortStays
<1>3. IInv => CutAsCounted
  <2> SUFFICES ASSUME IInv, ~short, pc = "done"
               PROVE  /\ Len(chunks) = length \div BufferSize + 1
                      /\ \A i \in DOMAIN chunks :
                           chunks[i] = IF i < Len(chunks) THEN [size |-> BufferSize, eof |-> FALSE]
                                       ELSE [size |-> length % BufferSize, eof |-> TRUE]
    BY DEF CutAsCounted
  <2> DEFINE last == chunks[Len(chunks)]
  <2>1. /\ chunks \in Seq([size : Nat, eof : BOOLEAN]) /\ Len(chunks) \in Nat
        /\ Len(chunks) >= 1 /\ BufferSize \in Nat \ {0}
    BY DiskAssumption DEF ChunkInv
  <2>2. Before \in Nat /\ Before + 1 = Len(chunks)  BY <2>1 DEF Before
  <2>3. last \in [size : Nat, eof : BOOLEAN]  BY <2>1, LastOf
  <2>4. /\ last.eof /\ last.size < BufferSize /\ length = BufferSize * Before + last.size
        /\ \A i \in 1 .. Before : chunks[i] = FullBuffer
    BY DEF ChunkInv
  <2>5. length \div BufferSize = Before /\ length % BufferSize = last.size
    <3> HIDE DEF last
    <3>1. last.size \in Nat  BY <2>3
    <3> QED BY <2>1, <2>2, <2>4, <3>1, Division
  <2>6. last = [size |-> length % BufferSize, eof |-> TRUE]  BY <2>3, <2>4, <2>5
  <2>7. ASSUME NEW i \in DOMAIN chunks
        PROVE  chunks[i] = IF i < Len(chunks) THEN [size |-> BufferSize, eof |-> FALSE]
                           ELSE [size |-> length % BufferSize, eof |-> TRUE]
    <3>1. i \in 1 .. Len(chunks)  BY <2>1
    <3>2. CASE i < Len(chunks)
      <4>1. i \in 1 .. Before  BY <2>2, <3>1, <3>2
      <4> QED BY <2>4, <3>2, <4>1 DEF FullBuffer
    <3>3. CASE ~(i < Len(chunks))
      <4>1. i = Len(chunks)  BY <2>1, <3>1, <3>3
      <4> QED BY <2>6, <3>3, <4>1
    <3> QED BY <3>2, <3>3
  <2> QED BY <2>2, <2>5, <2>7
<1> QED BY <1>1, <1>2, <1>3, PTL DEF Spec
=============================================================================
