----------------------------- MODULE DiskFile -----------------------------
(***************************************************************************)
(* FromDisk::read_tobuff() and ToDisk::write_frombuff(): how an image file *)
(* is cut into buffers, read() by read(), and written again, write() by    *)
(* write().  Both repeat a call that transferred less than was asked, up to*)
(* MAX_DISK_RETRY times - and every repetition starts at the address of the*)
(* buffer, not after what is there already.  The network and the banks     *)
(* between them are ChunkStream's: here a buffer that is filled is the one *)
(* that is written.                                                        *)
(***************************************************************************)
EXTENDS Integers, Sequences, FiniteSets

CONSTANTS
  Lengths,         \* sizes of the image, in bytes, to start from
  BufferSize       \* size of a Buffer, in bytes

ASSUME DiskAssumption ==
  /\ Lengths \subseteq Nat /\ BufferSize \in Nat \ {0}

MAX_DISK_RETRY == 4
Stale == 0               \* a byte of the buffer nothing was read to yet
Lesser(a, b) == IF a < b THEN a ELSE b

VARIABLES
  short,     \* TRUE: read() and write() may transfer less than asked (a pipe, a signal)
  fails,     \* TRUE: they may return -1 (a bad block, a full disk)
  length,    \* bytes of the image; byte i of it is the number i
  pos,       \* file offset of aFD in FromDisk
  buff,      \* the Buffer: its bytes, contsize and eof
  loop,      \* locals of the call in progress: ii, the bytes left, sum
  output,    \* what ToDisk has been given, in order
  chunks,    \* history: contsize and eof of every buffer filled
  pc         \* "reading", "writing", "done", or the call that failed

vars == <<short, fails, length, pos, buff, loop, output, chunks, pc>>

Reading == [ii |-> 0, rest |-> BufferSize, sum |-> 0]
Writing(bytes) == [ii |-> 0, rest |-> bytes, sum |-> 0]

Init ==
  /\ short \in BOOLEAN /\ fails \in BOOLEAN /\ length \in Lengths /\ pos = 0
  /\ buff = [bytes |-> [i \in 1 .. BufferSize |-> Stale], contsize |-> 0, eof |-> FALSE]
  /\ loop = Reading
  /\ output = <<>> /\ chunks = <<>> /\ pc = "reading"

\* What a call may return that was asked for this many bytes, of those there are
Returned(asked, present) ==
  LET most == Lesser(asked, present)
  IN IF short /\ most > 0 THEN 1 .. most ELSE {most}

(***************************************************************************)
(* read_tobuff()                                                           *)
(***************************************************************************)
Overlaid(ret) == [i \in 1 .. BufferSize |-> IF i <= ret THEN pos + i ELSE buff.bytes[i]]

Filled(bytes, contsize, eof) ==
  /\ buff' = [bytes |-> bytes, contsize |-> contsize, eof |-> eof]
  /\ chunks' = Append(chunks, [size |-> contsize, eof |-> eof])
  /\ loop' = Writing(contsize) /\ pc' = "writing"

\* read() returns bytes: they go to the start of the buffer
Read_eofAtEnd ==
  /\ pc = "reading"
  /\ \E ret \in Returned(loop.rest, length - pos) \ {0} :
       LET sum == loop.sum + ret  rest == loop.rest - ret
       IN /\ pos' = pos + ret
          /\ IF rest = 0 THEN Filled(Overlaid(ret), sum, pos + ret = length)
             ELSE /\ buff' = [buff EXCEPT !.bytes = Overlaid(ret)]
                  /\ loop' = [ii |-> loop.ii + 1, rest |-> rest, sum |-> sum]
                  /\ pc' = IF loop.ii + 1 < MAX_DISK_RETRY THEN "reading" ELSE "readfailed"
                  /\ UNCHANGED chunks
  /\ UNCHANGED <<short, fails, length, output>>
Read ==
  /\ pc = "reading"
  /\ \E ret \in Returned(loop.rest, length - pos) \ {0} :
       LET sum == loop.sum + ret  rest == loop.rest - ret
       IN /\ pos' = pos + ret
          /\ IF rest = 0 THEN Filled(Overlaid(ret), sum, FALSE)
             ELSE /\ buff' = [buff EXCEPT !.bytes = Overlaid(ret)]
                  /\ loop' = [ii |-> loop.ii + 1, rest |-> rest, sum |-> sum]
                  /\ pc' = IF loop.ii + 1 < MAX_DISK_RETRY THEN "reading" ELSE "readfailed"
                  /\ UNCHANGED chunks
  /\ UNCHANGED <<short, fails, length, output>>

\* read() returns 0: B_EOF, and what was summed up so far is the content
ReadEof_full ==
  /\ pc = "reading" /\ pos = length
  /\ Filled(buff.bytes, BufferSize, TRUE)
  /\ UNCHANGED <<short, fails, length, pos, output>>
ReadEof_notEmpty ==
  /\ pc = "reading" /\ pos = length
  /\ IF loop.sum > 0 THEN Filled(buff.bytes, loop.sum, TRUE)
     ELSE pc' = "readfailed" /\ UNCHANGED <<buff, chunks, loop>>
  /\ UNCHANGED <<short, fails, length, pos, output>>
ReadEof ==
  /\ pc = "reading" /\ pos = length
  /\ Filled(buff.bytes, loop.sum, TRUE)
  /\ UNCHANGED <<short, fails, length, pos, output>>

\* read() returns -1: the call gives up, contsize stays what it was
ReadFails ==
  /\ pc = "reading" /\ fails
  /\ pc' = "readfailed" /\ UNCHANGED <<short, fails, length, pos, buff, loop, output, chunks>>

(***************************************************************************)
(* write_frombuff()                                                        *)
(***************************************************************************)
Write ==
  /\ pc = "writing"
  /\ \E ret \in Returned(loop.rest, loop.rest) :
       LET rest == loop.rest - ret
       IN /\ output' = output \o SubSeq(buff.bytes, 1, ret)
          /\ IF rest = 0
             THEN /\ loop' = Reading
                  /\ pc' = IF buff.eof THEN "done" ELSE "reading"
             ELSE /\ loop' = [ii |-> loop.ii + 1, rest |-> rest, sum |-> 0]
                  /\ pc' = IF loop.ii + 1 < MAX_DISK_RETRY THEN "writing" ELSE "writefailed"
  /\ UNCHANGED <<short, fails, length, pos, buff, chunks>>

WriteFails ==
  /\ pc = "writing" /\ fails
  /\ pc' = "writefailed" /\ UNCHANGED <<short, fails, length, pos, buff, loop, output, chunks>>

Ended == pc \in {"done", "readfailed", "writefailed"} /\ UNCHANGED vars
Copying == Read \/ ReadEof \/ ReadFails \/ Write \/ WriteFails
Next == Copying \/ Ended

Spec == Init /\ [][Next]_vars /\ WF_vars(Copying)

(***************************************************************************)
(* Properties                                                              *)
(***************************************************************************)
Image == [i \in 1 .. length |-> i]

\* What the file is when it is closed
ContentAnyway == pc = "done" => output = Image

\* With calls that transfer what they are asked for or fail, the target holds the bytes of
\* the image when the file is closed, all of them and in their order, although a
\* buffer is read in two calls at the end of the file (Disk.cpp:205-273).
ContentKept == ~short => ContentAnyway

\* Whatever the calls return, a copy that is said to be done is as long as the
\* image, and one that is not done is never longer.
SizeKept ==
  /\ Len(output) <= length
  /\ pc = "done" => Len(output) = length

\* The chunks DataChunks and ServThread count with: full ones, then one that is
\* marked EOF with the rest, which is empty if the image fills its last buffer.
CutAsCounted ==
  pc = "done" /\ ~short =>
    /\ Len(chunks) = length \div BufferSize + 1
    /\ \A i \in DOMAIN chunks :
         chunks[i] = IF i < Len(chunks) THEN [size |-> BufferSize, eof |-> FALSE]
                     ELSE [size |-> length % BufferSize, eof |-> TRUE]

\* A copy ends, whatever the calls return; if none of them fails or transfers less than
\* it was asked for, it is not given up.
CopyEnds == <>(IF short \/ fails THEN pc \in {"done", "readfailed", "writefailed"} ELSE pc = "done")
=============================================================================
