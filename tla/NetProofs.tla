------------------------------ MODULE NetProofs ------------------------------
(***************************************************************************)
(* The theorems about the two modules of src/Net.cpp.                      *)
(*                                                                         *)
(* NetSendRecv, the data connection: what its run shows for three small    *)
(* packets, for every number and size of packets and of the socket         *)
(* buffers: recv_packet() returns the packets as they were sent, whatever  *)
(* writes and reads are cut into.                                          *)
(*                                                                         *)
(* CntlPort, the control port, as the instance P: what its run shows for   *)
(* two askers and four descriptors, for any number of both: in an          *)
(* undisturbed transfer the call in progress waits on the control socket   *)
(* that exists, and nothing but a request that is refused or never sent    *)
(* ends the node.                                                          *)
(***************************************************************************)
EXTENDS NetSendRecv, PortState, TLAPS

P == INSTANCE CntlPort

(***************************************************************************)
(* Positions in the stream of all bytes: the one the receiver reads next,  *)
(* and the one the sender writes next.                                     *)
(***************************************************************************)
At(p, pos) == [pack |-> p, pos |-> pos]
AfterIt(p, pos) == IF pos < Length(p) THEN At(p, pos + 1) ELSE At(p + 1, 1)
Expects == Len(delivered) + 1            \* the packet that is being received
Taken == (IF receiver.pc = "header" THEN HeaderBytes ELSE Length(Expects)) - receiver.rest
NextRead == AfterIt(Expects, Taken)
NextWritten == IF sender.pc = "done" THEN At(NoPackets + 1, 1) ELSE At(sender.pack, sender.sent + 1)

\* The bytes on the wire and the one written next follow each other: within a packet
\* k bytes on is k bytes further, and behind its last byte the next packet begins.
OnWire(bytes, last, i) == IF i <= Len(bytes) THEN bytes[i] ELSE last
InOrder(bytes, last) ==
  \A i \in 1 .. Len(bytes) :
    /\ \A k \in 0 .. Len(bytes) + 1 - i :
         bytes[i].pos + k <= Length(bytes[i].pack) =>
           OnWire(bytes, last, i + k) = At(bytes[i].pack, bytes[i].pos + k)
    /\ bytes[i].pos = Length(bytes[i].pack) => OnWire(bytes, last, i + 1) = At(bytes[i].pack + 1, 1)

\* What has been read is the packet that is expected, up to where it is read, and the
\* wire goes on from there to where the sender is.
Receives == receiver.pc \in {"header", "contents"}
First == IF receiver.pc = "header" THEN 1 ELSE HeaderBytes + 1
Order ==
  Receives =>
    /\ Len(delivered) < NoPackets
    /\ receiver.rest <= (IF receiver.pc = "header" THEN HeaderBytes ELSE Size[Expects])
    /\ receiver.got = Bytes(Expects, First, Taken)
    /\ OnWire(wire, NextWritten, 1) = NextRead /\ InOrder(wire, NextWritten)

Whole ==
  /\ writeNetXoff = FALSE /\ control # "xoff"
  /\ Order /\ \A i \in DOMAIN delivered : delivered[i] = Contents(i)
-----------------------------------------------------------------------------
(* Sequences of bytes, whatever a byte is *)

LEMMA JoinOf ==
  ASSUME NEW a \in Seq(Byte), NEW b \in Seq(Byte)
  PROVE  /\ a \o b \in Seq(Byte) /\ Len(a \o b) = Len(a) + Len(b)
         /\ Len(a) \in Nat /\ Len(b) \in Nat
         /\ \A i \in 1 .. Len(a) : (a \o b)[i] = a[i]
         /\ \A i \in 1 .. Len(b) : (a \o b)[Len(a) + i] = b[i]
OBVIOUS

LEMMA RestOf ==
  ASSUME NEW a \in Seq(Byte), NEW n \in 1 .. Len(a)
  PROVE  /\ SubSeq(a, n + 1, Len(a)) \in Seq(Byte) /\ Len(SubSeq(a, n + 1, Len(a))) = Len(a) - n
         /\ \A i \in 1 .. Len(a) - n : SubSeq(a, n + 1, Len(a))[i] = a[n + i]
OBVIOUS

LEMMA FirstOf ==
  ASSUME NEW a \in Seq(Byte), NEW n \in 1 .. Len(a)
  PROVE  /\ SubSeq(a, 1, n) \in Seq(Byte) /\ Len(SubSeq(a, 1, n)) = n
         /\ \A i \in 1 .. n : SubSeq(a, 1, n)[i] = a[i]
OBVIOUS

LEMMA SameSequence ==
  ASSUME NEW a \in Seq(Byte), NEW b \in Seq(Byte), Len(a) = Len(b),
         \A i \in 1 .. Len(a) : a[i] = b[i]
  PROVE  a = b
OBVIOUS
-----------------------------------------------------------------------------
(* Bytes and their order *)


LEMMA Sizes ==
  /\ HeaderBytes = 2 /\ 1 \in Pack /\ NoPackets \in Pack
  /\ \A p \in Pack : p \in Nat /\ p > 0 /\ Size[p] \in Nat /\ Length(p) \in Nat /\ Length(p) >= 2
                     /\ Length(p) = HeaderBytes + Size[p]
BY ConnectionAssumption DEF HeaderBytes, Pack, Length

LEMMA Cut ==
  ASSUME NEW p \in Pack, NEW m \in Nat, NEW n \in Nat
  PROVE  /\ Bytes(p, m + 1, m + n) \in Seq(Byte) /\ Len(Bytes(p, m + 1, m + n)) = n
         /\ \A i \in 1 .. n : Bytes(p, m + 1, m + n)[i] = At(p, m + i)
<1> DEFINE from == m + 1
           to == m + n
           f == [i \in 1 .. n |-> [pack |-> p, pos |-> from + i - 1]]
<1>1. to - from + 1 = n  OBVIOUS
<1>2. Bytes(p, from, to) = f  BY <1>1 DEF Bytes
<1>3. \A i \in 1 .. n : f[i] = At(p, m + i) /\ f[i] \in Byte
  <2> SUFFICES ASSUME NEW i \in 1 .. n PROVE f[i] = At(p, m + i) /\ f[i] \in Byte  OBVIOUS
  <2>1. f[i] = [pack |-> p, pos |-> m + i] /\ m + i \in Nat  OBVIOUS
  <2> QED BY <2>1 DEF At, Byte
<1>4. f \in [1 .. n -> Byte]  BY <1>3
<1>5. f \in Seq(Byte) /\ Len(f) = n  BY <1>4
<1> QED BY <1>2, <1>3, <1>5

\* Bytes that follow those that are there make one stretch with them.
LEMMA Joined ==
  ASSUME NEW p \in Pack, NEW m \in Nat, NEW n \in Nat, NEW s \in Seq(Byte),
         \A i \in 1 .. Len(s) : s[i] = At(p, m + n + i)
  PROVE  Bytes(p, m + 1, m + n) \o s = Bytes(p, m + 1, m + n + Len(s))
<1>0. PICK k \in Nat : k = Len(s)  OBVIOUS
<1> SUFFICES Bytes(p, m + 1, m + n) \o s = Bytes(p, m + 1, m + n + k)  BY <1>0
<1> DEFINE a == Bytes(p, m + 1, m + n)
           c == Bytes(p, m + 1, m + n + k)
<1>1. a \in Seq(Byte) /\ Len(a) = n /\ \A i \in 1 .. n : a[i] = At(p, m + i)
  BY Cut, Zenon
<1>2. c \in Seq(Byte) /\ Len(c) = n + k /\ \A i \in 1 .. n + k : c[i] = At(p, m + i)
  <2> DEFINE l == n + k
  <2>1. l \in Nat /\ m + n + k = m + l  OBVIOUS
  <2> HIDE DEF l
  <2>2. LET d == Bytes(p, m + 1, m + l)
        IN  d \in Seq(Byte) /\ Len(d) = l /\ \A i \in 1 .. l : d[i] = At(p, m + i)
    BY <2>1, Cut, Zenon
  <2>3. c = Bytes(p, m + 1, m + l)  BY <2>1
  <2> HIDE DEF c
  <2>4. c \in Seq(Byte) /\ Len(c) = l /\ \A i \in 1 .. l : c[i] = At(p, m + i)  BY <2>2, <2>3, Zenon
  <2> QED BY <2>4 DEF l
<1> HIDE DEF a, c
<1>3. /\ a \o s \in Seq(Byte) /\ Len(a \o s) = Len(a) + Len(s)
      /\ \A i \in 1 .. Len(a) : (a \o s)[i] = a[i]
      /\ \A i \in 1 .. Len(s) : (a \o s)[Len(a) + i] = s[i]
  BY <1>1, JoinOf
<1>4. /\ Len(a \o s) = n + k
      /\ \A i \in 1 .. n : (a \o s)[i] = a[i]
      /\ \A i \in 1 .. k : (a \o s)[n + i] = s[i]
  BY <1>0, <1>1, <1>3
<1>5. ASSUME NEW i \in 1 .. n + k PROVE (a \o s)[i] = c[i]
  <2>1. CASE i <= n
    <3>1. i \in 1 .. n  BY <2>1
    <3> QED BY <1>1, <1>2, <1>4, <3>1
  <2>2. CASE i > n
    <3> DEFINE j == i - n
    <3>1. j \in 1 .. k /\ n + j = i /\ m + n + j = m + i  BY <2>2
    <3>2. (a \o s)[n + j] = At(p, m + n + j)  BY <1>0, <1>4, <3>1
    <3> QED BY <1>2, <3>1, <3>2
  <2>3. i <= n \/ i > n  OBVIOUS
  <2> QED BY <2>1, <2>2, <2>3, Zenon
<1>6. a \o s = c  BY <1>2, <1>3, <1>4, <1>5, SameSequence
<1> QED BY <1>6 DEF a, c

\* InOrder in numbers.
LEMMA OnWireIs ==
  ASSUME NEW w \in Seq(Byte), NEW last, NEW l \in Nat, Len(w) = l
  PROVE  /\ \A i \in 1 .. l : OnWire(w, last, i) = w[i]
         /\ OnWire(w, last, l + 1) = last
BY DEF OnWire

LEMMA BytesOn ==
  ASSUME NEW w \in Seq(Byte), NEW i \in 1 .. Len(w)
  PROVE  w[i] \in Byte /\ w[i].pack \in Pack /\ w[i].pos \in Nat
<1>1. w[i] \in Byte  OBVIOUS
<1> QED BY <1>1 DEF Byte

\* What is written goes on where the wire has led to.
LEMMA WrittenInOrder ==
  ASSUME NEW w \in Seq(Byte), NEW p \in Pack, NEW m \in Nat, NEW n \in Nat, 0 < n, m + n <= Length(p),
         InOrder(w, At(p, m + 1))
  PROVE  /\ w \o Bytes(p, m + 1, m + n) \in Seq(Byte)
         /\ InOrder(w \o Bytes(p, m + 1, m + n), AfterIt(p, m + n))
         /\ OnWire(w \o Bytes(p, m + 1, m + n), AfterIt(p, m + n), 1) = OnWire(w, At(p, m + 1), 1)
<1> DEFINE b == Bytes(p, m + 1, m + n)
           next == At(p, m + 1)
           last == AfterIt(p, m + n)
           s == w \o b
<1>1. PICK l \in Nat : l = Len(w)  OBVIOUS
<1>2. b \in Seq(Byte) /\ Len(b) = n /\ \A i \in 1 .. n : b[i] = At(p, m + i)
  BY Cut, Zenon
<1>3. Length(p) \in Nat  BY Sizes
<1> HIDE DEF b
<1>4. /\ s \in Seq(Byte) /\ Len(s) = l + n
      /\ \A i \in 1 .. l : s[i] = w[i]
      /\ \A j \in 1 .. n : s[l + j] = b[j]
  <2>1. /\ s \in Seq(Byte) /\ Len(s) = Len(w) + Len(b)
        /\ \A i \in 1 .. Len(w) : s[i] = w[i]
        /\ \A i \in 1 .. Len(b) : s[Len(w) + i] = b[i]
    BY <1>2, JoinOf
  <2> HIDE DEF s
  <2> QED BY <1>1, <1>2, <2>1
<1>5. \A i \in 1 .. l :
        /\ \A k \in 0 .. l + 1 - i : w[i].pos + k <= Length(w[i].pack) =>
             OnWire(w, next, i + k) = At(w[i].pack, w[i].pos + k)
        /\ w[i].pos = Length(w[i].pack) => OnWire(w, next, i + 1) = At(w[i].pack + 1, 1)
  BY <1>1 DEF InOrder
<1>6. \A i \in 1 .. l : w[i].pack \in Pack /\ w[i].pos \in Nat  BY <1>1, BytesOn
<1>7. (\A i \in 1 .. l : OnWire(w, next, i) = w[i]) /\ OnWire(w, next, l + 1) = next
  BY <1>1, OnWireIs
<1> HIDE DEF s
<1>8. (\A i \in 1 .. l + n : OnWire(s, last, i) = s[i]) /\ OnWire(s, last, l + n + 1) = last
  <2>1. l + n \in Nat  OBVIOUS
  <2> QED BY <1>4, <2>1, OnWireIs, Zenon
<1>9. last = IF m + n < Length(p) THEN At(p, m + n + 1) ELSE At(p + 1, 1)  BY DEF AfterIt
<1>10. next = At(p, m + 1)  OBVIOUS
<1> HIDE DEF last, next
<1>11. \A j \in 1 .. n : s[l + j] = At(p, m + j) /\ OnWire(s, last, l + j) = At(p, m + j)
  <2> SUFFICES ASSUME NEW j \in 1 .. n
               PROVE  s[l + j] = At(p, m + j) /\ OnWire(s, last, l + j) = At(p, m + j)
    OBVIOUS
  <2>1. l + j \in 1 .. l + n  OBVIOUS
  <2> QED BY <1>2, <1>4, <1>8, <2>1
<1>12. \A i \in 1 .. l : OnWire(s, last, i) = w[i]
  <2> SUFFICES ASSUME NEW i \in 1 .. l PROVE OnWire(s, last, i) = w[i]  OBVIOUS
  <2>1. i \in 1 .. l + n  OBVIOUS
  <2> QED BY <1>4, <1>8, <2>1
<1>13. ASSUME NEW j \in 1 .. n + 1, m + j <= Length(p)
       PROVE  OnWire(s, last, l + j) = At(p, m + j)
  <2>1. CASE j \in 1 .. n  BY <1>11, <2>1
  <2>2. CASE j = n + 1
    <3>1. m + n < Length(p) /\ l + n + 1 = l + j /\ m + n + 1 = m + j  BY <1>3, <1>13, <2>2
    <3> QED BY <1>8, <1>9, <3>1
  <2> QED BY <2>1, <2>2
<1>14. ASSUME NEW i \in 1 .. l
       PROVE  /\ \A k \in 0 .. l + n + 1 - i : s[i].pos + k <= Length(s[i].pack) =>
                   OnWire(s, last, i + k) = At(s[i].pack, s[i].pos + k)
              /\ s[i].pos = Length(s[i].pack) => OnWire(s, last, i + 1) = At(s[i].pack + 1, 1)
  <2>1. PICK q \in Pack, r \in Nat : q = w[i].pack /\ r = w[i].pos  BY <1>6
  <2>2. s[i] = w[i] /\ Length(q) \in Nat  BY <1>4, Sizes
  <2>3. \A d \in 0 .. l + 1 - i : r + d <= Length(q) => OnWire(w, next, i + d) = At(q, r + d)
    BY <1>5, <2>1
  <2>4. ASSUME NEW k \in 0 .. l + n + 1 - i, r + k <= Length(q)
        PROVE  OnWire(s, last, i + k) = At(q, r + k)
    <3>1. CASE i + k <= l
      <4>1. i + k \in 1 .. l /\ k \in 0 .. l + 1 - i  BY <3>1
      <4> QED BY <1>7, <1>12, <2>3, <2>4, <4>1
    <3>2. CASE i + k > l
      <4>1. PICK j \in 1 .. n + 1, d \in 0 .. l + 1 - i : k = d + j - 1 /\ i + d = l + 1 /\ i + k = l + j
        <5> DEFINE j == i + k - l
                   d == l + 1 - i
        <5>1. j \in 1 .. n + 1 /\ d \in 0 .. l + 1 - i  BY <3>2
        <5>2. k = d + j - 1 /\ i + d = l + 1 /\ i + k = l + j  OBVIOUS
        <5> QED BY <5>1, <5>2
      <4>2. r + d <= Length(q)  BY <2>2, <2>4, <4>1
      <4>3. At(p, m + 1) = At(q, r + d)  BY <1>7, <1>10, <2>3, <4>1, <4>2
      <4>4. p = q /\ m + 1 = r + d  BY <4>3 DEF At
      <4>5. m + j = r + k  BY <4>1, <4>4
      <4>6. m + j <= Length(p)  BY <2>4, <4>4, <4>5
      <4>7. OnWire(s, last, l + j) = At(p, m + j)  BY <1>13, <4>6
      <4> QED BY <4>1, <4>4, <4>5, <4>7
    <3> QED BY <3>1, <3>2
  <2>5. ASSUME r = Length(q) PROVE OnWire(s, last, i + 1) = At(q + 1, 1)
    <3>1. OnWire(w, next, i + 1) = At(q + 1, 1)  BY <1>5, <2>1, <2>5
    <3>2. CASE i < l
      <4>1. i + 1 \in 1 .. l  BY <3>2
      <4> QED BY <1>7, <1>12, <3>1, <4>1
    <3>3. CASE i = l
      <4>1. At(p, m + 1) = At(q + 1, 1)  BY <1>7, <1>10, <3>1, <3>3
      <4>2. 1 \in 1 .. n  OBVIOUS
      <4> QED BY <1>11, <3>3, <4>1, <4>2
    <3> QED BY <3>2, <3>3
  <2> QED BY <2>1, <2>2, <2>4, <2>5
<1>15. ASSUME NEW j \in 1 .. n
       PROVE  /\ \A k \in 0 .. n + 1 - j : m + j + k <= Length(p) =>
                   OnWire(s, last, l + j + k) = At(p, m + j + k)
              /\ m + j = Length(p) => OnWire(s, last, l + j + 1) = At(p + 1, 1)
  <2>1. ASSUME NEW k \in 0 .. n + 1 - j, m + j + k <= Length(p)
        PROVE  OnWire(s, last, l + j + k) = At(p, m + j + k)
    <3>1. j + k \in 1 .. n + 1 /\ m + (j + k) <= Length(p)
          /\ l + (j + k) = l + j + k /\ m + (j + k) = m + j + k
      BY <2>1
    <3>2. OnWire(s, last, l + (j + k)) = At(p, m + (j + k))  BY <1>13, <3>1
    <3> QED BY <3>1, <3>2
  <2>2. ASSUME m + j = Length(p) PROVE OnWire(s, last, l + j + 1) = At(p + 1, 1)
    <3>1. j = n /\ ~(m + n < Length(p))  BY <1>3, <2>2
    <3> QED BY <1>8, <1>9, <3>1
  <2> QED BY <2>1, <2>2
<1>16. InOrder(s, last)
  <2> SUFFICES ASSUME NEW i \in 1 .. l + n
               PROVE  /\ \A k \in 0 .. l + n + 1 - i : s[i].pos + k <= Length(s[i].pack) =>
                           OnWire(s, last, i + k) = At(s[i].pack, s[i].pos + k)
                      /\ s[i].pos = Length(s[i].pack) => OnWire(s, last, i + 1) = At(s[i].pack + 1, 1)
    BY <1>4 DEF InOrder
  <2>1. CASE i \in 1 .. l  BY <1>14, <2>1
  <2>2. CASE i > l
    <3>1. PICK j \in 1 .. n : i = l + j
      <4>1. i - l \in 1 .. n /\ i = l + (i - l)  BY <2>2
      <4> QED BY <4>1
    <3>2. s[i] = At(p, m + j)  BY <1>11, <3>1
    <3>3. s[i].pack = p /\ s[i].pos = m + j  BY <3>2 DEF At
    <3>4. l + n + 1 - i = n + 1 - j  BY <3>1
    <3> QED BY <1>15, <3>1, <3>3, <3>4
  <2> QED BY <2>1, <2>2
<1>17. OnWire(s, last, 1) = OnWire(w, next, 1)
  <2>1. CASE l = 0
    <3>1. 1 \in 1 .. n /\ l + 1 = 1  BY <2>1
    <3> QED BY <1>7, <1>10, <1>11, <2>1, <3>1
  <2>2. CASE l > 0
    <3>1. 1 \in 1 .. l  BY <2>2
    <3> QED BY <1>7, <1>12, <3>1
  <2> QED BY <2>1, <2>2
<1> QED BY <1>4, <1>16, <1>17 DEF s, b, last, next

\* What is read are the next bytes of the packet, and the wire goes on behind them.
LEMMA ReadInOrder ==
  ASSUME NEW w \in Seq(Byte), NEW last, InOrder(w, last), NEW p \in Pack, NEW t \in Nat,
         NEW n \in 1 .. Len(w), t + n <= Length(p), OnWire(w, last, 1) = At(p, t + 1)
  PROVE  /\ \A i \in 1 .. n : w[i] = At(p, t + i)
         /\ SubSeq(w, n + 1, Len(w)) \in Seq(Byte)
         /\ InOrder(SubSeq(w, n + 1, Len(w)), last)
         /\ OnWire(SubSeq(w, n + 1, Len(w)), last, 1) = AfterIt(p, t + n)
<1> DEFINE l == Len(w)
           s == SubSeq(w, n + 1, l)
<1>1. l \in Nat /\ n \in Nat /\ n <= l /\ 1 <= l /\ Length(p) \in Nat  BY Sizes
<1>2. w[1] = At(p, t + 1) /\ w[1].pack = p /\ w[1].pos = t + 1  BY <1>1 DEF OnWire, At
<1>3. \A i \in 1 .. n : w[i] = At(p, t + i)
  <2> SUFFICES ASSUME NEW i \in 1 .. n PROVE w[i] = At(p, t + i)  OBVIOUS
  <2>1. i - 1 \in 0 .. l + 1 - 1 /\ w[1].pos + (i - 1) <= Length(w[1].pack) /\ 1 \in 1 .. l
    BY <1>1, <1>2
  <2>2. OnWire(w, last, 1 + (i - 1)) = At(w[1].pack, w[1].pos + (i - 1))  BY <2>1 DEF InOrder
  <2>3. 1 + (i - 1) = i /\ w[1].pos + (i - 1) = t + i /\ i <= l  BY <1>1, <1>2
  <2> QED BY <1>2, <2>2, <2>3 DEF OnWire
<1>4. s \in Seq(Byte) /\ Len(s) = l - n /\ \A i \in 1 .. l - n : s[i] = w[n + i]  BY <1>1
<1>5. \A i \in 1 .. l - n + 1 : OnWire(s, last, i) = OnWire(w, last, n + i)
  BY <1>1, <1>4 DEF OnWire
<1>6. InOrder(s, last)
  <2> SUFFICES ASSUME NEW i \in 1 .. l - n
               PROVE  /\ \A k \in 0 .. l - n + 1 - i : s[i].pos + k <= Length(s[i].pack) =>
                           OnWire(s, last, i + k) = At(s[i].pack, s[i].pos + k)
                      /\ s[i].pos = Length(s[i].pack) => OnWire(s, last, i + 1) = At(s[i].pack + 1, 1)
    BY <1>4 DEF InOrder
  <2> DEFINE j == n + i
  <2>1. j \in 1 .. l /\ s[i] = w[j]  BY <1>1, <1>4
  <2>2. ASSUME NEW k \in 0 .. l - n + 1 - i, s[i].pos + k <= Length(s[i].pack)
        PROVE  OnWire(s, last, i + k) = At(s[i].pack, s[i].pos + k)
    <3>1. k \in 0 .. l + 1 - j /\ i + k \in 1 .. l - n + 1 /\ n + (i + k) = j + k  BY <1>1
    <3>2. OnWire(w, last, j + k) = At(w[j].pack, w[j].pos + k)  BY <2>1, <2>2, <3>1 DEF InOrder
    <3> QED BY <1>5, <2>1, <3>1, <3>2
  <2>3. ASSUME s[i].pos = Length(s[i].pack) PROVE OnWire(s, last, i + 1) = At(s[i].pack + 1, 1)
    <3>1. i + 1 \in 1 .. l - n + 1 /\ n + (i + 1) = j + 1  BY <1>1
    <3>2. OnWire(w, last, j + 1) = At(w[j].pack + 1, 1)  BY <2>1, <2>3 DEF InOrder
    <3> QED BY <1>5, <2>1, <3>1, <3>2
  <2> QED BY <2>2, <2>3
<1>7. OnWire(s, last, 1) = AfterIt(p, t + n)
  <2>1. OnWire(s, last, 1) = OnWire(w, last, n + 1)  BY <1>1, <1>5
  <2>2. w[n] = At(p, t + n) /\ w[n].pack = p /\ w[n].pos = t + n /\ n \in 1 .. l
    BY <1>1, <1>3 DEF At
  <2>3. CASE t + n < Length(p)
    <3>1. 1 \in 0 .. l + 1 - n /\ w[n].pos + 1 <= Length(w[n].pack)  BY <1>1, <2>2, <2>3
    <3>2. OnWire(w, last, n + 1) = At(w[n].pack, w[n].pos + 1)  BY <2>2, <3>1 DEF InOrder
    <3> QED BY <2>1, <2>2, <2>3, <3>2 DEF AfterIt
  <2>4. CASE t + n = Length(p)
    <3>1. OnWire(w, last, n + 1) = At(p + 1, 1)  BY <2>2, <2>4 DEF InOrder
    <3> QED BY <1>1, <2>1, <2>4, <3>1 DEF AfterIt
  <2> QED BY <1>1, <2>3, <2>4
<1> QED BY <1>3, <1>4, <1>6, <1>7
-----------------------------------------------------------------------------
(* The types *)

TypeInv == TypeOK /\ (Receives => Len(delivered) < NoPackets)

\* The types of the two loops, on their own for the steps that change neither.
SenderType == [pc : {"sending", "writing", "lost", "error", "done"}, pack : Pack, sent : Nat, retry : Nat]
ReceiverType == [pc : {"header", "contents", "lost", "error", "done"}, rest : Nat,
                 got : Seq(Byte), cleared : BOOLEAN]

LEMMA Typed ==
  ASSUME TypeInv
  PROVE  /\ sender \in SenderType /\ receiver \in ReceiverType
         /\ sender.pc \in {"sending", "writing", "lost", "error", "done"} /\ sender.pack \in Pack
         /\ sender.sent \in Nat /\ sender.retry \in Nat
         /\ sender.sent <= Length(sender.pack) /\ sender.retry < MAX_XOFF_WAIT
         /\ receiver.rest \in Nat /\ receiver.got \in Seq(Byte)
         /\ wire \in Seq(Byte) /\ Len(wire) \in Nat /\ Len(wire) <= SocketBuffer
         /\ delivered \in Seq(Seq(Byte)) /\ Len(delivered) \in Nat
         /\ Receives => Len(delivered) < NoPackets
<1>1. sender \in SenderType /\ receiver \in ReceiverType /\ wire \in Seq(Byte)
      /\ delivered \in Seq(Seq(Byte))
  BY DEF TypeInv, TypeOK, SenderType, ReceiverType
<1>2. Len(wire) \in Nat /\ Len(delivered) \in Nat  BY <1>1
<1> QED BY <1>1, <1>2 DEF TypeInv, TypeOK, SenderType, ReceiverType

LEMMA NextPacketTyped ==
  ASSUME NEW p \in Pack
  PROVE  /\ NextPacket(p) \in SenderType /\ NextPacket(p).sent = 0 /\ NextPacket(p).retry = 0
         /\ NextPacket(p).sent <= Length(NextPacket(p).pack) /\ NextPacket(p).retry < MAX_XOFF_WAIT
<1>1. p \in 1 .. NoPackets /\ NoPackets \in Nat /\ MAX_XOFF_WAIT \in Nat \ {0}
  BY ConnectionAssumption DEF Pack
<1>2. (p # NoPackets => p + 1 \in Pack) /\ p \in Pack  BY <1>1 DEF Pack
<1>3. NextPacket(p) \in SenderType /\ NextPacket(p).sent = 0 /\ NextPacket(p).retry = 0
  BY <1>2 DEF NextPacket, SenderType
<1>4. NextPacket(p).pack \in Pack  BY <1>3 DEF SenderType
<1>5. Length(NextPacket(p).pack) \in Nat  BY <1>4, Sizes
<1> QED BY <1>1, <1>3, <1>5

LEMMA HeaderTyped ==
  /\ ReadHeader \in ReceiverType /\ ReadHeader.pc = "header" /\ ReadHeader.rest = HeaderBytes
  /\ ReadHeader.got = <<>> /\ ReadHeader.cleared = FALSE
BY DEF ReadHeader, ReceiverType, HeaderBytes

LEMMA LengthsTyped ==
  ASSUME NEW header, NEW n \in Lengths(header)
  PROVE  n \in Nat
<1>1. CASE Intact(header)
  <2>1. PICK p \in Pack : header = Bytes(p, 1, HeaderBytes)  BY <1>1 DEF Intact
  <2>2. header[1].pack = p  BY <2>1 DEF Bytes, HeaderBytes
  <2>3. n = Size[p]  BY <1>1, <2>2 DEF Lengths
  <2> QED BY <2>3, Sizes
<1>2. CASE ~Intact(header)  BY <1>2, ConnectionAssumption DEF Lengths
<1> QED BY <1>1, <1>2

LEMMA InitTyped == Init => TypeInv
<1> SUFFICES ASSUME Init PROVE TypeInv  OBVIOUS
<1>1. 1 \in Pack /\ NoPackets \in Nat \ {0} /\ MAX_XOFF_WAIT \in Nat \ {0} /\ SocketBuffer \in Nat
      /\ FaultSets \subseteq SUBSET FaultKinds
  BY Sizes, ConnectionAssumption
<1>2. Length(1) \in Nat  BY <1>1, Sizes
<1>3. sender \in SenderType /\ sender.sent <= Length(sender.pack) /\ sender.retry < MAX_XOFF_WAIT
  BY <1>1, <1>2 DEF Init, SenderType
<1>4. receiver \in ReceiverType  BY HeaderTyped DEF Init
<1>5. /\ wire = <<>> /\ wire \in Seq(Byte) /\ Len(wire) = 0
      /\ delivered \in Seq(Seq(Byte)) /\ Len(delivered) = 0
  BY DEF Init
<1>6. faults \subseteq FaultKinds  BY <1>1 DEF Init
<1>7. peer \subseteq {"sender", "receiver"} /\ halted \subseteq {"sender", "receiver"}
      /\ control = "no" /\ writeNetXoff = FALSE
  BY DEF Init
<1>8. TypeOK
  <2>1. Len(wire) <= SocketBuffer  BY <1>1, <1>5
  <2>2. control \in {"no", "xoff", "reconnect", "served"} /\ writeNetXoff \in BOOLEAN  BY <1>7
  <2> QED BY <1>3, <1>4, <1>5, <1>6, <1>7, <2>1, <2>2, Zenon DEF TypeOK, SenderType, ReceiverType
<1>9. Len(delivered) < NoPackets  BY <1>1, <1>5
<1> QED BY <1>8, <1>9 DEF TypeInv

LEMMA WriteTyped == TypeInv /\ Write => TypeInv'
<1> SUFFICES ASSUME TypeInv, Write PROVE TypeInv'  OBVIOUS
<1>1. PICK n \in 1 .. SmallerOf(Room, Rest) :
        /\ wire' = wire \o Bytes(sender.pack, sender.sent + 1, sender.sent + n)
        /\ IF n = Rest
           THEN sender' = NextPacket(sender.pack) /\ writeNetXoff' = FALSE
           ELSE /\ UNCHANGED writeNetXoff
                /\ \E pc \in {"sending", "writing"} : sender' = [sender EXCEPT !.sent = @ + n, !.pc = pc]
  <2>1. \A b \in BOOLEAN : (IF b THEN "writing" ELSE "sending") \in {"sending", "writing"}  OBVIOUS
  <2> QED BY <2>1 DEF Write
<1>2. UNCHANGED <<receiver, peer, halted, delivered, control, faults>>  BY DEF Write
<1>3. Room \in Nat /\ Rest \in Nat /\ Length(sender.pack) \in Nat
  <2>1. Length(sender.pack) \in Nat  BY Typed, Sizes
  <2>2. sender.sent \in Nat /\ sender.sent <= Length(sender.pack)  BY Typed
  <2>3. Len(wire) \in Nat /\ Len(wire) <= SocketBuffer /\ SocketBuffer \in Nat
    BY Typed, ConnectionAssumption
  <2> QED BY <2>1, <2>2, <2>3 DEF Room, Rest
<1>4. n \in Nat /\ n <= Room /\ n <= Rest  BY <1>3 DEF SmallerOf
<1>5. wire' \in Seq(Byte) /\ Len(wire') <= SocketBuffer
  <2>1. LET b == Bytes(sender.pack, sender.sent + 1, sender.sent + n)
        IN  b \in Seq(Byte) /\ Len(b) = n
    <3>1. sender.pack \in Pack /\ sender.sent \in Nat  BY Typed
    <3> QED BY <1>4, <3>1, Cut, Zenon
  <2>2. wire' \in Seq(Byte) /\ Len(wire') = Len(wire) + n  BY <1>1, <2>1, Typed, JoinOf
  <2> QED BY <1>3, <1>4, <2>2, Typed, ConnectionAssumption DEF Room
<1>6. sender' \in SenderType /\ sender'.sent <= Length(sender'.pack)
      /\ sender'.retry < MAX_XOFF_WAIT
  <2>1. CASE n = Rest
    <3>1. sender' = NextPacket(sender.pack) /\ sender.pack \in Pack  BY <1>1, <2>1, Typed
    <3> QED BY <3>1, NextPacketTyped
  <2>2. CASE n # Rest
    <3>1. PICK pc \in {"sending", "writing"} : sender' = [sender EXCEPT !.sent = @ + n, !.pc = pc]
      BY <1>1, <2>2
    <3>2. sender' \in SenderType /\ sender'.sent = sender.sent + n /\ sender'.pack = sender.pack
          /\ sender'.retry = sender.retry
      <4>1. sender \in SenderType /\ sender.sent + n \in Nat  BY <1>4, Typed
      <4> QED BY <3>1, <4>1 DEF SenderType
    <3>3. sender.sent + n <= Length(sender.pack)  BY <1>3, <1>4, Typed DEF Rest
    <3> QED BY <3>2, <3>3, Typed
  <2> QED BY <2>1, <2>2
<1>7. writeNetXoff' \in BOOLEAN  BY <1>1 DEF TypeInv, TypeOK
<1> QED BY <1>2, <1>5, <1>6, <1>7 DEF TypeInv, TypeOK, SenderType, Receives

LEMMA SendLostTyped == TypeInv /\ SendLost => TypeInv'
<1> SUFFICES ASSUME TypeInv, SendLost PROVE TypeInv'  OBVIOUS
<1>1. sender' \in SenderType /\ sender'.sent <= Length(sender'.pack)
      /\ sender'.retry < MAX_XOFF_WAIT
  <2>1. CASE sender' = [sender EXCEPT !.pc = "lost"]  BY <2>1, Typed DEF SenderType
  <2>2. CASE sender' = [sender EXCEPT !.pc = "sending", !.sent = 0, !.retry = @ + 1] /\ sender.retry + 1 < MAX_XOFF_WAIT
    <3>1. sender \in SenderType /\ sender.retry + 1 \in Nat /\ sender.pack \in Pack  BY Typed
    <3>2. sender' \in SenderType /\ sender'.sent = 0 /\ sender'.pack = sender.pack
          /\ sender'.retry = sender.retry + 1
      BY <2>2, <3>1 DEF SenderType
    <3>3. Length(sender.pack) \in Nat  BY <3>1, Sizes
    <3> QED BY <2>2, <3>2, <3>3
  <2>3. CASE sender' = NextPacket(sender.pack)  BY <2>3, Typed, NextPacketTyped
  <2> QED BY <2>1, <2>2, <2>3 DEF SendLost
<1> QED BY <1>1 DEF SendLost, TypeInv, TypeOK, SenderType, Receives

LEMMA ReadTyped == TypeInv /\ Read => TypeInv'
<1> SUFFICES ASSUME TypeInv, Read PROVE TypeInv'  OBVIOUS
<1>1. PICK n \in 1 .. SmallerOf(Len(wire), receiver.rest) :
        /\ receiver' = [receiver EXCEPT !.rest = @ - n, !.got = @ \o SubSeq(wire, 1, n)]
        /\ wire' = SubSeq(wire, n + 1, Len(wire))
  BY DEF Read
<1>2. n \in 1 .. Len(wire) /\ n <= receiver.rest  BY Typed DEF SmallerOf
<1>3. receiver.rest - n \in Nat  BY <1>2, Typed
<1>4. wire' \in Seq(Byte) /\ Len(wire') = Len(wire) - n  BY <1>1, <1>2, Typed, RestOf
<1>5. SubSeq(wire, 1, n) \in Seq(Byte)  BY <1>2, Typed, FirstOf
<1>6. receiver.got \o SubSeq(wire, 1, n) \in Seq(Byte)  BY <1>5, Typed, JoinOf
<1>7. receiver' \in ReceiverType /\ receiver'.pc = receiver.pc
  BY <1>1, <1>3, <1>6, Typed DEF ReceiverType
<1>8. Len(wire') <= SocketBuffer  BY <1>2, <1>4, Typed, ConnectionAssumption
<1> QED BY <1>4, <1>7, <1>8 DEF Read, TypeInv, TypeOK, ReceiverType, Receives

LEMMA CheckHeaderTyped == TypeInv /\ CheckHeader => TypeInv'
<1> SUFFICES ASSUME TypeInv, CheckHeader PROVE TypeInv'  OBVIOUS
<1>1. receiver' \in ReceiverType
  <2>1. ASSUME NEW n \in Lengths(receiver.got),
               receiver' = [receiver EXCEPT !.pc = "contents", !.got = <<>>, !.rest = n]
        PROVE  receiver' \in ReceiverType
    <3>1. n \in Nat  BY LengthsTyped
    <3>2. receiver \in ReceiverType  BY Typed
    <3>3. <<>> \in Seq(Byte)  OBVIOUS
    <3> QED BY <2>1, <3>1, <3>2, <3>3 DEF ReceiverType
  <2>2. CASE receiver' = [receiver EXCEPT !.pc = "error"]  BY <2>2, Typed DEF ReceiverType
  <2> QED BY <2>1, <2>2 DEF CheckHeader
<1>2. peer' \subseteq {"sender", "receiver"}  BY DEF CheckHeader, TypeInv, TypeOK
<1>3. Len(delivered) < NoPackets  BY DEF CheckHeader, Reading, Receives, TypeInv
<1> QED BY <1>1, <1>2, <1>3 DEF CheckHeader, TypeInv, TypeOK, ReceiverType

LEMMA ReturnTyped == TypeInv /\ Return => TypeInv'
<1> SUFFICES ASSUME TypeInv, Return PROVE TypeInv'  OBVIOUS
<1>1. Len(delivered) < NoPackets /\ NoPackets \in Nat
  BY Typed, ConnectionAssumption DEF Return, Reading, Receives
<1>2. delivered' \in Seq(Seq(Byte)) /\ Len(delivered') = Len(delivered) + 1
  BY Typed DEF Return
<1>3. receiver' \in ReceiverType /\ (receiver'.pc # "done" => Len(delivered') # NoPackets)
  BY HeaderTyped DEF Return, ReceiverType
<1>4. Receives' => Len(delivered') < NoPackets  BY <1>1, <1>2, <1>3, Typed DEF Receives
<1> QED BY <1>2, <1>3, <1>4 DEF Return, TypeInv, TypeOK, ReceiverType

LEMMA ReconnectTyped == TypeInv /\ Reconnect => TypeInv'
<1> SUFFICES ASSUME TypeInv, Reconnect PROVE TypeInv'  OBVIOUS
<1>1. Len(delivered) \in Nat /\ Len(delivered) < NoPackets /\ NoPackets \in Nat
  BY Typed, ConnectionAssumption DEF Reconnect, Reading, Receives
<1>2. Len(delivered) + 1 \in Pack  BY <1>1 DEF Pack
<1>3. Length(Len(delivered) + 1) \in Nat  BY <1>2, Sizes
<1>4. sender' \in SenderType /\ sender'.sent <= Length(sender'.pack) /\ sender'.retry < MAX_XOFF_WAIT
  BY <1>2, <1>3, ConnectionAssumption DEF Reconnect, SenderType
<1>5. receiver' \in ReceiverType  BY HeaderTyped DEF Reconnect
<1>6. wire' \in Seq(Byte) /\ Len(wire') <= SocketBuffer  BY ConnectionAssumption DEF Reconnect
<1> QED BY <1>1, <1>4, <1>5, <1>6 DEF Reconnect, TypeInv, TypeOK, SenderType, ReceiverType

\* The other steps change the program counter of one loop at most.
Small == WriteRefused \/ SendFails \/ SenderCloses \/ Xoff \/ ReadEof \/ RecvLost \/ RecvFails
         \/ CommandArrives \/ Dies \/ Halts

LEMMA SmallTyped == TypeInv /\ (Small \/ UNCHANGED vars) => TypeInv'
<1>1. ASSUME TypeInv, SenderCloses \/ Xoff \/ CommandArrives \/ Dies \/ Halts PROVE TypeInv'
  BY <1>1 DEF TypeInv, TypeOK, Receives, SenderCloses, Xoff, CommandArrives, Dies, Halts
<1>2. ASSUME TypeInv, ReadEof \/ RecvLost \/ RecvFails PROVE TypeInv'
  <2>1. receiver' \in ReceiverType /\ (Receives' => Receives)
    BY <1>2, Typed DEF ReadEof, RecvLost, RecvFails, ReceiverType, Receives
  <2>2. peer' \subseteq {"sender", "receiver"}
    BY <1>2 DEF ReadEof, RecvLost, RecvFails, TypeInv, TypeOK
  <2> QED BY <1>2, <2>1, <2>2 DEF ReadEof, RecvLost, RecvFails, TypeInv, TypeOK, ReceiverType
<1>4. ASSUME TypeInv, WriteRefused \/ SendFails PROVE TypeInv'
  <2>1. PICK pc \in {"writing", "error"} : sender' = [sender EXCEPT !.pc = pc]
    BY <1>4 DEF WriteRefused, SendFails
  <2>2. sender' \in SenderType /\ sender'.sent = sender.sent /\ sender'.pack = sender.pack
        /\ sender'.retry = sender.retry
    <3>1. sender \in SenderType /\ pc \in {"sending", "writing", "lost", "error", "done"}  BY <1>4, <2>1, Typed
    <3> QED BY <2>1, <3>1 DEF SenderType
  <2> QED BY <1>4, <2>2, Typed DEF WriteRefused, SendFails, TypeInv, TypeOK, SenderType, Receives
<1>3. ASSUME TypeInv, UNCHANGED vars PROVE TypeInv'
  BY <1>3 DEF TypeInv, TypeOK, Receives, vars
<1> QED BY <1>1, <1>2, <1>3, <1>4 DEF Small

LEMMA StepKinds ==
  [Next]_vars => Write \/ SendLost \/ Read \/ CheckHeader \/ Return \/ Reconnect
                 \/ Small \/ UNCHANGED vars
BY DEF Next, Send, Receive, Faults, Small, Over

LEMMA StepTyped == TypeInv /\ [Next]_vars => TypeInv'
BY StepKinds, WriteTyped, SendLostTyped, ReadTyped, CheckHeaderTyped, ReturnTyped,
   ReconnectTyped, SmallTyped

LEMMA AlwaysTyped == Spec => []TypeInv
BY InitTyped, StepTyped, PTL DEF Spec

\* Every variable of the connection keeps its type, for any number and size of packets,
\* any socket buffers and faults: neither loop counts its rest below zero, and the
\* buffers never hold more than their size (sending(), recving()).
THEOREM TypeCorrect == Spec => []TypeOK
BY AlwaysTyped, PTL DEF TypeInv
-----------------------------------------------------------------------------
(* The order of the bytes, while no retry under XOFF repeats any *)

Intactly == \A i \in DOMAIN delivered : delivered[i] = Contents(i)

\* The packet the receiver is at, and how much of it it has.
LEMMA Place ==
  ASSUME TypeInv, Order, Receives
  PROVE  /\ Expects \in Pack /\ Length(Expects) \in Nat /\ Length(Expects) = 2 + Size[Expects]
         /\ Size[Expects] \in Nat /\ Taken \in Nat /\ Taken + receiver.rest <= Length(Expects)
         /\ Taken >= First - 1 /\ First \in {1, 3}
         /\ receiver.pc = "header" => First = 1 /\ Taken + receiver.rest = 2
         /\ receiver.pc = "contents" => First = 3 /\ Taken + receiver.rest = Length(Expects)
<1>1. Len(delivered) \in Nat /\ Len(delivered) < NoPackets /\ NoPackets \in Nat
      /\ receiver.rest \in Nat
  BY Typed, ConnectionAssumption
<1>2. Expects \in Pack  BY <1>1 DEF Expects, Pack
<1>3. Length(Expects) \in Nat /\ Size[Expects] \in Nat /\ Length(Expects) = 2 + Size[Expects]
  BY <1>2, Sizes
<1>4. CASE receiver.pc = "header"
  <2>1. Taken = 2 - receiver.rest /\ receiver.rest <= 2 /\ First = 1
    BY <1>4 DEF Taken, Order, HeaderBytes, First
  <2> QED BY <1>1, <1>2, <1>3, <1>4, <2>1
<1>5. CASE receiver.pc = "contents"
  <2>1. Taken = Length(Expects) - receiver.rest /\ receiver.rest <= Size[Expects] /\ First = 3
    BY <1>5 DEF Taken, Order, HeaderBytes, First
  <2> QED BY <1>1, <1>2, <1>3, <1>5, <2>1
<1> QED BY <1>4, <1>5 DEF Receives

LEMMA NoBytes ==
  ASSUME NEW p \in Pack
  PROVE  Bytes(p, 1, 0) = <<>> /\ Bytes(p, 3, 2) = <<>>
<1>1. 1 - 1 = 0 /\ 0 - 1 + 1 = 0 /\ 2 - 3 + 1 = 0  OBVIOUS
<1> QED BY <1>1 DEF Bytes

\* Order is about these only.
LEMMA OrderOf ==
  ASSUME Order, UNCHANGED <<receiver, wire, delivered, NextWritten>>
  PROVE  Order'
BY DEF Order, Receives, First, Taken, Expects, NextRead

LEMMA Starting ==
  ASSUME Len(delivered) \in Nat, Len(delivered) < NoPackets, receiver = ReadHeader, wire = <<>>,
         NextWritten = At(Expects, 1)
  PROVE  Order
<1>1. Expects \in Pack  BY ConnectionAssumption DEF Expects, Pack
<1>2. Taken = 0 /\ First = 1  BY HeaderTyped DEF Taken, First, HeaderBytes
<1>3. NextRead = At(Expects, 1)
  <2>1. Length(Expects) > 0 /\ 0 + 1 = 1  BY <1>1, Sizes
  <2> QED BY <1>2, <2>1 DEF NextRead, AfterIt
<1>4. OnWire(wire, NextWritten, 1) = NextRead /\ InOrder(wire, NextWritten)
  BY <1>3 DEF OnWire, InOrder
<1>5. receiver.got = Bytes(Expects, First, Taken)  BY <1>1, <1>2, NoBytes, HeaderTyped
<1>6. receiver.rest <= HeaderBytes  BY HeaderTyped DEF HeaderBytes
<1> QED BY <1>4, <1>5, <1>6, HeaderTyped DEF Order

LEMMA InitWhole == Init /\ "xoff" \notin faults => Whole
<1> SUFFICES ASSUME Init, "xoff" \notin faults PROVE Whole  OBVIOUS
<1>1. delivered = <<>> /\ wire = <<>> /\ receiver = ReadHeader /\ Len(delivered) = 0
  BY DEF Init
<1>2. NextWritten = At(1, 0 + 1)  BY DEF Init, NextWritten
<1>3. Expects = 1 /\ 0 < NoPackets  BY <1>1, ConnectionAssumption DEF Expects
<1>4. Order  BY <1>1, <1>2, <1>3, Starting
<1>5. Intactly  BY <1>1 DEF Intactly
<1> QED BY <1>4, <1>5 DEF Whole, Init, Intactly

LEMMA WriteWhole == TypeInv /\ Whole /\ Write => Whole'
<1> SUFFICES ASSUME TypeInv, Whole, Write PROVE Whole'  OBVIOUS
<1> DEFINE p == sender.pack
           m == sender.sent
<1>1. PICK n \in 1 .. SmallerOf(Room, Rest) :
        /\ wire' = wire \o Bytes(p, m + 1, m + n)
        /\ IF n = Rest
           THEN sender' = NextPacket(p) /\ writeNetXoff' = FALSE
           ELSE /\ UNCHANGED writeNetXoff
                /\ \E pc \in {"sending", "writing"} : sender' = [sender EXCEPT !.sent = @ + n, !.pc = pc]
  <2>1. \A b \in BOOLEAN : (IF b THEN "writing" ELSE "sending") \in {"sending", "writing"}  OBVIOUS
  <2> QED BY <2>1 DEF Write
<1>2. p \in Pack /\ m \in Nat /\ Length(p) \in Nat /\ m <= Length(p)  BY Typed, Sizes
<1>3. Rest = Length(p) - m  BY DEF Rest
<1>4. Room \in Int
  <2>1. Len(wire) \in Nat /\ SocketBuffer \in Nat  BY Typed, ConnectionAssumption
  <2> QED BY <2>1 DEF Room
<1>5. n \in Nat /\ 0 < n /\ n <= Rest  BY <1>2, <1>3, <1>4 DEF SmallerOf
<1>6. m + n <= Length(p)  BY <1>2, <1>3, <1>5
<1>7. NextWritten = At(p, m + 1)  BY DEF Write, Running, NextWritten
<1>8. NextWritten' = AfterIt(p, m + n)
  <2>1. CASE n = Rest
    <3>1. m + n = Length(p) /\ ~(m + n < Length(p))  BY <1>2, <1>3, <2>1
    <3>2. AfterIt(p, m + n) = At(p + 1, 1)  BY <3>1 DEF AfterIt
    <3>3. sender' = NextPacket(p)  BY <1>1, <2>1
    <3>4. CASE p = NoPackets  BY <3>2, <3>3, <3>4 DEF NextWritten, NextPacket
    <3>5. CASE p # NoPackets
      <4>1. sender'.pc = "sending" /\ sender'.pack = p + 1 /\ sender'.sent = 0
        BY <3>3, <3>5 DEF NextPacket
      <4>2. 0 + 1 = 1  OBVIOUS
      <4> QED BY <3>2, <4>1, <4>2 DEF NextWritten
    <3> QED BY <3>4, <3>5
  <2>2. CASE n # Rest
    <3>1. m + n < Length(p)  BY <1>2, <1>3, <1>5, <2>2
    <3>2. sender \in SenderType  BY Typed
    <3>3. PICK pc \in {"sending", "writing"} : sender' = [sender EXCEPT !.sent = @ + n, !.pc = pc]
      BY <1>1, <2>2
    <3>4. sender'.pc # "done" /\ sender'.pack = p /\ sender'.sent = m + n
      BY <3>2, <3>3 DEF SenderType
    <3> QED BY <3>1, <3>4 DEF NextWritten, AfterIt
  <2> QED BY <2>1, <2>2
<1>9. UNCHANGED <<receiver, delivered, control>>  BY DEF Write
<1>10. Order'
  <2> SUFFICES ASSUME Receives' PROVE Order'  BY DEF Order
  <2>1. Receives  BY <1>9 DEF Receives
  <2>2. OnWire(wire, NextWritten, 1) = NextRead /\ InOrder(wire, NextWritten)
    BY <2>1 DEF Whole, Order
  <2>3. wire \in Seq(Byte)  BY Typed
  <2>4. /\ InOrder(wire', NextWritten')
        /\ OnWire(wire', NextWritten', 1) = OnWire(wire, NextWritten, 1)
    <3> HIDE DEF p, m
    <3>1. LET s == wire \o Bytes(p, m + 1, m + n)
          IN  InOrder(s, AfterIt(p, m + n))
              /\ OnWire(s, AfterIt(p, m + n), 1) = OnWire(wire, At(p, m + 1), 1)
      BY <1>2, <1>5, <1>6, <1>7, <2>2, <2>3, WrittenInOrder
    <3> QED BY <1>1, <1>7, <1>8, <3>1
  <2>5. NextRead' = NextRead  BY <1>9 DEF NextRead, Taken, Expects
  <2> QED BY <1>9, <2>1, <2>2, <2>4, <2>5 DEF Whole, Order, Receives, Taken, Expects, First
<1> QED BY <1>1, <1>9, <1>10 DEF Whole

LEMMA ReadWhole == TypeInv /\ Whole /\ Read => Whole'
<1> SUFFICES ASSUME TypeInv, Whole, Read PROVE Whole'  OBVIOUS
<1>1. PICK n \in 1 .. SmallerOf(Len(wire), receiver.rest) :
        /\ receiver' = [receiver EXCEPT !.rest = @ - n, !.got = @ \o SubSeq(wire, 1, n)]
        /\ wire' = SubSeq(wire, n + 1, Len(wire))
  BY DEF Read
<1>2. UNCHANGED <<sender, delivered, control, writeNetXoff>> /\ receiver.rest > 0 /\ Receives
  BY DEF Read, Reading, Receives
<1>3. Order  BY DEF Whole
<1>4. n \in 1 .. Len(wire) /\ n <= receiver.rest /\ n \in Nat /\ wire \in Seq(Byte)
      /\ receiver \in ReceiverType /\ receiver.rest \in Nat
  BY Typed DEF SmallerOf
<1>5. receiver'.pc = receiver.pc /\ receiver'.rest = receiver.rest - n
      /\ receiver'.got = receiver.got \o SubSeq(wire, 1, n)
  BY <1>1, <1>4 DEF ReceiverType
<1>6. PICK p \in Pack, t \in Nat, f \in {1, 3} :
        /\ p = Expects /\ t = Taken /\ f = First /\ f - 1 <= t
        /\ Length(p) \in Nat /\ t + receiver.rest <= Length(p)
  BY <1>2, <1>3, Place
<1>7. t + n <= Length(p) /\ t < Length(p)  BY <1>2, <1>4, <1>6
<1>8. NextWritten' = NextWritten /\ Expects' = Expects /\ First' = First
  BY <1>2, <1>5 DEF NextWritten, Expects, First
<1>9. Taken' = t + n
  <2>1. receiver.pc = "header" => Taken = 2 - receiver.rest /\ Taken' = 2 - (receiver.rest - n)
    BY <1>5 DEF Taken, HeaderBytes
  <2>2. receiver.pc # "header" => Taken = Length(p) - receiver.rest
                                  /\ Taken' = Length(p) - (receiver.rest - n)
    BY <1>5, <1>6, <1>8 DEF Taken
  <2> QED BY <1>4, <1>6, <2>1, <2>2
<1>10. OnWire(wire, NextWritten, 1) = At(p, t + 1) /\ InOrder(wire, NextWritten)
  BY <1>2, <1>3, <1>6, <1>7 DEF Order, NextRead, AfterIt
<1>11. /\ \A i \in 1 .. n : wire[i] = At(p, t + i)
       /\ InOrder(wire', NextWritten) /\ OnWire(wire', NextWritten, 1) = AfterIt(p, t + n)
  <2>1. /\ \A i \in 1 .. n : wire[i] = At(p, t + i)
        /\ InOrder(SubSeq(wire, n + 1, Len(wire)), NextWritten)
        /\ OnWire(SubSeq(wire, n + 1, Len(wire)), NextWritten, 1) = AfterIt(p, t + n)
    BY <1>4, <1>7, <1>10, ReadInOrder
  <2> QED BY <1>1, <2>1
<1>12. receiver'.got = Bytes(p, f, t + n)
  <2>1. PICK k \in Nat, d \in Nat : f = k + 1 /\ t = k + d
    <3>1. f - 1 \in Nat /\ t - (f - 1) \in Nat  BY <1>6
    <3>2. f = (f - 1) + 1 /\ t = (f - 1) + (t - (f - 1))  BY <1>6
    <3> QED BY <3>1, <3>2
  <2>2. receiver.got = Bytes(p, f, t)  BY <1>2, <1>3, <1>6 DEF Order
  <2> DEFINE s == SubSeq(wire, 1, n)
  <2>3. s \in Seq(Byte) /\ Len(s) = n /\ \A i \in 1 .. n : s[i] = wire[i]  BY <1>4, FirstOf
  <2> HIDE DEF s
  <2>4. \A i \in 1 .. n : s[i] = At(p, k + d + i)  BY <1>11, <2>1, <2>3
  <2>5. Bytes(p, k + 1, k + d) \o s = Bytes(p, k + 1, k + d + n)
    <3>1. s \in Seq(Byte) /\ \A i \in 1 .. Len(s) : s[i] = At(p, k + d + i)  BY <2>3, <2>4
    <3>2. Bytes(p, k + 1, k + d) \o s = Bytes(p, k + 1, k + d + Len(s))  BY <3>1, Joined, Zenon
    <3> QED BY <2>3, <3>2
  <2>6. Bytes(p, f, t) \o s = Bytes(p, f, t + n)  BY <2>1, <2>5
  <2> QED BY <1>5, <2>2, <2>6 DEF s
<1>13. Order'
  <2>1. Len(delivered)' < NoPackets  BY <1>2, Typed
  <2>2. receiver'.rest <= receiver.rest  BY <1>4, <1>5
  <2>3. receiver'.rest <= (IF receiver'.pc = "header" THEN HeaderBytes ELSE Size[Expects'])
    <3>1. receiver.rest <= (IF receiver.pc = "header" THEN HeaderBytes ELSE Size[Expects])
      BY <1>2, <1>3 DEF Order
    <3>2. Size[Expects] \in Nat  BY <1>2, <1>3, Place
    <3> QED BY <1>4, <1>5, <1>8, <3>1, <3>2 DEF HeaderBytes
  <2>4. receiver'.got = Bytes(Expects', First', Taken')  BY <1>6, <1>8, <1>9, <1>12
  <2>5. NextRead' = AfterIt(p, t + n)  BY <1>6, <1>8, <1>9 DEF NextRead
  <2> QED BY <1>8, <1>11, <2>1, <2>3, <2>4, <2>5 DEF Order
<1> QED BY <1>2, <1>13 DEF Whole

LEMMA CheckHeaderWhole == TypeInv /\ Whole /\ CheckHeader => Whole'
<1> SUFFICES ASSUME TypeInv, Whole, CheckHeader PROVE Whole'  OBVIOUS
<1>1. Order /\ Receives /\ receiver.pc = "header" /\ receiver.rest = 0
  BY DEF Whole, CheckHeader, Reading, Receives
<1>2. PICK p \in Pack : p = Expects /\ Taken = 2 /\ First = 1 /\ Size[p] \in Nat
                        /\ Length(p) = 2 + Size[p]
  <2>1. Taken \in Nat /\ Taken + 0 = 2  BY <1>1, Place
  <2> QED BY <1>1, <2>1, Place
<1>3. receiver.got = Bytes(p, 1, 2)  BY <1>1, <1>2 DEF Order
<1>4. Lengths(receiver.got) = {Size[p]}
  <2>1. Intact(receiver.got)  BY <1>3 DEF Intact, HeaderBytes
  <2>2. receiver.got[1].pack = p  BY <1>3 DEF Bytes
  <2> QED BY <2>1, <2>2 DEF Lengths
<1>5. receiver' = [receiver EXCEPT !.pc = "contents", !.got = <<>>, !.rest = Size[p]]
  BY <1>4 DEF CheckHeader
<1>6. receiver \in ReceiverType  BY Typed
<1>7. receiver'.pc = "contents" /\ receiver'.got = <<>> /\ receiver'.rest = Size[p]
  BY <1>5, <1>6 DEF ReceiverType
<1>8. UNCHANGED <<sender, wire, delivered, control, writeNetXoff>>  BY DEF CheckHeader
<1>9. Expects' = p /\ First' = 3 /\ NextWritten' = NextWritten
  BY <1>2, <1>7, <1>8 DEF Expects, First, NextWritten, HeaderBytes
<1>10. Taken' = 2
  <2>1. Taken' = Length(p) - Size[p]  BY <1>7, <1>9 DEF Taken
  <2> QED BY <1>2, <2>1
<1>11. NextRead' = NextRead  BY <1>2, <1>9, <1>10 DEF NextRead
<1>12. receiver'.got = Bytes(p, 3, 2)  BY <1>7, NoBytes
<1>13. Order'
  <2>1. OnWire(wire, NextWritten, 1) = NextRead /\ InOrder(wire, NextWritten)
        /\ Len(delivered) < NoPackets
    BY <1>1 DEF Order
  <2> QED BY <1>2, <1>7, <1>8, <1>9, <1>10, <1>11, <1>12, <2>1 DEF Order
<1> QED BY <1>8, <1>13 DEF Whole

LEMMA ReturnWhole == TypeInv /\ Whole /\ Return => Whole'
<1> SUFFICES ASSUME TypeInv, Whole, Return PROVE Whole'  OBVIOUS
<1>1. Order /\ Receives /\ receiver.pc = "contents" /\ receiver.rest = 0
  BY DEF Whole, Return, Reading, Receives
<1>2. PICK p \in Pack, l \in Nat : p = Expects /\ l = Len(delivered) /\ p = l + 1
  BY <1>1, Place, Typed DEF Expects
<1>3. /\ Taken = Length(p) /\ First = 3 /\ Length(p) \in Nat /\ Length(p) = 2 + Size[p]
      /\ Size[p] \in Nat
  <2>1. Taken \in Nat /\ Taken + 0 = Length(p)  BY <1>1, <1>2, Place
  <2> QED BY <1>1, <1>2, <2>1, Place
<1>4. receiver.got = Contents(p)
  <2>1. receiver.got = Bytes(p, 3, Length(p))  BY <1>1, <1>2, <1>3 DEF Order
  <2>2. HeaderBytes + 1 = 3 /\ HeaderBytes + Size[p] = Length(p)  BY <1>3 DEF HeaderBytes
  <2> QED BY <2>1, <2>2 DEF Contents
<1>5. delivered' = Append(delivered, receiver.got) /\ delivered \in Seq(Seq(Byte))
      /\ receiver.got \in Seq(Byte)
  BY Typed DEF Return
<1>6. Len(delivered') = l + 1 /\ delivered'[l + 1] = receiver.got
      /\ \A i \in 1 .. l : delivered'[i] = delivered[i]
  BY <1>2, <1>5
<1>7. Intactly'
  <2>1. delivered' \in Seq(Seq(Byte))  BY <1>5
  <2>2. DOMAIN delivered' = 1 .. l + 1 /\ DOMAIN delivered = 1 .. l  BY <1>2, <1>5, <1>6, <2>1
  <2>3. ASSUME NEW i \in 1 .. l + 1 PROVE delivered'[i] = Contents(i)
    <3>1. CASE i = l + 1  BY <1>2, <1>4, <1>6, <3>1
    <3>2. CASE i \in 1 .. l  BY <1>6, <2>2, <3>2 DEF Whole
    <3> QED BY <3>1, <3>2
  <2> QED BY <2>2, <2>3 DEF Intactly
<1>8. UNCHANGED <<sender, wire, control, writeNetXoff>> /\ NextWritten' = NextWritten
  BY DEF Return, NextWritten
<1>9. ASSUME Receives' PROVE Order'
  <2>1. receiver' = ReadHeader /\ l + 1 # NoPackets
    BY <1>6, <1>9, HeaderTyped DEF Return, Receives
  <2>2. l < NoPackets /\ NoPackets \in Nat  BY <1>1, <1>2, ConnectionAssumption DEF Order
  <2>3. l + 1 < NoPackets /\ l + 2 \in Pack  BY <2>1, <2>2 DEF Pack
  <2>4. Expects' = l + 2 /\ First' = 1 /\ Taken' = 0
    <3>1. Expects' = l + 1 + 1  BY <1>6 DEF Expects
    <3>2. receiver'.pc = "header" /\ receiver'.rest = HeaderBytes  BY <2>1, HeaderTyped
    <3> QED BY <3>1, <3>2 DEF First, Taken, HeaderBytes
  <2>5. NextRead = At(l + 2, 1)
    <3>1. ~(Taken < Length(p)) /\ p + 1 = l + 2  BY <1>2, <1>3
    <3> QED BY <1>2, <1>3, <3>1 DEF NextRead, AfterIt
  <2>6. NextRead' = At(l + 2, 1)
    <3>1. 0 < Length(l + 2) /\ 0 + 1 = 1  BY <2>3, Sizes
    <3> QED BY <2>4, <3>1 DEF NextRead, AfterIt
  <2>7. OnWire(wire, NextWritten, 1) = NextRead /\ InOrder(wire, NextWritten)
    BY <1>1 DEF Order
  <2>8. receiver'.got = Bytes(l + 2, 1, 0) /\ receiver'.rest <= HeaderBytes /\ receiver'.pc = "header"
    BY <2>1, <2>3, NoBytes, HeaderTyped DEF HeaderBytes
  <2> QED BY <1>6, <1>8, <2>3, <2>4, <2>5, <2>6, <2>7, <2>8 DEF Order
<1>10. Order'  BY <1>9 DEF Order
<1> QED BY <1>7, <1>8, <1>10 DEF Whole, Intactly

LEMMA ReconnectWhole == TypeInv /\ Whole /\ Reconnect => Whole'
<1> SUFFICES ASSUME TypeInv, Whole, Reconnect PROVE Whole'  OBVIOUS
<1>1. /\ control' = "served" /\ wire' = <<>> /\ receiver' = ReadHeader
      /\ sender' = [pc |-> "sending", pack |-> Len(delivered) + 1, sent |-> 0, retry |-> 0]
      /\ UNCHANGED <<delivered, writeNetXoff>>
  BY DEF Reconnect
<1>2. Len(delivered') \in Nat /\ Len(delivered') < NoPackets
  BY <1>1, Typed DEF Reconnect, Reading, Receives
<1>3. NextWritten' = At(Expects', 1)
  <2>1. Expects' = Len(delivered) + 1  BY <1>1 DEF Expects
  <2>2. sender'.pc = "sending" /\ sender'.pack = Len(delivered) + 1 /\ sender'.sent = 0  BY <1>1
  <2>3. 0 + 1 = 1  OBVIOUS
  <2> QED BY <2>1, <2>2, <2>3 DEF NextWritten
<1>4. Order'
  <2>1. (/\ Len(delivered) \in Nat /\ Len(delivered) < NoPackets /\ receiver = ReadHeader
         /\ wire = <<>> /\ NextWritten = At(Expects, 1)
         => Order)'
    BY Starting, PTL
  <2> QED BY <1>1, <1>2, <1>3, <2>1
<1> QED BY <1>1, <1>4 DEF Whole

\* A lost connection, the end of a loop or of a process leaves the rest as it is.
LEMMA SmallWhole ==
  ASSUME TypeInv, Whole, "xoff" \notin faults, SendLost \/ Small \/ UNCHANGED vars
  PROVE  Whole'
<1>1. ASSUME SenderCloses \/ CommandArrives \/ Dies \/ Halts \/ UNCHANGED vars PROVE Whole'
  <2>1. UNCHANGED <<receiver, wire, delivered, sender, writeNetXoff>>
    BY <1>1 DEF SenderCloses, CommandArrives, Dies, Halts, vars
  <2>2. control' # "xoff"  BY <1>1 DEF SenderCloses, CommandArrives, Dies, Halts, vars, Whole
  <2>3. NextWritten' = NextWritten  BY <2>1 DEF NextWritten
  <2>4. Order'  BY <2>1, <2>3, OrderOf DEF Whole
  <2> QED BY <2>1, <2>2, <2>4 DEF Whole
<1>2. ASSUME SendLost PROVE Whole'
  <2>1. sender' = [sender EXCEPT !.pc = "lost"] /\ sender \in SenderType /\ sender.pc # "done"
        /\ UNCHANGED <<receiver, wire, delivered, control, writeNetXoff>>
    BY <1>2, Typed DEF SendLost, Whole, Running
  <2>2. sender'.pc = "lost" /\ sender'.pack = sender.pack /\ sender'.sent = sender.sent
    BY <2>1 DEF SenderType
  <2>3. NextWritten' = NextWritten  BY <2>1, <2>2 DEF NextWritten
  <2>4. Order'  BY <2>1, <2>3, OrderOf DEF Whole
  <2> QED BY <2>1, <2>4 DEF Whole
<1>3. ASSUME ReadEof PROVE Whole'
  <2>1. receiver' = [receiver EXCEPT !.cleared = TRUE] /\ receiver \in ReceiverType
        /\ UNCHANGED <<sender, wire, delivered, control, writeNetXoff>>
    BY <1>3, Typed DEF ReadEof
  <2>2. receiver'.pc = receiver.pc /\ receiver'.rest = receiver.rest /\ receiver'.got = receiver.got
    BY <2>1 DEF ReceiverType
  <2>3. Order'
    BY <2>1, <2>2 DEF Whole, Order, Receives, First, Taken, Expects, NextRead, NextWritten
  <2> QED BY <2>1, <2>3 DEF Whole
<1>4. ASSUME RecvLost \/ RecvFails PROVE Whole'
  <2>1. /\ \E pc \in {"lost", "error"} : receiver' = [receiver EXCEPT !.pc = pc]
        /\ receiver \in ReceiverType /\ UNCHANGED <<sender, wire, delivered, control, writeNetXoff>>
    BY <1>4, Typed DEF RecvLost, RecvFails
  <2>2. ~Receives'  BY <2>1 DEF ReceiverType, Receives
  <2> QED BY <2>1, <2>2 DEF Whole, Order
<1>6. ASSUME WriteRefused \/ SendFails PROVE Whole'
  <2>1. PICK pc \in {"writing", "error"} :
          /\ sender' = [sender EXCEPT !.pc = pc] /\ sender \in SenderType /\ sender.pc # "done"
          /\ UNCHANGED <<receiver, wire, delivered, control, writeNetXoff>>
    BY <1>6, Typed DEF WriteRefused, SendFails, Running
  <2>2. sender'.pc = pc /\ sender'.pack = sender.pack /\ sender'.sent = sender.sent
    BY <2>1 DEF SenderType
  <2>3. NextWritten' = NextWritten  BY <2>1, <2>2 DEF NextWritten
  <2>4. Order'  BY <2>1, <2>3, OrderOf DEF Whole
  <2> QED BY <2>1, <2>4 DEF Whole
<1>5. ~Xoff  BY DEF Xoff, Whole
<1> QED BY <1>1, <1>2, <1>3, <1>4, <1>5, <1>6 DEF Small

LEMMA StepWhole ==
  TypeInv /\ ("xoff" \notin faults => Whole) /\ [Next]_vars => ("xoff" \notin faults => Whole)'
<1> SUFFICES ASSUME TypeInv, "xoff" \notin faults => Whole, [Next]_vars, "xoff" \notin faults'
             PROVE  Whole'
  OBVIOUS
<1>1. faults' = faults
  BY StepKinds DEF Write, SendLost, Read, CheckHeader, Return, Reconnect, Small, SenderCloses,
                   Xoff, ReadEof, RecvLost, RecvFails, WriteRefused, SendFails, CommandArrives, Dies,
                   Halts, vars
<1>2. Whole  BY <1>1
<1> QED BY <1>1, <1>2, StepKinds, WriteWhole, ReadWhole, CheckHeaderWhole, ReturnWhole,
           ReconnectWhole, SmallWhole

\* What recv_packet() returns is packet after packet as it was sent, whole and with no
\* other byte in it, for any number and size of packets and any socket buffers: however
\* writes and reads are cut, whichever end dies or stalls, and also when a reconnection
\* falls into the middle of a packet (Net.cpp:470-725, 880-1109).
THEOREM AlwaysIntact == Spec => []DeliveredIntact
<1> DEFINE IInv == TypeInv /\ ("xoff" \notin faults => Whole)
<1>1. Init => IInv  BY InitTyped, InitWhole
<1>2. IInv /\ [Next]_vars => IInv'  BY StepTyped, StepWhole
<1>3. IInv => DeliveredIntact  BY DEF Whole, DeliveredIntact
<1> QED BY <1>1, <1>2, <1>3, PTL DEF Spec

-----------------------------------------------------------------------------
(***************************************************************************)
(* The control port                                                        *)
(***************************************************************************)
\* The table of descriptors when the port, a file and an accepted connection have these
Held(sock, plain, conn) ==
  [n \in P!Descriptors |-> IF n = sock THEN "port" ELSE IF n = plain THEN "file"
                         ELSE IF n = conn THEN "conn" ELSE "free"]

\* The port and the file have the two lowest descriptors between them, so that the
\* number which is closed for a request is the lowest when the port is opened again
Waiting ==
  /\ port.sock \in {1, 2} /\ port.accpt = P!NoFd /\ file \in {P!NoFd, 3 - port.sock}
  /\ fd = Held(port.sock, file, P!NoFd)
Accepted ==
  /\ port.sock \in {1, 2} /\ port.accpt = 3 /\ file = 3 - port.sock
  /\ fd = Held(port.sock, file, 3) /\ net.exp = port.sock
Closed ==
  /\ net.exp \in {1, 2} /\ port.sock = P!NoFd /\ port.accpt = 3 /\ file = 3 - net.exp

PortSockets ==
  /\ net.pc \in {"begin", "select", "accept"} => Waiting
  /\ net.pc \in {"select", "accept"} => net.exp = port.sock
  /\ net.pc = "accept" => backlog # <<>>
  /\ net.pc = "command" => IF file = P!NoFd THEN asker[net.peer] = "quit" ELSE Accepted
  /\ net.pc = "close" => Accepted
  /\ net.pc = "closeaccepted" => Closed /\ fd = Held(P!NoFd, file, 3)
  /\ net.pc = "open" => Closed /\ fd = Held(P!NoFd, file, P!NoFd)

\* Who waits in the queue has asked and waits there once; and as long as anyone does
\* who has not left, a file is open
PortQueue ==
  /\ backlog \in Seq(Askers)
  /\ \A i \in DOMAIN backlog : asker[backlog[i]] \in {"asked", "quit"}
  /\ \A i, j \in DOMAIN backlog : backlog[i] = backlog[j] => i = j
  /\ net.pc = "command" =>
       /\ net.peer \in Askers /\ asker[net.peer] \in {"asked", "quit"}
       /\ \A i \in DOMAIN backlog : backlog[i] # net.peer
  /\ \A a \in Askers : asker[a] = "asked" => file # P!NoFd

PortTypes ==
  /\ net \in [pc : {"begin", "select"} \cup P!Served, exp : Nat,
              complete : BOOLEAN, peer : Askers \cup {P!Nobody}]
  /\ port \in [sock : Nat, accpt : Nat]
  /\ asker \in [Askers -> {"idle", "asked", "acked", "reset", "refused", "quit"}]

\* How a request may have ended the node
ByRequest == exited = "command" /\ (0 \in CHECKTRAILER \/ P!SomeoneQuit)

PortInv ==
  /\ PortTypes /\ PortSockets /\ PortQueue
  /\ heirs = P!NoHeirs
  /\ exited = "no" \/ ByRequest

(***************************************************************************)
(* The lowest free descriptor                                              *)
(***************************************************************************)
LEMMA MinIs ==
  ASSUME NEW S \in SUBSET Int, NEW x \in S, \A y \in S : x <= y
  PROVE  P!Min(S) = x
<1>1. P!Min(S) \in S /\ \A y \in S : P!Min(S) <= y
  BY DEF P!Min
<1>2. P!Min(S) <= x /\ x <= P!Min(S)
  BY <1>1
<1>3. P!Min(S) \in Int /\ x \in Int
  BY <1>1
<1> QED BY <1>2, <1>3

\* What the table is when one of the three descriptors is given out or closed.
LEMMA Tables ==
  ASSUME NEW s \in {1, 2}
  PROVE  /\ [Held(s, 3 - s, P!NoFd) EXCEPT ![3] = "conn"] = Held(s, 3 - s, 3)
         /\ [Held(s, 3 - s, 3) EXCEPT ![s] = "free"] = Held(P!NoFd, 3 - s, 3)
         /\ [Held(P!NoFd, 3 - s, 3) EXCEPT ![3] = "free"] = Held(P!NoFd, 3 - s, P!NoFd)
         /\ [Held(P!NoFd, 3 - s, P!NoFd) EXCEPT ![s] = "port"] = Held(s, 3 - s, P!NoFd)
         /\ [Held(s, P!NoFd, P!NoFd) EXCEPT ![3 - s] = "file"] = Held(s, 3 - s, P!NoFd)
         /\ [Held(s, 3 - s, P!NoFd) EXCEPT ![3 - s] = "free"] = Held(s, P!NoFd, P!NoFd)
<1>1. [Held(s, 3 - s, P!NoFd) EXCEPT ![3] = "conn"] = Held(s, 3 - s, 3)
  <2>1. \A n \in P!Descriptors : [Held(s, 3 - s, P!NoFd) EXCEPT ![3] = "conn"][n] = Held(s, 3 - s, 3)[n]
    BY DEF Held, P!Descriptors, P!NoFd
  <2> QED BY <2>1 DEF Held
<1>2. [Held(s, 3 - s, 3) EXCEPT ![s] = "free"] = Held(P!NoFd, 3 - s, 3)
  <2>1. \A n \in P!Descriptors : [Held(s, 3 - s, 3) EXCEPT ![s] = "free"][n] = Held(P!NoFd, 3 - s, 3)[n]
    BY DEF Held, P!Descriptors, P!NoFd
  <2> QED BY <2>1 DEF Held
<1>3. [Held(P!NoFd, 3 - s, 3) EXCEPT ![3] = "free"] = Held(P!NoFd, 3 - s, P!NoFd)
  <2>1. \A n \in P!Descriptors : [Held(P!NoFd, 3 - s, 3) EXCEPT ![3] = "free"][n] = Held(P!NoFd, 3 - s, P!NoFd)[n]
    BY DEF Held, P!Descriptors, P!NoFd
  <2> QED BY <2>1 DEF Held
<1>4. [Held(P!NoFd, 3 - s, P!NoFd) EXCEPT ![s] = "port"] = Held(s, 3 - s, P!NoFd)
  <2>1. \A n \in P!Descriptors : [Held(P!NoFd, 3 - s, P!NoFd) EXCEPT ![s] = "port"][n] = Held(s, 3 - s, P!NoFd)[n]
    BY DEF Held, P!Descriptors, P!NoFd
  <2> QED BY <2>1 DEF Held
<1>5. [Held(s, P!NoFd, P!NoFd) EXCEPT ![3 - s] = "file"] = Held(s, 3 - s, P!NoFd)
  <2>1. \A n \in P!Descriptors : [Held(s, P!NoFd, P!NoFd) EXCEPT ![3 - s] = "file"][n] = Held(s, 3 - s, P!NoFd)[n]
    BY DEF Held, P!Descriptors, P!NoFd
  <2> QED BY <2>1 DEF Held
<1>6. [Held(s, 3 - s, P!NoFd) EXCEPT ![3 - s] = "free"] = Held(s, P!NoFd, P!NoFd)
  <2>1. \A n \in P!Descriptors : [Held(s, 3 - s, P!NoFd) EXCEPT ![3 - s] = "free"][n] = Held(s, P!NoFd, P!NoFd)[n]
    BY DEF Held, P!Descriptors, P!NoFd
  <2> QED BY <2>1 DEF Held
<1> QED BY <1>1, <1>2, <1>3, <1>4, <1>5, <1>6

\* With the port and a file open, an accepted connection gets the third descriptor.
LEMMA LowestBehindBoth ==
  ASSUME P!PortAssumption, NEW s \in {1, 2}
  PROVE  P!Lowest(Held(s, 3 - s, P!NoFd)) = 3 /\ P!Free(Held(s, 3 - s, P!NoFd)) # {}
<1> DEFINE S == P!Free(Held(s, 3 - s, P!NoFd))
<1>1. S \in SUBSET Int /\ 3 \in S /\ \A y \in S : 3 <= y
  BY DEF P!PortAssumption, P!Free, Held, P!Descriptors, P!NoFd
<1>2. P!Min(S) = 3
  BY <1>1, MinIs
<1> QED BY <1>1, <1>2 DEF P!Lowest

\* With the file alone open, the lowest descriptor is the one the port had.
LEMMA LowestAgain ==
  ASSUME P!PortAssumption, NEW e \in {1, 2}
  PROVE  P!Lowest(Held(P!NoFd, 3 - e, P!NoFd)) = e /\ P!Free(Held(P!NoFd, 3 - e, P!NoFd)) # {}
<1> DEFINE S == P!Free(Held(P!NoFd, 3 - e, P!NoFd))
<1>1. S \in SUBSET Int /\ e \in S /\ \A y \in S : e <= y
  BY DEF P!PortAssumption, P!Free, Held, P!Descriptors, P!NoFd
<1>2. P!Min(S) = e
  BY <1>1, MinIs
<1> QED BY <1>1, <1>2 DEF P!Lowest

\* With the port alone open, a file gets the other one of the two lowest.
LEMMA LowestBeside ==
  ASSUME P!PortAssumption, NEW s \in {1, 2}
  PROVE  P!Lowest(Held(s, P!NoFd, P!NoFd)) = 3 - s /\ P!Free(Held(s, P!NoFd, P!NoFd)) # {}
<1> DEFINE S == P!Free(Held(s, P!NoFd, P!NoFd))
<1>1. S \in SUBSET Int /\ 3 - s \in S /\ \A y \in S : 3 - s <= y
  BY DEF P!PortAssumption, P!Free, Held, P!Descriptors, P!NoFd
<1>2. P!Min(S) = 3 - s
  BY <1>1, MinIs
<1> QED BY <1>1, <1>2 DEF P!Lowest

(***************************************************************************)
(* The steps                                                               *)
(***************************************************************************)
LEMMA PortInit ==
  ASSUME P!PortAssumption
  PROVE  P!Init /\ P!Undisturbed => PortInv
<1> SUFFICES ASSUME P!Init, P!Undisturbed PROVE PortInv
  OBVIOUS
<1>1. heirs = P!NoHeirs /\ net = [pc |-> "begin", exp |-> P!NoFd, complete |-> FALSE, peer |-> P!Nobody]
      /\ backlog = <<>> /\ asker = [a \in Askers |-> "idle"] /\ exited = "no"
  BY DEF P!Init
<1>2. PICK first \in {"port", "file"} :
        /\ fd = [n \in P!Descriptors |-> IF n = 1 THEN first
                                      ELSE IF n = 2 /\ first = "file" THEN "port" ELSE "free"]
        /\ port = [sock |-> IF first = "port" THEN 1 ELSE 2, accpt |-> P!NoFd]
        /\ file = IF first = "file" THEN 1 ELSE P!NoFd
  BY DEF P!Init
<1>3. Waiting
  BY <1>2 DEF Waiting, Held, P!Descriptors, P!NoFd
<1>4. PortTypes
  BY <1>1, <1>2 DEF PortTypes, P!NoFd
<1>5. PortSockets
  BY <1>1, <1>3 DEF PortSockets
<1>6. PortQueue
  BY <1>1 DEF PortQueue
<1> QED BY <1>1, <1>4, <1>5, <1>6 DEF PortInv

\* Whether a transfer is undisturbed does not change.
LEMMA TransferStays == [P!Next]_(P!vars) => (P!Undisturbed' <=> P!Undisturbed)
<1>1. [P!Next]_(P!vars) => transfer' = transfer
  BY DEF P!Next, P!Service, P!vars, P!BeginCall, P!SelectReturns, P!SelectFails, P!Accept, P!Command, P!CloseSock,
         P!CloseAccepted, P!OpenPort, P!OpenFile, P!CloseFile, P!FilterEnds, P!Ask, P!Quit, P!Ended, P!Exit
<1> QED BY <1>1 DEF P!Undisturbed

LEMMA CallSteps ==
  ASSUME P!PortAssumption, PortInv, P!Undisturbed, P!BeginCall \/ P!SelectReturns
  PROVE  PortInv'
<1>1. CASE P!BeginCall
  <2>1. /\ net.pc = "begin" /\ Waiting
        /\ net' = [net EXCEPT !.pc = "select", !.complete = FALSE, !.exp = port.sock]
        /\ UNCHANGED <<fd, port, file, heirs, backlog, asker, exited>>
    BY <1>1 DEF P!BeginCall, P!Runs, PortInv, PortSockets, Waiting
  <2>2. /\ net' \in [pc : {"select"}, exp : Nat, complete : BOOLEAN, peer : Askers \cup {P!Nobody}]
        /\ net'.exp = port.sock
    BY <2>1 DEF PortInv, PortTypes
  <2>3. PortTypes'
    BY <2>1, <2>2 DEF PortInv, PortTypes
  <2>4. PortSockets'
    BY <2>1, <2>2 DEF PortSockets, Waiting
  <2>5. PortQueue'
    BY <2>1, <2>2 DEF PortInv, PortQueue
  <2> QED BY <2>1, <2>3, <2>4, <2>5 DEF PortInv, ByRequest, P!SomeoneQuit
<1>2. CASE P!SelectReturns
  <2>1. net.pc = "select" /\ Waiting /\ net.exp = port.sock
        /\ UNCHANGED <<transfer, fd, port, file, heirs, backlog, asker, exited>>
    BY <1>2 DEF P!SelectReturns, P!Runs, PortInv, PortSockets
  <2>2. fd[net.exp] = "port"
    BY <2>1 DEF P!PortAssumption, Waiting, Held, P!Descriptors
  <2>3. PICK complete \in BOOLEAN :
          net' = [net EXCEPT !.complete = complete,
                             !.pc = IF P!Readable(net.exp) THEN "accept" ELSE IF complete THEN "begin" ELSE @]
    BY <1>2 DEF P!SelectReturns
  <2>4. P!Readable(net.exp) => backlog # <<>>
    BY <2>2 DEF P!Readable
  <2>5. /\ net'.exp = net.exp /\ net'.peer = net.peer /\ net' \in [pc : {"begin", "select", "accept"}, exp : Nat, complete : BOOLEAN,
                    peer : Askers \cup {P!Nobody}]
        /\ net'.pc = "accept" => backlog # <<>>
    BY <2>1, <2>3, <2>4 DEF PortInv, PortTypes
  <2>6. PortTypes' /\ PortSockets' /\ PortQueue'
    BY <2>1, <2>5 DEF PortInv, PortTypes, PortSockets, PortQueue, Waiting, Held, P!Served
  <2> QED BY <2>1, <2>6 DEF PortInv, ByRequest, P!SomeoneQuit
<1> QED BY <1>1, <1>2

\* select() never fails: the socket it waits with is open.
LEMMA NoFailure ==
  ASSUME P!PortAssumption, PortInv, P!Undisturbed, P!SelectFails
  PROVE  FALSE
<1>1. Waiting /\ net.exp = port.sock
  BY DEF P!SelectFails, P!Runs, PortInv, PortSockets
<1> QED BY <1>1 DEF P!PortAssumption, Waiting, Held, P!Descriptors, P!SelectFails

LEMMA AcceptStep ==
  ASSUME P!PortAssumption, PortInv, P!Undisturbed, P!Accept
  PROVE  PortInv'
<1>1. net.pc = "accept" /\ Waiting /\ net.exp = port.sock /\ backlog # <<>>
  BY DEF P!Accept, P!Runs, PortInv, PortSockets
<1>2. P!Free(fd) # {}
  BY <1>1, LowestBehindBoth, LowestBeside DEF Waiting
<1>3. /\ fd' = [fd EXCEPT ![P!Lowest(fd)] = "conn"]
      /\ port' = [port EXCEPT !.accpt = P!Lowest(fd)]
      /\ net' = [net EXCEPT !.pc = "command", !.peer = Head(backlog)]
      /\ backlog' = Tail(backlog) /\ UNCHANGED <<file, heirs, asker, exited>>
  BY <1>1, <1>2 DEF P!Accept
<1>4. /\ backlog \in Seq(Askers) /\ Head(backlog) = backlog[1] /\ 1 \in DOMAIN backlog
      /\ Tail(backlog) \in Seq(Askers)
      /\ \A i \in DOMAIN Tail(backlog) : i + 1 \in DOMAIN backlog /\ Tail(backlog)[i] = backlog[i + 1]
      /\ \A i \in DOMAIN Tail(backlog) : i \in Nat /\ i + 1 # 1
  BY <1>1 DEF PortInv, PortQueue
<1>5. net'.peer = backlog[1] /\ net'.pc = "command" /\ net'.exp = net.exp /\ backlog[1] \in Askers
      /\ asker[backlog[1]] \in {"asked", "quit"}
  BY <1>3, <1>4 DEF PortInv, PortTypes, PortQueue
<1>6. PortQueue'
  <2>1. \A i \in DOMAIN backlog' : backlog'[i] # net'.peer
    BY <1>3, <1>4, <1>5 DEF PortInv, PortQueue
  <2>2. \A i, j \in DOMAIN backlog' : backlog'[i] = backlog'[j] => i = j
    <3> SUFFICES ASSUME NEW i \in DOMAIN backlog', NEW j \in DOMAIN backlog', backlog'[i] = backlog'[j]
                 PROVE  i = j
      OBVIOUS
    <3>1. i + 1 = j + 1
      BY <1>3, <1>4 DEF PortInv, PortQueue
    <3> QED BY <1>3, <1>4, <3>1
  <2>3. \A i \in DOMAIN backlog' : asker'[backlog'[i]] \in {"asked", "quit"}
    BY <1>3, <1>4 DEF PortInv, PortQueue
  <2> QED BY <1>3, <1>4, <1>5, <2>1, <2>2, <2>3 DEF PortInv, PortQueue
<1>7. P!Lowest(fd) \in Nat
  BY <1>1, LowestBehindBoth, LowestBeside DEF Waiting
<1>8. PortTypes'
  <2>1. net' \in [pc : {"command"}, exp : Nat, complete : BOOLEAN, peer : Askers \cup {P!Nobody}]
    BY <1>3, <1>5 DEF PortInv, PortTypes
  <2>2. port' \in [sock : Nat, accpt : Nat]
    BY <1>3, <1>7 DEF PortInv, PortTypes
  <2> QED BY <1>3, <2>1, <2>2 DEF PortInv, PortTypes, P!Served
<1>9. PortSockets'
  <2>1. CASE file = P!NoFd
    <3>1. asker[backlog[1]] # "asked"
      BY <1>4, <1>5, <2>1 DEF PortInv, PortQueue
    <3> QED BY <1>3, <1>5, <2>1, <3>1 DEF PortSockets
  <2>2. CASE file # P!NoFd
    <3>1. file = 3 - port.sock /\ fd = Held(port.sock, 3 - port.sock, P!NoFd) /\ P!Lowest(fd) = 3
      BY <1>1, <2>2, LowestBehindBoth DEF Waiting
    <3>2. fd' = Held(port.sock, 3 - port.sock, 3)
      BY <1>1, <1>3, <3>1, Tables DEF Waiting
    <3>3. port'.sock = port.sock /\ port'.accpt = 3 /\ file' = file
      BY <1>3, <3>1 DEF PortInv, PortTypes
    <3>4. Accepted'
      BY <1>1, <1>5, <3>1, <3>2, <3>3 DEF Waiting, Accepted
    <3> QED BY <1>3, <1>5, <2>2, <3>4 DEF PortSockets
  <2> QED BY <2>1, <2>2
<1> QED BY <1>3, <1>6, <1>8, <1>9 DEF PortInv, ByRequest, P!SomeoneQuit

LEMMA CommandStep ==
  ASSUME P!PortAssumption, PortInv, P!Undisturbed, P!Command
  PROVE  PortInv'
<1>1. net.pc = "command" /\ net.peer \in Askers /\ exited = "no"
  BY DEF P!Command, P!Runs, PortInv, PortQueue
<1>2. CASE (0 \in CHECKTRAILER \/ asker[net.peer] = "quit") /\ P!Exit("command")
  <2>1. exited' = "command" /\ UNCHANGED <<fd, net, port, file, heirs, backlog, asker>>
    BY <1>2 DEF P!Exit
  <2>2. ByRequest'
    BY <1>1, <1>2, <2>1 DEF ByRequest, P!SomeoneQuit
  <2>3. PortTypes' /\ PortSockets' /\ PortQueue'
    BY <2>1 DEF PortInv, PortTypes, PortSockets, PortQueue, Waiting, Accepted, Closed, Held
  <2> QED BY <2>1, <2>2, <2>3 DEF PortInv
<1>3. CASE /\ asker[net.peer] # "quit" /\ asker' = [asker EXCEPT ![net.peer] = "acked"]
           /\ net' = [net EXCEPT !.pc = "close", !.peer = P!Nobody]
           /\ UNCHANGED <<transfer, fd, port, file, heirs, backlog, exited>>
  <2>2. Accepted /\ Accepted'
    BY <1>1, <1>3 DEF PortInv, PortTypes, PortSockets, Accepted, Held
  <2>3. PortTypes'
    BY <1>1, <1>3 DEF PortInv, PortTypes, P!Served
  <2>4. PortSockets'
    BY <1>3, <2>2 DEF PortInv, PortTypes, PortSockets
  <2>5. PortQueue'
    BY <1>1, <1>3 DEF PortInv, PortTypes, PortQueue
  <2> QED BY <1>1, <1>3, <2>3, <2>4, <2>5 DEF PortInv
<1> QED BY <1>2, <1>3 DEF P!Command

LEMMA CloseSteps ==
  ASSUME P!PortAssumption, PortInv, P!Undisturbed, P!CloseSock \/ P!CloseAccepted
  PROVE  PortInv'
<1>1. CASE P!CloseSock
  <2>1. net.pc = "close" /\ Accepted /\ ~P!Inherited /\ exited = "no"
    BY <1>1 DEF P!CloseSock, P!Runs, PortInv, PortSockets, P!Inherited
  <2>2. /\ fd' = [fd EXCEPT ![port.sock] = "free"]
        /\ port' = [port EXCEPT !.sock = P!NoFd]
        /\ backlog' = <<>>
        /\ asker' = [a \in Askers |-> IF P!InBacklog(a) /\ asker[a] = "asked" THEN "reset" ELSE asker[a]]
        /\ net' = [net EXCEPT !.pc = "closeaccepted"]
        /\ UNCHANGED <<file, heirs, exited>>
    BY <1>1, <2>1 DEF P!CloseSock, P!ResetBacklog
  <2>3. fd' = Held(P!NoFd, file, 3)
    BY <2>1, <2>2, Tables DEF Accepted
  <2>4. Closed' /\ net'.pc = "closeaccepted"
    BY <2>1, <2>2 DEF PortInv, PortTypes, Accepted, Closed
  <2>5. PortTypes'
    BY <2>2 DEF PortInv, PortTypes, P!Served, P!NoFd
  <2>6. PortSockets'
    BY <2>2, <2>3, <2>4 DEF PortSockets
  <2>7. PortQueue'
    BY <2>2, <2>4 DEF PortInv, PortTypes, PortQueue
  <2> QED BY <2>1, <2>2, <2>5, <2>6, <2>7 DEF PortInv
<1>2. CASE P!CloseAccepted
  <2>1. net.pc = "closeaccepted" /\ Closed /\ fd = Held(P!NoFd, file, 3)
    BY <1>2 DEF P!CloseAccepted, P!Runs, PortInv, PortSockets
  <2>2. /\ fd' = [fd EXCEPT ![port.accpt] = "free"] /\ net' = [net EXCEPT !.pc = "open"]
        /\ UNCHANGED <<port, file, heirs, backlog, asker, exited>>
    BY <1>2 DEF P!CloseAccepted
  <2>3. fd' = Held(P!NoFd, file, P!NoFd)
    BY <2>1, <2>2, Tables DEF Closed
  <2>4. Closed' /\ net'.pc = "open"
    BY <2>1, <2>2 DEF PortInv, PortTypes, Closed
  <2>5. PortTypes' /\ PortQueue'
    BY <2>2 DEF PortInv, PortTypes, PortQueue, P!Served
  <2>6. PortSockets'
    BY <2>2, <2>3, <2>4 DEF PortSockets
  <2> QED BY <2>2, <2>5, <2>6 DEF PortInv, ByRequest, P!SomeoneQuit
<1> QED BY <1>1, <1>2

\* The new socket has the number of the old one.
LEMMA OpenStep ==
  ASSUME P!PortAssumption, PortInv, P!Undisturbed, P!OpenPort
  PROVE  PortInv'
<1>1. net.pc = "open" /\ Closed /\ fd = Held(P!NoFd, 3 - net.exp, P!NoFd) /\ ~P!Inherited
  BY DEF P!OpenPort, P!Runs, PortInv, PortSockets, Closed, P!Inherited
<1>2. P!Lowest(fd) = net.exp /\ P!Free(fd) # {}
  BY <1>1, LowestAgain DEF Closed
<1>3. /\ port' = [sock |-> net.exp, accpt |-> P!NoFd]
      /\ fd' = [fd EXCEPT ![net.exp] = "port"]
      /\ net' = [net EXCEPT !.pc = IF net.complete THEN "begin" ELSE "select"]
      /\ UNCHANGED <<file, heirs, backlog, asker, exited>>
  BY <1>1, <1>2 DEF P!OpenPort
<1>4. fd' = Held(net.exp, file, P!NoFd)
  BY <1>1, <1>3, Tables DEF Closed
<1>5. net'.exp = net.exp /\ net'.pc \in {"begin", "select"}
  BY <1>3 DEF PortInv, PortTypes
<1>6. Waiting' /\ net'.exp = port'.sock
  BY <1>1, <1>3, <1>4, <1>5 DEF Closed, Waiting
<1>7. PortSockets'
  BY <1>5, <1>6 DEF PortSockets
<1>8. PortTypes' /\ PortQueue'
  BY <1>3, <1>5 DEF PortInv, PortTypes, PortQueue, P!NoFd
<1> QED BY <1>3, <1>7, <1>8 DEF PortInv, ByRequest, P!SomeoneQuit

\* No file ends while anyone has asked; one that begins takes the descriptor beside
\* the port.
LEMMA FileSteps ==
  ASSUME P!PortAssumption, PortInv, P!Undisturbed, P!OpenFile \/ P!CloseFile
  PROVE  PortInv'
<1>1. /\ P!Quiet /\ UNCHANGED <<net, port, backlog, asker, exited>>
      /\ ~transfer.anyTime /\ transfer.kinds = {"plain"}
  BY DEF P!OpenFile, P!CloseFile, P!Undisturbed
<1>2. net.pc \in {"begin", "select"} /\ Waiting /\ \A a \in Askers : asker[a] # "asked"
  BY <1>1 DEF P!Quiet, PortInv, PortTypes, PortSockets
<1>3. CASE P!OpenFile
  <2>1. file = P!NoFd /\ file' = P!Lowest(fd) /\ fd' = [fd EXCEPT ![P!Lowest(fd)] = "file"] /\ heirs' = heirs
    BY <1>1, <1>3 DEF P!OpenFile, P!OpenPlain
  <2>2. P!Lowest(fd) = 3 - port.sock
    BY <1>2, <2>1, LowestBeside DEF Waiting
  <2>3. Waiting'
    <3>1. fd' = Held(port.sock, file', P!NoFd)
      BY <1>2, <2>1, <2>2, Tables DEF Waiting
    <3> QED BY <1>1, <1>2, <2>1, <2>2, <3>1 DEF Waiting
  <2> QED BY <1>1, <1>2, <2>1, <2>3 DEF PortInv, PortTypes, PortSockets, PortQueue, ByRequest, P!SomeoneQuit
<1>4. CASE P!CloseFile
  <2>1. file # P!NoFd /\ file' = P!NoFd /\ fd' = [fd EXCEPT ![file] = "free"]
        /\ heirs' = [now |-> FALSE, late |-> P!Inherited]
    BY <1>4 DEF P!CloseFile
  <2>2. heirs' = P!NoHeirs
    BY <2>1 DEF PortInv, P!Inherited, P!NoHeirs
  <2>3. Waiting'
    <3>1. fd' = Held(port.sock, P!NoFd, P!NoFd)
      BY <1>2, <2>1, Tables DEF Waiting
    <3> QED BY <1>1, <1>2, <2>1, <3>1 DEF Waiting
  <2> QED BY <1>1, <1>2, <2>2, <2>3 DEF PortInv, PortTypes, PortSockets, PortQueue, ByRequest, P!SomeoneQuit
<1> QED BY <1>3, <1>4

LEMMA AskerSteps ==
  ASSUME P!PortAssumption, PortInv, P!Undisturbed, P!Ask \/ P!Quit
  PROVE  PortInv'
<1>1. CASE P!Ask
  <2>1. PICK a \in Askers :
          /\ asker[a] \notin {"asked", "quit"}
          /\ IF port.sock = P!NoFd /\ ~P!Inherited
             THEN asker' = [asker EXCEPT ![a] = "refused"] /\ UNCHANGED backlog
             ELSE asker' = [asker EXCEPT ![a] = "asked"] /\ backlog' = Append(backlog, a)
    BY <1>1 DEF P!Ask
  <2>2. UNCHANGED <<fd, net, port, file, heirs, exited>> /\ file # P!NoFd
    BY <1>1 DEF P!Ask, P!Undisturbed
  <2>3. /\ asker' \in [Askers -> {"idle", "asked", "acked", "reset", "refused", "quit"}]
        /\ \A b \in Askers : b # a => asker'[b] = asker[b]
    BY <2>1 DEF PortInv, PortTypes
  <2>4. net.pc = "command" => net.peer # a
    BY <2>1 DEF PortInv, PortQueue
  <2>5. PortTypes'
    BY <2>2, <2>3 DEF PortInv, PortTypes
  <2>6. PortQueue'
    <3>1. /\ backlog \in Seq(Askers) /\ \A i \in DOMAIN backlog : backlog[i] \in Askers /\ backlog[i] # a
      BY <2>1 DEF PortInv, PortQueue
    <3>2. CASE backlog' = backlog
      BY <2>2, <2>3, <2>4, <3>1, <3>2 DEF PortInv, PortQueue
    <3>3. CASE backlog' = Append(backlog, a) /\ asker' = [asker EXCEPT ![a] = "asked"]
      <4>1. /\ backlog' \in Seq(Askers) /\ DOMAIN backlog' = 1 .. Len(backlog) + 1
            /\ DOMAIN backlog = 1 .. Len(backlog) /\ Len(backlog) \in Nat
            /\ \A i \in DOMAIN backlog : backlog'[i] = backlog[i]
            /\ backlog'[Len(backlog) + 1] = a
        BY <3>1, <3>3
      <4>2. asker'[a] = "asked"
        BY <3>3 DEF PortInv, PortTypes
      <4>3. \A i \in DOMAIN backlog' : asker'[backlog'[i]] \in {"asked", "quit"}
        BY <2>3, <3>1, <4>1, <4>2 DEF PortInv, PortQueue
      <4>4. \A i, j \in DOMAIN backlog' : backlog'[i] = backlog'[j] => i = j
        BY <3>1, <4>1 DEF PortInv, PortQueue
      <4>5. net.pc = "command" => \A i \in DOMAIN backlog' : backlog'[i] # net.peer
        BY <2>4, <3>1, <4>1 DEF PortInv, PortQueue
      <4> QED BY <2>2, <2>3, <2>4, <4>1, <4>3, <4>4, <4>5 DEF PortInv, PortQueue
    <3> QED BY <2>1, <3>2, <3>3
  <2>7. net.pc = "accept" => backlog' # <<>>
    <3>1. backlog \in Seq(Askers)
      BY DEF PortInv, PortQueue
    <3> QED BY <2>1, <3>1 DEF PortInv, PortSockets
  <2>8. PortSockets'
    BY <2>2, <2>7 DEF PortInv, PortSockets, Waiting, Accepted, Closed, Held
  <2>9. (exited = "no" \/ ByRequest)'
    BY <2>1, <2>2, <2>3 DEF PortInv, ByRequest, P!SomeoneQuit
  <2> QED BY <2>2, <2>5, <2>6, <2>8, <2>9 DEF PortInv
<1>2. CASE P!Quit
  <2>1. PICK a \in Quitters : asker[a] = "asked" /\ asker' = [asker EXCEPT ![a] = "quit"]
    BY <1>2 DEF P!Quit
  <2>2. UNCHANGED <<fd, net, port, file, heirs, backlog, exited>> /\ a \in Askers
    BY <1>2 DEF P!PortAssumption, P!Quit
  <2>3. /\ asker' \in [Askers -> {"idle", "asked", "acked", "reset", "refused", "quit"}]
        /\ \A b \in Askers : asker'[b] = IF b = a THEN "quit" ELSE asker[b]
    BY <2>1, <2>2 DEF PortInv, PortTypes
  <2>4. PortTypes'
    BY <2>2, <2>3 DEF PortInv, PortTypes
  <2>5. PortQueue'
    BY <2>2, <2>3 DEF PortInv, PortQueue
  <2>6. net.pc = "command" => (asker[net.peer] = "quit" => asker'[net.peer] = "quit")
    BY <2>3 DEF PortInv, PortQueue
  <2>7. PortSockets'
    BY <2>2, <2>6 DEF PortInv, PortSockets, Waiting, Accepted, Closed, Held
  <2> QED BY <2>2, <2>3, <2>4, <2>5, <2>7 DEF PortInv, ByRequest, P!SomeoneQuit
<1> QED BY <1>1, <1>2

LEMMA PortStep ==
  ASSUME P!PortAssumption
  PROVE  P!Undisturbed /\ PortInv /\ [P!Next]_(P!vars) => PortInv'
<1> SUFFICES ASSUME P!Undisturbed, PortInv, [P!Next]_(P!vars) PROVE PortInv'
  OBVIOUS
<1>1. CASE P!Service
  BY <1>1, CallSteps, NoFailure, AcceptStep, CommandStep, CloseSteps, OpenStep DEF P!Service
<1>2. CASE P!OpenFile \/ P!CloseFile
  BY <1>2, FileSteps
<1>3. CASE P!FilterEnds
  BY <1>3 DEF P!FilterEnds, PortInv, P!NoHeirs
<1>4. CASE P!Ask \/ P!Quit
  BY <1>4, AskerSteps
<1>5. CASE UNCHANGED P!vars
  BY <1>5 DEF P!vars, PortInv, PortTypes, PortSockets, PortQueue, Waiting, Accepted, Closed, Held, ByRequest, P!SomeoneQuit
<1> QED BY <1>1, <1>2, <1>3, <1>4, <1>5 DEF P!Next, P!Ended

LEMMA PortWords ==
  /\ P!PortAssumption
  /\ P!ExpSockIsPort <=> ExpSockIsPort
  /\ P!OnlyRequestsEnd <=> OnlyRequestsEnd
BY PortAssumption
   DEF P!PortAssumption, P!ExpSockIsPort, ExpSockIsPort, P!OnlyRequestsEnd, OnlyRequestsEnd,
       P!Undisturbed, Undisturbed, P!SomeoneQuit, SomeoneQuit

LEMMA PortAlways ==
  ASSUME P!PortAssumption
  PROVE  P!Spec => [](P!Undisturbed => PortInv)
<1>1. P!Init => (P!Undisturbed => PortInv)
  BY PortInit
<1>2. (P!Undisturbed => PortInv) /\ [P!Next]_(P!vars) => (P!Undisturbed => PortInv)'
  BY PortStep, TransferStays
<1> QED BY <1>1, <1>2, PTL DEF P!Spec

\* In an undisturbed transfer a call waits with the control socket that exists, for
\* any number of askers and of descriptors (Net.cpp:1006, ClntThread.cpp:297-300).
THEOREM ExpSockStaysPort == P!Spec => []ExpSockIsPort
<1>1. (P!Undisturbed => PortInv) => ExpSockIsPort
  BY PortWords DEF PortInv, PortSockets, P!ExpSockIsPort
<1> QED BY <1>1, PortWords, PortAlways, PTL

\* In an undisturbed transfer nothing ends the node but the receipt of a request that
\* is refused, as the source refuses every one (Packet.h:140), or whose asker has left:
\* neither accept(), nor the new socket, nor select() ever fails (ClntThread.cpp:224-300).
THEOREM OnlyRequestsAlwaysEnd == P!Spec => []OnlyRequestsEnd
<1>1. (P!Undisturbed => PortInv) => OnlyRequestsEnd
  BY PortWords DEF PortInv, ByRequest, P!OnlyRequestsEnd
<1> QED BY <1>1, PortWords, PortAlways, PTL
=============================================================================
