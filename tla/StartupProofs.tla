---------------------------- MODULE StartupProofs ----------------------------
(***************************************************************************)
(* What the sender of a list packet counts and its receiver walks through, *)
(* what the names of the files ask for, and what becomes of a slip in the  *)
(* configuration file: theorems about Configuration and HostList as        *)
(* Startup uses them, for every set of names, every number of files and    *)
(* every list of hosts.                                                    *)
(***************************************************************************)
EXTENDS Startup, TLAPS

\* A value is one of Seq() of some set; the entries of a list are records.
IsSequence(s) == \E S : s \in Seq(S)
IsEntry(e) == e = [name |-> e.name, length |-> e.length, flag |-> e.flag] /\ e.length \in Nat
IsList(s) == IsSequence(s) /\ \A i \in 1 .. Len(s) : IsEntry(s[i])

\* S[i] bytes are taken by the first i entries, more by each further one.
Sums(S) ==
  /\ S \in [0 .. Len(list) -> Nat] /\ S[0] = 0
  /\ \A i \in 1 .. Len(list) : S[i] = S[i - 1] + H!Bytes(list[i])
  /\ \A i, j \in 0 .. Len(list) : i < j => S[i] < S[j]
  /\ taken = S[Len(list)] /\ heap \in Int /\ itemBytes = heap + taken

\* The packet that is on its way, in the size that a short int makes of it; one that
\* was received has its end mark, so that there is room for the entries.
OnTheWay ==
  state \in {"sent", "received", "walked", "synced"} => list # <<>>
Filled ==
  /\ state \in {"sent", "received", "walked"} =>
       packet.entries = list /\ packet = [contBytes |-> packet.contBytes, entries |-> packet.entries]
  /\ state \in {"sent", "received", "walked", "synced"} => packet.contBytes = H!ShortInt(itemBytes)
  /\ state \in {"received", "walked", "synced"} => taken <= packet.contBytes

\* The iterator is as far in the bytes as it is in the entries, and behind the last of
\* them it is behind what they take.
Walking(S) ==
  /\ ite.passed \in Nat /\ ite.offset \in Nat /\ IsList(ite.seen) /\ Len(ite.seen) = ite.passed
  /\ ite.passed <= Len(list) => ite.offset = S[ite.passed]
  /\ ite.passed > Len(list) => ite.offset > taken
  /\ \A i \in 1 .. Len(list) : i <= ite.passed => /\ ite.seen[i].name = list[i].name
                                                  /\ ite.seen[i].length = list[i].length
Synced ==
  Len(ite.seen) >= Len(list) /\ \A i \in 1 .. Len(list) : list[i] = ite.seen[i]
Walk(S) ==
  /\ state \in {"received", "walked", "synced"} => Walking(S)
  /\ state = "received" => ite.offset < packet.contBytes
  /\ state \in {"walked", "synced"} => ite.offset = packet.contBytes
  /\ state = "synced" => Synced
  /\ state # "RING information isnot agree"
  /\ H!Fits => state \notin {"memory", "trailer is wrong", "something wrong"}

Counted(S) == Sums(S) /\ Walk(S)
WalkInv == IsList(list) /\ OnTheWay /\ Filled /\ \E S : Counted(S)

LEMMA SequenceFacts ==
  ASSUME NEW s, IsSequence(s)
  PROVE  /\ Len(s) \in Nat /\ DOMAIN s = 1 .. Len(s) /\ (s # <<>> => Len(s) > 0)
         /\ s = [i \in 1 .. Len(s) |-> s[i]]
<1>1. PICK S : s \in Seq(S)  BY DEF IsSequence
<1> QED BY <1>1

LEMMA Appended ==
  ASSUME NEW s, IsSequence(s), NEW e
  PROVE  /\ IsSequence(Append(s, e)) /\ Len(Append(s, e)) = Len(s) + 1 /\ Append(s, e) # <<>>
         /\ Append(s, e)[Len(s) + 1] = e /\ \A i \in 1 .. Len(s) : Append(s, e)[i] = s[i]
<1>1. PICK S : s \in Seq(S)  BY DEF IsSequence
<1> DEFINE T == S \cup {e}
<1>2. s \in Seq(T) /\ e \in T  BY <1>1
<1> HIDE DEF T
<1>3. Append(s, e) \in Seq(T)  BY <1>2
<1>4. IsSequence(Append(s, e))  BY <1>3 DEF IsSequence
<1> QED BY <1>2, <1>3, <1>4

LEMMA EntryAppended ==
  ASSUME NEW s, IsList(s), NEW e, IsEntry(e)
  PROVE  IsList(Append(s, e))
<1>1. IsSequence(s) /\ Len(s) \in Nat  BY SequenceFacts DEF IsList
<1>2. IsSequence(Append(s, e)) /\ Len(Append(s, e)) = Len(s) + 1  BY <1>1, Appended
<1>3. ASSUME NEW i \in 1 .. Len(s) + 1 PROVE IsEntry(Append(s, e)[i])
  <2>1. CASE i = Len(s) + 1  BY <1>1, <2>1, Appended
  <2>2. CASE i \in 1 .. Len(s)  BY <1>1, <2>2, Appended DEF IsList
  <2> QED BY <1>1, <2>1, <2>2
<1> QED BY <1>2, <1>3 DEF IsList

\* A sequence that is built entry by entry.
LEMMA BuiltSequence ==
  ASSUME NEW n \in Nat, NEW s, s = [i \in 1 .. n |-> s[i]]
  PROVE  IsSequence(s) /\ Len(s) = n
<1> DEFINE T == {s[i] : i \in 1 .. n}
<1>1. s \in [1 .. n -> T]  OBVIOUS
<1>2. s \in Seq(T) /\ Len(s) = n  BY <1>1
<1> QED BY <1>2 DEF IsSequence

LEMMA NewFlag ==
  ASSUME NEW e, IsEntry(e), NEW flag
  PROVE  /\ IsEntry([e EXCEPT !.flag = flag])
         /\ [e EXCEPT !.flag = flag].name = e.name /\ [e EXCEPT !.flag = flag].length = e.length
         /\ [e EXCEPT !.flag = flag].flag = flag
BY DEF IsEntry

LEMMA Remainder ==
  ASSUME NEW M \in Nat \ {0}, NEW r \in Int, 0 <= r, r < M
  PROVE  r % M = r /\ (r + M) % M = r /\ (r - M) % M = r
<1>1. r % M = r  OBVIOUS
<1>2. (r + M) % M = r  OBVIOUS
<1>3. (r - M) % M = r  OBVIOUS
<1> QED BY <1>1, <1>2, <1>3

\* A short int comes through the header as it is.
LEMMA ThroughTheHeader ==
  ASSUME NEW n \in Int
  PROVE  /\ H!ShortInt(n) \in Int
         /\ H!ShortInt(H!UnsignedShort(H!ShortInt(n))) = H!ShortInt(n)
<1>1. PICK M \in Nat \ {0} : M = 2 * Half  BY StartupAssumption
<1>2. Half \in Nat \ {0}  BY StartupAssumption
<1>3. PICK r \in Int : r = (n + Half) % M /\ 0 <= r /\ r < M  BY <1>1, <1>2
<1> DEFINE c == r - Half
<1>4. c \in Int /\ c = r - Half  BY <1>2, <1>3
<1> HIDE DEF c
<1>5. H!ShortInt(n) = c  BY <1>1, <1>3, <1>4 DEF H!ShortInt
<1>6. CASE c >= 0
  <2>1. c % M = c  BY <1>1, <1>2, <1>3, <1>4, <1>6, Remainder
  <2>2. (c + Half) % M = r  BY <1>1, <1>2, <1>3, <1>4, Remainder
  <2> QED BY <1>1, <1>4, <1>5, <2>1, <2>2 DEF H!ShortInt, H!UnsignedShort
<1>7. CASE c < 0
  <2>1. PICK d \in Int : d = c + M /\ 0 <= d /\ d < M /\ c = d - M
    BY <1>1, <1>2, <1>3, <1>4, <1>7
  <2>2. c % M = d  BY <1>1, <2>1, Remainder
  <2>3. d + Half = r + M  BY <1>2, <1>3, <1>4, <2>1
  <2>4. (d + Half) % M = r  BY <1>1, <1>3, <2>3, Remainder
  <2> QED BY <1>1, <1>4, <1>5, <2>2, <2>4 DEF H!ShortInt, H!UnsignedShort
<1> QED BY <1>4, <1>5, <1>6, <1>7

LEMMA SumsTyped ==
  ASSUME IsList(list), NEW S, Sums(S)
  PROVE  /\ Len(list) \in Nat /\ taken \in Nat /\ itemBytes \in Int
         /\ \A i \in 0 .. Len(list) : S[i] \in Nat
         /\ \A i \in 1 .. Len(list) : H!Bytes(list[i]) \in Nat
<1>1. Len(list) \in Nat  BY SequenceFacts DEF IsList
<1>2. \A i \in 0 .. Len(list) : S[i] \in Nat  BY DEF Sums
<1>3. \A i \in 1 .. Len(list) : H!Bytes(list[i]) \in Nat
  <2> SUFFICES ASSUME NEW i \in 1 .. Len(list) PROVE H!Bytes(list[i]) \in Nat  OBVIOUS
  <2>1. list[i].length \in Nat  BY DEF IsList, IsEntry
  <2> QED BY <2>1 DEF H!Bytes
<1> QED BY <1>1, <1>2, <1>3 DEF Sums

LEMMA LengthTyped == \A name : Length(name) \in Nat
BY StartupAssumption DEF Length, KeywordLength
-----------------------------------------------------------------------------
LEMMA InitWalk ==
  ASSUME Init
  PROVE  WalkInv
<1>1. /\ list = <<>> /\ heap \in Int /\ itemBytes = heap + 0 /\ taken = 0 /\ state = "config"
  BY StartupAssumption DEF Init, H!Init
<1>2. IsSequence(<<>>) /\ Len(<<>>) = 0
  <2>1. <<>> \in Seq({})  OBVIOUS
  <2> QED BY <2>1 DEF IsSequence
<1>3. IsList(list)  BY <1>1, <1>2 DEF IsList
<1> DEFINE S == [i \in 0 .. 0 |-> 0]
<1>4. S \in [0 .. 0 -> Nat] /\ S[0] = 0 /\ \A i, j \in 0 .. 0 : ~(i < j)  OBVIOUS
<1> HIDE DEF S
<1>5. Sums(S)  BY <1>1, <1>2, <1>4 DEF Sums
<1>6. Walk(S)  BY <1>1 DEF Walk
<1> QED BY <1>1, <1>3, <1>5, <1>6 DEF WalkInv, Counted, OnTheWay, Filled

LEMMA ExitWalk ==
  ASSUME WalkInv, NEW why, H!Exit(why),
         \/ why \in {"name", "entry is too long"}
         \/ ~H!Fits /\ why \in {"memory", "trailer is wrong", "something wrong"}
  PROVE  WalkInv'
<1>1. UNCHANGED <<list, itemBytes, heap, taken, packet, ite>> /\ state' = why  BY DEF H!Exit
<1>2. PICK S : Counted(S)  BY DEF WalkInv
<1>3. Sums(S)'  BY <1>1, <1>2 DEF Counted, Sums
<1>4. H!Fits' <=> H!Fits  BY <1>1 DEF H!Fits
<1>5. Walk(S)'  BY <1>1, <1>4 DEF Walk
<1>6. IsList(list')  BY <1>1 DEF WalkInv
<1>7. why \notin {"sent", "received", "walked", "synced"}  OBVIOUS
<1> QED BY <1>1, <1>3, <1>5, <1>6, <1>7 DEF WalkInv, Counted, OnTheWay, Filled

LEMMA PushWalk ==
  ASSUME WalkInv, NEW name, NEW length \in Nat, NEW flag, H!PushEntry(name, length, flag)
  PROVE  WalkInv'
<1>1. CASE H!Exit("name")  BY <1>1, ExitWalk
<1>2. CASE ~H!Exit("name")
  <2> DEFINE e == [name |-> name, length |-> length, flag |-> flag]
  <2>1. /\ list' = Append(list, e) /\ itemBytes' = itemBytes + H!Bytes(list'[Len(list')])
        /\ taken' = taken + H!Bytes(list'[Len(list')])
        /\ UNCHANGED <<heap, packet, ite, state>> /\ state = "config"
    BY <1>2 DEF H!PushEntry
  <2>2. IsEntry(e) /\ H!Bytes(e) \in Nat /\ H!Bytes(e) > 0  BY DEF IsEntry, H!Bytes
  <2> HIDE DEF e
  <2>3. PICK n \in Nat : n = Len(list) /\ IsList(list) /\ IsSequence(list)
    BY SequenceFacts, Zenon DEF WalkInv, IsList
  <2>4. PICK S : Sums(S)  BY DEF WalkInv, Counted
  <2>5. IsList(list')  BY <2>1, <2>2, <2>3, EntryAppended
  <2>6. Len(list') = n + 1 /\ list'[n + 1] = e /\ \A i \in 1 .. n : list'[i] = list[i]
    BY <2>1, <2>3, Appended
  <2>7. itemBytes' = itemBytes + H!Bytes(e) /\ taken' = taken + H!Bytes(e) /\ heap' = heap
    BY <2>1, <2>6
  <2> DEFINE U == [i \in 0 .. n + 1 |-> IF i <= n THEN S[i] ELSE S[n] + H!Bytes(e)]
  <2>8. /\ S \in [0 .. n -> Nat] /\ S[0] = 0 /\ taken = S[n] /\ taken \in Nat
        /\ heap \in Int /\ itemBytes = heap + taken
        /\ \A i \in 1 .. n : S[i] = S[i - 1] + H!Bytes(list[i])
        /\ \A i, j \in 0 .. n : i < j => S[i] < S[j]
    BY <2>3, <2>4, SumsTyped DEF Sums
  <2>9. /\ \A i \in 0 .. n : U[i] = S[i] /\ U[i] \in Nat
        /\ U[n + 1] = S[n] + H!Bytes(e) /\ U[n + 1] \in Nat
    <3>1. \A i \in 0 .. n : i <= n /\ i \in 0 .. n + 1 /\ S[i] \in Nat  BY <2>3, <2>8
    <3>2. n \in 0 .. n /\ ~(n + 1 <= n) /\ n + 1 \in 0 .. n + 1  BY <2>3
    <3>3. S[n] + H!Bytes(e) \in Nat  BY <2>2, <3>1, <3>2
    <3> QED BY <3>1, <3>2, <3>3
  <2>10. PICK T \in [0 .. n + 1 -> Nat] :
           (\A i \in 0 .. n : T[i] = S[i] /\ T[i] \in Nat)
           /\ T[n + 1] = S[n] + H!Bytes(e) /\ T[n + 1] \in Nat
    <3>1. ASSUME NEW i \in 0 .. n + 1 PROVE U[i] \in Nat
      <4>1. i \in 0 .. n \/ i = n + 1  BY <2>3
      <4> QED BY <2>9, <4>1
    <3>2. U \in [0 .. n + 1 -> Nat]  BY <3>1
    <3> HIDE DEF U
    <3> QED BY <2>9, <3>2
  <2>11. ASSUME NEW i \in 1 .. n + 1 PROVE T[i] = T[i - 1] + H!Bytes(list'[i])
    <3>1. CASE i \in 1 .. n
      <4>1. i \in 0 .. n /\ i - 1 \in 0 .. n  BY <2>3, <3>1
      <4> QED BY <2>6, <2>8, <2>10, <3>1, <4>1
    <3>2. CASE i = n + 1
      <4>1. i - 1 = n /\ n \in 0 .. n  BY <2>3, <3>2
      <4> QED BY <2>6, <2>10, <3>2, <4>1
    <3> QED BY <2>3, <3>1, <3>2
  <2>12. ASSUME NEW i \in 0 .. n + 1, NEW j \in 0 .. n + 1, i < j PROVE T[i] < T[j]
    <3>1. i \in 0 .. n /\ n \in 0 .. n /\ (j \in 0 .. n \/ j = n + 1)  BY <2>3, <2>12
    <3>2. CASE j \in 0 .. n  BY <2>8, <2>10, <2>12, <3>1, <3>2
    <3>3. CASE j = n + 1
      <4>1. S[i] <= S[n] /\ S[i] \in Nat /\ S[n] \in Nat
        <5>1. CASE i = n  BY <2>8, <3>1, <5>1
        <5>2. CASE i < n  BY <2>8, <3>1, <5>2
        <5> QED BY <2>3, <3>1, <5>1, <5>2
      <4> QED BY <2>2, <2>10, <3>1, <3>3, <4>1
    <3> QED BY <3>1, <3>2, <3>3
  <2>13. T[0] = 0  BY <2>3, <2>8, <2>10
  <2>14. taken' = T[n + 1] /\ heap' \in Int /\ itemBytes' = heap' + taken'
    BY <2>2, <2>7, <2>8, <2>10
  <2>15. Sums(T)'  BY <2>6, <2>10, <2>11, <2>12, <2>13, <2>14 DEF Sums
  <2>16. Walk(T)'  BY <2>1 DEF Walk
  <2> QED BY <2>1, <2>5, <2>15, <2>16 DEF WalkInv, Counted, OnTheWay, Filled
<1> QED BY <1>1, <1>2

\* The size that goes with the packet is what the entries take, or there is no room for
\* them, or more room than they need.
LEMMA SizeOfPacket ==
  ASSUME NEW S, Sums(S), IsList(list)
  PROVE  H!Space \in Int /\ taken \in Nat /\ (H!Fits <=> H!Space = taken)
<1>1. itemBytes = heap + taken /\ taken \in Nat /\ itemBytes \in Int  BY SumsTyped DEF Sums
<1> QED BY <1>1, ThroughTheHeader DEF H!Fits, H!Space

LEMMA FillWalk == WalkInv /\ H!Packetfill => WalkInv'
<1> SUFFICES ASSUME WalkInv, H!Packetfill PROVE WalkInv'  OBVIOUS
<1>1. PICK S : Sums(S)  BY DEF WalkInv, Counted
<1>2. H!Space \in Int /\ taken \in Nat /\ (H!Fits <=> H!Space = taken)
  BY <1>1, SizeOfPacket DEF WalkInv
<1>3. CASE H!Exit("memory") /\ (H!Space + H!Headers < 0 \/ taken > H!Space + H!Trail)
  <2>1. ~H!Fits  BY <1>2, <1>3 DEF H!Headers, H!Trail
  <2> QED BY <1>3, <2>1, ExitWalk
<1>4. CASE ~(H!Exit("memory") /\ (H!Space + H!Headers < 0 \/ taken > H!Space + H!Trail))
  <2>1. /\ packet' = [contBytes |-> H!ShortInt(itemBytes), entries |-> list] /\ state' = "sent"
        /\ UNCHANGED <<list, itemBytes, heap, taken, ite>> /\ list # <<>>
    BY <1>4 DEF H!Packetfill, H!Space
  <2>2. Sums(S)' /\ IsList(list')  BY <1>1, <2>1 DEF Sums, WalkInv
  <2>3. Walk(S)'  BY <2>1 DEF Walk
  <2> QED BY <2>1, <2>2, <2>3 DEF WalkInv, Counted, OnTheWay, Filled, H!ShortInt
<1> QED BY <1>3, <1>4

LEMMA HeaderWalk == WalkInv /\ H!ReceiveHeader => WalkInv'
<1> SUFFICES ASSUME WalkInv, H!ReceiveHeader PROVE WalkInv'  OBVIOUS
<1> DEFINE size == H!ShortInt(H!UnsignedShort(packet.contBytes))
<1>1. state = "sent"  BY DEF H!ReceiveHeader
<1>2. packet.entries = list /\ packet = [contBytes |-> packet.contBytes, entries |-> packet.entries]
      /\ packet.contBytes = H!ShortInt(itemBytes) /\ list # <<>> /\ IsList(list)
  BY <1>1 DEF WalkInv, Filled, OnTheWay
<1>3. PICK S : Sums(S)  BY DEF WalkInv, Counted
<1>4. Len(list) \in Nat /\ Len(list) > 0 /\ itemBytes \in Int /\ taken \in Nat
  BY <1>2, <1>3, SumsTyped, SequenceFacts DEF IsList
<1>5. size = H!Space /\ H!Space \in Int /\ (H!Fits <=> H!Space = taken) /\ H!Space = H!ShortInt(itemBytes)
  BY <1>2, <1>3, <1>4, ThroughTheHeader, SizeOfPacket DEF H!Space
<1> HIDE DEF size
<1>6. CASE size < taken
  <2>1. H!Exit("trailer is wrong")  BY <1>6 DEF H!ReceiveHeader, size
  <2>2. ~H!Fits  BY <1>4, <1>5, <1>6
  <2> QED BY <2>1, <2>2, ExitWalk
<1>7. CASE ~(size < taken)
  <2>1. /\ packet' = [packet EXCEPT !.contBytes = size]
        /\ ite' = H!Start /\ state' = "received" /\ UNCHANGED <<list, itemBytes, heap, taken>>
    BY <1>7 DEF H!ReceiveHeader, size
  <2>2. /\ packet'.contBytes = size /\ packet'.entries = list
        /\ packet' = [contBytes |-> packet'.contBytes, entries |-> packet'.entries]
    BY <1>2, <2>1
  <2>3. Sums(S)' /\ IsList(list')  BY <1>2, <1>3, <2>1 DEF Sums
  <2>4. ite'.passed = 0 /\ ite'.offset = 0 /\ ite'.seen = <<>>  BY <2>1 DEF H!Start
  <2>5. IsList(<<>>) /\ Len(<<>>) = 0
    <3>1. <<>> \in Seq({}) /\ Len(<<>>) = 0  OBVIOUS
    <3> QED BY <3>1 DEF IsList, IsSequence
  <2>6. S[0] = 0 /\ taken > 0
    <3>1. 0 \in 0 .. Len(list) /\ Len(list) \in 0 .. Len(list) /\ 0 < Len(list)  BY <1>4
    <3>2. S[0] < S[Len(list)]  BY <1>3, <3>1 DEF Sums
    <3> QED BY <1>3, <3>2 DEF Sums
  <2>7. Walking(S)'
    BY <1>4, <2>1, <2>4, <2>5, <2>6 DEF Walking
  <2>8. ite'.offset < packet'.contBytes /\ taken <= packet'.contBytes
    BY <1>4, <1>5, <1>7, <2>2, <2>4, <2>6
  <2>9. Walk(S)'  BY <2>1, <2>7, <2>8 DEF Walk
  <2> QED BY <1>2, <1>5, <2>1, <2>2, <2>3, <2>8, <2>9 DEF WalkInv, Counted, OnTheWay, Filled
<1> QED BY <1>6, <1>7

\* The next entry is passed, one of the list or one behind it.
LEMMA PassedWalk ==
  ASSUME NEW S, IsList(list), Sums(S), Walking(S), state = "received",
         NEW entry, IsEntry(entry), ite.passed < Len(list) => entry = list[ite.passed + 1],
         NEW flag,
         ite' = [passed |-> ite.passed + 1, offset |-> ite.offset + H!Bytes(entry),
                 seen |-> Append(ite.seen, [entry EXCEPT !.flag = flag])],
         UNCHANGED <<list, itemBytes, heap, taken>>
  PROVE  Walking(S)'
<1>1. PICK n \in Nat, p \in Nat : n = Len(list) /\ p = ite.passed
  BY SumsTyped DEF Walking
<1>2. PICK b \in Nat : b = H!Bytes(entry) /\ b > 0  BY DEF H!Bytes, IsEntry
<1>3. /\ ite'.passed = p + 1 /\ ite'.offset = ite.offset + b
      /\ ite'.seen = Append(ite.seen, [entry EXCEPT !.flag = flag])
  BY <1>1, <1>2
<1>4. /\ \A i \in 0 .. n : S[i] \in Nat
      /\ \A i \in 1 .. n : S[i] = S[i - 1] + H!Bytes(list[i])
      /\ taken = S[n]
  BY <1>1, SumsTyped DEF Sums
<1>5. ite.offset \in Nat /\ (p <= n => ite.offset = S[p]) /\ (p > n => ite.offset > taken)
  BY <1>1 DEF Walking
<1>6. p + 1 <= n => ite'.offset = S[p + 1]
  <2> SUFFICES ASSUME p + 1 <= n PROVE ite'.offset = S[p + 1]  OBVIOUS
  <2>1. p + 1 \in 1 .. n /\ (p + 1) - 1 = p /\ p <= n /\ p < n  BY <1>1
  <2>2. b = H!Bytes(list[p + 1])  BY <1>1, <1>2, <2>1
  <2> QED BY <1>3, <1>4, <1>5, <2>1, <2>2
<1>7. p + 1 > n => ite'.offset > taken
  <2> SUFFICES ASSUME p + 1 > n PROVE ite'.offset > taken  OBVIOUS
  <2>1. taken \in Nat /\ ite.offset >= taken
    <3>1. n \in 0 .. n  BY <1>1
    <3>2. taken \in Nat  BY <1>4, <3>1
    <3>3. CASE p = n  BY <1>1, <1>4, <1>5, <3>2, <3>3
    <3>4. CASE p > n  BY <1>5, <3>2, <3>4
    <3> QED BY <1>1, <3>2, <3>3, <3>4
  <2> QED BY <1>2, <1>3, <1>5, <2>1
<1> DEFINE e == [entry EXCEPT !.flag = flag]
<1>8. IsEntry(e) /\ e.name = entry.name /\ e.length = entry.length  BY NewFlag
<1>9. ite'.seen = Append(ite.seen, e)  BY <1>3
<1> HIDE DEF e
<1>10. /\ IsList(ite.seen) /\ IsSequence(ite.seen) /\ Len(ite.seen) = p
       /\ \A i \in 1 .. n : i <= p => ite.seen[i].name = list[i].name /\ ite.seen[i].length = list[i].length
  BY <1>1 DEF Walking, IsList
<1>11. IsList(ite'.seen)  BY <1>8, <1>9, <1>10, EntryAppended
<1>12. Len(ite'.seen) = p + 1 /\ ite'.seen[p + 1] = e /\ \A i \in 1 .. p : ite'.seen[i] = ite.seen[i]
  BY <1>9, <1>10, Appended
<1>13. ASSUME NEW i \in 1 .. n, i <= p + 1
       PROVE  ite'.seen[i].name = list[i].name /\ ite'.seen[i].length = list[i].length
  <2>1. CASE i = p + 1
    <3>1. ite.passed < Len(list) /\ entry = list[i]  BY <1>1, <2>1
    <3> QED BY <1>8, <1>12, <2>1, <3>1
  <2>2. CASE i \in 1 .. p  BY <1>10, <1>12, <2>2
  <2>3. i \in 1 .. p \/ i = p + 1  BY <1>1, <1>13
  <2> QED BY <2>1, <2>2, <2>3
<1>14. ite'.offset \in Nat  BY <1>2, <1>3, <1>5
<1>15. ite'.passed \in Nat /\ n = Len(list')  BY <1>1, <1>3
<1> QED BY <1>1, <1>3, <1>4, <1>6, <1>7, <1>11, <1>12, <1>13, <1>14, <1>15 DEF Walking

LEMMA PopWalk == WalkInv /\ H!PopEntry => WalkInv'
<1> SUFFICES ASSUME WalkInv, H!PopEntry PROVE WalkInv'  OBVIOUS
<1>1. state = "received"  BY DEF H!PopEntry
<1>2. PICK S : Counted(S)  BY DEF WalkInv
<1>3. IsList(list) /\ OnTheWay /\ Filled /\ Sums(S) /\ Walking(S) /\ ite.offset < packet.contBytes
  BY <1>1, <1>2 DEF WalkInv, Counted, Walk
<1>4. PICK n \in Nat, p \in Nat : n = Len(list) /\ p = ite.passed
  BY <1>3, SumsTyped DEF Walking
<1>5. PICK c \in Int : /\ c = packet.contBytes /\ c = H!Space /\ taken <= c /\ taken \in Nat
                       /\ (H!Fits <=> c = taken)
  BY <1>1, <1>3, SizeOfPacket DEF Filled, H!Space
<1>6. PICK entry \in H!Entry, flag \in Flags :
        LET offset == ite.offset + H!Bytes(entry)
        IN IF entry.length >= H!MAX_PACKET_ENTRY_LEN THEN H!Exit("entry is too long")
           ELSE IF offset > packet.contBytes THEN H!Exit("something wrong")
           ELSE /\ ite' = [passed |-> ite.passed + 1, offset |-> offset,
                           seen |-> Append(ite.seen, [entry EXCEPT !.flag = flag])]
                /\ state' = IF offset = packet.contBytes THEN "walked" ELSE "received"
                /\ UNCHANGED <<list, itemBytes, heap, taken, packet>>
  BY DEF H!PopEntry
<1>7. IsEntry(entry) /\ (p < n => entry = list[p + 1])
  <2>1. packet.entries = list  BY <1>1, <1>3 DEF Filled
  <2>2. CASE p < n
    <3>1. entry = list[p + 1] /\ p + 1 \in 1 .. n  BY <1>4, <2>1, <2>2 DEF H!Entry
    <3> QED BY <1>3, <1>4, <3>1 DEF IsList
  <2>3. CASE ~(p < n)
    <3>1. entry \in [name : {""}, length : 0 .. H!MAX_PACKET_ENTRY_LEN, flag : Flags]
      BY <1>4, <1>6, <2>1, <2>3 DEF H!Entry
    <3>2. entry = [name |-> entry.name, length |-> entry.length, flag |-> entry.flag]
      BY <3>1
    <3>3. entry.length \in Nat
      <4>1. entry.length \in 0 .. H!MAX_PACKET_ENTRY_LEN  BY <3>1
      <4> QED BY <4>1
    <3>4. IsEntry(entry)  BY <3>2, <3>3 DEF IsEntry
    <3> QED BY <2>3, <3>4
  <2> QED BY <2>2, <2>3
<1>8. PICK b \in Nat : b = H!Bytes(entry) /\ b > 0  BY <1>7 DEF H!Bytes, IsEntry
<1>9. ite.offset \in Nat /\ (p <= n => ite.offset = S[p]) /\ (p > n => ite.offset > taken)
  BY <1>3, <1>4 DEF Walking
<1>10. CASE H!Exit("entry is too long")  BY <1>10, ExitWalk
<1>11. CASE H!Exit("something wrong") /\ ite.offset + b > c
  <2>1. ~H!Fits
    <3> SUFFICES ASSUME c = taken PROVE FALSE  BY <1>5
    <3>1. n \in 0 .. n /\ S[n] = taken /\ \A i, j \in 0 .. n : i < j => S[i] < S[j]
      BY <1>3, <1>4 DEF Sums
    <3>2. p < n
      <4>1. CASE p = n  BY <1>3, <1>4, <1>5, <1>9, <3>1, <4>1
      <4>2. CASE p > n  BY <1>3, <1>5, <1>9, <4>2
      <4> QED BY <1>4, <4>1, <4>2
    <3>3. p + 1 \in 1 .. n /\ p + 1 \in 0 .. n /\ (p + 1) - 1 = p /\ p <= n  BY <1>4, <3>2
    <3>4. S[p + 1] = S[p] + b /\ S[p + 1] \in Nat /\ S[p] = ite.offset
      BY <1>3, <1>4, <1>7, <1>8, <1>9, <3>2, <3>3 DEF Sums
    <3>5. S[p + 1] <= taken
      <4>1. CASE p + 1 = n  BY <1>5, <3>1, <4>1
      <4>2. CASE p + 1 < n  BY <1>5, <3>1, <3>3, <3>4, <4>2
      <4> QED BY <1>4, <3>3, <4>1, <4>2
    <3>6. S[p + 1] > c /\ S[p + 1] <= c  BY <1>11, <3>4, <3>5
    <3> QED BY <1>5, <3>4, <3>6
  <2> QED BY <1>11, <2>1, ExitWalk
<1>12. CASE ~H!Exit("entry is too long") /\ ~(H!Exit("something wrong") /\ ite.offset + b > c)
  <2>1. /\ ite' = [passed |-> ite.passed + 1, offset |-> ite.offset + H!Bytes(entry),
                   seen |-> Append(ite.seen, [entry EXCEPT !.flag = flag])]
        /\ state' = IF ite.offset + b = c THEN "walked" ELSE "received"
        /\ UNCHANGED <<list, itemBytes, heap, taken, packet>> /\ ite.offset + b <= c
    <3>1. H!Bytes(entry) = b /\ packet.contBytes = c /\ ite.offset + b \in Int  BY <1>5, <1>8, <1>9
    <3>2. ~(ite.offset + b > c)
      <4> SUFFICES ASSUME ite.offset + b > c PROVE FALSE  OBVIOUS
      <4> QED BY <1>6, <1>12, <3>1
    <3>3. ite.offset + b <= c  BY <1>5, <3>1, <3>2
    <3> QED BY <1>6, <1>12, <3>1, <3>2, <3>3
  <2>2. Walking(S)'
    <3>1. ite.passed < Len(list) => entry = list[ite.passed + 1]  BY <1>4, <1>7
    <3> QED BY <1>1, <1>3, <1>7, <2>1, <3>1, PassedWalk
  <2>3. Sums(S)'  BY <1>3, <2>1 DEF Sums
  <2>4. ite'.offset = ite.offset + b /\ packet'.contBytes = c  BY <1>5, <1>8, <2>1
  <2>5. /\ state' = "received" => ite'.offset < packet'.contBytes
        /\ state' = "walked" => ite'.offset = packet'.contBytes
        /\ state' \in {"received", "walked"}
    <3>1. ite.offset + b \in Int /\ c \in Int  BY <1>5, <1>8, <1>9
    <3>2. CASE ite.offset + b = c  BY <2>1, <2>4, <3>2
    <3>3. CASE ite.offset + b < c  BY <2>1, <2>4, <3>1, <3>3
    <3> QED BY <2>1, <3>1, <3>2, <3>3
  <2>6. Walk(S)'  BY <2>2, <2>5 DEF Walk
  <2>7. OnTheWay' /\ Filled'  BY <1>1, <1>3, <2>1, <2>5 DEF OnTheWay, Filled
  <2> QED BY <1>3, <2>1, <2>3, <2>6, <2>7 DEF WalkInv, Counted
<1> QED BY <1>10, <1>11, <1>12

\* A walk that has come to the end of the packet has passed the whole list, and nothing
\* else exactly when the size fits.
LEMMA WalkedAll ==
  ASSUME NEW S, IsList(list), Sums(S), Walking(S), Filled, state \in {"walked", "synced"},
         ite.offset = packet.contBytes
  PROVE  /\ Len(ite.seen) \in Nat /\ Len(list) \in Nat /\ Len(ite.seen) >= Len(list)
         /\ DOMAIN ite.seen = 1 .. Len(ite.seen) /\ DOMAIN list = 1 .. Len(list)
         /\ \A i \in 1 .. Len(list) : ite.seen[i].name = list[i].name /\ ite.seen[i].length = list[i].length
         /\ H!Fits <=> Len(ite.seen) = Len(list)
<1>1. PICK n \in Nat, p \in Nat : n = Len(list) /\ p = ite.passed /\ p = Len(ite.seen)
  BY SumsTyped DEF Walking
<1>2. PICK c \in Int : /\ c = packet.contBytes /\ taken <= c /\ taken \in Nat
                       /\ (H!Fits <=> c = taken)
  BY SizeOfPacket DEF Filled, H!Space
<1>3. /\ n \in 0 .. n /\ S[n] = taken /\ \A i, j \in 0 .. n : i < j => S[i] < S[j]
      /\ \A i \in 0 .. n : S[i] \in Nat
  BY <1>1, SumsTyped DEF Sums
<1>4. (p <= n => c = S[p]) /\ (p > n => c > taken)
  BY <1>1, <1>2 DEF Walking
<1>5. p >= n
  <2> SUFFICES ASSUME p < n PROVE FALSE  BY <1>1
  <2>1. p \in 0 .. n /\ S[p] < S[n] /\ S[p] \in Nat  BY <1>1, <1>3
  <2> QED BY <1>2, <1>3, <1>4, <2>1
<1>6. H!Fits <=> p = n
  <2>1. CASE p = n  BY <1>2, <1>3, <1>4, <2>1
  <2>2. CASE p > n  BY <1>2, <1>4, <2>2
  <2> QED BY <1>1, <1>5, <2>1, <2>2
<1>7. IsSequence(list) /\ IsSequence(ite.seen)  BY DEF Walking, IsList
<1>8. \A i \in 1 .. n : ite.seen[i].name = list[i].name /\ ite.seen[i].length = list[i].length
  BY <1>1, <1>5 DEF Walking
<1> QED BY <1>1, <1>5, <1>6, <1>7, <1>8, SequenceFacts

LEMMA SyncWalk == WalkInv /\ H!FlagSync => WalkInv'
<1> SUFFICES ASSUME WalkInv, H!FlagSync PROVE WalkInv'  OBVIOUS
<1>1. PICK S : Counted(S)  BY DEF WalkInv
<1>2. state = "walked"  BY DEF H!FlagSync
<1>3. IsList(list) /\ OnTheWay /\ Filled /\ Sums(S) /\ Walking(S) /\ ite.offset = packet.contBytes
  BY <1>1, <1>2 DEF WalkInv, Counted, Walk
<1>4. PICK n \in Nat, p \in Nat : n = Len(list) /\ DOMAIN list = 1 .. n /\ n > 0 /\ p = Len(ite.seen) /\ p >= n
  BY <1>2, <1>3, WalkedAll, SequenceFacts DEF IsList, OnTheWay
<1>5. /\ DOMAIN ite.seen = 1 .. p
      /\ \A i \in 1 .. n : ite.seen[i].name = list[i].name /\ ite.seen[i].length = list[i].length
  BY <1>2, <1>3, <1>4, WalkedAll
<1>6. /\ list' = [i \in DOMAIN list |-> [list[i] EXCEPT !.flag = ite.seen[i].flag]]
      /\ UNCHANGED <<itemBytes, heap, taken, packet, ite>> /\ state' = "synced"
  <2>1. ~\E i \in DOMAIN list : i \notin DOMAIN ite.seen \/ ite.seen[i].name # list[i].name
    BY <1>4, <1>5
  <2> QED BY <2>1 DEF H!FlagSync
<1> DEFINE f(i) == [list[i] EXCEPT !.flag = ite.seen[i].flag]
<1>7. list' = [i \in 1 .. n |-> f(i)]  BY <1>4, <1>6
<1>8. \A i \in 1 .. n : /\ IsEntry(f(i)) /\ f(i).name = list[i].name /\ f(i).length = list[i].length
                        /\ f(i).flag = ite.seen[i].flag
  <2> SUFFICES ASSUME NEW i \in 1 .. n
               PROVE  /\ IsEntry(f(i)) /\ f(i).name = list[i].name /\ f(i).length = list[i].length
                      /\ f(i).flag = ite.seen[i].flag
    BY Zenon
  <2>1. IsEntry(list[i])  BY <1>3, <1>4 DEF IsList
  <2> QED BY <2>1, NewFlag
<1> HIDE DEF f
<1>9. list' = [i \in 1 .. n |-> list'[i]] /\ \A i \in 1 .. n : list'[i] = f(i)  BY <1>7
<1>10. IsSequence(list') /\ Len(list') = n /\ \A i \in 1 .. n : list'[i] = f(i)
  BY <1>9, BuiltSequence
<1>11. IsList(list')  BY <1>8, <1>10 DEF IsList
<1>12. list' # <<>>  BY <1>4, <1>10
<1>13. Sums(S)'
  <2>1. \A i \in 1 .. n : H!Bytes(list'[i]) = H!Bytes(list[i])  BY <1>8, <1>10 DEF H!Bytes
  <2> QED BY <1>3, <1>4, <1>6, <1>10, <2>1 DEF Sums
<1>14. Walking(S)'
  <2>1. \A i \in 1 .. n : ite.seen[i].name = list'[i].name /\ ite.seen[i].length = list'[i].length
    BY <1>5, <1>8, <1>10
  <2> QED BY <1>3, <1>4, <1>6, <1>10, <2>1 DEF Walking
<1>15. ASSUME NEW i \in 1 .. n PROVE list'[i] = ite.seen[i]
  <2>1. IsEntry(f(i)) /\ IsEntry(ite.seen[i])
    <3>1. i \in 1 .. p  BY <1>4
    <3> QED BY <1>3, <1>4, <1>8, <3>1 DEF IsList, Walking
  <2>2. /\ f(i).name = ite.seen[i].name /\ f(i).length = ite.seen[i].length
        /\ f(i).flag = ite.seen[i].flag
    BY <1>5, <1>8
  <2> QED BY <1>10, <2>1, <2>2 DEF IsEntry
<1>16. Synced'  BY <1>4, <1>6, <1>10, <1>15 DEF Synced
<1>17. Walk(S)'  BY <1>3, <1>6, <1>14, <1>16 DEF Walk
<1> QED BY <1>2, <1>3, <1>6, <1>11, <1>12, <1>13, <1>17 DEF WalkInv, Counted, OnTheWay, Filled

LEMMA StillWalk == WalkInv /\ UNCHANGED ring => WalkInv'
<1> SUFFICES ASSUME WalkInv, UNCHANGED ring PROVE WalkInv'  OBVIOUS
<1>1. UNCHANGED <<list, itemBytes, heap, taken, packet, ite, state>>  BY DEF ring
<1>2. PICK S : Counted(S)  BY DEF WalkInv
<1>3. Sums(S)'  BY <1>1, <1>2 DEF Counted, Sums
<1>4. H!Fits' <=> H!Fits  BY <1>1 DEF H!Fits
<1>5. Walk(S)'  BY <1>1, <1>2, <1>4 DEF Counted, Walk, Walking, Synced
<1> QED BY <1>1, <1>3, <1>5 DEF WalkInv, Counted, OnTheWay, Filled

LEMMA StepWalk == WalkInv /\ [Next]_vars => WalkInv'
<1> SUFFICES ASSUME WalkInv, [Next]_vars PROVE WalkInv'  OBVIOUS
<1>1. CASE Parse
  <2>1. CASE UNCHANGED ring  BY <2>1, StillWalk
  <2>2. CASE H!PushEntry(Last(hostlist').name, Length(Last(hostlist').name), Last(hostlist').flag)
    <3>1. Length(Last(hostlist').name) \in Nat  BY LengthTyped
    <3> QED BY <2>2, <3>1, PushWalk
  <2> QED BY <1>1, <2>1, <2>2 DEF Parse
<1>2. CASE RoundTrip
  BY <1>2, FillWalk, HeaderWalk, PopWalk, SyncWalk DEF RoundTrip, H!RoundTrip
<1>3. CASE Ended \/ UNCHANGED vars  BY <1>3, StillWalk DEF Ended, vars
<1> QED BY <1>1, <1>2, <1>3 DEF Next

\* For every list of hosts, every length of their names and whatever the heap held where
\* itemBytes lies: a client that accepts the packet walks through the entries packetfill()
\* has written, all of them, and through nothing else exactly when the size fits; no size
\* that fits is refused; and once the packet is back the server's list has the flags the
\* ring has set.  From the bytes push() counts, those that overwrite the end mark, and
\* those pop_entry() passes (List.cpp:44-111, Packet.cpp:103-116, 421-454).
THEOREM WalksThroughTheList == Spec => [](WalkMatchesFill /\ (state = "synced" => Synced))
<1> DEFINE Good == WalkMatchesFill /\ (state = "synced" => Synced)
<1>1. Init => WalkInv  BY InitWalk
<1>2. WalkInv /\ [Next]_vars => WalkInv'  BY StepWalk
<1>3. WalkInv => Good
  <2> SUFFICES ASSUME WalkInv PROVE Good  OBVIOUS
  <2>1. PICK S : Sums(S) /\ Walk(S)  BY DEF WalkInv, Counted
  <2>2. ASSUME state \in {"walked", "synced"}
        PROVE  /\ Len(ite.seen) >= Len(list)
               /\ H!Fits <=> Len(ite.seen) = Len(list)
               /\ \A i \in DOMAIN list : ite.seen[i].name = list[i].name /\ ite.seen[i].length = list[i].length
    <3>1. IsList(list) /\ Filled /\ Walking(S) /\ ite.offset = packet.contBytes
      BY <2>1, <2>2 DEF WalkInv, Walk
    <3> QED BY <2>1, <2>2, <3>1, WalkedAll
  <2>3. WalkMatchesFill
    <3>1. state # "RING information isnot agree"  BY <2>1 DEF Walk
    <3>2. H!Fits => state \notin {"memory", "trailer is wrong", "something wrong"}  BY <2>1 DEF Walk
    <3> QED BY <2>2, <3>1, <3>2 DEF WalkMatchesFill, H!WalkMatchesFill
  <2> QED BY <2>1, <2>3 DEF Walk
<1> QED BY <1>1, <1>2, <1>3, PTL DEF Spec

-----------------------------------------------------------------------------
(***************************************************************************)
(* Sequences that are joined, cut and changed at one place.                *)
(***************************************************************************)
LEMMA Joined ==
  ASSUME NEW a, IsSequence(a), NEW b, IsSequence(b)
  PROVE  /\ IsSequence(a \o b) /\ Len(a \o b) = Len(a) + Len(b)
         /\ \A i \in 1 .. Len(a) : (a \o b)[i] = a[i]
         /\ \A i \in 1 .. Len(b) : (a \o b)[Len(a) + i] = b[i]
<1>1. PICK S : a \in Seq(S)  BY DEF IsSequence
<1>2. PICK R : b \in Seq(R)  BY DEF IsSequence
<1>3. a \in Seq(S \cup R) /\ b \in Seq(S \cup R)  BY <1>1, <1>2
<1>4. /\ a \o b \in Seq(S \cup R) /\ Len(a \o b) = Len(a) + Len(b)
      /\ \A i \in 1 .. Len(a) : (a \o b)[i] = a[i]
      /\ \A i \in 1 .. Len(b) : (a \o b)[Len(a) + i] = b[i]
  BY <1>3
<1> QED BY <1>4 DEF IsSequence

LEMMA CutOut ==
  ASSUME NEW a, IsSequence(a), NEW m \in 1 .. Len(a) + 1, NEW n \in 0 .. Len(a), m <= n + 1
  PROVE  /\ IsSequence(SubSeq(a, m, n)) /\ Len(SubSeq(a, m, n)) = n - m + 1
         /\ \A i \in 1 .. n - m + 1 : SubSeq(a, m, n)[i] = a[m + i - 1]
<1>1. PICK S : a \in Seq(S)  BY DEF IsSequence
<1>2. /\ SubSeq(a, m, n) \in Seq(S) /\ Len(SubSeq(a, m, n)) = n - m + 1
      /\ \A i \in 1 .. n - m + 1 : SubSeq(a, m, n)[i] = a[m + i - 1]
  BY <1>1
<1> QED BY <1>2 DEF IsSequence

LEMMA Single ==
  ASSUME NEW e
  PROVE  IsSequence(<<e>>) /\ Len(<<e>>) = 1 /\ <<e>>[1] = e
<1>1. <<e>> \in Seq({e}) /\ Len(<<e>>) = 1 /\ <<e>>[1] = e  OBVIOUS
<1> QED BY <1>1 DEF IsSequence

LEMMA Inserted ==
  ASSUME NEW a, IsSequence(a), NEW i \in 1 .. Len(a), NEW e
  PROVE  /\ IsSequence(C!InsertAt(a, i, e)) /\ Len(C!InsertAt(a, i, e)) = Len(a) + 1
         /\ C!InsertAt(a, i, e)[i] = e
         /\ \A j \in 1 .. i - 1 : C!InsertAt(a, i, e)[j] = a[j]
         /\ \A j \in i + 1 .. Len(a) + 1 : C!InsertAt(a, i, e)[j] = a[j - 1]
<1> DEFINE x == SubSeq(a, 1, i - 1)
           z == SubSeq(a, i, Len(a))
<1>1. PICK n \in Nat : n = Len(a)  BY SequenceFacts, Zenon
<1>2. IsSequence(x) /\ Len(x) = i - 1 /\ \A j \in 1 .. i - 1 : x[j] = a[j]
  <2>1. 1 \in 1 .. n + 1 /\ i - 1 \in 0 .. n /\ 1 <= (i - 1) + 1 /\ (i - 1) - 1 + 1 = i - 1  BY <1>1
  <2>2. /\ IsSequence(x) /\ Len(x) = (i - 1) - 1 + 1
        /\ \A j \in 1 .. (i - 1) - 1 + 1 : x[j] = a[1 + j - 1]
    BY <1>1, <2>1, CutOut, Zenon
  <2>3. \A j \in 1 .. i - 1 : 1 + j - 1 = j  OBVIOUS
  <2> QED BY <2>1, <2>2, <2>3
<1>3. IsSequence(z) /\ Len(z) = n - i + 1 /\ \A j \in 1 .. n - i + 1 : z[j] = a[i + j - 1]
  <2>1. i \in 1 .. n + 1 /\ n \in 0 .. n /\ i <= n + 1  BY <1>1
  <2> QED BY <1>1, <2>1, CutOut, Zenon
<1> HIDE DEF x, z
<1>4. IsSequence(<<e>>) /\ Len(<<e>>) = 1 /\ <<e>>[1] = e  BY Single
<1>5. /\ IsSequence(x \o <<e>>) /\ Len(x \o <<e>>) = i
      /\ \A j \in 1 .. i - 1 : (x \o <<e>>)[j] = a[j]
      /\ (x \o <<e>>)[i] = e
  <2>1. IsSequence(x) /\ IsSequence(<<e>>)  BY <1>2, <1>4
  <2>2. /\ IsSequence(x \o <<e>>) /\ Len(x \o <<e>>) = Len(x) + Len(<<e>>)
        /\ \A j \in 1 .. Len(x) : (x \o <<e>>)[j] = x[j]
        /\ \A j \in 1 .. Len(<<e>>) : (x \o <<e>>)[Len(x) + j] = <<e>>[j]
    BY <2>1, Joined
  <2>3. Len(x) = i - 1 /\ Len(<<e>>) = 1 /\ i - 1 \in Nat  BY <1>1, <1>2, <1>4
  <2>4. (x \o <<e>>)[(i - 1) + 1] = e  BY <1>4, <2>2, <2>3
  <2>5. Len(x \o <<e>>) = i  BY <2>2, <2>3
  <2>6. \A j \in 1 .. i - 1 : (x \o <<e>>)[j] = a[j]  BY <1>2, <2>2, <2>3
  <2>7. (x \o <<e>>)[i] = e
    <3>1. (i - 1) + 1 = i  OBVIOUS
    <3> QED BY <2>4, <3>1
  <2> QED BY <2>2, <2>5, <2>6, <2>7
<1>6. PICK y : y = x \o <<e>>  OBVIOUS
<1>7. /\ IsSequence(y \o z) /\ Len(y \o z) = i + (n - i + 1)
      /\ \A j \in 1 .. i : (y \o z)[j] = y[j]
      /\ \A j \in 1 .. n - i + 1 : (y \o z)[i + j] = z[j]
  <2>1. IsSequence(y) /\ IsSequence(z)  BY <1>3, <1>5, <1>6
  <2>2. /\ IsSequence(y \o z) /\ Len(y \o z) = Len(y) + Len(z)
        /\ \A j \in 1 .. Len(y) : (y \o z)[j] = y[j]
        /\ \A j \in 1 .. Len(z) : (y \o z)[Len(y) + j] = z[j]
    BY <2>1, Joined
  <2>3. Len(y) = i /\ Len(z) = n - i + 1  BY <1>3, <1>5, <1>6
  <2> QED BY <2>2, <2>3
<1>8. C!InsertAt(a, i, e) = y \o z  BY <1>6 DEF C!InsertAt, x, z
<1>9. (y \o z)[i] = e /\ \A j \in 1 .. i - 1 : (y \o z)[j] = a[j]  BY <1>5, <1>6, <1>7
<1>10. ASSUME NEW j \in i + 1 .. n + 1 PROVE (y \o z)[j] = a[j - 1]
  <2> DEFINE k == j - i
  <2>1. k \in 1 .. n - i + 1 /\ i + k = j /\ i + k - 1 = j - 1  BY <1>1
  <2>2. (y \o z)[i + k] = a[i + k - 1]  BY <1>3, <1>7, <2>1
  <2> QED BY <2>1, <2>2
<1>11. Len(y \o z) = n + 1  BY <1>1, <1>7
<1> QED BY <1>1, <1>7, <1>8, <1>9, <1>10, <1>11, Zenon

LEMMA Removed ==
  ASSUME NEW a, IsSequence(a), NEW i \in 1 .. Len(a)
  PROVE  /\ IsSequence(C!RemoveAt(a, i)) /\ Len(C!RemoveAt(a, i)) = Len(a) - 1
         /\ \A j \in 1 .. i - 1 : C!RemoveAt(a, i)[j] = a[j]
         /\ \A j \in i .. Len(a) - 1 : C!RemoveAt(a, i)[j] = a[j + 1]
<1> DEFINE x == SubSeq(a, 1, i - 1)
           z == SubSeq(a, i + 1, Len(a))
<1>1. PICK n \in Nat : n = Len(a)  BY SequenceFacts, Zenon
<1>2. IsSequence(x) /\ Len(x) = i - 1 /\ \A j \in 1 .. i - 1 : x[j] = a[j]
  <2>1. 1 \in 1 .. n + 1 /\ i - 1 \in 0 .. n /\ 1 <= (i - 1) + 1 /\ (i - 1) - 1 + 1 = i - 1  BY <1>1
  <2>2. /\ IsSequence(x) /\ Len(x) = (i - 1) - 1 + 1
        /\ \A j \in 1 .. (i - 1) - 1 + 1 : x[j] = a[1 + j - 1]
    BY <1>1, <2>1, CutOut, Zenon
  <2>3. \A j \in 1 .. i - 1 : 1 + j - 1 = j  OBVIOUS
  <2> QED BY <2>1, <2>2, <2>3
<1>3. IsSequence(z) /\ Len(z) = n - i /\ \A j \in 1 .. n - i : z[j] = a[i + j]
  <2>1. i + 1 \in 1 .. n + 1 /\ n \in 0 .. n /\ i + 1 <= n + 1 /\ n - (i + 1) + 1 = n - i  BY <1>1
  <2>2. /\ IsSequence(z) /\ Len(z) = n - (i + 1) + 1
        /\ \A j \in 1 .. n - (i + 1) + 1 : z[j] = a[(i + 1) + j - 1]
    BY <1>1, <2>1, CutOut, Zenon
  <2>3. \A j \in 1 .. n - i : (i + 1) + j - 1 = i + j  OBVIOUS
  <2> QED BY <2>1, <2>2, <2>3
<1> HIDE DEF x, z
<1>4. /\ IsSequence(x \o z) /\ Len(x \o z) = (i - 1) + (n - i)
      /\ \A j \in 1 .. i - 1 : (x \o z)[j] = x[j]
      /\ \A j \in 1 .. n - i : (x \o z)[(i - 1) + j] = z[j]
  <2>1. IsSequence(x) /\ IsSequence(z)  BY <1>2, <1>3
  <2>2. /\ IsSequence(x \o z) /\ Len(x \o z) = Len(x) + Len(z)
        /\ \A j \in 1 .. Len(x) : (x \o z)[j] = x[j]
        /\ \A j \in 1 .. Len(z) : (x \o z)[Len(x) + j] = z[j]
    BY <2>1, Joined
  <2>3. Len(x) = i - 1 /\ Len(z) = n - i  BY <1>2, <1>3
  <2> QED BY <2>2, <2>3
<1>5. C!RemoveAt(a, i) = x \o z  BY DEF C!RemoveAt, x, z
<1>6. ASSUME NEW j \in i .. n - 1 PROVE (x \o z)[j] = a[j + 1]
  <2> DEFINE k == j - (i - 1)
  <2>1. k \in 1 .. n - i /\ (i - 1) + k = j /\ i + k = j + 1  BY <1>1
  <2>2. (x \o z)[(i - 1) + k] = a[i + k]  BY <1>3, <1>4, <2>1
  <2> QED BY <2>1, <2>2
<1>7. \A j \in 1 .. i - 1 : (x \o z)[j] = a[j]  BY <1>2, <1>4
<1>8. Len(x \o z) = n - 1  BY <1>1, <1>4
<1> QED BY <1>1, <1>4, <1>5, <1>6, <1>7, <1>8, Zenon

LEMMA Replaced ==
  ASSUME NEW a, IsSequence(a), NEW i \in 1 .. Len(a), NEW e
  PROVE  /\ IsSequence(C!ReplaceAt(a, i, e)) /\ Len(C!ReplaceAt(a, i, e)) = Len(a)
         /\ C!ReplaceAt(a, i, e)[i] = e
         /\ \A j \in 1 .. Len(a) : j # i => C!ReplaceAt(a, i, e)[j] = a[j]
<1>1. PICK S : a \in Seq(S)  BY DEF IsSequence
<1> DEFINE b == [a EXCEPT ![i] = e]
<1>2. DOMAIN a = 1 .. Len(a) /\ Len(a) \in Nat  BY <1>1
<1>3. PICK n \in Nat : n = Len(a)  BY <1>2
<1>4. b \in [1 .. n -> S \cup {e}] /\ b[i] = e /\ \A j \in 1 .. n : j # i => b[j] = a[j]
  BY <1>1, <1>2, <1>3
<1> HIDE DEF b
<1>6. b \in Seq(S \cup {e}) /\ Len(b) = n  BY <1>4
<1>5. C!ReplaceAt(a, i, e) = b  BY DEF C!ReplaceAt, b
<1> QED BY <1>3, <1>4, <1>5, <1>6 DEF IsSequence

-----------------------------------------------------------------------------
(***************************************************************************)
(* check_filename(): which of the suffixes a name ends in, and the filters *)
(* its flag asks for.                                                      *)
(***************************************************************************)
Part == {"gz", "Z", "bz2", "tar", "cpio"}
EndsIn(name, e) == name # <<>> /\ name[Len(name)] = e
EndsInBoth(name, d, e) == EndsIn(name, e) /\ Len(name) > 1 /\ name[Len(name) - 1] = d

LEMMA PrefixOf ==
  ASSUME NEW s \in Seq(Part), NEW t \in Seq(Part)
  PROVE  C!IsPrefix(s, t) <=> Len(s) <= Len(t) /\ \A i \in 1 .. Len(s) : s[i] = t[i]
<1>1. CASE Len(s) > Len(t)  BY <1>1 DEF C!IsPrefix
<1>2. CASE Len(s) <= Len(t)
  <2> DEFINE a == SubSeq(s, 1, Len(s))
             b == SubSeq(t, 1, Len(s))
  <2>1. a \in Seq(Part) /\ Len(a) = Len(s) /\ \A i \in 1 .. Len(s) : a[i] = s[i]  OBVIOUS
  <2>2. b \in Seq(Part) /\ Len(b) = Len(s) /\ \A i \in 1 .. Len(s) : b[i] = t[i]  BY <1>2
  <2> HIDE DEF a, b
  <2>3. a = b <=> \A i \in 1 .. Len(s) : s[i] = t[i]  BY <2>1, <2>2
  <2> QED BY <1>2, <2>3 DEF C!IsPrefix, a, b
<1> QED BY <1>1, <1>2

LEMMA Reversed ==
  ASSUME NEW s \in Seq(Part)
  PROVE  /\ C!Reverse(s) \in Seq(Part) /\ Len(C!Reverse(s)) = Len(s)
         /\ \A i \in 1 .. Len(s) : C!Reverse(s)[i] = s[Len(s) - i + 1]
BY DEF C!Reverse

LEMMA SuffixOfOne ==
  ASSUME NEW name \in Seq(Part), NEW e \in Part
  PROVE  C!IsSuffix(<<e>>, name) <=> EndsIn(name, e)
<1>0. <<e>> \in Seq(Part) /\ Len(<<e>>) = 1 /\ <<e>>[1] = e  OBVIOUS
<1>1. PICK s \in Seq(Part) : s = <<e>> /\ Len(s) = 1 /\ s[1] = e  BY <1>0, Zenon
<1>2. PICK r \in Seq(Part) : r = C!Reverse(s) /\ Len(r) = 1 /\ r[1] = e
  <2>1. /\ C!Reverse(s) \in Seq(Part) /\ Len(C!Reverse(s)) = 1
        /\ \A i \in 1 .. 1 : C!Reverse(s)[i] = s[1 - i + 1]
    BY <1>1, Reversed
  <2>2. C!Reverse(s)[1] = e  BY <1>1, <2>1
  <2> QED BY <2>1, <2>2
<1>3. C!IsSuffix(<<e>>, name) <=> 1 <= Len(name) /\ e = C!Reverse(name)[1]
  <2>1. PICK t \in Seq(Part) : t = C!Reverse(name) /\ Len(t) = Len(name)  BY Reversed
  <2>2. C!IsPrefix(r, t) <=> Len(r) <= Len(t) /\ \A i \in 1 .. Len(r) : r[i] = t[i]
    BY PrefixOf
  <2>3. C!IsPrefix(r, t) <=> 1 <= Len(t) /\ e = t[1]  BY <1>2, <2>2
  <2> QED BY <1>1, <1>2, <2>1, <2>3 DEF C!IsSuffix
<1>4. 1 <= Len(name) => C!Reverse(name)[1] = name[Len(name)]  BY Reversed
<1>5. 1 <= Len(name) <=> name # <<>>  OBVIOUS
<1> QED BY <1>3, <1>4, <1>5 DEF EndsIn

LEMMA SuffixOfTwo ==
  ASSUME NEW name \in Seq(Part), NEW d \in Part, NEW e \in Part
  PROVE  C!IsSuffix(<<d, e>>, name) <=> EndsInBoth(name, d, e)
<1>0. <<d, e>> \in Seq(Part) /\ Len(<<d, e>>) = 2 /\ <<d, e>>[1] = d /\ <<d, e>>[2] = e  OBVIOUS
<1>1. PICK s \in Seq(Part) : s = <<d, e>> /\ Len(s) = 2 /\ s[1] = d /\ s[2] = e  BY <1>0, Zenon
<1>2. PICK r \in Seq(Part) : r = C!Reverse(s) /\ Len(r) = 2 /\ r[1] = e /\ r[2] = d
  <2>1. /\ C!Reverse(s) \in Seq(Part) /\ Len(C!Reverse(s)) = 2
        /\ \A i \in 1 .. 2 : C!Reverse(s)[i] = s[2 - i + 1]
    BY <1>1, Reversed
  <2>2. C!Reverse(s)[1] = e /\ C!Reverse(s)[2] = d  BY <1>1, <2>1
  <2> QED BY <2>1, <2>2
<1>3. C!IsSuffix(<<d, e>>, name) <=> 2 <= Len(name) /\ e = C!Reverse(name)[1] /\ d = C!Reverse(name)[2]
  <2>1. PICK t \in Seq(Part) : t = C!Reverse(name) /\ Len(t) = Len(name)  BY Reversed
  <2>2. C!IsPrefix(r, t) <=> Len(r) <= Len(t) /\ \A i \in 1 .. Len(r) : r[i] = t[i]
    BY PrefixOf
  <2>3. C!IsPrefix(r, t) <=> 2 <= Len(t) /\ e = t[1] /\ d = t[2]  BY <1>2, <2>2
  <2> QED BY <1>1, <1>2, <2>1, <2>3 DEF C!IsSuffix
<1>4. 2 <= Len(name) => C!Reverse(name)[1] = name[Len(name)] /\ C!Reverse(name)[2] = name[Len(name) - 1]
  BY Reversed
<1>5. 2 <= Len(name) => name # <<>>  OBVIOUS
<1> QED BY <1>3, <1>4, <1>5 DEF EndsIn, EndsInBoth

LEMMA WhatMatches ==
  ASSUME NEW name \in Seq(Part)
  PROVE  /\ C!Matching(name) \subseteq 5 .. 10
         /\ 5 \in C!Matching(name) <=> EndsInBoth(name, "tar", "gz")
         /\ 6 \in C!Matching(name) <=> EndsInBoth(name, "tar", "Z")
         /\ 7 \in C!Matching(name) <=> EndsIn(name, "cpio")
         /\ 8 \in C!Matching(name) <=> EndsIn(name, "tar")
         /\ 9 \in C!Matching(name) <=> EndsIn(name, "gz")
         /\ 10 \in C!Matching(name) <=> EndsIn(name, "Z")
<1> DEFINE K == C!KnownSuffixes
<1>1. DOMAIN K = 1 .. 10  BY DEF C!KnownSuffixes
<1>2. /\ K[1].ext = <<"cpio", "gz">> /\ K[1].chars = 11
      /\ K[2].ext = <<"bz2">> /\ K[2].chars = 10
      /\ K[3].ext = <<"tar", "bz2">> /\ K[3].chars = 9
      /\ K[4].ext = <<"cpio", "Z">> /\ K[4].chars = 8
      /\ K[5].ext = <<"tar", "gz">> /\ K[5].chars = 7
      /\ K[6].ext = <<"tar", "Z">> /\ K[6].chars = 6
      /\ K[7].ext = <<"cpio">> /\ K[7].chars = 5
      /\ K[8].ext = <<"tar">> /\ K[8].chars = 4
      /\ K[9].ext = <<"gz">> /\ K[9].chars = 3
      /\ K[10].ext = <<"Z">> /\ K[10].chars = 2
  BY DEF C!KnownSuffixes
<1>3. /\ C!Chars(<<"cpio", "gz">>) = 8 /\ C!Chars(<<"bz2">>) = 4 /\ C!Chars(<<"tar", "bz2">>) = 8
      /\ C!Chars(<<"cpio", "Z">>) = 7 /\ C!Chars(<<"tar", "gz">>) = 7 /\ C!Chars(<<"tar", "Z">>) = 6
      /\ C!Chars(<<"cpio">>) = 5 /\ C!Chars(<<"tar">>) = 4 /\ C!Chars(<<"gz">>) = 3 /\ C!Chars(<<"Z">>) = 2
  BY DEF C!Chars, C!CharsOf
<1>4. ASSUME NEW i \in 1 .. 10
      PROVE  i \in C!Matching(name) <=> K[i].chars = C!Chars(K[i].ext) /\ C!IsSuffix(K[i].ext, name)
  BY <1>1 DEF C!Matching, C!Matches
<1>5. C!Matching(name) \subseteq 1 .. 10  BY <1>1 DEF C!Matching
<1> HIDE DEF K
<1>6. ASSUME NEW i \in 1 .. 10, K[i].chars # C!Chars(K[i].ext) PROVE i \notin C!Matching(name)
  BY <1>4, <1>6
<1>7. C!Matching(name) \subseteq 5 .. 10
  <2>1. 1 \notin C!Matching(name)
    <3>1. K[1].chars # C!Chars(K[1].ext)  BY <1>2, <1>3
    <3> QED BY <1>6, <3>1
  <2>2. 2 \notin C!Matching(name)
    <3>1. K[2].chars # C!Chars(K[2].ext)  BY <1>2, <1>3
    <3> QED BY <1>6, <3>1
  <2>3. 3 \notin C!Matching(name)
    <3>1. K[3].chars # C!Chars(K[3].ext)  BY <1>2, <1>3
    <3> QED BY <1>6, <3>1
  <2>4. 4 \notin C!Matching(name)
    <3>1. K[4].chars # C!Chars(K[4].ext)  BY <1>2, <1>3
    <3> QED BY <1>6, <3>1
  <2> QED BY <1>5, <2>1, <2>2, <2>3, <2>4
<1>8. ASSUME NEW i \in 1 .. 10, NEW n, NEW ext, K[i].chars = n, K[i].ext = ext, C!Chars(ext) = n
      PROVE  i \in C!Matching(name) <=> C!IsSuffix(ext, name)
  BY <1>4, <1>8
<1>9. /\ 5 \in C!Matching(name) <=> C!IsSuffix(<<"tar", "gz">>, name)
      /\ 6 \in C!Matching(name) <=> C!IsSuffix(<<"tar", "Z">>, name)
      /\ 7 \in C!Matching(name) <=> C!IsSuffix(<<"cpio">>, name)
      /\ 8 \in C!Matching(name) <=> C!IsSuffix(<<"tar">>, name)
      /\ 9 \in C!Matching(name) <=> C!IsSuffix(<<"gz">>, name)
      /\ 10 \in C!Matching(name) <=> C!IsSuffix(<<"Z">>, name)
  <2>1. 5 \in 1 .. 10 /\ 6 \in 1 .. 10 /\ 7 \in 1 .. 10 /\ 8 \in 1 .. 10 /\ 9 \in 1 .. 10 /\ 10 \in 1 .. 10
    OBVIOUS
  <2>2. 5 \in C!Matching(name) <=> C!IsSuffix(<<"tar", "gz">>, name)  BY <1>2, <1>3, <1>8, <2>1, Zenon
  <2>3. 6 \in C!Matching(name) <=> C!IsSuffix(<<"tar", "Z">>, name)  BY <1>2, <1>3, <1>8, <2>1, Zenon
  <2>4. 7 \in C!Matching(name) <=> C!IsSuffix(<<"cpio">>, name)  BY <1>2, <1>3, <1>8, <2>1, Zenon
  <2>5. 8 \in C!Matching(name) <=> C!IsSuffix(<<"tar">>, name)  BY <1>2, <1>3, <1>8, <2>1, Zenon
  <2>6. 9 \in C!Matching(name) <=> C!IsSuffix(<<"gz">>, name)  BY <1>2, <1>3, <1>8, <2>1, Zenon
  <2>7. 10 \in C!Matching(name) <=> C!IsSuffix(<<"Z">>, name)  BY <1>2, <1>3, <1>8, <2>1, Zenon
  <2> QED BY <2>2, <2>3, <2>4, <2>5, <2>6, <2>7
<1> QED BY <1>7, <1>9, SuffixOfOne, SuffixOfTwo DEF Part

LEMMA FirstMatch ==
  ASSUME NEW name \in Seq(Part), NEW i \in 5 .. 10, i \in C!Matching(name),
         \A j \in 5 .. 10 : j < i => j \notin C!Matching(name)
  PROVE  C!CheckFilename(name) = C!KnownSuffixes[i].flag
<1>1. C!Matching(name) \subseteq 5 .. 10  BY WhatMatches
<1>2. \A j \in C!Matching(name) : i =< j  BY <1>1
<1>3. C!Min(C!Matching(name)) = i
  <2>1. \A m \in C!Matching(name) : (\A j \in C!Matching(name) : m =< j) => m = i  BY <1>1, <1>2
  <2> QED BY <1>2, <2>1 DEF C!Min
<1> QED BY <1>3 DEF C!CheckFilename

LEMMA TwoParts == \A a, b : <<a>> \o <<b>> = <<a, b>>
<1> SUFFICES ASSUME NEW a, NEW b PROVE <<a>> \o <<b>> = <<a, b>>  OBVIOUS
<1> DEFINE T == {a, b}
<1>1. <<a>> \in Seq(T) /\ Len(<<a>>) = 1 /\ <<a>>[1] = a  OBVIOUS
<1>2. <<b>> \in Seq(T) /\ Len(<<b>>) = 1 /\ <<b>>[1] = b  OBVIOUS
<1>3. <<a, b>> \in Seq(T) /\ Len(<<a, b>>) = 2 /\ <<a, b>>[1] = a /\ <<a, b>>[2] = b  OBVIOUS
<1> HIDE DEF T
<1>4. PICK s \in Seq(T), t \in Seq(T), u \in Seq(T) :
        /\ s = <<a>> /\ Len(s) = 1 /\ s[1] = a
        /\ t = <<b>> /\ Len(t) = 1 /\ t[1] = b
        /\ u = <<a, b>> /\ Len(u) = 2 /\ u[1] = a /\ u[2] = b
  BY <1>1, <1>2, <1>3, Zenon
<1>5. s \o t \in Seq(T) /\ Len(s \o t) = 2 /\ (s \o t)[1] = a /\ (s \o t)[2] = b  BY <1>4
<1>6. PICK v \in Seq(T) : v = s \o t /\ Len(v) = 2 /\ v[1] = a /\ v[2] = b  BY <1>5
<1>7. Len(u) = Len(v) /\ \A i \in 1 .. Len(v) : v[i] = u[i]
  <2>1. Len(u) = 2 /\ u[1] = a /\ u[2] = b /\ Len(v) = 2 /\ v[1] = a /\ v[2] = b  BY <1>4, <1>6, Zenon
  <2>2. \A i \in 1 .. 2 : i = 1 \/ i = 2  OBVIOUS
  <2> QED BY <2>1, <2>2
<1>8. u = v  BY <1>7
<1> QED BY <1>4, <1>6, <1>8

LEMMA Pipelines ==
  /\ C!Pipeline({}) = <<>> /\ C!Pipeline({2}) = <<"cpio">> /\ C!Pipeline({3}) = <<"tar">>
  /\ \A z \in {0, 1} : C!Pipeline({z}) = <<"zcat">> /\ C!Pipeline({3, z}) = <<"zcat", "tar">>
<1>1. /\ {} \cap {0, 1} = {} /\ {} \cap {2, 3} = {}
      /\ {2} \cap {0, 1} = {} /\ {2} \cap {2, 3} = {2}
      /\ {3} \cap {0, 1} = {} /\ {3} \cap {2, 3} = {3}
      /\ {} # {2} /\ {} # {3} /\ {2} # {3}
  <2>1. {} \cap {0, 1} = {} /\ {} \cap {2, 3} = {}  OBVIOUS
  <2>2. {2} \cap {0, 1} = {}  OBVIOUS
  <2>3. {2} \cap {2, 3} = {2}  OBVIOUS
  <2>4. {3} \cap {0, 1} = {}  OBVIOUS
  <2>5. {3} \cap {2, 3} = {3}  OBVIOUS
  <2>6. {} # {2} /\ {} # {3} /\ {2} # {3}  OBVIOUS
  <2> QED BY <2>1, <2>2, <2>3, <2>4, <2>5, <2>6, Zenon
<1>2. ASSUME NEW z \in {0, 1}
      PROVE  /\ {z} \cap {0, 1} # {} /\ {z} \cap {2, 3} = {}
             /\ {3, z} \cap {0, 1} # {} /\ {3, z} \cap {2, 3} = {3}
  <2>1. z \in {z} \cap {0, 1} /\ z \in {3, z} \cap {0, 1}  OBVIOUS
  <2>2. {z} \cap {2, 3} = {}  OBVIOUS
  <2>3. {3, z} \cap {2, 3} = {3}
    <3>1. \A x : x \in {3, z} \cap {2, 3} <=> x \in {3}  OBVIOUS
    <3> QED BY <3>1, Zenon
  <2> QED BY <2>1, <2>2, <2>3, Zenon
<1>3. /\ <<>> \o <<>> = <<>> /\ <<>> \o <<"cpio">> = <<"cpio">> /\ <<>> \o <<"tar">> = <<"tar">>
      /\ <<"zcat">> \o <<>> = <<"zcat">> /\ <<"zcat">> \o <<"tar">> = <<"zcat", "tar">>
  <2>1. <<>> \o <<>> = <<>>  OBVIOUS
  <2>2. <<>> \o <<"cpio">> = <<"cpio">>  OBVIOUS
  <2>3. <<>> \o <<"tar">> = <<"tar">>  OBVIOUS
  <2>4. <<"zcat">> \o <<>> = <<"zcat">>  OBVIOUS
  <2>5. <<"zcat">> \o <<"tar">> = <<"zcat", "tar">>  BY TwoParts, Zenon
  <2> QED BY <2>1, <2>2, <2>3, <2>4, <2>5, Zenon
<1> USE DEF C!Pipeline, C!MASK_COMPRESS, C!MASK_ARCHIVE, C!FLAG_CPIO, C!FLAG_TAR
<1>4. C!Pipeline({}) = <<>> /\ C!Pipeline({2}) = <<"cpio">> /\ C!Pipeline({3}) = <<"tar">>
  BY <1>1, <1>3
<1>5. ASSUME NEW z \in {0, 1}
      PROVE  C!Pipeline({z}) = <<"zcat">> /\ C!Pipeline({3, z}) = <<"zcat", "tar">>
  BY <1>1, <1>2, <1>3
<1> QED BY <1>4, <1>5

\* The filters a file gets are those its name asks for.
LEMMA RightFilters ==
  ASSUME NEW name \in Seq(Part), ~C!Compressed(name)
  PROVE  C!Pipeline(C!CheckFilename(name)) = C!AsNamed(name)
<1> DEFINE M == C!Matching(name)
<1>0. /\ M \subseteq 5 .. 10 
      /\ 5 \in M <=> EndsInBoth(name, "tar", "gz")
      /\ 6 \in M <=> EndsInBoth(name, "tar", "Z")
      /\ 7 \in M <=> EndsIn(name, "cpio")
      /\ 8 \in M <=> EndsIn(name, "tar")
      /\ 9 \in M <=> EndsIn(name, "gz")
      /\ 10 \in M <=> EndsIn(name, "Z")
  BY WhatMatches
<1>m. \A i \in 5 .. 10 : i \in M /\ (\A j \in 5 .. 10 : j < i => j \notin M) =>
                           C!CheckFilename(name) = C!KnownSuffixes[i].flag
  BY FirstMatch
<1>n. M = {} => C!CheckFilename(name) = {}  BY DEF C!CheckFilename
<1>k. /\ C!KnownSuffixes[5].flag = {3, 0} /\ C!KnownSuffixes[6].flag = {3, 1}
      /\ C!KnownSuffixes[7].flag = {2} /\ C!KnownSuffixes[8].flag = {3}
      /\ C!KnownSuffixes[9].flag = {0} /\ C!KnownSuffixes[10].flag = {1}
  BY DEF C!KnownSuffixes, C!FLAG_GZ, C!FLAG_Z, C!FLAG_CPIO, C!FLAG_TAR
<1> HIDE DEF M
<1> USE DEF EndsIn, EndsInBoth
<1>1. CASE name = <<>>
  <2>1. M = {}  
    <3>1. \A i \in 5 .. 10 : i \notin M  BY <1>0, <1>1
    <3> QED BY <1>0, <3>1
  <2> QED BY <1>1, <2>1, <1>n, Pipelines DEF C!AsNamed
<1>2. CASE name # <<>>
  <2>1. /\ Len(name) \in Nat /\ name[Len(name)] \in Part
        /\ (Len(name) > 1 => name[Len(name) - 1] \in Part)
    BY <1>2
  <2>2. PICK e \in Part : e = name[Len(name)]  BY <2>1
  <2>3. e \in {"bz2", "tar", "cpio"} => C!AsNamed(name) = C!Undo(e)
    BY <1>2, <2>2 DEF C!AsNamed, C!Last
  <2>4. CASE e = "bz2"
    <3>1. \A i \in 5 .. 10 : i \notin M  BY <1>0, <2>2, <2>4
    <3>2. M = {}  BY <1>0, <3>1
    <3> QED BY <2>3, <2>4, <3>2, <1>n, Pipelines DEF C!Undo
  <2>5. CASE e = "cpio"
    <3>1. 7 \in M /\ 5 \notin M /\ 6 \notin M  BY <1>0, <1>2, <2>2, <2>5
    <3>2. C!CheckFilename(name) = {2}  BY <3>1, <1>m, <1>k
    <3> QED BY <2>3, <2>5, <3>2, Pipelines DEF C!Undo
  <2>6. CASE e = "tar"
    <3>1. 8 \in M /\ 5 \notin M /\ 6 \notin M /\ 7 \notin M  BY <1>0, <1>2, <2>2, <2>6
    <3>2. C!CheckFilename(name) = {3}  BY <3>1, <1>m, <1>k
    <3> QED BY <2>3, <2>6, <3>2, Pipelines DEF C!Undo
  <2>7. CASE e \in {"gz", "Z"}
    <3>1. CASE Len(name) > 1 /\ name[Len(name) - 1] = "tar"
      <4>1. \/ e = "gz" /\ 5 \in M
            \/ e = "Z" /\ 6 \in M /\ 5 \notin M
        BY <1>0, <1>2, <2>2, <2>7, <3>1
      <4>2. C!CheckFilename(name) \in {{3, 0}, {3, 1}}
        BY <4>1, <1>m, <1>k
      <4>3. C!Pipeline(C!CheckFilename(name)) = <<"zcat", "tar">>  BY <4>2, Pipelines
      <4> QED BY <1>2, <2>2, <2>7, <3>1, <4>3 DEF C!AsNamed, C!Last
    <3>2. CASE Len(name) > 1 /\ name[Len(name) - 1] = "cpio"
      <4>1. EndsInBoth(name, "cpio", e)  BY <1>2, <2>2, <3>2
      <4>2. C!IsSuffix(<<"cpio", e>>, name)  BY <4>1, SuffixOfTwo DEF Part
      <4> QED BY <2>7, <4>2 DEF C!Compressed
    <3>3. CASE ~(Len(name) > 1 /\ name[Len(name) - 1] \in {"tar", "cpio"})
      <4>1. /\ 5 \notin M /\ 6 \notin M /\ 7 \notin M /\ 8 \notin M
            /\ \/ e = "gz" /\ 9 \in M
               \/ e = "Z" /\ 10 \in M /\ 9 \notin M
        BY <1>0, <1>2, <2>2, <2>7, <3>3
      <4>2. C!CheckFilename(name) \in {{0}, {1}}  BY <4>1, <1>m, <1>k
      <4>3. C!Pipeline(C!CheckFilename(name)) = <<"zcat">>  BY <4>2, Pipelines
      <4> QED BY <1>2, <2>2, <2>7, <3>3, <4>3 DEF C!AsNamed, C!Last, C!Undo
    <3> QED BY <3>1, <3>2, <3>3, <2>1 DEF Part
  <2> QED BY <2>2, <2>4, <2>5, <2>6, <2>7 DEF Part
<1> QED BY <1>1, <1>2

-----------------------------------------------------------------------------
(***************************************************************************)
(* A file that parse() accepts has its keywords where they were meant to   *)
(* be: no slip gets through.                                               *)
(***************************************************************************)
\* A file that is right, with f lines for the files and n hosts.
FirstIs(l, f) ==
  \/ l[1].key \in {"infile", "compressed_infile"} /\ f = 2
  \/ l[1].key = "iofiles" /\ l[1].arg = f - 1
Keywords(l, f, n) ==
  /\ l[f + 1].key = "server" /\ l[f + 2].key = "firstclient" /\ l[f + 3].key = "lastclient"
  /\ l[f + 4].key = "clients" /\ l[f + 4].arg = n
  /\ l[f + n + 5].key = "endconfig"
Right(l, f, n) ==
  /\ IsSequence(l) /\ Len(l) = f + n + 5 /\ FirstIs(l, f) /\ Keywords(l, f, n)
  /\ \A i \in 2 .. f : l[i].key \in {"outfile", "file"}
  /\ \A i \in f + 5 .. f + n + 4 : l[i].key = "host"
\* What parse() has looked at when it comes to its end.
Accepted(l, f, n) == f + n + 5 <= Len(l) /\ FirstIs(l, f) /\ Keywords(l, f, n)

\* A line with this keyword is the one at p.
Only(w, key, p) == \A i \in 1 .. Len(w) : w[i].key = key => i = p
\* Every keyword that parse() insists on is there once.
KeysOnce(w, f, n) ==
  /\ Only(w, "server", f + 1) /\ Only(w, "firstclient", f + 2) /\ Only(w, "lastclient", f + 3)
  /\ Only(w, "clients", f + 4) /\ Only(w, "endconfig", f + n + 5) /\ Only(w, "iofiles", 1)

LEMMA KeyPlaces ==
  ASSUME NEW w, NEW f \in Nat, NEW n \in Nat, f >= 2, n >= 1, Right(w, f, n)
  PROVE  KeysOnce(w, f, n)
<1> SUFFICES ASSUME NEW i \in 1 .. Len(w)
             PROVE  /\ w[i].key = "server" => i = f + 1
                    /\ w[i].key = "firstclient" => i = f + 2
                    /\ w[i].key = "lastclient" => i = f + 3
                    /\ w[i].key = "clients" => i = f + 4
                    /\ w[i].key = "endconfig" => i = f + n + 5
                    /\ w[i].key = "iofiles" => i = 1
  BY Zenon DEF KeysOnce, Only
<1>1. \/ i = 1 \/ i \in 2 .. f \/ i = f + 1 \/ i = f + 2 \/ i = f + 3 \/ i = f + 4
      \/ i \in f + 5 .. f + n + 4 \/ i = f + n + 5
  <2>1. Len(w) = f + n + 5  BY DEF Right
  <2>2. i \in 1 .. f + n + 5  BY <2>1
  <2> QED BY <2>2
<1>2. CASE i = 1  BY <1>2 DEF Right, FirstIs
<1>3. CASE i \in 2 .. f  BY <1>3 DEF Right
<1>4. CASE i \in {f + 1, f + 2, f + 3, f + 4, f + n + 5}  BY <1>4 DEF Right, Keywords
<1>5. CASE i \in f + 5 .. f + n + 4  BY <1>5 DEF Right
<1> QED BY <1>1, <1>2, <1>3, <1>4, <1>5

LEMMA ItsPlace ==
  ASSUME NEW w, NEW key, NEW p, Only(w, key, p), NEW i \in 1 .. Len(w), w[i].key = key
  PROVE  i = p
BY DEF Only

\* The first line says how many there are of the files.
LEMMA SameFiles ==
  ASSUME NEW w, NEW l, NEW f \in Nat, NEW g \in Nat, FirstIs(w, f), FirstIs(l, g), l[1] = w[1]
  PROVE  g = f
<1>1. CASE w[1].key = "iofiles"
  <2>1. w[1].arg = f - 1 /\ w[1].arg = g - 1  BY <1>1 DEF FirstIs
  <2> QED BY <2>1
<1>2. CASE w[1].key # "iofiles"  BY <1>2 DEF FirstIs
<1> QED BY <1>1, <1>2

LEMMA InsertedIs ==
  ASSUME NEW a, IsSequence(a), NEW i \in 1 .. Len(a), NEW e, NEW l, l = C!InsertAt(a, i, e)
  PROVE  /\ Len(l) = Len(a) + 1 /\ l[i] = e
         /\ \A j \in 1 .. i - 1 : l[j] = a[j]
         /\ \A j \in i + 1 .. Len(a) + 1 : l[j] = a[j - 1]
BY Inserted

LEMMA NoComment ==
  ASSUME NEW w, NEW f \in Nat, NEW n \in Nat, f >= 2, n >= 1, Right(w, f, n),
         NEW i \in 1 .. Len(w), NEW l, l = C!InsertAt(w, i, C!Line("#", 0)),
         NEW g \in Nat, NEW k \in Nat, g >= 2, k >= 1, Accepted(l, g, k)
  PROVE  FALSE
<1>0. KeysOnce(w, f, n)  BY KeyPlaces
<1>1. /\ Len(w) = f + n + 5 /\ Len(l) = f + n + 6 /\ l[i].key = "#"
      /\ \A j \in 1 .. i - 1 : l[j] = w[j]
      /\ \A j \in i + 1 .. f + n + 6 : l[j] = w[j - 1]
  <2>0. IsSequence(w)  BY DEF Right
  <2>1. Len(w) = f + n + 5  BY DEF Right
  <2>2. /\ Len(l) = Len(w) + 1 /\ l[i] = C!Line("#", 0)
        /\ \A j \in 1 .. i - 1 : l[j] = w[j]
        /\ \A j \in i + 1 .. Len(w) + 1 : l[j] = w[j - 1]
    BY <2>0, InsertedIs
  <2>3. C!Line("#", 0).key = "#"  BY DEF C!Line
  <2> QED BY <2>1, <2>2, <2>3
<1>2. i # 1 /\ l[1] = w[1] /\ g = f
  <2>1. l[1].key # "#"  BY DEF Accepted, FirstIs
  <2>2. i # 1  BY <1>1, <2>1
  <2>3. 1 \in 1 .. i - 1  BY <2>2
  <2>4. l[1] = w[1]  BY <1>1, <2>3
  <2>5. g = f  BY <2>4, SameFiles DEF Accepted, Right
  <2> QED BY <2>2, <2>4, <2>5
<1>3. ASSUME NEW j \in 1 .. f + n + 6, j > i
      PROVE  j - 1 \in 1 .. Len(w) /\ l[j] = w[j - 1]
  <2>1. j \in i + 1 .. f + n + 6 /\ j - 1 \in 1 .. f + n + 5  BY <1>3
  <2> QED BY <1>1, <2>1
<1>4. f + 1 < i
  <2>1. l[f + 1].key = "server" /\ f + 1 \in 1 .. f + n + 6 /\ f + 1 # i
    <3>1. l[f + 1].key = "server"  BY <1>2 DEF Accepted, Keywords
    <3>2. f + 1 \in 1 .. f + n + 6  OBVIOUS
    <3>3. f + 1 # i  BY <1>1, <3>1
    <3> QED BY <3>1, <3>2, <3>3
  <2>2. CASE f + 1 > i
    <3>0. f + 1 - 1 \in 1 .. Len(w) /\ l[f + 1] = w[f + 1 - 1]  BY <1>3, <2>1, <2>2
    <3>1. f + 1 - 1 \in 1 .. Len(w) /\ w[f + 1 - 1].key = "server"  BY <2>1, <3>0
    <3>2. Only(w, "server", f + 1)  BY <1>0 DEF KeysOnce
    <3>3. f + 1 - 1 = f + 1  BY <3>1, <3>2, ItsPlace
    <3> QED BY <3>3
  <2> QED BY <2>1, <2>2
<1>5. f + 4 < i /\ k = n
  <2>1. /\ l[f + 2].key = "firstclient" /\ f + 2 \in 1 .. f + n + 6
        /\ l[f + 3].key = "lastclient" /\ f + 3 \in 1 .. f + n + 6
        /\ l[f + 4].key = "clients" /\ l[f + 4].arg = k /\ f + 4 \in 1 .. f + n + 6
        /\ f + 2 # i /\ f + 3 # i /\ f + 4 # i
    <3>1. /\ l[f + 2].key = "firstclient" /\ l[f + 3].key = "lastclient"
          /\ l[f + 4].key = "clients" /\ l[f + 4].arg = k
      BY <1>2 DEF Accepted, Keywords
    <3>2. f + 2 \in 1 .. f + n + 6 /\ f + 3 \in 1 .. f + n + 6 /\ f + 4 \in 1 .. f + n + 6  OBVIOUS
    <3>3. f + 2 # i /\ f + 3 # i /\ f + 4 # i  BY <1>1, <3>1
    <3> QED BY <3>1, <3>2, <3>3
  <2>2. f + 4 < i  BY <1>4, <2>1
  <2> QED BY <1>1, <2>1, <2>2 DEF Right, Keywords
<1>6. l[f + n + 5].key = "endconfig" /\ f + n + 5 \in 1 .. f + n + 6 /\ f + n + 5 # i
  BY <1>1, <1>2, <1>5 DEF Accepted, Keywords
<1>7. f + n + 4 \in 1 .. Len(w) /\ w[f + n + 4].key = "endconfig"
  <2>1. f + n + 5 > i /\ f + n + 5 - 1 = f + n + 4  BY <1>1, <1>5, <1>6
  <2>2. f + n + 5 - 1 \in 1 .. Len(w) /\ l[f + n + 5] = w[f + n + 5 - 1]  BY <1>3, <1>6, <2>1
  <2> QED BY <1>6, <2>1, <2>2
<1>8. Only(w, "endconfig", f + n + 5)  BY <1>0 DEF KeysOnce
<1>9. f + n + 4 = f + n + 5  BY <1>7, <1>8, ItsPlace
<1> QED BY <1>9

LEMMA NotCutOff ==
  ASSUME NEW w, NEW f \in Nat, NEW n \in Nat, f >= 2, n >= 1, Right(w, f, n),
         NEW i \in 0 .. Len(w) - 1, NEW l, l = SubSeq(w, 1, i),
         NEW g \in Nat, NEW k \in Nat, g >= 2, k >= 1, Accepted(l, g, k)
  PROVE  FALSE
<1>0. KeysOnce(w, f, n)  BY KeyPlaces
<1>1. Len(w) = f + n + 5 /\ Len(l) = i /\ \A j \in 1 .. i : l[j] = w[j]
  <2>1. IsSequence(w) /\ Len(w) = f + n + 5  BY DEF Right
  <2>2. /\ 1 \in 1 .. Len(w) + 1 /\ i \in 0 .. Len(w) /\ 1 <= i + 1 /\ i - 1 + 1 = i
    BY <2>1
  <2>3. Len(l) = i - 1 + 1 /\ \A j \in 1 .. i - 1 + 1 : l[j] = w[1 + j - 1]
    BY <2>1, <2>2, CutOut, Zenon
  <2>4. \A j \in 1 .. i : 1 + j - 1 = j  OBVIOUS
  <2> QED BY <2>1, <2>2, <2>3, <2>4
<1>2. i >= g + k + 5  BY <1>1 DEF Accepted
<1>3. l[g + k + 5] = w[g + k + 5] /\ l[g + k + 5].key = "endconfig" /\ g + k + 5 \in 1 .. Len(w)
  BY <1>1, <1>2 DEF Accepted, Keywords
<1>4. g + k + 5 = f + n + 5
  <2>1. Only(w, "endconfig", f + n + 5)  BY <1>0 DEF KeysOnce
  <2>2. w[g + k + 5].key = "endconfig" /\ g + k + 5 \in 1 .. Len(w)  BY <1>3
  <2> QED BY <2>1, <2>2, ItsPlace
<1> QED BY <1>1, <1>2, <1>4

LEMMA NoOtherCount ==
  ASSUME NEW w, NEW f \in Nat, NEW n \in Nat, f >= 2, n >= 1, Right(w, f, n),
         NEW i \in 1 .. Len(w), w[i].key \in {"iofiles", "clients"}, NEW d \in {-1, 1},
         NEW l, l = C!ReplaceAt(w, i, C!Line(w[i].key, w[i].arg + d)),
         NEW g \in Nat, NEW k \in Nat, g >= 2, k >= 1, Accepted(l, g, k)
  PROVE  FALSE
<1>0. KeysOnce(w, f, n)  BY KeyPlaces
<1>1. /\ Len(w) = f + n + 5 /\ Len(l) = f + n + 5 /\ l[i].arg = w[i].arg + d
      /\ \A j \in 1 .. f + n + 5 : l[j].key = w[j].key
      /\ \A j \in 1 .. f + n + 5 : j # i => l[j].arg = w[j].arg
  <2>1. IsSequence(w) /\ Len(w) = f + n + 5  BY DEF Right
  <2> DEFINE c == C!Line(w[i].key, w[i].arg + d)
  <2>2. /\ Len(C!ReplaceAt(w, i, c)) = Len(w) /\ C!ReplaceAt(w, i, c)[i] = c
        /\ \A j \in 1 .. Len(w) : j # i => C!ReplaceAt(w, i, c)[j] = w[j]
    BY <2>1, Replaced
  <2>3. c.key = w[i].key /\ c.arg = w[i].arg + d  BY DEF C!Line
  <2> HIDE DEF c
  <2>4. l = C!ReplaceAt(w, i, c)  BY DEF c
  <2> QED BY <2>1, <2>2, <2>3, <2>4
<1>2. g = f
  <2>0. l[g + 1].key = "server" /\ g + 1 \in 1 .. f + n + 5  BY <1>1 DEF Accepted, Keywords
  <2>1. g + 1 \in 1 .. Len(w) /\ w[g + 1].key = "server"  BY <1>1, <2>0
  <2>2. Only(w, "server", f + 1)  BY <1>0 DEF KeysOnce
  <2>3. g + 1 = f + 1  BY <2>1, <2>2, ItsPlace
  <2> QED BY <2>3
<1>3. k = n
  <2>1. g + k + 5 \in 1 .. Len(w) /\ w[g + k + 5].key = "endconfig"  BY <1>1 DEF Accepted, Keywords
  <2>2. Only(w, "endconfig", f + n + 5)  BY <1>0 DEF KeysOnce
  <2>3. g + k + 5 = f + n + 5  BY <2>1, <2>2, ItsPlace
  <2> QED BY <1>2, <2>3
<1>4. l[f + 4].arg = n /\ w[f + 4].arg = n /\ f + 4 \in 1 .. f + n + 5
  BY <1>2, <1>3 DEF Accepted, Keywords, Right
<1>5. CASE w[i].key = "clients"
  <2>0. Only(w, "clients", f + 4)  BY <1>0 DEF KeysOnce
  <2>1. i = f + 4  BY <1>5, <2>0, ItsPlace
  <2> QED BY <1>1, <1>4, <2>1
<1>6. CASE w[i].key = "iofiles"
  <2>0. Only(w, "iofiles", 1)  BY <1>0 DEF KeysOnce
  <2>1. i = 1  BY <1>6, <2>0, ItsPlace
  <2>2. w[1].arg = f - 1 /\ l[1].key = "iofiles" /\ l[1].arg = f - 1
    BY <1>1, <1>2, <1>6, <2>1 DEF Accepted, Right, FirstIs
  <2> QED BY <1>1, <2>1, <2>2
<1> QED BY <1>5, <1>6

LEMMA NoLineMissing ==
  ASSUME NEW w, NEW f \in Nat, NEW n \in Nat, f >= 2, n >= 1, Right(w, f, n),
         NEW i \in 1 .. Len(w), NEW l, l = C!RemoveAt(w, i),
         NEW g \in Nat, NEW k \in Nat, g >= 2, k >= 1, Accepted(l, g, k)
  PROVE  FALSE
<1>0. KeysOnce(w, f, n)  BY KeyPlaces
<1>1. /\ Len(w) = f + n + 5 /\ Len(l) = f + n + 4
      /\ \A j \in 1 .. i - 1 : l[j] = w[j]
      /\ \A j \in i .. f + n + 4 : l[j] = w[j + 1]
  <2>1. IsSequence(w) /\ Len(w) = f + n + 5  BY DEF Right
  <2>2. /\ Len(l) = Len(w) - 1
        /\ \A j \in 1 .. i - 1 : l[j] = w[j]
        /\ \A j \in i .. Len(w) - 1 : l[j] = w[j + 1]
    BY <2>1, Removed, Zenon
  <2> QED BY <2>1, <2>2
<1>2. i # 1 /\ g = f
  <2>1. ASSUME i = 1 PROVE FALSE
    <3>1. 1 \in i .. f + n + 4 /\ 1 + 1 = 2 /\ 2 \in 2 .. f  BY <2>1
    <3>2. l[1] = w[2]  BY <1>1, <3>1
    <3>3. w[2].key \in {"outfile", "file"}  BY <3>1 DEF Right
    <3>4. l[1].key \in {"infile", "compressed_infile", "iofiles"}  BY DEF Accepted, FirstIs
    <3> QED BY <3>2, <3>3, <3>4
  <2>2. 1 \in 1 .. i - 1  BY <2>1
  <2>3. l[1] = w[1]  BY <1>1, <2>2
  <2>4. g = f  BY <2>3, SameFiles DEF Accepted, Right
  <2> QED BY <2>1, <2>4
<1>3. /\ f + 4 <= f + n + 4
      /\ l[f + 1].key = "server" /\ l[f + 2].key = "firstclient" /\ l[f + 3].key = "lastclient"
      /\ l[f + 4].key = "clients" /\ l[f + 4].arg = k
      /\ l[f + k + 5].key = "endconfig" /\ f + k + 5 \in 1 .. f + n + 4
  BY <1>1, <1>2 DEF Accepted, Keywords
<1>4. ASSUME NEW j \in 1 .. f + n + 4
      PROVE  \/ j < i /\ l[j] = w[j]
             \/ i <= j /\ j + 1 \in 1 .. Len(w) /\ l[j] = w[j + 1]
  <2>1. CASE j < i
    <3>1. j \in 1 .. i - 1  BY <2>1
    <3> QED BY <1>1, <2>1, <3>1
  <2>2. CASE i <= j
    <3>1. j \in i .. f + n + 4 /\ j + 1 \in 1 .. f + n + 5  BY <2>2
    <3> QED BY <1>1, <2>2, <3>1
  <2> QED BY <2>1, <2>2
<1>5. f + 1 < i
  <2>1. ASSUME i <= f + 1 PROVE FALSE
    <3>1. f + 1 \in 1 .. f + n + 4 /\ f + 2 \in 1 .. Len(w)  BY <1>1
    <3>2. w[f + 1 + 1].key = "server" /\ f + 1 + 1 = f + 2  BY <1>3, <1>4, <2>1, <3>1
    <3>3. Only(w, "server", f + 1)  BY <1>0 DEF KeysOnce
    <3>4. f + 2 = f + 1  BY <3>1, <3>2, <3>3, ItsPlace
    <3> QED BY <3>4
  <2> QED BY <1>1, <2>1
<1>6. f + 2 < i
  <2>1. ASSUME i <= f + 2 PROVE FALSE
    <3>1. f + 2 \in 1 .. f + n + 4 /\ f + 3 \in 1 .. Len(w)  BY <1>1
    <3>2. w[f + 2 + 1].key = "firstclient" /\ f + 2 + 1 = f + 3  BY <1>3, <1>4, <2>1, <3>1
    <3>3. Only(w, "firstclient", f + 2)  BY <1>0 DEF KeysOnce
    <3>4. f + 3 = f + 2  BY <3>1, <3>2, <3>3, ItsPlace
    <3> QED BY <3>4
  <2> QED BY <1>1, <2>1
<1>7. f + 3 < i
  <2>1. ASSUME i <= f + 3 PROVE FALSE
    <3>1. f + 3 \in 1 .. f + n + 4 /\ f + 4 \in 1 .. Len(w)  BY <1>1
    <3>2. w[f + 3 + 1].key = "lastclient" /\ f + 3 + 1 = f + 4  BY <1>3, <1>4, <2>1, <3>1
    <3>3. Only(w, "lastclient", f + 3)  BY <1>0 DEF KeysOnce
    <3>4. f + 4 = f + 3  BY <3>1, <3>2, <3>3, ItsPlace
    <3> QED BY <3>4
  <2> QED BY <1>1, <2>1
<1>8. f + 4 < i
  <2>1. ASSUME i <= f + 4 PROVE FALSE
    <3>1. f + 4 \in 1 .. f + n + 4 /\ f + 5 \in 1 .. Len(w)  BY <1>1
    <3>2. w[f + 4 + 1].key = "clients" /\ f + 4 + 1 = f + 5  BY <1>3, <1>4, <2>1, <3>1
    <3>3. Only(w, "clients", f + 4)  BY <1>0 DEF KeysOnce
    <3>4. f + 5 = f + 4  BY <3>1, <3>2, <3>3, ItsPlace
    <3> QED BY <3>4
  <2> QED BY <1>1, <2>1
<1>9. k = n
  <2>1. f + 4 \in 1 .. i - 1 /\ l[f + 4] = w[f + 4]  BY <1>1, <1>8
  <2> QED BY <1>3, <2>1 DEF Right, Keywords
<1> QED BY <1>3, <1>9

\* Only a file without a slip gets through.
LEMMA OnlyTheRight ==
  ASSUME NEW w, NEW f \in Nat, NEW n \in Nat, f >= 2, n >= 1, Right(w, f, n),
         NEW l, l \in {w} \cup C!Slips(w),
         NEW g \in Nat, NEW k \in Nat, g >= 2, k >= 1, Accepted(l, g, k)
  PROVE  l = w /\ g = f /\ k = n
<1>0. KeysOnce(w, f, n)  BY KeyPlaces
<1>1. DOMAIN w = 1 .. Len(w)  BY SequenceFacts DEF Right
<1>2. ASSUME NEW i \in 1 .. Len(w), l = C!InsertAt(w, i, C!Line("#", 0)) PROVE FALSE
  BY <1>2, NoComment, Zenon
<1>3. ASSUME NEW i \in 0 .. Len(w) - 1, l = SubSeq(w, 1, i) PROVE FALSE
  BY <1>3, NotCutOff, Zenon
<1>4. ASSUME NEW i \in 1 .. Len(w), C!Counts(w[i]), NEW d \in {-1, 1},
             l = C!ReplaceAt(w, i, C!Line(w[i].key, w[i].arg + d))
      PROVE FALSE
  <2>1. w[i].key \in {"iofiles", "clients"}  BY <1>4 DEF C!Counts
  <2> QED BY <1>4, <2>1, NoOtherCount, Zenon
<1>5. ASSUME NEW i \in 1 .. Len(w), l = C!RemoveAt(w, i) PROVE FALSE
  BY <1>5, NoLineMissing, Zenon
<1>6. l = w
  <2> SUFFICES ASSUME l \in C!Slips(w) PROVE FALSE  OBVIOUS
  <2>1. CASE l \in {C!InsertAt(w, i, C!Line("#", 0)) : i \in DOMAIN w}  BY <1>1, <1>2, <2>1, Zenon
  <2>2. CASE l \in {SubSeq(w, 1, i) : i \in 0 .. Len(w) - 1}  BY <1>3, <2>2, Zenon
  <2>3. CASE l \in {C!ReplaceAt(w, i, C!Line(w[i].key, w[i].arg + d)) :
                     i \in {j \in DOMAIN w : C!Counts(w[j])}, d \in {-1, 1}}
    <3>1. PICK i \in {j \in DOMAIN w : C!Counts(w[j])}, d \in {-1, 1} :
                 l = C!ReplaceAt(w, i, C!Line(w[i].key, w[i].arg + d))
      BY <2>3
    <3>2. i \in 1 .. Len(w) /\ C!Counts(w[i])  BY <1>1, <3>1
    <3> QED BY <1>4, <3>1, <3>2, Zenon
  <2>4. CASE l \in {C!RemoveAt(w, i) : i \in DOMAIN w}  BY <1>1, <1>5, <2>4, Zenon
  <2> QED BY <2>1, <2>2, <2>3, <2>4 DEF C!Slips
<1>7. g = f
  <2>1. IsSequence(w) /\ Len(w) = f + n + 5  BY DEF Right
  <2>2. g + 1 \in 1 .. Len(w) /\ w[g + 1].key = "server"  BY <1>6, <2>1 DEF Accepted, Keywords
  <2>3. Only(w, "server", f + 1)  BY <1>0 DEF KeysOnce
  <2>4. g + 1 = f + 1  BY <2>2, <2>3, ItsPlace
  <2> QED BY <2>4
<1>8. k = n  BY <1>6, <1>7 DEF Accepted, Right, Keywords
<1> QED BY <1>6, <1>7, <1>8

-----------------------------------------------------------------------------
(***************************************************************************)
(* The files the model writes are right.                                   *)
(***************************************************************************)
\* What parse() may rely on in any line: a count is a number, a name is one of Names.
GoodLine(x) ==
  /\ x.key \in {"iofiles", "clients"} => x.arg \in Int
  /\ x.key \in {"infile", "compressed_infile"} => x.arg \in Names
  /\ x.key = "file" => x.arg.name \in Names /\ x.arg.op \in {">", ">>"}
Writing(l, f, n) ==
  /\ Right(l, f, n) /\ \A i \in 1 .. Len(l) : GoodLine(l[i])
  /\ l[1].key = "iofiles" => \A i \in 2 .. f : l[i].arg = C!IoFile(l[i].arg.op, l[i].arg.name)

LEMMA TwoLines ==
  ASSUME NEW a, NEW b
  PROVE  IsSequence(<<a, b>>) /\ Len(<<a, b>>) = 2 /\ <<a, b>>[1] = a /\ <<a, b>>[2] = b
<1>1. <<a, b>> \in Seq({a, b}) /\ Len(<<a, b>>) = 2 /\ <<a, b>>[1] = a /\ <<a, b>>[2] = b  OBVIOUS
<1> QED BY <1>1 DEF IsSequence

LEMMA FourLines ==
  ASSUME NEW a, NEW b, NEW c, NEW d
  PROVE  /\ IsSequence(<<a, b, c, d>>) /\ Len(<<a, b, c, d>>) = 4
         /\ <<a, b, c, d>>[1] = a /\ <<a, b, c, d>>[2] = b
         /\ <<a, b, c, d>>[3] = c /\ <<a, b, c, d>>[4] = d
<1>1. /\ <<a, b, c, d>> \in Seq({a, b, c, d}) /\ Len(<<a, b, c, d>>) = 4
      /\ <<a, b, c, d>>[1] = a /\ <<a, b, c, d>>[2] = b
      /\ <<a, b, c, d>>[3] = c /\ <<a, b, c, d>>[4] = d
  OBVIOUS
<1> QED BY <1>1 DEF IsSequence

\* The lines of the files: the first says how many there are.
FilesLines(s) ==
  /\ IsSequence(s) /\ Len(s) >= 2 /\ FirstIs(s, Len(s))
  /\ \A i \in 1 .. Len(s) : GoodLine(s[i])
  /\ \A i \in 2 .. Len(s) : s[i].key \in {"outfile", "file"}
  /\ s[1].key = "iofiles" => \A i \in 2 .. Len(s) : s[i].arg = C!IoFile(s[i].arg.op, s[i].arg.name)

LEMMA OneFile ==
  ASSUME NEW n \in Names, NEW word \in {"infile", "compressed_infile"},
         NEW s, IsSequence(s), Len(s) = 2, s[1] = C!Line(word, n), s[2] = C!Line("outfile", 0)
  PROVE  FilesLines(s)
<1>1. s[1].key = word /\ s[1].arg = n /\ s[2].key = "outfile"  BY DEF C!Line
<1>2. FirstIs(s, 2)  BY <1>1 DEF FirstIs
<1>3. GoodLine(s[1]) /\ GoodLine(s[2])  BY <1>1 DEF GoodLine
<1>4. \A i \in 1 .. 2 : i = 1 \/ i = 2  OBVIOUS
<1>5. \A i \in 2 .. 2 : i = 2  OBVIOUS
<1>6. s[1].key # "iofiles"  BY <1>1
<1> QED BY <1>1, <1>2, <1>3, <1>4, <1>5, <1>6 DEF FilesLines

LEMMA ManyFiles ==
  ASSUME NEW n \in Nat, n >= 1,
         NEW files \in [1 .. n -> C!IoFiles],
         NEW s, IsSequence(s), Len(s) = n + 1, s[1] = C!Line("iofiles", n),
         \A i \in 1 .. n : s[1 + i] = C!Line("file", files[i])
  PROVE  FilesLines(s)
<1>1. s[1].key = "iofiles" /\ s[1].arg = n  BY DEF C!Line
<1>2. ASSUME NEW i \in 2 .. n + 1
      PROVE  /\ s[i].key = "file" /\ s[i].arg.name \in Names /\ s[i].arg.op \in {">", ">>"}
             /\ s[i].arg = C!IoFile(s[i].arg.op, s[i].arg.name)
  <2>1. PICK j \in 1 .. n : 1 + j = i
    <3>1. i - 1 \in 1 .. n /\ 1 + (i - 1) = i  OBVIOUS
    <3> QED BY <3>1
  <2>2. s[i] = C!Line("file", files[j])  BY <2>1
  <2>3. PICK op \in {">", ">>"}, name \in Names : files[j] = C!IoFile(op, name)  BY <2>1 DEF C!IoFiles
  <2>4. s[i].key = "file" /\ s[i].arg = C!IoFile(op, name)  BY <2>2, <2>3 DEF C!Line
  <2>5. C!IoFile(op, name).op = op /\ C!IoFile(op, name).name = name  BY DEF C!IoFile
  <2> QED BY <2>4, <2>5
<1>3. FirstIs(s, n + 1)  BY <1>1 DEF FirstIs
<1>4. ASSUME NEW i \in 1 .. n + 1 PROVE GoodLine(s[i])
  <2>1. CASE i = 1
    <3>1. s[i].key = "iofiles" /\ s[i].arg \in Int  BY <1>1, <2>1
    <3> QED BY <3>1 DEF GoodLine
  <2>2. CASE i # 1
    <3>1. i \in 2 .. n + 1  BY <2>2
    <3>2. s[i].key = "file" /\ s[i].arg.name \in Names /\ s[i].arg.op \in {">", ">>"}  BY <1>2, <3>1
    <3> QED BY <3>2 DEF GoodLine
  <2> QED BY <2>1, <2>2
<1> QED BY <1>2, <1>3, <1>4 DEF FilesLines

LEMMA FilesShape ==
  ASSUME NEW s \in C!FilesSections
  PROVE  FilesLines(s)
<1>1. ASSUME NEW n \in Names, NEW word \in {"infile", "compressed_infile"},
             s = <<C!Line(word, n), C!Line("outfile", 0)>>
      PROVE  FilesLines(s)
  <2>1. /\ IsSequence(s) /\ Len(s) = 2
        /\ s[1] = C!Line(word, n) /\ s[2] = C!Line("outfile", 0)
    BY <1>1, TwoLines, Zenon
  <2> QED BY <2>1, OneFile, Zenon
<1>2. ASSUME NEW n \in 1 .. MostFiles,
             NEW files \in [1 .. n -> C!IoFiles],
             s = <<C!Line("iofiles", n)>> \o [i \in 1 .. n |-> C!Line("file", files[i])]
      PROVE  FilesLines(s)
  <2> DEFINE a == <<C!Line("iofiles", n)>>
             b == [i \in 1 .. n |-> C!Line("file", files[i])]
  <2>1. IsSequence(a) /\ Len(a) = 1 /\ a[1] = C!Line("iofiles", n)  BY Single
  <2>2. b = [i \in 1 .. n |-> b[i]] /\ \A i \in 1 .. n : b[i] = C!Line("file", files[i])  OBVIOUS
  <2>3. s = a \o b  BY <1>2
  <2> HIDE DEF a, b
  <2>4. n \in Nat /\ n >= 1  OBVIOUS
  <2>5. IsSequence(b) /\ Len(b) = n  BY <2>2, <2>4, BuiltSequence
  <2>6. IsSequence(a) /\ IsSequence(b)  BY <2>1, <2>5
  <2>7. /\ IsSequence(a \o b) /\ Len(a \o b) = Len(a) + Len(b)
        /\ \A i \in 1 .. Len(a) : (a \o b)[i] = a[i]
        /\ \A i \in 1 .. Len(b) : (a \o b)[Len(a) + i] = b[i]
    BY <2>6, Joined
  <2>8. /\ IsSequence(a \o b) /\ Len(a \o b) = n + 1 /\ (a \o b)[1] = C!Line("iofiles", n)
        /\ \A i \in 1 .. n : (a \o b)[1 + i] = C!Line("file", files[i])
    <3>1. Len(a \o b) = n + 1  BY <2>1, <2>4, <2>5, <2>7
    <3>2. (a \o b)[1] = C!Line("iofiles", n)  BY <2>1, <2>7
    <3>3. \A i \in 1 .. n : (a \o b)[1 + i] = C!Line("file", files[i])  BY <2>1, <2>2, <2>5, <2>7
    <3> QED BY <2>7, <3>1, <3>2, <3>3
  <2>9. PICK z : z = a \o b  OBVIOUS
  <2>10. /\ IsSequence(z) /\ Len(z) = n + 1 /\ z[1] = C!Line("iofiles", n)
         /\ \A i \in 1 .. n : z[1 + i] = C!Line("file", files[i])
    BY <2>8, <2>9
  <2>11. FilesLines(z)  BY <2>4, <2>10, ManyFiles, Zenon
  <2> QED BY <2>3, <2>9, <2>11
<1>3. CASE s \in {<<C!Line("compressed_infile", n), C!Line("outfile", 0)>> : n \in Names}
  <2>1. PICK n \in Names : s = <<C!Line("compressed_infile", n), C!Line("outfile", 0)>>
    BY <1>3, Zenon
  <2>2. "compressed_infile" \in {"infile", "compressed_infile"}  OBVIOUS
  <2> QED BY <1>1, <2>1, <2>2, Zenon
<1>4. CASE s \in {<<C!Line("infile", n), C!Line("outfile", 0)>> : n \in Names}
  <2>1. PICK n \in Names : s = <<C!Line("infile", n), C!Line("outfile", 0)>>  BY <1>4, Zenon
  <2>2. "infile" \in {"infile", "compressed_infile"}  OBVIOUS
  <2> QED BY <1>1, <2>1, <2>2, Zenon
<1>0. s \in C!FilesSections  OBVIOUS
<1> DEFINE Many(n) == {<<C!Line("iofiles", n)>> \o [i \in 1 .. n |-> C!Line("file", files[i])] :
                         files \in [1 .. n -> C!IoFiles]}
<1>5. CASE s \in UNION {Many(n) : n \in 1 .. MostFiles}
  <2> HIDE DEF Many
  <2>1. PICK n \in 1 .. MostFiles : s \in Many(n)  BY <1>5, Zenon
  <2>2. PICK files \in [1 .. n -> C!IoFiles] :
               s = <<C!Line("iofiles", n)>> \o [i \in 1 .. n |-> C!Line("file", files[i])]
    BY <2>1 DEF Many
  <2> QED BY <1>2, <2>1, <2>2, Zenon
<1>6. s \in   {<<C!Line("compressed_infile", n), C!Line("outfile", 0)>> : n \in Names}
         \cup {<<C!Line("infile", n), C!Line("outfile", 0)>> : n \in Names}
         \cup UNION {Many(n) : n \in 1 .. MostFiles}
  BY <1>0, Zenon DEF C!FilesSections
<1> HIDE DEF Many
<1> QED BY <1>3, <1>4, <1>5, <1>6, Zenon

\* The lines of the hosts.
LEMMA HostsShape ==
  ASSUME NEW h, IsSequence(h), NEW n \in Nat, n = Len(h), NEW s, s = C!HostsSection(h)
  PROVE  /\ IsSequence(s) /\ Len(s) = n + 5
         /\ s[1].key = "server" /\ s[2].key = "firstclient" /\ s[3].key = "lastclient"
         /\ s[4].key = "clients" /\ s[4].arg = n /\ s[n + 5].key = "endconfig"
         /\ \A i \in 1 .. n : s[4 + i] = C!Line("host", h[i])
<1> DEFINE a == <<C!Line("server", 0), C!Line("firstclient", 0), C!Line("lastclient", 0),
                  C!Line("clients", Len(h))>>
           b == [i \in DOMAIN h |-> C!Line("host", h[i])]
           e == <<C!Line("endconfig", 0)>>
<1>1. /\ IsSequence(a) /\ Len(a) = 4
      /\ a[1] = C!Line("server", 0) /\ a[2] = C!Line("firstclient", 0)
      /\ a[3] = C!Line("lastclient", 0) /\ a[4] = C!Line("clients", Len(h))
  BY FourLines
<1>2. IsSequence(e) /\ Len(e) = 1 /\ e[1] = C!Line("endconfig", 0)  BY Single
<1>3. DOMAIN h = 1 .. n  BY SequenceFacts
<1>4. b = [i \in 1 .. n |-> b[i]] /\ \A i \in 1 .. n : b[i] = C!Line("host", h[i])  BY <1>3
<1>5. s = (a \o b) \o e  BY DEF C!HostsSection
<1> HIDE DEF a, b, e
<1>6. IsSequence(b) /\ Len(b) = n  BY <1>4, BuiltSequence
<1>7. /\ IsSequence(a \o b) /\ Len(a \o b) = 4 + n
      /\ \A i \in 1 .. 4 : (a \o b)[i] = a[i]
      /\ \A i \in 1 .. n : (a \o b)[4 + i] = b[i]
  <2>1. /\ IsSequence(a \o b) /\ Len(a \o b) = Len(a) + Len(b)
        /\ \A i \in 1 .. Len(a) : (a \o b)[i] = a[i]
        /\ \A i \in 1 .. Len(b) : (a \o b)[Len(a) + i] = b[i]
    <3>1. IsSequence(a) /\ IsSequence(b)  BY <1>1, <1>6
    <3> QED BY <3>1, Joined
  <2> QED BY <1>1, <1>6, <2>1
<1>8. PICK c : c = a \o b  OBVIOUS
<1>9. /\ IsSequence(c \o e) /\ Len(c \o e) = 4 + n + 1
      /\ \A i \in 1 .. 4 + n : (c \o e)[i] = c[i]
      /\ (c \o e)[4 + n + 1] = C!Line("endconfig", 0)
  <2>0. IsSequence(c) /\ Len(c) = 4 + n  BY <1>7, <1>8
  <2>1. /\ IsSequence(c \o e) /\ Len(c \o e) = Len(c) + Len(e)
        /\ \A i \in 1 .. Len(c) : (c \o e)[i] = c[i]
        /\ \A i \in 1 .. Len(e) : (c \o e)[Len(c) + i] = e[i]
    <3>1. IsSequence(c) /\ IsSequence(e)  BY <2>0, <1>2
    <3> QED BY <3>1, Joined
  <2> QED BY <1>2, <2>0, <2>1
<1>10. /\ s[1] = a[1] /\ s[2] = a[2] /\ s[3] = a[3] /\ s[4] = a[4]
       /\ \A i \in 1 .. n : s[4 + i] = b[i]
       /\ s[n + 5] = C!Line("endconfig", 0)
  <2>1. s = c \o e  BY <1>5, <1>8
  <2>2. \A i \in 1 .. 4 : i \in 1 .. 4 + n  OBVIOUS
  <2>3. \A i \in 1 .. n : 4 + i \in 1 .. 4 + n  OBVIOUS
  <2>4. \A i \in 1 .. 4 : s[i] = a[i]  BY <1>7, <1>8, <1>9, <2>1, <2>2
  <2>5. \A i \in 1 .. n : s[4 + i] = b[i]  BY <1>7, <1>8, <1>9, <2>1, <2>3
  <2>6. n + 5 = 4 + n + 1  OBVIOUS
  <2> QED BY <1>9, <2>1, <2>4, <2>5, <2>6
<1>11. IsSequence(s) /\ Len(s) = n + 5  BY <1>5, <1>8, <1>9
<1>12. /\ s[1].key = "server" /\ s[2].key = "firstclient" /\ s[3].key = "lastclient"
       /\ s[4].key = "clients" /\ s[4].arg = n /\ s[n + 5].key = "endconfig"
  BY <1>1, <1>10 DEF C!Line
<1> QED BY <1>4, <1>10, <1>11, <1>12

\* What its writer had in mind is a file that is right.
Meant ==
  /\ meant.files \in C!FilesSections /\ meant.hosts \in HostLists
  /\ lines \in {C!MeantLines} \cup C!Slips(C!MeantLines)

LEMMA MeantIsRight ==
  ASSUME Meant
  PROVE  \E f \in Nat, n \in Nat :
           /\ f >= 2 /\ n >= 1 /\ f = Len(meant.files) /\ n = Len(meant.hosts)
           /\ Writing(C!MeantLines, f, n)
           /\ \A i \in 1 .. f : C!MeantLines[i] = meant.files[i]
           /\ \A i \in 1 .. n : C!MeantLines[f + 4 + i] = C!Line("host", meant.hosts[i])
<1> DEFINE a == meant.files
           h == meant.hosts
           b == C!HostsSection(h)
<1>1. FilesLines(a)  BY FilesShape DEF Meant
<1>2. PICK f \in Nat : f = Len(a) /\ f >= 2
  <2>1. IsSequence(a) /\ Len(a) >= 2  BY <1>1 DEF FilesLines
  <2>2. Len(a) \in Nat  BY <2>1, SequenceFacts
  <2> QED BY <2>1, <2>2
<1>3. PICK n \in Nat : n = Len(h) /\ n >= 1 /\ IsSequence(h)
  <2>1. h \in Seq(DOMAIN NameLength) /\ h # <<>>  BY StartupAssumption DEF Meant
  <2>2. IsSequence(h)  BY <2>1 DEF IsSequence
  <2>3. Len(h) \in Nat /\ Len(h) > 0  BY <2>1
  <2> QED BY <2>2, <2>3
<1>4. /\ IsSequence(b) /\ Len(b) = n + 5
      /\ b[1].key = "server" /\ b[2].key = "firstclient" /\ b[3].key = "lastclient"
      /\ b[4].key = "clients" /\ b[4].arg = n /\ b[n + 5].key = "endconfig"
      /\ \A i \in 1 .. n : b[4 + i] = C!Line("host", h[i])
  BY <1>3, HostsShape
<1>5. C!MeantLines = a \o b  BY DEF C!MeantLines
<1>6. /\ IsSequence(a) /\ FirstIs(a, f) /\ \A i \in 1 .. f : GoodLine(a[i])
      /\ \A i \in 2 .. f : a[i].key \in {"outfile", "file"}
      /\ a[1].key = "iofiles" => \A i \in 2 .. f : a[i].arg = C!IoFile(a[i].arg.op, a[i].arg.name)
  BY <1>1, <1>2 DEF FilesLines
<1> HIDE DEF a, h, b
<1>7. PICK w : w = a \o b  OBVIOUS
<1>8. /\ IsSequence(w) /\ Len(w) = f + (n + 5)
      /\ \A i \in 1 .. f : w[i] = a[i]
      /\ \A i \in 1 .. n + 5 : w[f + i] = b[i]
  <2>1. IsSequence(a) /\ IsSequence(b)  BY <1>4, <1>6
  <2>2. /\ IsSequence(a \o b) /\ Len(a \o b) = Len(a) + Len(b)
        /\ \A i \in 1 .. Len(a) : (a \o b)[i] = a[i]
        /\ \A i \in 1 .. Len(b) : (a \o b)[Len(a) + i] = b[i]
    BY <2>1, Joined
  <2> QED BY <1>2, <1>4, <1>7, <2>2
<1>9. FirstIs(w, f)
  <2>1. w[1] = a[1]  BY <1>2, <1>8
  <2> QED BY <1>6, <2>1 DEF FirstIs
<1>10. Keywords(w, f, n)
  <2>1. /\ w[f + 1] = b[1] /\ w[f + 2] = b[2] /\ w[f + 3] = b[3] /\ w[f + 4] = b[4]
        /\ w[f + (n + 5)] = b[n + 5] /\ f + (n + 5) = f + n + 5
    BY <1>8
  <2> QED BY <1>4, <2>1 DEF Keywords
<1>11. \A i \in 1 .. n : w[f + 4 + i] = C!Line("host", h[i])
  <2> SUFFICES ASSUME NEW i \in 1 .. n PROVE w[f + 4 + i] = C!Line("host", h[i])  OBVIOUS
  <2>1. 4 + i \in 1 .. n + 5 /\ f + (4 + i) = f + 4 + i  OBVIOUS
  <2>2. w[f + (4 + i)] = b[4 + i]  BY <1>8, <2>1
  <2> QED BY <1>4, <2>1, <2>2
<1>12. ASSUME NEW i \in f + 5 .. f + n + 4 PROVE w[i].key = "host"
  <2>1. PICK j \in 1 .. n : f + 4 + j = i
    <3>1. i - (f + 4) \in 1 .. n /\ f + 4 + (i - (f + 4)) = i  OBVIOUS
    <3> QED BY <3>1
  <2>2. w[i] = C!Line("host", h[j])  BY <1>11, <2>1
  <2> QED BY <2>2 DEF C!Line
<1>13. \A i \in 2 .. f : w[i].key \in {"outfile", "file"}
  <2>1. \A i \in 2 .. f : i \in 1 .. f  OBVIOUS
  <2> QED BY <1>6, <1>8, <2>1
<1>14. Right(w, f, n)  BY <1>8, <1>9, <1>10, <1>12, <1>13 DEF Right
<1>15. ASSUME NEW i \in 1 .. Len(w) PROVE GoodLine(w[i])
  <2>1. CASE i \in 1 .. f  BY <1>6, <1>8, <2>1
  <2>2. CASE i \notin 1 .. f /\ i # f + 4
    <3>1. i \in {f + 1, f + 2, f + 3, f + n + 5} \/ i \in f + 5 .. f + n + 4  BY <1>8, <2>2
    <3>2. w[i].key \in {"server", "firstclient", "lastclient", "endconfig", "host"}
      BY <1>10, <1>12, <3>1 DEF Keywords
    <3> QED BY <3>2 DEF GoodLine
  <2>3. CASE i = f + 4  BY <1>10, <2>3 DEF Keywords, GoodLine
  <2> QED BY <2>1, <2>2, <2>3
<1>16. w[1].key = "iofiles" => \A i \in 2 .. f : w[i].arg = C!IoFile(w[i].arg.op, w[i].arg.name)
  <2>1. \A i \in 2 .. f : i \in 1 .. f  OBVIOUS
  <2>2. 1 \in 1 .. f  BY <1>2
  <2> QED BY <1>6, <1>8, <2>1, <2>2
<1>17. Writing(w, f, n)  BY <1>14, <1>15, <1>16 DEF Writing
<1> QED BY <1>2, <1>3, <1>5, <1>7, <1>8, <1>11, <1>17, Zenon DEF a, h

\* A line of a file with a slip is one that was meant, or the comment, or has another count.
LEMMA SlipLines ==
  ASSUME NEW w, IsSequence(w), \A i \in 1 .. Len(w) : GoodLine(w[i]),
         NEW l, l \in {w} \cup C!Slips(w)
  PROVE  IsSequence(l) /\ \A i \in 1 .. Len(l) : GoodLine(l[i])
<1>0. PICK n \in Nat : n = Len(w) /\ DOMAIN w = 1 .. n  BY SequenceFacts, Zenon
<1>1. ASSUME NEW i \in 1 .. n, l = C!InsertAt(w, i, C!Line("#", 0))
      PROVE  IsSequence(l) /\ \A j \in 1 .. Len(l) : GoodLine(l[j])
  <2>1. PICK c : c = C!Line("#", 0)  OBVIOUS
  <2>2. l = C!InsertAt(w, i, c) /\ i \in 1 .. Len(w)  BY <1>0, <1>1, <2>1
  <2>3. IsSequence(l)  BY <2>2, Inserted
  <2>4. /\ Len(l) = n + 1 /\ l[i] = c /\ \A j \in 1 .. i - 1 : l[j] = w[j]
        /\ \A j \in i + 1 .. n + 1 : l[j] = w[j - 1]
    BY <1>0, <2>2, InsertedIs
  <2>5. GoodLine(c)  BY <2>1 DEF GoodLine, C!Line
  <2>6. ASSUME NEW j \in 1 .. n + 1 PROVE GoodLine(l[j])
    <3>1. CASE j < i  BY <1>0, <2>4, <3>1
    <3>2. CASE j = i  BY <2>4, <2>5, <3>2
    <3>3. CASE j > i
      <4>1. l[j] = w[j - 1] /\ j - 1 \in 1 .. Len(w)  BY <1>0, <2>4, <3>3
      <4> QED BY <4>1
    <3> QED BY <3>1, <3>2, <3>3
  <2> QED BY <2>3, <2>4, <2>6
<1>2. ASSUME NEW i \in 0 .. n - 1, l = SubSeq(w, 1, i)
      PROVE  IsSequence(l) /\ \A j \in 1 .. Len(l) : GoodLine(l[j])
  <2>1. /\ 1 \in 1 .. n + 1 /\ i \in 0 .. n /\ 1 <= i + 1 /\ i - 1 + 1 = i  BY <1>0
  <2>2. /\ IsSequence(l) /\ Len(l) = i - 1 + 1
        /\ \A j \in 1 .. i - 1 + 1 : l[j] = w[1 + j - 1]
    BY <1>0, <1>2, <2>1, CutOut, Zenon
  <2>3. \A j \in 1 .. i : 1 + j - 1 = j /\ j \in 1 .. Len(w)  BY <1>0
  <2> QED BY <2>1, <2>2, <2>3
<1>3. ASSUME NEW i \in 1 .. n, C!Counts(w[i]), NEW d \in {-1, 1},
             l = C!ReplaceAt(w, i, C!Line(w[i].key, w[i].arg + d))
      PROVE  IsSequence(l) /\ \A j \in 1 .. Len(l) : GoodLine(l[j])
  <2>1. PICK c : c = C!Line(w[i].key, w[i].arg + d)  OBVIOUS
  <2>2. l = C!ReplaceAt(w, i, c) /\ i \in 1 .. Len(w)  BY <1>0, <1>3, <2>1
  <2>3. /\ IsSequence(l) /\ Len(l) = n /\ l[i] = c
        /\ \A j \in 1 .. n : j # i => l[j] = w[j]
    BY <1>0, <2>2, Replaced
  <2>4. GoodLine(c)
    <3>1. w[i].key \in {"iofiles", "clients"}  BY <1>3 DEF C!Counts
    <3>2. w[i].arg \in Int  BY <2>2, <3>1 DEF GoodLine
    <3>3. c.key \in {"iofiles", "clients"} /\ c.arg = w[i].arg + d  BY <2>1, <3>1 DEF C!Line
    <3>4. c.arg \in Int  BY <3>2, <3>3
    <3> QED BY <3>3, <3>4 DEF GoodLine
  <2>5. \A j \in 1 .. n : GoodLine(l[j])  BY <1>0, <2>3, <2>4
  <2> QED BY <2>3, <2>5
<1>4. ASSUME NEW i \in 1 .. n, l = C!RemoveAt(w, i)
      PROVE  IsSequence(l) /\ \A j \in 1 .. Len(l) : GoodLine(l[j])
  <2>1. /\ IsSequence(l) /\ Len(l) = n - 1
        /\ \A j \in 1 .. i - 1 : l[j] = w[j]
        /\ \A j \in i .. n - 1 : l[j] = w[j + 1]
    BY <1>0, <1>4, Removed
  <2>2. ASSUME NEW j \in 1 .. n - 1 PROVE GoodLine(l[j])
    <3>1. CASE j < i  BY <1>0, <2>1, <3>1
    <3>2. CASE j >= i
      <4>1. l[j] = w[j + 1] /\ j + 1 \in 1 .. Len(w)  BY <1>0, <2>1, <3>2
      <4> QED BY <4>1
    <3> QED BY <3>1, <3>2
  <2> QED BY <2>1, <2>2
<1>5. CASE l \in {C!InsertAt(w, i, C!Line("#", 0)) : i \in DOMAIN w}  BY <1>0, <1>1, <1>5, Zenon
<1>6. CASE l \in {SubSeq(w, 1, i) : i \in 0 .. Len(w) - 1}  BY <1>0, <1>2, <1>6, Zenon
<1>7. CASE l \in {C!ReplaceAt(w, i, C!Line(w[i].key, w[i].arg + d)) :
                   i \in {j \in DOMAIN w : C!Counts(w[j])}, d \in {-1, 1}}
  <2>1. PICK i \in {j \in DOMAIN w : C!Counts(w[j])}, d \in {-1, 1} :
               l = C!ReplaceAt(w, i, C!Line(w[i].key, w[i].arg + d))
    BY <1>7
  <2>2. i \in 1 .. n /\ C!Counts(w[i])  BY <1>0, <2>1
  <2> QED BY <1>3, <2>1, <2>2, Zenon
<1>8. CASE l \in {C!RemoveAt(w, i) : i \in DOMAIN w}  BY <1>0, <1>4, <1>8, Zenon
<1>9. CASE l = w  BY <1>9
<1> QED BY <1>5, <1>6, <1>7, <1>8, <1>9 DEF C!Slips

-----------------------------------------------------------------------------
(***************************************************************************)
(* parse(), line by line.                                                  *)
(***************************************************************************)
\* What parse() does once the files are read.
AfterFiles == {"server", "firstclient", "lastclient", "clients", "host", "endconfig", "parsed"}
Begun(d, g) == \* The first d of the lines between the files and the hosts are right.
  /\ d >= 1 => lines[g + 1].key = "server"
  /\ d >= 2 => lines[g + 2].key = "firstclient"
  /\ d >= 3 => lines[g + 3].key = "lastclient"
Headed(g, k) == Begun(3, g) /\ lines[g + 4].key = "clients" /\ lines[g + 4].arg = k

\* Where parse() is, when the first line says that there are g - 1 lines of files after
\* it, and the fourth after those that there are k hosts.
InPlace(g, k) ==
  /\ want = "files" => at = 1
  /\ want = "outfile" => /\ at = 2 /\ g = 2 /\ infile = lines[1].arg
                         /\ lines[1].key \in {"infile", "compressed_infile"}
  /\ want = "file" => /\ lines[1].key = "iofiles" /\ lines[1].arg = g - 1
                      /\ at \in 2 .. g /\ left = g - at + 1
  /\ want \in AfterFiles => FirstIs(lines, g)
  /\ want = "server" => at = g + 1
  /\ want = "firstclient" => at = g + 2 /\ Begun(1, g)
  /\ want = "lastclient" => at = g + 3 /\ Begun(2, g)
  /\ want = "clients" => at = g + 4 /\ Begun(3, g)
  /\ want = "host" => at \in g + 5 .. g + k + 4 /\ left = g + k + 5 - at /\ Headed(g, k)
  /\ want = "endconfig" => at = g + k + 5 /\ Headed(g, k)
  /\ want = "parsed" => Accepted(lines, g, k)

\* The files of the first m lines of an iofiles section, or the one of the others.
FilesRead(m) ==
  IF lines[1].key = "iofiles"
  THEN /\ Len(filelist) = m
       /\ \A i \in 1 .. m : /\ filelist[i].name = lines[1 + i].arg.name
                            /\ filelist[i].op = lines[1 + i].arg.op
  ELSE Len(filelist) = 1 /\ filelist[1].name = lines[1].arg
FilesFound(g) ==
  /\ want \in {"files", "outfile"} => filelist = <<>>
  /\ want = "file" => FilesRead(at - 2)
  /\ want \in AfterFiles => FilesRead(g - 1)

\* The server, and a host for each of the first m lines of the hosts.
HostOf(x, i) == [name |-> IF x.key = "host" THEN x.arg ELSE x.key,
                 flag |-> IF i = 1 THEN "CALL_HOST" ELSE "NOAVIL_HOST"]
HostsRead(g, m) ==
  /\ Len(hostlist) = m + 1 /\ hostlist[1] = [name |-> "server", flag |-> "AVAIL_HOST"]
  /\ \A i \in 1 .. m : hostlist[1 + i] = HostOf(lines[g + 4 + i], i)
HostsFound(g, k) ==
  /\ want \in {"files", "outfile", "file", "server", "firstclient", "lastclient", "clients"} =>
       hostlist = <<>>
  /\ want = "host" => HostsRead(g, at - g - 5)
  /\ want \in {"endconfig", "parsed"} => HostsRead(g, k)

\* The flag of a file that is to be cooked is the one of its name.
Marking(file) == file.name \in Names /\ (C!Cooked(file) => file.flag = C!CheckFilename(file.name))
Marked ==
  /\ \A i \in 1 .. Len(filelist) : Marking(filelist[i])
  /\ want = "outfile" => /\ infile \in Names
                         /\ lines[1].key = "compressed_infile" => cook_flag = C!CheckFilename(infile)

Found(g, k) == g >= 2 /\ k >= 1 /\ InPlace(g, k) /\ FilesFound(g) /\ HostsFound(g, k)
ParserInv ==
  /\ Meant /\ IsSequence(filelist) /\ IsSequence(hostlist) /\ Marked
  /\ \E g \in Nat, k \in Nat : Found(g, k)

LEMMA GoodLines ==
  ASSUME Meant
  PROVE  IsSequence(lines) /\ \A i \in 1 .. Len(lines) : GoodLine(lines[i])
<1>1. PICK f \in Nat, n \in Nat : Writing(C!MeantLines, f, n)  BY MeantIsRight, Zenon
<1>2. IsSequence(C!MeantLines) /\ \A i \in 1 .. Len(C!MeantLines) : GoodLine(C!MeantLines[i])
  BY <1>1 DEF Writing, Right
<1>3. lines \in {C!MeantLines} \cup C!Slips(C!MeantLines)  BY DEF Meant
<1> QED BY <1>2, <1>3, SlipLines, Zenon

LEMMA Empty == IsSequence(<<>>) /\ Len(<<>>) = 0
<1>1. <<>> \in Seq({})  OBVIOUS
<1> QED BY <1>1 DEF IsSequence

LEMMA InitParser ==
  ASSUME C!Init
  PROVE  ParserInv
<1>1. Meant  BY DEF C!Init, Meant
<1>2. at = 1 /\ want = "files" /\ filelist = <<>> /\ hostlist = <<>>  BY DEF C!Init
<1>3. Found(2, 1)
  <2>1. InPlace(2, 1)  BY <1>2 DEF InPlace, AfterFiles
  <2>2. FilesFound(2)  BY <1>2 DEF FilesFound, AfterFiles
  <2>3. HostsFound(2, 1)  BY <1>2 DEF HostsFound
  <2> QED BY <2>1, <2>2, <2>3 DEF Found
<1>4. Marked  BY <1>2, Empty DEF Marked
<1> QED BY <1>1, <1>2, <1>3, <1>4, Empty DEF ParserInv

LEMMA RefusedParser ==
  ASSUME ParserInv, want' = "refused", UNCHANGED <<meant, lines, filelist, hostlist>>
  PROVE  ParserInv'
<1>1. Meant'  BY DEF ParserInv, Meant, C!MeantLines
<1>2. Marked'  BY DEF ParserInv, Marked
<1>3. Found(2, 1)'
  <2>1. InPlace(2, 1)'  BY DEF InPlace, AfterFiles
  <2>2. FilesFound(2)'  BY DEF FilesFound, AfterFiles
  <2>3. HostsFound(2, 1)'  BY DEF HostsFound
  <2> QED BY <2>1, <2>2, <2>3 DEF Found
<1> QED BY <1>1, <1>2, <1>3 DEF ParserInv

LEMMA StillParser == ParserInv /\ UNCHANGED config => ParserInv'
<1> SUFFICES ASSUME ParserInv, UNCHANGED config PROVE ParserInv'  OBVIOUS
<1>1. UNCHANGED <<meant, lines, at, want, left, cook_flag, infile, filelist, hostlist>>
  BY DEF config
<1>2. PICK g \in Nat, k \in Nat : Found(g, k)  BY DEF ParserInv
<1>3. InPlace(g, k)'
  BY <1>1, <1>2 DEF Found, InPlace, Begun, Headed, FirstIs, Accepted, Keywords
<1>4. FilesFound(g)' /\ HostsFound(g, k)'
  BY <1>1, <1>2 DEF Found, FilesFound, FilesRead, HostsFound, HostsRead
<1>5. Found(g, k)'  BY <1>2, <1>3, <1>4 DEF Found
<1>6. Meant' /\ Marked'  BY <1>1 DEF ParserInv, Meant, C!MeantLines, Marked
<1> QED BY <1>1, <1>5, <1>6 DEF ParserInv

LEMMA MeantSame == ParserInv /\ UNCHANGED <<meant, lines>> => Meant'
BY DEF ParserInv, Meant, C!MeantLines

LEMMA FirstLineParser == ParserInv /\ C!FirstLine => ParserInv'
<1> SUFFICES ASSUME ParserInv, C!FirstLine PROVE ParserInv'  OBVIOUS
<1>1. PICK g \in Nat, k \in Nat : Found(g, k)  BY DEF ParserInv
<1>2. /\ at = 1 /\ want = "files" /\ 1 <= Len(lines) /\ filelist = <<>> /\ hostlist = <<>>
      /\ UNCHANGED <<meant, lines, filelist, hostlist>>
  BY <1>1 DEF C!FirstLine, C!Reads, Found, InPlace, FilesFound, HostsFound
<1> DEFINE x == lines[1]
<1>3. \/ /\ x.key \in {"infile", "compressed_infile"} /\ infile' = x.arg /\ want' = "outfile" /\ at' = 2
         /\ x.key = "compressed_infile" => cook_flag' = C!CheckFilename(x.arg)
      \/ /\ x.key = "iofiles" /\ x.arg >= 1 /\ left' = x.arg /\ want' = "file" /\ at' = 2
      \/ want' = "refused"
  BY <1>2 DEF C!FirstLine, C!line, C!Go
<1>4. IsSequence(lines) /\ GoodLine(x)
  <2>1. Meant  BY DEF ParserInv
  <2>2. 1 \in 1 .. Len(lines)  BY <1>2, <2>1, GoodLines, SequenceFacts
  <2> QED BY <2>1, <2>2, GoodLines
<1>5. Meant'  BY <1>2, MeantSame
<1>6. CASE /\ x.key \in {"infile", "compressed_infile"} /\ infile' = x.arg /\ want' = "outfile" /\ at' = 2
           /\ x.key = "compressed_infile" => cook_flag' = C!CheckFilename(x.arg)
  <2>1. InPlace(2, 1)'  BY <1>2, <1>6 DEF InPlace, AfterFiles
  <2>2. FilesFound(2)'  BY <1>2, <1>6 DEF FilesFound, AfterFiles
  <2>3. HostsFound(2, 1)'  BY <1>2, <1>6 DEF HostsFound
  <2>4. Found(2, 1)'  BY <2>1, <2>2, <2>3 DEF Found
  <2>5. Marked'  BY <1>2, <1>4, <1>6, Empty DEF Marked, GoodLine
  <2> QED BY <1>2, <1>5, <2>4, <2>5, Empty DEF ParserInv
<1>7. CASE x.key = "iofiles" /\ x.arg >= 1 /\ left' = x.arg /\ want' = "file" /\ at' = 2
  <2>1. PICK m \in Nat : m = x.arg /\ m >= 1
    <3>1. x.arg \in Int  BY <1>4, <1>7 DEF GoodLine
    <3> QED BY <1>7, <3>1
  <2>2. InPlace(m + 1, 1)'
    <3>1. x' = x /\ m = (m + 1) - 1 /\ 2 \in 2 .. m + 1 /\ m = (m + 1) - 2 + 1  BY <1>2, <2>1
    <3> QED BY <1>2, <1>7, <2>1, <3>1 DEF InPlace, AfterFiles
  <2>3. FilesFound(m + 1)'
    <3>1. at' - 2 = 0  BY <1>7
    <3>2. FilesRead(0)'  BY <1>2, <1>7, Empty DEF FilesRead
    <3> QED BY <1>2, <1>7, <3>1, <3>2 DEF FilesFound, AfterFiles
  <2>4. HostsFound(m + 1, 1)'  BY <1>2, <1>7 DEF HostsFound
  <2>5. Found(m + 1, 1)'  BY <2>1, <2>2, <2>3, <2>4 DEF Found
  <2>6. Marked'  BY <1>2, <1>7, Empty DEF Marked
  <2>7. m + 1 \in Nat  OBVIOUS
  <2> QED BY <1>2, <1>5, <2>5, <2>6, <2>7, Empty DEF ParserInv
<1>8. CASE want' = "refused"  BY <1>2, <1>8, RefusedParser
<1> QED BY <1>3, <1>6, <1>7, <1>8
LEMMA OutfileLineParser == ParserInv /\ C!OutfileLine => ParserInv'
<1> SUFFICES ASSUME ParserInv, C!OutfileLine PROVE ParserInv'  OBVIOUS
<1>1. PICK g \in Nat, k \in Nat : Found(g, k)  BY DEF ParserInv
<1>2. want = "outfile" /\ UNCHANGED <<meant, lines, hostlist>>
  BY DEF C!OutfileLine, C!Reads, C!Refuse
<1>3. /\ at = 2 /\ g = 2 /\ infile = lines[1].arg /\ hostlist = <<>>
      /\ lines[1].key \in {"infile", "compressed_infile"}
  BY <1>1, <1>2 DEF Found, InPlace, HostsFound
<1>4. CASE want' = "refused"
  <2>1. UNCHANGED filelist  BY <1>4 DEF C!OutfileLine, C!Refuse, C!Go
  <2> QED BY <1>2, <1>4, <2>1, RefusedParser
<1>5. CASE want' # "refused"
  <2> DEFINE e == [name |-> infile, op |-> lines[1].key, flag |-> cook_flag]
  <2>1. want' = "server" /\ at' = 3 /\ filelist' = <<e>>
    BY <1>2, <1>3, <1>5 DEF C!OutfileLine, C!Refuse, C!Go
  <2>2. e.name = infile /\ e.op = lines[1].key /\ e.flag = cook_flag  OBVIOUS
  <2> HIDE DEF e
  <2>3. IsSequence(filelist') /\ Len(filelist') = 1 /\ filelist'[1] = e  BY <2>1, Single
  <2>4. Marking(e)
    <3>1. infile \in Names /\ (lines[1].key = "compressed_infile" => cook_flag = C!CheckFilename(infile))
      BY <1>2 DEF ParserInv, Marked
    <3> QED BY <1>3, <2>2, <3>1 DEF Marking, C!Cooked
  <2>5. Marked'
    <3>1. \A i \in 1 .. 1 : i = 1  OBVIOUS
    <3> QED BY <2>1, <2>3, <2>4, <3>1 DEF Marked
  <2>6. InPlace(2, k)'  BY <1>2, <1>3, <2>1 DEF InPlace, AfterFiles, FirstIs
  <2>7. FilesFound(2)'
    <3>1. FilesRead(2 - 1)'  BY <1>2, <1>3, <2>2, <2>3 DEF FilesRead
    <3> QED BY <2>1, <3>1 DEF FilesFound, AfterFiles
  <2>8. HostsFound(2, k)'  BY <1>2, <1>3, <2>1 DEF HostsFound
  <2>9. Found(2, k)'  BY <1>1, <2>6, <2>7, <2>8 DEF Found
  <2>10. Meant' /\ IsSequence(hostlist')  BY <1>2, MeantSame DEF ParserInv
  <2> QED BY <2>3, <2>5, <2>9, <2>10 DEF ParserInv
<1> QED BY <1>4, <1>5

LEMMA FileLineParser == ParserInv /\ C!FileLine => ParserInv'
<1> SUFFICES ASSUME ParserInv, C!FileLine PROVE ParserInv'  OBVIOUS
<1>1. PICK g \in Nat, k \in Nat : Found(g, k)  BY DEF ParserInv
<1>2. want = "file" /\ at <= Len(lines) /\ UNCHANGED <<meant, lines, hostlist>>
  BY DEF C!FileLine, C!Reads, C!Refuse
<1>3. /\ lines[1].key = "iofiles" /\ lines[1].arg = g - 1 /\ at \in 2 .. g /\ left = g - at + 1
      /\ FilesRead(at - 2) /\ hostlist = <<>>
  BY <1>1, <1>2 DEF Found, InPlace, FilesFound, HostsFound
<1>4. CASE want' = "refused"
  <2>1. UNCHANGED filelist  BY <1>4 DEF C!FileLine, C!Refuse, C!Go
  <2> QED BY <1>2, <1>4, <2>1, RefusedParser
<1>5. CASE want' # "refused"
  <2> DEFINE x == lines[at]
             e == [name |-> x.arg.name, op |-> x.arg.op, flag |-> cook_flag']
  <2>1. /\ x.key = "file" /\ filelist' = Append(filelist, e) /\ left' = left - 1 /\ at' = at + 1
        /\ want' = IF left = 1 THEN "server" ELSE "file"
        /\ x.arg.op = ">>" => cook_flag' = C!CheckFilename(x.arg.name)
    BY <1>5 DEF C!FileLine, C!Refuse, C!Go, C!line
  <2>2. e.name = x.arg.name /\ e.op = x.arg.op /\ e.flag = cook_flag'  OBVIOUS
  <2>3. x.arg.name \in Names /\ x.arg.op \in {">", ">>"}
    <3>1. Meant  BY DEF ParserInv
    <3>2. at \in 1 .. Len(lines)  BY <1>2, <1>3, <3>1, GoodLines, SequenceFacts
    <3> QED BY <2>1, <3>1, <3>2, GoodLines DEF GoodLine
  <2>4. PICK m \in Nat : m = at - 2 /\ Len(filelist) = m /\ at = 1 + (m + 1)
    BY <1>3 DEF FilesRead
  <2>5. \A i \in 1 .. m : /\ filelist[i].name = lines[1 + i].arg.name
                          /\ filelist[i].op = lines[1 + i].arg.op
    BY <1>3, <2>4 DEF FilesRead
  <2>6. e.name = lines[1 + (m + 1)].arg.name /\ e.op = lines[1 + (m + 1)].arg.op  BY <2>2, <2>4
  <2>7. \A i \in 1 .. m : Marking(filelist[i])  BY <2>4 DEF ParserInv, Marked
  <2>9. Marking(e)
    <3>1. e.name \in Names  BY <2>2, <2>3
    <3>2. ASSUME C!Cooked(e) PROVE e.flag = C!CheckFilename(e.name)
      <4>1. x.arg.op = ">>"  BY <2>2, <2>3, <3>2 DEF C!Cooked
      <4> QED BY <2>1, <2>2, <4>1
    <3> QED BY <3>1, <3>2 DEF Marking
  <2> HIDE DEF x, e
  <2>10. /\ IsSequence(filelist') /\ Len(filelist') = m + 1 /\ filelist'[m + 1] = e
         /\ \A i \in 1 .. m : filelist'[i] = filelist[i]
    <3>1. IsSequence(filelist)  BY DEF ParserInv
    <3> QED BY <2>1, <2>4, <3>1, Appended
  <2>11. FilesRead(m + 1)'
    <3>1. ASSUME NEW i \in 1 .. m + 1
          PROVE  filelist'[i].name = lines[1 + i].arg.name /\ filelist'[i].op = lines[1 + i].arg.op
      <4>1. CASE i = m + 1  BY <2>6, <2>10, <4>1
      <4>2. CASE i \in 1 .. m  BY <2>5, <2>10, <4>2
      <4> QED BY <4>1, <4>2
    <3> QED BY <1>2, <1>3, <2>10, <3>1 DEF FilesRead
  <2>12. Marked'
    <3>1. ASSUME NEW i \in 1 .. m + 1 PROVE Marking(filelist'[i])
      <4>1. CASE i = m + 1  BY <2>9, <2>10, <4>1
      <4>2. CASE i \in 1 .. m  BY <2>7, <2>10, <4>2
      <4> QED BY <4>1, <4>2
    <3> QED BY <2>1, <2>10, <3>1 DEF Marked
  <2>13. InPlace(g, k)' /\ FilesFound(g)'
    <3>1. CASE left = 1
      <4>1. want' = "server" /\ at' = g + 1 /\ m + 1 = g - 1  BY <1>3, <2>1, <2>4, <3>1
      <4>2. FirstIs(lines', g)  BY <1>2, <1>3 DEF FirstIs
      <4> QED BY <2>11, <4>1, <4>2 DEF InPlace, FilesFound, AfterFiles
    <3>2. CASE left # 1
      <4>1. /\ want' = "file" /\ at' \in 2 .. g /\ left' = g - at' + 1 /\ at' - 2 = m + 1
        BY <1>3, <2>1, <2>4, <3>2
      <4> QED BY <1>2, <1>3, <2>11, <4>1 DEF InPlace, FilesFound, AfterFiles
    <3> QED BY <3>1, <3>2
  <2>14. HostsFound(g, k)'  BY <1>2, <1>3, <2>1 DEF HostsFound
  <2>15. Found(g, k)'  BY <1>1, <2>13, <2>14 DEF Found
  <2>16. Meant' /\ IsSequence(hostlist')  BY <1>2, MeantSame DEF ParserInv
  <2> QED BY <2>10, <2>12, <2>15, <2>16 DEF ParserInv
<1> QED BY <1>4, <1>5

LEMMA KeywordLineParser == ParserInv /\ C!KeywordLine => ParserInv'
<1> SUFFICES ASSUME ParserInv, C!KeywordLine PROVE ParserInv'  OBVIOUS
<1>1. PICK g \in Nat, k \in Nat : Found(g, k)  BY DEF ParserInv
<1>2. /\ want \in {"server", "firstclient", "lastclient", "endconfig"} /\ at <= Len(lines)
      /\ UNCHANGED <<meant, lines, filelist, hostlist>>
  BY DEF C!KeywordLine, C!Following, C!Refuse
<1>3. CASE want' = "refused"  BY <1>2, <1>3, RefusedParser
<1>4. CASE want' # "refused"
  <2>1. /\ lines[at].key = want /\ at' = at + 1
        /\ want = "server" => want' = "firstclient"
        /\ want = "firstclient" => want' = "lastclient"
        /\ want = "lastclient" => want' = "clients"
        /\ want = "endconfig" => want' = "parsed"
    BY <1>4 DEF C!KeywordLine, C!Following, C!Refuse, C!Go, C!line
  <2>2. FirstIs(lines, g) /\ FilesRead(g - 1)
    BY <1>1, <1>2 DEF Found, InPlace, FilesFound, AfterFiles
  <2>3. FirstIs(lines', g) /\ FilesRead(g - 1)'  BY <1>2, <2>2 DEF FilesRead
  <2>4. FilesFound(g)'  BY <1>2, <2>1, <2>3 DEF FilesFound, AfterFiles
  <2>5. Meant' /\ IsSequence(filelist') /\ IsSequence(hostlist')
    BY <1>2, MeantSame DEF ParserInv
  <2>6. Marked'  BY <1>2, <2>1 DEF ParserInv, Marked
  <2>7. InPlace(g, k)' /\ HostsFound(g, k)'
    <3>1. CASE want = "server"
      <4>1. lines'[g + 1].key = "server" /\ want' = "firstclient" /\ at' = g + 2
        BY <1>1, <1>2, <2>1, <3>1 DEF Found, InPlace
      <4>2. Begun(1, g)'  BY <4>1 DEF Begun
      <4>3. hostlist' = <<>>  BY <1>1, <1>2, <3>1 DEF Found, HostsFound
      <4> QED BY <2>3, <4>1, <4>2, <4>3 DEF InPlace, HostsFound
    <3>2. CASE want = "firstclient"
      <4>1. /\ lines'[g + 2].key = "firstclient" /\ want' = "lastclient" /\ at' = g + 3
            /\ Begun(1, g)
        BY <1>1, <1>2, <2>1, <3>2 DEF Found, InPlace
      <4>2. Begun(2, g)'  BY <1>2, <4>1 DEF Begun
      <4>3. hostlist' = <<>>  BY <1>1, <1>2, <3>2 DEF Found, HostsFound
      <4> QED BY <2>3, <4>1, <4>2, <4>3 DEF InPlace, HostsFound
    <3>3. CASE want = "lastclient"
      <4>1. /\ lines'[g + 3].key = "lastclient" /\ want' = "clients" /\ at' = g + 4
            /\ Begun(2, g)
        BY <1>1, <1>2, <2>1, <3>3 DEF Found, InPlace
      <4>2. Begun(3, g)'  BY <1>2, <4>1 DEF Begun
      <4>3. hostlist' = <<>>  BY <1>1, <1>2, <3>3 DEF Found, HostsFound
      <4> QED BY <2>3, <4>1, <4>2, <4>3 DEF InPlace, HostsFound
    <3>4. CASE want = "endconfig"
      <4>1. /\ lines'[g + k + 5].key = "endconfig" /\ want' = "parsed" /\ g + k + 5 <= Len(lines')
            /\ Headed(g, k) /\ HostsRead(g, k)
        BY <1>1, <1>2, <2>1, <3>4 DEF Found, InPlace, HostsFound
      <4>2. Keywords(lines', g, k)  BY <1>2, <4>1 DEF Headed, Begun, Keywords
      <4>3. Accepted(lines', g, k)  BY <2>3, <4>1, <4>2 DEF Accepted
      <4>4. HostsRead(g, k)'  BY <1>2, <4>1 DEF HostsRead
      <4> QED BY <2>3, <4>1, <4>3, <4>4 DEF InPlace, HostsFound
    <3> QED BY <1>2, <3>1, <3>2, <3>3, <3>4
  <2>8. Found(g, k)'  BY <1>1, <2>4, <2>7 DEF Found
  <2> QED BY <2>5, <2>6, <2>8 DEF ParserInv
<1> QED BY <1>3, <1>4

LEMMA ClientsLineParser == ParserInv /\ C!ClientsLine => ParserInv'
<1> SUFFICES ASSUME ParserInv, C!ClientsLine PROVE ParserInv'  OBVIOUS
<1>1. PICK g \in Nat, k \in Nat : Found(g, k)  BY DEF ParserInv
<1>2. want = "clients" /\ at <= Len(lines) /\ UNCHANGED <<meant, lines, filelist>>
  BY DEF C!ClientsLine, C!Reads, C!Refuse
<1>3. at = g + 4 /\ Begun(3, g) /\ FirstIs(lines, g) /\ FilesRead(g - 1)
  BY <1>1, <1>2 DEF Found, InPlace, FilesFound, AfterFiles
<1>4. CASE want' = "refused"
  <2>1. UNCHANGED hostlist  BY <1>4 DEF C!ClientsLine, C!Refuse, C!Go
  <2> QED BY <1>2, <1>4, <2>1, RefusedParser
<1>5. CASE want' # "refused"
  <2> DEFINE x == lines[g + 4]
             e == [name |-> "server", flag |-> "AVAIL_HOST"]
  <2>1. /\ x.key = "clients" /\ x.arg >= 1 /\ left' = x.arg /\ at' = g + 5
        /\ want' = "host" /\ hostlist' = <<e>>
    BY <1>3, <1>5 DEF C!ClientsLine, C!Refuse, C!Go, C!line
  <2>2. PICK m \in Nat : m = x.arg /\ m >= 1
    <3>1. Meant  BY DEF ParserInv
    <3>2. g + 4 \in 1 .. Len(lines)  BY <1>2, <1>3, <3>1, GoodLines, SequenceFacts
    <3>3. x.arg \in Int  BY <2>1, <3>1, <3>2, GoodLines DEF GoodLine
    <3> QED BY <2>1, <3>3
  <2>3. Headed(g, m)'  BY <1>2, <1>3, <2>1, <2>2 DEF Headed, Begun
  <2> HIDE DEF x, e
  <2>4. IsSequence(hostlist') /\ Len(hostlist') = 1 /\ hostlist'[1] = e  BY <2>1, Single
  <2>5. InPlace(g, m)'
    <3>1. at' \in g + 5 .. g + m + 4 /\ left' = g + m + 5 - at'  BY <2>1, <2>2
    <3>2. FirstIs(lines', g)  BY <1>2, <1>3
    <3> QED BY <2>1, <2>3, <3>1, <3>2 DEF InPlace, AfterFiles
  <2>6. FilesFound(g)'
    <3>1. FilesRead(g - 1)'  BY <1>2, <1>3 DEF FilesRead
    <3> QED BY <2>1, <3>1 DEF FilesFound, AfterFiles
  <2>7. HostsFound(g, m)'
    <3>1. at' - g - 5 = 0  BY <2>1
    <3>2. HostsRead(g, 0)'  BY <2>4 DEF HostsRead, e
    <3> QED BY <2>1, <3>1, <3>2 DEF HostsFound
  <2>8. Found(g, m)'  BY <1>1, <2>2, <2>5, <2>6, <2>7 DEF Found
  <2>9. Marked' /\ Meant' /\ IsSequence(filelist')
    BY <1>2, <2>1, MeantSame DEF ParserInv, Marked
  <2> QED BY <2>4, <2>8, <2>9 DEF ParserInv
<1> QED BY <1>4, <1>5

LEMMA HostLineParser == ParserInv /\ C!HostLine => ParserInv'
<1> SUFFICES ASSUME ParserInv, C!HostLine PROVE ParserInv'  OBVIOUS
<1>1. PICK g \in Nat, k \in Nat : Found(g, k)  BY DEF ParserInv
<1>2. want = "host" /\ UNCHANGED <<meant, lines, filelist>>
  BY DEF C!HostLine, C!Reads
<1>3. /\ at \in g + 5 .. g + k + 4 /\ left = g + k + 5 - at /\ Headed(g, k)
      /\ HostsRead(g, at - g - 5) /\ FirstIs(lines, g) /\ FilesRead(g - 1)
  BY <1>1, <1>2 DEF Found, InPlace, FilesFound, HostsFound, AfterFiles
<1> DEFINE x == lines[at]
           e == [name |-> IF x.key = "host" THEN x.arg ELSE x.key,
                 flag |-> IF Len(hostlist) = 1 THEN "CALL_HOST" ELSE "NOAVIL_HOST"]
<1>4. /\ hostlist' = Append(hostlist, e) /\ left' = left - 1 /\ at' = at + 1
      /\ want' = IF left = 1 THEN "endconfig" ELSE "host"
  BY DEF C!HostLine, C!Go, C!line
<1>5. PICK m \in Nat : m = at - g - 5 /\ at = g + 4 + (m + 1)
  BY <1>3
<1>6. /\ Len(hostlist) = m + 1 /\ hostlist[1] = [name |-> "server", flag |-> "AVAIL_HOST"]
      /\ \A i \in 1 .. m : hostlist[1 + i] = HostOf(lines[g + 4 + i], i)
  BY <1>3, <1>5 DEF HostsRead
<1>7. e = HostOf(lines[g + 4 + (m + 1)], m + 1)
  <2>1. Len(hostlist) = 1 <=> m + 1 = 1  BY <1>6
  <2> QED BY <1>5, <2>1 DEF HostOf
<1> HIDE DEF x, e
<1>8. /\ IsSequence(hostlist') /\ Len(hostlist') = m + 2 /\ hostlist'[m + 2] = e
      /\ \A i \in 1 .. m + 1 : hostlist'[i] = hostlist[i]
  <2>1. IsSequence(hostlist)  BY DEF ParserInv
  <2>2. /\ IsSequence(Append(hostlist, e)) /\ Len(Append(hostlist, e)) = Len(hostlist) + 1
        /\ Append(hostlist, e)[Len(hostlist) + 1] = e
        /\ \A i \in 1 .. Len(hostlist) : Append(hostlist, e)[i] = hostlist[i]
    BY <2>1, Appended
  <2> QED BY <1>4, <1>6, <2>2
<1>9. HostsRead(g, m + 1)'
  <2>1. ASSUME NEW i \in 1 .. m + 1
        PROVE  hostlist'[1 + i] = HostOf(lines[g + 4 + i], i)
    <3>1. CASE i = m + 1
      <4>1. 1 + i = m + 2  BY <3>1
      <4> QED BY <1>7, <1>8, <3>1, <4>1
    <3>2. CASE i \in 1 .. m
      <4>1. 1 + i \in 1 .. m + 1  BY <3>2
      <4> QED BY <1>6, <1>8, <3>2, <4>1
    <3> QED BY <2>1, <3>1, <3>2
  <2>2. 1 \in 1 .. m + 1 /\ m + 2 = (m + 1) + 1  OBVIOUS
  <2>3. \A i \in 1 .. m + 1 : hostlist'[1 + i] = HostOf(lines'[g + 4 + i], i)  BY <1>2, <2>1
  <2> QED BY <1>6, <1>8, <2>2, <2>3 DEF HostsRead
<1>10. InPlace(g, k)' /\ HostsFound(g, k)'
  <2>0. FirstIs(lines', g) /\ Headed(g, k)'  BY <1>2, <1>3 DEF Headed, Begun
  <2>1. CASE left = 1
    <3>1. want' = "endconfig" /\ at' = g + k + 5 /\ m + 1 = k  BY <1>3, <1>4, <1>5, <2>1
    <3>2. HostsRead(g, k)'  BY <1>9, <3>1
    <3> QED BY <2>0, <3>1, <3>2 DEF InPlace, HostsFound
  <2>2. CASE left # 1
    <3>1. /\ want' = "host" /\ at' \in g + 5 .. g + k + 4 /\ left' = g + k + 5 - at'
          /\ at' - g - 5 = m + 1
      BY <1>3, <1>4, <1>5, <2>2
    <3> QED BY <1>9, <2>0, <3>1 DEF InPlace, HostsFound
  <2> QED BY <2>1, <2>2
<1>11. FilesFound(g)'
  <2>1. FilesRead(g - 1)'  BY <1>2, <1>3 DEF FilesRead
  <2> QED BY <1>4, <2>1 DEF FilesFound, AfterFiles
<1>12. Found(g, k)'  BY <1>1, <1>10, <1>11 DEF Found
<1>13. Marked' /\ Meant' /\ IsSequence(filelist')
  BY <1>2, <1>4, MeantSame DEF ParserInv, Marked
<1> QED BY <1>8, <1>12, <1>13 DEF ParserInv

LEMMA StepParser == ParserInv /\ (C!Parse \/ UNCHANGED config) => ParserInv'
<1> SUFFICES ASSUME ParserInv, C!Parse \/ UNCHANGED config PROVE ParserInv'  OBVIOUS
<1>1. CASE C!EndOfFile  BY <1>1, RefusedParser DEF C!EndOfFile, C!Refuse
<1> QED BY <1>1, StillParser, FirstLineParser, OutfileLineParser, FileLineParser,
           KeywordLineParser, ClientsLineParser, HostLineParser DEF C!Parse

\* What has been read at the end is what was meant.
LEMMA ParsedAsMeant == ParserInv => ReadAsMeant
<1> SUFFICES ASSUME ParserInv, want = "parsed" PROVE ReadAsMeant
  BY DEF ReadAsMeant, C!ReadAsMeant
<1>1. PICK g \in Nat, k \in Nat : Found(g, k)  BY DEF ParserInv
<1>2. Accepted(lines, g, k) /\ FilesRead(g - 1) /\ HostsRead(g, k) /\ g >= 2 /\ k >= 1
  BY <1>1 DEF Found, InPlace, FilesFound, HostsFound, AfterFiles
<1>3. Meant  BY DEF ParserInv
<1>4. PICK f \in Nat, n \in Nat :
        /\ f >= 2 /\ n >= 1 /\ f = Len(meant.files) /\ n = Len(meant.hosts)
        /\ Writing(C!MeantLines, f, n)
        /\ \A i \in 1 .. f : C!MeantLines[i] = meant.files[i]
        /\ \A i \in 1 .. n : C!MeantLines[f + 4 + i] = C!Line("host", meant.hosts[i])
  BY <1>3, MeantIsRight, Zenon
<1>5. lines = C!MeantLines /\ g = f /\ k = n
  <2>1. Right(C!MeantLines, f, n)  BY <1>4 DEF Writing
  <2>2. lines \in {C!MeantLines} \cup C!Slips(C!MeantLines)  BY <1>3 DEF Meant
  <2> QED BY <1>2, <1>4, <2>1, <2>2, OnlyTheRight, Zenon
<1>6. /\ \A i \in 1 .. f : lines[i] = meant.files[i]
      /\ \A i \in 1 .. n : lines[f + 4 + i] = C!Line("host", meant.hosts[i])
      /\ lines[1].key = "iofiles" =>
           \A i \in 2 .. f : lines[i].arg = C!IoFile(lines[i].arg.op, lines[i].arg.name)
  BY <1>4, <1>5 DEF Writing
<1>7. IsSequence(filelist) /\ IsSequence(hostlist)  BY DEF ParserInv
<1> DEFINE H1 == <<[name |-> "server", flag |-> "AVAIL_HOST"]>>
           H2 == [i \in DOMAIN meant.hosts |-> [name |-> meant.hosts[i],
                         flag |-> IF i = 1 THEN "CALL_HOST" ELSE "NOAVIL_HOST"]]
<1>8. hostlist = H1 \o H2
  <2>1. DOMAIN meant.hosts = 1 .. n
    <3>1. meant.hosts \in Seq(DOMAIN NameLength)  BY <1>3, StartupAssumption DEF Meant
    <3> QED BY <1>4, <3>1
  <2>2. IsSequence(H1) /\ Len(H1) = 1 /\ H1[1] = [name |-> "server", flag |-> "AVAIL_HOST"]
    BY Single
  <2>3. /\ H2 = [i \in 1 .. n |-> H2[i]]
        /\ \A i \in 1 .. n : H2[i] = [name |-> meant.hosts[i],
                                      flag |-> IF i = 1 THEN "CALL_HOST" ELSE "NOAVIL_HOST"]
    BY <2>1
  <2>4. \A i \in 1 .. n : hostlist[1 + i] = [name |-> meant.hosts[i],
                                             flag |-> IF i = 1 THEN "CALL_HOST" ELSE "NOAVIL_HOST"]
    <3> SUFFICES ASSUME NEW i \in 1 .. n
                 PROVE  hostlist[1 + i] = [name |-> meant.hosts[i],
                                           flag |-> IF i = 1 THEN "CALL_HOST" ELSE "NOAVIL_HOST"]
      OBVIOUS
    <3>1. hostlist[1 + i] = HostOf(C!Line("host", meant.hosts[i]), i)
      BY <1>2, <1>5, <1>6 DEF HostsRead
    <3> QED BY <3>1 DEF HostOf, C!Line
  <2> HIDE DEF H1, H2
  <2>5. IsSequence(H2) /\ Len(H2) = n  BY <2>3, BuiltSequence
  <2>6. IsSequence(H1)  BY <2>2
  <2>7. IsSequence(H2)  BY <2>5
  <2>8. /\ IsSequence(H1 \o H2) /\ Len(H1 \o H2) = Len(H1) + Len(H2)
        /\ \A i \in 1 .. Len(H1) : (H1 \o H2)[i] = H1[i]
        /\ \A i \in 1 .. Len(H2) : (H1 \o H2)[Len(H1) + i] = H2[i]
    BY <2>6, <2>7, Joined
  <2>9. PICK z : z = H1 \o H2  OBVIOUS
  <2>10. IsSequence(z) /\ Len(z) = n + 1 /\ z[1] = hostlist[1] /\ \A i \in 1 .. n : z[1 + i] = hostlist[1 + i]
    <3>1. hostlist[1] = H1[1]  BY <1>2, <2>2 DEF HostsRead
    <3>2. \A i \in 1 .. n : H2[i] = hostlist[1 + i]  BY <2>3, <2>4
    <3>3. /\ Len(H1 \o H2) = 1 + n /\ (H1 \o H2)[1] = H1[1]
          /\ \A i \in 1 .. n : (H1 \o H2)[1 + i] = H2[i]
      BY <2>2, <2>5, <2>8
    <3>4. Len(z) = n + 1 /\ z[1] = H1[1] /\ \A i \in 1 .. n : z[1 + i] = H2[i]
      BY <2>9, <3>3
    <3> QED BY <2>8, <2>9, <3>1, <3>2, <3>4
  <2>11. Len(hostlist) = n + 1  BY <1>2, <1>5 DEF HostsRead
  <2>12. ASSUME NEW i \in 1 .. n + 1 PROVE z[i] = hostlist[i]
    <3>1. CASE i = 1  BY <2>10, <3>1
    <3>2. CASE i # 1
      <4>1. i - 1 \in 1 .. n /\ 1 + (i - 1) = i  BY <3>2
      <4> QED BY <2>10, <4>1
    <3> QED BY <3>1, <3>2
  <2>13. z = [i \in 1 .. n + 1 |-> z[i]] /\ hostlist = [i \in 1 .. n + 1 |-> hostlist[i]]
    BY <1>7, <2>10, <2>11, SequenceFacts
  <2>14. z = hostlist  BY <2>12, <2>13
  <2> QED BY <2>9, <2>14
<1> HIDE DEF H1, H2
<1>9. meant.files[1] = lines[1]  BY <1>4, <1>6
<1>10. CASE meant.files[1].key = "iofiles"
  <2>1. /\ Len(filelist) = f - 1
        /\ \A i \in 1 .. f - 1 : /\ filelist[i].name = lines[1 + i].arg.name
                                 /\ filelist[i].op = lines[1 + i].arg.op
    BY <1>2, <1>5, <1>9, <1>10 DEF FilesRead
  <2>2. DOMAIN filelist = 1 .. f - 1  BY <1>7, <2>1, SequenceFacts
  <2>3. ASSUME NEW i \in 1 .. f - 1
        PROVE  C!IoFile(filelist[i].op, filelist[i].name) = meant.files[i + 1].arg
    <3>1. 1 + i \in 2 .. f /\ 1 + i \in 1 .. f /\ 1 + i = i + 1  BY <1>4
    <3>2. lines[1 + i].arg = C!IoFile(lines[1 + i].arg.op, lines[1 + i].arg.name)
      BY <1>6, <1>9, <1>10, <3>1
    <3>3. lines[1 + i] = meant.files[i + 1]  BY <1>6, <3>1
    <3> QED BY <2>1, <3>2, <3>3
  <2>4. [i \in DOMAIN filelist |-> C!IoFile(filelist[i].op, filelist[i].name)] = C!MeantFiles
    BY <1>4, <2>2, <2>3 DEF C!MeantFiles
  <2> QED BY <1>8, <1>10, <2>4, Zenon DEF ReadAsMeant, C!ReadAsMeant, H1, H2
<1>11. CASE meant.files[1].key # "iofiles"
  <2>1. Len(filelist) = 1 /\ filelist[1].name = meant.files[1].arg
    BY <1>2, <1>9, <1>11 DEF FilesRead
  <2> QED BY <1>8, <1>11, <2>1, Zenon DEF ReadAsMeant, C!ReadAsMeant, H1, H2
<1> QED BY <1>10, <1>11

-----------------------------------------------------------------------------
(***************************************************************************)
(* The list has the names that parse() has read; the theorems.             *)
(***************************************************************************)
\* The list has the names of the hosts that have been read.
Alive == {"config", "sent", "received", "walked", "synced"}
SameNames ==
  /\ Len(list) = Len(hostlist)
  /\ \A i \in 1 .. Len(hostlist) : list[i].name = hostlist[i].name
NamesInv ==
  /\ state \in Alive => SameNames
  /\ state \in {"sent", "received", "walked", "synced"} => want = "parsed"

LEMMA OnePush ==
  ASSUME ParserInv, C!Parse, hostlist' # hostlist
  PROVE  \E e : hostlist' = Append(hostlist, e)
<1>1. CASE C!ClientsLine
  <2>1. hostlist = <<>>  BY <1>1 DEF ParserInv, Found, HostsFound, C!ClientsLine, C!Reads
  <2>2. hostlist' = <<[name |-> "server", flag |-> "AVAIL_HOST"]>>
    BY <1>1 DEF C!ClientsLine, C!Refuse
  <2>3. \A e : Append(<<>>, e) = <<e>>  OBVIOUS
  <2> QED BY <2>1, <2>2, <2>3
<1>2. CASE C!HostLine  BY <1>2 DEF C!HostLine
<1>3. CASE C!EndOfFile  BY <1>3 DEF C!EndOfFile, C!Refuse
<1>4. CASE C!FirstLine  BY <1>4 DEF C!FirstLine
<1>5. CASE C!OutfileLine  BY <1>5 DEF C!OutfileLine, C!Refuse
<1>6. CASE C!FileLine  BY <1>6 DEF C!FileLine, C!Refuse
<1>7. CASE C!KeywordLine  BY <1>7 DEF C!KeywordLine, C!Refuse
<1> QED BY <1>1, <1>2, <1>3, <1>4, <1>5, <1>6, <1>7 DEF C!Parse

LEMMA InitNames == Init => NamesInv
BY DEF Init, C!Init, H!Init, NamesInv, SameNames

LEMMA PushNames ==
  ASSUME NamesInv, WalkInv, ParserInv, state = "config", C!Parse, hostlist' # hostlist,
         H!PushEntry(Last(hostlist').name, Length(Last(hostlist').name), Last(hostlist').flag)
  PROVE  NamesInv'
<1>1. CASE H!Exit("name")  BY <1>1 DEF NamesInv, Alive, H!Exit
<1>2. CASE ~H!Exit("name")
  <2>1. PICK e : hostlist' = Append(hostlist, e)  BY OnePush
  <2>2. PICK n \in Nat : n = Len(hostlist) /\ IsSequence(hostlist)
    BY SequenceFacts, Zenon DEF ParserInv
  <2>3. /\ Len(hostlist') = n + 1 /\ hostlist'[n + 1] = e
        /\ \A i \in 1 .. n : hostlist'[i] = hostlist[i]
    BY <2>1, <2>2, Appended
  <2>4. Last(hostlist') = e  BY <2>3 DEF Last
  <2>5. SameNames  BY DEF NamesInv, Alive
  <2>6. IsSequence(list) /\ Len(list) = n  BY <2>2, <2>5 DEF WalkInv, IsList, SameNames
  <2>7. PICK x : /\ x = [name |-> e.name, length |-> Length(e.name), flag |-> e.flag]
                 /\ list' = Append(list, x) /\ state' = state
    BY <1>2, <2>4 DEF H!PushEntry
  <2>8. x.name = e.name  BY <2>7
  <2>9. Len(list') = n + 1 /\ list'[n + 1] = x /\ \A i \in 1 .. n : list'[i] = list[i]
    <3>1. /\ Len(Append(list, x)) = Len(list) + 1 /\ Append(list, x)[Len(list) + 1] = x
          /\ \A i \in 1 .. Len(list) : Append(list, x)[i] = list[i]
      BY <2>6, Appended
    <3>2. list' = Append(list, x)  BY <2>7
    <3> QED BY <2>6, <3>1, <3>2
  <2>10. ASSUME NEW i \in 1 .. n + 1 PROVE list'[i].name = hostlist'[i].name
    <3>1. CASE i = n + 1  BY <2>3, <2>8, <2>9, <3>1
    <3>2. CASE i \in 1 .. n
      <4>1. list[i].name = hostlist[i].name  BY <2>2, <2>5, <3>2 DEF SameNames
      <4> QED BY <2>3, <2>9, <3>2, <4>1
    <3> QED BY <3>1, <3>2
  <2>11. SameNames'  BY <2>3, <2>9, <2>10 DEF SameNames
  <2>12. state' = "config"  BY <2>7
  <2> QED BY <2>11, <2>12 DEF NamesInv
<1> QED BY <1>1, <1>2

LEMMA StepNames == NamesInv /\ WalkInv /\ ParserInv /\ [Next]_vars => NamesInv'
<1> SUFFICES ASSUME NamesInv, WalkInv, ParserInv, [Next]_vars PROVE NamesInv'  OBVIOUS
<1>1. CASE Parse
  <2>1. CASE hostlist' = hostlist
    <3>1. UNCHANGED <<list, state>> /\ state = "config"  BY <1>1, <2>1 DEF Parse, ring
    <3> QED BY <2>1, <3>1 DEF NamesInv, SameNames
  <2>2. CASE hostlist' # hostlist  BY <1>1, <2>2, PushNames DEF Parse
  <2> QED BY <2>1, <2>2
<1>2. CASE RoundTrip
  <2>1. want = "parsed" /\ want' = "parsed" /\ hostlist' = hostlist /\ H!RoundTrip
    BY <1>2 DEF RoundTrip, config
  <2>2. CASE list' = list /\ (state' \in Alive => state \in Alive)
    BY <2>1, <2>2 DEF NamesInv, SameNames
  <2>3. CASE H!Packetfill
    <3>1. list' = list /\ state \in Alive  BY <2>3 DEF H!Packetfill, H!Exit, Alive
    <3> QED BY <2>2, <3>1
  <2>4. CASE H!ReceiveHeader
    <3>1. list' = list /\ state \in Alive  BY <2>4 DEF H!ReceiveHeader, H!Exit, Alive
    <3> QED BY <2>2, <3>1
  <2>5. CASE H!PopEntry
    <3>1. list' = list /\ state \in Alive  BY <2>5 DEF H!PopEntry, H!Exit, Alive
    <3> QED BY <2>2, <3>1
  <2>6. CASE H!FlagSync
    <3>1. state \in Alive  BY <2>6 DEF H!FlagSync, Alive
    <3>2. CASE list' = list  BY <2>2, <3>1, <3>2
    <3>3. CASE list' # list
      <4>1. list' = [i \in DOMAIN list |-> [list[i] EXCEPT !.flag = ite.seen[i].flag]]
        BY <2>6, <3>3 DEF H!FlagSync, H!Exit
      <4>2. PICK n \in Nat : n = Len(list) /\ DOMAIN list = 1 .. n
        BY SequenceFacts, Zenon DEF WalkInv, IsList
      <4> DEFINE f(i) == [list[i] EXCEPT !.flag = ite.seen[i].flag]
      <4>3. \A i \in 1 .. n : f(i).name = list[i].name
        <5> SUFFICES ASSUME NEW i \in 1 .. n PROVE f(i).name = list[i].name  BY Zenon
        <5>1. IsEntry(list[i])  BY <4>2 DEF WalkInv, IsList
        <5> QED BY <5>1, NewFlag
      <4>4. list' = [i \in 1 .. n |-> f(i)]  BY <4>1, <4>2
      <4> HIDE DEF f
      <4>5. list' = [i \in 1 .. n |-> list'[i]] /\ \A i \in 1 .. n : list'[i] = f(i)  BY <4>4
      <4>6. Len(list') = n  BY <4>5, BuiltSequence
      <4>7. SameNames  BY <3>1 DEF NamesInv
      <4>8. SameNames'  BY <2>1, <4>2, <4>3, <4>5, <4>6, <4>7 DEF SameNames
      <4> QED BY <2>1, <4>8 DEF NamesInv
    <3> QED BY <3>2, <3>3
  <2> QED BY <2>1, <2>3, <2>4, <2>5, <2>6 DEF H!RoundTrip
<1>3. CASE Ended \/ UNCHANGED vars
  <2>1. UNCHANGED <<list, state, hostlist, want>>  BY <1>3 DEF Ended, vars, config, ring
  <2> QED BY <2>1 DEF NamesInv, SameNames
<1> QED BY <1>1, <1>2, <1>3 DEF Next

LEMMA StepConfig == ParserInv /\ [Next]_vars => ParserInv'
<1> SUFFICES ASSUME ParserInv, [Next]_vars PROVE ParserInv'  OBVIOUS
<1>1. C!Parse \/ UNCHANGED config  BY DEF Next, Parse, RoundTrip, Ended, vars
<1> QED BY <1>1, StepParser

\* A configuration file with at most one slip of its writer is refused, or its files and
\* its hosts are the ones that were meant, in their order and no others: for every set of
\* names, every number of files and every list of hosts (Config.cpp:31-278).
THEOREM ReadAlwaysAsMeant == Spec => []ReadAsMeant
<1>1. Init => ParserInv  BY InitParser DEF Init
<1>2. ParserInv /\ [Next]_vars => ParserInv'  BY StepConfig
<1>3. ParserInv => ReadAsMeant  BY ParsedAsMeant
<1> QED BY <1>1, <1>2, <1>3, PTL DEF Spec

\* A file that is to be cooked goes through the filters its name asks for, whatever the
\* lines before it have left in cook_flag: for every name of any number of extensions,
\* from the order check_filename() tries its suffixes in (Config.cpp:288-330, 155-180).
THEOREM AlwaysCookedAsNamed == Spec => []CookedAsNamed
<1>1. Init => ParserInv  BY InitParser DEF Init
<1>2. ParserInv /\ [Next]_vars => ParserInv'  BY StepConfig
<1>3. ParserInv => CookedAsNamed
  <2> SUFFICES ASSUME ParserInv, NEW i \in DOMAIN filelist,
                      C!Cooked(filelist[i]), ~C!Compressed(filelist[i].name)
               PROVE  C!Pipeline(filelist[i].flag) = C!AsNamed(filelist[i].name)
    BY DEF CookedAsNamed, C!CookedAsNamed
  <2>1. i \in 1 .. Len(filelist)  BY SequenceFacts DEF ParserInv
  <2>2. filelist[i].name \in Names /\ filelist[i].flag = C!CheckFilename(filelist[i].name)
    BY <2>1 DEF ParserInv, Marked, Marking
  <2>3. filelist[i].name \in Seq(Part)  BY <2>2, StartupAssumption DEF Part
  <2> QED BY <2>2, <2>3, RightFilters
<1> QED BY <1>1, <1>2, <1>3, PTL DEF Spec

\* What a client finds in the ring packet is the server and then the hosts its writer had
\* in mind, in their order, whatever slip the file has, whatever the heap held where
\* itemBytes lies and however long the list is; it finds no others exactly when the size
\* of the packet fits; and what comes back is what the ring has made of the list
\* (Config.cpp:247-267, List.cpp:44-111, Packet.cpp:103-116, 421-454).
THEOREM RingAlwaysAgrees == Spec => []RingAgreesWithFile
<1>1. Init => WalkInv /\ ParserInv /\ NamesInv  BY InitWalk, InitParser, InitNames DEF Init
<1>2. WalkInv /\ ParserInv /\ NamesInv /\ [Next]_vars => WalkInv' /\ ParserInv' /\ NamesInv'
  BY StepWalk, StepConfig, StepNames
<1>3. WalkInv /\ ParserInv /\ NamesInv => RingAgreesWithFile
  <2> SUFFICES ASSUME WalkInv, ParserInv, NamesInv PROVE RingAgreesWithFile
    OBVIOUS
  <2>1. PICK S : Sums(S) /\ Walk(S)  BY DEF WalkInv, Counted
  <2>2. ASSUME state = "synced" PROVE \A i \in DOMAIN list : list[i] = ite.seen[i]
    <3>1. DOMAIN list = 1 .. Len(list)  BY SequenceFacts DEF WalkInv, IsList
    <3> QED BY <2>1, <2>2, <3>1 DEF Walk, Synced
  <2> DEFINE h == meant.hosts
             a == <<"server">>
             z == a \o h
  <2>3. ASSUME state \in {"walked", "synced"}
        PROVE  /\ Len(ite.seen) >= Len(z) /\ \A i \in DOMAIN z : ite.seen[i].name = z[i]
               /\ H!Fits <=> Len(ite.seen) = Len(z)
    <3>1. SameNames /\ want = "parsed"  BY <2>3 DEF NamesInv, Alive
    <3>2. /\ Len(ite.seen) \in Nat /\ Len(ite.seen) >= Len(list)
          /\ \A i \in 1 .. Len(list) : ite.seen[i].name = list[i].name
          /\ H!Fits <=> Len(ite.seen) = Len(list)
      BY <2>1, <2>3, WalkedAll DEF WalkInv, Walk
    <3> DEFINE H1 == <<[name |-> "server", flag |-> "AVAIL_HOST"]>>
               H2 == [i \in DOMAIN meant.hosts |-> [name |-> meant.hosts[i],
                             flag |-> IF i = 1 THEN "CALL_HOST" ELSE "NOAVIL_HOST"]]
    <3>3. hostlist = H1 \o H2
      BY <3>1, ParsedAsMeant, Zenon DEF ReadAsMeant, C!ReadAsMeant
    <3>4. PICK n \in Nat : n = Len(h) /\ DOMAIN h = 1 .. n /\ IsSequence(h)
      <4>1. h \in Seq(DOMAIN NameLength)  BY StartupAssumption DEF ParserInv, Meant
      <4>2. IsSequence(h)  BY <4>1 DEF IsSequence
      <4> QED BY <4>1, <4>2
    <3>5. IsSequence(H1) /\ Len(H1) = 1 /\ H1[1].name = "server"  BY Single
    <3>6. H2 = [i \in 1 .. n |-> H2[i]] /\ \A i \in 1 .. n : H2[i].name = h[i]  BY <3>4
    <3> HIDE DEF H1, H2, h
    <3>7. IsSequence(H2) /\ Len(H2) = n  BY <3>6, BuiltSequence
    <3>8. /\ Len(H1 \o H2) = Len(H1) + Len(H2)
          /\ \A i \in 1 .. Len(H1) : (H1 \o H2)[i] = H1[i]
          /\ \A i \in 1 .. Len(H2) : (H1 \o H2)[Len(H1) + i] = H2[i]
      <4>1. IsSequence(H1) /\ IsSequence(H2)  BY <3>5, <3>7
      <4> QED BY <4>1, Joined
    <3>9. /\ Len(hostlist) = n + 1 /\ hostlist[1].name = "server"
          /\ \A i \in 1 .. n : hostlist[1 + i].name = h[i]
      <4>1. /\ Len(H1 \o H2) = n + 1 /\ (H1 \o H2)[1] = H1[1]
            /\ \A i \in 1 .. n : (H1 \o H2)[1 + i] = H2[i]
        BY <3>5, <3>7, <3>8
      <4> QED BY <3>3, <3>5, <3>6, <4>1
    <3>10. Len(list) = n + 1 /\ \A i \in 1 .. n + 1 : ite.seen[i].name = hostlist[i].name
      BY <3>1, <3>2, <3>9 DEF SameNames
    <3>11. IsSequence(a) /\ Len(a) = 1 /\ a[1] = "server"  BY Single
    <3> HIDE DEF a
    <3>12. /\ IsSequence(z) /\ Len(z) = n + 1 /\ z[1] = "server"
           /\ \A i \in 1 .. n : z[1 + i] = h[i]
      <4>1. IsSequence(a) /\ IsSequence(h)  BY <3>4, <3>11
      <4>2. /\ IsSequence(a \o h) /\ Len(a \o h) = Len(a) + Len(h)
            /\ \A i \in 1 .. Len(a) : (a \o h)[i] = a[i]
            /\ \A i \in 1 .. Len(h) : (a \o h)[Len(a) + i] = h[i]
        BY <4>1, Joined
      <4> QED BY <3>4, <3>11, <4>2
    <3> HIDE DEF z
    <3>13. ASSUME NEW i \in 1 .. n + 1 PROVE ite.seen[i].name = z[i]
      <4>1. CASE i = 1  BY <3>9, <3>10, <3>12, <4>1
      <4>2. CASE i # 1
        <5>1. i - 1 \in 1 .. n /\ 1 + (i - 1) = i  BY <4>2
        <5> QED BY <3>9, <3>10, <3>12, <5>1
      <4> QED BY <4>1, <4>2
    <3>14. DOMAIN z = 1 .. n + 1  BY <3>12, SequenceFacts
    <3> QED BY <3>2, <3>10, <3>12, <3>13, <3>14
  <2> QED BY <2>2, <2>3 DEF RingAgreesWithFile
<1> QED BY <1>1, <1>2, <1>3, PTL DEF Spec
=============================================================================
