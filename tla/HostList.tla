------------------------------ MODULE HostList ------------------------------
(***************************************************************************)
(* The list of hosts (or of output files) and the packet it travels in:    *)
(* List::push(), packetfill() and flag_sync(), Packet::core_make() with its*)
(* 16 bit sizes, checkheader_make() on the other side and the iterator     *)
(* PacketIte.  An entry is its flag, its name and a '\0'; of the packet the*)
(* model keeps the entries and the bytes they take, not the bytes: no name *)
(* contains the four characters of the end mark.                           *)
(***************************************************************************)
EXTENDS Integers, SequencesExt

CONSTANTS
  Flags,          \* flags that hosts set and are set
  Garbage,        \* what the heap may hold where itemBytes lies: the constructor sets nothing
  Half            \* half of the values of a short int: 32768

NAMELENMAX == 256
MAX_PACKET_ENTRY_LEN == 128
Trail == 4                                \* RING_INF_TRAIL_BYTES
Headers == 8 + Trail                      \* and RING_INF_HEADER_BYTES
ShortInt(n) == ((n + Half) % (2 * Half)) - Half
UnsignedShort(n) == n % (2 * Half)

Bytes(entry) == 1 + entry.length + 1      \* flag, name, '\0'

VARIABLES
  list,        \* itemList: [name, length, flag]
  itemBytes,   \* bytes the entries will take, as push() adds them up
  heap,        \* history: what itemBytes was before the first push()
  taken,       \* history: bytes the entries of the list do take
  packet,      \* contBytes and the entries written
  ite,         \* PacketIte: entries passed, the bytes they take, and what it saw
  state        \* "config", "sent", "received", "walked", "synced", or the exit taken

vars == <<list, itemBytes, heap, taken, packet, ite, state>>

NoPacket == [contBytes |-> 0, entries |-> <<>>]
Start == [passed |-> 0, offset |-> 0, seen |-> <<>>]

Init ==
  /\ list = <<>> /\ heap \in Garbage /\ itemBytes = heap /\ taken = 0
  /\ packet = NoPacket /\ ite = Start /\ state = "config"

Exit(why) == state' = why /\ UNCHANGED <<list, itemBytes, heap, taken, packet, ite>>

(***************************************************************************)
(* The server: List                                                        *)
(***************************************************************************)
PushEntry_noTerminator(name, length, flag) ==
  /\ state = "config"
  /\ IF length > NAMELENMAX \/ length = 0 THEN Exit("name")
     ELSE /\ list' = Append(list, [name |-> name, length |-> length, flag |-> flag])
          /\ itemBytes' = itemBytes + length + 1
          /\ taken' = taken + Bytes(list'[Len(list')])
          /\ UNCHANGED <<heap, packet, ite, state>>
PushEntry(name, length, flag) ==
  /\ state = "config"
  /\ IF length > NAMELENMAX \/ length = 0 THEN Exit("name")
     ELSE /\ list' = Append(list, [name |-> name, length |-> length, flag |-> flag])
          /\ itemBytes' = itemBytes + Bytes(list'[Len(list')])
          /\ taken' = taken + Bytes(list'[Len(list')])
          /\ UNCHANGED <<heap, packet, ite, state>>

\* core_make() takes the size as a short int; malloc() of a negative size fails.
\* top-pp is never positive: nothing stops the loop at the end of the space.  What it
\* writes behind the end mark may bring the program down, or do no harm.
Space == ShortInt(itemBytes)
Packetfill ==
  /\ state = "config" /\ list # <<>>
  /\ \/ (Space + Headers < 0 \/ taken > Space + Trail) /\ Exit("memory")
     \/ /\ Space + Headers >= 0
        /\ packet' = [contBytes |-> Space, entries |-> list]
        /\ state' = "sent" /\ UNCHANGED <<list, itemBytes, heap, taken, ite>>

(***************************************************************************)
(* The client: checkheader_make(), checktrailer() and PacketIte            *)
(***************************************************************************)
\* htons() and ntohs() of the size in the header, and a short int again.  Entries that
\* take more than the size have overwritten the end mark (with a negative size, the end
\* mark the header): no such packet is received.
ReceiveHeader ==
  /\ state = "sent"
  /\ LET size == ShortInt(UnsignedShort(packet.contBytes))
     IN IF size < taken THEN Exit("trailer is wrong")
        ELSE /\ packet' = [packet EXCEPT !.contBytes = size]
             /\ ite' = Start /\ state' = "received"
             /\ UNCHANGED <<list, itemBytes, heap, taken>>

\* The entry the iterator stands at: behind the last one whatever malloc() found there
Entry ==
  IF ite.passed < Len(packet.entries) THEN {packet.entries[ite.passed + 1]}
  ELSE [name : {""}, length : 0 .. MAX_PACKET_ENTRY_LEN, flag : Flags]

\* get_flag() and get_name(), set_flag() on some of the entries, and pop_entry()
PopEntry ==
  /\ state = "received"
  /\ \E entry \in Entry, flag \in Flags :
       LET offset == ite.offset + Bytes(entry)
       IN IF entry.length >= MAX_PACKET_ENTRY_LEN THEN Exit("entry is too long")
          ELSE IF offset > packet.contBytes THEN Exit("something wrong")
          ELSE /\ ite' = [passed |-> ite.passed + 1, offset |-> offset,
                          seen |-> Append(ite.seen, [entry EXCEPT !.flag = flag])]
               /\ state' = IF offset = packet.contBytes THEN "walked" ELSE "received"
               /\ UNCHANGED <<list, itemBytes, heap, taken, packet>>

\* flag_sync() of the packet that has come back: the names must be those of the
\* list, entry by entry
FlagSync ==
  /\ state = "walked"
  /\ IF \E i \in DOMAIN list : i \notin DOMAIN ite.seen \/ ite.seen[i].name # list[i].name
     THEN Exit("RING information isnot agree")
     ELSE /\ list' = [i \in DOMAIN list |-> [list[i] EXCEPT !.flag = ite.seen[i].flag]]
          /\ state' = "synced" /\ UNCHANGED <<itemBytes, heap, taken, packet, ite>>

\* What follows the pushes, which are the configuration file's
RoundTrip == Packetfill \/ ReceiveHeader \/ PopEntry \/ FlagSync

(***************************************************************************)
(* Properties                                                              *)
(***************************************************************************)
\* The size that goes with the packet is what the entries take
Fits == ShortInt(heap + taken) = taken

\* Whatever the heap held and however long the list is: a client that accepts the packet
\* walks through the list, entry by entry, and never stops before the last one.  It finds
\* nothing behind that exactly when the size fits, which is when the heap held a multiple
\* of 65536 and the list takes less than 32768 bytes; then neither side gives up over the
\* size (List.cpp:44-93, Packet.cpp:103-116, 421-454).  A packet that comes back is
\* never one the server takes for another.
WalkMatchesFill ==
  /\ state # "RING information isnot agree"
  /\ Fits => state \notin {"memory", "trailer is wrong", "something wrong"}
  /\ state \in {"walked", "synced"} =>
       /\ Len(ite.seen) >= Len(list)
       /\ \A i \in DOMAIN list : ite.seen[i].name = list[i].name /\ ite.seen[i].length = list[i].length
       /\ Fits <=> Len(ite.seen) = Len(list)

\* Claim of packet.h:8: "we dont have 16bit limit anywhere".
NoSixteenBitLimit == state # "memory" /\ (packet # NoPacket => packet.contBytes = itemBytes)

\* Claim of List.cpp:84-87: a packet whose space is not what the entries take is a
\* code error that packetfill() finds, before it is sent.
SpaceIsChecked == packet # NoPacket => packet.contBytes = taken
=============================================================================
