----------------------------- MODULE BuildRing -----------------------------
(***************************************************************************)
(* The construction of the ring: buildring() and file_info() of dollyS     *)
(* (src/Server.cpp) and of every dollyC (src/Client.cpp), from the start   *)
(* of the programs to data_transfer().  The server connects to the first   *)
(* host that answers and sends it the RING packet, the list of hosts with  *)
(* their flags.  Each host finds itself by its CALL_HOST flag, marks       *)
(* itself AVAIL_HOST, looks for the next one, and the last one connects to *)
(* the server.  The HOST packet, the list with its final flags, and the    *)
(* FILE packet then go round the ring, and the transfer begins.            *)
(*                                                                         *)
(* Hosts are their places in the list, the server is entry 0.  A node's    *)
(* connections are named by their ends.                                    *)
(***************************************************************************)
EXTENDS Naturals, Sequences, FiniteSetsExt

CONSTANTS
  NoHosts,       \* clients of the configuration
  MAXRETRY,      \* hosts tried in a row                (3 in the source)
  GET_NAME_LEN,  \* what PacketIte::get_name_len() may return: 0 is what the source returns,
                 \*   so that every copied name is empty; 1 stands for the length of the name
  NamePrefix,    \* NamePrefix[h]: the hosts whose names begin with that of h
  MAX_PACKET_ENTRY_NO, \* entries search_name() accepts (2048 in the source)
  FaultSets      \* what may go wrong, one set of {"crash", "lost"} per behaviour

ASSUME RingAssumption ==
  /\ NoHosts \in Nat \ {0} /\ MAXRETRY \in Nat \ {0}
  /\ GET_NAME_LEN \in (SUBSET {0, 1}) \ {{}} /\ MAX_PACKET_ENTRY_NO \in Nat
  /\ NamePrefix \in [0 .. NoHosts -> SUBSET (0 .. NoHosts)]
  /\ \A h \in 0 .. NoHosts : h \in NamePrefix[h]
  /\ FaultSets \subseteq SUBSET {"crash", "lost"}

Client == 1 .. NoHosts
Node == 0 .. NoHosts
NoNode == NoHosts + 1
Flag == {"AVAIL", "CALL", "NOAVIL"}

VARIABLES
  pc,        \* of every node; a client that does not run is "down"
  list,      \* its host list: the server's List, a client's RING or HOST packet
  ite,       \* its hostIte, a place in the list
  retry,     \* attempts of its retry loop
  next,      \* its dataout: the node connected to
  from,      \* its datain: the node that connected
  inbox,     \* packets sent to it and not received
  myName,    \* the entry a client took for its own
  faults     \* the faults of this behaviour

vars == <<pc, list, ite, retry, next, from, inbox, myName, faults>>

RingPacket(flags) == [kind |-> "RING", flags |-> flags]
HostPacket(flags) == [kind |-> "HOST", flags |-> flags]
FilePacket == [kind |-> "FILE", flags |-> <<>>]

\* Config::parse(): "first destination candidate"
InitialList == [n \in Node |-> IF n = 0 THEN "AVAIL" ELSE IF n = 1 THEN "CALL" ELSE "NOAVIL"]

Init ==
  /\ pc \in [Node -> {"connect", "accept", "down"}]
  /\ pc[0] = "connect" /\ \A c \in Client : pc[c] # "connect"
  /\ list = [n \in Node |-> InitialList]
  /\ ite = [n \in Node |-> IF n = 0 THEN 1 ELSE 0]
  /\ retry = [n \in Node |-> 0]
  /\ next = [n \in Node |-> NoNode]
  /\ from = [n \in Node |-> NoNode]
  /\ inbox = [n \in Node |-> <<>>]
  /\ myName = [c \in Client |-> 0]
  /\ faults \in FaultSets

Gone(n) == pc[n] \in {"down", "exit"}
Goto(n, l) == pc' = [pc EXCEPT ![n] = l]
Exit(n) == Goto(n, "exit")

\* Nobody will send to n any more: select() sees the end of file and then times out
Closed(n) == from[n] # NoNode /\ (Gone(from[n]) \/ next[from[n]] # n)

(***************************************************************************)
(* The next candidate of node n.  The server has only its list; a client   *)
(* at the end of its list takes the server.                                *)
(***************************************************************************)
Marked(flags, h, flag) == [flags EXCEPT ![h] = flag]
Target(n) == IF next[n] = 0 THEN 0 ELSE ite[n]     \* 0: isNextServer

\* Operators named X_y are plausible slips in X, kept to see which property notices
\* them; no specification uses one.

\* pop_entry() finds an entry behind h
HasEntry_offByOne(h) == h <= NoHosts
HasEntry(h) == h + 1 <= NoHosts
NoMoreTries_early(n) == retry[n] + 2 >= MAXRETRY
NoMoreTries(n) == retry[n] + 1 = MAXRETRY

\* find_next_and_newnet() of a client whose list is flags and whose iterator is at h
FindNext_skips(c, flags, h) ==
  IF HasEntry(h + 1)
  THEN /\ ite' = [ite EXCEPT ![c] = h + 2]
       /\ list' = [list EXCEPT ![c] = Marked(flags, h + 2, "CALL")]
       /\ next' = [next EXCEPT ![c] = NoNode]
  ELSE /\ ite' = [ite EXCEPT ![c] = h]
       /\ list' = [list EXCEPT ![c] = flags]
       /\ next' = [next EXCEPT ![c] = 0]
FindNext(c, flags, h) ==
  IF HasEntry(h)
  THEN /\ ite' = [ite EXCEPT ![c] = h + 1]
       /\ list' = [list EXCEPT ![c] = Marked(flags, h + 1, "CALL")]
       /\ next' = [next EXCEPT ![c] = NoNode]
  ELSE /\ ite' = [ite EXCEPT ![c] = h]
       /\ list' = [list EXCEPT ![c] = flags]
       /\ next' = [next EXCEPT ![c] = 0]

(***************************************************************************)
(* open_connect().  A node that runs has its data port open, the server    *)
(* only when it has sent the RING packet (open_accept()); connect() is     *)
(* tried again until then.                                                 *)
(***************************************************************************)
Listens(n) == IF n = 0 THEN pc[0] \notin {"connect", "send_ring", "exit"} ELSE ~Gone(n)
Connected(n) ==
  LET t == Target(n)
  IN /\ pc[n] = "connect" /\ Listens(t)
     /\ t = 0 => 1 \in GET_NAME_LEN
     /\ Goto(n, "send_ring")
     /\ next' = [next EXCEPT ![n] = t] /\ from' = [from EXCEPT ![t] = n]
     /\ UNCHANGED <<list, ite, retry, inbox, myName, faults>>

NotConnected(n) == pc[n] = "connect" /\ Gone(Target(n))

ServerNext ==
  LET h == ite[0]
      flags == Marked(list[0], h, "NOAVIL")
  IN IF ~HasEntry(h)
     THEN Exit(0) /\ list' = [list EXCEPT ![0] = flags] /\ UNCHANGED <<ite, retry, next>>
     ELSE /\ list' = [list EXCEPT ![0] = Marked(flags, h + 1, "CALL")]
          /\ ite' = [ite EXCEPT ![0] = h + 1]
          /\ retry' = [retry EXCEPT ![0] = @ + 1]
          /\ next' = [next EXCEPT ![0] = NoNode]
          /\ IF NoMoreTries(0) THEN Exit(0) ELSE Goto(0, "connect")

ServerConnectFails ==
  NotConnected(0) /\ ServerNext /\ UNCHANGED <<from, inbox, myName, faults>>

\* After MAXRETRY hosts the client reports to the server and exits
ClientConnectFails(c) ==
  /\ NotConnected(c) \/ (pc[c] = "connect" /\ Target(c) = 0 /\ 0 \in GET_NAME_LEN)
  /\ IF Target(c) = 0 THEN Exit(c) /\ UNCHANGED <<list, ite, retry, next>>
     ELSE /\ FindNext(c, Marked(list[c], ite[c], "NOAVIL"), ite[c])
          /\ retry' = [retry EXCEPT ![c] = @ + 1]
          /\ IF NoMoreTries(c) THEN Exit(c) ELSE Goto(c, "connect")
  /\ UNCHANGED <<from, inbox, myName, faults>>

(***************************************************************************)
(* Sending.  What is sent to a node that is gone may still leave this one. *)
(***************************************************************************)
Deliver(n, packet) ==
  inbox' = IF Gone(next[n]) THEN inbox ELSE [inbox EXCEPT ![next[n]] = Append(@, packet)]
MayFail(n) == Gone(next[n]) \/ "lost" \in faults

SendRing(n) ==
  /\ pc[n] = "send_ring"
  /\ Deliver(n, RingPacket(list[n]))
  /\ Goto(n, IF n = 0 THEN "recv_ring" ELSE "recv_host")
  /\ UNCHANGED <<list, ite, retry, next, from, myName, faults>>

ServerSendRingLost ==
  /\ pc[0] = "send_ring" /\ MayFail(0)
  /\ ServerNext /\ UNCHANGED <<from, inbox, myName, faults>>

\* The client keeps its DataOut and asks for another: the constructor exits
\* ("DataOut doubly exist").  With the server as next host there is no other.
ClientSendRingLost(c) ==
  /\ pc[c] = "send_ring" /\ MayFail(c) /\ Exit(c)
  /\ UNCHANGED <<list, ite, retry, next, from, inbox, myName, faults>>

\* HOST and FILE packets are sent once
Send(n, l, packet, goto) ==
  /\ pc[n] = l
  /\ \/ Deliver(n, packet) /\ Goto(n, goto)
     \/ MayFail(n) /\ Exit(n) /\ inbox' = inbox
  /\ UNCHANGED <<list, ite, retry, next, from, myName, faults>>

(***************************************************************************)
(* Receiving                                                               *)
(***************************************************************************)
Receives(n, kind) == inbox[n] # <<>> /\ Head(inbox[n]).kind = kind
Take(n) == inbox' = [inbox EXCEPT ![n] = Tail(@)]
Received(n) == Head(inbox[n]).flags

\* search_flag(CALL_HOST) from the first entry; without a hit the iterator
\* is left at the last one
CallHost(flags) == Min({h \in Node : flags[h] = "CALL"} \cup {NoHosts})

ClientRecvRing_unmarked(c) ==
  LET me == CallHost(Received(c))
  IN /\ pc[c] = "accept" /\ Receives(c, "RING") /\ Take(c)
     /\ myName' = [myName EXCEPT ![c] = me]
     /\ FindNext(c, Received(c), me)
     /\ Goto(c, "connect") /\ UNCHANGED <<retry, from, faults>>
ClientRecvRing(c) ==
  LET me == CallHost(Received(c))
  IN /\ pc[c] = "accept" /\ Receives(c, "RING") /\ Take(c)
     /\ myName' = [myName EXCEPT ![c] = me]
     /\ FindNext(c, Marked(Received(c), me, "AVAIL"), me)
     /\ Goto(c, "connect") /\ UNCHANGED <<retry, from, faults>>

\* A client keeps the HOST packet as its list; the server copies the flags
\* (flag_sync())
RecvList_keepsOld(n, l, kind, goto) ==
  /\ pc[n] = l /\ Receives(n, kind) /\ Take(n)
  /\ Goto(n, goto)
  /\ UNCHANGED <<list, ite, retry, next, from, myName, faults>>
RecvList(n, l, kind, goto) ==
  /\ pc[n] = l /\ Receives(n, kind) /\ Take(n)
  /\ list' = [list EXCEPT ![n] = Received(n)]
  /\ Goto(n, goto)
  /\ UNCHANGED <<ite, retry, next, from, myName, faults>>

\* Having sent the HOST packet a client looks in it for the name its iterator was at,
\* from the first entry on (search_name()).  Of every entry as many characters are
\* compared as the name there has, so that a beginning is enough - or none, when
\* get_name_len() returns 0.
SearchName(h) ==
  (IF 0 \in GET_NAME_LEN THEN {0} ELSE {})
  \cup (IF 1 \in GET_NAME_LEN THEN {Min({k \in Node : h \in NamePrefix[k]})} ELSE {})

ClientSendHost(c) ==
  /\ pc[c] = "send_host"
  /\ \/ /\ Deliver(c, HostPacket(list[c]))
        /\ \E h \in SearchName(ite[c]) : ite' = [ite EXCEPT ![c] = h]
        /\ IF NoHosts + 1 > MAX_PACKET_ENTRY_NO THEN Exit(c) ELSE Goto(c, "recv_file")
     \/ MayFail(c) /\ Exit(c) /\ UNCHANGED <<inbox, ite>>
  /\ UNCHANGED <<list, retry, next, from, myName, faults>>

RecvFile(n, goto) ==
  /\ pc[n] = "recv_file" /\ Receives(n, "FILE") /\ Take(n) /\ Goto(n, goto)
  /\ UNCHANGED <<list, ite, retry, next, from, myName, faults>>

\* With no connection yet a node waits in accept(), which has no timeout.  That of
\* recv_packet() is long enough unless packets get lost or a client has given up.
TimesOut(n) ==
  /\ from[n] # NoNode
  /\ "lost" \in faults \/ (pc[n] # "accept" /\ \E c \in Client : pc[c] = "exit")

RecvFails(n) ==
  /\ pc[n] \in {"accept", "recv_ring", "recv_host", "recv_file"}
  /\ inbox[n] = <<>>
  /\ Closed(n) \/ TimesOut(n)
  /\ Exit(n)
  /\ UNCHANGED <<list, ite, retry, next, from, inbox, myName, faults>>

(***************************************************************************)
(* The programs                                                            *)
(***************************************************************************)
ServerStep ==
  \/ Connected(0) \/ ServerConnectFails
  \/ SendRing(0) \/ ServerSendRingLost
  \/ RecvList(0, "recv_ring", "RING", "send_host")
  \/ Send(0, "send_host", HostPacket(list[0]), "recv_host")
  \/ RecvList(0, "recv_host", "HOST", "send_file")
  \/ Send(0, "send_file", FilePacket, "recv_file")
  \/ RecvFile(0, "transfer")
  \/ RecvFails(0)

ClientStep(c) ==
  \/ ClientRecvRing(c)
  \/ Connected(c) \/ ClientConnectFails(c)
  \/ SendRing(c) \/ ClientSendRingLost(c)
  \/ RecvList(c, "recv_host", "HOST", "send_host")
  \/ ClientSendHost(c)
  \/ RecvFile(c, "send_file")
  \/ Send(c, "send_file", FilePacket, "transfer")
  \/ RecvFails(c)

\* a client's machine goes down, before it has begun the transfer
Crash(c) ==
  /\ "crash" \in faults /\ ~Gone(c) /\ pc[c] # "transfer" /\ Goto(c, "down")
  /\ UNCHANGED <<list, ite, retry, next, from, inbox, myName, faults>>

\* Nothing more happens when every node transfers or has exited, but for clients
\* nobody called, and a server in accept() for a ring that no client will close
Next == ServerStep \/ \E c \in Client : ClientStep(c) \/ Crash(c)

Spec == Init /\ [][Next]_vars /\ WF_vars(ServerStep) /\ \A c \in Client : WF_vars(ClientStep(c))

(***************************************************************************)
(* Properties                                                              *)
(***************************************************************************)
\* Every variable keeps its type: the iterators stay on the list.
TypeOK ==
  /\ pc \in [Node -> {"connect", "send_ring", "accept", "recv_ring", "send_host", "recv_host",
                      "send_file", "recv_file", "transfer", "exit", "down"}]
  /\ list \in [Node -> [Node -> Flag]] /\ ite \in [Node -> Node]
  /\ retry \in [Node -> 0 .. MAXRETRY]
  /\ next \in [Node -> 0 .. NoNode] /\ from \in [Node -> 0 .. NoNode]
  /\ \A n \in Node : \A i \in DOMAIN inbox[n] : inbox[n][i].kind \in {"RING", "HOST", "FILE"}
  /\ myName \in [Client -> Node] /\ faults \in FaultSets

\* The CALL_HOST flag finds the right host: no client takes another one's name
\* from the RING packet (buildring() of Client.cpp, search_flag).
FindsItself == \A c \in Client : myName[c] # 0 => myName[c] = c

Available == {c \in Client : list[0][c] = "AVAIL"}
After(n) == {c \in Available : c > n}
RingNext(n) == IF After(n) = {} THEN 0 ELSE Min(After(n))

\* When the server begins the transfer the ring is closed: from the server through
\* the hosts that its list calls available, in the order of the list, back to the
\* server, over all retries.  With no fault these are the hosts that run.
RingIsClosed ==
  pc[0] = "transfer" =>
    /\ \A n \in Available \cup {0} : next[n] = RingNext(n) /\ from[RingNext(n)] = n
    /\ faults = {} => Available = {c \in Client : pc[c] # "down"}

\* Server and clients start the transfer with the same host list, from which
\* recover_sending() will choose: no flag was changed behind another node's back.
ListsAgree == \A c \in Client : pc[c] = "transfer" => list[c] = list[0]

\* With no fault, unless MAXRETRY hosts in a row do not run or the list is too long,
\* every host that runs gets into the ring and everybody begins the transfer.
Buildable ==
  /\ NoHosts + 1 <= MAX_PACKET_ENTRY_NO
  /\ \E c \in Client : pc[c] # "down"
  /\ \A c \in Client : c + MAXRETRY - 1 <= NoHosts =>
       \E d \in c .. c + MAXRETRY - 1 : pc[d] # "down"
Built == \A n \in Node : pc[n] \in {"transfer", "down"}

\* ... unless the last of them has no name for the server, since get_name_len()
\* returned 0: then that host exits when it should close the ring, and the server
\* waits in accept() for ever (Packet.h:165, Client.cpp:95-135, Net.cpp:524).
NoServerName ==
  /\ 0 \in GET_NAME_LEN /\ pc[0] = "recv_ring" /\ from[0] = NoNode
  /\ \E c \in Client :
       pc[c] = "exit" /\ next[c] = 0 /\ \A d \in Client : d > c => pc[d] = "down"
RingIsBuilt == Buildable /\ faults = {} => <>(Built \/ []NoServerName)

\* Claim of Packet.h:165, "length without '\0'": with names that are read as long as
\* they are, nothing but hosts that do not run keeps the ring from being built.
LengthOfTheName == Buildable /\ faults = {} => <>Built
=============================================================================
